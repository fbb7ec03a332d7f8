SPECIFICATION FairSpec
CONSTANTS
  anna = anna
  bo = bo
  NoCard = NoCard
  Cards <- OneCard
  ResponseCodes <- OneCode
  EchoBytes <- SomeEcho
  OtherCommands <- ReadOfAnswer
  TimeoutTicks = 2
  MaxPresentations = 1
  MaxOutages = 1
PROPERTIES FollowsDialog CustomerAnswered LossIsAnnounced LinkRecovers
