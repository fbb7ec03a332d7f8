SPECIFICATION Spec
CONSTANTS
  anna = anna
  bo = bo
  NoCard = NoCard
  Cards <- TwoCards
  ResponseCodes <- TwoCodes
  EchoBytes <- NoEcho
  OtherCommands = {}
  TimeoutTicks = 1
  MaxPresentations = 2
  MaxOutages = 0
INVARIANT VerdictIsCurrent
