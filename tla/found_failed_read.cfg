SPECIFICATION Spec
CONSTANTS
  anna = anna
  bo = bo
  NoCard = NoCard
  Cards <- OneCard
  ResponseCodes <- OneCode
  EchoBytes <- NoEcho
  OtherCommands = {}
  TimeoutTicks = 1
  MaxPresentations = 1
  MaxOutages = 0
INVARIANT FailedReadIsNotReported
