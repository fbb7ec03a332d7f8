SPECIFICATION Spec
CONSTANTS
  anna = anna
  bo = bo
  NoCard = NoCard
  Cards <- TwoCards
  ResponseCodes <- Charges
  EchoBytes <- NoEcho
  OtherCommands <- Unnamed
  TimeoutTicks = 1
  MaxPresentations = 2
  MaxOutages = 1
SYMMETRY Interchangeable
INVARIANTS TypeOK NoForeignVerdict FieldsFollowVerdict OneScanPerPresentation WholeIdentifier
