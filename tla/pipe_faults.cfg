SPECIFICATION Spec
CONSTANTS
  Waits = FALSE
  MaxMessages = 4
  MaxCorrupted = 2
  MaxConfigured = 1
  MaxSelected = 1
CHECK_DEADLOCK FALSE
INVARIANTS TypeOK LossIsAccountedFor
PROPERTY IsMailbox
