SPECIFICATION Spec
CONSTANTS
  Waits = FALSE
  MaxMessages = 2
  MaxCorrupted = 0
  MaxConfigured = 0
  MaxSelected = 0
CHECK_DEADLOCK FALSE
INVARIANT NewMessageIsSent
