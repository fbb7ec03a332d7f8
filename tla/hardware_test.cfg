SPECIFICATION FairSpec
CONSTANTS
  TestPresses = 1
  TestLength = 3
  MaxPresses = 8
  MaxEchoes = 3
  MaxRepeats = 1
CHECK_DEADLOCK FALSE
INVARIANTS TypeOK EchoIsOwn PressesPayForSteps
PROPERTIES EchoAnswered EveryMessageArrives
