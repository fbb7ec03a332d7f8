SPECIFICATION Spec
CONSTANTS
  IntSize = 65536
  InnerLimit = 50000
  OuterLimit = 10
CHECK_DEADLOCK FALSE
INVARIANT TimesOutExactly
