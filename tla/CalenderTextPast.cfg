SPECIFICATION Spec
CONSTANTS
  Lists <- MCLists3
  MaxClock = 4
  Pages = 1
  SIZE_MAX = 15
  Mapped = 3
INVARIANTS PastIsLastEnded
CHECK_DEADLOCK FALSE
