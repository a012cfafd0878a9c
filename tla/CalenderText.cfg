SPECIFICATION Spec
CONSTANTS
  Lists <- MCLists3
  MaxClock = 4
  Pages = 2
  SIZE_MAX = 15
  Mapped = 3
INVARIANTS TypeOK WalkInv NothingSkipped
PROPERTIES PanelPromise CallEnds
CHECK_DEADLOCK FALSE
