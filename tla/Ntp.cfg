SPECIFICATION Spec
CONSTANTS
  Second = 3
  Wrap = 14
  Half = 7
  Era = 16
  SEVENZYYEARS = 12
  MaxTimeout = 3
  ByteMax = 4
  updateInterval = 5
  MaxDelay = 6
  StartTime = 3
  MaxClock = 20
  MaxRequests = 2
  Day = 1
  Offsets <- MCOffsets
INVARIANTS TypeOK EpochIsClose FreshIsExact ReturnsInTime DateIsCounted TimerIsKept
