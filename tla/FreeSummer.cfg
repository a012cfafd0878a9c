SPECIFICATION Spec
CONSTANTS
  DayLength = 4
  LastDay = 2
  StartTime = 5
  MaxClock = 8
  Shift = 1
  Schedules <- MCSchedules
  Answers <- MCHonest
  Configs = {"ok"}
  MaxFaults = 0
  MaxChanges = 0
PROPERTIES FreeIsTrue
