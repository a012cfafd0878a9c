SPECIFICATION FairSpec
CONSTANTS
  DayLength = 4
  LastDay = 2
  StartTime = 7
  MaxClock = 10
  Shift = 0
  Schedules <- MCChangingSchedules
  Answers <- MCHonest
  Configs = {"ok"}
  MaxFaults = 1
  MaxChanges = 2
PROPERTIES FreeIsTrue ScreenSettles
