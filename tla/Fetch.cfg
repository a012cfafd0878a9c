SPECIFICATION Spec
CONSTANTS
  DayLength = 4
  LastDay = 2
  StartTime = 5
  MaxClock = 8
  Shift = 0
  Schedules <- MCPrivateSchedules
  Answers <- MCAnyAnswer
  Configs = {"ok", "missing", "incomplete", "noSsid"}
  MaxFaults = 1
  MaxChanges = 1
INVARIANTS TypeOK ListIsFresh ListInOrder FetchInv
PROPERTIES NoMeetingBeforeItsDay
