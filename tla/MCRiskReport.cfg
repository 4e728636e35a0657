SPECIFICATION Spec
CONSTANTS
  Readings <- MCReadings
  Missing <- MCMissing
  Unreadable <- MCUnreadable
  One = 100
  Others = {"none", "stale"}
  Limits = {0, 24}
  Hour = 2
  Day = 4
  WindowMin <- MCWindowMin
  WindowMax <- MCWindowMax
  HourlyFirst = 2
  DailyFirst = 2
  SinkDays = 2
  SinkFirst = 3
  FreshTicks = 1
  MaxTick = 6
  MaxLag = 2
INVARIANTS
  OutflowHappened
  FallIsSeen
  VerdictIsBacked
CHECK_DEADLOCK FALSE
