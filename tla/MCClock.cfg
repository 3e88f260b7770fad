SPECIFICATION Spec
CONSTANTS
  Times <- SomeTimes
  Zones <- SomeZones
  MaxSets = 1
  LoopPeriod = 500
  MaxTicks = 5
INVARIANTS StampIsTime WeekIsDay
PROPERTIES SetNeverBehind
CHECK_DEADLOCK FALSE
