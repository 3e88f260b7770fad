SPECIFICATION Spec
CONSTANTS
  Kinds <- AllKinds
  Controls <- SmallControls
  DisenableAutoAck = FALSE
  MaxFailures = 1
  MaxCommands = 2
  MaxReports = 2
INVARIANTS AckNamesItsCommand AnsweredOnce NoForgedAnswer OutputsAreLastTold MemoryReturned
CHECK_DEADLOCK FALSE
