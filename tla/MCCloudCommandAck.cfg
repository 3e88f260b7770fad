SPECIFICATION Spec
CONSTANTS
  Kinds <- AckKinds
  Controls <- SmallControls
  DisenableAutoAck = TRUE
  MaxFailures = 0
  MaxCommands = 1
  MaxReports = 0
INVARIANTS AnsweredOnce
CHECK_DEADLOCK FALSE
