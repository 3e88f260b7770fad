SPECIFICATION LiveSpec
CONSTANTS
  Networks = {home}
  Modes = {"STA", "AP", "APSTA"}
  QueueLen = 3
  MaxCalls = 5
  MaxCodes = 7
INVARIANTS TypeOK FlagsAgree StateIsLink
PROPERTIES AddressIsTold
CHECK_DEADLOCK FALSE
