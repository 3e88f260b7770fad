SPECIFICATION LiveSpec
CONSTANTS
    Networks = {home, office}
    Empty = Empty
    Gone = Gone
    MaxEvents = 2
    MaxCuts = 1
INVARIANTS TypeOK SettingsAgree OnlineIsSaved
PROPERTIES ReturnsToLastNetwork SaveBegins
CHECK_DEADLOCK FALSE
