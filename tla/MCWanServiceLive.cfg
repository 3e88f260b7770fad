SPECIFICATION FairSpec
CONSTANTS
    Sessions = {s1}
    App = App
    NoHandle = NoHandle
    ActivityFlags = {TRUE}
    MsgId <- MCMsgId
    LastTopic = 1
    MaxUtcRepeat = 1
    InitWaits = TRUE
    s1 = s1
PROPERTY LaunchResolves
PROPERTY TornDown
