SPECIFICATION Spec
CONSTANTS
    Sessions = {s1}
    App = App
    NoHandle = NoHandle
    ActivityFlags = {TRUE, FALSE}
    MsgId <- MCMsgId
    LastTopic = 3
    MaxUtcRepeat = 1
    InitWaits = TRUE
    s1 = s1
INVARIANT TypeOK
INVARIANT SubscribedBeforeUtc
INVARIANT AnsweredBeforeOnline
INVARIANT FlagsAgree
INVARIANT SafeAlone
PROPERTY ReportOrder
