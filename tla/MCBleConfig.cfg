SPECIFICATION FairSpec
CONSTANTS
    Runs = {r1, r2}
    NoRun = NoRun
    QueueMax = 5
    StartWaits = TRUE
    MemoryFails = TRUE
    r1 = r1
    r2 = r2
INVARIANT TypeOK
INVARIANT QueueInUseExists
INVARIANT ServedWhileOn
INVARIANT LeftIsLast
PROPERTY StopEndsWorker
PROPERTY LeftIsReported
