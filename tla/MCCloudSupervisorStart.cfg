SPECIFICATION Spec
CONSTANTS
    Networks = {n1,n2}
    NoNetwork = NoNetwork
    QueueMax = 2
    WifiQueueMax = 2
    MaxDisconnects = 1
    MaxTrouble = 3
    n1 = n1
    n2 = n2
CHECK_DEADLOCK FALSE
INVARIANT StartUsesConfig
