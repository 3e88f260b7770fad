SPECIFICATION FairSpec
CONSTANTS
    Networks = {n1}
    NoNetwork = NoNetwork
    QueueMax = 2
    WifiQueueMax = 2
    MaxDisconnects = 1
    MaxTrouble = 2
    n1 = n1
CHECK_DEADLOCK FALSE
INVARIANT TypeOK
INVARIANT LinkBelief
INVARIANT ProvisioningAlive
INVARIANT QuietOutside
PROPERTY FailureRestarts
PROPERTY DisconnectReleases
