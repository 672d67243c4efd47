SPECIFICATION FairSpec
CONSTANTS
    p1 = p1
    p2 = p2
    c1 = c1
    c2 = c2
    Producers <- OneProducer
    Clients <- OneClient
    MaxIds = 3
    MaxEvents = 6
    ReplayLimit = 2
    MaxDrops = 1
    MaxRestarts = 1
    EmitMayFail = FALSE
PROPERTIES
    EveryRowArrives
    FeedSafety
CHECK_DEADLOCK FALSE
