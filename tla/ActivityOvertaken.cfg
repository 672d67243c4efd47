SPECIFICATION Spec
CONSTANTS
    p1 = p1
    p2 = p2
    c1 = c1
    c2 = c2
    Producers <- TwoProducers
    Clients <- OneClient
    MaxIds = 2
    MaxEvents = 6
    ReplayLimit = 2
    MaxDrops = 0
    MaxRestarts = 0
    EmitMayFail = FALSE
INVARIANTS
    NothingOvertaken
CHECK_DEADLOCK FALSE
