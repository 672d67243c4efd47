SPECIFICATION Spec
CONSTANTS
    p1 = p1
    p2 = p2
    c1 = c1
    c2 = c2
    Producers <- TwoProducers
    Clients <- OneClient
    MaxIds = 3
    MaxEvents = 2
    ReplayLimit = 2
    MaxDrops = 2
    MaxRestarts = 1
    EmitMayFail = TRUE
SYMMETRY ThreadSymmetry
INVARIANTS
    TypeOK
    DeliveredOnceInOrder
    ResumePointIsDurable
CHECK_DEADLOCK FALSE
