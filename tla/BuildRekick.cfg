\* Two requests that both see a new roster: a build is killed and retried
\* while the drain of the first still has messages.
SPECIFICATION Spec
CONSTANTS
    r1 = r1
    r2 = r2
    Requests <- TwoRequests
    NoRequest = NoRequest
    MaxEpoch = 2
    MaxRoster = 1
    QueueCap = 1
    Bridge = {TRUE}
    Faults <- NoFault
    MaxFaults = 0
SYMMETRY RequestSymmetry
INVARIANTS
    StaleAtMostOnce
    OneBuilder
CHECK_DEADLOCK FALSE
