\* One request thread, a roster change, two epochs and one fault: a crash, or an error of a drain.
SPECIFICATION Spec
CONSTANTS
    r1 = r1
    r2 = r2
    Requests <- OneRequest
    NoRequest = NoRequest
    MaxEpoch = 2
    MaxRoster = 2
    QueueCap = 1
    Bridge = {TRUE}
    Faults <- RebuildFaults
    MaxFaults = 1
INVARIANTS
    TypeOK
    EndedGraphIsWhole
CHECK_DEADLOCK FALSE
