\* One build, any two faults, a request thread that may not ask: how a build
\* ends.
SPECIFICATION FairSpec
CONSTANTS
    r1 = r1
    r2 = r2
    Requests <- OneRequest
    NoRequest = NoRequest
    MaxEpoch = 1
    MaxRoster = 2
    QueueCap = 3
    Bridge = {TRUE, FALSE}
    Faults <- ChildFaults
    MaxFaults = 2
PROPERTIES
    EveryBuildEnds
CHECK_DEADLOCK FALSE
