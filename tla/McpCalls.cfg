\* Two threads, two questions, two clients, two faults; children that may ignore that they are told to exit.
SPECIFICATION FairSpec
CONSTANTS
    a1 = a1
    a2 = a2
    Callers <- TwoCallers
    NoCaller = NoCaller
    MaxAsks = 2
    MaxClients = 2
    MaxFaults = 2
INVARIANTS
    TypeOK
    AnswersMatch
    WaiterIsWatched
    OneConnection
PROPERTIES
    EveryAskEnds
    EveryChildGoes
CHECK_DEADLOCK FALSE
