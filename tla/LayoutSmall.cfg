\* A small graph sent in every order, with buffers that overflow and one
\* symbol that is sent twice.
SPECIFICATION Spec
CONSTANTS
    d1 = d1
    d2 = d2
    hub = hub
    file = file
    s1 = s1
    s2 = s2
    memory = memory
    NoNode = NoNode
    Node <- SmallNodes
    KindOf <- SmallKind
    DomainOf <- SmallDomain
    ParentOf <- SmallParent
    Edge <- SmallEdges
    Resent <- SentTwice
    Reservation = 1
    SymbolsCap = 2
    EdgesCap = 2
    MaxRequests = 1
INVARIANTS
    TypeOK
    LinesHaveEnds
    SymbolsFollowTheirFile
    NothingReadyWaits
PROPERTY SlotIsFinal
CHECK_DEADLOCK FALSE
