CONSTANTS
  Graphs <- TheGraphs
  Partial <- ThePartial
  High = 2
  Low = 1
  Window = 2
  MaxChanges = 3
  MaxFaults = 2
SPECIFICATION FairSpec
INVARIANTS
  TypeOK
  CanvasHoldsTheGraph
PROPERTIES
  FetchSafety
  EveryLoadEnds
CHECK_DEADLOCK FALSE
