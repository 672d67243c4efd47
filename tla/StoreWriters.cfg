CONSTANTS
  child = child
  http = http
  Workers <- TheWorkers
  Builders <- TheBuilders
  Graphs <- TheGraphs
  MaxNode = 3
  ChunkSize = 2
  MaxRuns = 4
  MaxFaults = 2
SPECIFICATION Spec
INVARIANTS
  TypeOK
  LayoutIsOneRun
  PyramidIsWhole
  UndisturbedRunIsStored
PROPERTY
  ShelfSafety
CHECK_DEADLOCK FALSE
