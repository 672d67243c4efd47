SPECIFICATION Spec
CONSTANTS
  Canonical <- ACanonical
  Tools <- ATools
  Rows <- ARows
  ChunkSize = 2
  MemoryLimit = 3
  MaxHeat = 2
  Projects <- AProjects
  Root <- ARoot
  Home <- AHome
  Symbols <- ASymbols
  References <- AReferences
  BatchSize = 2
  SourceRows <- ASourceRows
  SourceRoot <- ASourceRoot
  MaxRows = 4
INVARIANTS
  TypeOK
  BaselineIsValid
  NoMemoryIsPassedOver
  DiscardLosesNothing
  LinesHaveEnds
  FilesAreOneNode
CHECK_DEADLOCK FALSE
