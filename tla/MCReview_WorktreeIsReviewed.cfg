SPECIFICATION ReviewSpec
CONSTANTS
  Modules <- MCModules
  NoFile = NoFile
  MaxPaths = 20
  MaxHotspots = 10
  MaxCyclesPerScc = 1
  MaxCycleDepth = 3
  MinTokens = 2
  MinLines = 2
  CrossFileOnly = FALSE
  Trees <- MCTrees
  Insertions <- MCInsertions
  MaxEdits = 3
  MaxSnapshots = 2
  MaxLines = 5
  hash <- MCHash
CONSTRAINT Compared
INVARIANT WorktreeIsReviewed
CHECK_DEADLOCK FALSE
