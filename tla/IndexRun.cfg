SPECIFICATION FairSpec
CONSTANTS
  None = None
  MaxEdits = 2
  MaxCommits = 1
  MaxStops = 1
INVARIANTS
  StoreAgrees
PROPERTIES
  Converges
