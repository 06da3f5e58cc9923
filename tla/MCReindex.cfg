SPECIFICATION ReindexSpec
CONSTANTS
  None = None
  Absent = Absent
  MaxSnapshots = 3
  Paths <- MCPaths
  DefinedIn <- MCDefinedIn
  Contents <- MCContents
  Layouts <- MCLayouts
  Extractions <- MCExtractions
INVARIANTS
  GraphMirrorsRows
  EdgesResolve
  CanAlwaysCommit
PROPERTIES
  ImplementsContract
  NoOpWhenUnchanged
  ParseFailureRetains
CHECK_DEADLOCK FALSE
