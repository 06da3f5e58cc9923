SPECIFICATION Spec
CONSTANTS
  NoPath = NoPath
  NoFile = NoFile
  GitWindowDays = 3
  GitMaxCommits = 4
  MaxRenames = 2
  MaxCommitFiles = 2
  MinSupport = 2
  MinJaccard = 35
  MaxEvidence = 1
  MinRankedCommits = 2
  Paths <- MCPaths
  Messages <- MCMessages
  Plain <- MCTypo
  Thresholds = {5, 9}
  FirstLog <- MCFirstLog
  FirstDbs <- MCFirstDbs
  MaxCommits = 4
  MaxDays = 5
  MaxEdited = 2
  FileAt <- MCFileAt
  MeasuresAt <- MCMeasuresAt
  ImportsAmong <- MCImportsAmong
  DiagnoseConfig <- MCConfig
  Modules = {}
  MaxPaths = 20
  MaxHotspots = 10
  MaxCyclesPerScc = 7
  MaxCycleDepth = 4
  SrcDir = 1
  NamedMembers = 5
INVARIANTS
  HistoryFollowsFiles
  RanksFollowMeasures
  HistoryOnlyRaises
PROPERTIES
  VerdictsAreKept
CHECK_DEADLOCK FALSE
