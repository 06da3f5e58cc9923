SPECIFICATION CyclesSpec
CONSTANTS
  Modules <- MCModules
  NoFile = NoFile
  MaxPaths = 2
  MaxHotspots = 2
  Inputs <- MCInputs
  MaxCyclesPerScc = 7
  MaxCycleDepth = 3
  max_subsystem_size = 3
  support_in_degree = 2
  directory_of <- MCDirectory
  stem_of <- MCStems
  graph_nodes <- MCNodes
  graph_edges <- MCEdges
  BlastStarts <- MCStarts
  BlastDepths <- MCDepths
  SrcDir = 1
  NamedMembers = 5
INVARIANTS
  ComponentsExact
  CyclesExact
  BlastExact
  ClustersAreContainment
  LoopsAreDiagnosed
CHECK_DEADLOCK FALSE
