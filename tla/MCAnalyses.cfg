SPECIFICATION Spec
CONSTANTS
  FlowDepth = 3
  MinTokens = 2
  MinLines = 1
  CrossFileOnly = FALSE
  MaxPathLiterals = 1
  MaxNodes = 4
  MaxInChain = 3
  MaxFacts = 5
  MaxEvents = 3
  MaxTokens = 7
  MaxExamples = 7
  MaxRecords = 5
  MODULE_CONTAINERS <- MCContainers
  ExcludedComponents <- MCExcluded
  normalize_module_name <- MCNames
  RootModule = "root"
CHECK_DEADLOCK FALSE
INVARIANTS
  FactsAttributed
  ComplexityExact
  WarningsExact
  StructureExact
