SPECIFICATION Spec
CONSTANTS
  TEMPLATES <- MCTemplates
  JsTs <- MCJsTs
  string_length <- MCStringLength
  NoTarget = NoTarget
  Undeclared = Undeclared
  Anyone = Anyone
  NoContract = NoContract
  module_capabilities <- MCCapabilities
  XNotation = 99
  MIN_COUPLED_FILE_PAIRS = 2
  First <- MCFirst
  Contracts <- MCContracts
  Graphs <- MCGraphs
  baseline_file_name <- MCFileName
  MODULE_CONTAINERS <- MCContainers
  ExcludedComponents = {}
  normalize_module_name <- MCNames
  RootModule = 90
INVARIANTS
  VerdictsAgree
  SuggestionHolds
PROPERTIES
  GateSound
  BaselineOnlyShrinks
  FreezeSettles
CHECK_DEADLOCK FALSE
