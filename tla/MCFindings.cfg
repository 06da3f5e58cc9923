SPECIFICATION Spec
CONSTANTS
  Entry = {1}
  FileKind <- MCFileKind
  DefaultName = 98
  AllNames = 99
  ModuleOf <- MCModuleOf
  Packages = {9}
  Boundaries <- MCBoundaries
  BannedImports <- MCBannedImports
  TestFiles = {4}
  Measures <- MCMeasures
  MaxEvidence = 2
  Family <- MCFamily
  Receivers = {9}
  Idioms <- MCIdioms
  Calls <- MCCalls
  MinForeign = 3
  OwnRatio = 2
  MediumForeign = 6
  ClassLow = 2
  ClassMedium = 3
  MinNames = 3
  MinFunctions = 3
  MediumNames = 4
  MediumFunctions = 4
  MaxNames = 12
  Trees <- MCTrees
  Statements <- MCStatements
  MaxEdits = 1
INVARIANTS
  DeadCodeExact
  ReportIsComplete
  ClumpsExact
PROPERTY
  FixKeepsImports
CHECK_DEADLOCK FALSE
