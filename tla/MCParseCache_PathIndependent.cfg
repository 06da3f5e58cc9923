SPECIFICATION Spec
CONSTANTS
  Paths <- MCPaths
  Hashes = {h, bad}
  Unparsable = {bad}
  Kind <- MCKind
  Workers = {w1, w2}
  Pids = {1}
  Missing = Missing
  Torn = Torn
  None = None
  MaxCrashes = 1
INVARIANT PathIndependent
