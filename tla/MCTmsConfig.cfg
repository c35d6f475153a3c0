SPECIFICATION Spec
CONSTANTS
  p = p
  q = q
  k1 = k1
  k2 = k2
  Calls = {1, 2}
  Procs = {p, q}
  ProcOf <- MCProcOf
  Space <- MCSpace
  Keys = {k1, k2}
  Configs = {"v1"}
  Contract <- MCContract
  Wants <- MCWants
  Writers = {w}
  MaxImports = 1
INVARIANTS
  MutualExclusion
  ReadyMeansProbed
PROPERTIES
  WaitersAreServed
CHECK_DEADLOCK FALSE
