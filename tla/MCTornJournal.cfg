SPECIFICATION Spec
CONSTANTS
  Procs = {user}
  Root = {}
  Keys = {k1, k2}
  Files = {f1, f2, f3}
  Depth = 2
  None = None
  Failures = {"short", "error"}
  MaxFaults = 2
INVARIANTS
  EarlierPreserved
CHECK_DEADLOCK FALSE
