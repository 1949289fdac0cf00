SPECIFICATION Spec
CONSTANTS
  Procs = {r1, r2, user}
  Root = {r1, r2}
  Keys = {k1}
  Files = {f1, f2, f3}
  Depth = 2
  None = None
  Failures = {"error", "short", "kill", "power"}
  MaxFaults = 2
CONSTRAINT UpToSlip
SYMMETRY Symmetry
INVARIANTS
  TypeOK
  Kept
  LoadSucceeds
CHECK_DEADLOCK FALSE
