SPECIFICATION Spec
CONSTANTS
  N = 7
  Files <- Found
  Options <- CommandLines
  MaxSteps = 2
  MaxLines = 1
INVARIANTS
  OthersComplete
CHECK_DEADLOCK FALSE
