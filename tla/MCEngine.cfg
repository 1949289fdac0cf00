SPECIFICATION Spec
CONSTANTS
  N = 7
  Files <- Found
  Options <- CommandLines
  MaxSteps = 2
  MaxLines = 1
INVARIANTS
  TypeOK
  ExitCodes
  Interrupted
  Consent
  Guarded
PROPERTIES
  EventOrder
CHECK_DEADLOCK FALSE
