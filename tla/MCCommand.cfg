SPECIFICATION FairSpec
CONSTANTS
  Leader = Leader
  k1 = k1
  Kin = {k1}
  Payloads = {"fits"}
  PipeCap = 1
  MaxLines = 2
INVARIANTS
  TypeOK
  CompleteOutput
  NothingLeftBehind
PROPERTIES
  Contract
  Returns
CHECK_DEADLOCK FALSE
