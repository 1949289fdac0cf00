SPECIFICATION Spec
CONSTANTS
  Self = Self
  Others = {o1}
  Candidate = Candidate
  Free = Free
  MaxFd = 2
  MaxActs = 1
INVARIANTS
  NotInOwnWay
CHECK_DEADLOCK FALSE
