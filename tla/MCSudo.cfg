SPECIFICATION Spec
CONSTANTS
  p1 = p1
  p2 = p2
  u1 = u1
  l1 = l1
  Alice = Alice
  Root = Root
  None = None
  Procs = {p1, p2}
  Users = {u1}
  Leaves = {l1}
  Tombs = {t1, t2}
  Inodes = {i1, i2, i3}
  Euid <- Sudo
  Protected <- NothingProtected
  DryRun = {}
  Parts = 0
  TornAppends = TRUE
  Unpacked = TRUE
  MaxCreates = 2
  MaxFaults = 1
SYMMETRY Symmetry
INVARIANTS
  UseBlocks
PROPERTIES
  NoFreshLoss
CHECK_DEADLOCK FALSE
