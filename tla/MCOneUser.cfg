SPECIFICATION Spec
CONSTANTS
  p1 = p1
  p2 = p2
  u1 = u1
  l1 = l1
  Alice = Alice
  Root = Root
  None = None
  Procs = {p1, p2}
  Users = {u1}
  Leaves = {l1}
  Tombs = {t1, t2}
  Inodes = {i1, i2, i3}
  Euid <- OneUser
  Protected <- NothingProtected
  DryRun = {}
  Parts = 0
  TornAppends = FALSE
  Unpacked = FALSE
  MaxCreates = 2
  MaxFaults = 1
SYMMETRY Symmetry
INVARIANTS
  TypeOK
  Exclusive
  UseBlocks
  WriteAhead
  IndInv
PROPERTIES
  NoFreshLoss
  Promise
