SPECIFICATION FairSpec
CONSTANTS
  p1 = p1
  p2 = p2
  u1 = u1
  l1 = l1
  Alice = Alice
  Root = Root
  None = None
  Procs = {p1}
  Users = {u1}
  Leaves = {l1}
  Tombs = {t1, t2, t3}
  Inodes = {i1, i2}
  Euid <- OneUser
  Protected <- NothingProtected
  DryRun = {}
  Parts = 1
  TornAppends = FALSE
  Unpacked = TRUE
  MaxCreates = 2
  MaxFaults = 1
PROPERTIES
  Recovered
  Collected
