SPECIFICATION Spec
CONSTANTS
  i1 = i1
  i2 = i2
  i3 = i3
  i4 = i4
  Leaves <- AllLeaves
  Inodes = {i1, i2, i3, i4}
  Parts = {"bin", "lib"}
  None = None
  Keep <- KeepList
  Homes <- AllHomes
INVARIANTS
  TypeOK
  NewestSurvives
  DefaultAsRead
  Pruned
PROPERTIES
  NothingNew
CHECK_DEADLOCK FALSE
