SPECIFICATION Spec
CONSTANTS
  Root = Root
  Outside = Outside
  a = a
  b = b
  x = x
  y = y
  l = l
  Dirs = {a, b}
  Files = {x, y}
  Links = {l}
  MaxName = 2
  Trees <- AllTrees
  Keep <- KeepList
  Exclude <- Excluded
INVARIANTS
  TypeOK
  OnlyAsSeen
  Confined
  NotInUse
  Swept
CHECK_DEADLOCK FALSE
