SPECIFICATION Spec
CONSTANTS
  Dirs <- AllDirs
  Files <- AllFiles
  Links <- AllLinks
  Home = "home"
  Slash = "/"
  Foreign = {"foreign"}
  Fs <- FsOf
  None = "none"
  Places <- AllPlaces
  LinkTo <- LinksTo
  Owner <- OwnerOf
  Swaps <- AllSwaps
  MountPoints = {"p", "r", "s"}
  Modes = {"u", "n", "tool", "mine"}
  Unknown = Unknown
  Situations <- AllSituations
  Profiles <- AllProfiles
  SearchPaths <- Binaries
  Executable = {"mine", "other", "tool", "new"}
  Tasks <- AllTasks
INVARIANTS
  TypeOK
  NoRedirect
  AsSelected
  StillAsChecked
  Privilege
CHECK_DEADLOCK FALSE
