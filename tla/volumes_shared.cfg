SPECIFICATION Spec
CONSTANTS
  Docs <- AllDocs
  Worlds <- SomeWorlds
  Dirs <- SomeDirs
  Files <- SomeFiles
INVARIANTS VolumesApart
CHECK_DEADLOCK FALSE
