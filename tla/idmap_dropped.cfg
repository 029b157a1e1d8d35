SPECIFICATION Spec
CONSTANTS
  Docs <- AllDocs
  Worlds <- SomeWorlds
  Dirs <- SomeDirs
  Files <- SomeFiles
INVARIANTS IdmapIsTaken
CHECK_DEADLOCK FALSE
