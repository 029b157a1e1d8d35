SPECIFICATION Spec
CONSTANTS
  Docs <- AllDocs
  Worlds <- SomeWorlds
  Dirs <- SomeDirs
  Files <- SomeFiles
INVARIANTS DevicesNeverCollide ReadsBack WrittenIsTaken NearestIsActedOn CheckoutsApart
CHECK_DEADLOCK FALSE
