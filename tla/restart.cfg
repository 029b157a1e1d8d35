SPECIFICATION Spec
CONSTANTS
  Absent = Absent
  both = both
  pair = pair
  Undeclared = Undeclared
  NoRecord = NoRecord
  Unknown = Unknown
  Keys = {idmap, nesting}
  IDMapKey = idmap
  Values = {Absent, both, pair}
  Mapping <- Spellings
  Procs = {p1}
  MaxStarts = 3
  Env = {"restart", "fail", "legacy"}
INVARIANTS OwedIsRecorded NothingElseIsRecorded RecordIsTrue
PROPERTIES NeverRestartsForNothing
CHECK_DEADLOCK FALSE
