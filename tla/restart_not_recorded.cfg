SPECIFICATION Spec
CONSTANTS
  Absent = Absent
  both = both
  pair = pair
  Undeclared = Undeclared
  NoRecord = NoRecord
  Unknown = Unknown
  Keys = {nesting}
  IDMapKey = idmap
  Values = {Absent, both, pair}
  Mapping <- Spellings
  Procs = {p1}
  MaxStarts = 3
  Env = {"fail", "failBetween"}
INVARIANTS OwedIsRecorded
CHECK_DEADLOCK FALSE
