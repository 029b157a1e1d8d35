SPECIFICATION Spec
CONSTANTS
  NoRecord = NoRecord
  MaxSnapshots = 1
  p1 = p1
  p2 = p2
  Volumes = {v1, v2}
  Procs = {p1}
  Commands <- AnyCommand
  Env = {"edit", "handDelete", "toggle", "snapshot", "interrupt", "kill", "legacy"}
SYMMETRY VolumeSymmetry
INVARIANTS TypeOK UpLeavesItsDecision
PROPERTIES UncutLossIsReal PurgeReachesAll
