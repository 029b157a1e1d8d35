SPECIFICATION Spec
CONSTANTS
  NoRecord = NoRecord
  MaxSnapshots = 1
  p1 = p1
  p2 = p2
  Volumes = {v1, v2}
  Procs = {p1, p2}
  Commands <- DestroyBesideUp
  Env = {"edit", "interrupt", "legacy"}
SYMMETRY VolumeSymmetry
PROPERTIES CustodyKept RecordKeepsVolumes
