SPECIFICATION Spec
CONSTANTS
  c1 = c1
  c2 = c2
  Root = Root
  None = None
  Devices = {d1, d2}
  Cgroups = {c1}
  Parent <- FlatTree
  Faults = {"global", "line", "read", "garbled", "unmap"}
  MaxAmount = 9
  MaxWrites = 1
  MaxBucket = 3
  MaxRestarts = 0
INVARIANTS
  QuietBucketIsComplete
  ReportedIsRecorded
CHECK_DEADLOCK FALSE
