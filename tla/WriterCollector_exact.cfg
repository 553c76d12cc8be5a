SPECIFICATION Spec
CONSTANTS
  c1 = c1
  c2 = c2
  Root = Root
  None = None
  Devices = {d1}
  Cgroups = {c1}
  Parent <- FlatTree
  Faults = {"global", "line", "read", "garbled", "unmap", "reset", "clock", "late"}
  MaxAmount = 2
  MaxWrites = 3
  MaxBucket = 3
  MaxRestarts = 1
INVARIANTS
  TypeOK
PROPERTIES
  ExactAttribution
  RecordedOnce
  KeepsBuckets
CHECK_DEADLOCK FALSE
