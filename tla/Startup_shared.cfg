SPECIFICATION Spec
CONSTANTS
  Procs = {p, q}
  Configs <- MCConfigs
  Paths = {"p1", "p2"}
  Serials = {"s1", "s2"}
  Numbers = {n1, n2}
  Files <- MCFiles
  MsPerHour = 2
  MinutesPerHour = 1
  MaxI64 = 8
  MaxU32 = 2
  MaxStarts = 3
  MaxSwaps = 1
  None = None
SYMMETRY MCSymmetry
INVARIANTS
  TypeOK
  SchemaIsWhole
  OwnHistory
  StartsAgain
  UsableWhenAccepted
CHECK_DEADLOCK FALSE
