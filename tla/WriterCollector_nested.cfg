SPECIFICATION Spec
CONSTANTS
  c1 = c1
  c2 = c2
  Root = Root
  None = None
  Devices = {d1}
  Cgroups = {c1, c2}
  Parent <- NestedTree
  Faults = {}
  MaxAmount = 9
  MaxWrites = 2
  MaxBucket = 3
  MaxRestarts = 0
PROPERTIES
  NeverOvercounts
CHECK_DEADLOCK FALSE
