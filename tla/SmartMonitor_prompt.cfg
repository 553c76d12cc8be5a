SPECIFICATION Spec
CONSTANTS
  NumDevices = 2
  Window = 12
  Minute = 6
  RetryBase = 1
  MaxRetries = 2
  Threshold = 1
  MaxAmount = 2
  Prompt = TRUE
  Faults = {"read", "identity"}
  MaxClock = 24
  MaxUnits = 0
  MaxRestarts = 0
  None = None
INVARIANTS
  WindowsAreKept
  DueIsNear
CHECK_DEADLOCK FALSE
