SPECIFICATION Spec
CONSTANTS
  NumDevices = 1
  Window = 2
  Minute = 1
  RetryBase = 1
  MaxRetries = 1
  Threshold = 1
  MaxAmount = 2
  Prompt = FALSE
  Faults = {"backward"}
  MaxClock = 4
  MaxUnits = 2
  MaxRestarts = 0
  None = None
INVARIANTS
  CountedOnce
CHECK_DEADLOCK FALSE
