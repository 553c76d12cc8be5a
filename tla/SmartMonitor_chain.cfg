SPECIFICATION Spec
CONSTANTS
  NumDevices = 1
  Window = 4
  Minute = 2
  RetryBase = 1
  MaxRetries = 1
  Threshold = 0
  MaxAmount = 1
  Prompt = FALSE
  Faults = {"read", "regress"}
  MaxClock = 8
  MaxUnits = 2
  MaxRestarts = 1
  None = None
INVARIANTS
  TypeOK
  AlertsAreEarned
  StatsAgree
PROPERTIES
  AlertedOnce
  KeepsLog
CHECK_DEADLOCK FALSE
