SPECIFICATION Spec
CONSTANTS
  monitor = monitor
  collector = collector
  disk = disk
  Producers <- DaemonProducers
  Devices = {disk}
  SmartProducers <- DaemonSmart
  DeviceOf <- DaemonDeviceOf
  InvalidBatches <- SecondBucketInvalid
  Capacity = 1
  MaxAttempts = 3
  MaxReplays = 3
  MaxBatches = 2
  MaxCrashes = 1
  NoRequest = NoRequest
INVARIANTS
  TypeOK
  AnswersAreTrue
  WholeBatches
  AccountingExact
  ServesConnected
  OneCopyInHand
  ReplayIsNeverServed
PROPERTIES
  KeepsContract
CHECK_DEADLOCK FALSE
