SPECIFICATION FairSpec
CONSTANTS
  monitor = monitor
  collector = collector
  disk = disk
  Producers <- DaemonProducers
  Devices = {disk}
  SmartProducers <- DaemonSmart
  DeviceOf <- DaemonDeviceOf
  InvalidBatches <- NoBatches
  Capacity = 2
  MaxAttempts = 2
  MaxReplays = 3
  MaxBatches = 1
  MaxCrashes = 1
  NoRequest = NoRequest
PROPERTIES
  EverySubmissionReturns
  ShutdownFinishes
CHECK_DEADLOCK FALSE
