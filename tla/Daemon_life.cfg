SPECIFICATION FairSpec
CONSTANTS
  MaxMinute = 2
  MaxAlerts = 2
  Lookback = 1
  Faults = {"startup", "producer", "panic", "database", "slow", "gap", "query", "message"}
  MaxFailures = 1
  None = None
INVARIANTS
  TypeOK
  TruthfulExit
  NeverAskedTooEarly
  OneMailAfterStop
PROPERTIES
  EveryAlertIsTried
  DaemonEnds
  KeepsBuckets
CHECK_DEADLOCK FALSE
