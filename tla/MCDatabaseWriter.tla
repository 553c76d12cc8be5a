-------------------------- MODULE MCDatabaseWriter --------------------------
(* Small instances of DatabaseWriter for TLC.                              *)
EXTENDS DatabaseWriter

CONSTANTS monitor, collector, disk

(* The daemon's two producers: one thread samples every SMART device.      *)
DaemonProducers == {monitor, collector}
DaemonSmart == {monitor}
DaemonDeviceOf == [p \in DaemonSmart |-> disk]

NoBatches == {}
SecondBucketInvalid == {<<collector, 2>>}
=============================================================================
