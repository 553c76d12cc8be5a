--------------------------- MODULE MCSmartMonitor ---------------------------
(* Small instances of SmartMonitor for TLC.                                *)
EXTENDS SmartMonitor
=============================================================================
