--------------------------- MODULE BucketContract ---------------------------
(***************************************************************************)
(* What the collector thread promises to those who read its markers in the *)
(* database and its reports in the boundary tracker, with no scans, no     *)
(* cgroups and no supervisor: how a minute becomes the open bucket, is     *)
(* closed, recorded and reported, and what a process that ends leaves of   *)
(* it.  WriterCollector implements it, and Daemon, in which the collector  *)
(* is one thread among others, goes by it.                                 *)
(***************************************************************************)
EXTENDS Integers

CONSTANTS Devices, Times, None

VARIABLES
  phase,     \* of the collector: "open", "closed", "saved", "over"
  open,      \* the open bucket
  hand,      \* None, or the closed bucket: [bucket, complete]
  recorded,  \* bucket and device of each marker in the database
  report     \* the boundary tracker: None or [end, complete]

bucketVars == <<phase, open, hand, recorded, report>>

Init ==
  /\ phase \in {"open", "over"} /\ open \in Times
  /\ hand = None /\ recorded = {} /\ report = None

(* The bucket a process starts in is complete for nobody, and neither is   *)
(* one after which a whole minute was missed.                              *)
Close(now, whole) ==
  /\ phase = "open" /\ now > open
  /\ report = None \/ now > open + 1 => whole = {}
  /\ phase' = "closed" /\ open' = now
  /\ hand' = [bucket |-> open, complete |-> whole]
  /\ UNCHANGED <<recorded, report>>

Markers == {hand.bucket} \X hand.complete

Record ==
  /\ phase = "closed" /\ phase' = "saved"
  /\ recorded' = recorded \union Markers
  /\ UNCHANGED <<open, hand, report>>

Publish ==
  /\ phase = "saved" /\ phase' = "open"
  /\ report' = [end |-> hand.bucket + 1, complete |-> hand.complete]
  /\ hand' = None
  /\ UNCHANGED <<open, recorded>>

(* The thread ends, and with it whatever it had in hand.  A bucket it      *)
(* could not hand over may have been recorded nevertheless.                *)
Stop ==
  /\ phase # "over" /\ phase' = "over" /\ hand' = None
  /\ \/ recorded' = recorded
     \/ phase = "closed" /\ recorded' = recorded \union Markers
  /\ UNCHANGED <<open, report>>

(* The process ends, or another one begins in the same minute or later.    *)
NewProcess ==
  /\ phase' \in {"open", "over"} /\ open' \in Times /\ open' >= open
  /\ hand' = None /\ report' = None
  /\ UNCHANGED recorded

Next ==
  \/ \E now \in Times, whole \in SUBSET Devices : Close(now, whole)
  \/ Record \/ Publish \/ Stop \/ NewProcess

Spec == Init /\ [][Next]_bucketVars
=============================================================================
