--------------------------- MODULE WriterCollector ---------------------------
(***************************************************************************)
(* src/src/writer/collector.rs: the thread that scans the io.stat files of *)
(* the leaf cgroups, turns their cumulative counters into the bytes each   *)
(* cgroup wrote in the open one-minute bucket, and hands the bucket over   *)
(* when a scan falls into a later minute.                                  *)
(*                                                                         *)
(* A cgroup is an instance (path, inode, birth time): a path that is       *)
(* removed and created again is another member of Cgroups.  Amounts are    *)
(* kept per cgroup, not per workload name: cgroups of one workload only    *)
(* add up.  Buckets are numbered by minute.  The database is the contract  *)
(* of CommitContract: an acknowledged bucket is durable.                   *)
(***************************************************************************)
EXTENDS Integers, FiniteSets

CONSTANTS
  Devices,      \* the monitored NVMe devices, each with a number of its own
  Cgroups,      \* cgroup instances
  Root,         \* the cgroup root
  Parent,       \* the directory that holds a cgroup: another one, or Root
  Faults,       \* the kinds of fault that happen, out of FaultKinds
  None,         \* no counter, no report
  MaxAmount,    \* the largest amount the database takes (i64::MAX)
  MaxWrites,    \* bound: bytes written by a cgroup to a device
  MaxBucket,    \* bound: the last minute
  MaxRestarts   \* bound: daemon restarts

FaultKinds == {
  "global",      \* the cgroup tree cannot be enumerated
  "line",        \* a device's line of one io.stat does not parse
  "read",        \* an io.stat cannot be read
  "garbled",     \* a line of an io.stat has no device number
  "firstRead",   \* "read" and "garbled" also hit what was never read before
  "readAgain",   \* "read" and "garbled" also hit the same line again
  "unmap",       \* a device's by-id path leads elsewhere for a while
  "reset",       \* a counter starts again from zero
  "clock",       \* the wall clock is set back
  "late"}        \* a scan or a submission takes more than a period

Keys == Cgroups \X Devices

ASSUME CollectorAssumption ==
  /\ Parent \in [Cgroups -> Cgroups \union {Root}]
  /\ Faults \subseteq FaultKinds
  /\ None \notin Nat \union [end : Nat, complete : SUBSET Devices] /\ Root \notin Cgroups
  /\ MaxAmount \in Nat /\ MaxWrites \in Nat
  /\ MaxBucket \in Nat /\ MaxRestarts \in Nat

VARIABLES
  \* the kernel and the clock
  alive,        \* cgroup directories that exist
  dead,         \* cgroup instances that are gone for good
  counter,      \* io.stat wbytes by cgroup and device, 0: no line
  mapped,       \* devices whose by-id path leads to the device
  \* the collector's state
  bucket, initialized, baseline, seen, amount, incomplete,
  pc,           \* where WriterCollector::run stands
  closed,       \* the bucket being handed over
  \* shared with the other threads
  stop, recorded, report,
  restarts,
  \* history
  since,        \* bytes written in a cgroup and below since the bucket's opening scan
  rewound,      \* devices with a counter reset since that scan
  troubled,     \* devices that something happened to since that scan
  irregular,    \* of the open bucket and the closed one, those not scanned in time
  quiet         \* devices nothing happened to in the closed bucket

kernelVars    == <<alive, dead, counter, mapped>>
collectorVars == <<bucket, initialized, baseline, seen, amount, incomplete>>
vars == <<kernelVars, collectorVars, pc, closed, stop, recorded, report, restarts,
          since, rewound, troubled, irregular, quiet>>

-----------------------------------------------------------------------------
(* Vocabulary                                                              *)

(* Cgroup trees are walked down to directories without subdirectories.     *)
Leaves == {c \in alive : \A child \in alive : Parent[child] # c}

(* The cgroups whose io.stat counts the writes of c: itself and the ones   *)
(* around it.                                                              *)
Around(c) == {c} \union (IF Parent[c] = Root THEN {} ELSE {Parent[c]})

NoBucket == [bucket |-> 0, complete |-> {}, amount |-> [k \in Keys |-> 0]]

(* The lines of io.stat whose reading may fail in a way that says nothing  *)
(* of the device.                                                          *)
Missable(k) ==
  \/ counter[k] = 0
  \/ baseline[k] # None
  \/ "firstRead" \in Faults /\ k \notin seen
  \/ "readAgain" \in Faults /\ k \in seen

(* What one scan may meet (bound: one fault at most).                      *)
ScanFaults ==
  {[kind |-> "none"]}
    \union [kind : Faults \intersect {"global"}]
    \union {f \in [kind : Faults \intersect {"read"}, at : Leaves] :
              \A d \in mapped : Missable(<<f.at, d>>)}
    \union [kind : Faults \intersect {"line"}, at : Leaves, lost : mapped]
    \union {f \in [kind : Faults \intersect {"garbled"}, at : Leaves, lost : mapped] :
              Missable(<<f.at, f.lost>>)}

-----------------------------------------------------------------------------
Init ==
  /\ alive \in SUBSET Cgroups /\ \A c \in alive : Parent[c] \in alive \union {Root}
  /\ dead = {}
  /\ counter = [k \in Keys |-> 0] /\ mapped = Devices
  /\ bucket = 0 /\ initialized = FALSE
  /\ baseline = [k \in Keys |-> None] /\ seen = {}
  /\ amount = [k \in Keys |-> 0] /\ incomplete = Devices
  /\ pc = "scan" /\ closed = NoBucket
  /\ stop = FALSE /\ recorded = {} /\ report = None /\ restarts = 0
  /\ since = [k \in Keys |-> 0] /\ rewound = {} /\ troubled = Devices
  /\ irregular = {} /\ quiet = {}

-----------------------------------------------------------------------------
(* The kernel (external)                                                   *)

KeepCollector ==
  UNCHANGED <<collectorVars, pc, closed, stop, recorded, report, restarts,
            irregular, quiet>>

(* History: the devices that a cgroup which comes or goes has to do with:  *)
(* the one around it stops or starts being a leaf.                         *)
Touched(c) == {d \in Devices : \E a \in Around(c) : counter[<<a, d>>] > 0}

Create(c) ==
  /\ c \notin alive \union dead
  /\ Parent[c] \in alive \union {Root}
  /\ alive' = alive \union {c} /\ troubled' = troubled \union Touched(c)
  /\ UNCHANGED <<dead, counter, mapped, since, rewound>> /\ KeepCollector

Remove(c) ==
  /\ c \in Leaves
  /\ alive' = alive \ {c} /\ dead' = dead \union {c}
  /\ troubled' = troubled \union Touched(c)
  /\ UNCHANGED <<counter, mapped, since, rewound>> /\ KeepCollector

Write(c, d) ==
  /\ c \in Leaves /\ since[<<c, d>>] < MaxWrites
  /\ \A a \in Around(c) : counter[<<a, d>>] < MaxWrites
  /\ counter' = [k \in Keys |-> IF k[1] \in Around(c) /\ k[2] = d
                                  THEN counter[k] + 1 ELSE counter[k]]
  /\ since' = [k \in Keys |-> IF k[1] \in Around(c) /\ k[2] = d
                                THEN since[k] + 1 ELSE since[k]]
  /\ UNCHANGED <<alive, dead, mapped, rewound, troubled>> /\ KeepCollector

Reset(d) ==
  /\ "reset" \in Faults
  /\ counter' = [k \in Keys |-> IF k[2] = d THEN 0 ELSE counter[k]]
  /\ rewound' = rewound \union {d} /\ troubled' = troubled \union {d}
  /\ UNCHANGED <<alive, dead, mapped, since>> /\ KeepCollector

Remap(d) ==
  /\ "unmap" \in Faults
  /\ mapped' = IF d \in mapped THEN mapped \ {d} ELSE mapped \union {d}
  /\ troubled' = troubled \union {d}
  /\ UNCHANGED <<alive, dead, counter, since, rewound>> /\ KeepCollector

-----------------------------------------------------------------------------
(* scan_cgroups: what one pass over the leaves returns                     *)

Observed(f) ==
  {k \in Leaves \X mapped :
     /\ counter[k] > 0
     /\ CASE f.kind = "none" -> TRUE
          [] f.kind = "global" -> FALSE
          [] f.kind = "read" -> k[1] # f.at
          [] OTHER -> k # <<f.at, f.lost>>}

(* Mutant: a device's bad line is charged to all devices.                  *)
ChargeAll(f) == IF f.kind = "none" THEN {} ELSE Devices

(* resolve_scan_incomplete: the devices a failure is charged to.  A cgroup *)
(* that cannot be read is charged to the devices it has a baseline for.    *)
WithBaseline(c) == {d \in Devices : baseline[<<c, d>>] # None}

ScanIncomplete(f) ==
  CASE f.kind = "none" -> {}
    [] f.kind = "global" -> Devices
    [] f.kind = "line" -> {f.lost}
    [] f.kind = "read" -> WithBaseline(f.at)
    [] OTHER -> WithBaseline(f.at) \union {d \in Devices : <<f.at, d>> \in Observed(f)}

(* History: the devices that a fault of the scan has to do with.           *)
Struck(f) ==
  CASE f.kind = "none" -> {}
    [] f.kind = "global" -> Devices
    [] f.kind = "line" -> {f.lost}
    [] OTHER -> {d \in Devices : counter[<<f.at, d>>] > 0} \union WithBaseline(f.at)

(* calculate_deltas: a cgroup never seen before counts from zero, one      *)
(* whose baseline was lost or whose counter went back starts again.        *)
Fresh(k) == baseline[k] = None

(* Mutant: takes the cumulative counter for what was written.              *)
DeltaCumulative(k) == counter[k]

Delta(k) ==
  IF Fresh(k)
    THEN IF initialized /\ k \notin seen THEN counter[k] ELSE 0
    ELSE IF counter[k] >= baseline[k] THEN counter[k] - baseline[k] ELSE 0

(* Mutant: does not notice that a cgroup with a baseline was not read.     *)
UntrustedRead(obs) ==
  {k[2] : k \in {k \in obs :
     \/ Fresh(k) /\ initialized /\ k \in seen
     \/ ~Fresh(k) /\ counter[k] < baseline[k]}}

Untrusted(obs) ==
  {k[2] : k \in {k \in obs :
     \/ Fresh(k) /\ initialized /\ k \in seen
     \/ ~Fresh(k) /\ counter[k] < baseline[k]}}
  \union {k[2] : k \in {k \in Keys \ obs : ~Fresh(k)}}

Accumulated(obs) ==
  [k \in Keys |-> amount[k] + IF k \in obs THEN Delta(k) ELSE 0]

(* close_current_bucket: the devices without a gap whose amounts fit.      *)
Complete(gaps, amounts) ==
  {d \in Devices \ gaps : \A c \in Cgroups : amounts[<<c, d>>] <= MaxAmount}

-----------------------------------------------------------------------------
(* WriterCollector::run                                                    *)

(* Mutant: an earlier minute ends the open bucket too.                     *)
CrossesEitherWay(now) == now # bucket

Crosses(now) == now > bucket

(* One scan.  gaps are the devices with a reason against the open bucket.  *)
Scan(now, late, f) ==
  /\ pc = "scan" /\ ~stop
  /\ LET obs     == Observed(f)
         lost    == Devices \ mapped
         carried == ScanIncomplete(f)
         gaps    == incomplete \union lost \union carried \union Untrusted(obs)
                      \union (IF late THEN Devices ELSE {})
         trouble == lost \union (IF late THEN Devices ELSE {}) \union Struck(f)
         skipped == IF now > bucket + 1 THEN Devices ELSE {}
         missed  == IF now > bucket + 1 THEN {bucket, now} ELSE {}
         tardy   == IF late THEN irregular \union {bucket} ELSE irregular
     IN /\ baseline' = [k \in Keys |-> IF k \in obs THEN counter[k] ELSE None]
        /\ seen' = seen \union obs /\ initialized' = TRUE
        /\ \/ /\ now = bucket
              /\ amount' = Accumulated(obs) /\ incomplete' = gaps
              /\ troubled' = troubled \union trouble /\ irregular' = tardy
              /\ UNCHANGED <<bucket, pc, closed, since, rewound, quiet>>
           \/ /\ now < bucket
              /\ incomplete' = Devices /\ troubled' = Devices
              /\ irregular' = irregular \union {bucket}
              /\ UNCHANGED <<amount, bucket, pc, closed, since, rewound, quiet>>
           \/ /\ Crosses(now)
              /\ closed' = [bucket |-> bucket,
                            complete |-> Complete(gaps \union skipped, Accumulated(obs)),
                            amount |-> Accumulated(obs)]
              /\ bucket' = now /\ pc' = "submit"
              /\ amount' = [k \in Keys |-> 0]
              /\ incomplete' = carried \union skipped \union lost
              /\ since' = [k \in Keys |-> 0] /\ rewound' = {}
              /\ troubled' = skipped \union lost \union Struck(f)
              /\ irregular' = (tardy \intersect {bucket}) \union missed
              /\ quiet' = Devices \ (troubled \union trouble \union skipped)
  /\ UNCHANGED <<kernelVars, stop, recorded, report, restarts>>

ScanAny ==
  \E now \in (bucket - (IF "clock" \in Faults THEN 1 ELSE 0)) .. (bucket + 2),
     late \in IF "late" \in Faults THEN BOOLEAN ELSE {FALSE},
     f \in ScanFaults :
       now >= 0 /\ now <= MaxBucket /\ Scan(now, late, f)

(* The closed bucket goes to the database, unless it is complete for no    *)
(* device or the daemon is stopping; a slow commit spoils the open bucket. *)
KeepAllBut == UNCHANGED <<kernelVars, bucket, initialized, baseline, seen, amount,
                          closed, restarts, since, rewound, quiet>>

(* Mutant: goes on after an error.                                         *)
SubmitRegardless ==
  /\ pc = "submit" /\ pc' = "publish"
  /\ recorded' \in {recorded, recorded \union ({closed.bucket} \X closed.complete)}
  /\ UNCHANGED <<incomplete, irregular, troubled, stop, report>> /\ KeepAllBut

Submit ==
  /\ pc = "submit"
  /\ \/ /\ stop /\ pc' = "stopped" /\ UNCHANGED <<recorded, incomplete, irregular, troubled>>
     \/ /\ ~stop /\ closed.complete = {}
        /\ pc' = "publish" /\ UNCHANGED <<recorded, incomplete, irregular, troubled>>
     \/ /\ closed.complete # {}
        /\ recorded' = recorded \union ({closed.bucket} \X closed.complete)
        /\ pc' = "publish"
        /\ \/ UNCHANGED <<incomplete, irregular, troubled>>
           \/ /\ "late" \in Faults /\ incomplete' = Devices /\ troubled' = Devices
              /\ irregular' = irregular \union {bucket}
     \/ /\ closed.complete # {}
        /\ recorded' \in {recorded, recorded \union ({closed.bucket} \X closed.complete)}
        /\ pc' = "stopped" /\ UNCHANGED <<incomplete, irregular, troubled>>
  /\ UNCHANGED <<stop, report>> /\ KeepAllBut

(* Mutant: reports the minute's start.                                     *)
PublishStart ==
  /\ pc = "publish" /\ pc' = "scan"
  /\ report' = [end |-> closed.bucket, complete |-> closed.complete]
  /\ irregular' = irregular \intersect {bucket}
  /\ UNCHANGED <<incomplete, recorded, stop, troubled>> /\ KeepAllBut

(* WriterBoundaryTracker::publish: only the latest report is kept.         *)
Publish ==
  /\ pc = "publish" /\ pc' = "scan"
  /\ report' = [end |-> closed.bucket + 1, complete |-> closed.complete]
  /\ irregular' = irregular \intersect {bucket}
  /\ UNCHANGED <<incomplete, recorded, stop, troubled>> /\ KeepAllBut

(* The loop's stop check; the open bucket is discarded.                    *)
Leave ==
  /\ pc = "scan" /\ stop /\ pc' = "stopped"
  /\ UNCHANGED <<incomplete, irregular, recorded, stop, report, troubled>> /\ KeepAllBut

-----------------------------------------------------------------------------
Signal ==
  /\ ~stop /\ stop' = TRUE
  /\ UNCHANGED <<incomplete, irregular, pc, recorded, report, troubled>> /\ KeepAllBut

(* The daemon ends in any way and starts again in the same minute or       *)
(* later, with nothing but the database.                                   *)
Restart ==
  /\ restarts < MaxRestarts /\ restarts' = restarts + 1
  /\ bucket' \in bucket .. MaxBucket
  /\ initialized' = FALSE /\ baseline' = [k \in Keys |-> None] /\ seen' = {}
  /\ amount' = [k \in Keys |-> 0] /\ incomplete' = Devices
  /\ pc' = "scan" /\ closed' = NoBucket /\ stop' = FALSE /\ report' = None
  /\ troubled' = Devices /\ irregular' = {} /\ quiet' = {}
  /\ UNCHANGED <<kernelVars, recorded, since, rewound>>

Next ==
  \/ \E c \in Cgroups : Create(c) \/ Remove(c)
  \/ \E c \in Cgroups, d \in Devices : Write(c, d)
  \/ \E d \in Devices : Reset(d) \/ Remap(d)
  \/ ScanAny \/ Submit \/ Publish \/ Leave
  \/ Signal \/ Restart

Spec == Init /\ [][Next]_vars

-----------------------------------------------------------------------------
(* Properties                                                              *)

TypeOK ==
  /\ alive \subseteq Cgroups /\ dead \subseteq Cgroups /\ alive \intersect dead = {}
  /\ counter \in [Keys -> Nat] /\ mapped \subseteq Devices
  /\ bucket \in 0 .. MaxBucket /\ initialized \in BOOLEAN
  /\ baseline \in [Keys -> Nat \union {None}] /\ seen \subseteq Keys
  /\ amount \in [Keys -> Nat] /\ incomplete \subseteq Devices
  /\ pc \in {"scan", "submit", "publish", "stopped"}
  /\ closed \in [bucket : 0 .. MaxBucket, complete : SUBSET Devices, amount : [Keys -> Nat]]
  /\ stop \in BOOLEAN /\ recorded \subseteq (0 .. MaxBucket) \X Devices
  /\ report \in {None} \union [end : 1 .. MaxBucket + 1, complete : SUBSET Devices]
  /\ restarts \in 0 .. MaxRestarts
  /\ since \in [Keys -> Nat] /\ rewound \subseteq Devices /\ troubled \subseteq Devices
  /\ irregular \subseteq 0 .. MaxBucket /\ quiet \subseteq Devices

Closing == pc = "scan" /\ pc' = "submit"

(* A bucket that is recorded as complete for a device holds, for every     *)
(* cgroup there is at its end, the bytes written between the scan that     *)
(* opened it and the scan that closed it, and nothing for any other: lost  *)
(* baselines, failed scans, remapped devices, clock steps, cgroups that    *)
(* come and go, and restarts all turn into gaps, never into wrong amounts. *)
(* Only a counter reset in the bucket itself may hide bytes.  And it is    *)
(* complete for nobody when it was not scanned in time: a scan was late,   *)
(* the closing one included, the commit of the bucket before took longer   *)
(* than a period, a whole minute before or after it was skipped, or the    *)
(* clock was set back behind it.                                           *)
ExactAttribution ==
  [][Closing =>
       /\ closed'.bucket \in irregular' => closed'.complete = {}
       /\ \A d \in closed'.complete, c \in Cgroups :
            LET written == IF c \in Leaves THEN since[<<c, d>>] ELSE 0
            IN IF d \in rewound THEN closed'.amount[<<c, d>>] <= written
                                ELSE closed'.amount[<<c, d>>] = written]_vars

(* What a first read adds to a complete bucket was written in it.          *)
NeverOvercounts ==
  [][Closing => \A d \in closed'.complete, c \in Cgroups :
       closed'.amount[<<c, d>>] <= since[<<c, d>>]]_vars

(* A gap does not outlast its cause: a bucket in which nothing happened to *)
(* a device, from the scan that opened it to the scan that closed it, is   *)
(* complete for the device.                                                *)
QuietBucketIsComplete ==
  pc = "submit" => \A d \in quiet :
    d \in closed.complete \/ \E c \in Cgroups : closed.amount[<<c, d>>] > MaxAmount

(* A bucket is handed to the database at most once for a device, in any    *)
(* process, as long as the clock is not behind at a restart.               *)
RecordedOnce ==
  [][pc = "submit" /\ (pc' = "publish" \/ recorded' # recorded) =>
       \A d \in closed.complete : <<closed.bucket, d>> \notin recorded]_vars

(* What the alert task reads in the tracker is durable: a minute reported  *)
(* complete for a device is in the database.                               *)
ReportedIsRecorded ==
  report # None => \A d \in report.complete : <<report.end - 1, d>> \in recorded

(* Within a process the tracker only moves forward, so a waiter that sees  *)
(* a later minute has missed its own for good.                             *)
ReportsMoveForward ==
  [][report # None /\ report' # None /\ report' # report => report'.end > report.end]_vars

(* Whatever the scans meet, a minute is closed, recorded and reported as   *)
(* those who wait for it expect (BucketContract).                          *)
Phase == CASE pc = "scan" -> "open" [] pc = "submit" -> "closed"
           [] pc = "publish" -> "saved" [] pc = "stopped" -> "over"

Hand == IF pc \in {"submit", "publish"}
          THEN [bucket |-> closed.bucket, complete |-> closed.complete] ELSE None

Buckets == INSTANCE BucketContract WITH
             Times <- 0 .. MaxBucket, phase <- Phase, open <- bucket, hand <- Hand

KeepsBuckets == Buckets!Spec
=============================================================================
