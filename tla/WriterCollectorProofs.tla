------------------------ MODULE WriterCollectorProofs ------------------------
(***************************************************************************)
(* Theorems about WriterCollector, for any number of cgroups, devices,     *)
(* buckets and restarts: what is handed over and reported, which gaps a    *)
(* bucket may have, and what the amounts of a complete bucket are.         *)
(***************************************************************************)
EXTENDS WriterCollector, TLAPS

-----------------------------------------------------------------------------
(* The inductive invariant                                                 *)

(* What was recorded or reported lies behind the open bucket, and behind   *)
(* the closed one as long as that is in hand.                              *)
HandInv ==
  /\ \A r \in recorded : r[1] < bucket
  /\ pc \in {"submit", "publish"} => closed.bucket < bucket
  /\ pc = "submit" => \A r \in recorded : r[1] < closed.bucket
  /\ pc = "publish" => {closed.bucket} \X closed.complete \subseteq recorded
  /\ report # None =>
       /\ report.end <= IF pc \in {"submit", "publish"} THEN closed.bucket ELSE bucket
       /\ {report.end - 1} \X report.complete \subseteq recorded

(* Without counter resets, every reason for a gap goes back to something   *)
(* that happened since the scan that opened the bucket: what was seen has  *)
(* a counter, and a baseline that was lost or will not be read again was   *)
(* lost in the bucket.                                                     *)
Steady == "reset" \notin Faults

QuietInv ==
  /\ incomplete \subseteq troubled
  /\ ~initialized => troubled = Devices
  /\ \A k \in Keys : k[2] \notin troubled =>
       /\ k \in seen /\ k[1] \in Leaves => baseline[k] # None
       /\ baseline[k] # None => /\ k[1] \in Leaves /\ k[2] \in mapped
                                /\ k \in seen /\ counter[k] >= baseline[k]
  /\ \A k \in Keys : counter[k] = 0 => baseline[k] = None /\ k \notin seen
  /\ QuietBucketIsComplete

(* For a device without a gap, what is accumulated and what the next scan  *)
(* will add make up what was written since the opening scan.  Two things   *)
(* are excluded, for which that is false: cgroups inside a cgroup that is  *)
(* read, and a first read that fails.                                      *)
Exact ==
  /\ \A c \in Cgroups : Parent[c] = Root
  /\ "firstRead" \notin Faults /\ "readAgain" \notin Faults

Accounted(k) ==
  IF baseline[k] = None
    THEN /\ amount[k] = 0
         /\ k[1] \notin dead => /\ counter[k] <= since[k]
                                /\ k[2] \notin rewound => counter[k] = since[k]
    ELSE k[1] \notin dead =>
           /\ amount[k] <= since[k] /\ amount[k] + counter[k] - baseline[k] <= since[k]
           /\ k[2] \notin rewound => amount[k] + counter[k] - baseline[k] = since[k]

AmountInv ==
  /\ ~initialized => incomplete = Devices
  /\ \A k \in Keys : k[1] \notin alive \union dead => counter[k] = 0
  /\ \A k \in Keys : k[2] \notin incomplete => Accounted(k)

(* The bucket a process starts in stays without a complete device until it *)
(* has been reported.                                                      *)
FirstInv == pc = "scan" /\ report = None => incomplete = Devices

(* A bucket that was not scanned in time stays without one until it is     *)
(* closed.                                                                 *)
TimeInv == bucket \in irregular => incomplete = Devices

IInv ==
  /\ TypeOK /\ HandInv /\ FirstInv /\ TimeInv
  /\ Steady => QuietInv
  /\ Exact => AmountInv

-----------------------------------------------------------------------------
(* What a scan sees and misses                                             *)

LEMMA KeyFacts ==
  /\ \A k \in Keys : k[1] \in Cgroups /\ k[2] \in Devices /\ k = <<k[1], k[2]>>
  /\ \A c \in Cgroups, d \in Devices :
       <<c, d>> \in Keys /\ <<c, d>>[1] = c /\ <<c, d>>[2] = d
BY DEF Keys

LEMMA FaultCases ==
  ASSUME NEW f \in ScanFaults
  PROVE  \/ f.kind = "none"
         \/ f.kind = "global"
         \/ /\ f.kind = "read" /\ f.at \in Leaves
            /\ \A d \in mapped : Missable(<<f.at, d>>)
         \/ f.kind = "line" /\ f.at \in Leaves /\ f.lost \in mapped
         \/ /\ f.kind = "garbled" /\ f.at \in Leaves /\ f.lost \in mapped
            /\ Missable(<<f.at, f.lost>>)
BY DEF ScanFaults

LEMMA ObservedFacts ==
  ASSUME NEW f, mapped \subseteq Devices, alive \subseteq Cgroups
  PROVE  /\ Observed(f) \subseteq Keys
         /\ \A k \in Observed(f) : k[1] \in Leaves /\ k[2] \in mapped /\ counter[k] > 0
BY DEF Observed, Leaves, Keys

(* What one step charges is history's business too, and both are about     *)
(* monitored devices.                                                      *)
LEMMA ChargedIsStruck ==
  ASSUME NEW f \in ScanFaults, mapped \subseteq Devices, alive \subseteq Cgroups
  PROVE  ScanIncomplete(f) \subseteq Struck(f) /\ Struck(f) \subseteq Devices
<1>1. \A d \in Devices : <<f.at, d>> \in Observed(f) => counter[<<f.at, d>>] > 0
  BY ObservedFacts
<1>2. WithBaseline(f.at) \subseteq Devices
  BY DEF WithBaseline
<1> QED BY <1>1, <1>2, FaultCases DEF ScanIncomplete, Struck

(* A counter that could have been read and was not, is struck; and it is   *)
(* charged, unless a first read or a repeated one may fail.                *)
LEMMA MissedIsStruck ==
  ASSUME NEW f \in ScanFaults, NEW k \in Keys, mapped \subseteq Devices,
         alive \subseteq Cgroups,
         k[1] \in Leaves, k[2] \in mapped, counter[k] > 0, k \notin Observed(f)
  PROVE  k[2] \in Struck(f)
<1>1. k = <<k[1], k[2]>> /\ k[1] \in Leaves /\ k[2] \in Devices
  BY KeyFacts
<1>2. k \in Leaves \X mapped
  BY <1>1
<1>3. CASE f.kind = "none"
  BY <1>2, <1>3 DEF Observed
<1>4. CASE f.kind = "global"
  BY <1>1, <1>4 DEF Struck
<1>5. CASE f.kind = "read"
  <2>1. k[1] = f.at
    BY <1>2, <1>5 DEF Observed
  <2> QED BY <2>1, <1>1, <1>5 DEF Struck
<1>6. CASE f.kind \in {"line", "garbled"}
  <2>1. k = <<f.at, f.lost>>
    BY <1>2, <1>6 DEF Observed
  <2>2. k[1] = f.at /\ k[2] = f.lost
    BY <2>1
  <2> QED BY <2>1, <2>2, <1>1, <1>6 DEF Struck
<1> QED BY <1>3, <1>4, <1>5, <1>6, FaultCases

LEMMA MissedIsCharged ==
  ASSUME NEW f \in ScanFaults, NEW k \in Keys, mapped \subseteq Devices,
         alive \subseteq Cgroups, Exact, counter \in [Keys -> Nat],
         k[1] \in Leaves, k[2] \in mapped, counter[k] > 0, k \notin Observed(f)
  PROVE  k[2] \in ScanIncomplete(f)
<1>1. k = <<k[1], k[2]>> /\ k[1] \in Leaves /\ k[2] \in Devices
  BY KeyFacts
<1>2. k \in Leaves \X mapped
  BY <1>1
<1>3. Missable(k) => baseline[k] # None
  BY DEF Missable, Exact
<1>4. CASE f.kind = "none"
  BY <1>2, <1>4 DEF Observed
<1>5. CASE f.kind = "global"
  BY <1>1, <1>5 DEF ScanIncomplete
<1>6. CASE f.kind = "read"
  <2>1. k[1] = f.at
    BY <1>2, <1>6 DEF Observed
  <2>2. Missable(<<f.at, k[2]>>)
    BY <1>6, FaultCases
  <2> QED BY <2>1, <2>2, <1>1, <1>3, <1>6 DEF ScanIncomplete, WithBaseline
<1>7. CASE f.kind \in {"line", "garbled"}
  <2>1. k = <<f.at, f.lost>>
    BY <1>2, <1>7 DEF Observed
  <2>2. k[1] = f.at /\ k[2] = f.lost
    BY <2>1
  <2>3. f.kind = "garbled" => Missable(k)
    BY <2>1, FaultCases
  <2> QED BY <2>1, <2>2, <2>3, <1>1, <1>3, <1>7 DEF ScanIncomplete, WithBaseline
<1> QED BY <1>4, <1>5, <1>6, <1>7, FaultCases

LEMMA UntrustedFacts ==
  ASSUME NEW obs, obs \subseteq Keys
  PROVE  /\ Untrusted(obs) \subseteq Devices
         /\ \A k \in Keys : k[2] \notin Untrusted(obs) =>
              /\ k \in obs /\ baseline[k] = None => ~initialized \/ k \notin seen
              /\ k \in obs /\ baseline[k] # None => ~(counter[k] < baseline[k])
              /\ k \notin obs => baseline[k] = None
         /\ \A d \in Untrusted(obs) : \E k \in Keys :
              /\ k[2] = d
              /\ \/ k \in obs /\ baseline[k] = None /\ initialized /\ k \in seen
                 \/ k \in obs /\ baseline[k] # None /\ counter[k] < baseline[k]
                 \/ k \notin obs /\ baseline[k] # None
BY KeyFacts DEF Untrusted, Fresh

LEMMA DeltaType ==
  ASSUME NEW k \in Keys, counter \in [Keys -> Nat], baseline \in [Keys -> Nat \union {None}]
  PROVE  Delta(k) \in Nat
BY DEF Delta, Fresh

LEMMA AccumulatedType ==
  ASSUME NEW obs, TypeOK
  PROVE  Accumulated(obs) \in [Keys -> Nat]
<1>1. \A k \in Keys : Delta(k) \in Nat /\ amount[k] \in Nat
  BY DeltaType DEF TypeOK
<1> QED BY <1>1 DEF Accumulated

(* The reasons against the open bucket that a scan finds.                  *)
Gaps(late, f) ==
  incomplete \union (Devices \ mapped) \union ScanIncomplete(f) \union Untrusted(Observed(f))
    \union (IF late THEN Devices ELSE {})

Trouble(late, f) ==
  (Devices \ mapped) \union (IF late THEN Devices ELSE {}) \union Struck(f)

Skipped(now) == IF now > bucket + 1 THEN Devices ELSE {}

Tardy(late) == IF late THEN irregular \union {bucket} ELSE irregular

Missed(now) == IF now > bucket + 1 THEN {bucket, now} ELSE {}

(* What a scan changes: the open bucket stays, the clock is behind, or the *)
(* bucket is closed.                                                       *)
Scanned(now, late, f) ==
  /\ pc = "scan" /\ ~stop
  /\ baseline' = [k \in Keys |-> IF k \in Observed(f) THEN counter[k] ELSE None]
  /\ seen' = seen \union Observed(f) /\ initialized' = TRUE
  /\ alive' = alive /\ dead' = dead /\ counter' = counter /\ mapped' = mapped
  /\ stop' = stop /\ recorded' = recorded /\ report' = report /\ restarts' = restarts
  /\ \/ /\ now = bucket
        /\ amount' = Accumulated(Observed(f)) /\ incomplete' = Gaps(late, f)
        /\ troubled' = troubled \union Trouble(late, f) /\ irregular' = Tardy(late)
        /\ bucket' = bucket /\ pc' = pc /\ closed' = closed /\ since' = since
        /\ rewound' = rewound /\ quiet' = quiet
     \/ /\ incomplete' = Devices /\ troubled' = Devices
        /\ irregular' = irregular \union {bucket}
        /\ amount' = amount /\ bucket' = bucket /\ pc' = pc /\ closed' = closed
        /\ since' = since /\ rewound' = rewound /\ quiet' = quiet
     \/ /\ now > bucket
        /\ closed' = [bucket |-> bucket,
                      complete |-> Complete(Gaps(late, f) \union Skipped(now),
                                            Accumulated(Observed(f))),
                      amount |-> Accumulated(Observed(f))]
        /\ bucket' = now /\ pc' = "submit"
        /\ amount' = [k \in Keys |-> 0]
        /\ incomplete' = ScanIncomplete(f) \union Skipped(now) \union (Devices \ mapped)
        /\ since' = [k \in Keys |-> 0] /\ rewound' = {}
        /\ troubled' = Skipped(now) \union (Devices \ mapped) \union Struck(f)
        /\ irregular' = (Tardy(late) \intersect {bucket}) \union Missed(now)
        /\ quiet' = Devices \ (troubled \union Trouble(late, f) \union Skipped(now))

LEMMA ScanCases ==
  ASSUME ScanAny, TypeOK
  PROVE  \E now \in 0 .. MaxBucket, late \in BOOLEAN, f \in ScanFaults :
           Scanned(now, late, f)
<1>1. PICK now \in (bucket - (IF "clock" \in Faults THEN 1 ELSE 0)) .. (bucket + 2),
           late \in IF "late" \in Faults THEN BOOLEAN ELSE {FALSE},
           f \in ScanFaults : now >= 0 /\ now <= MaxBucket /\ Scan(now, late, f)
  BY DEF ScanAny
<1>0. bucket \in Nat /\ MaxBucket \in Nat
  BY CollectorAssumption DEF TypeOK
<1>2. now \in 0 .. MaxBucket /\ late \in BOOLEAN
  <2>1. now \in Int
    BY <1>0, <1>1
  <2>2. now \in 0 .. MaxBucket
    BY <1>0, <1>1, <2>1
  <2>3. late \in BOOLEAN
    BY <1>1, Zenon
  <2> QED BY <2>2, <2>3
<1>3. pc = "scan" /\ ~stop
  BY <1>1 DEF Scan
<1>4. /\ baseline' = [k \in Keys |-> IF k \in Observed(f) THEN counter[k] ELSE None]
      /\ seen' = seen \union Observed(f) /\ initialized' = TRUE
  BY <1>1 DEF Scan
<1>5. /\ alive' = alive /\ dead' = dead /\ counter' = counter /\ mapped' = mapped
      /\ stop' = stop /\ recorded' = recorded /\ report' = report /\ restarts' = restarts
  BY <1>1 DEF Scan, kernelVars
<1>6. CASE now = bucket
  BY <1>1, <1>2, <1>3, <1>4, <1>5, <1>6 DEF Scan, Gaps, Trouble, Tardy, Crosses, Scanned
<1>7. CASE now < bucket
  BY <1>0, <1>1, <1>2, <1>3, <1>4, <1>5, <1>7 DEF Scan, Crosses, Scanned
<1>8. CASE now > bucket
  <2>1. /\ closed' = [bucket |-> bucket,
                      complete |-> Complete(Gaps(late, f) \union Skipped(now),
                                            Accumulated(Observed(f))),
                      amount |-> Accumulated(Observed(f))]
        /\ bucket' = now /\ pc' = "submit"
        /\ amount' = [k \in Keys |-> 0]
        /\ incomplete' = ScanIncomplete(f) \union Skipped(now) \union (Devices \ mapped)
        /\ since' = [k \in Keys |-> 0] /\ rewound' = {}
        /\ troubled' = Skipped(now) \union (Devices \ mapped) \union Struck(f)
        /\ irregular' = (Tardy(late) \intersect {bucket}) \union Missed(now)
        /\ quiet' = Devices \ (troubled \union Trouble(late, f) \union Skipped(now))
    BY <1>1, <1>8 DEF Scan, Crosses, Gaps, Trouble, Skipped, Tardy, Missed, TypeOK
  <2> QED BY <2>1, <1>2, <1>3, <1>4, <1>5, <1>8 DEF Scanned
<1>9. now = bucket \/ now < bucket \/ now > bucket
  BY <1>0, <1>2
<1> QED BY <1>6, <1>7, <1>8, <1>9

(* The steps of the kernel, and the others of the collector's world.       *)
Kernel ==
  \/ \E c \in Cgroups : Create(c) \/ Remove(c)
  \/ \E c \in Cgroups, d \in Devices : Write(c, d)
  \/ \E d \in Devices : Reset(d) \/ Remap(d)

Rest == Submit \/ Publish \/ Leave \/ Signal \/ Restart

-----------------------------------------------------------------------------
(* Types                                                                   *)

LEMMA GapsType ==
  ASSUME TypeOK, NEW f \in ScanFaults, NEW late \in BOOLEAN, NEW now
  PROVE  /\ Observed(f) \subseteq Keys /\ ScanIncomplete(f) \subseteq Struck(f)
         /\ Struck(f) \subseteq Devices /\ Untrusted(Observed(f)) \subseteq Devices
         /\ Gaps(late, f) \subseteq Devices /\ Trouble(late, f) \subseteq Devices
         /\ Skipped(now) \subseteq Devices /\ Accumulated(Observed(f)) \in [Keys -> Nat]
<1>1. mapped \subseteq Devices /\ alive \subseteq Cgroups /\ incomplete \subseteq Devices
  BY DEF TypeOK
<1>2. Observed(f) \subseteq Keys
  BY <1>1, ObservedFacts
<1>3. ScanIncomplete(f) \subseteq Struck(f) /\ Struck(f) \subseteq Devices
  BY <1>1, ChargedIsStruck
<1>4. Untrusted(Observed(f)) \subseteq Devices
  BY <1>2, UntrustedFacts
<1>5. Accumulated(Observed(f)) \in [Keys -> Nat]
  BY AccumulatedType
<1>6. Gaps(late, f) \subseteq Devices /\ Trouble(late, f) \subseteq Devices
  BY <1>1, <1>3, <1>4 DEF Gaps, Trouble
<1>7. Skipped(now) \subseteq Devices
  BY DEF Skipped
<1> QED BY <1>2, <1>3, <1>4, <1>5, <1>6, <1>7

LEMMA TypeInit ==
  ASSUME Init PROVE TypeOK
<1>1. /\ 0 \in 0 .. MaxBucket /\ 0 \in 0 .. MaxRestarts
      /\ [k \in Keys |-> 0] \in [Keys -> Nat]
      /\ [k \in Keys |-> None] \in [Keys -> Nat \union {None}]
  BY CollectorAssumption
<1>2. closed \in [bucket : 0 .. MaxBucket, complete : SUBSET Devices, amount : [Keys -> Nat]]
  BY <1>1 DEF Init, NoBucket
<1> QED BY <1>1, <1>2 DEF Init, TypeOK

LEMMA TypeScan ==
  ASSUME TypeOK, ScanAny PROVE TypeOK'
<1>1. PICK now \in 0 .. MaxBucket, late \in BOOLEAN, f \in ScanFaults : Scanned(now, late, f)
  BY ScanCases
<1>2. /\ Observed(f) \subseteq Keys /\ ScanIncomplete(f) \subseteq Devices
      /\ Struck(f) \subseteq Devices /\ Gaps(late, f) \subseteq Devices
      /\ Trouble(late, f) \subseteq Devices /\ Skipped(now) \subseteq Devices
      /\ Accumulated(Observed(f)) \in [Keys -> Nat]
  BY GapsType
<1>3. baseline' \in [Keys -> Nat \union {None}] /\ seen' \subseteq Keys /\ initialized' \in BOOLEAN
  BY <1>1, <1>2 DEF Scanned, TypeOK
<1>4. \A gaps, amounts : Complete(gaps, amounts) \in SUBSET Devices
  BY DEF Complete
<1>5. /\ amount' \in [Keys -> Nat] /\ bucket' \in 0 .. MaxBucket
      /\ pc' \in {"scan", "submit", "publish", "stopped"}
      /\ closed' \in [bucket : 0 .. MaxBucket, complete : SUBSET Devices,
                      amount : [Keys -> Nat]]
  BY <1>1, <1>2, <1>4 DEF Scanned, TypeOK
<1>6. /\ incomplete' \subseteq Devices /\ troubled' \subseteq Devices
      /\ quiet' \subseteq Devices /\ rewound' \subseteq Devices
  BY <1>1, <1>2 DEF Scanned, TypeOK
<1>7. since' \in [Keys -> Nat]
  BY <1>1 DEF Scanned, TypeOK
<1>8. irregular' \subseteq 0 .. MaxBucket
  BY <1>1 DEF Scanned, Tardy, Missed, TypeOK
<1> QED BY <1>1, <1>3, <1>5, <1>6, <1>7, <1>8 DEF Scanned, TypeOK

LEMMA TypeKernel ==
  ASSUME TypeOK, Kernel
  PROVE  TypeOK'
<1> USE DEF KeepCollector, collectorVars
<1>0. \A c \in Cgroups : Touched(c) \subseteq Devices
  BY DEF Touched
<1>1. ASSUME NEW c \in Cgroups, Create(c) PROVE TypeOK'
  BY <1>0, <1>1 DEF Create, TypeOK
<1>2. ASSUME NEW c \in Cgroups, Remove(c) PROVE TypeOK'
  BY <1>0, <1>2 DEF Remove, TypeOK
<1>3. ASSUME NEW c \in Cgroups, NEW d \in Devices, Write(c, d) PROVE TypeOK'
  <2>1. counter' \in [Keys -> Nat] /\ since' \in [Keys -> Nat]
    BY <1>3 DEF Write, TypeOK
  <2> QED BY <1>3, <2>1 DEF Write, TypeOK
<1>4. ASSUME NEW d \in Devices, Reset(d) PROVE TypeOK'
  <2>1. counter' \in [Keys -> Nat]
    BY <1>4 DEF Reset, TypeOK
  <2> QED BY <1>4, <2>1 DEF Reset, TypeOK
<1>5. ASSUME NEW d \in Devices, Remap(d) PROVE TypeOK'
  BY <1>5 DEF Remap, TypeOK
<1> QED BY <1>1, <1>2, <1>3, <1>4, <1>5 DEF Kernel

LEMMA TypeRest ==
  ASSUME TypeOK, Rest
  PROVE  TypeOK'
<1> USE DEF KeepAllBut, kernelVars, Rest
<1>0. /\ bucket \in Nat /\ MaxBucket \in Nat /\ MaxRestarts \in Nat
      /\ closed.bucket \in 0 .. MaxBucket /\ closed.complete \in SUBSET Devices
      /\ restarts \in 0 .. MaxRestarts
  BY CollectorAssumption DEF TypeOK
<1>1. CASE Submit
  <2>1. recorded' \subseteq (0 .. MaxBucket) \X Devices
    BY <1>0, <1>1 DEF Submit, TypeOK
  <2>2. /\ incomplete' \subseteq Devices /\ troubled' \subseteq Devices
        /\ irregular' \subseteq 0 .. MaxBucket
        /\ pc' \in {"scan", "submit", "publish", "stopped"}
    BY <1>1 DEF Submit, TypeOK
  <2>3. UNCHANGED <<alive, dead, counter, mapped, bucket, initialized, baseline, seen, amount,
                    closed, restarts, since, rewound, quiet, stop, report>>
    BY <1>1 DEF Submit
  <2> QED BY <2>1, <2>2, <2>3 DEF TypeOK
<1>2. CASE Publish
  <2>1. report' \in [end : 1 .. MaxBucket + 1, complete : SUBSET Devices]
    BY <1>0, <1>2 DEF Publish
  <2> QED BY <1>2, <2>1 DEF Publish, TypeOK
<1>3. CASE Leave
  BY <1>3 DEF Leave, TypeOK
<1>4. CASE Signal
  BY <1>4 DEF Signal, TypeOK
<1>5. CASE Restart
  <2>1. bucket' \in 0 .. MaxBucket /\ restarts' \in 0 .. MaxRestarts
    BY <1>0, <1>5 DEF Restart
  <2>2. /\ closed' \in [bucket : 0 .. MaxBucket, complete : SUBSET Devices,
                        amount : [Keys -> Nat]]
        /\ amount' \in [Keys -> Nat] /\ baseline' \in [Keys -> Nat \union {None}]
    BY <1>0, <1>5 DEF Restart, NoBucket
  <2> QED BY <1>5, <2>1, <2>2 DEF Restart, TypeOK
<1> QED BY <1>1, <1>2, <1>3, <1>4, <1>5
-----------------------------------------------------------------------------
(* What is handed over and reported                                        *)

LEMMA HandScan ==
  ASSUME TypeOK, HandInv, ScanAny PROVE HandInv'
<1>1. PICK now \in 0 .. MaxBucket, late \in BOOLEAN, f \in ScanFaults : Scanned(now, late, f)
  BY ScanCases
<1>2. bucket \in Nat /\ now \in Nat
  BY CollectorAssumption DEF TypeOK
<1>3. pc = "scan" /\ recorded' = recorded /\ report' = report
  BY <1>1 DEF Scanned
<1>4. CASE bucket' = bucket /\ pc' = pc /\ closed' = closed
  BY <1>3, <1>4 DEF HandInv
<1>5. CASE closed'.bucket = bucket /\ bucket' > bucket /\ pc' = "submit"
  <2>1. \A r \in recorded : r[1] \in Nat /\ r[1] < bucket
    BY CollectorAssumption DEF HandInv, TypeOK
  <2>2. bucket' \in Nat /\ \A r \in recorded : r[1] < bucket'
    BY <1>2, <1>5, <2>1, <1>1 DEF Scanned
  <2>3. report # None => report.end <= bucket /\ {report.end - 1} \X report.complete \subseteq recorded
    BY <1>3 DEF HandInv
  <2> QED BY <1>3, <1>5, <2>1, <2>2, <2>3 DEF HandInv
<1>6. \/ bucket' = bucket /\ pc' = pc /\ closed' = closed
      \/ closed'.bucket = bucket /\ bucket' > bucket /\ pc' = "submit"
  BY <1>1 DEF Scanned
<1> QED BY <1>4, <1>5, <1>6

LEMMA HandSubmit ==
  ASSUME TypeOK, HandInv, Submit PROVE HandInv'
<1>1. /\ pc = "submit" /\ bucket' = bucket /\ closed' = closed /\ report' = report
      /\ pc' \in {"publish", "stopped"}
      /\ recorded' \in {recorded, recorded \union ({closed.bucket} \X closed.complete)}
      /\ pc' = "publish" => {closed.bucket} \X closed.complete \subseteq recorded'
  BY DEF Submit, KeepAllBut
<1>2. /\ bucket \in Nat /\ closed.bucket \in Nat /\ closed.bucket < bucket
      /\ report # None => report.end \in Nat
  BY <1>1, CollectorAssumption DEF HandInv, TypeOK
<1>3. \A r \in recorded' : r[1] < bucket
  BY <1>1, <1>2 DEF HandInv
<1>4. report # None => /\ report.end <= closed.bucket /\ report.end <= bucket
                       /\ {report.end - 1} \X report.complete \subseteq recorded'
  BY <1>1, <1>2 DEF HandInv
<1> QED BY <1>1, <1>2, <1>3, <1>4 DEF HandInv

LEMMA HandPublish ==
  ASSUME TypeOK, HandInv, Publish PROVE HandInv'
<1>1. /\ pc = "publish" /\ pc' = "scan" /\ bucket' = bucket /\ recorded' = recorded
      /\ report' = [end |-> closed.bucket + 1, complete |-> closed.complete]
  BY DEF Publish, KeepAllBut
<1>2. /\ bucket \in Nat /\ closed.bucket \in Nat /\ closed.bucket < bucket
      /\ {closed.bucket} \X closed.complete \subseteq recorded
      /\ \A r \in recorded : r[1] < bucket
  BY <1>1, CollectorAssumption DEF HandInv, TypeOK
<1>3. /\ report'.end = closed.bucket + 1 /\ report'.complete = closed.complete
      /\ closed.bucket + 1 <= bucket /\ (closed.bucket + 1) - 1 = closed.bucket
  BY <1>1, <1>2
<1> QED BY <1>1, <1>2, <1>3 DEF HandInv

LEMMA HandRest ==
  ASSUME TypeOK, HandInv, Leave \/ Signal \/ Restart
  PROVE  HandInv'
<1>0. /\ bucket \in Nat /\ \A r \in recorded : r[1] \in Nat /\ r[1] < bucket
  BY CollectorAssumption DEF HandInv, TypeOK
<1>1. CASE Leave
  BY <1>1 DEF Leave, KeepAllBut, HandInv
<1>2. CASE Signal
  BY <1>2 DEF Signal, KeepAllBut, HandInv
<1>3. CASE Restart
  <2>1. bucket' \in Nat /\ bucket <= bucket' /\ recorded' = recorded
        /\ pc' = "scan" /\ report' = None
    BY <1>0, <1>3, CollectorAssumption DEF Restart
  <2>2. \A r \in recorded' : r[1] < bucket'
    BY <1>0, <2>1
  <2> QED BY <2>1, <2>2 DEF HandInv
<1> QED BY <1>1, <1>2, <1>3

LEMMA HandKernel ==
  ASSUME HandInv, UNCHANGED <<bucket, pc, closed, recorded, report>>
  PROVE  HandInv'
BY DEF HandInv
-----------------------------------------------------------------------------
(* The bucket a process starts in                                          *)

LEMMA FirstScan ==
  ASSUME TypeOK, FirstInv, ScanAny PROVE FirstInv'
<1>1. PICK now \in 0 .. MaxBucket, late \in BOOLEAN, f \in ScanFaults : Scanned(now, late, f)
  BY ScanCases
<1>2. pc = "scan" /\ report' = report
  BY <1>1 DEF Scanned
<1>3. \/ pc' = "submit" \/ incomplete' = Devices
      \/ incomplete' = Gaps(late, f)
  BY <1>1 DEF Scanned
<1>4. incomplete \subseteq Gaps(late, f) /\ Gaps(late, f) \subseteq Devices
  BY GapsType DEF Gaps
<1> QED BY <1>2, <1>3, <1>4 DEF FirstInv

LEMMA FirstRest ==
  ASSUME TypeOK, FirstInv, Rest PROVE FirstInv'
<1>1. CASE Publish
  <2>1. closed.bucket + 1 \in Nat /\ closed.complete \in SUBSET Devices
    BY CollectorAssumption DEF TypeOK
  <2>2. report' \in [end : Nat, complete : SUBSET Devices]
    BY <1>1, <2>1 DEF Publish
  <2>3. report' # None
    BY <2>2, CollectorAssumption
  <2> QED BY <2>3 DEF FirstInv
<1>2. CASE Submit \/ Leave
  <2>1. pc' # "scan"
    BY <1>2 DEF Submit, Leave
  <2> QED BY <2>1 DEF FirstInv
<1>3. CASE Signal
  BY <1>3 DEF Signal, FirstInv
<1>4. CASE Restart
  BY <1>4 DEF Restart, FirstInv
<1> QED BY <1>1, <1>2, <1>3, <1>4 DEF Rest
-----------------------------------------------------------------------------
(* A bucket that was not scanned in time                                   *)

LEMMA TimeScan ==
  ASSUME TypeOK, TimeInv, ScanAny PROVE TimeInv'
<1>1. PICK now \in 0 .. MaxBucket, late \in BOOLEAN, f \in ScanFaults : Scanned(now, late, f)
  BY ScanCases
<1>2. /\ ScanIncomplete(f) \subseteq Devices /\ Gaps(late, f) \subseteq Devices
      /\ Skipped(now) \subseteq Devices /\ bucket \in Nat /\ now \in Nat
  <2>1. bucket \in Nat /\ now \in Nat
    BY CollectorAssumption DEF TypeOK
  <2>2. /\ ScanIncomplete(f) \subseteq Struck(f) /\ Struck(f) \subseteq Devices
        /\ Gaps(late, f) \subseteq Devices /\ Skipped(now) \subseteq Devices
    BY GapsType
  <2> QED BY <2>1, <2>2
<1>3. CASE bucket' = bucket /\ incomplete' = Gaps(late, f) /\ irregular' = Tardy(late)
  <2>1. bucket \in Tardy(late) => Devices \subseteq Gaps(late, f)
    BY DEF TimeInv, Tardy, Gaps
  <2> QED BY <1>2, <1>3, <2>1 DEF TimeInv
<1>4. CASE incomplete' = Devices
  BY <1>4 DEF TimeInv
<1>5. CASE /\ now > bucket /\ bucket' = now
           /\ incomplete' = ScanIncomplete(f) \union Skipped(now) \union (Devices \ mapped)
           /\ irregular' = (Tardy(late) \intersect {bucket}) \union Missed(now)
  <2>1. bucket' \in irregular' => now > bucket + 1
    BY <1>2, <1>5 DEF Missed
  <2>2. now > bucket + 1 => incomplete' = Devices
    BY <1>2, <1>5 DEF Skipped
  <2> QED BY <2>1, <2>2 DEF TimeInv
<1> QED BY <1>1, <1>3, <1>4, <1>5 DEF Scanned

LEMMA TimeRest ==
  ASSUME TimeInv, Rest PROVE TimeInv'
<1>1. CASE Submit
  <2>1. /\ bucket' = bucket
        /\ incomplete' = Devices \/ (incomplete' = incomplete /\ irregular' = irregular)
    BY <1>1 DEF Submit, KeepAllBut
  <2> QED BY <2>1 DEF TimeInv
<1>2. CASE Publish
  BY <1>2 DEF Publish, KeepAllBut, TimeInv
<1>3. CASE Leave \/ Signal
  BY <1>3 DEF Leave, Signal, KeepAllBut, TimeInv
<1>4. CASE Restart
  BY <1>4 DEF Restart, TimeInv
<1> QED BY <1>1, <1>2, <1>3, <1>4 DEF Rest
-----------------------------------------------------------------------------
(* Gaps                                                                    *)

LEMMA SeenIsObserved ==
  ASSUME TypeOK, QuietInv, NEW f \in ScanFaults, NEW k \in Keys,
         k \in seen \union Observed(f), k[1] \in Leaves,
         k[2] \notin Devices \ mapped, k[2] \notin Struck(f)
  PROVE  k \in Observed(f)
<1>1. k[2] \in mapped /\ mapped \subseteq Devices /\ alive \subseteq Cgroups
  BY KeyFacts DEF TypeOK
<1>2. counter[k] \in Nat /\ (k \in seen => counter[k] # 0)
  BY DEF QuietInv, TypeOK
<1> QED BY <1>1, <1>2, MissedIsStruck

LEMMA UntrustedIsTroubled ==
  ASSUME TypeOK, QuietInv, NEW f \in ScanFaults, NEW late \in BOOLEAN
  PROVE  Gaps(late, f) \subseteq troubled \union Trouble(late, f)
<1>1. /\ mapped \subseteq Devices /\ alive \subseteq Cgroups /\ Observed(f) \subseteq Keys
      /\ ScanIncomplete(f) \subseteq Struck(f)
      /\ \A k \in Observed(f) : k[1] \in Leaves
  BY GapsType, ObservedFacts DEF TypeOK
<1>2. ASSUME NEW d \in Untrusted(Observed(f)), d \notin troubled, d \notin Trouble(late, f)
      PROVE  FALSE
  <2>1. PICK k \in Keys :
          /\ k[2] = d
          /\ \/ k \in Observed(f) /\ baseline[k] = None /\ initialized /\ k \in seen
             \/ k \in Observed(f) /\ baseline[k] # None /\ counter[k] < baseline[k]
             \/ k \notin Observed(f) /\ baseline[k] # None
    BY <1>1, UntrustedFacts
  <2>2. /\ k \in seen /\ k[1] \in Leaves => baseline[k] # None
        /\ baseline[k] # None => /\ k[1] \in Leaves /\ k[2] \in mapped
                                 /\ k \in seen /\ counter[k] >= baseline[k]
        /\ counter[k] \in Nat /\ baseline[k] \in Nat \union {None}
    BY <1>2, <2>1 DEF QuietInv, TypeOK
  <2>3. k \notin Observed(f) /\ baseline[k] # None
    BY <1>1, <2>1, <2>2
  <2>4. k[2] \notin Devices \ mapped /\ k[2] \notin Struck(f)
    BY <1>2, <2>1 DEF Trouble
  <2> QED BY <2>2, <2>3, <2>4, SeenIsObserved
<1> QED BY <1>1, <1>2 DEF Gaps, Trouble, QuietInv

LEMMA QuietScan ==
  ASSUME TypeOK, QuietInv, ScanAny PROVE QuietInv'
<1>1. PICK now \in 0 .. MaxBucket, late \in BOOLEAN, f \in ScanFaults : Scanned(now, late, f)
  BY ScanCases
<1> DEFINE obs == Observed(f)
<1>2. /\ obs \subseteq Keys /\ ScanIncomplete(f) \subseteq Struck(f)
      /\ Gaps(late, f) \subseteq Devices /\ Trouble(late, f) \subseteq Devices
      /\ Accumulated(obs) \in [Keys -> Nat]
  BY GapsType
<1>3. \A k \in obs : k[1] \in Leaves /\ k[2] \in mapped /\ counter[k] > 0
  BY ObservedFacts DEF TypeOK
<1>4. Gaps(late, f) \subseteq troubled \union Trouble(late, f)
  BY UntrustedIsTroubled
<1>5. /\ baseline' = [k \in Keys |-> IF k \in obs THEN counter[k] ELSE None]
      /\ seen' = seen \union obs /\ initialized' = TRUE
      /\ alive' = alive /\ counter' = counter /\ mapped' = mapped
  BY <1>1 DEF Scanned
<1>6. Leaves' = Leaves
  BY <1>5 DEF Leaves
<1>7. \A k \in Keys : counter[k] \in Nat /\ counter[k] # None
  BY CollectorAssumption DEF TypeOK
<1>8. \/ troubled' = Devices
      \/ (Devices \ mapped) \union Struck(f) \subseteq troubled'
  BY <1>1 DEF Scanned, Trouble
<1>9. \A k \in Keys : counter'[k] = 0 => baseline'[k] = None /\ k \notin seen'
  BY <1>3, <1>5, <1>7 DEF QuietInv
<1>10. ASSUME NEW k \in Keys, k[2] \notin troubled'
       PROVE  /\ k \in seen' /\ k[1] \in Leaves' => baseline'[k] # None
              /\ baseline'[k] # None => /\ k[1] \in Leaves' /\ k[2] \in mapped'
                                        /\ k \in seen' /\ counter'[k] >= baseline'[k]
  <2>1. k[2] \in Devices
    BY KeyFacts
  <2>2. k[2] \notin Devices \ mapped /\ k[2] \notin Struck(f)
    BY <1>8, <1>10, <2>1
  <2>3. k \in seen' /\ k[1] \in Leaves => k \in obs
    BY <1>5, <2>2, SeenIsObserved
  <2> QED BY <1>3, <1>5, <1>6, <1>7, <2>3
<1>11. incomplete' \subseteq troubled'
  BY <1>1, <1>2, <1>4 DEF Scanned
<1>12. QuietBucketIsComplete'
  <2>1. CASE pc' = "submit"
    <3>1. /\ quiet' = Devices \ (troubled \union Trouble(late, f) \union Skipped(now))
          /\ closed'.complete = Complete(Gaps(late, f) \union Skipped(now), Accumulated(obs))
          /\ closed'.amount = Accumulated(obs)
      BY <1>1, <2>1 DEF Scanned
    <3>2. MaxAmount \in Nat /\ \A c \in Cgroups, d \in Devices : Accumulated(obs)[<<c, d>>] \in Nat
      BY <1>2, KeyFacts, CollectorAssumption
    <3> QED BY <1>4, <3>1, <3>2 DEF QuietBucketIsComplete, Complete
  <2> QED BY <2>1 DEF QuietBucketIsComplete
<1> QED BY <1>5, <1>9, <1>10, <1>11, <1>12 DEF QuietInv

(* A cgroup that comes or goes makes or unmakes leaves only around it.     *)
LEMMA TreeChange ==
  ASSUME NEW c \in Cgroups, Create(c) \/ Remove(c)
  PROVE  \A x \in Cgroups \ Around(c) : x \in Leaves' <=> x \in Leaves
<1>1. \A x \in Cgroups \ Around(c) : x # c /\ Parent[c] # x
  BY CollectorAssumption DEF Around
<1>2. alive' = alive \union {c} \/ alive' = alive \ {c}
  BY DEF Create, Remove
<1> QED BY <1>1, <1>2 DEF Leaves

LEMMA QuietKernel ==
  ASSUME TypeOK, Steady, QuietInv, Kernel
  PROVE  QuietInv'
<1>1. /\ baseline' = baseline /\ seen' = seen /\ initialized' = initialized
      /\ incomplete' = incomplete /\ pc' = pc /\ closed' = closed /\ quiet' = quiet
  BY DEF Kernel, Create, Remove, Write, Reset, Remap, KeepCollector, collectorVars
<1>2. QuietBucketIsComplete'
  BY <1>1 DEF QuietInv, QuietBucketIsComplete
<1>3. \A k \in Keys : /\ k[1] \in Cgroups /\ k[2] \in Devices /\ counter[k] \in Nat
                      /\ baseline[k] \in Nat \union {None}
  BY KeyFacts DEF TypeOK
<1>4. ASSUME NEW c \in Cgroups, Create(c) \/ Remove(c) PROVE QuietInv'
  <2>1. counter' = counter /\ mapped' = mapped /\ troubled' = troubled \union Touched(c)
    BY <1>4 DEF Create, Remove
  <2>2. ASSUME NEW k \in Keys, k[2] \notin troubled'
        PROVE  counter[k] = 0 \/ (k[1] \in Leaves' <=> k[1] \in Leaves)
    <3>1. CASE k[1] \in Around(c)
      <4>1. ~(counter[<<k[1], k[2]>>] > 0)
        BY <1>3, <2>1, <2>2, <3>1 DEF Touched
      <4>2. k = <<k[1], k[2]>>
        BY KeyFacts
      <4> QED BY <1>3, <4>1, <4>2
    <3>2. CASE k[1] \notin Around(c)
      BY <1>3, <1>4, <3>2, TreeChange
    <3> QED BY <3>1, <3>2
  <2>3. Touched(c) \subseteq Devices
    BY DEF Touched
  <2>4. ASSUME NEW k \in Keys, k[2] \notin troubled'
        PROVE  /\ k \in seen /\ k[1] \in Leaves' => baseline[k] # None
               /\ baseline[k] # None => /\ k[1] \in Leaves' /\ k[2] \in mapped
                                        /\ k \in seen /\ counter[k] >= baseline[k]
    BY <2>1, <2>2, <2>4 DEF QuietInv
  <2>5. /\ incomplete \subseteq troubled'
        /\ ~initialized => troubled' = Devices
        /\ \A k \in Keys : counter[k] = 0 => baseline[k] = None /\ k \notin seen
    BY <2>1, <2>3 DEF QuietInv
  <2> QED BY <1>1, <1>2, <2>1, <2>4, <2>5 DEF QuietInv
<1>5. ASSUME NEW c \in Cgroups, NEW d \in Devices, Write(c, d) PROVE QuietInv'
  <2>1. /\ alive' = alive /\ mapped' = mapped /\ troubled' = troubled
        /\ counter' = [k \in Keys |-> IF k[1] \in Around(c) /\ k[2] = d
                                        THEN counter[k] + 1 ELSE counter[k]]
    BY <1>5 DEF Write
  <2>2. \A k \in Keys : counter'[k] \in Nat /\ counter'[k] >= counter[k]
    BY <1>3, <2>1
  <2>3. Leaves' = Leaves
    BY <2>1 DEF Leaves
  <2>4. ASSUME NEW k \in Keys, k[2] \notin troubled
        PROVE  /\ k \in seen /\ k[1] \in Leaves => baseline[k] # None
               /\ baseline[k] # None => /\ k[1] \in Leaves /\ k[2] \in mapped
                                        /\ k \in seen /\ counter'[k] >= baseline[k]
    BY <1>3, <2>2, <2>4 DEF QuietInv
  <2>5. \A k \in Keys : counter'[k] = 0 => baseline[k] = None /\ k \notin seen
    BY <1>3, <2>2 DEF QuietInv
  <2> QED BY <1>1, <1>2, <2>1, <2>3, <2>4, <2>5 DEF QuietInv
<1>6. ASSUME NEW d \in Devices, Reset(d) PROVE QuietInv'
  BY <1>6 DEF Reset, Steady
<1>7. ASSUME NEW d \in Devices, Remap(d) PROVE QuietInv'
  <2>1. /\ alive' = alive /\ counter' = counter /\ troubled' = troubled \union {d}
        /\ \A x \in Devices \ {d} : x \in mapped' <=> x \in mapped
    BY <1>7 DEF Remap
  <2>2. Leaves' = Leaves
    BY <2>1 DEF Leaves
  <2>3. /\ incomplete \subseteq troubled'
        /\ ~initialized => troubled' = Devices
    BY <2>1 DEF QuietInv
  <2>4. ASSUME NEW k \in Keys, k[2] \notin troubled'
        PROVE  /\ k \in seen /\ k[1] \in Leaves => baseline[k] # None
               /\ baseline[k] # None => /\ k[1] \in Leaves /\ k[2] \in mapped'
                                        /\ k \in seen /\ counter[k] >= baseline[k]
    BY <1>3, <2>1, <2>4 DEF QuietInv
  <2> QED BY <1>1, <1>2, <2>1, <2>2, <2>3, <2>4 DEF QuietInv
<1> QED BY <1>4, <1>5, <1>6, <1>7 DEF Kernel

LEMMA QuietRest ==
  ASSUME TypeOK, QuietInv, Rest
  PROVE  QuietInv'
<1> USE DEF KeepAllBut, kernelVars, Rest
<1>1. CASE Submit
  <2>1. /\ UNCHANGED <<alive, counter, mapped, initialized, baseline, seen>>
        /\ pc' # "submit"
        /\ \/ incomplete' = incomplete /\ troubled' = troubled
           \/ incomplete' = Devices /\ troubled' = Devices
    BY <1>1 DEF Submit
  <2>2. Leaves' = Leaves
    BY <2>1 DEF Leaves
  <2>3. QuietBucketIsComplete'
    BY <2>1 DEF QuietBucketIsComplete
  <2>4. \A k \in Keys : k[2] \in Devices
    BY KeyFacts
  <2> QED BY <2>1, <2>2, <2>3, <2>4 DEF QuietInv
<1>2. CASE Publish \/ Leave \/ Signal
  <2>1. /\ UNCHANGED <<alive, counter, mapped, initialized, baseline, seen, incomplete,
                       troubled, closed, quiet>>
        /\ pc' = pc \/ pc' # "submit"
    BY <1>2 DEF Publish, Leave, Signal
  <2>2. Leaves' = Leaves
    BY <2>1 DEF Leaves
  <2>3. QuietBucketIsComplete'
    BY <2>1 DEF QuietBucketIsComplete, QuietInv
  <2> QED BY <2>1, <2>2, <2>3 DEF QuietInv
<1>3. CASE Restart
  <2>1. /\ troubled' = Devices /\ incomplete' = Devices /\ pc' = "scan" /\ seen' = {}
        /\ baseline' = [k \in Keys |-> None]
    BY <1>3 DEF Restart
  <2>2. \A k \in Keys : k[2] \in troubled' /\ baseline'[k] = None /\ k \notin seen'
    BY <2>1, KeyFacts
  <2> QED BY <2>1, <2>2 DEF QuietInv, QuietBucketIsComplete
<1> QED BY <1>1, <1>2, <1>3
-----------------------------------------------------------------------------
(* Amounts                                                                 *)

LEMMA FlatLeaves ==
  ASSUME Exact, alive \subseteq Cgroups
  PROVE  Leaves = alive /\ \A c \in Cgroups : Around(c) = {c}
BY CollectorAssumption DEF Exact, Leaves, Around

(* For a device without a gap, what has been accumulated after a scan is   *)
(* what was written, and a counter the scan did not show is zero.          *)
LEMMA AccumulatedIsWritten ==
  ASSUME TypeOK, Exact, AmountInv, NEW f \in ScanFaults, NEW late \in BOOLEAN,
         NEW k \in Keys, k[2] \notin Gaps(late, f)
  PROVE  /\ k \in Observed(f) =>
              /\ k[1] \in Leaves /\ Accumulated(Observed(f))[k] <= since[k]
              /\ k[2] \notin rewound => Accumulated(Observed(f))[k] = since[k]
         /\ k \notin Observed(f) =>
              /\ baseline[k] = None /\ amount[k] = 0 /\ Accumulated(Observed(f))[k] = 0
              /\ k[1] \in Leaves => counter[k] = 0
         /\ Accounted(k)
<1> DEFINE obs == Observed(f)
<1>1. /\ k[1] \in Cgroups /\ k[2] \in Devices /\ mapped \subseteq Devices
      /\ alive \subseteq Cgroups /\ counter \in [Keys -> Nat] /\ amount[k] \in Nat
      /\ since[k] \in Nat /\ baseline[k] \in Nat \union {None} /\ alive \intersect dead = {}
  BY KeyFacts DEF TypeOK
<1>2. k[2] \in mapped /\ k[2] \notin ScanIncomplete(f) /\ k[2] \notin Untrusted(obs)
  BY <1>1 DEF Gaps
<1>3. initialized /\ Accounted(k)
  BY <1>1 DEF Gaps, AmountInv
<1>4. /\ obs \subseteq Keys
      /\ k \in obs => k[1] \in Leaves /\ counter[k] > 0
  BY <1>1, ObservedFacts
<1>5. /\ k \in obs /\ baseline[k] = None => k \notin seen
      /\ k \in obs /\ baseline[k] # None => ~(counter[k] < baseline[k])
      /\ k \notin obs => baseline[k] = None
  BY <1>2, <1>3, <1>4, UntrustedFacts
<1>6. Accumulated(obs)[k] = amount[k] + IF k \in obs THEN Delta(k) ELSE 0
  BY DEF Accumulated
<1>7. CASE k \in obs
  <2>1. k[1] \notin dead
    BY <1>1, <1>4, <1>7, FlatLeaves
  <2>2. Delta(k) = IF baseline[k] = None THEN counter[k] ELSE counter[k] - baseline[k]
    BY <1>1, <1>3, <1>5, <1>7 DEF Delta, Fresh
  <2>3. CASE baseline[k] = None
    BY <1>1, <1>3, <1>4, <1>6, <1>7, <2>1, <2>2, <2>3 DEF Accounted
  <2>4. CASE baseline[k] # None
    BY <1>1, <1>3, <1>4, <1>6, <1>7, <2>1, <2>2, <2>4 DEF Accounted
  <2> QED BY <2>3, <2>4
<1>8. CASE k \notin obs
  <2>1. k[1] \in Leaves => ~(counter[k] > 0)
    BY <1>1, <1>2, <1>8, MissedIsCharged
  <2>2. counter[k] \in Nat
    BY <1>1
  <2> QED BY <1>1, <1>3, <1>5, <1>6, <1>8, <2>1, <2>2 DEF Accounted
<1> QED BY <1>3, <1>7, <1>8

LEMMA AmountScan ==
  ASSUME TypeOK, Exact, AmountInv, ScanAny PROVE AmountInv'
<1>1. PICK now \in 0 .. MaxBucket, late \in BOOLEAN, f \in ScanFaults : Scanned(now, late, f)
  BY ScanCases
<1> DEFINE obs == Observed(f)
<1>2. /\ baseline' = [k \in Keys |-> IF k \in obs THEN counter[k] ELSE None]
      /\ initialized' = TRUE /\ alive' = alive /\ dead' = dead /\ counter' = counter
  BY <1>1 DEF Scanned
<1>3. \A k \in Keys : /\ counter[k] \in Nat /\ counter[k] # None /\ k[1] \in Cgroups
                      /\ k[2] \in Devices /\ since[k] \in Nat
  BY CollectorAssumption, KeyFacts DEF TypeOK
<1>4. ASSUME NEW k \in Keys, k[2] \notin incomplete'
      PROVE  Accounted(k)'
  <2>1. CASE /\ amount' = Accumulated(obs) /\ incomplete' = Gaps(late, f)
             /\ since' = since /\ rewound' = rewound
    <3>1. CASE k \in obs
      <4>1. /\ Accumulated(obs)[k] <= since[k]
            /\ k[2] \notin rewound => Accumulated(obs)[k] = since[k]
        BY <1>4, <2>1, <3>1, AccumulatedIsWritten
      <4>2. Accumulated(obs)[k] \in Nat /\ baseline'[k] = counter[k]
        BY <1>2, <3>1, AccumulatedType
      <4> QED BY <1>2, <1>3, <2>1, <4>1, <4>2 DEF Accounted
    <3>2. CASE k \notin obs
      <4>1. baseline[k] = None /\ Accumulated(obs)[k] = 0 /\ Accounted(k)
        BY <1>4, <2>1, <3>2, AccumulatedIsWritten
      <4>2. baseline'[k] = None
        BY <1>2, <3>2
      <4> QED BY <1>2, <2>1, <4>1, <4>2 DEF Accounted
    <3> QED BY <3>1, <3>2
  <2>2. CASE incomplete' = Devices
    BY <1>3, <1>4, <2>2
  <2>3. CASE /\ amount' = [j \in Keys |-> 0] /\ since' = [j \in Keys |-> 0] /\ rewound' = {}
             /\ incomplete' = ScanIncomplete(f) \union Skipped(now) \union (Devices \ mapped)
    <3>1. CASE k \in obs
      BY <1>2, <1>3, <2>3, <3>1 DEF Accounted
    <3>2. CASE k \notin obs
      <4>1. k[2] \in mapped /\ k[2] \notin ScanIncomplete(f) /\ mapped \subseteq Devices
            /\ alive \subseteq Cgroups /\ counter \in [Keys -> Nat]
        BY <1>3, <1>4, <2>3 DEF TypeOK
      <4>2. k[1] \in Leaves => ~(counter[k] > 0)
        BY <3>2, <4>1, MissedIsCharged
      <4>3. k[1] \notin dead => counter[k] = 0
        BY <1>3, <4>1, <4>2, FlatLeaves DEF AmountInv
      <4> QED BY <1>2, <2>3, <3>2, <4>3 DEF Accounted
    <3> QED BY <3>1, <3>2
  <2> QED BY <1>1, <2>1, <2>2, <2>3 DEF Scanned
<1> QED BY <1>2, <1>4 DEF AmountInv

LEMMA AmountKernel ==
  ASSUME TypeOK, Exact, AmountInv, Kernel
  PROVE  AmountInv'
<1>1. /\ baseline' = baseline /\ initialized' = initialized /\ amount' = amount
      /\ incomplete' = incomplete
  BY DEF Kernel, Create, Remove, Write, Reset, Remap, KeepCollector, collectorVars
<1>2. \A k \in Keys : /\ k[1] \in Cgroups /\ k[2] \in Devices /\ counter[k] \in Nat
                      /\ baseline[k] \in Nat \union {None} /\ since[k] \in Nat
                      /\ amount[k] \in Nat
  BY KeyFacts DEF TypeOK
<1>3. ASSUME NEW c \in Cgroups, Create(c) \/ Remove(c) PROVE AmountInv'
  <2>1. /\ counter' = counter /\ since' = since /\ rewound' = rewound
        /\ dead \subseteq dead' /\ alive \union dead \subseteq alive' \union dead'
    BY <1>3 DEF Create, Remove
  <2>2. \A k \in Keys : Accounted(k) => Accounted(k)'
    BY <1>1, <2>1 DEF Accounted
  <2>3. \A k \in Keys : k[1] \notin alive' \union dead' => counter'[k] = 0
    BY <2>1 DEF AmountInv
  <2> QED BY <1>1, <2>2, <2>3 DEF AmountInv
<1>4. ASSUME NEW c \in Cgroups, NEW d \in Devices, Write(c, d) PROVE AmountInv'
  <2>1. /\ alive' = alive /\ dead' = dead /\ rewound' = rewound /\ c \in Leaves
        /\ counter' = [k \in Keys |-> IF k[1] \in Around(c) /\ k[2] = d
                                        THEN counter[k] + 1 ELSE counter[k]]
        /\ since' = [k \in Keys |-> IF k[1] \in Around(c) /\ k[2] = d
                                      THEN since[k] + 1 ELSE since[k]]
    BY <1>4 DEF Write
  <2>2. ASSUME NEW k \in Keys, Accounted(k) PROVE Accounted(k)'
    <3>1. CASE k[1] \in Around(c) /\ k[2] = d
      <4>1. counter'[k] = counter[k] + 1 /\ since'[k] = since[k] + 1
        BY <2>1, <3>1
      <4> QED BY <1>1, <1>2, <2>1, <2>2, <4>1 DEF Accounted
    <3>2. CASE ~(k[1] \in Around(c) /\ k[2] = d)
      <4>1. counter'[k] = counter[k] /\ since'[k] = since[k]
        BY <2>1, <3>2
      <4> QED BY <1>1, <2>1, <2>2, <4>1 DEF Accounted
    <3> QED BY <3>1, <3>2
  <2>3. c \in alive /\ Around(c) = {c}
    BY <2>1, FlatLeaves DEF TypeOK
  <2>4. \A k \in Keys : k[1] \notin alive' \union dead' => counter'[k] = 0
    BY <2>1, <2>3 DEF AmountInv
  <2> QED BY <1>1, <2>2, <2>4 DEF AmountInv
<1>5. ASSUME NEW d \in Devices, Reset(d) PROVE AmountInv'
  <2>1. /\ alive' = alive /\ dead' = dead /\ since' = since
        /\ counter' = [k \in Keys |-> IF k[2] = d THEN 0 ELSE counter[k]]
        /\ rewound' = rewound \union {d}
    BY <1>5 DEF Reset
  <2>2. ASSUME NEW k \in Keys, Accounted(k) PROVE Accounted(k)'
    <3>1. CASE k[2] = d
      <4>1. counter'[k] = 0 /\ k[2] \in rewound'
        BY <2>1, <3>1
      <4> QED BY <1>1, <1>2, <2>1, <2>2, <4>1 DEF Accounted
    <3>2. CASE k[2] # d
      <4>1. counter'[k] = counter[k] /\ (k[2] \in rewound' <=> k[2] \in rewound)
        BY <2>1, <3>2
      <4> QED BY <1>1, <2>1, <2>2, <4>1 DEF Accounted
    <3> QED BY <3>1, <3>2
  <2>3. \A k \in Keys : k[1] \notin alive' \union dead' => counter'[k] = 0
    BY <2>1 DEF AmountInv
  <2> QED BY <1>1, <2>2, <2>3 DEF AmountInv
<1>6. ASSUME NEW d \in Devices, Remap(d) PROVE AmountInv'
  BY <1>1, <1>6 DEF Remap, AmountInv, Accounted
<1> QED BY <1>3, <1>4, <1>5, <1>6 DEF Kernel

LEMMA AmountRest ==
  ASSUME TypeOK, AmountInv, Rest
  PROVE  AmountInv'
<1> USE DEF KeepAllBut, kernelVars, Rest
<1>0. \A k \in Keys : k[2] \in Devices
  BY KeyFacts
<1>1. UNCHANGED <<alive, dead, counter>>
  BY DEF Submit, Publish, Leave, Signal, Restart
<1>2. CASE incomplete' = Devices
  BY <1>0, <1>1, <1>2 DEF AmountInv
<1>3. CASE UNCHANGED <<initialized, baseline, amount, incomplete, since, rewound>>
  BY <1>1, <1>3 DEF AmountInv, Accounted
<1>4. \/ incomplete' = Devices
      \/ UNCHANGED <<initialized, baseline, amount, incomplete, since, rewound>>
  BY DEF Submit, Publish, Leave, Signal, Restart
<1> QED BY <1>2, <1>3, <1>4
-----------------------------------------------------------------------------
(* The invariant holds                                                     *)

LEMMA InitInv ==
  ASSUME Init PROVE IInv
<1>1. TypeOK
  BY TypeInit
<1>2. HandInv
  BY DEF Init, HandInv
<1>3. \A k \in Keys : k[2] \in Devices
  BY KeyFacts
<1>4. QuietInv
  BY <1>3 DEF Init, QuietInv, QuietBucketIsComplete
<1>5. AmountInv
  BY <1>3 DEF Init, AmountInv
<1>6. FirstInv
  BY DEF Init, FirstInv
<1>7. TimeInv
  BY DEF Init, TimeInv
<1> QED BY <1>1, <1>2, <1>4, <1>5, <1>6, <1>7 DEF IInv

LEMMA NextInv ==
  ASSUME IInv, [Next]_vars PROVE IInv'
<1> USE DEF IInv
<1>1. CASE ScanAny
  BY <1>1, TypeScan, HandScan, FirstScan, TimeScan, QuietScan, AmountScan DEF Steady, Exact
<1>2. CASE Kernel
  <2>1. UNCHANGED <<bucket, pc, closed, recorded, report, incomplete, irregular>>
    BY <1>2 DEF Kernel, Create, Remove, Write, Reset, Remap, KeepCollector, collectorVars
  <2>2. FirstInv' /\ TimeInv'
    BY <2>1 DEF FirstInv, TimeInv
  <2> QED BY <1>2, <2>1, <2>2, TypeKernel, HandKernel, QuietKernel, AmountKernel DEF Steady, Exact
<1>3. CASE Rest
  <2>1. HandInv'
    BY <1>3, HandSubmit, HandPublish, HandRest DEF Rest
  <2> QED BY <1>3, <2>1, TypeRest, FirstRest, TimeRest, QuietRest, AmountRest DEF Steady, Exact
<1>4. CASE UNCHANGED vars
  <2>1. /\ UNCHANGED <<alive, dead, counter, mapped, bucket, initialized, baseline, seen>>
        /\ UNCHANGED <<amount, incomplete, pc, closed, stop, recorded, report, restarts>>
        /\ UNCHANGED <<since, rewound, troubled, irregular, quiet>>
    BY <1>4 DEF vars, kernelVars, collectorVars
  <2>2. TypeOK' /\ HandInv' /\ FirstInv' /\ TimeInv'
    BY <2>1 DEF TypeOK, HandInv, FirstInv, TimeInv
  <2>3. Steady => QuietInv'
    BY <2>1 DEF QuietInv, QuietBucketIsComplete, Leaves
  <2>4. Exact => AmountInv'
    BY <2>1 DEF AmountInv, Accounted
  <2> QED BY <2>2, <2>3, <2>4 DEF Steady, Exact
<1> QED BY <1>1, <1>2, <1>3, <1>4 DEF Next, Kernel, Rest

(* The inductive invariant holds in every reachable state.                 *)
THEOREM Invariance == Spec => []IInv
BY InitInv, NextInv, PTL DEF Spec

-----------------------------------------------------------------------------
(* What the collector promises                                             *)

(* Every variable keeps its type, whatever the kernel, the clock and the   *)
(* database do.                                                            *)
THEOREM TypeCorrect == Spec => []TypeOK
<1>1. IInv => TypeOK
  BY DEF IInv
<1> QED BY <1>1, Invariance, PTL

(* A minute that the tracker reports complete for a device is in the       *)
(* database, so an alert task that ranks it reads all of it.               *)
THEOREM ReportsAreDurable == Spec => []ReportedIsRecorded
<1>1. IInv => ReportedIsRecorded
  <2> SUFFICES ASSUME HandInv, report # None, NEW d \in report.complete
               PROVE  <<report.end - 1, d>> \in recorded
    BY DEF IInv, ReportedIsRecorded
  <2> QED BY DEF HandInv
<1> QED BY <1>1, Invariance, PTL

(* No bucket is handed to the database twice for a device, in any number   *)
(* of processes whose clock is not behind at their start.                  *)
THEOREM HandedOverOnce == Spec => RecordedOnce
<1>1. IInv => (pc = "submit" => \A d \in closed.complete : <<closed.bucket, d>> \notin recorded)
  <2> SUFFICES ASSUME IInv, pc = "submit", NEW d \in closed.complete,
                      <<closed.bucket, d>> \in recorded
               PROVE  FALSE
    OBVIOUS
  <2>1. <<closed.bucket, d>>[1] < closed.bucket
    BY DEF IInv, HandInv
  <2>2. closed.bucket \in Nat
    BY CollectorAssumption DEF IInv, TypeOK
  <2> QED BY <2>1, <2>2
<1>2. IInv /\ [Next]_vars =>
        [pc = "submit" /\ (pc' = "publish" \/ recorded' # recorded) =>
           \A d \in closed.complete : <<closed.bucket, d>> \notin recorded]_vars
  BY <1>1
<1> QED BY <1>2, Invariance, PTL DEF Spec, RecordedOnce

(* Within a process the tracker only moves forward, also when the clock    *)
(* does not.                                                               *)
THEOREM TrackerMovesForward == Spec => ReportsMoveForward
<1>1. ASSUME IInv, [Next]_vars, report # None, report' # None, report' # report
      PROVE  report'.end > report.end
  <2>1. Publish
    <3>1. ~ScanAny
      <4> SUFFICES ASSUME NEW now, NEW late, NEW f,
                          Scan(now, late, f)
                   PROVE  report' = report
        BY <1>1 DEF ScanAny
      <4> QED BY DEF Scan
    <3>2. ~Kernel
      BY <1>1 DEF Kernel, Create, Remove, Write, Reset, Remap, KeepCollector
    <3>3. ~(Submit \/ Leave \/ Signal \/ Restart)
      BY <1>1 DEF Submit, Leave, Signal, Restart
    <3> QED BY <1>1, <3>1, <3>2, <3>3 DEF Next, Kernel, vars
  <2>2. pc = "publish" /\ report'.end = closed.bucket + 1
    BY <2>1 DEF Publish
  <2>3. report.end <= closed.bucket /\ report.end \in Nat /\ closed.bucket \in Nat
    BY <1>1, <2>2, CollectorAssumption DEF IInv, HandInv, TypeOK
  <2> QED BY <2>2, <2>3
<1>2. IInv /\ [Next]_vars =>
        [report # None /\ report' # None /\ report' # report => report'.end > report.end]_vars
  BY <1>1
<1> QED BY <1>2, Invariance, PTL DEF Spec, ReportsMoveForward

(* Where counters are not reset, a bucket in which nothing happened to a   *)
(* device is complete for it, in any tree of cgroups and whatever other    *)
(* faults there are: gaps do not outlast their causes.                     *)
THEOREM GapsHaveCauses == ASSUME Steady PROVE Spec => []QuietBucketIsComplete
<1>1. IInv => QuietBucketIsComplete
  BY DEF IInv, QuietInv
<1> QED BY <1>1, Invariance, PTL

(* Only a scan closes a bucket.                                            *)
LEMMA ClosingScans ==
  ASSUME [Next]_vars, Closing PROVE ScanAny
<1>1. ~Kernel
  BY DEF Closing, Kernel, Create, Remove, Write, Reset, Remap, KeepCollector
<1>2. ~Rest
  BY DEF Closing, Rest, Submit, Publish, Leave, Signal, Restart, KeepAllBut
<1>3. ~UNCHANGED vars
  BY DEF Closing, vars
<1> QED BY <1>1, <1>2, <1>3 DEF Next, Kernel, Rest

(* A bucket that was not scanned in time is closed complete for nobody.    *)
LEMMA ClosingInTime ==
  ASSUME IInv, [Next]_vars, Closing, closed'.bucket \in irregular'
  PROVE  closed'.complete = {}
<1>1. TypeOK /\ TimeInv
  BY DEF IInv
<1>2. PICK now \in 0 .. MaxBucket, late \in BOOLEAN, f \in ScanFaults : Scanned(now, late, f)
  BY <1>1, ClosingScans, ScanCases
<1>3. /\ now > bucket /\ closed'.bucket = bucket
      /\ closed'.complete = Complete(Gaps(late, f) \union Skipped(now),
                                     Accumulated(Observed(f)))
      /\ irregular' = (Tardy(late) \intersect {bucket}) \union Missed(now)
  BY <1>2 DEF Scanned, Closing
<1>4. bucket \in irregular \/ late \/ now > bucket + 1
  BY <1>3 DEF Tardy, Missed
<1>5. Devices \subseteq Gaps(late, f) \union Skipped(now)
  BY <1>1, <1>4 DEF TimeInv, Gaps, Skipped
<1> QED BY <1>3, <1>5 DEF Complete

(* The amounts of a complete bucket are exact, where no cgroup is inside   *)
(* another one and no first read fails.                                    *)
LEMMA ClosingIsExact ==
  ASSUME IInv, [Next]_vars, Exact, Closing, NEW d \in closed'.complete, NEW c \in Cgroups
  PROVE  LET written == IF c \in Leaves THEN since[<<c, d>>] ELSE 0
         IN IF d \in rewound THEN closed'.amount[<<c, d>>] <= written
                             ELSE closed'.amount[<<c, d>>] = written
<1>1. ScanAny
  BY ClosingScans
<1>2. TypeOK /\ AmountInv
  BY DEF IInv
<1>3. PICK now \in 0 .. MaxBucket, late \in BOOLEAN, f \in ScanFaults : Scanned(now, late, f)
  BY <1>1, <1>2, ScanCases
<1> DEFINE obs == Observed(f)
           k == <<c, d>>
<1>4. /\ closed'.complete = Complete(Gaps(late, f) \union Skipped(now), Accumulated(obs))
      /\ closed'.amount = Accumulated(obs)
  BY <1>3 DEF Scanned, Closing
<1>5. d \in Devices /\ d \notin Gaps(late, f)
  BY <1>4 DEF Complete
<1>6. k \in Keys /\ k[1] = c /\ k[2] = d
  BY <1>5, KeyFacts
<1> HIDE DEF k
<1>7. since[k] \in Nat /\ counter[k] \in Nat
  BY <1>2, <1>6 DEF TypeOK
<1>8. CASE k \in obs
  <2>1. /\ c \in Leaves /\ Accumulated(obs)[k] <= since[k]
        /\ d \notin rewound => Accumulated(obs)[k] = since[k]
    BY <1>2, <1>5, <1>6, <1>8, AccumulatedIsWritten
  <2> QED BY <1>4, <2>1 DEF k
<1>9. CASE k \notin obs
  <2>1. /\ baseline[k] = None /\ Accumulated(obs)[k] = 0 /\ Accounted(k)
        /\ c \in Leaves => counter[k] = 0
    BY <1>2, <1>5, <1>6, <1>9, AccumulatedIsWritten
  <2>2. c \in Leaves => c \notin dead
    BY <1>2, FlatLeaves DEF TypeOK
  <2>3. c \in Leaves => 0 <= since[k] /\ (d \notin rewound => since[k] = 0)
    BY <1>6, <1>7, <2>1, <2>2 DEF Accounted
  <2> QED BY <1>4, <2>1, <2>3 DEF k
<1> QED BY <1>8, <1>9

(* A bucket recorded as complete for a device holds exactly what every     *)
(* cgroup wrote, whatever gets lost, remapped, delayed or restarted on the *)
(* way, in any number of cgroups side by side; and for no device when its  *)
(* scans did not come in time.                                             *)
THEOREM BucketsAreExact == ASSUME Exact PROVE Spec => ExactAttribution
<1>1. ASSUME IInv, [Next]_vars, Closing
      PROVE  /\ closed'.bucket \in irregular' => closed'.complete = {}
             /\ \A d \in closed'.complete, c \in Cgroups :
                  LET written == IF c \in Leaves THEN since[<<c, d>>] ELSE 0
                  IN IF d \in rewound THEN closed'.amount[<<c, d>>] <= written
                                      ELSE closed'.amount[<<c, d>>] = written
  BY <1>1, ClosingInTime, ClosingIsExact
<1>2. IInv /\ [Next]_vars =>
        [Closing =>
           /\ closed'.bucket \in irregular' => closed'.complete = {}
           /\ \A d \in closed'.complete, c \in Cgroups :
                LET written == IF c \in Leaves THEN since[<<c, d>>] ELSE 0
                IN IF d \in rewound THEN closed'.amount[<<c, d>>] <= written
                                    ELSE closed'.amount[<<c, d>>] = written]_vars
  BY <1>1
<1> QED BY <1>2, Invariance, PTL DEF Spec, ExactAttribution

-----------------------------------------------------------------------------
(* The contract of the buckets                                             *)

(* What the contract sees of a collector.                                  *)
LEMMA PhaseAndHand ==
  /\ pc = "scan" => Phase = "open" /\ Hand = None
  /\ pc = "submit" => /\ Phase = "closed"
                      /\ Hand = [bucket |-> closed.bucket, complete |-> closed.complete]
  /\ pc = "publish" => /\ Phase = "saved"
                       /\ Hand = [bucket |-> closed.bucket, complete |-> closed.complete]
  /\ pc = "stopped" => Phase = "over" /\ Hand = None
BY DEF Phase, Hand

LEMMA NextPhaseAndHand ==
  /\ pc' = "scan" => Phase' = "open" /\ Hand' = None
  /\ pc' = "submit" => /\ Phase' = "closed"
                       /\ Hand' = [bucket |-> closed'.bucket, complete |-> closed'.complete]
  /\ pc' = "publish" => /\ Phase' = "saved"
                        /\ Hand' = [bucket |-> closed'.bucket, complete |-> closed'.complete]
  /\ pc' = "stopped" => Phase' = "over" /\ Hand' = None
BY DEF Phase, Hand

(* A scan that crosses a minute closes the bucket; any other is nobody     *)
(* else's business.                                                        *)
LEMMA ScanCloses ==
  ASSUME IInv, ScanAny
  PROVE  \/ \E now \in 0 .. MaxBucket, whole \in SUBSET Devices : Buckets!Close(now, whole)
         \/ UNCHANGED <<Phase, bucket, Hand, recorded, report>>
<1>1. TypeOK /\ FirstInv
  BY DEF IInv
<1>2. PICK now \in 0 .. MaxBucket, late \in BOOLEAN, f \in ScanFaults : Scanned(now, late, f)
  BY <1>1, ScanCases
<1>3. pc = "scan" /\ recorded' = recorded /\ report' = report
  BY <1>2 DEF Scanned
<1>4. CASE bucket' = bucket /\ pc' = pc /\ closed' = closed
  BY <1>3, <1>4, PhaseAndHand, NextPhaseAndHand
<1>5. CASE now > bucket /\ bucket' = now /\ pc' = "submit"
           /\ closed'.bucket = bucket
           /\ closed'.complete = Complete(Gaps(late, f) \union Skipped(now),
                                          Accumulated(Observed(f)))
  <2>1. closed'.complete \in SUBSET Devices
    BY <1>5 DEF Complete
  <2>2. report = None \/ now > bucket + 1 => closed'.complete = {}
    <3>1. CASE report = None
      <4>1. incomplete = Devices
        BY <1>1, <1>3, <3>1 DEF FirstInv
      <4>2. Devices \subseteq Gaps(late, f)
        BY <4>1 DEF Gaps
      <4> QED BY <1>5, <4>2 DEF Complete
    <3>2. CASE now > bucket + 1
      BY <1>5, <3>2 DEF Complete, Skipped
    <3> QED BY <3>1, <3>2
  <2>3. Buckets!Close(now, closed'.complete)
    BY <1>3, <1>5, <2>2, PhaseAndHand, NextPhaseAndHand DEF Buckets!Close
  <2> QED BY <2>1, <2>3
<1>6. \/ bucket' = bucket /\ pc' = pc /\ closed' = closed
      \/ /\ now > bucket /\ bucket' = now /\ pc' = "submit"
         /\ closed'.bucket = bucket
         /\ closed'.complete = Complete(Gaps(late, f) \union Skipped(now),
                                        Accumulated(Observed(f)))
  BY <1>2 DEF Scanned
<1> QED BY <1>4, <1>5, <1>6

(* Handing a bucket over records it, or the thread ends, whether the       *)
(* database has it or not.                                                 *)
LEMMA SubmitRecords ==
  ASSUME Submit
  PROVE  Buckets!Record \/ Buckets!Stop
<1> DEFINE marked == recorded \union ({closed.bucket} \X closed.complete)
<1>1. /\ pc = "submit" /\ bucket' = bucket /\ closed' = closed /\ report' = report
      /\ \/ pc' = "publish" /\ recorded' = recorded /\ closed.complete = {}
         \/ pc' = "publish" /\ recorded' = marked
         \/ pc' = "stopped" /\ recorded' \in {recorded, marked}
  BY DEF Submit, KeepAllBut
<1>2. /\ Phase = "closed" /\ Hand.bucket = closed.bucket /\ Hand.complete = closed.complete
      /\ Hand = [bucket |-> closed.bucket, complete |-> closed.complete]
  BY <1>1, PhaseAndHand
<1>3. recorded \union Buckets!Markers = marked
  BY <1>2 DEF Buckets!Markers
<1>4. CASE pc' = "publish"
  <2>1. recorded' = marked
    BY <1>1, <1>4
  <2> QED BY <1>1, <1>2, <1>3, <1>4, <2>1, NextPhaseAndHand DEF Buckets!Record
<1>5. CASE pc' = "stopped"
  BY <1>1, <1>2, <1>3, <1>5, NextPhaseAndHand DEF Buckets!Stop
<1> QED BY <1>1, <1>4, <1>5

(* Whatever the scans meet, minutes are closed, recorded and reported as   *)
(* the contract for their readers says, in any number of processes.        *)
THEOREM KeepsTheContract == Spec => KeepsBuckets
<1>1. Init => Buckets!Init
  <2> SUFFICES ASSUME Init PROVE Buckets!Init
    OBVIOUS
  <2>1. bucket \in 0 .. MaxBucket
    BY CollectorAssumption DEF Init
  <2> QED BY <2>1, PhaseAndHand DEF Init, Buckets!Init
<1>2. IInv /\ [Next]_vars => [Buckets!Next]_(Buckets!bucketVars)
  <2> SUFFICES ASSUME IInv, [Next]_vars
               PROVE  Buckets!Next \/ UNCHANGED <<Phase, bucket, Hand, recorded, report>>
    BY DEF Buckets!bucketVars
  <2>1. CASE ScanAny
    BY <2>1, ScanCloses DEF Buckets!Next
  <2>2. CASE Submit
    BY <2>2, SubmitRecords DEF Buckets!Next
  <2>3. CASE Publish
    <3>1. Buckets!Publish
      BY <2>3, PhaseAndHand, NextPhaseAndHand DEF Publish, KeepAllBut, Buckets!Publish
    <3> QED BY <3>1 DEF Buckets!Next
  <2>4. CASE Leave
    <3>1. Buckets!Stop
      BY <2>4, PhaseAndHand, NextPhaseAndHand DEF Leave, KeepAllBut, Buckets!Stop
    <3> QED BY <3>1 DEF Buckets!Next
  <2>5. CASE Restart
    <3>1. bucket' \in 0 .. MaxBucket /\ bucket' >= bucket
      BY <2>5, CollectorAssumption DEF Restart, IInv, TypeOK
    <3>2. Buckets!NewProcess
      BY <2>5, <3>1, NextPhaseAndHand DEF Restart, Buckets!NewProcess
    <3> QED BY <3>2 DEF Buckets!Next
  <2>6. CASE Kernel \/ Signal \/ UNCHANGED vars
    <3>1. UNCHANGED <<pc, closed, bucket, recorded, report>>
      BY <2>6 DEF Kernel, Create, Remove, Write, Reset, Remap, KeepCollector, collectorVars,
         Signal, KeepAllBut, vars
    <3> QED BY <3>1 DEF Phase, Hand
  <2> QED BY <2>1, <2>2, <2>3, <2>4, <2>5, <2>6 DEF Next, Kernel
<1> QED BY <1>1, <1>2, Invariance, PTL DEF Spec, KeepsBuckets, Buckets!Spec
=============================================================================
