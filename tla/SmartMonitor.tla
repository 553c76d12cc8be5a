---------------------------- MODULE SmartMonitor ----------------------------
(***************************************************************************)
(* src/src/monitor/mod.rs: the thread that samples the write counter of    *)
(* every NVMe device once per detection window, commits each sample and    *)
(* raises an alert when a window's amount exceeds the threshold; and what  *)
(* a restarted daemon (load_recovery_state) and `stats`                    *)
(* (read_smart_device_stats) make of the committed rows, both in           *)
(* src/src/database/schema.rs.                                             *)
(*                                                                         *)
(* Time is the wall clock in ticks; amounts are NVMe data units.  The      *)
(* database is the contract of CommitContract: an acknowledged sample is   *)
(* durable, one with an error may be.                                      *)
(***************************************************************************)
EXTENDS Integers

CONSTANTS
  NumDevices,   \* the configured devices are 1 .. NumDevices
  Window,       \* expected_span_ms, one window for all devices
  Minute,       \* UTC_MINUTE_MS, also WINDOW_TOLERANCE_MS
  RetryBase,    \* SMART_READ_RETRY_BASE
  MaxRetries,   \* MAX_SMART_READ_RETRIES
  Threshold,    \* w_delta_threshold_gib
  MaxAmount,    \* the largest amount the database takes (i64::MAX)
  Prompt,       \* time passes only while the monitor sleeps
  Faults,       \* out of {"read", "identity", "regress", "backward"}
  None,         \* no sample, no amount
  MaxClock, MaxUnits, MaxRestarts   \* bounds

Devices == 1 .. NumDevices

States == {"first", "regressed", "uncertain", "outOfRange", "valid", "outside"}
Amounts == (0 .. MaxAmount) \union {None}

Sample == [ts : Nat, units : Nat]
PendingSample ==
  [ts : Nat, units : Nat, prev : Nat \union {None}, state : States, amount : Amounts]

ASSUME MonitorAssumption ==
  /\ {NumDevices, Window, Minute, RetryBase} \subseteq Nat \ {0}
  /\ {MaxRetries, Threshold, MaxAmount, MaxClock, MaxUnits, MaxRestarts} \subseteq Nat
  /\ Minute < Window /\ Minute <= MaxClock /\ Prompt \in BOOLEAN
  /\ None \notin Nat \union Sample \union PendingSample

VARIABLES
  clock, units, same,   \* the wall clock; the controllers' counters; the
                        \* devices whose path still leads to the verified one
  stop,
  pc, pos, now, sampled, sampledAny,               \* SmartMonitorTask::run
  base, pending, due, failures, active,            \* SmartMonitorDevice
  rows,                                            \* the data tables
  restarts,
  \* history: threshold events raised; the last committed sample; the samples
  \* that were over the threshold; devices sampled or retried ever since base
  alerts, last, exceeded, unbroken

world   == <<clock, units, same, stop>>
loop    == <<pc, pos, now, sampled, sampledAny>>
device  == <<base, pending, due, failures, active>>
history == <<alerts, last, exceeded, unbroken>>
vars == <<world, loop, device, rows, restarts, history>>

-----------------------------------------------------------------------------
(* Pure helpers                                                            *)

AbsDiff(m, n) == IF m >= n THEN m - n ELSE n - m

(* Mutant: always rounds up.                                               *)
NearestWindowUp(t) == (t + Window + Minute) - ((t + Window) % Minute)

(* utc_minute_nearest_window: half a minute rounds up.                     *)
NearestWindow(t) ==
  LET target == t + Window
      rest   == target % Minute
  IN IF 2 * rest < Minute THEN target - rest ELSE target + Minute - rest

(* Mutant: the minute's end is out of the tolerance.                       *)
InWindowStrict(span) == AbsDiff(span, Window) < Minute

InWindow(span) == AbsDiff(span, Window) <= Minute

(* classify_smart_delta: the first reason against a delta decides.         *)
Classify(prev, ts, u) ==
  CASE prev = None -> [state |-> "first", amount |-> None]
    [] prev # None /\ u < prev.units -> [state |-> "regressed", amount |-> None]
    [] prev # None /\ u >= prev.units /\ ts < prev.ts ->
         [state |-> "uncertain", amount |-> None]
    [] prev # None /\ u >= prev.units /\ ts >= prev.ts /\ u - prev.units > MaxAmount ->
         [state |-> "outOfRange", amount |-> None]
    [] OTHER -> [state |-> IF InWindow(ts - prev.ts) THEN "valid" ELSE "outside",
                 amount |-> u - prev.units]

(* Upsert by timestamp.                                                    *)
Upserted(d) ==
  {r \in rows[d] : r.ts # pending[d].ts}
    \union {[ts |-> pending[d].ts, units |-> pending[d].units, amount |-> pending[d].amount]}

OverThreshold(p) == p.state = "valid" /\ p.amount > Threshold

(* Mutant: takes up the oldest sample.                                     *)
RecoveredOldest(d) ==
  IF rows[d] = {} THEN None
    ELSE LET r == CHOOSE r \in rows[d] : \A o \in rows[d] : r.ts <= o.ts
         IN [ts |-> r.ts, units |-> r.units]

(* load_recovery_state: the row with the latest timestamp.                 *)
Recovered(d) ==
  IF rows[d] = {} THEN None
    ELSE LET r == CHOOSE r \in rows[d] : \A o \in rows[d] : o.ts <= r.ts
         IN [ts |-> r.ts, units |-> r.units]

(* The row before r in the order of timestamps, as LAG sees it.            *)
Before(d, r) == {o \in rows[d] : o.ts < r.ts /\ \A p \in rows[d] : p.ts < r.ts => p.ts <= o.ts}

(* observe_threshold: the samples that `stats` takes for threshold events. *)
StatsEvents(d) ==
  {r.ts : r \in {r \in rows[d] :
     /\ r.amount # None /\ r.amount > Threshold
     /\ \E o \in Before(d, r) : AbsDiff(r.ts - o.ts, Window) <= Minute}}

-----------------------------------------------------------------------------
Init ==
  /\ clock \in 0 .. Minute - 1 /\ units = [d \in Devices |-> 0] /\ same = Devices /\ stop = FALSE
  /\ pc = "top" /\ pos = 1 /\ now = 0 /\ sampled = 0 /\ sampledAny = FALSE
  /\ base = [d \in Devices |-> None] /\ pending = [d \in Devices |-> None]
  /\ due = [d \in Devices |-> 0] /\ failures = [d \in Devices |-> 0]
  /\ active = [d \in Devices |-> TRUE]
  /\ rows = [d \in Devices |-> {}] /\ restarts = 0
  /\ alerts = {} /\ last = [d \in Devices |-> None]
  /\ exceeded = {} /\ unbroken = {}

-----------------------------------------------------------------------------
(* The world (external)                                                    *)

Busy == pc # "sleep" \/ \E d \in Devices : active[d] /\ due[d] <= clock

Tick ==
  /\ clock < MaxClock /\ clock' = clock + 1
  /\ Prompt => ~Busy \/ pc \in {"ended", "failed"}
  /\ UNCHANGED <<units, same, stop, loop, device, rows, restarts, history>>

SetBack ==
  /\ "backward" \in Faults
  /\ clock' \in 0 .. clock - 1 /\ unbroken' = {}
  /\ UNCHANGED <<units, same, stop, loop, device, rows, restarts, alerts, last, exceeded>>

HostWrites(d) ==
  /\ units[d] < MaxUnits
  /\ units' = [units EXCEPT ![d] = @ + 1]
  /\ UNCHANGED <<clock, same, stop, loop, device, rows, restarts, history>>

Regress(d) ==
  /\ "regress" \in Faults
  /\ units' = [units EXCEPT ![d] = 0]
  /\ UNCHANGED <<clock, same, stop, loop, device, rows, restarts, history>>

Exchange(d) ==
  /\ "identity" \in Faults
  /\ same' = same \ {d}
  /\ UNCHANGED <<clock, units, stop, loop, device, rows, restarts, history>>

Signal ==
  /\ ~stop /\ stop' = TRUE
  /\ UNCHANGED <<clock, units, same, loop, device, rows, restarts, history>>

-----------------------------------------------------------------------------
(* SmartMonitorTask::run                                                   *)

(* The pass reads the clock once, for all devices.                         *)
Top ==
  /\ pc = "top"
  /\ IF stop THEN pc' = "ended" /\ UNCHANGED <<pos, now, sampledAny>>
             ELSE pc' = "device" /\ pos' = 1 /\ now' = clock /\ sampledAny' = FALSE
  /\ UNCHANGED <<sampled, world, device, rows, restarts, history>>

(* `break` out of the devices, at either of the two looks at the flag.     *)
Break ==
  /\ pc \in {"device", "submit"} /\ stop
  /\ pc' = "after"
  /\ UNCHANGED <<pos, now, sampled, sampledAny, world, device, rows, restarts, history>>

AtDevice(d) == pc = "device" /\ ~stop /\ pos = d

Skip(d) ==
  /\ AtDevice(d) /\ (~active[d] \/ due[d] > now)
  /\ pos' = pos + 1
  /\ UNCHANGED <<pc, now, sampled, sampledAny, world, device, rows, restarts, history>>

IsDue(d) == AtDevice(d) /\ active[d] /\ due[d] <= now

Deactivate(d) ==
  /\ IsDue(d) /\ d \notin same
  /\ active' = [active EXCEPT ![d] = FALSE]
  /\ pos' = pos + 1 /\ sampledAny' = TRUE
  /\ UNCHANGED <<pc, now, sampled, base, pending, due, failures, world, rows, restarts, history>>

(* Mutant: waits twice as long every time, and starts with twice the base. *)
RetryDelayTwice(n) == RetryBase * 2 ^ n

RetryDelay(n) == RetryBase * 2 ^ (n - 1)

ASSUME RetryAssumption == \A n \in 1 .. MaxRetries : RetryDelay(n) \in Nat

(* Mutant: one quick retry too many.                                       *)
QuickRetryOnceMore(n) == n - 1 <= MaxRetries

QuickRetry(n) == n <= MaxRetries

(* schedule_after_read_failure: a few quick retries, then a whole window.  *)
(* A read error and a missing counter are treated alike.                   *)
ReadFails(d) ==
  /\ "read" \in Faults
  /\ IsDue(d)
  /\ IF QuickRetry(failures[d] + 1)
       THEN /\ failures' = [failures EXCEPT ![d] = @ + 1]
            /\ due' = [due EXCEPT ![d] = now + RetryDelay(failures[d] + 1)]
            /\ UNCHANGED unbroken
       ELSE /\ failures' = [failures EXCEPT ![d] = 0]
            /\ due' = [due EXCEPT ![d] = NearestWindow(now)]
            /\ unbroken' = unbroken \ {d}
  /\ pos' = pos + 1 /\ sampledAny' = TRUE
  /\ UNCHANGED <<pc, now, sampled, base, pending, active, world, rows, restarts,
                 alerts, last, exceeded>>

(* prepare_current: a sample still pending is submitted again instead.     *)
Read(d) ==
  /\ IsDue(d) /\ d \in same
  /\ sampled' = clock /\ sampledAny' = TRUE
  /\ pending' = [pending EXCEPT ![d] =
       IF @ # None THEN @
         ELSE LET c == Classify(base[d], clock, units[d])
              IN [ts |-> clock, units |-> units[d], state |-> c.state, amount |-> c.amount,
                  prev |-> IF base[d] = None THEN None ELSE base[d].ts]]
  /\ pc' = "submit"
  /\ UNCHANGED <<pos, now, base, due, failures, active, world, rows, restarts, history>>

Store(d) ==
  /\ rows' = [rows EXCEPT ![d] = Upserted(d)]
  /\ last' = [last EXCEPT ![d] = [ts |-> pending[d].ts, units |-> pending[d].units]]
  /\ exceeded' = exceeded \union (IF OverThreshold(pending[d])
                                    THEN {<<d, pending[d].ts>>} ELSE {})

(* Mutant: an error does not end the thread.                               *)
SubmitRegardless ==
  /\ pc = "submit" /\ pc' = "ack"
  /\ \/ Store(pos)
     \/ UNCHANGED <<rows, last, exceeded>>
  /\ UNCHANGED <<pos, now, sampled, sampledAny, world, device, restarts, alerts, unbroken>>

(* submit_pending: committed, or an error that ends the thread and leaves  *)
(* open whether the sample is durable.  (Refused: Break.)                  *)
Submit ==
  /\ pc = "submit"
  /\ \/ Store(pos) /\ pc' = "ack"
     \/ Store(pos) /\ pc' = "failed"
     \/ pc' = "failed" /\ UNCHANGED <<rows, last, exceeded>>
  /\ UNCHANGED <<pos, now, sampled, sampledAny, world, device, restarts, alerts, unbroken>>

Event(d) == [dev |-> d, prev |-> pending[d].prev, cur |-> pending[d].ts,
             amount |-> pending[d].amount]

(* Mutant: the acknowledged sample stays pending.                          *)
AcknowledgeKeeping ==
  LET d == pos IN
  /\ pc = "ack"
  /\ base' = [base EXCEPT ![d] = [ts |-> pending[d].ts, units |-> pending[d].units]]
  /\ due' = [due EXCEPT ![d] = NearestWindow(sampled)]
  /\ failures' = [failures EXCEPT ![d] = 0]
  /\ alerts' = alerts \union (IF OverThreshold(pending[d]) THEN {Event(d)} ELSE {})
  /\ unbroken' = unbroken \union {d}
  /\ pos' = pos + 1 /\ pc' = "device"
  /\ UNCHANGED <<pending, now, sampled, sampledAny, active, world, rows, restarts, last, exceeded>>

(* Mutant: a baseline that is there is not replaced.                       *)
AcknowledgeInsert ==
  LET d == pos IN
  /\ pc = "ack"
  /\ base' = [base EXCEPT ![d] = IF @ # None THEN @
                                  ELSE [ts |-> pending[d].ts, units |-> pending[d].units]]
  /\ pending' = [pending EXCEPT ![d] = None]
  /\ due' = [due EXCEPT ![d] = NearestWindow(sampled)]
  /\ failures' = [failures EXCEPT ![d] = 0]
  /\ alerts' = alerts \union (IF OverThreshold(pending[d]) THEN {Event(d)} ELSE {})
  /\ unbroken' = unbroken \union {d}
  /\ pos' = pos + 1 /\ pc' = "device"
  /\ UNCHANGED <<now, sampled, sampledAny, active, world, rows, restarts, last, exceeded>>

(* acknowledge_pending, schedule_after_success, handle_threshold.          *)
Acknowledge ==
  LET d == pos IN
  /\ pc = "ack"
  /\ base' = [base EXCEPT ![d] = [ts |-> pending[d].ts, units |-> pending[d].units]]
  /\ pending' = [pending EXCEPT ![d] = None]
  /\ due' = [due EXCEPT ![d] = NearestWindow(sampled)]
  /\ failures' = [failures EXCEPT ![d] = 0]
  /\ alerts' = alerts \union (IF OverThreshold(pending[d]) THEN {Event(d)} ELSE {})
  /\ unbroken' = unbroken \union {d}
  /\ pos' = pos + 1 /\ pc' = "device"
  /\ UNCHANGED <<now, sampled, sampledAny, active, world, rows, restarts, last, exceeded>>

(* The end of a pass: go on, sleep, or give up without an active device.   *)
After ==
  /\ pc = "after" \/ (pc = "device" /\ pos > NumDevices)
  /\ pc' = CASE \A d \in Devices : ~active[d] -> "failed"
             [] \E d \in Devices : active[d] -> IF sampledAny THEN "top" ELSE "sleep"
  /\ UNCHANGED <<pos, now, sampled, sampledAny, world, device, rows, restarts, history>>

Wake ==
  /\ pc = "sleep"
  /\ stop \/ \E d \in Devices : active[d] /\ due[d] <= clock
  /\ pc' = "top"
  /\ UNCHANGED <<pos, now, sampled, sampledAny, world, device, rows, restarts, history>>

(* The daemon ends in any way and starts again later, with the database    *)
(* and devices whose identity was verified.                                *)
Restart ==
  /\ restarts < MaxRestarts /\ restarts' = restarts + 1
  /\ clock < MaxClock /\ clock' = clock + 1
  /\ same' = Devices /\ stop' = FALSE
  /\ pc' = "top" /\ pos' = 1 /\ now' = 0 /\ sampled' = 0 /\ sampledAny' = FALSE
  /\ base' = [d \in Devices |-> Recovered(d)]
  /\ pending' = [d \in Devices |-> None]
  /\ due' = [d \in Devices |-> 0] /\ failures' = [d \in Devices |-> 0]
  /\ active' = [d \in Devices |-> TRUE]
  /\ unbroken' = {}
  /\ UNCHANGED <<units, rows, alerts, last, exceeded>>

Next ==
  \/ Tick \/ SetBack \/ Signal
  \/ \E d \in Devices : HostWrites(d) \/ Regress(d) \/ Exchange(d)
  \/ Top \/ Break \/ Submit \/ Acknowledge \/ After \/ Wake
  \/ \E d \in Devices : Skip(d) \/ Deactivate(d) \/ ReadFails(d) \/ Read(d)
  \/ Restart

Spec == Init /\ [][Next]_vars
-----------------------------------------------------------------------------
(* Properties                                                              *)

TypeOK ==
  /\ clock \in 0 .. MaxClock /\ units \in [Devices -> 0 .. MaxUnits]
  /\ same \subseteq Devices /\ stop \in BOOLEAN
  /\ pc \in {"top", "device", "submit", "ack", "after", "sleep", "ended", "failed"}
  /\ pos \in 1 .. NumDevices + 1
  /\ pc \in {"submit", "ack"} => pos \in Devices
  /\ now \in 0 .. MaxClock /\ sampled \in 0 .. MaxClock /\ sampledAny \in BOOLEAN
  /\ base \in [Devices -> Sample \union {None}]
  /\ pending \in [Devices -> PendingSample \union {None}]
  /\ due \in [Devices -> Nat] /\ failures \in [Devices -> 0 .. MaxRetries]
  /\ active \in [Devices -> BOOLEAN]
  /\ rows \in [Devices -> SUBSET [ts : Nat, units : Nat, amount : Amounts]]
  /\ restarts \in 0 .. MaxRestarts
  /\ last \in [Devices -> Sample \union {None}]
  /\ exceeded \subseteq Devices \X Nat /\ unbroken \subseteq Devices

(* While the clock is not set back, the rows of a device are one chain: a  *)
(* row's amount is the growth since the row before it, whatever failed     *)
(* reads, errors of the database, stops and restarts lie between the two;  *)
(* it is missing only in the first row, after a regression, or when it     *)
(* does not fit.                                                           *)
HistoryAddsUp ==
  \A d \in Devices : \A r \in rows[d] :
    IF Before(d, r) = {} THEN r.amount = None
      ELSE \A o \in Before(d, r) :
             r.amount = IF r.units < o.units \/ r.units - o.units > MaxAmount
                          THEN None ELSE r.units - o.units

(* An alert is raised only for a durable sample, one window after the      *)
(* sample before it, and quotes that sample's amount.                      *)
AlertsAreEarned ==
  \A e \in alerts :
    \E r \in rows[e.dev] :
      /\ r.ts = e.cur /\ r.amount = e.amount /\ e.amount > Threshold
      /\ \E o \in Before(e.dev, r) : o.ts = e.prev /\ InWindow(r.ts - o.ts)

(* While the clock is not set back, the rows and the alerts of all         *)
(* processes are those of a log that one monitor keeps, which never stops, *)
(* never sees an error and keeps nothing in hand (SampleLog).              *)
Log == INSTANCE SampleLog WITH Times <- 0 .. MaxClock, Counts <- 0 .. MaxUnits

KeepsLog == Log!Spec

(* No sample is alerted twice, in any number of processes.                 *)
AlertedOnce ==
  [][pc = "ack" /\ pc' = "device" /\ OverThreshold(pending[pos])
       => \A e \in alerts : e.dev = pos => e.cur # pending[pos].ts]_vars

(* What `stats` reports from the rows is what the monitor saw: a sample is *)
(* a threshold event for the one exactly if it was over the threshold for  *)
(* the other.                                                              *)
StatsAgree ==
  \A d \in Devices : StatsEvents(d) = {e[2] : e \in {e \in exceeded : e[1] = d}}

(* The units, numbered in the order they were written, that a row counts.  *)
Counted(r) == IF r.amount = None THEN {} ELSE (r.units - r.amount + 1) .. r.units

(* Every unit a row counts was written and is counted in no other row, so  *)
(* the rows never add up to more than was written: within a process        *)
(* however the clock is set back, and across restarts if it is not.        *)
CountedOnce ==
  \A d \in Devices : \A r \in rows[d] :
    /\ Counted(r) \subseteq 1 .. units[d]
    /\ \A o \in rows[d] : r # o => Counted(r) \intersect Counted(o) = {}

(* A restarted monitor goes on from the last committed sample.             *)
RecoversLastCommitted ==
  [][restarts' # restarts => base' = last]_vars

(* A prompt monitor keeps every window: rounding to minutes and the quick  *)
(* retries together never take a sample out of the tolerance, so only a    *)
(* restart or a window given up can cost a threshold evaluation.           *)
WindowsAreKept ==
  pc = "submit" /\ pos \in unbroken => pending[pos].state \notin {"first", "outside", "uncertain"}

(* While the clock is not set back, no device is ever scheduled further    *)
(* away than one window and half a minute.                                 *)
DueIsNear ==
  \A d \in Devices : 2 * (due[d] - clock) <= 2 * Window + Minute
=============================================================================
