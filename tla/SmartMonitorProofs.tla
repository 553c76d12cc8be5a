------------------------- MODULE SmartMonitorProofs -------------------------
(***************************************************************************)
(* Theorems about SmartMonitor, for any number of devices, restarts and    *)
(* samples and any window: what the rows, the alerts and `stats` say, what *)
(* a restart takes up, and that no window is lost.                         *)
(***************************************************************************)
EXTENDS SmartMonitor, TLAPS

-----------------------------------------------------------------------------
(* The inductive invariant                                                 *)

SampleOf(p) == [ts |-> p.ts, units |-> p.units]
RowOf(p) == [ts |-> p.ts, units |-> p.units, amount |-> p.amount]

(* A sample in hand is that of the device the loop is at, or the thread    *)
(* will end without taking another one.  A timestamp has one row, and the  *)
(* latest row is there to be found.                                        *)
RowsInv ==
  /\ pc \in {"submit", "ack"} => pending[pos] # None
  /\ \A d \in Devices : pending[d] # None => pending[d].units \in 0 .. MaxUnits
  /\ \A d \in Devices :
       /\ pending[d] # None => (pc \in {"submit", "ack"} /\ pos = d) \/ stop \/ pc = "failed"
       /\ \A r, o \in rows[d] : r.ts = o.ts => r = o
       /\ rows[d] # {} => \E r \in rows[d] : \A o \in rows[d] : o.ts <= r.ts

(* Unless the clock is set back, timestamps grow from sample to sample:    *)
(* the last committed sample is the latest row, the baseline is that       *)
(* sample except between a commit and its acknowledgement, the next sample *)
(* is due after it, and a sample in hand was classified against it.        *)
Forward == "backward" \notin Faults

LatestIs(d, s) ==
  IF rows[d] = {} THEN s = None
    ELSE s # None /\ \E r \in rows[d] : /\ r.ts = s.ts /\ r.units = s.units
                                        /\ \A o \in rows[d] : o.ts <= r.ts

InHand(d) ==
  LET p == pending[d]
      b == base[d]
  IN /\ p.state = Classify(b, p.ts, p.units).state
     /\ p.amount = Classify(b, p.ts, p.units).amount
     /\ p.prev = IF b = None THEN None ELSE b.ts
     /\ p.ts <= clock /\ (b # None => b.ts < p.ts)

Earned(e) ==
  \E r \in rows[e.dev] :
    /\ r.ts = e.cur /\ r.amount = e.amount /\ e.amount > Threshold
    /\ \E o \in Before(e.dev, r) : o.ts = e.prev /\ InWindow(r.ts - o.ts)

ChainInv ==
  /\ now <= clock /\ sampled <= clock
  /\ \A d \in Devices :
       /\ LatestIs(d, last[d]) /\ (last[d] # None => last[d].ts <= clock)
       /\ pc # "failed" /\ (pc = "ack" => pos # d) => base[d] = last[d]
       /\ base[d] # None => base[d].ts < due[d] \/ base[d].ts < clock
       /\ pending[d] # None => InHand(d)
  /\ pc \in {"submit", "ack"} => pending[pos].ts <= sampled
  /\ pc = "ack" =>
       /\ RowOf(pending[pos]) \in rows[pos] /\ last[pos] = SampleOf(pending[pos])
       /\ OverThreshold(pending[pos]) => Earned(Event(pos))
  /\ \A e \in alerts : e.dev \in Devices /\ base[e.dev] # None /\ e.cur <= base[e.dev].ts
  /\ HistoryAddsUp /\ AlertsAreEarned /\ StatsAgree

(* With a prompt monitor a pass takes no time, and a device that has not   *)
(* lost a window is due, however often it was retried, within half a       *)
(* minute of the next window's minute: T[n] is the time n retries take.    *)
Retries(T) ==
  /\ T[0] = 0 /\ \A n \in 1 .. MaxRetries : T[n] = T[n - 1] + RetryDelay(n)
  /\ \A n \in 0 .. MaxRetries : 2 * T[n] <= Minute

RetriesFit == \E T \in [0 .. MaxRetries -> 0 .. Minute] : Retries(T)

Retried == CHOOSE T \in [0 .. MaxRetries -> 0 .. Minute] : Retries(T)

OnTime(d) ==
  /\ base[d] # None
  /\ due[d] = NearestWindow(base[d].ts) + Retried[failures[d]]
  /\ active[d] => clock <= due[d]

PromptInv ==
  /\ pc \in {"device", "submit", "ack"} => now = clock
  /\ pc \in {"submit", "ack"} => pending[pos].ts = clock /\ sampled = clock
  /\ pc \notin {"ended", "failed"} => \A d \in unbroken : OnTime(d)
  /\ WindowsAreKept

(* Where the counters are not reset, the last committed sample has counted *)
(* as far as any row, also when the clock was set back and that sample is  *)
(* not the latest row, and the next one counts on from there: within a     *)
(* process, or in any number of them when the latest row is the last.      *)
Growing == "regress" \notin Faults /\ (Forward \/ MaxRestarts = 0)

CountsOn(b, p) ==
  /\ b = None => p.amount = None
  /\ b # None => b.units <= p.units /\ p.amount \in {None, p.units - b.units}

CountInv ==
  /\ \A d \in Devices :
       /\ last[d] = None => rows[d] = {}
       /\ last[d] # None => last[d].units <= units[d] /\ \A r \in rows[d] : r.units <= last[d].units
       /\ pc # "failed" /\ (pc = "ack" => pos # d) => base[d] = last[d]
       /\ pending[d] # None => CountsOn(base[d], pending[d]) /\ pending[d].units <= units[d]
  /\ pc = "ack" => last[pos] = SampleOf(pending[pos])
  /\ CountedOnce

IInv ==
  /\ TypeOK /\ RowsInv
  /\ Growing => CountInv
  /\ Forward => ChainInv
  /\ Forward /\ RetriesFit => DueIsNear
  /\ Forward /\ RetriesFit /\ Prompt => PromptInv

-----------------------------------------------------------------------------
(* The model's operators                                                   *)

LEMMA ConstantTypes ==
  /\ NumDevices \in Nat \ {0} /\ Window \in Nat \ {0} /\ Minute \in Nat \ {0}
  /\ Minute < Window /\ Minute <= MaxClock /\ Threshold \in Nat /\ MaxAmount \in Nat
  /\ MaxRetries \in Nat /\ MaxClock \in Nat /\ MaxUnits \in Nat /\ MaxRestarts \in Nat
  /\ None \notin Nat /\ None \notin Sample /\ None \notin PendingSample
  /\ Devices = 1 .. NumDevices
BY MonitorAssumption DEF Devices

(* Rounding to the minute moves the end of a window by half a minute at    *)
(* most, so the next one is always ahead.                                  *)
LEMMA NearestWindowFacts ==
  ASSUME NEW t \in Nat
  PROVE  /\ NearestWindow(t) \in Nat /\ NearestWindow(t) > t
         /\ 2 * NearestWindow(t) <= 2 * (t + Window) + Minute
         /\ 2 * (t + Window) <= 2 * NearestWindow(t) + Minute
<1> DEFINE target == t + Window
           rest == target % Minute
<1>1. target \in Nat /\ Minute \in Nat \ {0} /\ Window \in Nat /\ Minute < Window
  BY ConstantTypes
<1>2. rest \in 0 .. (Minute - 1) /\ rest <= target
  <2> HIDE DEF target
  <2> QED BY <1>1, SMT
<1>3. NearestWindow(t) = IF 2 * rest < Minute THEN target - rest ELSE target + Minute - rest
  BY DEF NearestWindow
<1> HIDE DEF rest
<1>4. CASE 2 * rest < Minute
  BY <1>1, <1>2, <1>3, <1>4
<1>5. CASE ~(2 * rest < Minute)
  BY <1>1, <1>2, <1>3, <1>5
<1> QED BY <1>4, <1>5

LEMMA ClassifyType ==
  ASSUME NEW prev \in Sample \union {None}, NEW ts \in Nat, NEW u \in Nat
  PROVE  Classify(prev, ts, u).state \in States /\ Classify(prev, ts, u).amount \in Amounts
<1>1. prev # None => prev.ts \in Nat /\ prev.units \in Nat
  BY DEF Sample
<1>2. MaxAmount \in Nat
  BY ConstantTypes
<1> QED BY <1>1, <1>2 DEF Classify, States, Amounts

(* What a delta is classified as.                                          *)
LEMMA ClassifyFacts ==
  ASSUME NEW prev \in Sample \union {None}, NEW ts \in Nat, NEW u \in Nat,
         prev # None => prev.ts <= ts
  PROVE  /\ Classify(prev, ts, u).state = "valid" <=>
              /\ prev # None /\ ~(u < prev.units) /\ ~(u - prev.units > MaxAmount)
              /\ InWindow(ts - prev.ts)
         /\ Classify(prev, ts, u).amount =
              IF prev = None THEN None
                ELSE IF u < prev.units \/ u - prev.units > MaxAmount THEN None
                ELSE u - prev.units
         /\ prev # None /\ InWindow(ts - prev.ts) =>
              Classify(prev, ts, u).state \notin {"first", "outside", "uncertain"}
<1>1. prev # None => prev.ts \in Nat /\ prev.units \in Nat
  BY DEF Sample
<1>2. MaxAmount \in Nat
  BY ConstantTypes
<1> QED BY <1>1, <1>2 DEF Classify

-----------------------------------------------------------------------------
(* Types                                                                   *)

StoredType == [ts : Nat, units : Nat, amount : Amounts]

LEMMA TypeInit ==
  ASSUME Init PROVE TypeOK
<1>1. /\ 0 .. Minute - 1 \subseteq 0 .. MaxClock /\ 0 \in 0 .. MaxClock /\ 0 \in 0 .. MaxUnits
      /\ 0 \in 0 .. MaxRetries /\ 0 \in 0 .. MaxRestarts /\ 1 \in 1 .. NumDevices + 1
  BY ConstantTypes
<1> QED BY <1>1 DEF Init, TypeOK

LEMMA StoreType ==
  ASSUME TypeOK, NEW d \in Devices, pending[d] # None, Store(d)
  PROVE  /\ rows' \in [Devices -> SUBSET StoredType]
         /\ last' \in [Devices -> Sample \union {None}]
         /\ exceeded' \subseteq Devices \X Nat
<1>1. pending[d] \in PendingSample
  BY DEF TypeOK
<1>2. /\ pending[d].ts \in Nat /\ pending[d].units \in Nat /\ pending[d].amount \in Amounts
  BY <1>1 DEF PendingSample
<1>3. RowOf(pending[d]) \in StoredType /\ SampleOf(pending[d]) \in Sample
  BY <1>2 DEF RowOf, SampleOf, Sample, StoredType
<1>4. Upserted(d) \in SUBSET StoredType
  BY <1>3 DEF Upserted, TypeOK, RowOf, StoredType
<1>5. rows' \in [Devices -> SUBSET StoredType]
  BY <1>4 DEF Store, TypeOK, StoredType
<1>6. last' \in [Devices -> Sample \union {None}]
  BY <1>3 DEF Store, TypeOK, SampleOf
<1>7. exceeded' \subseteq Devices \X Nat
  BY <1>2 DEF Store, TypeOK
<1> QED BY <1>5, <1>6, <1>7

LEMMA RecoveredType ==
  ASSUME TypeOK, RowsInv, NEW d \in Devices
  PROVE  Recovered(d) \in Sample \union {None}
<1>1. CASE rows[d] # {}
  <2>1. \E r \in rows[d] : \A o \in rows[d] : o.ts <= r.ts
    BY <1>1 DEF RowsInv
  <2>2. (CHOOSE r \in rows[d] : \A o \in rows[d] : o.ts <= r.ts) \in rows[d]
    BY <2>1
  <2>3. \A r \in rows[d] : r.ts \in Nat /\ r.units \in Nat
    BY DEF TypeOK
  <2> QED BY <1>1, <2>2, <2>3 DEF Recovered, Sample
<1> QED BY <1>1 DEF Recovered

(* The steps of the world, and the loop's that take no sample.             *)
World ==
  \/ Tick \/ SetBack \/ Signal
  \/ \E d \in Devices : HostWrites(d) \/ Regress(d) \/ Exchange(d)

Control ==
  \/ Top \/ Break \/ After \/ Wake
  \/ \E d \in Devices : Skip(d) \/ Deactivate(d)

LEMMA TypeWorld ==
  ASSUME TypeOK, World PROVE TypeOK'
<1> USE DEF loop, device, history
<1>0. clock \in Nat /\ MaxClock \in Nat /\ MaxUnits \in Nat
  BY ConstantTypes DEF TypeOK
<1>1. CASE Tick
  <2>1. clock' \in 0 .. MaxClock
    BY <1>0, <1>1 DEF Tick, TypeOK
  <2> QED BY <1>1, <2>1 DEF Tick, TypeOK
<1>2. CASE SetBack
  <2>1. clock' \in 0 .. MaxClock
    BY <1>0, <1>2 DEF SetBack, TypeOK
  <2> QED BY <1>2, <2>1 DEF SetBack, TypeOK
<1>3. CASE Signal
  BY <1>3 DEF Signal, TypeOK
<1>4. ASSUME NEW d \in Devices, HostWrites(d) PROVE TypeOK'
  <2>1. units' \in [Devices -> 0 .. MaxUnits]
    BY <1>0, <1>4 DEF HostWrites, TypeOK
  <2> QED BY <1>4, <2>1 DEF HostWrites, TypeOK
<1>5. ASSUME NEW d \in Devices, Regress(d) PROVE TypeOK'
  <2>1. units' \in [Devices -> 0 .. MaxUnits]
    BY <1>0, <1>5 DEF Regress, TypeOK
  <2> QED BY <1>5, <2>1 DEF Regress, TypeOK
<1>6. ASSUME NEW d \in Devices, Exchange(d) PROVE TypeOK'
  BY <1>6 DEF Exchange, TypeOK
<1> QED BY <1>1, <1>2, <1>3, <1>4, <1>5, <1>6 DEF World

LEMMA TypeControl ==
  ASSUME TypeOK, Control PROVE TypeOK'
<1> USE DEF world, device, history
<1>0. /\ NumDevices \in Nat \ {0} /\ Devices = 1 .. NumDevices /\ 1 \in 1 .. NumDevices + 1
      /\ \A d \in Devices : d + 1 \in 1 .. NumDevices + 1
  BY ConstantTypes
<1>1. CASE Top
  BY <1>0, <1>1 DEF Top, TypeOK
<1>2. CASE Break
  BY <1>2 DEF Break, TypeOK
<1>3. CASE After
  <2>1. pc' \in {"failed", "top", "sleep"}
    <3>1. CASE \A d \in Devices : ~active[d]
      BY <1>3, <3>1 DEF After
    <3>2. CASE \E d \in Devices : active[d]
      <4>1. ~\A d \in Devices : ~active[d]
        BY <3>2
      <4>2. pc' = IF sampledAny THEN "top" ELSE "sleep"
        BY <1>3, <3>2, <4>1 DEF After
      <4> QED BY <4>2
    <3> QED BY <3>1, <3>2
  <2> QED BY <1>3, <2>1 DEF After, TypeOK
<1>4. CASE Wake
  BY <1>4 DEF Wake, TypeOK
<1>5. ASSUME NEW d \in Devices, Skip(d) PROVE TypeOK'
  BY <1>0, <1>5 DEF Skip, AtDevice, TypeOK
<1>6. ASSUME NEW d \in Devices, Deactivate(d) PROVE TypeOK'
  BY <1>0, <1>6 DEF Deactivate, IsDue, AtDevice, TypeOK
<1> QED BY <1>1, <1>2, <1>3, <1>4, <1>5, <1>6 DEF Control

LEMMA TypeReadFails ==
  ASSUME TypeOK, NEW d \in Devices, ReadFails(d) PROVE TypeOK'
<1>1. /\ NumDevices \in Nat \ {0} /\ Devices = 1 .. NumDevices /\ d + 1 \in 1 .. NumDevices + 1
      /\ MaxRetries \in Nat /\ MaxClock \in Nat
  BY ConstantTypes
<1>2. now \in Nat /\ failures[d] \in 0 .. MaxRetries /\ failures[d] + 1 \in Nat
  BY <1>1 DEF TypeOK
<1>3. pos = d /\ pc = "device"
  BY DEF ReadFails, IsDue, AtDevice
<1>6. failures \in [Devices -> 0 .. MaxRetries] /\ due \in [Devices -> Nat]
  BY DEF TypeOK
<1>4. CASE QuickRetry(failures[d] + 1)
  <2>1. failures[d] + 1 \in 1 .. MaxRetries
    BY <1>1, <1>2, <1>4 DEF QuickRetry
  <2>2. now + RetryDelay(failures[d] + 1) \in Nat
    BY <1>2, <2>1, RetryAssumption
  <2>3. failures' \in [Devices -> 0 .. MaxRetries] /\ due' \in [Devices -> Nat]
    <3>1. /\ failures' = [failures EXCEPT ![d] = failures[d] + 1]
          /\ due' = [due EXCEPT ![d] = now + RetryDelay(failures[d] + 1)]
      BY <1>4 DEF ReadFails
    <3>2. failures[d] + 1 \in 0 .. MaxRetries
      BY <1>1, <2>1
    <3>3. failures' \in [Devices -> 0 .. MaxRetries]
      BY ONLY <1>6, <3>1, <3>2
    <3>4. due' \in [Devices -> Nat]
      BY ONLY <1>6, <3>1, <2>2
    <3> QED BY ONLY <3>3, <3>4
  <2> QED BY <1>1, <1>3, <1>4, <2>3 DEF ReadFails, TypeOK, world
<1>5. CASE ~QuickRetry(failures[d] + 1)
  <2>1. NearestWindow(now) \in Nat
    BY <1>2, NearestWindowFacts
  <2>2. failures' \in [Devices -> 0 .. MaxRetries] /\ due' \in [Devices -> Nat]
    <3>1. /\ failures' = [failures EXCEPT ![d] = 0]
          /\ due' = [due EXCEPT ![d] = NearestWindow(now)]
      BY <1>5 DEF ReadFails
    <3>2. 0 \in 0 .. MaxRetries
      BY <1>1
    <3>3. failures' \in [Devices -> 0 .. MaxRetries]
      BY ONLY <1>6, <3>1, <3>2
    <3>4. due' \in [Devices -> Nat]
      BY ONLY <1>6, <3>1, <2>1
    <3> QED BY ONLY <3>3, <3>4
  <2> QED BY <1>1, <1>3, <1>5, <2>2 DEF ReadFails, TypeOK, world
<1> QED BY <1>4, <1>5

(* The sample that Read has in hand.                                       *)
Taken(d) ==
  LET c == Classify(base[d], clock, units[d])
  IN [ts |-> clock, units |-> units[d], state |-> c.state, amount |-> c.amount,
      prev |-> IF base[d] = None THEN None ELSE base[d].ts]

LEMMA TakenFacts ==
  ASSUME TypeOK, NEW d \in Devices
  PROVE  /\ Taken(d) \in PendingSample /\ Taken(d).ts = clock /\ Taken(d) # None
         /\ Taken(d).units = units[d]
         /\ Taken(d).state = Classify(base[d], clock, units[d]).state
         /\ Taken(d).amount = Classify(base[d], clock, units[d]).amount
         /\ Taken(d).prev = IF base[d] = None THEN None ELSE base[d].ts
<1>1. clock \in Nat /\ units[d] \in Nat /\ base[d] \in Sample \union {None}
  BY ConstantTypes DEF TypeOK
<1>2. /\ Classify(base[d], clock, units[d]).state \in States
      /\ Classify(base[d], clock, units[d]).amount \in Amounts
  BY <1>1, ClassifyType
<1>3. (IF base[d] = None THEN None ELSE base[d].ts) \in Nat \union {None}
  BY <1>1 DEF Sample
<1>4. Taken(d) \in PendingSample
  BY <1>1, <1>2, <1>3 DEF Taken, PendingSample
<1> QED BY <1>1, <1>4, ConstantTypes DEF Taken

LEMMA TypeRead ==
  ASSUME TypeOK, NEW d \in Devices, Read(d)
  PROVE  TypeOK' /\ pos = d /\ pc' = "submit"
         /\ pending' = [pending EXCEPT ![d] = IF pending[d] # None THEN pending[d] ELSE Taken(d)]
<1>1. pos = d /\ pc' = "submit"
  BY DEF Read, IsDue, AtDevice
<1>2. pending' = [pending EXCEPT ![d] = IF pending[d] # None THEN pending[d] ELSE Taken(d)]
  BY DEF Read, Taken
<1>3. pending' \in [Devices -> PendingSample \union {None}]
  BY <1>2, TakenFacts DEF TypeOK
<1>4. /\ sampled' = clock /\ sampledAny' = TRUE
      /\ UNCHANGED <<pos, now, base, due, failures, active, clock, units, same, stop, rows,
                     restarts, last, exceeded, unbroken>>
  BY DEF Read, world, history
<1> QED BY <1>1, <1>2, <1>3, <1>4 DEF TypeOK

LEMMA TypeSubmit ==
  ASSUME TypeOK, RowsInv, Submit PROVE TypeOK'
<1>1. pc = "submit" /\ pos \in Devices /\ pending[pos] # None /\ pc' \in {"ack", "failed"}
  BY DEF Submit, TypeOK, RowsInv
<1>2. /\ rows' \in [Devices -> SUBSET StoredType]
      /\ last' \in [Devices -> Sample \union {None}]
      /\ exceeded' \subseteq Devices \X Nat
  <2>1. CASE Store(pos)
    BY <1>1, <2>1, StoreType
  <2>2. CASE UNCHANGED <<rows, last, exceeded>>
    BY <2>2 DEF TypeOK, StoredType
  <2> QED BY <2>1, <2>2 DEF Submit
<1> QED BY <1>1, <1>2 DEF Submit, TypeOK, StoredType, world, device

LEMMA TypeAcknowledge ==
  ASSUME TypeOK, RowsInv, Acknowledge PROVE TypeOK'
<1>1. pc = "ack" /\ pos \in Devices /\ pending[pos] # None /\ pc' = "device"
  BY DEF Acknowledge, TypeOK, RowsInv
<1>2. pending[pos] \in PendingSample
  BY <1>1 DEF TypeOK
<1>3. SampleOf(pending[pos]) \in Sample
  BY <1>2 DEF SampleOf, Sample, PendingSample
<1>4. sampled \in Nat /\ MaxRetries \in Nat /\ pos + 1 \in 1 .. NumDevices + 1
  BY <1>1, ConstantTypes DEF TypeOK
<1>5. NearestWindow(sampled) \in Nat
  BY <1>4, NearestWindowFacts
<1>6. base' \in [Devices -> Sample \union {None}]
  BY <1>3 DEF Acknowledge, TypeOK, SampleOf
<1>7. due' \in [Devices -> Nat] /\ failures' \in [Devices -> 0 .. MaxRetries]
  BY <1>4, <1>5 DEF Acknowledge, TypeOK
<1>8. pending' \in [Devices -> PendingSample \union {None}] /\ unbroken' \subseteq Devices
  BY <1>1 DEF Acknowledge, TypeOK
<1> QED BY <1>1, <1>4, <1>6, <1>7, <1>8 DEF Acknowledge, TypeOK, world

LEMMA TypeRestart ==
  ASSUME TypeOK, RowsInv, Restart PROVE TypeOK'
<1>1. /\ clock \in Nat /\ clock' \in 0 .. MaxClock /\ restarts' \in 0 .. MaxRestarts
      /\ 0 \in 0 .. MaxClock /\ 0 \in 0 .. MaxRetries /\ 1 \in 1 .. NumDevices + 1
  BY ConstantTypes DEF Restart, TypeOK
<1>2. base' \in [Devices -> Sample \union {None}]
  BY RecoveredType DEF Restart
<1>3. /\ pending' \in [Devices -> PendingSample \union {None}]
      /\ due' \in [Devices -> Nat] /\ failures' \in [Devices -> 0 .. MaxRetries]
      /\ active' \in [Devices -> BOOLEAN]
  BY <1>1 DEF Restart
<1> QED BY <1>1, <1>2, <1>3 DEF Restart, TypeOK

-----------------------------------------------------------------------------
(* Rows and the sample in hand                                             *)

LEMMA RowsStore ==
  ASSUME TypeOK, RowsInv, NEW d \in Devices, pending[d] # None, Store(d), NEW x \in Devices
  PROVE  /\ \A r, o \in rows'[x] : r.ts = o.ts => r = o
         /\ rows'[x] # {} => \E r \in rows'[x] : \A o \in rows'[x] : o.ts <= r.ts
<1> DEFINE n == RowOf(pending[d])
<1>1. rows' = [rows EXCEPT ![d] = Upserted(d)]
  BY DEF Store
<1>2. pending[d].ts \in Nat /\ \A r \in rows[d] : r.ts \in Nat
  BY DEF TypeOK, PendingSample
<1>3. Upserted(d) = {r \in rows[d] : r.ts # pending[d].ts} \union {n} /\ n.ts = pending[d].ts
  BY DEF Upserted, RowOf
<1> HIDE DEF n
<1>4. CASE x # d
  <2>1. rows'[x] = rows[x]
    BY <1>1, <1>4 DEF TypeOK
  <2> QED BY <2>1 DEF RowsInv
<1>5. CASE x = d
  <2>1. rows'[x] = {r \in rows[d] : r.ts # pending[d].ts} \union {n}
    BY <1>1, <1>3, <1>5 DEF TypeOK
  <2>2. \A r, o \in rows'[x] : r.ts = o.ts => r = o
    BY <1>3, <2>1 DEF RowsInv
  <2>3. ASSUME NEW m \in rows[d], \A o \in rows[d] : o.ts <= m.ts
        PROVE  \E r \in rows'[x] : \A o \in rows'[x] : o.ts <= r.ts
    <3>1. CASE m.ts <= n.ts
      <4>1. \A o \in rows'[x] : o.ts <= n.ts
        BY <1>2, <1>3, <2>1, <2>3, <3>1
      <4> QED BY <2>1, <4>1
    <3>2. CASE ~(m.ts <= n.ts)
      <4>1. m \in rows'[x] /\ \A o \in rows'[x] : o.ts <= m.ts
        BY <1>2, <1>3, <2>1, <2>3, <3>2
      <4> QED BY <4>1
    <3> QED BY <3>1, <3>2
  <2>4. CASE rows[d] = {}
    <3>1. rows'[x] = {n}
      BY <2>1, <2>4
    <3> QED BY <1>2, <1>3, <2>2, <3>1
  <2>5. CASE rows[d] # {}
    <3>1. \E m \in rows[d] : \A o \in rows[d] : o.ts <= m.ts
      BY <2>5 DEF RowsInv
    <3> QED BY <2>2, <2>3, <3>1
  <2> QED BY <2>4, <2>5
<1> QED BY <1>4, <1>5

LEMMA RowsStep ==
  ASSUME TypeOK, RowsInv, Next PROVE RowsInv'
<1>1. CASE World
  BY <1>1 DEF World, Tick, SetBack, Signal, HostWrites, Regress, Exchange, RowsInv, loop, device
<1>2. CASE Control
  <2>1. /\ pending' = pending /\ rows' = rows /\ stop' = stop
        /\ pc' \notin {"submit", "ack"}
    <3>1. CASE After
      <4>1. TypeOK'
        BY <1>2, TypeControl
      <4>2. pc' # "submit" /\ pc' # "ack"
        BY <3>1 DEF After
      <4> QED BY <3>1, <4>2 DEF After, world, device
    <3>2. CASE Top \/ Break \/ Wake
      BY <3>2 DEF Top, Break, Wake, world, device
    <3>3. CASE \E d \in Devices : Skip(d) \/ Deactivate(d)
      BY <3>3 DEF Skip, Deactivate, IsDue, AtDevice, world, device
    <3> QED BY <1>2, <3>1, <3>2, <3>3 DEF Control
  <2>2. pc \in {"submit", "ack"} => stop
    BY <1>2 DEF Control, Top, Break, After, Wake, Skip, Deactivate, IsDue, AtDevice
  <2>3. pc = "failed" => FALSE
    BY <1>2 DEF Control, Top, Break, After, Wake, Skip, Deactivate, IsDue, AtDevice
  <2> QED BY <2>1, <2>2, <2>3 DEF RowsInv
<1>3. ASSUME NEW d \in Devices, ReadFails(d) PROVE RowsInv'
  BY <1>3 DEF ReadFails, IsDue, AtDevice, RowsInv, world
<1>4. ASSUME NEW d \in Devices, Read(d) PROVE RowsInv'
  <2>1. /\ pos' = d /\ pc' = "submit" /\ rows' = rows /\ stop' = stop /\ ~stop /\ pc = "device"
        /\ pending' = [pending EXCEPT ![d] = IF pending[d] # None THEN pending[d] ELSE Taken(d)]
    BY <1>4, TypeRead DEF Read, IsDue, AtDevice, world
  <2>2. pending'[d] # None /\ \A x \in Devices \ {d} : pending'[x] = pending[x]
    BY <2>1, TakenFacts DEF TypeOK
  <2>3. pending'[d].units \in 0 .. MaxUnits
    <3>1. pending'[d] = IF pending[d] # None THEN pending[d] ELSE Taken(d)
      BY <2>1 DEF TypeOK
    <3>2. Taken(d).units \in 0 .. MaxUnits
      BY TakenFacts DEF TypeOK
    <3> QED BY <3>1, <3>2 DEF RowsInv
  <2> QED BY <2>1, <2>2, <2>3 DEF RowsInv
<1>5. CASE Submit
  <2>1. /\ pc = "submit" /\ pos \in Devices /\ pending[pos] # None /\ pc' \in {"ack", "failed"}
        /\ pos' = pos /\ pending' = pending /\ stop' = stop
    BY <1>5 DEF Submit, TypeOK, RowsInv, world, device
  <2>2. \A x \in Devices :
          /\ \A r, o \in rows'[x] : r.ts = o.ts => r = o
          /\ rows'[x] # {} => \E r \in rows'[x] : \A o \in rows'[x] : o.ts <= r.ts
    <3>1. CASE Store(pos)
      BY <2>1, <3>1, RowsStore
    <3>2. CASE rows' = rows
      BY <3>2 DEF RowsInv
    <3> QED BY <1>5, <3>1, <3>2 DEF Submit
  <2> QED BY <2>1, <2>2 DEF RowsInv
<1>6. CASE Acknowledge
  <2>1. /\ pc = "ack" /\ pc' = "device" /\ pos \in Devices /\ rows' = rows /\ stop' = stop
        /\ pending' = [pending EXCEPT ![pos] = None]
    BY <1>6 DEF Acknowledge, TypeOK, world
  <2>2. pending'[pos] = None /\ \A x \in Devices \ {pos} : pending'[x] = pending[x]
    BY <2>1 DEF TypeOK
  <2> QED BY <2>1, <2>2 DEF RowsInv
<1>7. CASE Restart
  BY <1>7 DEF Restart, RowsInv
<1> QED BY <1>1, <1>2, <1>3, <1>4, <1>5, <1>6, <1>7 DEF Next, World, Control

-----------------------------------------------------------------------------
(* The chain of rows                                                       *)

LEMMA BeforeKept ==
  ASSUME rows' = rows, NEW d \in Devices, NEW r PROVE Before(d, r)' = Before(d, r)
BY DEF Before

(* A row later than all others is before none of them, and the latest of   *)
(* them is before it.                                                      *)
LEMMA BeforeExtended ==
  ASSUME NEW d \in Devices, NEW n \in StoredType,
         rows \in [Devices -> SUBSET StoredType],
         rows' = [rows EXCEPT ![d] = rows[d] \union {n}],
         \A r \in rows[d] : r.ts < n.ts
  PROVE  /\ \A x \in Devices : \A r \in rows[x] : Before(x, r)' = Before(x, r)
         /\ Before(d, n)' = {o \in rows[d] : \A r \in rows[d] : r.ts <= o.ts}
<1>1. n.ts \in Nat /\ \A x \in Devices : \A r \in rows[x] : r.ts \in Nat
  BY DEF StoredType
<1>2. rows'[d] = rows[d] \union {n} /\ \A x \in Devices \ {d} : rows'[x] = rows[x]
  OBVIOUS
<1>3. ASSUME NEW x \in Devices, NEW r \in rows[x] PROVE Before(x, r)' = Before(x, r)
  <2>1. CASE x # d
    BY <1>2, <2>1 DEF Before
  <2>2. CASE x = d
    <3>1. ~(n.ts < r.ts)
      BY <1>1, <1>3, <2>2
    <3> QED BY <1>2, <2>2, <3>1 DEF Before
  <2> QED BY <2>1, <2>2
<1>4. Before(d, n)' = {o \in rows[d] : \A r \in rows[d] : r.ts <= o.ts}
  <2>1. ~(n.ts < n.ts)
    BY <1>1
  <2> QED BY <1>2, <2>1 DEF Before
<1> QED BY <1>3, <1>4

(* The row that a submission adds, and what comes before it.               *)
LEMMA StoreExtends ==
  ASSUME TypeOK, RowsInv, ChainInv, pc = "submit", Store(pos)
  PROVE  /\ pos \in Devices /\ pending[pos] \in PendingSample
         /\ RowOf(pending[pos]) \in StoredType
         /\ rows' = [rows EXCEPT ![pos] = rows[pos] \union {RowOf(pending[pos])}]
         /\ \A r \in rows[pos] : r.ts < pending[pos].ts
         /\ base[pos] = None => rows[pos] = {}
         /\ base[pos] # None =>
              \E r \in rows[pos] : /\ r.ts = base[pos].ts /\ r.units = base[pos].units
                                   /\ {o \in rows[pos] : \A q \in rows[pos] : q.ts <= o.ts} = {r}
<1> DEFINE p == pending[pos]
<1>1. pos \in Devices /\ p \in PendingSample
  BY ConstantTypes DEF TypeOK, RowsInv
<1>2. base[pos] = last[pos] /\ LatestIs(pos, last[pos]) /\ InHand(pos)
  BY <1>1, ConstantTypes DEF ChainInv
<1>3. \A r \in rows[pos] : r.ts \in Nat
  BY <1>1 DEF TypeOK
<1>4. p.ts \in Nat /\ (base[pos] # None => base[pos].ts \in Nat /\ base[pos].ts < p.ts)
  BY <1>1, <1>2 DEF InHand, PendingSample, TypeOK, Sample
<1>5. \A r \in rows[pos] : r.ts < p.ts
  <2> SUFFICES ASSUME NEW r \in rows[pos] PROVE r.ts < p.ts
    OBVIOUS
  <2>1. base[pos] # None /\ r.ts <= base[pos].ts
    BY <1>2 DEF LatestIs
  <2> QED BY <1>3, <1>4, <2>1
<1>6. RowOf(p) \in StoredType
  BY <1>1 DEF RowOf, StoredType, PendingSample
<1>7. Upserted(pos) = rows[pos] \union {RowOf(p)}
  <2>1. \A r \in rows[pos] : r.ts # p.ts
    BY <1>3, <1>4, <1>5
  <2> QED BY <2>1 DEF Upserted, RowOf
<1>8. base[pos] = None => rows[pos] = {}
  BY <1>2 DEF LatestIs
<1>9. ASSUME base[pos] # None
      PROVE  \E r \in rows[pos] : /\ r.ts = base[pos].ts /\ r.units = base[pos].units
                                  /\ {o \in rows[pos] : \A q \in rows[pos] : q.ts <= o.ts} = {r}
  <2>1. PICK r \in rows[pos] : /\ r.ts = base[pos].ts /\ r.units = base[pos].units
                               /\ \A o \in rows[pos] : o.ts <= r.ts
    BY <1>2, <1>9 DEF LatestIs
  <2>2. \A o \in rows[pos] : (\A q \in rows[pos] : q.ts <= o.ts) => o = r
    <3> SUFFICES ASSUME NEW o \in rows[pos], \A q \in rows[pos] : q.ts <= o.ts PROVE o = r
      OBVIOUS
    <3>1. o.ts = r.ts
      BY <1>3, <2>1
    <3> QED BY <1>1, <3>1 DEF RowsInv
  <2> QED BY <2>1, <2>2
<1> QED BY <1>1, <1>5, <1>6, <1>7, <1>8, <1>9 DEF Store

(* What a committed sample is for the history, the alerts and `stats`.     *)
LEMMA StoreChain ==
  ASSUME TypeOK, RowsInv, ChainInv, pc = "submit", Store(pos), pos' = pos, pending' = pending,
         alerts' = alerts
  PROVE  /\ HistoryAddsUp' /\ AlertsAreEarned' /\ StatsAgree'
         /\ OverThreshold(pending[pos]) => Earned(Event(pos))'
         /\ RowOf(pending[pos]) \in rows'[pos]
         /\ \A d \in Devices : LatestIs(d, last[d])'
<1>0. PICK d \in Devices, p \in PendingSample, n \in StoredType :
        d = pos /\ p = pending[pos] /\ n = RowOf(p)
  BY StoreExtends
<1>1. /\ rows' = [rows EXCEPT ![d] = rows[d] \union {n}]
      /\ \A r \in rows[d] : r.ts < p.ts
  BY <1>0, StoreExtends
<1>2. /\ n.ts = p.ts /\ n.units = p.units /\ n.amount = p.amount
      /\ p.ts \in Nat /\ p.units \in Nat
  BY <1>0 DEF RowOf, PendingSample
<1>3. rows \in [Devices -> SUBSET StoredType]
  BY DEF TypeOK, StoredType
<1>4. /\ \A x \in Devices : \A r \in rows[x] : Before(x, r)' = Before(x, r)
      /\ Before(d, n)' = {o \in rows[d] : \A r \in rows[d] : r.ts <= o.ts}
  BY <1>1, <1>2, <1>3, BeforeExtended
<1>5. /\ base[d] = None => Before(d, n)' = {}
      /\ base[d] # None => \E o \in rows[d] : /\ o.ts = base[d].ts /\ o.units = base[d].units
                                             /\ Before(d, n)' = {o}
  BY <1>0, <1>4, StoreExtends
<1>6. /\ base[d] \in Sample \union {None}
      /\ base[d] # None => base[d].ts \in Nat /\ base[d].units \in Nat
  BY <1>1 DEF TypeOK, Sample
<1>7. /\ InHand(d) /\ (base[d] # None => base[d].ts <= p.ts)
  <2>1. InHand(d)
    BY <1>0, ConstantTypes DEF ChainInv
  <2> QED BY <1>0, <1>2, <1>6, <2>1 DEF InHand
<1>8. /\ p.state = "valid" <=>
           /\ base[d] # None /\ ~(p.units < base[d].units)
           /\ ~(p.units - base[d].units > MaxAmount) /\ InWindow(p.ts - base[d].ts)
      /\ p.amount = IF base[d] = None THEN None
                      ELSE IF p.units < base[d].units \/ p.units - base[d].units > MaxAmount
                        THEN None ELSE p.units - base[d].units
      /\ p.prev = IF base[d] = None THEN None ELSE base[d].ts
  BY <1>0, <1>2, <1>6, <1>7, ClassifyFacts DEF InHand
<1>9. rows'[d] = rows[d] \union {n} /\ \A x \in Devices \ {d} : rows'[x] = rows[x]
  BY <1>1, <1>3
<1>10. ASSUME NEW x \in Devices, NEW r \in rows'[x]
       PROVE  IF Before(x, r)' = {} THEN r.amount = None
                ELSE \A o \in Before(x, r)' :
                       r.amount = IF r.units < o.units \/ r.units - o.units > MaxAmount
                                    THEN None ELSE r.units - o.units
  <2>1. CASE r \in rows[x]
    BY <1>4, <2>1 DEF ChainInv, HistoryAddsUp
  <2>2. CASE x = d /\ r = n
    BY <1>2, <1>5, <1>8, <2>2
  <2> QED BY <1>9, <1>10, <2>1, <2>2
<1>11. HistoryAddsUp'
  BY <1>10 DEF HistoryAddsUp
<1>12. AlertsAreEarned'
  <2> SUFFICES ASSUME NEW e \in alerts PROVE Earned(e)'
    BY DEF AlertsAreEarned, Earned
  <2>1. e.dev \in Devices
    BY DEF ChainInv
  <2>2. PICK r \in rows[e.dev] :
          /\ r.ts = e.cur /\ r.amount = e.amount /\ e.amount > Threshold
          /\ \E o \in Before(e.dev, r) : o.ts = e.prev /\ InWindow(r.ts - o.ts)
    BY DEF ChainInv, AlertsAreEarned
  <2>3. r \in rows'[e.dev] /\ Before(e.dev, r)' = Before(e.dev, r)
    BY <1>4, <1>9, <2>1, <2>2
  <2> QED BY <2>2, <2>3 DEF Earned
<1>13. ASSUME OverThreshold(p) PROVE Earned(Event(pos))'
  <2>1. p.state = "valid" /\ p.amount > Threshold /\ base[d] # None
    BY <1>8, <1>13 DEF OverThreshold
  <2>2. /\ Event(pos)'.dev = d /\ Event(pos)'.prev = p.prev /\ Event(pos)'.cur = p.ts
        /\ Event(pos)'.amount = p.amount
    BY <1>0 DEF Event
  <2>3. PICK o \in rows[d] : o.ts = base[d].ts /\ Before(d, n)' = {o}
    BY <1>5, <2>1
  <2>4. n \in rows'[d] /\ o \in Before(d, n)' /\ o.ts = p.prev /\ InWindow(n.ts - o.ts)
    BY <1>2, <1>8, <1>9, <2>1, <2>3
  <2>5. \E r \in rows'[d] :
          /\ r.ts = p.ts /\ r.amount = p.amount /\ p.amount > Threshold
          /\ \E q \in Before(d, r)' : q.ts = p.prev /\ InWindow(r.ts - q.ts)
    BY <1>2, <2>1, <2>4
  <2> QED BY <2>2, <2>5 DEF Earned
<1>14. StatsAgree'
  <2>1. /\ n.amount # None /\ n.amount > Threshold
        /\ \E o \in Before(d, n)' : AbsDiff(n.ts - o.ts, Window) <= Minute
        <=> OverThreshold(p)
    <3>1. p.amount # None /\ p.amount > Threshold /\ base[d] # None /\ InWindow(p.ts - base[d].ts)
          <=> OverThreshold(p)
      BY <1>6, <1>2, <1>8, ConstantTypes DEF OverThreshold
    <3>2. (\E o \in Before(d, n)' : AbsDiff(n.ts - o.ts, Window) <= Minute)
          <=> base[d] # None /\ InWindow(p.ts - base[d].ts)
      BY <1>2, <1>5 DEF InWindow
    <3> QED BY <1>2, <3>1, <3>2
  <2>2. ASSUME NEW x \in Devices
        PROVE  StatsEvents(x)' = {e[2] : e \in {e \in exceeded' : e[1] = x}}
    <3>1. StatsEvents(x) = {e[2] : e \in {e \in exceeded : e[1] = x}}
      BY DEF ChainInv, StatsAgree
    <3>2. exceeded' = exceeded \union (IF OverThreshold(p) THEN {<<d, p.ts>>} ELSE {})
      BY <1>0 DEF Store
    <3>3. \A r \in rows[x] :
            (/\ r.amount # None /\ r.amount > Threshold
             /\ \E o \in Before(x, r)' : AbsDiff(r.ts - o.ts, Window) <= Minute)
            <=> (/\ r.amount # None /\ r.amount > Threshold
                 /\ \E o \in Before(x, r) : AbsDiff(r.ts - o.ts, Window) <= Minute)
      BY <1>4
    <3>4. CASE x # d
      <4>1. rows'[x] = rows[x]
        BY <1>9, <3>4
      <4>2. StatsEvents(x)' = StatsEvents(x)
        BY <3>3, <4>1 DEF StatsEvents
      <4>3. {e \in exceeded' : e[1] = x} = {e \in exceeded : e[1] = x}
        BY <3>2, <3>4
      <4> QED BY <3>1, <4>2, <4>3
    <3>5. CASE x = d
      <4>1. rows'[x] = rows[x] \union {n}
        BY <1>9, <3>5
      <4>2. StatsEvents(x)' = StatsEvents(x) \union (IF OverThreshold(p) THEN {p.ts} ELSE {})
        BY <1>2, <2>1, <3>3, <3>5, <4>1 DEF StatsEvents
      <4>3. {e[2] : e \in {e \in exceeded' : e[1] = x}}
              = {e[2] : e \in {e \in exceeded : e[1] = x}}
                  \union (IF OverThreshold(p) THEN {p.ts} ELSE {})
        <5>1. CASE OverThreshold(p)
          <6>1. {e \in exceeded' : e[1] = x} = {e \in exceeded : e[1] = x} \union {<<d, p.ts>>}
            BY <3>2, <3>5, <5>1
          <6>2. <<d, p.ts>>[2] = p.ts
            OBVIOUS
          <6> DEFINE old == {e \in exceeded : e[1] = x}
          <6>3. {e[2] : e \in old \union {<<d, p.ts>>}} = {e[2] : e \in old} \union {p.ts}
            <7> HIDE DEF old
            <7> QED BY <6>2
          <6> QED BY <5>1, <6>1, <6>3
        <5>2. CASE ~OverThreshold(p)
          BY <3>2, <5>2
        <5> QED BY <5>1, <5>2
      <4> QED BY <3>1, <4>2, <4>3
    <3> QED BY <3>4, <3>5
  <2> QED BY <2>2 DEF StatsAgree
<1>15. ASSUME NEW x \in Devices PROVE LatestIs(x, last[x])'
  <2>1. last' = [last EXCEPT ![d] = SampleOf(p)]
    BY <1>0 DEF Store, SampleOf
  <2>2. CASE x # d
    <3>1. rows'[x] = rows[x] /\ last'[x] = last[x]
      BY <1>9, <2>1, <2>2 DEF TypeOK
    <3>2. LatestIs(x, last[x])
      BY DEF ChainInv
    <3> QED BY <3>1, <3>2 DEF LatestIs
  <2>3. CASE x = d
    <3>1. last'[x] = SampleOf(p) /\ rows'[x] = rows[d] \union {n}
      BY <1>1, <1>9, <2>1, <2>3 DEF TypeOK
    <3>2. SampleOf(p) \in Sample /\ SampleOf(p).ts = p.ts /\ SampleOf(p).units = p.units
      BY <1>2 DEF SampleOf, Sample
    <3>3. \A o \in rows'[x] : o.ts <= n.ts
      <4>1. \A o \in rows[d] : o.ts \in Nat /\ o.ts < p.ts
        BY <1>1, <1>3 DEF StoredType
      <4> QED BY <1>2, <3>1, <4>1
    <3>4. last'[x] # None
      BY <3>1, <3>2, ConstantTypes
    <3>5. n \in rows'[x] /\ rows'[x] # {}
      BY <3>1
    <3> QED BY <1>2, <3>1, <3>2, <3>3, <3>4, <3>5 DEF LatestIs
  <2> QED BY <2>2, <2>3
<1> QED BY <1>0, <1>9, <1>11, <1>12, <1>13, <1>14, <1>15

LEMMA HistoryKept ==
  ASSUME rows' = rows, HistoryAddsUp PROVE HistoryAddsUp'
<1>1. \A d \in Devices : \A r \in rows[d] : Before(d, r)' = Before(d, r)
  BY BeforeKept
<1> QED BY <1>1 DEF HistoryAddsUp

LEMMA EarnedKept ==
  ASSUME rows' = rows, NEW e, Earned(e) PROVE Earned(e)'
BY DEF Earned, Before

LEMMA StatsKept ==
  ASSUME rows' = rows, exceeded' = exceeded, StatsAgree PROVE StatsAgree'
<1>1. \A d \in Devices : StatsEvents(d)' = StatsEvents(d)
  BY DEF StatsEvents, Before
<1> QED BY <1>1 DEF StatsAgree

LEMMA AlertsKept ==
  ASSUME rows' = rows, alerts' = alerts, AlertsAreEarned PROVE AlertsAreEarned'
<1>1. \A e \in alerts : Earned(e)
  BY DEF AlertsAreEarned, Earned
<1>2. \A e \in alerts : Earned(e)'
  BY <1>1, EarnedKept
<1> QED BY <1>2 DEF AlertsAreEarned, Earned

(* Steps that take, store and acknowledge no sample.                       *)
LEMMA ChainKeep ==
  ASSUME TypeOK, ChainInv, clock \in Nat, clock' \in Nat, clock <= clock', now' <= clock',
         sampled' = sampled, base' = base, last' = last, pending' = pending, rows' = rows,
         alerts' = alerts, exceeded' = exceeded,
         \A d \in Devices : due'[d] = due[d] \/ (base[d] # None => base[d].ts < clock),
         \/ pc' = pc /\ pos' = pos
         \/ pc \notin {"ack", "failed"} /\ pc' \notin {"submit", "ack"}
  PROVE  ChainInv'
<1>1. sampled' <= clock'
  <2>1. sampled \in Nat /\ sampled <= clock
    BY ConstantTypes DEF ChainInv, TypeOK
  <2> QED BY ONLY <2>1, sampled' = sampled, clock \in Nat, clock' \in Nat, clock <= clock'
<1>2. ASSUME NEW d \in Devices
      PROVE  /\ LatestIs(d, last[d])' /\ (last'[d] # None => last'[d].ts <= clock')
             /\ base'[d] # None => base'[d].ts < due'[d] \/ base'[d].ts < clock'
             /\ pending'[d] # None => InHand(d)'
  <2>1. /\ base[d] # None => base[d].ts \in Nat
        /\ last[d] # None => last[d].ts \in Nat
        /\ pending[d] # None => pending[d].ts \in Nat
    BY DEF TypeOK, Sample, PendingSample
  <2>2. /\ LatestIs(d, last[d]) /\ (last[d] # None => last[d].ts <= clock)
        /\ base[d] # None => base[d].ts < due[d] \/ base[d].ts < clock
        /\ pending[d] # None => InHand(d)
    BY DEF ChainInv
  <2>3. LatestIs(d, last[d])'
    BY <2>2 DEF LatestIs
  <2>4. pending'[d] # None => InHand(d)'
    BY <2>1, <2>2 DEF InHand
  <2> QED BY <2>1, <2>2, <2>3, <2>4
<1>3. \A d \in Devices : pc' # "failed" /\ (pc' = "ack" => pos' # d) => base'[d] = last'[d]
  BY DEF ChainInv
<1>4. pc' \in {"submit", "ack"} => pending'[pos'].ts <= sampled'
  BY DEF ChainInv
<1>5. pc' = "ack" =>
       /\ RowOf(pending'[pos']) \in rows'[pos'] /\ last'[pos'] = SampleOf(pending'[pos'])
       /\ OverThreshold(pending'[pos']) => Earned(Event(pos))'
  <2> SUFFICES ASSUME pc' = "ack"
               PROVE  /\ RowOf(pending[pos]) \in rows[pos] /\ last[pos] = SampleOf(pending[pos])
                      /\ OverThreshold(pending[pos]) => Earned(Event(pos))'
    OBVIOUS
  <2>1. pc = "ack"
    OBVIOUS
  <2>2. Earned(Event(pos)) => Earned(Event(pos))'
    BY DEF Earned, Event, Before
  <2> QED BY <2>1, <2>2 DEF ChainInv
<1>6. \A e \in alerts' : e.dev \in Devices /\ base'[e.dev] # None /\ e.cur <= base'[e.dev].ts
  BY DEF ChainInv
<1>7. HistoryAddsUp' /\ AlertsAreEarned' /\ StatsAgree'
  BY HistoryKept, AlertsKept, StatsKept DEF ChainInv
<1> QED BY <1>1, <1>2, <1>3, <1>4, <1>5, <1>6, <1>7 DEF ChainInv

LEMMA ChainQuiet ==
  ASSUME TypeOK, ChainInv, Forward, World \/ Control PROVE ChainInv'
<1> USE DEF world, loop, device, history
<1>0. clock \in Nat /\ now \in Nat /\ now <= clock
  BY ConstantTypes DEF TypeOK, ChainInv
<1>1. CASE World
  <2>1. clock' = clock \/ clock' = clock + 1
    BY <1>1 DEF World, Tick, SetBack, Signal, HostWrites, Regress, Exchange, Forward
  <2>2. UNCHANGED <<sampled, base, last, pending, rows, alerts, exceeded, due, pc, pos, now>>
    BY <1>1 DEF World, Tick, SetBack, Signal, HostWrites, Regress, Exchange, Forward
  <2> QED BY <1>0, <2>1, <2>2, ChainKeep
<1>2. CASE Control
  <2>1. UNCHANGED <<sampled, base, last, pending, rows, alerts, exceeded, due, clock>>
    BY <1>2 DEF Control, Top, Break, After, Wake, Skip, Deactivate
  <2>2. now' = now \/ now' = clock
    BY <1>2 DEF Control, Top, Break, After, Wake, Skip, Deactivate
  <2>3. pc \notin {"ack", "failed"}
    BY <1>2 DEF Control, Top, Break, After, Wake, Skip, Deactivate, IsDue, AtDevice
  <2>4. pc' \notin {"submit", "ack"}
    <3>1. CASE After
      BY <3>1 DEF After
    <3> QED BY <1>2, <3>1 DEF Control, Top, Break, Wake, Skip, Deactivate, IsDue, AtDevice
  <2> QED BY <1>0, <2>1, <2>2, <2>3, <2>4, ChainKeep
<1> QED BY <1>1, <1>2

(* When a device is due, its baseline is older than the clock.             *)
LEMMA DueIsLater ==
  ASSUME TypeOK, ChainInv, NEW d \in Devices, IsDue(d), base[d] # None
  PROVE  base[d].ts < clock
<1>1. /\ base[d].ts \in Nat /\ due[d] \in Nat /\ now \in Nat /\ clock \in Nat
      /\ due[d] <= now /\ now <= clock
  BY ConstantTypes DEF TypeOK, Sample, IsDue, ChainInv
<1>2. base[d].ts < due[d] \/ base[d].ts < clock
  BY DEF ChainInv
<1> QED BY <1>1, <1>2

LEMMA ChainReadFails ==
  ASSUME TypeOK, ChainInv, NEW d \in Devices, ReadFails(d) PROVE ChainInv'
<1>1. /\ UNCHANGED <<clock, now, sampled, base, last, pending, rows, alerts, exceeded>>
      /\ pc = "device" /\ pc' = pc /\ IsDue(d)
      /\ \A x \in Devices \ {d} : due'[x] = due[x]
  BY DEF ReadFails, IsDue, AtDevice, world, TypeOK
<1>2. clock \in Nat /\ now <= clock
  BY ConstantTypes DEF TypeOK, ChainInv
<1> QED BY <1>1, <1>2, DueIsLater, ChainKeep

LEMMA ChainRead ==
  ASSUME TypeOK, ChainInv, NEW d \in Devices, Read(d) PROVE ChainInv'
<1>1. /\ UNCHANGED <<clock, now, pos, base, due, last, rows, alerts, exceeded>>
      /\ pc = "device" /\ pc' = "submit" /\ pos = d /\ IsDue(d) /\ sampled' = clock
      /\ pending' = [pending EXCEPT ![d] = IF pending[d] # None THEN pending[d] ELSE Taken(d)]
  BY TypeRead DEF Read, IsDue, AtDevice, world, history
<1>2. /\ clock \in Nat /\ now <= clock
      /\ \A x \in Devices : LatestIs(x, last[x]) /\ base[x] = last[x]
      /\ \A x \in Devices : last[x] # None => last[x].ts <= clock
      /\ \A x \in Devices : base[x] # None => base[x].ts < due[x] \/ base[x].ts < clock
      /\ \A x \in Devices : pending[x] # None => InHand(x)
  <2>1. clock \in Nat
    BY ConstantTypes DEF TypeOK
  <2> QED BY <1>1, <2>1 DEF ChainInv
<1>3. \A x \in Devices : LatestIs(x, last[x])'
  BY <1>1, <1>2 DEF LatestIs
<1>4. ASSUME NEW x \in Devices, pending'[x] # None PROVE InHand(x)' /\ pending'[x].ts <= clock
  <2>1. CASE pending'[x] = pending[x]
    <3>1. InHand(x)
      BY <1>2, <1>4, <2>1
    <3> QED BY <1>1, <2>1, <3>1 DEF InHand
  <2>2. CASE pending'[x] # pending[x]
    <3>1. x = d /\ pending'[x] = Taken(x)
      BY <1>1, <2>2 DEF TypeOK
    <3>2. base[x] # None => base[x].ts < clock
      BY <1>1, <3>1, DueIsLater
    <3> QED BY <1>1, <1>2, <3>1, <3>2, TakenFacts DEF InHand
  <2> QED BY <2>1, <2>2
<1>5. pending'[d] # None
  BY <1>1, TakenFacts DEF TypeOK
<1>6. HistoryAddsUp' /\ AlertsAreEarned' /\ StatsAgree'
  BY <1>1, HistoryKept, AlertsKept, StatsKept DEF ChainInv
<1>7. \A e \in alerts' : e.dev \in Devices /\ base'[e.dev] # None /\ e.cur <= base'[e.dev].ts
  BY <1>1 DEF ChainInv
<1> QED BY <1>1, <1>2, <1>3, <1>4, <1>5, <1>6, <1>7 DEF ChainInv

LEMMA ChainSubmit ==
  ASSUME TypeOK, RowsInv, ChainInv, Submit PROVE ChainInv'
<1>1. /\ UNCHANGED <<clock, now, sampled, pos, base, due, pending, alerts>>
      /\ pc = "submit" /\ pc' \in {"ack", "failed"} /\ pos \in Devices /\ pending[pos] # None
  BY DEF Submit, TypeOK, RowsInv, world, device
<1>2. CASE Store(pos)
  <2>1. /\ HistoryAddsUp' /\ AlertsAreEarned' /\ StatsAgree'
        /\ OverThreshold(pending[pos]) => Earned(Event(pos))'
        /\ RowOf(pending[pos]) \in rows'[pos]
        /\ \A d \in Devices : LatestIs(d, last[d])'
    BY <1>1, <1>2, StoreChain
  <2>2. last' = [last EXCEPT ![pos] = SampleOf(pending[pos])]
    BY <1>2 DEF Store, SampleOf
  <2>3. /\ last'[pos] = SampleOf(pending[pos]) /\ \A x \in Devices \ {pos} : last'[x] = last[x]
        /\ SampleOf(pending[pos]).ts = pending[pos].ts
    BY <1>1, <2>2 DEF TypeOK, SampleOf
  <2>4. /\ now <= clock /\ sampled <= clock /\ pending[pos].ts <= sampled
        /\ \A x \in Devices : base[x] = last[x]
        /\ \A x \in Devices : last[x] # None => last[x].ts <= clock
        /\ \A x \in Devices : base[x] # None => base[x].ts < due[x] \/ base[x].ts < clock
        /\ \A x \in Devices : pending[x] # None => InHand(x)
        /\ \A e \in alerts : e.dev \in Devices /\ base[e.dev] # None /\ e.cur <= base[e.dev].ts
    BY <1>1 DEF ChainInv
  <2>5. pending[pos].ts <= clock
    BY <1>1, <2>4 DEF InHand
  <2>6. \A x \in Devices : pending'[x] # None => InHand(x)'
    BY <1>1, <2>4 DEF InHand
  <2>7. \A x \in Devices : last'[x] # None => last'[x].ts <= clock
    BY <2>3, <2>4, <2>5
  <2> QED BY <1>1, <2>1, <2>3, <2>4, <2>6, <2>7 DEF ChainInv
<1>3. CASE pc' = "failed" /\ UNCHANGED <<rows, last, exceeded>>
  <2>1. clock \in Nat /\ now <= clock
    BY ConstantTypes DEF TypeOK, ChainInv
  <2>2. pc \notin {"ack", "failed"} /\ pc' \notin {"submit", "ack"}
    BY <1>1, <1>3
  <2>3. clock' \in Nat /\ clock <= clock' /\ now' <= clock'
    BY <1>1, <2>1
  <2> QED BY <1>1, <1>3, <2>1, <2>2, <2>3, ChainKeep
<1> QED BY <1>2, <1>3 DEF Submit

LEMMA ChainAcknowledge ==
  ASSUME TypeOK, RowsInv, ChainInv, Acknowledge PROVE ChainInv'
<1>0. PICK d \in Devices, p \in PendingSample : d = pos /\ p = pending[pos]
  BY DEF Acknowledge, TypeOK, RowsInv
<1>1. /\ UNCHANGED <<clock, now, sampled, last, rows, exceeded>>
      /\ pc = "ack" /\ pc' = "device"
      /\ base' = [base EXCEPT ![d] = SampleOf(p)]
      /\ pending' = [pending EXCEPT ![d] = None]
      /\ due' = [due EXCEPT ![d] = NearestWindow(sampled)]
      /\ alerts' = alerts \union (IF OverThreshold(p) THEN {Event(d)} ELSE {})
  BY <1>0 DEF Acknowledge, SampleOf, world
<1>2. /\ sampled \in Nat /\ p.ts \in Nat /\ p.ts <= sampled /\ SampleOf(p).ts = p.ts
      /\ SampleOf(p) \in Sample
      /\ now <= clock /\ sampled <= clock
  BY <1>0, <1>1, ConstantTypes DEF TypeOK, ChainInv, PendingSample, SampleOf, Sample
<1>3. /\ base'[d] = SampleOf(p) /\ due'[d] = NearestWindow(sampled) /\ pending'[d] = None
      /\ \A x \in Devices \ {d} : base'[x] = base[x] /\ due'[x] = due[x] /\ pending'[x] = pending[x]
  BY <1>1 DEF TypeOK
<1>4. base'[d] # None
  BY <1>2, <1>3, ConstantTypes
<1>5. base'[d].ts < due'[d]
  BY <1>2, <1>3, NearestWindowFacts
<1>6. \A x \in Devices : LatestIs(x, last[x])' /\ (last'[x] # None => last'[x].ts <= clock')
  BY <1>1 DEF ChainInv, LatestIs
<1>7. \A x \in Devices : base'[x] = last'[x]
  BY <1>0, <1>1, <1>3 DEF ChainInv
<1>8. \A x \in Devices : base'[x] # None => base'[x].ts < due'[x] \/ base'[x].ts < clock'
  BY <1>1, <1>3, <1>5 DEF ChainInv
<1>9. \A x \in Devices : pending'[x] # None => InHand(x)'
  <2> SUFFICES ASSUME NEW x \in Devices, pending'[x] # None PROVE InHand(x)'
    OBVIOUS
  <2>1. x # d /\ InHand(x)
    BY <1>3 DEF ChainInv
  <2> QED BY <1>1, <1>3, <2>1 DEF InHand
<1>10. Event(d).dev = d /\ Event(d).cur = p.ts
  BY <1>0 DEF Event
<1>11. \A e \in alerts' : e.dev \in Devices /\ base'[e.dev] # None /\ e.cur <= base'[e.dev].ts
  <2> SUFFICES ASSUME NEW e \in alerts'
               PROVE  e.dev \in Devices /\ base'[e.dev] # None /\ e.cur <= base'[e.dev].ts
    OBVIOUS
  <2>1. CASE e = Event(d)
    BY <1>2, <1>3, <1>4, <1>10, <2>1
  <2>2. CASE e \in alerts
    <3>1. e.dev \in Devices /\ base[e.dev] # None /\ e.cur <= base[e.dev].ts
      BY <2>2 DEF ChainInv
    <3>2. CASE e.dev # d
      BY <1>3, <3>1, <3>2
    <3>3. CASE e.dev = d
      <4>1. InHand(d) /\ base[d] # None /\ base[d].ts < p.ts
        <5>1. InHand(d)
          BY <1>0, ConstantTypes DEF ChainInv
        <5> QED BY <1>0, <3>1, <3>3, <5>1 DEF InHand
      <4>2. \E r \in rows[d] : r.ts = e.cur
        BY <2>2, <3>3 DEF ChainInv, AlertsAreEarned
      <4>3. e.cur \in Nat /\ base[d].ts \in Nat
        BY <4>1, <4>2 DEF TypeOK, Sample
      <4> QED BY <1>2, <1>3, <1>4, <3>1, <3>3, <4>1, <4>3
    <3> QED BY <3>2, <3>3
  <2> QED BY <1>1, <2>1, <2>2
<1>12. AlertsAreEarned'
  <2> SUFFICES ASSUME NEW e \in alerts' PROVE Earned(e)'
    BY DEF AlertsAreEarned, Earned
  <2>1. Earned(e)
    <3>1. CASE e \in alerts
      BY <3>1 DEF ChainInv, AlertsAreEarned, Earned
    <3>2. CASE e \notin alerts
      BY <1>0, <1>1, <3>2 DEF ChainInv
    <3> QED BY <3>1, <3>2
  <2> QED BY <1>1, <2>1 DEF Earned, Before
<1>13. HistoryAddsUp' /\ StatsAgree'
  BY <1>1, HistoryKept, StatsKept DEF ChainInv
<1> QED BY <1>1, <1>2, <1>6, <1>7, <1>8, <1>9, <1>11, <1>12, <1>13 DEF ChainInv

(* A restart takes up the last committed sample.                           *)
LEMMA RecoveredIsLast ==
  ASSUME TypeOK, RowsInv, NEW d \in Devices, LatestIs(d, last[d])
  PROVE  Recovered(d) = last[d]
<1>1. CASE rows[d] = {}
  BY <1>1 DEF Recovered, LatestIs
<1>2. CASE rows[d] # {}
  <2> DEFINE r == CHOOSE r \in rows[d] : \A o \in rows[d] : o.ts <= r.ts
  <2>1. PICK m \in rows[d] : m.ts = last[d].ts /\ m.units = last[d].units
                             /\ \A o \in rows[d] : o.ts <= m.ts
    BY <1>2 DEF LatestIs
  <2>2. r \in rows[d] /\ \A o \in rows[d] : o.ts <= r.ts
    BY <2>1
  <2>3. Recovered(d) = [ts |-> r.ts, units |-> r.units]
    BY <1>2 DEF Recovered
  <2> HIDE DEF r
  <2>4. m.ts \in Nat /\ r.ts \in Nat
    BY <2>2 DEF TypeOK
  <2>5. m = r
    BY <2>1, <2>2, <2>4 DEF RowsInv
  <2>6. last[d] \in Sample
    BY <1>2 DEF LatestIs, TypeOK
  <2>7. last[d] = [ts |-> last[d].ts, units |-> last[d].units]
    BY <2>6 DEF Sample
  <2> QED BY <2>1, <2>3, <2>5, <2>7
<1> QED BY <1>1, <1>2

LEMMA ChainRestart ==
  ASSUME TypeOK, RowsInv, ChainInv, Restart PROVE ChainInv'
<1>1. /\ clock' = clock + 1 /\ clock \in Nat /\ now' = 0 /\ sampled' = 0 /\ pc' = "top"
      /\ UNCHANGED <<rows, alerts, last, exceeded>>
      /\ pending' = [d \in Devices |-> None]
  BY ConstantTypes DEF Restart, TypeOK
<1>2. \A d \in Devices : base'[d] = last[d]
  BY RecoveredIsLast DEF Restart, ChainInv
<1>3. \A d \in Devices : /\ LatestIs(d, last[d])
                         /\ last[d] # None => last[d].ts <= clock /\ last[d].ts \in Nat
  BY DEF ChainInv, TypeOK, Sample
<1>4. \A d \in Devices : LatestIs(d, last[d])'
  BY <1>1, <1>3 DEF LatestIs
<1>5. \A d \in Devices : last[d] # None => last[d].ts < clock' /\ last[d].ts <= clock'
  BY <1>1, <1>3
<1>6. \A e \in alerts' : e.dev \in Devices /\ base'[e.dev] # None /\ e.cur <= base'[e.dev].ts
  <2> SUFFICES ASSUME NEW e \in alerts
               PROVE  e.dev \in Devices /\ last[e.dev] # None /\ e.cur <= last[e.dev].ts
    BY <1>1, <1>2 DEF ChainInv
  <2>1. e.dev \in Devices /\ \E r \in rows[e.dev] : r.ts = e.cur
    BY DEF ChainInv, AlertsAreEarned
  <2> QED BY <1>3, <2>1 DEF LatestIs
<1>7. HistoryAddsUp' /\ AlertsAreEarned' /\ StatsAgree'
  BY <1>1, HistoryKept, AlertsKept, StatsKept DEF ChainInv
<1> QED BY <1>1, <1>2, <1>4, <1>5, <1>6, <1>7 DEF ChainInv

-----------------------------------------------------------------------------
(* The schedule                                                            *)

LEMMA RetriedFacts ==
  ASSUME RetriesFit
  PROVE  /\ Retried[0] = 0
         /\ \A n \in 0 .. MaxRetries : Retried[n] \in Nat /\ 2 * Retried[n] <= Minute
         /\ \A n \in 1 .. MaxRetries :
              Retried[n] = Retried[n - 1] + RetryDelay(n) /\ 2 * RetryDelay(n) <= Minute
<1>1. Retried \in [0 .. MaxRetries -> 0 .. Minute] /\ Retries(Retried)
  BY DEF RetriesFit, Retried
<1>2. \A n \in 0 .. MaxRetries : Retried[n] \in Nat /\ 2 * Retried[n] <= Minute
  BY <1>1, ConstantTypes DEF Retries
<1>3. ASSUME NEW n \in 1 .. MaxRetries
      PROVE  Retried[n] = Retried[n - 1] + RetryDelay(n) /\ 2 * RetryDelay(n) <= Minute
  <2>1. n \in 0 .. MaxRetries /\ n - 1 \in 0 .. MaxRetries
    BY ConstantTypes
  <2>2. Retried[n] = Retried[n - 1] + RetryDelay(n)
    BY <1>1 DEF Retries
  <2>3. RetryDelay(n) \in Nat
    BY RetryAssumption
  <2>4. Retried[n] \in Nat /\ Retried[n - 1] \in Nat /\ 2 * Retried[n] <= Minute
    BY <1>2, <2>1
  <2> QED BY <2>2, <2>3, <2>4, ConstantTypes
<1> QED BY <1>1, <1>2, <1>3 DEF Retries

(* A step leaves a due time alone, or puts it within a window and half a   *)
(* minute of the clock.                                                    *)
LEMMA DueStep ==
  ASSUME TypeOK, RowsInv, ChainInv, RetriesFit, Forward, DueIsNear, Next
  PROVE  DueIsNear'
<1>0. clock \in Nat /\ now \in Nat /\ sampled \in Nat /\ now <= clock /\ sampled <= clock
  BY ConstantTypes DEF TypeOK, ChainInv
<1>1. clock' \in Nat /\ clock <= clock'
  BY <1>0 DEF Next, Tick, SetBack, Signal, HostWrites, Regress, Exchange, Forward, Top, Break,
     Submit, Acknowledge, After, Wake, Skip, Deactivate, ReadFails, Read, Restart, world
<1>2. ASSUME NEW d \in Devices PROVE due'[d] = due[d] \/ 2 * (due'[d] - clock) <= 2 * Window + Minute
  <2>1. ASSUME NEW x \in Devices, ReadFails(x)
        PROVE  due'[d] = due[d] \/ 2 * (due'[d] - clock) <= 2 * Window + Minute
    <3>1. CASE QuickRetry(failures[x] + 1)
      <4>1. failures[x] + 1 \in 1 .. MaxRetries
        BY <3>1, ConstantTypes DEF QuickRetry, TypeOK
      <4>2. due' = [due EXCEPT ![x] = now + RetryDelay(failures[x] + 1)]
        BY <2>1, <3>1 DEF ReadFails
      <4>3. RetryDelay(failures[x] + 1) \in Nat /\ 2 * RetryDelay(failures[x] + 1) <= Minute
        BY <4>1, RetriedFacts, RetryAssumption
      <4>4. due'[d] = due[d] \/ due'[d] = now + RetryDelay(failures[x] + 1)
        BY <4>2 DEF TypeOK
      <4> HIDE DEF QuickRetry
      <4> QED BY <1>0, <4>3, <4>4, ConstantTypes
    <3>2. CASE ~QuickRetry(failures[x] + 1)
      <4>1. due'[d] = due[d] \/ due'[d] = NearestWindow(now)
        BY <2>1, <3>2 DEF ReadFails, TypeOK
      <4>2. NearestWindow(now) \in Nat /\ 2 * NearestWindow(now) <= 2 * (now + Window) + Minute
        BY <1>0, NearestWindowFacts
      <4> QED BY <1>0, <4>1, <4>2, ConstantTypes
    <3> QED BY <3>1, <3>2
  <2>2. CASE Acknowledge
    <3>1. due'[d] = due[d] \/ due'[d] = NearestWindow(sampled)
      BY <2>2 DEF Acknowledge, TypeOK
    <3>2. /\ NearestWindow(sampled) \in Nat
          /\ 2 * NearestWindow(sampled) <= 2 * (sampled + Window) + Minute
      BY <1>0, NearestWindowFacts
    <3> QED BY <1>0, <3>1, <3>2, ConstantTypes
  <2>3. CASE Restart
    <3>1. due'[d] = 0
      BY <2>3 DEF Restart
    <3> QED BY <1>0, <3>1, ConstantTypes
  <2>4. CASE World \/ Control \/ Submit \/ \E x \in Devices : Read(x)
    <3>1. due' = due
      BY <2>4 DEF World, Control, Tick, SetBack, Signal, HostWrites, Regress, Exchange, Top,
         Break, Submit, After, Wake, Skip, Deactivate, Read, device
    <3> QED BY <3>1
  <2> QED BY <2>1, <2>2, <2>3, <2>4 DEF Next, World, Control
<1>3. TypeOK'
  BY TypeWorld, TypeControl, TypeReadFails, TypeRead, TypeSubmit, TypeAcknowledge, TypeRestart
     DEF Next, World, Control
<1>4. ASSUME NEW d \in Devices PROVE 2 * (due'[d] - clock') <= 2 * Window + Minute
  <2>1. due[d] \in Nat /\ due'[d] \in Nat /\ 2 * (due[d] - clock) <= 2 * Window + Minute
    BY <1>3 DEF TypeOK, DueIsNear
  <2>2. due'[d] = due[d] \/ 2 * (due'[d] - clock) <= 2 * Window + Minute
    BY <1>2
  <2>3. clock \in Nat /\ Window \in Nat /\ Minute \in Nat
    BY <1>0, ConstantTypes
  <2>4. 2 * (due'[d] - clock) <= 2 * Window + Minute
    BY ONLY <2>1, <2>2
  <2> QED BY ONLY <1>1, <2>1, <2>3, <2>4
<1> QED BY <1>4 DEF DueIsNear

LEMMA PromptWorld ==
  ASSUME TypeOK, PromptInv, Forward, Prompt, World PROVE PromptInv'
<1> USE DEF loop, device, history
<1>1. UNCHANGED <<pc, pos, now, sampled, base, pending, due, failures, active>>
  BY DEF World, Tick, SetBack, Signal, HostWrites, Regress, Exchange
<1>2. unbroken' = unbroken
  BY DEF World, Tick, SetBack, Signal, HostWrites, Regress, Exchange, Forward
<1>3. WindowsAreKept'
  BY <1>1, <1>2 DEF PromptInv, WindowsAreKept
<1>4. CASE clock' = clock
  BY <1>1, <1>2, <1>3, <1>4 DEF PromptInv, OnTime
<1>5. CASE Tick
  <2>1. clock' = clock + 1 /\ clock \in Nat /\ (pc \in {"ended", "failed"} \/ ~Busy)
    BY <1>5, ConstantTypes DEF Tick, TypeOK
  <2>2. CASE pc \in {"ended", "failed"}
    BY <1>1, <1>3, <2>2 DEF PromptInv
  <2>3. CASE ~Busy
    <3>1. pc = "sleep" /\ \A d \in Devices : active[d] => ~(due[d] <= clock)
      BY <2>3 DEF Busy
    <3>2. ASSUME NEW d \in unbroken PROVE OnTime(d)'
      <4>1. d \in Devices /\ due[d] \in Nat /\ OnTime(d)
        BY <3>1, <3>2 DEF PromptInv, TypeOK
      <4>2. active[d] => clock + 1 <= due[d]
        BY <2>1, <3>1, <4>1
      <4> QED BY <1>1, <2>1, <4>1, <4>2 DEF OnTime
    <3> QED BY <1>1, <1>2, <1>3, <3>1, <3>2 DEF PromptInv
  <2> QED BY <2>1, <2>2, <2>3
<1> QED BY <1>4, <1>5 DEF World, SetBack, Signal, HostWrites, Regress, Exchange, Forward

LEMMA PromptControl ==
  ASSUME TypeOK, PromptInv, Control PROVE PromptInv'
<1> USE DEF world, device, history
<1>1. /\ UNCHANGED <<clock, base, pending, due, failures, unbroken>>
      /\ \A d \in Devices : active'[d] => active[d]
  BY DEF Control, Top, Break, After, Wake, Skip, Deactivate, TypeOK
<1>2. pc \notin {"ended", "failed"}
  BY DEF Control, Top, Break, After, Wake, Skip, Deactivate, IsDue, AtDevice
<1>3. pc' \notin {"submit", "ack"} /\ (pc' = "device" => now' = clock)
  <2>1. CASE After
    BY <2>1 DEF After
  <2> QED BY <2>1 DEF Control, Top, Break, Wake, Skip, Deactivate, IsDue, AtDevice, PromptInv
<1>4. ASSUME NEW d \in unbroken PROVE OnTime(d)'
  <2>1. OnTime(d) /\ d \in Devices
    BY <1>2 DEF PromptInv, TypeOK
  <2> QED BY <1>1, <2>1 DEF OnTime
<1> QED BY <1>1, <1>3, <1>4 DEF PromptInv, WindowsAreKept

LEMMA PromptReadFails ==
  ASSUME TypeOK, PromptInv, RetriesFit, NEW d \in Devices, ReadFails(d) PROVE PromptInv'
<1>1. /\ UNCHANGED <<pc, clock, now, base, active, pending, sampled>>
      /\ pc = "device" /\ IsDue(d) /\ now = clock /\ clock \in Nat
      /\ \A x \in Devices \ {d} : due'[x] = due[x] /\ failures'[x] = failures[x]
      /\ \A x \in unbroken : OnTime(x)
  <2>1. /\ UNCHANGED <<pc, clock, now, base, active, pending, sampled>>
        /\ pc = "device" /\ IsDue(d)
    BY DEF ReadFails, IsDue, AtDevice, world
  <2>2. \A x \in Devices \ {d} : due'[x] = due[x] /\ failures'[x] = failures[x]
    BY DEF ReadFails, TypeOK
  <2>3. now = clock /\ clock \in Nat /\ \A x \in unbroken : OnTime(x)
    BY <2>1, ConstantTypes DEF PromptInv, TypeOK
  <2> QED BY <2>1, <2>2, <2>3
<1>2. \A x \in unbroken' : x # d => OnTime(x)'
  <2> SUFFICES ASSUME NEW x \in unbroken', x # d PROVE OnTime(x)'
    OBVIOUS
  <2>1. x \in Devices /\ OnTime(x)
    BY <1>1 DEF ReadFails, TypeOK
  <2> QED BY <1>1, <2>1 DEF OnTime
<1>3. ASSUME d \in unbroken' PROVE OnTime(d)'
  <2>1. QuickRetry(failures[d] + 1) /\ d \in unbroken
    BY <1>3 DEF ReadFails
  <2> DEFINE n == failures[d]
  <2>2. n \in Nat /\ n + 1 \in 1 .. MaxRetries /\ n \in 0 .. MaxRetries /\ (n + 1) - 1 = n
    <3>1. n \in 0 .. MaxRetries /\ MaxRetries \in Nat
      BY ConstantTypes DEF TypeOK
    <3>2. n + 1 <= MaxRetries
      BY <2>1 DEF QuickRetry
    <3> HIDE DEF n
    <3> QED BY <3>1, <3>2
  <2>3. /\ failures' = [failures EXCEPT ![d] = @ + 1]
        /\ due' = [due EXCEPT ![d] = now + RetryDelay(failures[d] + 1)]
    BY <2>1 DEF ReadFails
  <2>4. failures'[d] = n + 1 /\ due'[d] = now + RetryDelay(n + 1)
    BY <2>3 DEF TypeOK
  <2>5. OnTime(d) /\ due[d] <= now /\ active[d] /\ due[d] \in Nat
    BY <1>1, <2>1 DEF IsDue, TypeOK
  <2> HIDE DEF n
  <2>6. due[d] = now
    BY <1>1, <2>5 DEF OnTime
  <2>7. /\ Retried[n + 1] = Retried[n] + RetryDelay(n + 1) /\ RetryDelay(n + 1) \in Nat
        /\ Retried[n] \in Nat
    BY <2>2, RetriedFacts, RetryAssumption
  <2>8. base[d] # None /\ NearestWindow(base[d].ts) \in Nat /\ now = NearestWindow(base[d].ts) + Retried[n]
    <3>1. base[d] # None /\ now = NearestWindow(base[d].ts) + Retried[n]
      BY <2>5, <2>6 DEF OnTime, n
    <3>2. base[d].ts \in Nat
      BY <3>1 DEF TypeOK, Sample
    <3> QED BY <3>1, <3>2, NearestWindowFacts
  <2>9. /\ due'[d] = NearestWindow(base[d].ts) + Retried[n + 1]
        /\ clock <= due'[d]
    BY <1>1, <2>4, <2>7, <2>8
  <2> QED BY <1>1, <2>4, <2>8, <2>9 DEF OnTime
<1> QED BY <1>1, <1>2, <1>3 DEF PromptInv, WindowsAreKept

LEMMA PromptRead ==
  ASSUME TypeOK, RowsInv, ChainInv, PromptInv, RetriesFit, NEW d \in Devices, Read(d)
  PROVE  PromptInv'
<1>1. /\ UNCHANGED <<clock, now, pos, base, due, failures, active, unbroken>>
      /\ pc = "device" /\ ~stop /\ pc' = "submit" /\ pos = d /\ IsDue(d) /\ sampled' = clock
      /\ pending' = [pending EXCEPT ![d] = IF pending[d] # None THEN pending[d] ELSE Taken(d)]
  BY TypeRead DEF Read, IsDue, AtDevice, world, history
<1>2. pending[d] = None
  BY <1>1 DEF RowsInv
<1>3. pending'[d] = Taken(d)
  BY <1>1, <1>2 DEF TypeOK
<1>4. now = clock /\ \A x \in unbroken : OnTime(x)
  BY <1>1 DEF PromptInv
<1>5. \A x \in unbroken : OnTime(x)'
  BY <1>1, <1>4 DEF OnTime
<1>6. ASSUME d \in unbroken
      PROVE  Taken(d).state \notin {"first", "outside", "uncertain"}
  <2> DEFINE t == base[d].ts
             x == Retried[failures[d]]
  <2>1. OnTime(d) /\ active[d] /\ due[d] <= now
    BY <1>1, <1>4, <1>6 DEF IsDue
  <2>2. base[d] # None /\ base[d] \in Sample /\ t \in Nat
    BY <2>1 DEF OnTime, TypeOK, Sample
  <2>3. x \in Nat /\ 2 * x <= Minute
    BY RetriedFacts DEF TypeOK
  <2>4. due[d] \in Nat /\ clock \in Nat /\ units[d] \in Nat
    BY ConstantTypes DEF TypeOK
  <2>5. clock = NearestWindow(t) + x
    BY <1>4, <2>1, <2>4 DEF OnTime
  <2> HIDE DEF t, x
  <2>6. /\ NearestWindow(t) \in Nat /\ NearestWindow(t) > t
        /\ 2 * NearestWindow(t) <= 2 * (t + Window) + Minute
        /\ 2 * (t + Window) <= 2 * NearestWindow(t) + Minute
    BY <2>2, NearestWindowFacts
  <2>7. t <= clock /\ AbsDiff(clock - t, Window) <= Minute
    <3>1. Window \in Nat /\ Minute \in Nat
      BY ConstantTypes
    <3>2. /\ t <= clock /\ clock - t \in Nat
          /\ 2 * (clock - t) <= 2 * Window + 2 * Minute
          /\ 2 * Window <= 2 * (clock - t) + Minute
      BY <2>2, <2>3, <2>4, <2>5, <2>6, <3>1
    <3>3. (clock - t) - Window <= Minute /\ Window - (clock - t) <= Minute
      BY <3>1, <3>2
    <3> QED BY <3>2, <3>3 DEF AbsDiff
  <2>8. Classify(base[d], clock, units[d]).state \notin {"first", "outside", "uncertain"}
    BY <2>2, <2>4, <2>7, ClassifyFacts DEF InWindow, t
  <2> QED BY <2>8, TakenFacts
<1>7. Taken(d).ts = clock
  BY TakenFacts
<1> QED BY <1>1, <1>3, <1>4, <1>5, <1>6, <1>7 DEF PromptInv, WindowsAreKept

LEMMA PromptAcknowledge ==
  ASSUME TypeOK, RowsInv, PromptInv, RetriesFit, Acknowledge PROVE PromptInv'
<1>0. PICK d \in Devices, p \in PendingSample : d = pos /\ p = pending[pos]
  BY DEF Acknowledge, TypeOK, RowsInv
<1>1. /\ UNCHANGED <<clock, now, sampled, active>>
      /\ pc = "ack" /\ pc' = "device" /\ unbroken' = unbroken \union {d}
      /\ base' = [base EXCEPT ![d] = SampleOf(p)]
      /\ due' = [due EXCEPT ![d] = NearestWindow(sampled)]
      /\ failures' = [failures EXCEPT ![d] = 0]
  BY <1>0 DEF Acknowledge, SampleOf, world
<1>2. now = clock /\ p.ts = clock /\ sampled = clock /\ clock \in Nat
  BY <1>0, <1>1, ConstantTypes DEF PromptInv, TypeOK
<1>3. /\ base'[d] = SampleOf(p) /\ due'[d] = NearestWindow(sampled) /\ failures'[d] = 0
      /\ \A x \in Devices \ {d} : /\ base'[x] = base[x] /\ due'[x] = due[x]
                                  /\ failures'[x] = failures[x]
  BY <1>1 DEF TypeOK
<1>4. SampleOf(p) \in Sample /\ SampleOf(p).ts = p.ts
  BY DEF SampleOf, Sample, PendingSample
<1>5. OnTime(d)'
  <2>1. base'[d] # None
    BY <1>3, <1>4, ConstantTypes
  <2>2. Retried[0] = 0 /\ NearestWindow(clock) \in Nat /\ NearestWindow(clock) > clock
    BY <1>2, RetriedFacts, NearestWindowFacts
  <2>3. due'[d] = NearestWindow(base'[d].ts) + Retried[failures'[d]] /\ clock <= due'[d]
    BY <1>2, <1>3, <1>4, <2>2
  <2> QED BY <1>1, <2>1, <2>3 DEF OnTime
<1>6. ASSUME NEW x \in unbroken, x # d PROVE OnTime(x)'
  <2>1. x \in Devices /\ OnTime(x)
    BY <1>1 DEF PromptInv, TypeOK
  <2> QED BY <1>1, <1>3, <1>6, <2>1 DEF OnTime
<1> QED BY <1>1, <1>2, <1>5, <1>6 DEF PromptInv, WindowsAreKept

LEMMA PromptStep ==
  ASSUME TypeOK, RowsInv, ChainInv, PromptInv, RetriesFit, Forward, Prompt, Next
  PROVE  PromptInv'
<1>1. CASE Submit
  <2>1. /\ UNCHANGED <<clock, now, pos, sampled, base, pending, due, failures, active, unbroken>>
        /\ pc = "submit" /\ pc' \in {"ack", "failed"}
    BY <1>1 DEF Submit, world, device
  <2>2. \A d \in unbroken : OnTime(d)'
    BY <2>1 DEF PromptInv, OnTime
  <2> QED BY <2>1, <2>2 DEF PromptInv, WindowsAreKept
<1>2. CASE Restart
  BY <1>2 DEF Restart, PromptInv, WindowsAreKept
<1> QED BY <1>1, <1>2, PromptWorld, PromptControl, PromptReadFails, PromptRead,
           PromptAcknowledge DEF Next, World, Control

-----------------------------------------------------------------------------
(* What the rows count                                                     *)

LEMMA SampleTypes ==
  ASSUME TypeOK, NEW d \in Devices
  PROVE  /\ units[d] \in Nat
         /\ base[d] # None => base[d] \in Sample /\ base[d].units \in Nat
         /\ last[d] # None => last[d] \in Sample /\ last[d].units \in Nat
         /\ pending[d] # None => /\ pending[d] \in PendingSample /\ pending[d].units \in Nat
                                 /\ pending[d].amount \in Nat \union {None}
         /\ \A r \in rows[d] : r.units \in Nat /\ r.amount \in Nat \union {None}
<1>1. units[d] \in Nat
  BY ConstantTypes DEF TypeOK
<1>2. Amounts \subseteq Nat \union {None}
  BY ConstantTypes DEF Amounts
<1>3. /\ base[d] # None => base[d] \in Sample /\ base[d].units \in Nat
      /\ last[d] # None => last[d] \in Sample /\ last[d].units \in Nat
  BY DEF TypeOK, Sample
<1>4. pending[d] # None => /\ pending[d] \in PendingSample /\ pending[d].units \in Nat
                           /\ pending[d].amount \in Amounts
  BY DEF TypeOK, PendingSample
<1>5. rows[d] \subseteq StoredType
  BY DEF TypeOK, StoredType
<1>6. \A r \in rows[d] : r.units \in Nat /\ r.amount \in Amounts
  BY <1>5 DEF StoredType
<1> QED BY <1>1, <1>2, <1>3, <1>4, <1>6

(* Steps that neither take nor store nor acknowledge a sample, and leave   *)
(* the counters alone or let them grow.                                    *)
LEMMA CountKeep ==
  ASSUME CountInv, TypeOK, TypeOK', \A d \in Devices : units[d] <= units'[d],
         base' = base, last' = last, pending' = pending, rows' = rows,
         \/ pc' = pc /\ pos' = pos
         \/ pc \notin {"ack", "failed"} /\ pc' # "ack"
  PROVE  CountInv'
<1>1. ASSUME NEW d \in Devices
      PROVE  /\ units[d] \in Nat /\ units'[d] \in Nat /\ units[d] <= units'[d]
             /\ last[d] # None => last[d].units \in Nat
             /\ pending[d] # None => pending[d].units \in Nat
  <2>1. units' \in [Devices -> 0 .. MaxUnits]
    BY DEF TypeOK
  <2>2. units'[d] \in Nat
    BY ONLY <1>1, <2>1, ConstantTypes
  <2> QED BY <2>2, SampleTypes
<1>2. ASSUME NEW d \in Devices
      PROVE  /\ last'[d] = None => rows'[d] = {}
             /\ last'[d] # None => /\ last'[d].units <= units'[d]
                                   /\ \A r \in rows'[d] : r.units <= last'[d].units
             /\ pending'[d] # None => /\ CountsOn(base'[d], pending'[d])
                                      /\ pending'[d].units <= units'[d]
  <2>1. /\ last[d] = None => rows[d] = {}
        /\ last[d] # None => last[d].units <= units[d] /\ \A r \in rows[d] : r.units <= last[d].units
        /\ pending[d] # None => CountsOn(base[d], pending[d]) /\ pending[d].units <= units[d]
    BY DEF CountInv
  <2> QED BY <1>1, <2>1
<1>3. \A d \in Devices : pc' # "failed" /\ (pc' = "ack" => pos' # d) => base'[d] = last'[d]
  BY DEF CountInv
<1>4. pc' = "ack" => last'[pos'] = SampleOf(pending'[pos'])
  BY DEF CountInv, SampleOf
<1>5. CountedOnce'
  <2> SUFFICES ASSUME NEW d \in Devices, NEW r \in rows[d]
               PROVE  /\ Counted(r) \subseteq 1 .. units'[d]
                      /\ \A o \in rows[d] : r # o => Counted(r) \intersect Counted(o) = {}
    BY DEF CountedOnce
  <2>1. /\ Counted(r) \subseteq 1 .. units[d]
        /\ \A o \in rows[d] : r # o => Counted(r) \intersect Counted(o) = {}
    BY DEF CountInv, CountedOnce
  <2>2. 1 .. units[d] \subseteq 1 .. units'[d]
    BY <1>1
  <2> QED BY <2>1, <2>2
<1> QED BY <1>2, <1>3, <1>4, <1>5 DEF CountInv

LEMMA CountRead ==
  ASSUME TypeOK, CountInv, NEW d \in Devices, Read(d) PROVE CountInv'
<1>1. /\ UNCHANGED <<units, pos, base, last, rows>>
      /\ pc = "device" /\ pc' = "submit"
      /\ pending' = [pending EXCEPT ![d] = IF pending[d] # None THEN pending[d] ELSE Taken(d)]
  BY TypeRead DEF Read, IsDue, AtDevice, world, history
<1>2. ASSUME NEW x \in Devices, pending'[x] # None
      PROVE  CountsOn(base[x], pending'[x]) /\ pending'[x].units <= units[x]
  <2>1. CASE pending'[x] = pending[x]
    BY <1>2, <2>1 DEF CountInv
  <2>2. CASE pending'[x] # pending[x]
    <3>1. x = d /\ pending'[x] = Taken(x)
      BY <1>1, <2>2 DEF TypeOK
    <3>2. base[x] = last[x] /\ (last[x] # None => last[x].units <= units[x])
      BY <1>1 DEF CountInv
    <3>3. units[x] \in Nat /\ (base[x] # None => base[x].units \in Nat)
      BY SampleTypes
    <3>4. Taken(x).units = units[x] /\ Taken(x).amount = Classify(base[x], clock, units[x]).amount
      BY TakenFacts
    <3>5. /\ base[x] = None => Classify(base[x], clock, units[x]).amount = None
          /\ base[x] # None => Classify(base[x], clock, units[x]).amount
                                 \in {None, units[x] - base[x].units}
      BY <3>3 DEF Classify
    <3> QED BY <3>1, <3>2, <3>3, <3>4, <3>5 DEF CountsOn
  <2> QED BY <2>1, <2>2
<1> QED BY <1>1, <1>2 DEF CountInv, CountedOnce

(* The units that a stored sample counts are beyond those of every row.    *)
LEMMA CountSubmit ==
  ASSUME TypeOK, TypeOK', RowsInv, CountInv, Submit PROVE CountInv'
<1>1. /\ UNCHANGED <<units, pos, base, pending>>
      /\ pc = "submit" /\ pc' \in {"ack", "failed"} /\ pos \in Devices /\ pending[pos] # None
  BY DEF Submit, TypeOK, RowsInv, world, device
<1>2. CASE Store(pos)
  <2>1. PICK d \in Devices, p \in PendingSample : d = pos /\ p = pending[pos]
    BY <1>1 DEF TypeOK
  <2> DEFINE n == RowOf(p)
  <2>2. /\ rows' = [rows EXCEPT ![d] = {r \in rows[d] : r.ts # p.ts} \union {n}]
        /\ last' = [last EXCEPT ![d] = SampleOf(p)]
    BY <1>2, <2>1 DEF Store, Upserted, SampleOf, RowOf
  <2>3. /\ rows'[d] = {r \in rows[d] : r.ts # p.ts} \union {n} /\ last'[d] = SampleOf(p)
        /\ \A x \in Devices \ {d} : rows'[x] = rows[x] /\ last'[x] = last[x]
    BY <2>2 DEF TypeOK
  <2>4. /\ n.units = p.units /\ n.amount = p.amount /\ SampleOf(p).units = p.units
        /\ SampleOf(p) \in Sample /\ SampleOf(p) # None
        /\ p.units \in Nat /\ units[d] \in Nat /\ p.amount \in Nat \union {None}
    <3>1. p.ts \in Nat /\ p.units \in Nat
      BY DEF PendingSample
    <3>2. SampleOf(p) \in Sample
      BY <3>1 DEF SampleOf, Sample
    <3>3. units[d] \in Nat /\ p.amount \in Nat \union {None}
      BY <1>1, <2>1, SampleTypes
    <3> QED BY <3>1, <3>2, <3>3, ConstantTypes DEF RowOf, SampleOf
  <2> HIDE DEF n
  <2>5. /\ base[d] = last[d] /\ CountsOn(base[d], p) /\ p.units <= units[d]
        /\ last[d] = None => rows[d] = {}
        /\ last[d] # None => \A r \in rows[d] : r.units <= last[d].units
    BY <1>1, <2>1 DEF CountInv
  <2>6. \A r \in rows[d] : /\ r.units \in Nat /\ r.units <= p.units
                           /\ p.amount # None => r.units <= p.units - p.amount
    <3> SUFFICES ASSUME NEW r \in rows[d]
                 PROVE  /\ r.units \in Nat /\ r.units <= p.units
                        /\ p.amount # None => r.units <= p.units - p.amount
      OBVIOUS
    <3>1. last[d] # None /\ r.units <= last[d].units /\ base[d] = last[d]
      BY <2>5
    <3>2. last[d].units <= p.units /\ p.amount \in {None, p.units - last[d].units}
      BY <2>5, <3>1 DEF CountsOn
    <3>3. r.units \in Nat /\ last[d].units \in Nat
      BY <3>1, SampleTypes
    <3> QED BY <2>4, <3>1, <3>2, <3>3
  <2>7. Counted(n) \subseteq 1 .. units[d]
    <3>1. CASE p.amount = None
      BY <2>4, <3>1 DEF Counted
    <3>2. CASE p.amount # None
      <4>1. base[d] # None /\ base[d].units \in Nat /\ p.amount = p.units - base[d].units
        BY <2>5, <3>2, SampleTypes DEF CountsOn
      <4> QED BY <2>4, <2>5, <3>2, <4>1 DEF Counted
    <3> QED BY <3>1, <3>2
  <2>8. ASSUME NEW r \in rows[d] PROVE Counted(r) \intersect Counted(n) = {}
    <3>1. /\ r.units \in Nat /\ r.amount \in Nat \union {None}
          /\ p.amount # None => r.units <= p.units - p.amount
      BY <2>6, SampleTypes
    <3> QED BY <2>4, <3>1 DEF Counted
  <2>9. CountedOnce'
    <3> SUFFICES ASSUME NEW x \in Devices, NEW r \in rows'[x]
                 PROVE  /\ Counted(r) \subseteq 1 .. units[x]
                        /\ \A o \in rows'[x] : r # o => Counted(r) \intersect Counted(o) = {}
      BY <1>1 DEF CountedOnce
    <3>1. \A s \in rows[x] :
            /\ Counted(s) \subseteq 1 .. units[x]
            /\ \A o \in rows[x] : s # o => Counted(s) \intersect Counted(o) = {}
      BY DEF CountInv, CountedOnce
    <3>2. CASE x # d
      BY <2>3, <3>1, <3>2
    <3>3. CASE x = d
      BY <2>3, <2>7, <2>8, <3>1, <3>3
    <3> QED BY <3>2, <3>3
  <2>10. ASSUME NEW x \in Devices
         PROVE  /\ last'[x] = None => rows'[x] = {}
                /\ last'[x] # None => last'[x].units <= units[x]
                                      /\ \A r \in rows'[x] : r.units <= last'[x].units
    <3>1. CASE x # d
      BY <2>3, <3>1 DEF CountInv
    <3>2. CASE x = d
      BY <2>3, <2>4, <2>5, <2>6, <3>2
    <3> QED BY <3>1, <3>2
  <2>11. \A x \in Devices : pc' # "failed" /\ (pc' = "ack" => pos' # x) => base'[x] = last'[x]
    BY <1>1, <2>1, <2>3 DEF CountInv
  <2>12. \A x \in Devices : pending'[x] # None => /\ CountsOn(base'[x], pending'[x])
                                                  /\ pending'[x].units <= units'[x]
    BY <1>1 DEF CountInv
  <2>13. last'[pos'] = SampleOf(pending'[pos'])
    BY <1>1, <2>1, <2>3
  <2> QED BY <1>1, <2>9, <2>10, <2>11, <2>12, <2>13 DEF CountInv
<1>3. CASE pc' = "failed" /\ UNCHANGED <<rows, last, exceeded>>
  <2>1. \A d \in Devices : units[d] <= units'[d]
    BY <1>1, SampleTypes
  <2> QED BY <1>1, <1>3, <2>1, CountKeep
<1> QED BY <1>2, <1>3 DEF Submit

LEMMA CountAcknowledge ==
  ASSUME TypeOK, RowsInv, CountInv, Acknowledge PROVE CountInv'
<1>1. /\ UNCHANGED <<units, last, rows>> /\ pc = "ack" /\ pc' = "device" /\ pos \in Devices
      /\ base' = [base EXCEPT ![pos] = SampleOf(pending[pos])]
      /\ pending' = [pending EXCEPT ![pos] = None]
  BY DEF Acknowledge, SampleOf, TypeOK, world
<1>2. /\ base'[pos] = SampleOf(pending[pos]) /\ pending'[pos] = None
      /\ \A x \in Devices \ {pos} : base'[x] = base[x] /\ pending'[x] = pending[x]
  BY <1>1 DEF TypeOK
<1>3. last[pos] = SampleOf(pending[pos]) /\ \A x \in Devices \ {pos} : base[x] = last[x]
  BY <1>1 DEF CountInv
<1>4. \A x \in Devices : base'[x] = last'[x]
  BY <1>1, <1>2, <1>3
<1> QED BY <1>1, <1>2, <1>4 DEF CountInv, CountedOnce

LEMMA CountRestart ==
  ASSUME TypeOK, TypeOK', RowsInv, CountInv, Restart, Growing, Forward => ChainInv
  PROVE  CountInv'
<1>1. Forward
  BY ConstantTypes DEF Growing, Restart, TypeOK
<1>2. /\ UNCHANGED <<units, last, rows>> /\ pc' = "top"
      /\ base' = [d \in Devices |-> Recovered(d)] /\ pending' = [d \in Devices |-> None]
  BY DEF Restart
<1>3. \A d \in Devices : base'[d] = last[d]
  BY <1>1, <1>2, RecoveredIsLast DEF ChainInv
<1> QED BY <1>2, <1>3 DEF CountInv, CountedOnce

LEMMA CountStep ==
  ASSUME TypeOK, TypeOK', RowsInv, CountInv, Growing, Forward => ChainInv, Next PROVE CountInv'
<1>0. \A d \in Devices : units[d] \in Nat
  BY SampleTypes
<1>1. CASE World
  <2>1. UNCHANGED <<pc, pos, base, last, pending, rows>>
    BY <1>1 DEF World, Tick, SetBack, Signal, HostWrites, Regress, Exchange, loop, device, history
  <2>2. units' = units \/ \E d \in Devices : units' = [units EXCEPT ![d] = units[d] + 1]
    BY <1>1 DEF Growing, World, Tick, SetBack, Signal, HostWrites, Regress, Exchange
  <2>3. \A d \in Devices : units[d] <= units'[d]
    BY <1>0, <2>2 DEF TypeOK
  <2> QED BY <2>1, <2>3, CountKeep
<1>2. CASE Control \/ \E d \in Devices : ReadFails(d)
  <2>1. /\ UNCHANGED <<units, base, last, pending, rows>>
        /\ pc \notin {"ack", "failed"} /\ pc' # "ack"
    BY <1>2 DEF Control, Top, Break, After, Wake, Skip, Deactivate, ReadFails, IsDue, AtDevice,
       world, device, history
  <2>2. \A d \in Devices : units[d] <= units'[d]
    BY <1>0, <2>1
  <2> QED BY <2>1, <2>2, CountKeep
<1> QED BY <1>1, <1>2, CountRead, CountSubmit, CountAcknowledge, CountRestart
        DEF Next, World, Control

-----------------------------------------------------------------------------
(* The invariant holds                                                     *)

LEMMA InitInv ==
  ASSUME Init PROVE IInv
<1>1. TypeOK
  BY TypeInit
<1>2. RowsInv
  BY DEF Init, RowsInv
<1>3. clock \in Nat
  BY <1>1, ConstantTypes DEF TypeOK
<1>4. HistoryAddsUp /\ AlertsAreEarned
  BY DEF Init, HistoryAddsUp, AlertsAreEarned
<1>5. StatsAgree
  BY DEF Init, StatsAgree, StatsEvents
<1>6. ChainInv
  <2>1. \A d \in Devices : LatestIs(d, last[d])
    BY DEF Init, LatestIs
  <2> QED BY <1>3, <1>4, <1>5, <2>1 DEF Init, ChainInv
<1>7. DueIsNear
  <2>1. \A d \in Devices : due[d] = 0
    BY DEF Init
  <2> QED BY <1>3, <2>1, ConstantTypes DEF DueIsNear
<1>8. PromptInv
  BY DEF Init, PromptInv, WindowsAreKept
<1>9. CountInv
  BY DEF Init, CountInv, CountedOnce
<1> QED BY <1>1, <1>2, <1>6, <1>7, <1>8, <1>9 DEF IInv

LEMMA NextInv ==
  ASSUME IInv, [Next]_vars PROVE IInv'
<1>1. TypeOK /\ RowsInv
  BY DEF IInv
<1>2. CASE Next
  <2>1. TypeOK'
    BY <1>1, <1>2, TypeWorld, TypeControl, TypeReadFails, TypeRead, TypeSubmit, TypeAcknowledge,
       TypeRestart DEF Next, World, Control
  <2>2. RowsInv'
    BY <1>1, <1>2, RowsStep
  <2>3. Forward => ChainInv'
    BY <1>1, <1>2, ChainQuiet, ChainReadFails, ChainRead, ChainSubmit, ChainAcknowledge,
       ChainRestart DEF IInv, Next, World, Control
  <2>4. Forward /\ RetriesFit => DueIsNear'
    BY <1>1, <1>2, DueStep DEF IInv
  <2>5. Forward /\ RetriesFit /\ Prompt => PromptInv'
    BY <1>1, <1>2, PromptStep DEF IInv
  <2>6. Growing => CountInv'
    BY <1>1, <1>2, <2>1, CountStep DEF IInv
  <2> QED BY <2>1, <2>2, <2>3, <2>4, <2>5, <2>6
          DEF IInv, Growing, Forward, RetriesFit, Retries, RetryDelay
<1>3. CASE UNCHANGED vars
  <2>1. /\ UNCHANGED <<clock, units, same, stop, pc, pos, now, sampled, sampledAny>>
        /\ UNCHANGED <<base, pending, due, failures, active, rows, restarts>>
        /\ UNCHANGED <<alerts, last, exceeded, unbroken>>
    BY <1>3 DEF vars, world, loop, device, history
  <2>2. TypeOK' /\ RowsInv'
    BY <1>1, <2>1 DEF TypeOK, RowsInv
  <2>3. ASSUME Forward PROVE ChainInv'
    <3>1. ChainInv /\ clock \in Nat /\ now <= clock
      BY <1>1, <2>3, ConstantTypes DEF IInv, TypeOK, ChainInv
    <3> QED BY <1>1, <2>1, <3>1, ChainKeep
  <2>4. Forward /\ RetriesFit => DueIsNear'
    BY <2>1 DEF IInv, DueIsNear
  <2>5. ASSUME Forward /\ RetriesFit /\ Prompt PROVE PromptInv'
    <3>1. PromptInv
      BY <2>5 DEF IInv
    <3>2. \A d \in unbroken : OnTime(d) => OnTime(d)'
      BY <2>1 DEF OnTime
    <3> QED BY <2>1, <3>1, <3>2 DEF PromptInv, WindowsAreKept
  <2>6. ASSUME Growing PROVE CountInv'
    <3>1. CountInv /\ \A d \in Devices : units[d] \in Nat
      BY <1>1, <2>6, SampleTypes DEF IInv
    <3> QED BY <1>1, <2>1, <2>2, <3>1, CountKeep
  <2> QED BY <2>2, <2>3, <2>4, <2>5, <2>6
          DEF IInv, Growing, Forward, RetriesFit, Retries, RetryDelay
<1> QED BY <1>2, <1>3

(* The inductive invariant holds in every reachable state.                 *)
THEOREM Invariance == Spec => []IInv
BY InitInv, NextInv, PTL DEF Spec

-----------------------------------------------------------------------------
(* What the monitor promises                                               *)

(* Every variable keeps its type, also when the clock is set back.         *)
THEOREM TypeCorrect == Spec => []TypeOK
<1>1. IInv => TypeOK
  BY DEF IInv
<1> QED BY <1>1, Invariance, PTL

(* The rows of a device are one chain: nothing that was written between    *)
(* two samples is left out, whatever failed in between.                    *)
THEOREM RowsAddUp == ASSUME Forward PROVE Spec => []HistoryAddsUp
<1>1. IInv => HistoryAddsUp
  BY DEF IInv, ChainInv
<1> QED BY <1>1, Invariance, PTL

(* No unit is counted in two rows and none that was not written, within a  *)
(* process whatever the clock does, and in any number of processes if the  *)
(* clock is not set back.                                                  *)
THEOREM NothingTwice == ASSUME Growing PROVE Spec => []CountedOnce
<1>1. IInv => CountedOnce
  BY DEF IInv, CountInv
<1> QED BY <1>1, Invariance, PTL

(* An alert is raised only for a durable sample that was over the          *)
(* threshold in its window.                                                *)
THEOREM NoFalseAlert == ASSUME Forward PROVE Spec => []AlertsAreEarned
<1>1. IInv => AlertsAreEarned
  BY DEF IInv, ChainInv
<1> QED BY <1>1, Invariance, PTL

(* What `stats` makes of the rows is what the monitor saw when it stored   *)
(* them.                                                                   *)
THEOREM StatsTellTheSame == ASSUME Forward PROVE Spec => []StatsAgree
<1>1. IInv => StatsAgree
  BY DEF IInv, ChainInv
<1> QED BY <1>1, Invariance, PTL

(* No sample is alerted twice, in any number of processes.                 *)
THEOREM OneAlert == ASSUME Forward PROVE Spec => AlertedOnce
<1>1. ASSUME IInv, pc = "ack", NEW e \in alerts, e.dev = pos, e.cur = pending[pos].ts
      PROVE  FALSE
  <2>1. pos \in Devices /\ pending[pos] # None /\ TypeOK /\ ChainInv
    BY <1>1 DEF IInv, TypeOK, RowsInv
  <2>2. base[pos] # None /\ e.cur <= base[pos].ts /\ InHand(pos)
    BY <1>1, <2>1 DEF ChainInv
  <2>3. base[pos].ts < pending[pos].ts /\ base[pos].ts \in Nat /\ pending[pos].ts \in Nat
    BY <2>1, <2>2 DEF InHand, TypeOK, Sample, PendingSample
  <2> QED BY <1>1, <2>2, <2>3
<1>2. IInv /\ [Next]_vars =>
        [pc = "ack" /\ pc' = "device" /\ OverThreshold(pending[pos])
           => \A e \in alerts : e.dev = pos => e.cur # pending[pos].ts]_vars
  BY <1>1
<1> QED BY <1>2, Invariance, PTL DEF Spec, AlertedOnce

(* A restarted monitor goes on from the last committed sample, whether or  *)
(* not the process that committed it lived to see the acknowledgement.     *)
THEOREM TakesUpTheLast == ASSUME Forward PROVE Spec => RecoversLastCommitted
<1>1. ASSUME IInv, [Next]_vars, restarts' # restarts PROVE base' = last
  <2>1. Restart
    BY <1>1 DEF Next, vars, Tick, SetBack, Signal, HostWrites, Regress, Exchange, Top, Break,
       Submit, Acknowledge, After, Wake, Skip, Deactivate, ReadFails, Read
  <2>2. TypeOK /\ RowsInv /\ \A d \in Devices : LatestIs(d, last[d])
    BY <1>1 DEF IInv, ChainInv
  <2>3. base' = [d \in Devices |-> Recovered(d)]
    BY <2>1 DEF Restart
  <2>4. \A d \in Devices : Recovered(d) = last[d]
    BY <2>2, RecoveredIsLast
  <2>5. last = [d \in Devices |-> last[d]]
    BY <2>2 DEF TypeOK
  <2> QED BY <2>3, <2>4, <2>5
<1>2. IInv /\ [Next]_vars => [restarts' # restarts => base' = last]_vars
  BY <1>1
<1> QED BY <1>2, Invariance, PTL DEF Spec, RecoversLastCommitted

(* No device is scheduled further away than a window and half a minute,    *)
(* where the quick retries together take no longer than half a minute.     *)
THEOREM NeverFarAway == ASSUME Forward, RetriesFit PROVE Spec => []DueIsNear
<1>1. IInv => DueIsNear
  BY DEF IInv
<1> QED BY <1>1, Invariance, PTL

(* A prompt monitor never takes a sample out of the tolerance, for any     *)
(* number of devices, windows and quick retries that fit in half a minute. *)
THEOREM NoWindowIsLost == ASSUME Forward, RetriesFit, Prompt PROVE Spec => []WindowsAreKept
<1>1. IInv => WindowsAreKept
  BY DEF IInv, PromptInv
<1> QED BY <1>1, Invariance, PTL

-----------------------------------------------------------------------------
(* One log, kept by any number of processes                                *)

(* A stored sample is appended to the log of its device.                   *)
LEMMA StoreAppends ==
  ASSUME TypeOK, RowsInv, ChainInv, Submit, Store(pos)
  PROVE  Log!Append(pos, pending[pos].ts, pending[pos].units)
         /\ pending[pos].ts \in 0 .. MaxClock /\ pending[pos].units \in 0 .. MaxUnits
<1>0. pc = "submit" /\ alerts' = alerts
  BY DEF Submit
<1>1. PICK d \in Devices, p \in PendingSample : d = pos /\ p = pending[pos]
  BY <1>0, StoreExtends
<1>2. /\ rows' = [rows EXCEPT ![d] = rows[d] \union {RowOf(p)}]
      /\ \A r \in rows[d] : r.ts < p.ts
      /\ base[d] = None => rows[d] = {}
      /\ base[d] # None =>
           \E r \in rows[d] : /\ r.ts = base[d].ts /\ r.units = base[d].units
                              /\ {o \in rows[d] : \A q \in rows[d] : q.ts <= o.ts} = {r}
  BY <1>0, <1>1, StoreExtends
<1>3. InHand(d) /\ pending[d] # None
  BY <1>0, <1>1, ConstantTypes DEF ChainInv
<1>4. /\ base[d] \in Sample \union {None}
      /\ base[d] # None => base[d].ts \in Nat /\ base[d].units \in Nat
      /\ p.ts \in Nat /\ p.units \in Nat /\ clock \in 0 .. MaxClock
  BY DEF TypeOK, Sample, PendingSample
<1>5. /\ base[d] # None => base[d].ts <= p.ts
      /\ p.ts <= clock
      /\ p.amount = Classify(base[d], p.ts, p.units).amount
  BY <1>1, <1>3, <1>4 DEF InHand
<1>6. p.amount = IF base[d] = None THEN None
                   ELSE IF p.units < base[d].units \/ p.units - base[d].units > MaxAmount
                     THEN None ELSE p.units - base[d].units
  BY <1>4, <1>5, ClassifyFacts
<1>7. p.amount \in {Log!Growth(o, p.units) : o \in Log!Latest(d)}
                     \union (IF rows[d] = {} THEN {None} ELSE {})
  <2>1. CASE base[d] = None
    BY <1>2, <1>6, <2>1
  <2>2. CASE base[d] # None
    <3>1. PICK r \in rows[d] : r.units = base[d].units /\ Log!Latest(d) = {r}
      BY <1>2, <2>2 DEF Log!Latest
    <3>2. p.amount = Log!Growth(r, p.units)
      BY <1>6, <2>2, <3>1 DEF Log!Growth
    <3> QED BY <3>1, <3>2
  <2> QED BY <2>1, <2>2
<1>8. p.units \in 0 .. MaxUnits
  BY <1>1, <1>3 DEF RowsInv
<1>9. p.ts \in 0 .. MaxClock
  BY <1>4, <1>5, ConstantTypes
<1>10. RowOf(p) = [ts |-> p.ts, units |-> p.units, amount |-> p.amount]
  BY DEF RowOf
<1>11. Log!Append(d, p.ts, p.units)
  BY <1>0, <1>2, <1>7, <1>10 DEF Log!Append
<1> QED BY <1>1, <1>8, <1>9, <1>11

(* An acknowledged sample over the threshold is the latest row, and raises *)
(* the alert of the log.                                                   *)
LEMMA AcknowledgeRaises ==
  ASSUME TypeOK, RowsInv, ChainInv, Acknowledge, OverThreshold(pending[pos])
  PROVE  Log!Raise(pos)
<1>1. PICK d \in Devices, p \in PendingSample : d = pos /\ p = pending[pos]
  BY DEF Acknowledge, TypeOK, RowsInv
<1>2. /\ pc = "ack" /\ rows' = rows /\ alerts' = alerts \union {Event(d)}
      /\ Event(d) = [dev |-> d, prev |-> p.prev, cur |-> p.ts, amount |-> p.amount]
  BY <1>1 DEF Acknowledge, Event
<1>3. RowOf(p) \in rows[d] /\ last[d] = SampleOf(p) /\ Earned(Event(d)) /\ LatestIs(d, last[d])
  BY <1>1, <1>2 DEF ChainInv
<1>4. /\ RowOf(p).ts = p.ts /\ RowOf(p).amount = p.amount /\ SampleOf(p).ts = p.ts
      /\ \A r \in rows[d] : r.ts = p.ts => r = RowOf(p)
  BY <1>1, <1>3 DEF RowOf, SampleOf, RowsInv
<1>5. RowOf(p) \in Log!Latest(d)
  BY <1>3, <1>4 DEF LatestIs, Log!Latest
<1>6. PICK o \in Before(d, RowOf(p)) : o.ts = p.prev /\ InWindow(RowOf(p).ts - o.ts)
  BY <1>1, <1>2, <1>3, <1>4 DEF Earned
<1>7. o \in Log!Earlier(d, RowOf(p)) /\ \A q \in Log!Earlier(d, RowOf(p)) : q.ts <= o.ts
  BY <1>6 DEF Before, Log!Earlier
<1>8. p.amount # None /\ p.amount > Threshold
  <2>1. p.state = "valid" /\ p.amount > Threshold
    BY <1>1 DEF OverThreshold
  <2>2. InHand(d)
    BY <1>1, ConstantTypes DEF ChainInv
  <2>3. p.amount = Classify(base[d], p.ts, p.units).amount
        /\ Classify(base[d], p.ts, p.units).state = "valid"
    BY <1>1, <2>1, <2>2 DEF InHand
  <2>4. Classify(base[d], p.ts, p.units).amount # None
    <3>1. /\ base[d] \in Sample \union {None} /\ p.ts \in Nat /\ p.units \in Nat
          /\ base[d] # None => base[d].ts \in Nat /\ base[d].units \in Nat
      BY DEF TypeOK, Sample, PendingSample
    <3>2. base[d] # None => base[d].ts <= p.ts
      BY <1>1, <2>2, <3>1 DEF InHand
    <3>3. /\ base[d] # None /\ ~(p.units < base[d].units) /\ ~(p.units - base[d].units > MaxAmount)
          /\ Classify(base[d], p.ts, p.units).amount = p.units - base[d].units
      BY <2>3, <3>1, <3>2, ClassifyFacts
    <3> QED BY <3>1, <3>3, ConstantTypes
  <2> QED BY <2>1, <2>3, <2>4
<1>9. Log!Raise(d)
  BY <1>2, <1>4, <1>5, <1>6, <1>7, <1>8 DEF Log!Raise
<1> QED BY <1>1, <1>9

(* However the process ends, and whether or not it lived to see its sample *)
(* stored, the rows and alerts are those of one log that is only appended  *)
(* to, in which every row counts from the row before it.                   *)
THEOREM OneLog == ASSUME Forward PROVE Spec => KeepsLog
<1>1. Init => Log!Init
  BY DEF Init, Log!Init
<1>2. IInv /\ [Next]_vars => [Log!Next]_(Log!logVars)
  <2> SUFFICES ASSUME IInv, [Next]_vars PROVE Log!Next \/ UNCHANGED <<rows, alerts>>
    BY DEF Log!logVars
  <2>1. TypeOK /\ RowsInv /\ ChainInv
    BY DEF IInv
  <2>2. CASE Submit
    <3>1. CASE Store(pos)
      <4>1. pos \in Devices
        BY <2>1, <2>2 DEF Submit, TypeOK
      <4>2. Log!Append(pos, pending[pos].ts, pending[pos].units)
            /\ pending[pos].ts \in 0 .. MaxClock /\ pending[pos].units \in 0 .. MaxUnits
        BY <2>1, <2>2, <3>1, StoreAppends
      <4> QED BY <4>1, <4>2 DEF Log!Next
    <3>2. CASE ~Store(pos)
      BY <2>2, <3>2 DEF Submit
    <3> QED BY <3>1, <3>2
  <2>3. CASE Acknowledge
    <3>1. CASE OverThreshold(pending[pos])
      <4>1. pos \in Devices
        BY <2>1, <2>3 DEF Acknowledge, TypeOK
      <4>2. Log!Raise(pos)
        BY <2>1, <2>3, <3>1, AcknowledgeRaises
      <4> QED BY <4>1, <4>2 DEF Log!Next
    <3>2. CASE ~OverThreshold(pending[pos])
      BY <2>3, <3>2 DEF Acknowledge
    <3> QED BY <3>1, <3>2
  <2>4. CASE World \/ Control \/ Restart \/ UNCHANGED vars
    BY <2>4 DEF World, Tick, SetBack, Signal, HostWrites, Regress, Exchange, Control, Top, Break,
       After, Wake, Skip, Deactivate, Restart, vars, history
  <2>5. CASE \E d \in Devices : ReadFails(d) \/ Read(d)
    BY <2>5 DEF ReadFails, Read, history
  <2> QED BY <2>2, <2>3, <2>4, <2>5 DEF Next, World, Control
<1> QED BY <1>1, <1>2, Invariance, PTL DEF Spec, KeepsLog, Log!Spec
=============================================================================
