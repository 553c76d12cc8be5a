----------------------------- MODULE SampleLog -----------------------------
(***************************************************************************)
(* What the SMART monitor promises of the rows it leaves behind, with no   *)
(* passes, no samples in hand, no errors and no processes: every device    *)
(* has a log that is only ever appended to.  A new row is later than all   *)
(* others and counts what was written since the row before it, and only    *)
(* the latest row raises an alert.                                         *)
(***************************************************************************)
EXTENDS Integers

CONSTANTS
  Devices, Times, Counts,   \* the devices, timestamps and counter values
  InWindow(_),              \* the spans that count as one window
  Threshold, MaxAmount,     \* an alert is above the one, an amount within the other
  None                      \* no amount

VARIABLES
  rows,    \* the log of each device
  alerts   \* the alerts that were raised

logVars == <<rows, alerts>>

Latest(d) == {r \in rows[d] : \A o \in rows[d] : o.ts <= r.ts}

Earlier(d, r) == {o \in rows[d] : o.ts < r.ts}

(* What a row with counter u counts after row o; nothing after a counter   *)
(* that was reset, and nothing that does not fit.                          *)
Growth(o, u) == IF u < o.units \/ u - o.units > MaxAmount THEN None ELSE u - o.units

Init ==
  /\ rows = [d \in Devices |-> {}]
  /\ alerts = {}

Append(d, ts, u) ==
  /\ \A r \in rows[d] : r.ts < ts
  /\ \E a \in {Growth(o, u) : o \in Latest(d)} \union (IF rows[d] = {} THEN {None} ELSE {}) :
       rows' = [rows EXCEPT ![d] = @ \union {[ts |-> ts, units |-> u, amount |-> a]}]
  /\ UNCHANGED alerts

Raise(d) ==
  /\ \E r \in Latest(d) : \E o \in Earlier(d, r) :
       /\ \A q \in Earlier(d, r) : q.ts <= o.ts
       /\ r.amount # None /\ r.amount > Threshold /\ InWindow(r.ts - o.ts)
       /\ alerts' = alerts \union {[dev |-> d, prev |-> o.ts, cur |-> r.ts, amount |-> r.amount]}
  /\ UNCHANGED rows

Next ==
  \E d \in Devices : Raise(d) \/ \E ts \in Times, u \in Counts : Append(d, ts, u)

Spec == Init /\ [][Next]_logVars
=============================================================================
