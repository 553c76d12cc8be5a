---------------------------- MODULE DaemonProofs ----------------------------
(***************************************************************************)
(* Theorems about Daemon, for every number of minutes and alerts, every    *)
(* window and every set of faults: what the exit status, the wait for the  *)
(* boundary and the mail gate promise, however main thread, collector,     *)
(* monitor, alert tasks and signals interleave.                            *)
(***************************************************************************)
EXTENDS Daemon, FiniteSetTheorems, SequenceTheorems, TLAPS

-----------------------------------------------------------------------------
(* The inductive invariant                                                 *)

Starting == {"verify", "start", "prepare", "spawnCollector"}
Watching == {"spawnMonitor", "receive", "checkTasks", "receiveAgain"}
Stopping == {"join", "shutdown"}

(* A task's exit message waits in the channel.                             *)
Waits(t) == \E i \in DOMAIN channel : channel[i].task = t

(* An exit message is sent once, by a task that has ended, and tells how.  *)
ChannelInv ==
  /\ \A i \in DOMAIN channel :
       /\ task[channel[i].task] = "finished"
       /\ outcome[channel[i].task] = IF channel[i].ok THEN "ok" ELSE "err"
  /\ \A i, j \in DOMAIN channel : channel[i].task = channel[j].task => i = j

(* A task that has returned or ended has an outcome, and an outcome has a  *)
(* cause: success a stop, and failure is what `failed` notes.              *)
OutcomeInv ==
  \A t \in Tasks :
    /\ task[t] \in {"off", "running"} <=> outcome[t] = None
    /\ task[t] = "returned" => outcome[t] \in {"ok", "err"}
    /\ outcome[t] = "ok" => stop
    /\ t \in failed <=> outcome[t] \in {"err", "panic"}

(* Until the supervisor has received one, the message of every task that   *)
(* ended without a panic waits; afterwards a failure that no longer waits  *)
(* is remembered.                                                          *)
MessageInv ==
  \A t \in Tasks :
    task[t] = "finished" =>
      /\ sup \in Watching => outcome[t] = "panic" \/ Waits(t)
      /\ sup \in Stopping /\ outcome[t] = "err" => first \/ Waits(t)

(* Where the main thread stands, and what it has concluded.                *)
MainInv ==
  /\ sup \in Starting => /\ failed = {} /\ report = None /\ cpc = "scan"
                         /\ \A t \in Tasks : task[t] = "off"
  /\ sup = "spawnMonitor" => task["monitor"] = "off"
  /\ sup = "undoMonitor" => "startup" \in failed
  /\ "startup" \in failed => sup \in {"undoMonitor", "returned"}
  /\ "shutdown" \in failed => sup = "returned"
  /\ sup = "receiveAgain" => SomeFinished
  /\ sup \in Stopping => stop
  /\ sup = "shutdown" \/ result = "ok" => \A t \in Tasks : task[t] = "finished"
  /\ first => failed # {}
  /\ database \in {"dead", "panicked"} => failed \intersect Tasks # {}
  /\ sup # "returned" <=> result = None
  /\ exited => sup = "returned"
  /\ TruthfulExit

(* The collector's open bucket lies behind everything reported, and the    *)
(* bucket in hand between the two.                                         *)
CollectorInv ==
  /\ report # None => report.end <= open
  /\ cpc \in {"submit", "publish"} =>
       hand.minute < open /\ (report # None => report.end <= hand.minute)

(* An alert ranks only once its minute is reported, and what its ranking   *)
(* missed lies before the report.                                          *)
RankInv ==
  \A a \in Alerts :
    /\ alert[a].st = "rank" => Processed(a)
    /\ \A m \in alert[a].missing : report # None /\ m < report.end /\ m \notin complete

(* Behind the gate stands one alert at most, and nobody gets there after a *)
(* stop.                                                                   *)
GateInv ==
  /\ \A a \in Alerts : alert[a].st = "cleared" => gate = a
  /\ ~stop => lateMails = 0
  /\ gate # None => lateMails = 0
  /\ lateMails <= 1

IInv ==
  /\ TypeOK
  /\ ChannelInv /\ OutcomeInv /\ MessageInv /\ MainInv
  /\ CollectorInv /\ RankInv /\ GateInv

-----------------------------------------------------------------------------
(* The channel                                                             *)

Message == [task : Tasks, ok : BOOLEAN]

LEMMA MessageType ==
  ASSUME TypeOK, NEW i \in DOMAIN channel
  PROVE  channel[i] \in Message /\ channel[i].task \in Tasks /\ channel[i].ok \in BOOLEAN
<1>1. channel \in Seq(Message)
  BY DEF TypeOK, Message
<1>2. DOMAIN channel = 1 .. Len(channel)
  BY <1>1
<1>3. channel[i] \in Message
  BY <1>1, <1>2
<1> QED BY <1>3 DEF Message

-----------------------------------------------------------------------------
(* The environment's steps                                                 *)

LEMMA TickStep ==
  ASSUME IInv, Tick
  PROVE  IInv'
<1> USE DEF IInv, Tick, supVars, taskVars, collectorVars, monitorVars, alertVars
<1>1. TypeOK'
  BY DaemonAssumption DEF TypeOK, Minutes
<1>2. ChannelInv' /\ OutcomeInv' /\ MessageInv' /\ MainInv'
  BY DEF ChannelInv, OutcomeInv, MessageInv, Waits, MainInv, SomeFinished, TruthfulExit
<1>3. CollectorInv' /\ RankInv' /\ GateInv'
  BY DEF CollectorInv, RankInv, Processed, GateInv
<1> QED BY <1>1, <1>2, <1>3

LEMMA SignalStep ==
  ASSUME IInv, Signal
  PROVE  IInv'
<1> USE DEF IInv, Signal, supVars, taskVars, collectorVars, monitorVars, alertVars
<1>1. TypeOK'
  BY DEF TypeOK
<1>2. ChannelInv' /\ OutcomeInv' /\ MessageInv' /\ MainInv'
  BY DEF ChannelInv, OutcomeInv, MessageInv, Waits, MainInv, SomeFinished, TruthfulExit
<1>3. CollectorInv' /\ RankInv' /\ GateInv'
  BY DEF CollectorInv, RankInv, Processed, GateInv
<1> QED BY <1>1, <1>2, <1>3

-----------------------------------------------------------------------------
(* The long-running threads                                                *)

(* What a task's end leaves in order, whatever it does in the same step    *)
(* with the database.                                                      *)
LEMMA ReturnStep ==
  ASSUME IInv, NEW t \in Tasks, task[t] = "running", NEW how \in {"ok", "err", "panic"},
         task' = [task EXCEPT ![t] = IF how = "panic" THEN "finished" ELSE "returned"],
         outcome' = [outcome EXCEPT ![t] = how],
         how = "ok" => stop,
         failed' = IF how = "ok" THEN failed ELSE failed \union {t},
         database' = database \/ (how # "ok" /\ database' \in {"dead", "panicked"}),
         UNCHANGED <<stop, supVars, channel, report>>
  PROVE  ChannelInv' /\ OutcomeInv' /\ MessageInv' /\ MainInv'
<1> USE DEF IInv, supVars
<1>1. /\ task'[t] = IF how = "panic" THEN "finished" ELSE "returned"
      /\ outcome'[t] = how
      /\ \A u \in Tasks \ {t} : task'[u] = task[u] /\ outcome'[u] = outcome[u]
  BY DEF TypeOK
<1>2. ASSUME NEW i \in DOMAIN channel PROVE channel[i].task \in Tasks \ {t}
  <2>1. channel[i].task \in Tasks
    BY MessageType
  <2>2. task[channel[i].task] = "finished"
    BY DEF ChannelInv
  <2> QED BY <2>1, <2>2
<1>3. ChannelInv'
  BY <1>1, <1>2 DEF ChannelInv
<1>4. OutcomeInv'
  BY <1>1, DaemonAssumption DEF OutcomeInv
<1>5. MessageInv'
  BY <1>1 DEF MessageInv, Waits
<1>6. MainInv'
  <2>1. sup \notin Starting /\ sup # "shutdown" /\ result # "ok"
    BY DEF MainInv
  <2>2. t # "startup" /\ t # "shutdown" /\ (sup = "spawnMonitor" => t # "monitor")
    BY DEF Tasks, MainInv
  <2>3. SomeFinished => SomeFinished'
    BY <1>1 DEF SomeFinished
  <2>4. failed \intersect Tasks # {} => failed' \intersect Tasks # {}
    OBVIOUS
  <2>5. how # "ok" => failed' \intersect Tasks # {}
    OBVIOUS
  <2> QED BY <1>1, <2>1, <2>2, <2>3, <2>4, <2>5 DEF MainInv, TruthfulExit, Tasks
<1> QED BY <1>3, <1>4, <1>5, <1>6

LEMMA PanicStep ==
  ASSUME IInv, NEW t \in Tasks, Panic(t)
  PROVE  IInv'
<1>1. TypeOK'
  BY DEF IInv, Panic, TypeOK, supVars, collectorVars, monitorVars, alertVars
<1>2. ChannelInv' /\ OutcomeInv' /\ MessageInv' /\ MainInv'
  BY ReturnStep DEF Panic, collectorVars
<1>3. CollectorInv' /\ RankInv' /\ GateInv'
  BY DEF IInv, Panic, collectorVars, alertVars, CollectorInv, RankInv, Processed, GateInv
<1> QED BY <1>1, <1>2, <1>3 DEF IInv

LEMMA TwoTasks == Cardinality(Tasks) = 2
<1>1. Cardinality({"collector"}) = 1 /\ IsFiniteSet({"collector"})
  BY FS_Singleton
<1>2. Tasks = {"collector"} \union {"monitor"} /\ "monitor" \notin {"collector"}
  BY DEF Tasks
<1> QED BY <1>1, <1>2, FS_AddElement

LEMMA SendExitStep ==
  ASSUME IInv, NEW t \in Tasks, SendExit(t)
  PROVE  IInv'
<1> DEFINE n == Len(channel)
           msg == [task |-> t, ok |-> outcome[t] = "ok"]
<1>1. channel \in Seq(Message) /\ n \in Nat /\ DOMAIN channel = 1 .. n
  BY DEF IInv, TypeOK, Message
<1>2. msg \in Message
  BY DEF Message
<1>3. /\ channel' \in Seq(Message) /\ Len(channel') = n + 1
      /\ \A i \in 1 .. n : channel'[i] = channel[i]
      /\ channel'[n + 1] = msg
  BY <1>1, <1>2, AppendProperties DEF SendExit
<1>4. DOMAIN channel' = 1 .. n + 1
  BY <1>1, <1>3
<1>5. ASSUME NEW i \in 1 .. n PROVE channel[i].task \in Tasks \ {t}
  BY <1>1, MessageType DEF IInv, ChannelInv, SendExit
<1>6. n <= 1
  <2> SUFFICES ASSUME n > 1 PROVE FALSE
    BY <1>1
  <2>1. 1 \in 1 .. n /\ 2 \in 1 .. n
    BY <1>1
  <2>2. channel[1].task = channel[2].task
    BY <1>5, <2>1 DEF Tasks
  <2> QED BY <1>1, <2>1, <2>2 DEF IInv, ChannelInv
<1>7. /\ task'[t] = "finished" /\ task[t] = "returned" /\ outcome' = outcome
      /\ \A u \in Tasks \ {t} : task'[u] = task[u]
  BY DEF IInv, TypeOK, SendExit
<1>8. TypeOK'
  <2>1. Len(channel') <= Cardinality(Tasks)
    BY <1>1, <1>3, <1>6, TwoTasks
  <2> QED BY <1>3, <2>1
       DEF IInv, SendExit, TypeOK, Message, supVars, collectorVars, monitorVars, alertVars
<1>9. ChannelInv'
  <2>1. msg.task = t /\ msg.ok = (outcome[t] = "ok")
    OBVIOUS
  <2>2. outcome[t] \in {"ok", "err"}
    BY <1>7 DEF IInv, OutcomeInv
  <2>3. ASSUME NEW i \in 1 .. n + 1
        PROVE  /\ task'[channel'[i].task] = "finished"
               /\ outcome'[channel'[i].task] = IF channel'[i].ok THEN "ok" ELSE "err"
    <3>1. CASE i = n + 1
      BY <1>3, <1>7, <2>1, <2>2, <3>1
    <3>2. CASE i \in 1 .. n
      BY <1>1, <1>3, <1>5, <1>7, <3>2 DEF IInv, ChannelInv
    <3> QED BY <1>1, <3>1, <3>2
  <2>4. ASSUME NEW i \in 1 .. n + 1, NEW j \in 1 .. n + 1, channel'[i].task = channel'[j].task
        PROVE  i = j
    <3>1. \A k \in 1 .. n + 1 : k = n + 1 \/ k \in 1 .. n
      BY <1>1
    <3>2. \A k \in 1 .. n : channel'[k].task # t
      BY <1>3, <1>5
    <3>3. CASE i \in 1 .. n /\ j \in 1 .. n
      BY <1>1, <1>3, <2>4, <3>3 DEF IInv, ChannelInv
    <3> QED BY <1>3, <2>1, <2>4, <3>1, <3>2, <3>3
  <2> QED BY <1>4, <2>3, <2>4 DEF ChannelInv
<1>10. OutcomeInv'
  BY <1>7, DaemonAssumption DEF IInv, OutcomeInv, SendExit
<1>11. MessageInv'
  <2>1. Waits(t)'
    BY <1>1, <1>3, <1>4 DEF Waits
  <2>2. ASSUME NEW u \in Tasks, Waits(u) PROVE Waits(u)'
    BY <1>1, <1>3, <1>4, <2>2 DEF Waits
  <2> QED BY <1>7, <2>1, <2>2 DEF IInv, MessageInv, SendExit, supVars
<1>12. MainInv'
  BY <1>7 DEF IInv, MainInv, SomeFinished, TruthfulExit, SendExit, supVars, collectorVars, Tasks
<1>13. CollectorInv' /\ RankInv' /\ GateInv'
  BY DEF IInv, SendExit, collectorVars, alertVars, CollectorInv, RankInv, Processed, GateInv
<1> QED BY <1>8, <1>9, <1>10, <1>11, <1>12, <1>13 DEF IInv

-----------------------------------------------------------------------------
(* The collector                                                           *)

LEMMA CollectorLeavesStep ==
  ASSUME IInv, CollectorLeaves
  PROVE  IInv'
<1>1. TypeOK'
  BY DEF IInv, TypeOK, CollectorLeaves, Return, Tasks, supVars, collectorVars, monitorVars,
         alertVars
<1>2. ChannelInv' /\ OutcomeInv' /\ MessageInv' /\ MainInv'
  BY ReturnStep DEF CollectorLeaves, Running, Return, collectorVars, Tasks
<1>3. CollectorInv' /\ RankInv' /\ GateInv'
  BY DEF IInv, CollectorLeaves, collectorVars, alertVars, CollectorInv, RankInv, Processed,
         GateInv
<1> QED BY <1>1, <1>2, <1>3 DEF IInv

(* A step that touches none of the threads, of the main thread included.   *)
LEMMA ThreadsUntouched ==
  ASSUME IInv, UNCHANGED <<stop, supVars, taskVars, database, failed>>,
         sup \in Starting => report' = report /\ cpc' = cpc
  PROVE  ChannelInv' /\ OutcomeInv' /\ MessageInv' /\ MainInv'
BY DEF IInv, supVars, taskVars, ChannelInv, OutcomeInv, MessageInv, Waits, MainInv,
       SomeFinished, TruthfulExit

LEMMA CollectorClosesStep ==
  ASSUME IInv, CollectorCloses
  PROVE  IInv'
<1> USE DEF IInv, CollectorCloses
<1>1. PICK whole \in BOOLEAN : hand' = [minute |-> open, complete |-> whole]
  OBVIOUS
<1>2. TypeOK'
  BY <1>1 DEF TypeOK, supVars, taskVars, monitorVars, alertVars
<1>3. ChannelInv' /\ OutcomeInv' /\ MessageInv' /\ MainInv'
  BY ThreadsUntouched DEF MainInv, Running, Tasks
<1>4. CollectorInv'
  BY <1>1 DEF CollectorInv, TypeOK, Minutes
<1>5. RankInv' /\ GateInv'
  BY DEF alertVars, RankInv, Processed, GateInv
<1> QED BY <1>2, <1>3, <1>4, <1>5

LEMMA CollectorSubmitsStep ==
  ASSUME IInv, CollectorSubmits
  PROVE  IInv'
<1> USE DEF IInv, CollectorSubmits
<1>1. TypeOK'
  <2>1. /\ task' \in [Tasks -> {"off", "running", "returned", "finished"}]
        /\ outcome' \in [Tasks -> {None, "ok", "err", "panic"}]
        /\ failed' \subseteq Tasks \union {"startup", "shutdown"}
    <3>1. CASE taskVars' = taskVars /\ UNCHANGED failed
      BY <3>1 DEF TypeOK, taskVars
    <3>2. CASE Return("collector", "ok") /\ UNCHANGED failed
      BY <3>2 DEF TypeOK, Return
    <3>3. CASE Return("collector", "err") /\ failed' = failed \union {"collector"}
      BY <3>3 DEF TypeOK, Return, Tasks
    <3> QED BY <3>1, <3>2, <3>3 DEF SubmitFails, Fails
  <2>2. /\ channel' = channel /\ cpc' \in {"scan", "submit", "publish"}
        /\ database' \in {"off", "up", "dead", "panicked", "ended"}
    BY DEF TypeOK, SubmitFails, Fails, Return, taskVars
  <2>3. complete' \subseteq Minutes
    <3>1. complete' \subseteq complete \union {hand.minute}
      OBVIOUS
    <3> QED BY <3>1 DEF TypeOK
  <2> QED BY <2>1, <2>2, <2>3 DEF TypeOK, supVars, monitorVars, alertVars
<1>2. ChannelInv' /\ OutcomeInv' /\ MessageInv' /\ MainInv'
  <2>1. CASE taskVars' = taskVars /\ UNCHANGED <<database, failed>>
    BY <2>1, ThreadsUntouched DEF MainInv, Running, Tasks
  <2>2. CASE stop /\ Return("collector", "ok") /\ UNCHANGED <<database, failed>>
    BY <2>2, ReturnStep DEF Running, Return, Tasks
  <2>3. CASE SubmitFails("collector")
    BY <2>3, ReturnStep DEF SubmitFails, Fails, Running, Return, Tasks
  <2> QED BY <2>1, <2>2, <2>3
<1>3. CollectorInv'
  BY DEF CollectorInv
<1>4. RankInv'
  <2>1. complete' \subseteq complete \union {hand.minute}
    OBVIOUS
  <2>2. ASSUME NEW a \in Alerts, NEW m \in alert[a].missing
        PROVE  report # None /\ m < report.end /\ m \notin complete'
    <3>1. report # None /\ m < report.end /\ m \notin complete
      BY DEF RankInv
    <3>2. report.end <= hand.minute
      BY <3>1 DEF CollectorInv
    <3>3. m \in Int /\ report.end \in Int /\ hand.minute \in Int
      BY <3>1, DaemonAssumption DEF TypeOK, Minutes
    <3> QED BY <2>1, <3>1, <3>2, <3>3
  <2> QED BY <2>2 DEF RankInv, Processed, alertVars
<1>5. GateInv'
  BY DEF alertVars, GateInv
<1> QED BY <1>1, <1>2, <1>3, <1>4, <1>5

LEMMA CollectorPublishesStep ==
  ASSUME IInv, CollectorPublishes
  PROVE  IInv'
<1> USE DEF IInv, CollectorPublishes
<1>1. /\ report' = [end |-> hand.minute + 1, complete |-> hand.complete]
      /\ report'.end = hand.minute + 1 /\ report' # None
      /\ hand.minute \in Minutes /\ open \in Minutes /\ hand.minute < open
      /\ hand.minute + 1 \in 1 .. MaxMinute
  BY DaemonAssumption DEF TypeOK, Minutes, CollectorInv
<1>2. TypeOK'
  BY <1>1, DaemonAssumption
     DEF TypeOK, NoBucket, Minutes, supVars, taskVars, monitorVars, alertVars
<1>3. ChannelInv' /\ OutcomeInv' /\ MessageInv' /\ MainInv'
  BY ThreadsUntouched DEF MainInv, Running, Tasks
<1>4. CollectorInv'
  BY <1>1 DEF CollectorInv, Minutes
<1>5. report # None => report.end \in Int /\ report.end < report'.end
  BY <1>1 DEF CollectorInv, TypeOK, Minutes
<1>6. RankInv'
  <2>1. ASSUME NEW a \in Alerts
        PROVE  /\ alert[a].end \in Int
               /\ \A m \in alert[a].missing : m \in Int
    BY DaemonAssumption DEF TypeOK, Minutes
  <2> QED BY <1>1, <1>5, <2>1 DEF RankInv, Processed, alertVars, Minutes
<1>7. GateInv'
  BY DEF alertVars, GateInv
<1> QED BY <1>2, <1>3, <1>4, <1>6, <1>7

-----------------------------------------------------------------------------
(* The monitor                                                             *)

LEMMA MonitorLeavesStep ==
  ASSUME IInv, MonitorLeaves
  PROVE  IInv'
<1>1. TypeOK'
  BY DEF IInv, TypeOK, MonitorLeaves, Return, Tasks, supVars, collectorVars, monitorVars,
         alertVars
<1>2. ChannelInv' /\ OutcomeInv' /\ MessageInv' /\ MainInv'
  BY ReturnStep DEF MonitorLeaves, Running, Return, collectorVars, Tasks
<1>3. CollectorInv' /\ RankInv' /\ GateInv'
  BY DEF IInv, MonitorLeaves, collectorVars, alertVars, CollectorInv, RankInv, Processed,
         GateInv
<1> QED BY <1>1, <1>2, <1>3 DEF IInv

LEMMA MonitorSamplesStep ==
  ASSUME IInv, MonitorSamples
  PROVE  IInv'
<1> USE DEF IInv, MonitorSamples
<1>1. TypeOK'
  BY DEF TypeOK, supVars, taskVars, collectorVars, alertVars
<1>2. ChannelInv' /\ OutcomeInv' /\ MessageInv' /\ MainInv'
  BY ThreadsUntouched DEF collectorVars
<1>3. CollectorInv' /\ RankInv' /\ GateInv'
  BY DEF collectorVars, alertVars, CollectorInv, RankInv, Processed, GateInv
<1> QED BY <1>1, <1>2, <1>3

(* A step of one alert, which leaves the others as they are.               *)
AlertType == [st : AlertStates, end : Minutes,
              missing : SUBSET (-Lookback .. MaxMinute), tried : BOOLEAN]

LEMMA MonitorSubmitsStep ==
  ASSUME IInv, MonitorSubmits
  PROVE  IInv'
<1> USE DEF IInv, MonitorSubmits
<1> DEFINE raised == [NoAlert EXCEPT !.st = "waiting", !.end = sampled]
           chosen == CHOOSE n \in Alerts : /\ alert[n].st = "none"
                                           /\ \A m \in 1 .. n - 1 : alert[m].st # "none"
<1>1. raised \in AlertType /\ raised.st = "waiting" /\ raised.missing = {}
  BY DEF TypeOK, NoAlert, AlertType, AlertStates, Minutes
<1>2. alert' = alert \/ alert' = [alert EXCEPT ![chosen] = raised]
  BY DEF RaisesAlert
<1> HIDE DEF raised, chosen
<1>3. alert \in [Alerts -> AlertType]
  BY DEF TypeOK, AlertType
<1>4. \A a \in Alerts : alert'[a] = alert[a] \/ alert'[a] = raised
  BY <1>2, <1>3
<1>5. TypeOK'
  <2>1. /\ task' \in [Tasks -> {"off", "running", "returned", "finished"}]
        /\ outcome' \in [Tasks -> {None, "ok", "err", "panic"}]
        /\ failed' \subseteq Tasks \union {"startup", "shutdown"}
    <3>1. CASE taskVars' = taskVars /\ UNCHANGED failed
      BY <3>1 DEF TypeOK, taskVars
    <3>2. CASE Return("monitor", "ok") /\ UNCHANGED failed
      BY <3>2 DEF TypeOK, Return
    <3>3. CASE Return("monitor", "err") /\ failed' = failed \union {"monitor"}
      BY <3>3 DEF TypeOK, Return, Tasks
    <3> QED BY <3>1, <3>2, <3>3 DEF SubmitFails, Fails
  <2>2. /\ channel' = channel /\ sampled' \in Minutes
        /\ database' \in {"off", "up", "dead", "panicked", "ended"}
    BY DaemonAssumption DEF TypeOK, SubmitFails, Fails, Return, taskVars, Minutes
  <2>3. alert' \in [Alerts -> AlertType]
    BY <1>1, <1>2, <1>3
  <2> QED BY <2>1, <2>2, <2>3 DEF TypeOK, AlertType, supVars, collectorVars
<1>6. ChannelInv' /\ OutcomeInv' /\ MessageInv' /\ MainInv'
  <2>1. CASE taskVars' = taskVars /\ UNCHANGED <<database, failed>>
    BY <2>1, ThreadsUntouched DEF collectorVars
  <2>2. CASE stop /\ Return("monitor", "ok") /\ UNCHANGED <<database, failed>>
    BY <2>2, ReturnStep DEF Running, Return, Tasks, collectorVars
  <2>3. CASE SubmitFails("monitor")
    BY <2>3, ReturnStep DEF SubmitFails, Fails, Running, Return, Tasks, collectorVars
  <2> QED BY <2>1, <2>2, <2>3
<1>7. CollectorInv'
  BY DEF CollectorInv, collectorVars
<1>8. RankInv'
  BY <1>1, <1>4 DEF RankInv, Processed, collectorVars
<1>9. GateInv'
  BY <1>1, <1>4 DEF GateInv
<1> QED BY <1>5, <1>6, <1>7, <1>8, <1>9

-----------------------------------------------------------------------------
(* The alert tasks                                                         *)

(* A step of one alert leaves the threads alone; what it has to see to is  *)
(* its own record.                                                         *)
LEMMA AlertStep ==
  ASSUME IInv, AlertFrame, NEW a \in Alerts, NEW r \in AlertType,
         alert' = [alert EXCEPT ![a] = r],
         r.st = "rank" => Processed(a) /\ r.end = alert[a].end,
         \A m \in r.missing : report # None /\ m < report.end /\ m \notin complete
  PROVE  /\ ChannelInv' /\ OutcomeInv' /\ MessageInv' /\ MainInv'
         /\ CollectorInv' /\ RankInv'
         /\ gate' \in {None} \union Alerts /\ lateMails' \in Nat => TypeOK'
         /\ alert'[a] = r /\ \A b \in Alerts \ {a} : alert'[b] = alert[b]
<1> USE DEF IInv, AlertFrame
<1>1. alert \in [Alerts -> AlertType]
  BY DEF TypeOK, AlertType
<1>2. alert' \in [Alerts -> AlertType]
  BY <1>1
<1>3. alert'[a] = r /\ \A b \in Alerts \ {a} : alert'[b] = alert[b]
  BY <1>1
<1>4. ChannelInv' /\ OutcomeInv' /\ MessageInv' /\ MainInv'
  BY ThreadsUntouched DEF collectorVars
<1>5. CollectorInv'
  BY DEF CollectorInv, collectorVars
<1>6. RankInv'
  BY <1>3 DEF RankInv, Processed, collectorVars
<1>7. gate' \in {None} \union Alerts /\ lateMails' \in Nat => TypeOK'
  BY <1>2 DEF TypeOK, AlertType, supVars, taskVars, collectorVars, monitorVars
<1> QED BY <1>3, <1>4, <1>5, <1>6, <1>7

LEMMA GoesStep ==
  ASSUME IInv, AlertFrame, NEW a \in Alerts, NEW st \in AlertStates, Goes(a, st),
         st = "rank" => Processed(a)
  PROVE  /\ ChannelInv' /\ OutcomeInv' /\ MessageInv' /\ MainInv'
         /\ CollectorInv' /\ RankInv'
         /\ gate' \in {None} \union Alerts /\ lateMails' \in Nat => TypeOK'
         /\ alert'[a].st = st /\ \A b \in Alerts \ {a} : alert'[b] = alert[b]
<1> DEFINE r == [alert[a] EXCEPT !.st = st]
<1>1. r \in AlertType /\ r.st = st /\ r.end = alert[a].end /\ r.missing = alert[a].missing
  BY DEF IInv, TypeOK, AlertType
<1>2. alert' = [alert EXCEPT ![a] = r]
  BY DEF Goes
<1>3. \A m \in r.missing : report # None /\ m < report.end /\ m \notin complete
  BY <1>1 DEF IInv, RankInv
<1> HIDE DEF r
<1> QED BY <1>1, <1>2, <1>3, AlertStep

LEMMA AlertWaitsStep ==
  ASSUME IInv, NEW a \in Alerts, AlertWaits(a)
  PROVE  IInv'
<1> USE DEF AlertWaits
<1>1. PICK st \in {"rank", "done"} : Goes(a, st) /\ (st = "rank" => Processed(a))
  OBVIOUS
<1>2. st \in AlertStates /\ st # "cleared"
  BY DEF AlertStates
<1>3. gate' = gate /\ lateMails' = lateMails /\ stop' = stop
  BY DEF AlertFrame
<1>4. gate \in {None} \union Alerts /\ lateMails \in Nat
  BY DEF IInv, TypeOK
<1>5. GateInv'
  BY <1>1, <1>2, <1>3, GoesStep DEF IInv, GateInv
<1> QED BY <1>1, <1>2, <1>3, <1>4, <1>5, GoesStep DEF IInv

LEMMA AlertRanksStep ==
  ASSUME IInv, NEW a \in Alerts, AlertRanks(a)
  PROVE  IInv'
<1>0. /\ Live(a, "rank") /\ gate' = gate /\ lateMails' = lateMails /\ AlertFrame
      /\ alert[a].end \in Minutes /\ complete \subseteq Minutes
      /\ report = None \/ report.end \in Int
  <2>1. Live(a, "rank") /\ gate' = gate /\ lateMails' = lateMails /\ AlertFrame
    BY DEF AlertRanks
  <2>2. alert[a].end \in Minutes /\ complete \subseteq Minutes
    BY DEF IInv, TypeOK
  <2>3. report = None \/ report.end \in Int
    BY DaemonAssumption DEF IInv, TypeOK
  <2> QED BY <2>1, <2>2, <2>3
<1>1. Processed(a) /\ report # None /\ report.end \in Int /\ report.end >= alert[a].end
  <2>1. alert[a].st = "rank"
    BY <1>0 DEF Live
  <2>2. Processed(a)
    BY <2>1 DEF IInv, RankInv
  <2> QED BY <1>0, <2>2 DEF Processed
<1>2. \A m \in Window(alert[a].end) \ complete :
         m \in -Lookback .. MaxMinute /\ m < report.end /\ m \notin complete
  <2> SUFFICES ASSUME NEW m \in Window(alert[a].end) \ complete
               PROVE  m \in -Lookback .. MaxMinute /\ m < report.end
    OBVIOUS
  <2>1. m \in (alert[a].end - Lookback) .. (alert[a].end - 1)
    BY DEF Window
  <2>2. alert[a].end \in 0 .. MaxMinute
    BY <1>0 DEF Minutes
  <2> QED BY <1>1, <2>1, <2>2, DaemonAssumption
<1>3. PICK r \in AlertType :
        /\ alert' = [alert EXCEPT ![a] = r]
        /\ r.st \in {"done", "atGate", "unsendable"}
        /\ \A m \in r.missing : report # None /\ m < report.end /\ m \notin complete
  <2>1. CASE "message" \in Faults /\ alert' = [alert EXCEPT ![a] = Unsendable]
    <3>1. Unsendable \in AlertType /\ Unsendable.st = "unsendable" /\ Unsendable.missing = {}
      <4>1. 0 \in Minutes
        BY DaemonAssumption DEF Minutes
      <4> QED BY <4>1 DEF Unsendable, NoAlert, AlertType, AlertStates
    <3> QED BY <2>1, <3>1
  <2>2. ASSUME NEW missing \in {IF alert[a].end < Lookback THEN {}
                                ELSE Window(alert[a].end) \ complete}
                              \union (IF "query" \in Faults THEN {{}} ELSE {}),
               alert' = [alert EXCEPT ![a] = [NoAlert EXCEPT
                           !.st = IF stop THEN "done" ELSE "atGate", !.missing = missing]]
        PROVE  \E r \in AlertType :
                 /\ alert' = [alert EXCEPT ![a] = r]
                 /\ r.st \in {"done", "atGate", "unsendable"}
                 /\ \A m \in r.missing : report # None /\ m < report.end /\ m \notin complete
    <3> DEFINE r == [NoAlert EXCEPT !.st = IF stop THEN "done" ELSE "atGate",
                                    !.missing = missing]
    <3>1. missing \subseteq Window(alert[a].end) \ complete
      OBVIOUS
    <3>2. missing \in SUBSET (-Lookback .. MaxMinute)
      BY <1>2, <3>1
    <3>3. r \in AlertType /\ r.st \in {"done", "atGate"} /\ r.missing = missing
      <4>1. 0 \in Minutes
        BY DaemonAssumption DEF Minutes
      <4> QED BY <3>2, <4>1 DEF NoAlert, AlertType, AlertStates
    <3> QED BY <1>1, <1>2, <2>2, <3>1, <3>3
  <2> QED BY <2>1, <2>2 DEF AlertRanks
<1>4. gate' = gate /\ lateMails' = lateMails /\ stop' = stop
  BY <1>0 DEF AlertFrame
<1>5. gate \in {None} \union Alerts /\ lateMails \in Nat
  BY DEF IInv, TypeOK
<1>6. GateInv'
  BY <1>0, <1>3, <1>4, AlertStep DEF IInv, GateInv
<1> QED BY <1>0, <1>3, <1>4, <1>5, <1>6, AlertStep DEF IInv

LEMMA AlertLocksStep ==
  ASSUME IInv, NEW a \in Alerts, AlertLocks(a)
  PROVE  IInv'
<1>1. PICK st \in {"done", "cleared"} :
        /\ Goes(a, st)
        /\ \/ st = "done" /\ gate' = gate
           \/ st = "cleared" /\ gate' = a /\ ~stop
  <2>1. CASE stop
    BY <2>1 DEF AlertLocks
  <2>2. CASE ~stop
    BY <2>2 DEF AlertLocks
  <2> QED BY <2>1, <2>2
<1>2. st \in AlertStates /\ st # "rank"
  BY DEF AlertStates
<1>3. AlertFrame /\ lateMails' = lateMails /\ stop' = stop /\ gate = None
  BY DEF AlertFrame, AlertLocks
<1>4. gate' \in {None} \union Alerts /\ lateMails \in Nat
  BY <1>1, <1>3 DEF IInv, TypeOK
<1>5. None \notin Alerts
  BY DaemonAssumption DEF Alerts
<1>6. GateInv'
  <2>1. \A b \in Alerts \ {a} : alert[b].st # "cleared" /\ alert'[b] = alert[b]
    BY <1>1, <1>2, <1>3, <1>5, GoesStep DEF IInv, GateInv
  <2>2. alert'[a].st = st
    BY <1>1, <1>2, <1>3, GoesStep
  <2> QED BY <1>1, <1>3, <2>1, <2>2 DEF IInv, GateInv
<1> QED BY <1>1, <1>2, <1>3, <1>4, <1>6, GoesStep DEF IInv

LEMMA AlertSendsStep ==
  ASSUME IInv, NEW a \in Alerts, AlertSends(a)
  PROVE  IInv'
<1> DEFINE r == [alert[a] EXCEPT !.st = "done", !.tried = TRUE]
<1>0. alert[a] \in AlertType
  BY DEF IInv, TypeOK, AlertType
<1>1. r \in AlertType /\ r.st = "done" /\ r.missing = alert[a].missing
  BY <1>0 DEF AlertType, AlertStates
<1>2. alert' = [alert EXCEPT ![a] = r] /\ AlertFrame /\ gate' = None
  BY DEF IInv, TypeOK, AlertSends
<1>3. \A m \in r.missing : report # None /\ m < report.end /\ m \notin complete
  BY <1>1 DEF IInv, RankInv
<1>4. gate = a /\ gate # None /\ stop' = stop
  BY DaemonAssumption DEF IInv, GateInv, Live, AlertFrame, Alerts, AlertSends
<1>5. lateMails = 0
  BY <1>4 DEF IInv, GateInv
<1>6. lateMails' \in {0, 1} /\ (~stop => lateMails' = 0)
  BY <1>5 DEF AlertSends
<1> HIDE DEF r
<1>7. alert'[a] = r /\ \A b \in Alerts \ {a} : alert'[b] = alert[b]
  BY <1>1, <1>2, <1>3, AlertStep
<1>8. GateInv'
  BY <1>1, <1>2, <1>4, <1>6, <1>7 DEF IInv, GateInv
<1>9. gate' \in {None} \union Alerts /\ lateMails' \in Nat /\ r.st # "rank"
  BY <1>1, <1>2, <1>6
<1> QED BY <1>1, <1>2, <1>3, <1>8, <1>9, AlertStep DEF IInv

-----------------------------------------------------------------------------
(* The main thread: startup                                                *)

LEMMA PrepareStep ==
  ASSUME IInv, Prepare
  PROVE  IInv'
<1> USE DEF IInv, Prepare, GiveUp, MainFrame
<1>1. TypeOK'
  BY DEF TypeOK, taskVars, collectorVars, monitorVars, alertVars
<1>2. ChannelInv' /\ OutcomeInv'
  BY DEF ChannelInv, OutcomeInv, MainInv, Starting, Tasks, taskVars
<1>3. MessageInv'
  BY DEF MessageInv, MainInv, Starting, taskVars
<1>4. MainInv'
  <2>2. /\ sup \in Starting /\ failed = {} /\ report' = None /\ cpc' = "scan"
        /\ \A t \in Tasks : task'[t] = "off"
    BY DEF MainInv, Starting, taskVars, collectorVars
  <2>3. database \notin {"dead", "panicked"} /\ database' \notin {"dead", "panicked"}
    BY <2>2 DEF MainInv
  <2>4. first' = FALSE /\ result # "ok" /\ result' # "ok" /\ exited' = FALSE
    BY <2>2, DaemonAssumption DEF MainInv, Starting, TypeOK
  <2>5. CASE sup' = "returned" /\ result' = "err" /\ failed' = {"startup"}
    BY <2>2, <2>3, <2>4, <2>5, DaemonAssumption
       DEF MainInv, TruthfulExit, Starting, Stopping
  <2>6. CASE sup' \in {"start", "prepare", "spawnCollector"} /\ UNCHANGED <<result, failed>>
    BY <2>2, <2>3, <2>4, <2>6, DaemonAssumption
       DEF MainInv, TruthfulExit, Starting, Stopping
  <2> QED BY <2>2, <2>5, <2>6
<1>5. CollectorInv' /\ RankInv' /\ GateInv'
  BY DEF collectorVars, alertVars, CollectorInv, RankInv, Processed, GateInv
<1> QED BY <1>1, <1>2, <1>3, <1>4, <1>5

LEMMA SpawnCollectorStep ==
  ASSUME IInv, SpawnCollector
  PROVE  IInv'
<1> USE DEF IInv, SpawnCollector, GiveUp
<1>1. TypeOK'
  <2>1. task' \in [Tasks -> {"off", "running", "returned", "finished"}]
    BY DEF TypeOK
  <2>2. failed' \subseteq Tasks \union {"startup", "shutdown"}
    BY DEF TypeOK
  <2>3. open' \in Minutes
    BY DEF TypeOK
  <2> QED BY <2>1, <2>2, <2>3 DEF TypeOK, monitorVars, alertVars
<1>2. /\ sup \in Starting /\ failed = {} /\ report' = None /\ cpc' = "scan"
      /\ \A t \in Tasks : task[t] = "off"
  BY DEF MainInv, Starting
<1>3. /\ "collector" \in Tasks /\ "monitor" \in Tasks
      /\ \A t \in Tasks : task'[t] \in {"off", "running"}
      /\ task'["monitor"] = "off"
  BY <1>2 DEF Tasks, TypeOK
<1>4. ChannelInv'
  BY <1>2, MessageType DEF ChannelInv
<1>5. OutcomeInv'
  BY <1>2, <1>3 DEF OutcomeInv, Tasks
<1>6. MessageInv'
  BY <1>3 DEF MessageInv
<1>7. MainInv'
  <2>1. database \notin {"dead", "panicked"} /\ database' \notin {"dead", "panicked"}
    BY <1>2 DEF MainInv
  <2>2. first' = FALSE /\ result # "ok" /\ result' # "ok" /\ exited' = FALSE
    BY <1>2, DaemonAssumption DEF MainInv, Starting, TypeOK
  <2>3. CASE sup' = "returned" /\ result' = "err" /\ failed' = {"startup"}
    BY <1>2, <2>1, <2>2, <2>3, DaemonAssumption
       DEF MainInv, TruthfulExit, Starting, Stopping
  <2>4. CASE sup' = "spawnMonitor" /\ UNCHANGED <<result, failed>>
    BY <1>2, <1>3, <2>1, <2>2, <2>4, DaemonAssumption
       DEF MainInv, TruthfulExit, Starting, Stopping
  <2> QED BY <1>2, <2>3, <2>4
<1>8. CollectorInv' /\ RankInv' /\ GateInv'
  BY <1>2 DEF alertVars, CollectorInv, RankInv, Processed, GateInv, MainInv
<1> QED BY <1>1, <1>4, <1>5, <1>6, <1>7, <1>8

LEMMA SpawnMonitorStep ==
  ASSUME IInv, SpawnMonitor
  PROVE  IInv'
<1> USE DEF IInv, SpawnMonitor, MainFrame
<1>1. TypeOK'
  <2>1. task' \in [Tasks -> {"off", "running", "returned", "finished"}]
    BY DEF TypeOK
  <2>2. failed' \subseteq Tasks \union {"startup", "shutdown"} /\ stop' \in BOOLEAN
    BY DEF TypeOK
  <2>3. sup' \in {"receive", "undoMonitor"} /\ result' = result
    OBVIOUS
  <2>4. UNCHANGED <<minute, first, exited, channel, outcome, database, collectorVars,
                    monitorVars, alertVars>>
    OBVIOUS
  <2> HIDE DEF SpawnMonitor
  <2> QED BY <2>1, <2>2, <2>3, <2>4 DEF TypeOK, collectorVars, monitorVars, alertVars
<1>2. /\ sup = "spawnMonitor" /\ task["monitor"] = "off" /\ result = None
      /\ "monitor" \in Tasks
  BY DEF MainInv, Tasks
<1>3. /\ \A t \in Tasks : task'[t] = "finished" <=> task[t] = "finished"
      /\ \A t \in Tasks : task'[t] = "returned" <=> task[t] = "returned"
      /\ \A t \in Tasks : task'[t] \in {"off", "running"} <=> task[t] \in {"off", "running"}
  BY <1>2 DEF TypeOK
<1>4. ChannelInv'
  BY <1>3, MessageType DEF ChannelInv
<1>5. OutcomeInv'
  BY <1>3 DEF OutcomeInv, Tasks
<1>6. MessageInv'
  BY <1>2, <1>3 DEF MessageInv, Waits, Watching, Stopping
<1>7. MainInv'
  BY <1>2, <1>3, DaemonAssumption
     DEF MainInv, SomeFinished, TruthfulExit, Starting, Stopping, Tasks, collectorVars
<1>8. CollectorInv' /\ RankInv' /\ GateInv'
  BY DEF alertVars, collectorVars, CollectorInv, RankInv, Processed, GateInv
<1> QED BY <1>1, <1>4, <1>5, <1>6, <1>7, <1>8

LEMMA UndoMonitorStep ==
  ASSUME IInv, UndoMonitor
  PROVE  IInv'
<1> USE DEF IInv, UndoMonitor, MainFrame
<1>1. TypeOK'
  BY DEF TypeOK, taskVars, collectorVars, monitorVars, alertVars
<1>2. ChannelInv' /\ OutcomeInv' /\ MessageInv'
  BY DEF ChannelInv, OutcomeInv, MessageInv, Watching, Stopping, taskVars
<1>3. MainInv'
  BY DaemonAssumption
     DEF MainInv, SomeFinished, TruthfulExit, Starting, Stopping, taskVars, collectorVars
<1>4. CollectorInv' /\ RankInv' /\ GateInv'
  BY DEF alertVars, collectorVars, CollectorInv, RankInv, Processed, GateInv
<1> QED BY <1>1, <1>2, <1>3, <1>4

-----------------------------------------------------------------------------
(* The main thread: supervision                                            *)

Supervising == {"receive", "checkTasks", "receiveAgain"}

(* What a step of the supervision has to see to.                           *)
LEMMA SupervisedStep ==
  ASSUME IInv, sup \in Supervising, NEW next \in Supervising \union {"join"},
         NEW failure \in BOOLEAN, Supervised(next, failure),
         channel' \in Seq(Message), Len(channel') <= Len(channel),
         ChannelInv', MessageInv',
         failure => failed # {},
         next = "join" => stop \/ failure,
         next = "receiveAgain" => SomeFinished
  PROVE  IInv'
<1> USE DEF IInv, Supervised, MainFrame
<1>1. TypeOK'
  <2>1. channel \in Seq(Message) /\ channel' \in Seq(Message)
    BY DEF TypeOK, Message
  <2>2. Len(channel') <= Cardinality(Tasks)
    <3>1. Len(channel) \in Nat /\ Len(channel') \in Nat /\ Cardinality(Tasks) \in Nat
      BY <2>1, TwoTasks
    <3> QED BY <3>1 DEF TypeOK
  <2>3. first' \in BOOLEAN /\ stop' \in BOOLEAN
    OBVIOUS
  <2> QED BY <2>1, <2>2, <2>3 DEF TypeOK, Message, Supervising, collectorVars, monitorVars, alertVars
<1>2. OutcomeInv'
  BY DEF OutcomeInv
<1>3. MainInv'
  BY DaemonAssumption
     DEF MainInv, SomeFinished, TruthfulExit, Starting, Stopping, Supervising, collectorVars
<1>4. CollectorInv' /\ RankInv' /\ GateInv'
  BY DEF alertVars, collectorVars, CollectorInv, RankInv, Processed, GateInv
<1> QED BY <1>1, <1>2, <1>3, <1>4

(* A message that is received is the head of the channel; the others wait. *)
LEMMA ReceivesStep ==
  ASSUME IInv, sup \in {"receive", "receiveAgain"}, Receives,
         Supervised("join", IsFailure(Head(channel), stop))
  PROVE  IInv'
<1> DEFINE failure == IsFailure(Head(channel), stop)
<1>1. channel \in Seq(Message) /\ Len(channel) \in Nat \ {0} /\ DOMAIN channel = 1 .. Len(channel)
  <2>1. channel \in Seq(Message) /\ channel # <<>>
    BY DEF IInv, TypeOK, Message, Receives
  <2> QED BY <2>1, EmptySeq
<1>2. Head(channel) = channel[1] /\ 1 \in DOMAIN channel
  BY <1>1
<1>3. /\ channel' \in Seq(Message) /\ Len(channel') = Len(channel) - 1
      /\ DOMAIN channel' = 1 .. Len(channel) - 1
      /\ \A i \in 1 .. Len(channel) - 1 : channel'[i] = channel[i + 1]
  BY <1>1, HeadTailProperties DEF Receives
<1>4. /\ channel[1].task \in Tasks /\ channel[1].ok \in BOOLEAN
      /\ outcome[channel[1].task] = IF channel[1].ok THEN "ok" ELSE "err"
  BY <1>2, MessageType DEF IInv, ChannelInv
<1>5. failure \in BOOLEAN /\ (failure <=> ~channel[1].ok \/ ~stop)
  BY <1>2 DEF IsFailure, IInv, TypeOK
<1>6. failure => failed # {}
  <2>1. CASE channel[1].ok
    BY <1>4, <1>5, <2>1 DEF IInv, OutcomeInv
  <2>2. CASE ~channel[1].ok
    BY <1>4, <2>2 DEF IInv, OutcomeInv
  <2> QED BY <2>1, <2>2
<1>7. ChannelInv'
  <2>1. \A i \in DOMAIN channel' : i + 1 \in DOMAIN channel /\ channel'[i] = channel[i + 1]
    BY <1>1, <1>3
  <2>2. task' = task /\ outcome' = outcome
    BY DEF Supervised
  <2>3. ASSUME NEW i \in DOMAIN channel', NEW j \in DOMAIN channel',
               channel'[i].task = channel'[j].task
        PROVE  i = j
    BY <1>3, <2>1, <2>3 DEF IInv, ChannelInv
  <2> QED BY <2>1, <2>2, <2>3 DEF IInv, ChannelInv
<1>8. MessageInv'
  <2>1. sup \in Watching /\ sup' = "join" /\ task' = task /\ outcome' = outcome
        /\ (failure => first')
    BY DEF Supervised, Watching
  <2>2. ASSUME NEW t \in Tasks, task[t] = "finished", outcome[t] = "err"
        PROVE  first' \/ Waits(t)'
    <3>1. PICK i \in DOMAIN channel : channel[i].task = t
      BY <2>1, <2>2 DEF IInv, MessageInv, Waits
    <3>2. CASE i = 1
      BY <1>4, <1>5, <2>1, <2>2, <3>1, <3>2
    <3>3. CASE i # 1
      <4>1. i - 1 \in DOMAIN channel' /\ channel'[i - 1] = channel[i]
        BY <1>1, <1>3, <3>3
      <4> QED BY <3>1, <4>1 DEF Waits
    <3> QED BY <3>2, <3>3
  <2> QED BY <2>1, <2>2 DEF MessageInv, Watching
<1>9. Supervised("join", failure) /\ Len(channel') <= Len(channel)
  BY <1>1, <1>3
<1>10. ~failure => stop
  BY <1>5
<1>11. sup \in Supervising
  BY DEF Supervising
<1> HIDE DEF failure
<1> QED BY <1>3, <1>5, <1>6, <1>7, <1>8, <1>9, <1>10, <1>11, SupervisedStep

(* While the supervision goes on, a task that ended and whose message does *)
(* not wait has panicked.                                                  *)
LEMMA Silence ==
  ASSUME IInv, sup \in Supervising, channel = <<>>, NEW t \in Tasks, task[t] = "finished"
  PROVE  outcome[t] = "panic" /\ t \in failed
<1>1. ~Waits(t)
  BY DEF Waits
<1>2. sup \in Watching
  BY DEF Supervising, Watching
<1>3. outcome[t] = "panic"
  BY <1>1, <1>2 DEF IInv, MessageInv
<1> QED BY <1>3 DEF IInv, OutcomeInv

(* A step that finds the channel as it is, empty when it ends the          *)
(* supervision.                                                            *)
LEMMA SilentStep ==
  ASSUME IInv, sup \in Supervising, NEW next \in Supervising \union {"join"},
         NEW failure \in BOOLEAN, Supervised(next, failure), channel' = channel,
         next = "join" => channel = <<>>,
         failure => failed # {},
         next = "join" => stop \/ failure,
         next = "receiveAgain" => SomeFinished
  PROVE  IInv'
<1>1. channel \in Seq(Message) /\ Len(channel') <= Len(channel)
  BY DEF IInv, TypeOK, Message
<1>2. ChannelInv'
  BY DEF IInv, ChannelInv, Supervised
<1>3. MessageInv'
  <2>1. CASE next = "join"
    <3>1. \A t \in Tasks : task[t] = "finished" => outcome[t] = "panic"
      BY <2>1, Silence
    <3> QED BY <2>1, <3>1 DEF MessageInv, Supervised, Watching
  <2>2. CASE next \in Supervising
    BY <2>2 DEF IInv, MessageInv, Waits, Supervised, Supervising, Watching, Stopping
  <2> QED BY <2>1, <2>2
<1> QED BY <1>1, <1>2, <1>3, SupervisedStep

LEMMA SupReceiveStep ==
  ASSUME IInv, SupReceive
  PROVE  IInv'
<1>1. sup = "receive" /\ sup \in Supervising
  BY DEF SupReceive, Supervising
<1>2. CASE Receives /\ Supervised("join", IsFailure(Head(channel), stop))
  BY <1>1, <1>2, ReceivesStep
<1>3. CASE channel = <<>> /\ SendersGone /\ channel' = channel /\ Supervised("join", ~stop)
  <2>1. "monitor" \in Tasks /\ task["monitor"] = "finished"
    BY <1>3 DEF SendersGone, Tasks
  <2>2. failed # {}
    BY <1>1, <1>3, <2>1, Silence
  <2>3. (~stop) \in BOOLEAN /\ "join" \in Supervising \union {"join"} /\ "join" # "receiveAgain"
    OBVIOUS
  <2> QED BY <1>1, <1>3, <2>2, <2>3, SilentStep
<1>4. CASE channel = <<>> /\ channel' = channel /\ stop /\ Supervised("join", FALSE)
  BY <1>1, <1>4, SilentStep
<1>5. CASE channel' = channel /\ Supervised("checkTasks", FALSE)
  <2>1. "checkTasks" \in Supervising
    BY DEF Supervising
  <2> QED BY <1>1, <1>5, <2>1, SilentStep
<1> QED BY <1>2, <1>3, <1>4, <1>5 DEF SupReceive

LEMMA SupCheckTasksStep ==
  ASSUME IInv, SupCheckTasks
  PROVE  IInv'
<1>1. sup \in Supervising /\ {"receive", "receiveAgain"} \subseteq Supervising
  BY DEF SupCheckTasks, Supervising
<1>2. CASE SomeFinished
  <2>1. Supervised("receiveAgain", FALSE) /\ channel' = channel
    BY <1>2 DEF SupCheckTasks
  <2> QED BY <1>1, <1>2, <2>1, SilentStep
<1>3. CASE ~SomeFinished
  <2>1. Supervised("receive", FALSE) /\ channel' = channel
    BY <1>3 DEF SupCheckTasks
  <2> QED BY <1>1, <2>1, SilentStep
<1> QED BY <1>2, <1>3

LEMMA SupReceiveAgainStep ==
  ASSUME IInv, SupReceiveAgain
  PROVE  IInv'
<1>1. sup = "receiveAgain" /\ sup \in Supervising
  BY DEF SupReceiveAgain, Supervising
<1>2. CASE Receives /\ Supervised("join", IsFailure(Head(channel), stop))
  BY <1>1, <1>2, ReceivesStep
<1>3. CASE channel = <<>> /\ channel' = channel /\ Supervised("join", TRUE)
  <2>1. CASE database \in {"dead", "panicked"}
    <3>1. failed # {}
      BY <2>1 DEF IInv, MainInv
    <3> QED BY <1>1, <1>3, <3>1, SilentStep
  <2>2. ASSUME NEW t \in Tasks, task[t] = "finished"
        PROVE  IInv'
    <3>1. failed # {}
      BY <1>1, <1>3, <2>2, Silence
    <3> QED BY <1>1, <1>3, <3>1, SilentStep
  <2>3. SomeFinished
    BY <1>1 DEF IInv, MainInv
  <2> QED BY <2>1, <2>2, <2>3 DEF SomeFinished
<1> QED BY <1>2, <1>3 DEF SupReceiveAgain

-----------------------------------------------------------------------------
(* The main thread: shutdown                                               *)

LEMMA JoinTasksStep ==
  ASSUME IInv, JoinTasks
  PROVE  IInv'
<1> USE DEF IInv, JoinTasks, MainFrame
<1>1. TypeOK'
  BY DEF TypeOK, taskVars, collectorVars, monitorVars, alertVars
<1>2. ChannelInv' /\ OutcomeInv' /\ MessageInv'
  BY DEF ChannelInv, OutcomeInv, MessageInv, Waits, Watching, Stopping, taskVars
<1>3. MainInv'
  BY DaemonAssumption
     DEF MainInv, SomeFinished, TruthfulExit, Starting, Stopping, taskVars, collectorVars
<1>4. CollectorInv' /\ RankInv' /\ GateInv'
  BY DEF alertVars, collectorVars, CollectorInv, RankInv, Processed, GateInv
<1> QED BY <1>1, <1>2, <1>3, <1>4

(* What the shutdown counts as a failure is all that failed.               *)
LEMMA ShutdownCounts ==
  ASSUME IInv, sup = "shutdown"
  PROVE  (\/ first \/ LateFailures \/ \E t \in Tasks : outcome[t] = "panic"
          \/ database \in {"dead", "panicked"}) <=> failed # {}
<1>1. failed \subseteq Tasks
  BY DEF IInv, MainInv, TypeOK
<1>2. ASSUME LateFailures PROVE failed # {}
  <2>1. PICK i \in DOMAIN channel : ~channel[i].ok
    BY <1>2 DEF LateFailures, IsFailure
  <2>2. channel[i].task \in Tasks /\ outcome[channel[i].task] = "err"
    BY <2>1, MessageType DEF IInv, ChannelInv
  <2> QED BY <2>2 DEF IInv, OutcomeInv
<1>3. ASSUME NEW t \in Tasks, outcome[t] = "panic" PROVE failed # {}
  BY <1>3 DEF IInv, OutcomeInv
<1>4. first \/ database \in {"dead", "panicked"} => failed # {}
  BY DEF IInv, MainInv
<1>5. ASSUME NEW t \in failed, outcome[t] # "panic", ~first PROVE LateFailures
  <2>1. t \in Tasks /\ task[t] = "finished" /\ outcome[t] = "err"
    BY <1>1, <1>5 DEF IInv, MainInv, OutcomeInv
  <2>2. PICK i \in DOMAIN channel : channel[i].task = t
    BY <1>5, <2>1 DEF IInv, MessageInv, Stopping, Waits
  <2>3. ~channel[i].ok
    BY <2>1, <2>2, MessageType DEF IInv, ChannelInv
  <2> QED BY <2>3 DEF LateFailures, IsFailure
<1> QED BY <1>1, <1>2, <1>3, <1>4, <1>5

LEMMA ShutdownStep ==
  ASSUME IInv, Shutdown
  PROVE  IInv'
<1>1. /\ sup = "shutdown" /\ sup' = "returned" /\ channel' = <<>>
      /\ result' = (IF first' THEN "err" ELSE "ok")
      /\ UNCHANGED <<stop, exited, task, outcome>> /\ MainFrame
  BY DEF Shutdown
<1>2. /\ failed' \in {failed, failed \union {"shutdown"}}
      /\ database' \in {database, "ended"}
      /\ first' \in BOOLEAN
      /\ first' <=> failed' # {}
  <2>1. CASE /\ database' = IF database = "up" THEN "ended" ELSE database
             /\ first' = (\/ first \/ LateFailures \/ ~(\A t \in Tasks : outcome[t] # "panic")
                          \/ database \in {"dead", "panicked"})
             /\ UNCHANGED failed
    BY <1>1, <2>1, ShutdownCounts DEF LateFailures
  <2>2. CASE database' = database /\ first' = TRUE /\ failed' = failed \union {"shutdown"}
    BY <2>2
  <2> QED BY <2>1, <2>2 DEF Shutdown
<1>3. stop /\ (\A t \in Tasks : task[t] = "finished") /\ failed' \subseteq Tasks \union {"shutdown"}
      /\ (failed \intersect Tasks # {} => failed' \intersect Tasks # {})
  BY <1>1, <1>2 DEF IInv, MainInv, Stopping, TypeOK
<1>4. TypeOK'
  <2>1. /\ channel' \in Seq([task : Tasks, ok : BOOLEAN]) /\ Len(channel') = 0
        /\ 0 <= Cardinality(Tasks)
    BY <1>1, TwoTasks
  <2>2. result' \in {None, "ok", "err"} /\ database' \in {"off", "up", "dead", "panicked", "ended"}
    BY <1>1, <1>2 DEF IInv, TypeOK
  <2> QED BY <1>1, <1>2, <1>3, <2>1, <2>2
       DEF IInv, TypeOK, MainFrame, collectorVars, monitorVars, alertVars
<1>5. ChannelInv' /\ MessageInv'
  BY <1>1 DEF ChannelInv, MessageInv, Watching, Stopping
<1>6. OutcomeInv'
  <2>1. \A t \in Tasks : t \in failed' <=> t \in failed
    BY <1>2 DEF Tasks
  <2> QED BY <1>1, <2>1 DEF IInv, OutcomeInv
<1>7. MainInv'
  BY <1>1, <1>2, <1>3, DaemonAssumption
     DEF IInv, MainInv, TruthfulExit, Starting, Stopping, Tasks
<1>8. CollectorInv' /\ RankInv' /\ GateInv'
  BY <1>1 DEF IInv, MainFrame, alertVars, collectorVars, CollectorInv, RankInv, Processed, GateInv
<1> QED BY <1>4, <1>5, <1>6, <1>7, <1>8 DEF IInv

LEMMA ExitStep ==
  ASSUME IInv, Exit
  PROVE  IInv'
<1> USE DEF IInv, Exit
<1>1. TypeOK'
  <2>1. NoBucket \in [minute : Minutes, complete : BOOLEAN] /\ 0 \in Minutes
    BY DaemonAssumption DEF NoBucket, Minutes
  <2>2. NoAlert \in AlertType
    BY <2>1 DEF NoAlert, AlertType, AlertStates
  <2>3. alert' \in [Alerts -> AlertType]
    BY <2>2
  <2> QED BY <2>1, <2>3 DEF TypeOK, AlertType, taskVars, monitorVars
<1>2. ChannelInv' /\ OutcomeInv' /\ MessageInv' /\ MainInv'
  BY DaemonAssumption
     DEF ChannelInv, OutcomeInv, MessageInv, Watching, Stopping, Starting, MainInv,
         TruthfulExit, taskVars
<1>3. \A a \in Alerts : alert'[a].st = "none" /\ alert'[a].missing = {}
  BY DEF NoAlert
<1>4. CollectorInv' /\ RankInv' /\ GateInv'
  BY <1>3 DEF CollectorInv, RankInv, Processed, GateInv
<1> QED BY <1>1, <1>2, <1>4

-----------------------------------------------------------------------------
(* The theorems                                                            *)

LEMMA Initially == Init => IInv
<1> SUFFICES ASSUME Init PROVE IInv
  OBVIOUS
<1> USE DEF Init
<1>1. TypeOK
  <2>1. NoBucket \in [minute : Minutes, complete : BOOLEAN] /\ 0 \in Minutes
    BY DaemonAssumption DEF NoBucket, Minutes
  <2>2. NoAlert \in AlertType
    BY <2>1 DEF NoAlert, AlertType, AlertStates
  <2>3. alert \in [Alerts -> AlertType]
    BY <2>2
  <2>4. /\ channel \in Seq([task : Tasks, ok : BOOLEAN]) /\ Len(channel) = 0
        /\ 0 <= Cardinality(Tasks)
    BY TwoTasks
  <2> QED BY <2>1, <2>3, <2>4 DEF TypeOK, AlertType
<1>2. ChannelInv /\ OutcomeInv /\ MessageInv /\ MainInv
  BY DaemonAssumption
     DEF ChannelInv, OutcomeInv, MessageInv, MainInv, TruthfulExit, Starting, Stopping
<1>3. \A a \in Alerts : alert[a].st = "none" /\ alert[a].missing = {}
  BY DEF NoAlert
<1>4. CollectorInv /\ RankInv /\ GateInv
  BY <1>3 DEF CollectorInv, RankInv, GateInv
<1> QED BY <1>1, <1>2, <1>4 DEF IInv

LEMMA Inductive == IInv /\ [Next]_vars => IInv'
<1> SUFFICES ASSUME IInv, [Next]_vars PROVE IInv'
  OBVIOUS
<1>1. CASE Tick \/ Signal
  BY <1>1, TickStep, SignalStep
<1>2. CASE Main
  BY <1>2, PrepareStep, SpawnCollectorStep, SpawnMonitorStep, UndoMonitorStep, SupReceiveStep,
     SupCheckTasksStep, SupReceiveAgainStep, JoinTasksStep, ShutdownStep, ExitStep DEF Main
<1>3. CASE Collector
  BY <1>3, CollectorLeavesStep, CollectorClosesStep, CollectorSubmitsStep,
     CollectorPublishesStep DEF Collector
<1>4. CASE Monitor
  BY <1>4, MonitorLeavesStep, MonitorSamplesStep, MonitorSubmitsStep DEF Monitor
<1>5. ASSUME NEW t \in Tasks, SendExit(t) \/ Panic(t) PROVE IInv'
  BY <1>5, SendExitStep, PanicStep
<1>6. ASSUME NEW a \in Alerts, Alert(a) PROVE IInv'
  BY <1>6, AlertWaitsStep, AlertRanksStep, AlertLocksStep, AlertSendsStep DEF Alert
<1>7. CASE UNCHANGED vars
  BY <1>7 DEF vars, supVars, taskVars, collectorVars, monitorVars, alertVars, IInv, TypeOK,
     ChannelInv, OutcomeInv, MessageInv, Waits, MainInv, SomeFinished, TruthfulExit,
     CollectorInv, RankInv, Processed, GateInv
<1> QED BY <1>1, <1>2, <1>3, <1>4, <1>5, <1>6, <1>7 DEF Next

(* The inductive invariant holds in every state the daemon reaches.        *)
THEOREM Invariance == Spec => []IInv
BY Initially, Inductive, PTL DEF Spec

(* The main thread, the threads, the alert tasks and the boundary tracker  *)
(* keep their types, whatever the bounds.                                  *)
THEOREM TypeCorrect == Spec => []TypeOK
<1>1. IInv => TypeOK
  BY DEF IInv
<1> QED BY <1>1, Invariance, PTL

(* run_daemon returns success only after a stop and with nothing failed,   *)
(* and an error only if something did fail: no order of exit messages,     *)
(* thread ends, a signal and the looks of supervise_long_tasks loses a     *)
(* failure or makes one up.                                                *)
THEOREM ExitIsTruthful == Spec => []TruthfulExit
<1>1. IInv => TruthfulExit
  BY DEF IInv, MainInv
<1> QED BY <1>1, Invariance, PTL

(* wait_until_processed is long enough: what query_top_writers found        *)
(* missing when an alert asked is never recorded afterwards.               *)
THEOREM AskedLateEnough == Spec => []NeverAskedTooEarly
<1>1. IInv => NeverAskedTooEarly
  BY DEF IInv, RankInv, NeverAskedTooEarly
<1> QED BY <1>1, Invariance, PTL

(* The mail gate and the look at the stop flag behind it let at most one   *)
(* mail begin after a stop, for any number of alerts.                      *)
THEOREM LateMailsAreBounded == Spec => []OneMailAfterStop
<1>1. IInv => OneMailAfterStop
  BY DEF IInv, GateInv, OneMailAfterStop
<1> QED BY <1>1, Invariance, PTL

-----------------------------------------------------------------------------
(* The contract of the buckets                                             *)

(* The open bucket is never ahead of the clock.                            *)
OpenInv == open <= minute

LEMMA OpenHolds == Spec => []OpenInv
<1>1. Init => OpenInv
  BY DEF Init, OpenInv
<1>2. IInv /\ OpenInv /\ [Next]_vars => OpenInv'
  <2> SUFFICES ASSUME IInv, OpenInv, [Next]_vars PROVE OpenInv'
    OBVIOUS
  <2>1. open \in Nat /\ minute \in Nat
    BY DEF IInv, TypeOK, Minutes
  <2>2. CASE UNCHANGED <<open, minute>>
    BY <2>2 DEF OpenInv
  <2>3. CASE Tick
    BY <2>1, <2>3 DEF Tick, OpenInv, collectorVars
  <2>4. CASE open' = minute /\ minute' = minute
    BY <2>1, <2>4 DEF OpenInv
  <2>5. CASE open' = 0 /\ minute' = minute
    BY <2>1, <2>5 DEF OpenInv
  <2>6. CASE Collector
    <3>1. \/ UNCHANGED <<open, minute>>
          \/ open' = minute /\ minute' = minute
      BY <2>6 DEF Collector, CollectorLeaves, CollectorCloses, CollectorSubmits,
         CollectorPublishes, collectorVars
    <3> QED BY <3>1, <2>2, <2>4
  <2>7. CASE SpawnCollector
    <3>1. \/ UNCHANGED <<open, minute>>
          \/ open' = minute /\ minute' = minute
      BY <2>7 DEF SpawnCollector
    <3> QED BY <3>1, <2>2, <2>4
  <2>8. CASE Exit
    BY <2>5, <2>8 DEF Exit
  <2>9. CASE Prepare \/ SpawnMonitor \/ UndoMonitor \/ SupReceive \/ SupCheckTasks
             \/ SupReceiveAgain \/ JoinTasks \/ Shutdown
    <3>1. UNCHANGED <<open, minute>>
      BY <2>9 DEF Prepare, SpawnMonitor, UndoMonitor, SupReceive, SupCheckTasks,
         SupReceiveAgain, JoinTasks, Shutdown, Supervised, MainFrame, collectorVars
    <3> QED BY <3>1, <2>2
  <2>10. CASE Signal \/ Monitor \/ UNCHANGED vars
    <3>1. UNCHANGED <<open, minute>>
      BY <2>10 DEF Signal, Monitor, MonitorLeaves, MonitorSamples, MonitorSubmits, vars,
         collectorVars
    <3> QED BY <3>1, <2>2
  <2>11. CASE \E t \in Tasks : SendExit(t) \/ Panic(t)
    <3>1. UNCHANGED <<open, minute>>
      BY <2>11 DEF SendExit, Panic, collectorVars
    <3> QED BY <3>1, <2>2
  <2>12. CASE \E a \in Alerts : Alert(a)
    <3>1. UNCHANGED <<open, minute>>
      BY <2>12 DEF Alert, AlertWaits, AlertRanks, AlertLocks, AlertSends, AlertFrame,
         collectorVars
    <3> QED BY <3>1, <2>2
  <2> QED BY <2>3, <2>6, <2>7, <2>8, <2>9, <2>10, <2>11, <2>12 DEF Next, Main
<1> QED BY <1>1, <1>2, Invariance, PTL DEF Spec

(* What the contract sees of a collector.                                  *)
LEMMA PhaseAndHand ==
  LET seen == [bucket |-> hand.minute, complete |-> One(hand.complete)]
  IN /\ ~Running("collector") => CollectorPhase = "over" /\ CollectorHand = None
     /\ Running("collector") =>
          /\ cpc = "scan" => CollectorPhase = "open" /\ CollectorHand = None
          /\ cpc = "submit" => CollectorPhase = "closed" /\ CollectorHand = seen
          /\ cpc = "publish" => CollectorPhase = "saved" /\ CollectorHand = seen
BY DEF CollectorPhase, CollectorHand

LEMMA NextPhaseAndHand ==
  LET seen == [bucket |-> hand'.minute, complete |-> One(hand'.complete)]
  IN /\ ~Running("collector")' => CollectorPhase' = "over" /\ CollectorHand' = None
     /\ Running("collector")' =>
          /\ cpc' = "scan" => CollectorPhase' = "open" /\ CollectorHand' = None
          /\ cpc' = "submit" => CollectorPhase' = "closed" /\ CollectorHand' = seen
          /\ cpc' = "publish" => CollectorPhase' = "saved" /\ CollectorHand' = seen
BY DEF CollectorPhase, CollectorHand, One

LEMMA ReportSeen ==
  ASSUME TypeOK
  PROVE  TrackerReport = None <=> report = None
<1>1. CASE report # None
  <2>1. report.end \in Nat /\ One(report.complete) \in SUBSET {"device"}
    BY <1>1, DaemonAssumption DEF TypeOK, One
  <2>2. TrackerReport \in [end : Nat, complete : BOOLEAN \union SUBSET {"device"}]
    BY <1>1, <2>1 DEF TrackerReport
  <2> QED BY <1>1, <2>2, DaemonAssumption
<1> QED BY <1>1 DEF TrackerReport

(* What the contract does not see.                                         *)
Unseen ==
  UNCHANGED <<CollectorPhase, OpenBucket, CollectorHand, complete \X {"device"}, TrackerReport>>

LEMMA Stutters ==
  ASSUME UNCHANGED <<exited, cpc, open, hand, complete, report>>,
         exited => minute' = minute,
         Running("collector")' <=> Running("collector")
  PROVE  Unseen
<1>1. CollectorPhase' = CollectorPhase /\ CollectorHand' = CollectorHand
  BY PhaseAndHand, NextPhaseAndHand DEF CollectorPhase, CollectorHand, One
<1>2. OpenBucket' = OpenBucket
  BY DEF OpenBucket
<1>3. TrackerReport' = TrackerReport
  BY DEF TrackerReport, One
<1> QED BY <1>1, <1>2, <1>3 DEF Unseen

(* The collector ends: a panic, a stop, a submission that fails.           *)
LEMMA EndStops ==
  ASSUME Running("collector"), task' = [task EXCEPT !["collector"] = "finished"]
                            \/ task' = [task EXCEPT !["collector"] = "returned"],
         task \in [Tasks -> {"off", "running", "returned", "finished"}],
         UNCHANGED <<exited, open, report>>,
         \/ complete' = complete
         \/ /\ cpc = "submit" /\ hand.complete = TRUE
            /\ complete' = complete \union {hand.minute},
         cpc \in {"scan", "submit", "publish"}
  PROVE  Buckets!Stop
<1>1. ~Running("collector")'
  BY DEF Running, Tasks
<1>2. CollectorPhase' = "over" /\ CollectorHand' = None
  BY <1>1, NextPhaseAndHand
<1>3. CollectorPhase # "over"
  BY PhaseAndHand
<1>4. OpenBucket' = OpenBucket /\ TrackerReport' = TrackerReport
  BY DEF OpenBucket, TrackerReport, One, Running
<1>5. CASE complete' = complete
  BY <1>2, <1>3, <1>4, <1>5 DEF Buckets!Stop
<1>6. CASE /\ cpc = "submit" /\ hand.complete = TRUE
           /\ complete' = complete \union {hand.minute}
  <2>1. CollectorPhase = "closed" /\ CollectorHand.bucket = hand.minute
        /\ CollectorHand.complete = {"device"}
    BY <1>6, PhaseAndHand DEF One
  <2>2. complete' \X {"device"} = (complete \X {"device"}) \union Buckets!Markers
    BY <1>6, <2>1 DEF Buckets!Markers
  <2> QED BY <1>2, <1>3, <1>4, <2>1, <2>2 DEF Buckets!Stop
<1> QED BY <1>5, <1>6

LEMMA ClosesTheBucket ==
  ASSUME IInv, CollectorCloses
  PROVE  Buckets!Next
<1>1. TypeOK
  BY DEF IInv
<1>2. PICK whole \in BOOLEAN :
        /\ hand' = [minute |-> open, complete |-> whole]
        /\ minute > open + 1 \/ report = None => whole = FALSE
  BY DEF CollectorCloses
<1>3. /\ Running("collector") /\ cpc = "scan" /\ minute > open /\ open' = minute
      /\ cpc' = "submit" /\ minute' = minute
      /\ UNCHANGED <<exited, task, report, complete>>
  BY DEF CollectorCloses, supVars, taskVars
<1>4. Running("collector")' /\ ~exited
  BY <1>3 DEF Running
<1>5. CollectorPhase = "open" /\ CollectorPhase' = "closed"
      /\ CollectorHand' = [bucket |-> open, complete |-> One(whole)]
  BY <1>2, <1>3, <1>4, PhaseAndHand, NextPhaseAndHand
<1>6. OpenBucket = open /\ OpenBucket' = minute /\ TrackerReport' = TrackerReport
  BY <1>3, <1>4 DEF OpenBucket, TrackerReport, One
<1>7. TrackerReport = None \/ minute > open + 1 => One(whole) = {}
  BY <1>1, <1>2, ReportSeen DEF One
<1>8. Buckets!Close(minute, One(whole))
  BY <1>3, <1>5, <1>6, <1>7 DEF Buckets!Close
<1>9. minute \in Minutes /\ One(whole) \in SUBSET {"device"}
  BY <1>1 DEF TypeOK, One
<1> QED BY <1>8, <1>9 DEF Buckets!Next

LEMMA SubmitsTheBucket ==
  ASSUME IInv, CollectorSubmits
  PROVE  Buckets!Next
<1>1. TypeOK
  BY DEF IInv
<1>2. /\ Running("collector") /\ cpc = "submit" /\ hand.complete \in BOOLEAN
      /\ UNCHANGED <<minute, exited, open, hand, report>>
  BY <1>1 DEF CollectorSubmits, supVars, TypeOK
<1>3. CASE cpc' = "publish" /\ task' = task
           /\ \/ ~hand.complete /\ complete' = complete
              \/ hand.complete /\ complete' = complete \union {hand.minute}
  <2>1. Running("collector")'
    BY <1>2, <1>3 DEF Running
  <2>2. /\ CollectorPhase = "closed" /\ CollectorPhase' = "saved"
        /\ CollectorHand' = CollectorHand
        /\ CollectorHand.bucket = hand.minute /\ CollectorHand.complete = One(hand.complete)
    BY <1>2, <1>3, <2>1, PhaseAndHand, NextPhaseAndHand
  <2>3. OpenBucket' = OpenBucket /\ TrackerReport' = TrackerReport
    BY <1>2 DEF OpenBucket, TrackerReport, One
  <2>4. complete' \X {"device"} = (complete \X {"device"}) \union Buckets!Markers
    BY <1>2, <1>3, <2>2 DEF Buckets!Markers, One
  <2>5. Buckets!Record
    BY <2>2, <2>3, <2>4 DEF Buckets!Record
  <2> QED BY <2>5 DEF Buckets!Next
<1>4. CASE /\ task' = [task EXCEPT !["collector"] = "returned"]
           /\ \/ complete' = complete
              \/ hand.complete = TRUE /\ complete' = complete \union {hand.minute}
  <2>1. Buckets!Stop
    BY <1>1, <1>2, <1>4, EndStops DEF TypeOK
  <2> QED BY <2>1 DEF Buckets!Next
<1>5. \/ /\ cpc' = "publish" /\ task' = task
         /\ \/ ~hand.complete /\ complete' = complete
            \/ hand.complete /\ complete' = complete \union {hand.minute}
      \/ /\ task' = [task EXCEPT !["collector"] = "returned"]
         /\ \/ complete' = complete
            \/ hand.complete = TRUE /\ complete' = complete \union {hand.minute}
  BY <1>2 DEF CollectorSubmits, SubmitFails, Fails, Return, taskVars
<1> QED BY <1>3, <1>4, <1>5

LEMMA PublishesTheBucket ==
  ASSUME IInv, CollectorPublishes
  PROVE  Buckets!Next
<1>1. /\ Running("collector") /\ cpc = "publish" /\ cpc' = "scan"
      /\ report' = [end |-> hand.minute + 1, complete |-> hand.complete]
      /\ UNCHANGED <<minute, exited, task, open, complete>>
  BY DEF CollectorPublishes, supVars, taskVars
<1>2. Running("collector")'
  BY <1>1 DEF Running
<1>3. /\ CollectorPhase = "saved" /\ CollectorPhase' = "open" /\ CollectorHand' = None
      /\ CollectorHand.bucket = hand.minute /\ CollectorHand.complete = One(hand.complete)
  BY <1>1, <1>2, PhaseAndHand, NextPhaseAndHand
<1>4. report' # None
  <2>1. hand.minute + 1 \in Nat /\ hand.complete \in BOOLEAN
    BY DEF IInv, TypeOK, Minutes
  <2>2. report' \in [end : Nat, complete : BOOLEAN \union SUBSET {"device"}]
    BY <1>1, <2>1
  <2> QED BY <2>2, DaemonAssumption
<1>5. TrackerReport' = [end |-> hand.minute + 1, complete |-> One(hand.complete)]
  BY <1>1, <1>4 DEF TrackerReport, One
<1>6. OpenBucket' = OpenBucket
  BY <1>1 DEF OpenBucket
<1>7. Buckets!Publish
  BY <1>1, <1>3, <1>5, <1>6 DEF Buckets!Publish
<1> QED BY <1>7 DEF Buckets!Next

(* A process that starts or ends is a new one to the contract.             *)
LEMMA SpawnBegins ==
  ASSUME IInv, OpenInv, SpawnCollector
  PROVE  Buckets!Next \/ Unseen
<1>1. TypeOK /\ sup \in Starting /\ report = None /\ cpc = "scan" /\ ~exited
      /\ task["collector"] = "off" /\ minute \in Minutes
  BY DaemonAssumption DEF IInv, MainInv, SpawnCollector, Starting, Tasks, TypeOK
<1>2. UNCHANGED <<minute, exited, cpc, hand, complete, report>>
  BY DEF SpawnCollector
<1>3. CASE task' = [task EXCEPT !["collector"] = "running"] /\ open' = minute
  <2>1. Running("collector")'
    BY <1>1, <1>2, <1>3 DEF Running, TypeOK, Tasks
  <2>2. CollectorPhase' = "open" /\ CollectorHand' = None
    BY <1>1, <1>2, <2>1, NextPhaseAndHand
  <2>3. OpenBucket = open /\ OpenBucket' = minute /\ TrackerReport' = None
    BY <1>1, <1>2, <1>3 DEF OpenBucket, TrackerReport
  <2>4. minute >= open
    BY <1>1 DEF OpenInv, TypeOK, Minutes
  <2>5. Buckets!NewProcess
    BY <1>1, <1>2, <2>2, <2>3, <2>4 DEF Buckets!NewProcess
  <2> QED BY <2>5 DEF Buckets!Next
<1>4. CASE UNCHANGED <<task, open>>
  BY <1>2, <1>4, Stutters DEF Running
<1> QED BY <1>3, <1>4 DEF SpawnCollector

LEMMA ExitEnds ==
  ASSUME IInv, OpenInv, Exit
  PROVE  Buckets!Next
<1>1. /\ ~exited /\ exited' = TRUE /\ report' = None
      /\ UNCHANGED <<minute, complete>> /\ minute \in Minutes /\ open \in Minutes
  BY DEF Exit, IInv, TypeOK
<1>2. ~Running("collector")'
  BY <1>1 DEF Running
<1>3. CollectorPhase' = "over" /\ CollectorHand' = None
  BY <1>2, NextPhaseAndHand
<1>4. OpenBucket = open /\ OpenBucket' = minute /\ TrackerReport' = None
  BY <1>1 DEF OpenBucket, TrackerReport
<1>5. minute >= open
  BY <1>1 DEF OpenInv, Minutes
<1>6. Buckets!NewProcess
  BY <1>1, <1>3, <1>4, <1>5 DEF Buckets!NewProcess
<1> QED BY <1>6 DEF Buckets!Next

(* Every other step of the daemon is nobody's business.                    *)
LEMMA TasksUnseen ==
  ASSUME IInv, NEW t \in Tasks, SendExit(t) \/ Panic(t)
  PROVE  Buckets!Next \/ Unseen
<1>1. TypeOK /\ UNCHANGED <<minute, exited, cpc, open, hand, complete, report>>
  BY DEF IInv, SendExit, Panic, supVars, collectorVars
<1>2. CASE t = "collector" /\ Panic(t)
  <2>1. Buckets!Stop
    BY <1>1, <1>2, EndStops DEF Panic, Running, TypeOK
  <2> QED BY <2>1 DEF Buckets!Next
<1>3. CASE t # "collector" \/ SendExit(t)
  <2>1. task'["collector"] = "running" <=> task["collector"] = "running"
    BY <1>1, <1>3 DEF TypeOK, SendExit, Panic, Tasks
  <2> QED BY <1>1, <2>1, Stutters DEF Running
<1> QED BY <1>2, <1>3

LEMMA MonitorUnseen ==
  ASSUME IInv, Monitor
  PROVE  Unseen
<1>1. TypeOK /\ UNCHANGED <<minute, exited, cpc, open, hand, complete, report>>
  BY DEF IInv, Monitor, MonitorLeaves, MonitorSamples, MonitorSubmits, supVars, collectorVars
<1>2. \/ task' = task
      \/ task' = [task EXCEPT !["monitor"] = "returned"]
  BY DEF Monitor, MonitorLeaves, MonitorSamples, MonitorSubmits, SubmitFails, Fails, Return,
     taskVars
<1>3. task'["collector"] = task["collector"]
  BY <1>1, <1>2 DEF TypeOK, Tasks
<1> QED BY <1>1, <1>3, Stutters DEF Running

LEMMA MainUnseen ==
  ASSUME IInv, OpenInv, Main
  PROVE  Buckets!Next \/ Unseen
<1>1. CASE SpawnCollector
  BY <1>1, SpawnBegins
<1>2. CASE Exit
  BY <1>2, ExitEnds
<1>3. CASE SpawnMonitor
  <2>1. TypeOK /\ UNCHANGED <<minute, exited, cpc, open, hand, complete, report>>
    BY <1>3 DEF IInv, SpawnMonitor, MainFrame, collectorVars
  <2>2. task'["collector"] = task["collector"]
    BY <1>3, <2>1 DEF SpawnMonitor, TypeOK, Tasks
  <2> QED BY <2>1, <2>2, Stutters DEF Running
<1>4. CASE Prepare \/ UndoMonitor \/ JoinTasks \/ Shutdown
  <2>1. UNCHANGED <<minute, exited, task, cpc, open, hand, complete, report>>
    BY <1>4 DEF Prepare, UndoMonitor, JoinTasks, Shutdown, MainFrame, taskVars, collectorVars
  <2> QED BY <2>1, Stutters DEF Running
<1>5. CASE SupReceive \/ SupCheckTasks \/ SupReceiveAgain
  <2>1. UNCHANGED <<minute, exited, task, cpc, open, hand, complete, report>>
    BY <1>5 DEF SupReceive, SupCheckTasks, SupReceiveAgain, Supervised, MainFrame, collectorVars
  <2> QED BY <2>1, Stutters DEF Running
<1> QED BY <1>1, <1>2, <1>3, <1>4, <1>5 DEF Main

LEMMA RestUnseen ==
  ASSUME Tick \/ Signal \/ UNCHANGED vars \/ \E a \in Alerts : Alert(a)
  PROVE  Unseen
<1>1. /\ UNCHANGED <<exited, task, cpc, open, hand, complete, report>>
      /\ exited => minute' = minute
  BY DEF Tick, Signal, vars, Alert, AlertWaits, AlertRanks, AlertLocks, AlertSends, AlertFrame,
     supVars, taskVars, collectorVars
<1> QED BY <1>1, Stutters DEF Running

(* Whatever the other threads do, and whenever the process ends, minutes   *)
(* are closed, recorded and reported as the contract for their readers     *)
(* says.                                                                   *)
THEOREM KeepsTheContract == Spec => KeepsBuckets
<1>1. Init => Buckets!Init
  <2> SUFFICES ASSUME Init PROVE Buckets!Init
    OBVIOUS
  <2>1. ~Running("collector")
    BY DEF Init, Running, Tasks
  <2>2. CollectorPhase = "over" /\ CollectorHand = None
    BY <2>1, PhaseAndHand
  <2>3. OpenBucket = 0 /\ 0 \in Minutes /\ TrackerReport = None
    BY DaemonAssumption DEF Init, OpenBucket, TrackerReport, Minutes
  <2>4. complete \X {"device"} = {}
    BY DEF Init
  <2> QED BY <2>2, <2>3, <2>4 DEF Buckets!Init
<1>2. IInv /\ OpenInv /\ [Next]_vars => [Buckets!Next]_(Buckets!bucketVars)
  <2> SUFFICES ASSUME IInv, OpenInv, [Next]_vars
               PROVE  Buckets!Next \/ Unseen
    BY DEF Buckets!bucketVars, Unseen
  <2>1. CASE CollectorLeaves
    <3>1. Buckets!Stop
      BY <2>1, EndStops DEF CollectorLeaves, Return, supVars, collectorVars, IInv, TypeOK
    <3> QED BY <3>1 DEF Buckets!Next
  <2>2. CASE CollectorCloses \/ CollectorSubmits \/ CollectorPublishes
    BY <2>2, ClosesTheBucket, SubmitsTheBucket, PublishesTheBucket
  <2>3. CASE \E t \in Tasks : SendExit(t) \/ Panic(t)
    BY <2>3, TasksUnseen
  <2>4. CASE Monitor \/ Main
    BY <2>4, MonitorUnseen, MainUnseen
  <2>5. CASE Tick \/ Signal \/ UNCHANGED vars \/ \E a \in Alerts : Alert(a)
    BY <2>5, RestUnseen
  <2> QED BY <2>1, <2>2, <2>3, <2>4, <2>5 DEF Next, Collector
<1> QED BY <1>1, <1>2, Invariance, OpenHolds, PTL DEF Spec, KeepsBuckets, Buckets!Spec
=============================================================================
