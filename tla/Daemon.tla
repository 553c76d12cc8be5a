------------------------------- MODULE Daemon -------------------------------
(***************************************************************************)
(* The daemon as a whole: run_daemon and supervise_long_tasks of main.rs,  *)
(* the collector and the monitor as threads that submit, publish and       *)
(* return, the alert tasks of monitor/mod.rs with the boundary tracker     *)
(* they wait on, the history query and the mail gate, and the end of the   *)
(* process.  The database is seen as its submitters see it (what            *)
(* DatabaseWriter implements); what a scan counts is WriterCollector's, what *)
(* a sample means is SmartMonitor's.  One device stands for each.          *)
(***************************************************************************)
EXTENDS Integers, Sequences, FiniteSets

CONSTANTS
  MaxMinute,     \* bound: UTC minutes the clock goes through
  MaxAlerts,     \* bound: threshold events the monitor raises
  Lookback,      \* lookback_minutes of an event: the device's window
  Faults,        \* what may go wrong: subset of FaultKinds
  MaxFailures,   \* bound: failures in one life of the process
  None

FaultKinds == {"startup", "producer", "panic", "database", "slow", "gap", "query", "message"}

ASSUME DaemonAssumption ==
  /\ MaxMinute \in Nat \ {0} /\ MaxAlerts \in Nat /\ Lookback \in Nat \ {0}
  /\ Faults \subseteq FaultKinds /\ MaxFailures \in Nat
  /\ None \notin {"ok", "err", "panic"} /\ None \notin Nat
  /\ None \notin [end : Nat, complete : BOOLEAN \union SUBSET {"device"}]

Tasks == {"collector", "monitor"}
Minutes == 0 .. MaxMinute
Alerts == 1 .. MaxAlerts

VARIABLES
  minute,      \* the wall clock
  stop,        \* the shared stop flag
  sup,         \* where the main thread stands in run_daemon
  first,       \* first_failure.is_some()
  result,      \* what run_daemon returned: None, "ok" or "err"
  exited,      \* the process is gone
  channel,     \* exit messages not yet received
  task,        \* per task: "off", "running", "returned" (about to send), "finished"
  outcome,     \* per task: None, "ok", "err", "panic"
  database,    \* the writer thread: "off", "up", "dead" (fatal), "panicked", "ended"
  cpc,         \* the collector's loop: "scan", "submit", "publish"
  open,        \* its open bucket
  hand,        \* the closed bucket: [minute, complete]
  report,      \* the boundary tracker: None or [end, complete]
  complete,    \* minutes with a completeness marker in the database
  mpc,         \* the monitor's loop: "sample", "submit"
  sampled,     \* minute of the sample in hand
  alert,       \* per event: [st, end, missing, tried]
  gate         \* holder of the mail gate

(* History, read by the properties only.                                   *)
VARIABLES
  failed,      \* what really went wrong in this life of the process
  lateMails    \* mails begun after the stop flag was raised

clockVars == <<minute>>
supVars == <<sup, first, result, exited>>
taskVars == <<channel, task, outcome>>
collectorVars == <<cpc, open, hand, report, complete>>
monitorVars == <<mpc, sampled>>
alertVars == <<alert, gate, lateMails>>
vars == <<minute, stop, supVars, taskVars, database, collectorVars, monitorVars,
          alertVars, failed>>

NoBucket == [minute |-> 0, complete |-> FALSE]
NoAlert == [st |-> "none", end |-> 0, missing |-> {}, tried |-> FALSE]
Unsendable == [NoAlert EXCEPT !.st = "unsendable"]

Init ==
  /\ minute = 0 /\ stop = FALSE
  /\ sup = "verify" /\ first = FALSE /\ result = None /\ exited = FALSE
  /\ channel = <<>> /\ task = [t \in Tasks |-> "off"]
  /\ outcome = [t \in Tasks |-> None] /\ database = "off"
  /\ cpc = "scan" /\ open = 0 /\ hand = NoBucket
  /\ report = None /\ complete = {}
  /\ mpc = "sample" /\ sampled = 0
  /\ alert = [a \in Alerts |-> NoAlert] /\ gate = None
  /\ failed = {} /\ lateMails = 0

-----------------------------------------------------------------------------
(* Environment                                                             *)

(* Bound: a scan misses at most one whole minute.                          *)
MaxSkipped == 1

Tick ==
  /\ ~exited /\ minute < MaxMinute /\ minute' = minute + 1
  /\ minute <= open + MaxSkipped \/ task["collector"] # "running"
  /\ UNCHANGED <<stop, supVars, taskVars, database, collectorVars, monitorVars, alertVars, failed>>

(* SIGTERM or SIGINT, once the handlers are registered.                    *)
Signal ==
  /\ ~stop /\ ~exited /\ sup # "verify" /\ stop' = TRUE
  /\ UNCHANGED <<minute, supVars, taskVars, database, collectorVars, monitorVars, alertVars, failed>>

-----------------------------------------------------------------------------
(* The two long-running threads                                            *)

Return(t, how) ==
  /\ task' = [task EXCEPT ![t] = "returned"] /\ outcome' = [outcome EXCEPT ![t] = how]
  /\ UNCHANGED channel

Fails(t) == Return(t, "err") /\ failed' = failed \union {t}

(* A panic unwinds past the send: the sender is dropped, no message goes.  *)
Panic(t) ==
  /\ "panic" \in Faults /\ Cardinality(failed) < MaxFailures
  /\ task[t] = "running" /\ ~exited
  /\ task' = [task EXCEPT ![t] = "finished"] /\ outcome' = [outcome EXCEPT ![t] = "panic"]
  /\ failed' = failed \union {t}
  /\ UNCHANGED <<minute, stop, supVars, channel, database, collectorVars, monitorVars, alertVars>>

(* The closure sends the exit message; then the thread is finished.        *)
SendExit(t) ==
  /\ task[t] = "returned" /\ ~exited
  /\ channel' = Append(channel, [task |-> t, ok |-> outcome[t] = "ok"])
  /\ task' = [task EXCEPT ![t] = "finished"]
  /\ UNCHANGED <<minute, stop, supVars, outcome, database, collectorVars, monitorVars, alertVars, failed>>

(* A submission that does not succeed: the batch is refused or fails, or   *)
(* the writer thread dies of it.                                           *)
SubmitFails(t) ==
  /\ Fails(t)
  /\ \/ database # "up" /\ UNCHANGED database
     \/ /\ Cardinality(failed) < MaxFailures /\ database = "up"
        /\ \/ "producer" \in Faults /\ UNCHANGED database
           \/ "database" \in Faults /\ database' \in {"dead", "panicked"}

-----------------------------------------------------------------------------
(* WriterCollector::run, its scans reduced to the minute they fall in      *)

Running(t) == task[t] = "running" /\ ~exited

CollectorLeaves ==
  /\ Running("collector") /\ cpc = "scan" /\ stop /\ Return("collector", "ok")
  /\ UNCHANGED <<minute, stop, supVars, database, collectorVars, monitorVars, alertVars, failed>>

(* The first scan of a later minute closes the bucket.  It is incomplete   *)
(* if it is the one the process started in, if a whole minute was skipped, *)
(* or for any reason a scan may have.                                      *)
CollectorCloses ==
  /\ Running("collector") /\ cpc = "scan" /\ minute > open
  /\ \E whole \in IF minute > open + 1 \/ report = None THEN {FALSE}
                   ELSE IF "gap" \in Faults THEN BOOLEAN ELSE {TRUE} :
       hand' = [minute |-> open, complete |-> whole]
  /\ open' = minute /\ cpc' = "submit"
  /\ UNCHANGED <<minute, stop, supVars, taskVars, database, report, complete, monitorVars,
                 alertVars, failed>>

(* A bucket that is complete for nobody has no batch.  When the daemon     *)
(* stops, the bucket in hand is given up.                                  *)
CollectorSubmits ==
  /\ Running("collector") /\ cpc = "submit"
  /\ UNCHANGED <<minute, stop, supVars, open, hand, report, monitorVars, alertVars>>
  /\ \/ /\ stop /\ Return("collector", "ok")
        /\ UNCHANGED <<database, cpc, complete, failed>>
     \/ /\ ~hand.complete /\ ~stop /\ cpc' = "publish"
        /\ UNCHANGED <<taskVars, database, complete, failed>>
     \/ /\ hand.complete /\ database = "up" /\ cpc' = "publish"
        /\ complete' = complete \union {hand.minute}
        /\ UNCHANGED <<taskVars, database, failed>>
     \/ /\ hand.complete /\ SubmitFails("collector")
        /\ complete' \in {complete, complete \union {hand.minute}} /\ UNCHANGED cpc

(* Mutant: reports the end of the minute that is still open.               *)
CollectorPublishesOpen ==
  /\ Running("collector") /\ cpc = "publish" /\ cpc' = "scan"
  /\ report' = [end |-> open + 1, complete |-> hand.complete] /\ hand' = NoBucket
  /\ UNCHANGED <<minute, stop, supVars, taskVars, database, open, complete, monitorVars,
                 alertVars, failed>>

CollectorPublishes ==
  /\ Running("collector") /\ cpc = "publish" /\ cpc' = "scan"
  /\ report' = [end |-> hand.minute + 1, complete |-> hand.complete] /\ hand' = NoBucket
  /\ UNCHANGED <<minute, stop, supVars, taskVars, database, open, complete, monitorVars,
                 alertVars, failed>>

Collector == CollectorLeaves \/ CollectorCloses \/ CollectorSubmits \/ CollectorPublishes

-----------------------------------------------------------------------------
(* SmartMonitorTask::run, reduced to the samples that exceed the threshold *)

MonitorLeaves ==
  /\ Running("monitor") /\ mpc = "sample" /\ stop /\ Return("monitor", "ok")
  /\ UNCHANGED <<minute, stop, supVars, database, collectorVars, monitorVars, alertVars, failed>>

MonitorSamples ==
  /\ Running("monitor") /\ mpc = "sample"
  /\ \E a \in Alerts : alert[a].st = "none"
  /\ sampled' = minute /\ mpc' = "submit"
  /\ UNCHANGED <<minute, stop, supVars, taskVars, database, collectorVars, alertVars, failed>>

(* handle_threshold follows the acknowledgement: a task of its own on the  *)
(* runtime's blocking threads.                                             *)
RaisesAlert ==
  LET a == CHOOSE n \in Alerts : alert[n].st = "none" /\ \A m \in 1 .. n - 1 : alert[m].st # "none"
  IN alert' = [alert EXCEPT ![a] = [NoAlert EXCEPT !.st = "waiting", !.end = sampled]]

MonitorSubmits ==
  /\ Running("monitor") /\ mpc = "submit" /\ mpc' = "sample" /\ sampled' = 0
  /\ UNCHANGED <<minute, stop, supVars, collectorVars, gate, lateMails>>
  /\ \/ stop /\ Return("monitor", "ok") /\ UNCHANGED <<database, alert, failed>>
     \/ database = "up" /\ RaisesAlert /\ UNCHANGED <<taskVars, database, failed>>
     \/ SubmitFails("monitor") /\ UNCHANGED alert

Monitor == MonitorLeaves \/ MonitorSamples \/ MonitorSubmits

-----------------------------------------------------------------------------
(* The alert tasks                                                         *)

Live(a, st) == alert[a].st = st /\ ~exited
Goes(a, st) == alert' = [alert EXCEPT ![a].st = st]
AlertFrame == UNCHANGED <<minute, stop, supVars, taskVars, database, collectorVars, monitorVars, failed>>

(* Mutants of the wait: for its own report only, for the minute before.    *)
ProcessedExactly(a) == report # None /\ report.end = alert[a].end
ProcessedMinuteBefore(a) == report # None /\ report.end >= alert[a].end - 1

(* wait_until_processed: the tracker keeps the latest report only, so a    *)
(* later one ends the wait too; the report is looked at before the flag.   *)
(* The look at the flag before the wait is the loop's own.                 *)
Processed(a) == report # None /\ report.end >= alert[a].end

AlertWaits(a) ==
  /\ Live(a, "waiting")
  /\ \/ Processed(a) /\ Goes(a, "rank")
     \/ ~Processed(a) /\ stop /\ Goes(a, "done")
  /\ UNCHANGED <<gate, lateMails>> /\ AlertFrame

(* query_top_writers: the ranking is refused unless every minute of the    *)
(* window has its completeness marker.  A query that fails, like one that  *)
(* is refused, only changes the text of the mail.  A mail that cannot be    *)
(* written (an address of the configuration does not parse) is given up;   *)
(* the flag is looked at once it is ready.                                 *)
Window(end) == (end - Lookback) .. (end - 1)

AlertRanks(a) ==
  /\ Live(a, "rank")
  /\ \/ \E missing \in {IF alert[a].end < Lookback THEN {} ELSE Window(alert[a].end) \ complete}
                       \union (IF "query" \in Faults THEN {{}} ELSE {}) :
          alert' = [alert EXCEPT ![a] = [NoAlert EXCEPT
                      !.st = IF stop THEN "done" ELSE "atGate", !.missing = missing]]
     \/ "message" \in Faults /\ alert' = [alert EXCEPT ![a] = Unsendable]
  /\ UNCHANGED <<gate, lateMails>> /\ AlertFrame

(* Mutant: the flag is not looked at again behind the gate.                *)
AlertLocksUnchecked(a) ==
  /\ Live(a, "atGate") /\ gate = None /\ gate' = a /\ Goes(a, "cleared")
  /\ UNCHANGED lateMails /\ AlertFrame

(* The gate is taken and the flag looked at once more behind it.           *)
AlertLocks(a) ==
  /\ Live(a, "atGate") /\ gate = None
  /\ IF stop THEN Goes(a, "done") /\ UNCHANGED gate ELSE Goes(a, "cleared") /\ gate' = a
  /\ UNCHANGED lateMails /\ AlertFrame

(* run_alert_mail_attempt: one send_mail, whatever its outcome, which is   *)
(* only logged; then the gate is left.  A stop may have come since.        *)
AlertSends(a) ==
  /\ Live(a, "cleared")
  /\ alert' = [alert EXCEPT ![a].st = "done", ![a].tried = TRUE] /\ gate' = None
  /\ lateMails' = lateMails + (IF stop THEN 1 ELSE 0)
  /\ AlertFrame

Alert(a) == AlertWaits(a) \/ AlertRanks(a) \/ AlertLocks(a) \/ AlertSends(a)

-----------------------------------------------------------------------------
(* run_daemon: startup                                                     *)

MainFrame == UNCHANGED <<minute, collectorVars, monitorVars, alertVars>>

(* The early returns with an error.  What the startup holds is dropped;    *)
(* the process ends with it.                                               *)
GiveUp == sup' = "returned" /\ result' = "err" /\ failed' = failed \union {"startup"}

(* Devices are verified before the signal handlers are registered; then    *)
(* the database starts, the devices are prepared, the rank limit checked.  *)
Prepare ==
  /\ sup \in {"verify", "start", "prepare"}
  /\ \/ /\ sup' = CASE sup = "verify" -> "start" [] sup = "start" -> "prepare"
                    [] sup = "prepare" -> "spawnCollector"
        /\ database' = IF sup = "start" THEN "up" ELSE database
        /\ UNCHANGED <<result, failed>>
     \/ "startup" \in Faults /\ GiveUp /\ UNCHANGED database
  /\ UNCHANGED <<stop, first, exited, taskVars>> /\ MainFrame

(* A thread that cannot be spawned undoes what was started before it.      *)
SpawnCollector ==
  /\ sup = "spawnCollector"
  /\ \/ /\ task' = [task EXCEPT !["collector"] = "running"]
        /\ sup' = "spawnMonitor" /\ open' = minute
        /\ UNCHANGED <<result, failed, database>>
     \/ /\ "startup" \in Faults /\ GiveUp /\ database' = "ended" /\ UNCHANGED <<task, open>>
  /\ UNCHANGED <<minute, stop, first, exited, channel, outcome, cpc, hand, report, complete,
                 monitorVars, alertVars>>

SpawnMonitor ==
  /\ sup = "spawnMonitor"
  /\ \/ /\ task' = [task EXCEPT !["monitor"] = "running"] /\ sup' = "receive"
        /\ UNCHANGED <<result, stop, failed>>
     \/ /\ "startup" \in Faults /\ stop' = TRUE
        /\ failed' = failed \union {"startup"} /\ sup' = "undoMonitor"
        /\ UNCHANGED <<result, task>>
  /\ UNCHANGED <<first, exited, channel, outcome, database>> /\ MainFrame

UndoMonitor ==
  /\ sup = "undoMonitor" /\ task["collector"] = "finished"
  /\ database' = IF database = "up" THEN "ended" ELSE database
  /\ sup' = "returned" /\ result' = "err"
  /\ UNCHANGED <<stop, first, exited, taskVars, failed>> /\ MainFrame

-----------------------------------------------------------------------------
(* supervise_long_tasks                                                    *)

(* TaskExit::into_failure                                                  *)
IsFailure(exit, stopping) == ~exit.ok \/ ~stopping

Supervised(next, failure) ==
  /\ sup' = next /\ first' = (first \/ failure) /\ stop' = (stop \/ failure)
  /\ UNCHANGED <<result, exited, task, outcome, database, failed>> /\ MainFrame

Receives == channel # <<>> /\ channel' = Tail(channel)
SendersGone == \A t \in Tasks : task[t] = "finished"

(* try_recv at the top of the loop and recv_timeout at its end give the    *)
(* same answers and are one step: an exit message ends the supervision; so *)
(* does a channel without senders; so does the flag that is looked at next. *)
SupReceive ==
  /\ sup = "receive"
  /\ \/ Receives /\ Supervised("join", IsFailure(Head(channel), stop))
     \/ /\ channel = <<>> /\ SendersGone /\ UNCHANGED channel
        /\ Supervised("join", ~stop)
     \/ /\ channel = <<>> /\ ~SendersGone /\ UNCHANGED channel
        /\ Supervised(IF stop THEN "join" ELSE "checkTasks", FALSE)

SomeFinished == database \in {"dead", "panicked"} \/ \E t \in Tasks : task[t] = "finished"

SupCheckTasks ==
  /\ sup = "checkTasks" /\ UNCHANGED channel
  /\ Supervised(IF SomeFinished THEN "receiveAgain" ELSE "receive", FALSE)

(* Mutant: a finished thread is a failure without looking for its message. *)
SupFinishedFails ==
  /\ sup = "receiveAgain" /\ UNCHANGED channel /\ Supervised("join", TRUE)

(* Mutant: a finished thread without a message is waited for.              *)
SupReceiveAgainOrWait ==
  /\ sup = "receiveAgain"
  /\ \/ Receives /\ Supervised("join", IsFailure(Head(channel), stop))
     \/ channel = <<>> /\ UNCHANGED channel /\ Supervised("receive", FALSE)

(* A finished thread has sent its message before, if it sends one at all.  *)
SupReceiveAgain ==
  /\ sup = "receiveAgain"
  /\ \/ Receives /\ Supervised("join", IsFailure(Head(channel), stop))
     \/ channel = <<>> /\ UNCHANGED channel /\ Supervised("join", TRUE)

-----------------------------------------------------------------------------
(* run_daemon: shutdown                                                    *)

JoinTasks ==
  /\ sup = "join" /\ sup' = "shutdown" /\ \A t \in Tasks : task[t] = "finished"
  /\ UNCHANGED <<stop, first, result, exited, taskVars, database, failed>> /\ MainFrame

(* Messages that came late count only as errors: the stop is known.        *)
LateFailures == \E i \in DOMAIN channel : IsFailure(channel[i], TRUE)

(* The handles are gone, so the writer ends; it may take too long.         *)
Shutdown ==
  /\ sup = "shutdown"
  /\ LET joined == \A t \in Tasks : outcome[t] # "panic"
     IN \/ /\ database' = IF database = "up" THEN "ended" ELSE database
           /\ first' = (first \/ LateFailures \/ ~joined \/ database \in {"dead", "panicked"})
           /\ UNCHANGED failed
        \/ /\ "slow" \in Faults /\ database = "up" /\ UNCHANGED database
           /\ first' = TRUE /\ failed' = failed \union {"shutdown"}
  /\ channel' = <<>> /\ sup' = "returned" /\ result' = IF first' THEN "err" ELSE "ok"
  /\ UNCHANGED <<stop, exited, task, outcome>> /\ MainFrame

(* After an error main calls process::exit and alert tasks are cut off;    *)
(* otherwise the runtime is dropped, which waits for them.  Either way the *)
(* memory of the process is gone.                                          *)
AlertsOver == \A a \in Alerts : alert[a].st \in {"none", "done", "unsendable"}

Exit ==
  /\ sup = "returned" /\ ~exited /\ (result = "err" \/ AlertsOver)
  /\ exited' = TRUE /\ alert' = [a \in Alerts |-> NoAlert] /\ gate' = None /\ report' = None
  /\ hand' = NoBucket /\ cpc' = "scan" /\ open' = 0
  /\ UNCHANGED <<minute, stop, sup, first, result, taskVars, database, complete, monitorVars,
                 lateMails, failed>>

Main ==
  \/ Prepare \/ SpawnCollector \/ SpawnMonitor \/ UndoMonitor
  \/ SupReceive \/ SupCheckTasks \/ SupReceiveAgain
  \/ JoinTasks \/ Shutdown \/ Exit

Next ==
  \/ Tick \/ Signal \/ Main \/ Collector \/ Monitor
  \/ \E t \in Tasks : SendExit(t) \/ Panic(t)
  \/ \E a \in Alerts : Alert(a)

Spec == Init /\ [][Next]_vars

(* Every thread is scheduled and each of its steps terminates; a mail is   *)
(* given up after a bounded number of attempts; time passes.               *)
Fairness ==
  /\ WF_vars(Tick) /\ WF_vars(Main) /\ WF_vars(Collector)
  /\ WF_vars(MonitorLeaves) /\ WF_vars(MonitorSubmits)
  /\ \A t \in Tasks : WF_vars(SendExit(t))
  /\ \A a \in Alerts : WF_vars(Alert(a))

FairSpec == Spec /\ Fairness

-----------------------------------------------------------------------------
(* Properties                                                              *)

AlertStates == {"none", "waiting", "rank", "atGate", "cleared", "done", "unsendable"}

TypeOK ==
  /\ minute \in Minutes /\ stop \in BOOLEAN /\ first \in BOOLEAN /\ exited \in BOOLEAN
  /\ sup \in {"verify", "start", "prepare", "spawnCollector", "spawnMonitor", "undoMonitor",
              "receive", "checkTasks", "receiveAgain", "join",
              "shutdown", "returned"}
  /\ result \in {None, "ok", "err"}
  /\ channel \in Seq([task : Tasks, ok : BOOLEAN]) /\ Len(channel) <= Cardinality(Tasks)
  /\ task \in [Tasks -> {"off", "running", "returned", "finished"}]
  /\ outcome \in [Tasks -> {None, "ok", "err", "panic"}]
  /\ database \in {"off", "up", "dead", "panicked", "ended"}
  /\ cpc \in {"scan", "submit", "publish"} /\ open \in Minutes
  /\ hand \in [minute : Minutes, complete : BOOLEAN]
  /\ report \in {None} \union [end : 1 .. MaxMinute, complete : BOOLEAN]
  /\ complete \subseteq Minutes
  /\ mpc \in {"sample", "submit"} /\ sampled \in Minutes
  /\ alert \in [Alerts -> [st : AlertStates, end : Minutes,
                           missing : SUBSET (-Lookback .. MaxMinute), tried : BOOLEAN]]
  /\ gate \in {None} \union Alerts
  /\ failed \subseteq Tasks \union {"startup", "shutdown"} /\ lateMails \in Nat

(* The exit status tells the truth: the daemon ends cleanly only if it was  *)
(* asked to stop and no thread failed, panicked or lost its database, and  *)
(* it ends with an error only if something did go wrong, however the exit  *)
(* messages, the end of the threads and a signal fall into the             *)
(* supervisor's loop.                                                      *)
TruthfulExit ==
  /\ result = "ok"  => failed = {} /\ stop
  /\ result = "err" => failed # {}

(* An alert that reports its history as incomplete did not ask too early:  *)
(* a minute it missed is never recorded later.                             *)
NeverAskedTooEarly == \A a \in Alerts : alert[a].missing \intersect complete = {}

(* Among the other threads, with panics, failed spawns, a stop or the end  *)
(* of the process at any moment, the collector closes, records and reports *)
(* minutes as WriterCollector does (BucketContract).                       *)
One(whole) == IF whole THEN {"device"} ELSE {}

CollectorPhase ==
  CASE ~Running("collector") -> "over"
    [] Running("collector") /\ cpc = "scan" -> "open"
    [] Running("collector") /\ cpc = "submit" -> "closed"
    [] Running("collector") /\ cpc = "publish" -> "saved"

CollectorHand ==
  IF CollectorPhase \in {"closed", "saved"}
    THEN [bucket |-> hand.minute, complete |-> One(hand.complete)] ELSE None

OpenBucket == IF exited THEN minute ELSE open

TrackerReport ==
  IF report = None THEN None ELSE [end |-> report.end, complete |-> One(report.complete)]

Buckets ==
  INSTANCE BucketContract WITH
    Devices <- {"device"}, Times <- Minutes,
    phase <- CollectorPhase, open <- OpenBucket, hand <- CollectorHand,
    recorded <- complete \X {"device"}, report <- TrackerReport

KeepsBuckets == Buckets!Spec

(* However many alerts wait at the gate, a stop lets at most the one       *)
(* through that had passed the last look at the flag.                      *)
OneMailAfterStop == lateMails <= 1

(* An alert whose minute can still pass is tried, even if its own boundary *)
(* report was missed or its ranking failed; only a stop prevents it, or a  *)
(* mail that cannot be written.                                            *)
EveryAlertIsTried ==
  \A a \in Alerts : (alert[a].st = "waiting" /\ alert[a].end < MaxMinute)
                      ~> (alert[a].tried \/ stop \/ alert[a].st = "unsendable")

(* A stop, or the end of any of the threads, ends the process.             *)
DaemonEnds == (stop \/ failed # {}) ~> exited
=============================================================================
