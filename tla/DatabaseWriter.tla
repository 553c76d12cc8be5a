--------------------------- MODULE DatabaseWriter ---------------------------
(***************************************************************************)
(* src/src/database/mod.rs and task.rs: the bounded FIFO between the       *)
(* producer threads (SMART monitor, writer collector) and the one thread   *)
(* that owns the SQLite write connection.                                  *)
(*                                                                         *)
(* A batch is <<p, n>>, the n-th batch of producer p.  A SMART batch is    *)
(* one row; a bucket batch is the amount rows followed by the              *)
(* "bucket complete" marker.  Each batch has rows of its own: a producer's *)
(* timestamps are distinct, so an upsert of the same batch is idempotent.  *)
(***************************************************************************)
EXTENDS Integers, Sequences, FiniteSets

CONSTANTS
  Producers,        \* threads that hold a clone of DatabaseHandle
  Devices,          \* NVMe devices
  SmartProducers,   \* the producers that submit SMART samples
  DeviceOf,         \* the device a SMART producer samples
  InvalidBatches,   \* batches that validate_batch rejects
  Capacity,         \* DATABASE_QUEUE_CAPACITY
  MaxAttempts,      \* MAX_BATCH_ATTEMPTS
  MaxReplays,       \* MAX_ACK_REPLAY_ATTEMPTS
  MaxBatches,       \* bound: batches per producer
  MaxCrashes,       \* bound: process deaths
  NoRequest         \* the writer thread has no request in hand

Batch == Producers \X (1 .. MaxBatches)

ASSUME DatabaseAssumption ==
  /\ SmartProducers \subseteq Producers
  /\ DeviceOf \in [SmartProducers -> Devices]
  /\ InvalidBatches \subseteq Batch
  /\ Capacity \in Nat \ {0}
  /\ MaxAttempts \in Nat \ {0}
  /\ MaxReplays \in Nat \ {0}
  /\ MaxBatches \in Nat
  /\ MaxCrashes \in Nat

Request == [prod : Producers, num : 1 .. MaxBatches, reopen : BOOLEAN]
ASSUME NoRequestAssumption == NoRequest \notin Request

VARIABLES
  \* shared between the threads
  stop,          \* the daemon's stop flag
  queue,         \* the bounded channel of requests
  receiving,     \* the receiver half of the channel still exists
  pendingSmart,  \* DatabaseHandle.pending_smart
  unconfirmed,   \* DatabaseHandle.unconfirmed_requests
  \* each producer, inside submit_inner
  pc, num, attempt, uncertain,
  ack,           \* the one-slot answer channel of the current attempt
  progress,      \* DbRequest.progress of the current attempt
  \* the writer thread
  wpc, cur, tries, verdict, connected, staged,
  \* the main thread, after it has joined the producers
  shutdown,
  \* SQLite's durable rows, and the number of process deaths so far
  db, crashes,
  \* history: what the submitter of each batch was told
  outcome

sharedVars   == <<stop, queue, receiving, pendingSmart, unconfirmed>>
producerVars == <<pc, num, attempt, uncertain, ack, progress>>
writerVars   == <<wpc, cur, tries, verdict, connected, staged>>
dbVars       == <<db, crashes>>
vars == <<sharedVars, producerVars, writerVars, shutdown, dbVars, outcome>>

-----------------------------------------------------------------------------
(* Vocabulary                                                              *)

Rows(b) == IF b[1] \in SmartProducers
             THEN {<<b, "sample">>}
             ELSE {<<b, "amount">>, <<b, "marker">>}

AllRows == UNION {Rows(b) : b \in Batch}

Batched(req) == <<req.prod, req.num>>

Current(p) == <<p, num[p]>>

TransactionErrors == {"busy", "recoverable", "fatal"}
WriterErrors == TransactionErrors \union {"unknown", "rollback", "open", "invalid"}

(* Mutant: a failed reopen does not end the writer thread.                 *)
FatalButForOpen(e) == e \notin {"ok", "busy", "open"}

(* Every error but a bare Busy ends the writer thread.                     *)
ConnectionFatal(e) == e \notin {"ok", "busy"}

(* The answers after which the caller may rely on the batch being absent.  *)
Refusals == {"stopped", "queueClosed", "invalid"}

OutcomeOf(answer) == CASE answer = "ok" -> "acked"
                       [] answer \in Refusals -> "refused"
                       [] OTHER -> "failed"

InFlight == {p \in Producers : pc[p] \in {"admit", "send", "wait", "replay"}}

PendingDevice(p) == IF p \in SmartProducers THEN {DeviceOf[p]} ELSE {}

-----------------------------------------------------------------------------
Init ==
  /\ stop = FALSE /\ queue = <<>> /\ receiving = TRUE
  /\ pendingSmart = {} /\ unconfirmed = 0
  /\ pc = [p \in Producers |-> "idle"]
  /\ num = [p \in Producers |-> 0]
  /\ attempt = [p \in Producers |-> 0]
  /\ uncertain = [p \in Producers |-> FALSE]
  /\ ack = [p \in Producers |-> "none"]
  /\ progress = [p \in Producers |-> "queued"]
  /\ wpc = "recv" /\ cur = NoRequest /\ tries = MaxAttempts
  /\ verdict = "ok" /\ connected = TRUE /\ staged = {}
  /\ shutdown = "running"
  /\ db = {} /\ crashes = 0
  /\ outcome = [b \in Batch |-> "none"]

-----------------------------------------------------------------------------
(* Producers: DatabaseHandle::submit_inner                                 *)

(* The prologue: a SMART device may have only one submission in hand.      *)
Submit(p) ==
  /\ pc[p] = "idle" /\ num[p] < MaxBatches
  /\ num' = [num EXCEPT ![p] = @ + 1]
  /\ IF PendingDevice(p) \cap pendingSmart = {}
       THEN /\ pendingSmart' = pendingSmart \union PendingDevice(p)
            /\ unconfirmed' = unconfirmed + 1
            /\ pc' = [pc EXCEPT ![p] = "admit"]
            /\ outcome' = [outcome EXCEPT ![<<p, num[p] + 1>>] = "inflight"]
       ELSE /\ pc' = [pc EXCEPT ![p] = "done"]
            /\ outcome' = [outcome EXCEPT ![<<p, num[p] + 1>>] = "refused"]
            /\ UNCHANGED <<pendingSmart, unconfirmed>>
  /\ UNCHANGED <<stop, queue, receiving, attempt, uncertain, ack, progress,
                 writerVars, shutdown, dbVars>>

(* Mutant: the drop forgets the device.                                    *)
ReleaseCountOnly(p) ==
  unconfirmed' = unconfirmed - 1 /\ UNCHANGED pendingSmart

(* PendingSubmission::drop                                                 *)
Release(p) ==
  /\ pendingSmart' = pendingSmart \ PendingDevice(p)
  /\ unconfirmed' = unconfirmed - 1

(* Leaving submit_inner drops PendingSubmission; the producer threads end  *)
(* on every answer but a CommitAck.                                        *)
Return(p, answer) ==
  /\ pc' = [pc EXCEPT ![p] = IF answer = "ok" THEN "idle" ELSE "done"]
  /\ attempt' = [attempt EXCEPT ![p] = 0]
  /\ uncertain' = [uncertain EXCEPT ![p] = FALSE]
  /\ ack' = [ack EXCEPT ![p] = "none"]
  /\ progress' = [progress EXCEPT ![p] = "queued"]
  /\ Release(p)
  /\ outcome' = [outcome EXCEPT ![Current(p)] = OutcomeOf(answer)]
  /\ UNCHANGED num

(* The admission loop reads the stop flag and then, separately, tries to   *)
(* send: the flag may be raised in between.                                *)
Admit(p) ==
  /\ pc[p] = "admit"
  /\ \/ stop /\ Return(p, "stopped")
     \/ /\ ~stop
        /\ pc' = [pc EXCEPT ![p] = "send"]
        /\ UNCHANGED <<num, attempt, uncertain, ack, progress,
                       pendingSmart, unconfirmed, outcome>>
  /\ UNCHANGED <<stop, queue, receiving, writerVars, shutdown, dbVars>>

Enqueue(p) ==
  /\ Len(queue) < Capacity
  /\ queue' = Append(queue, [prod |-> p, num |-> num[p], reopen |-> attempt[p] > 0])
  /\ pc' = [pc EXCEPT ![p] = "wait"]
  /\ ack' = [ack EXCEPT ![p] = "none"]
  /\ progress' = [progress EXCEPT ![p] = "queued"]
  /\ UNCHANGED <<num, attempt, uncertain, pendingSmart, unconfirmed, outcome>>

TrySend(p) ==
  /\ pc[p] = "send"
  /\ \/ receiving /\ Enqueue(p)
     \/ /\ receiving /\ Len(queue) >= Capacity
        /\ pc' = [pc EXCEPT ![p] = "admit"]
        /\ UNCHANGED <<queue, num, attempt, uncertain, ack, progress,
                       pendingSmart, unconfirmed, outcome>>
     \/ ~receiving /\ Return(p, "queueClosed") /\ UNCHANGED queue
  /\ UNCHANGED <<stop, receiving, writerVars, shutdown, dbVars>>

(* A replay uses the blocking send and no longer looks at the stop flag.   *)
Replay(p) ==
  /\ pc[p] = "replay"
  /\ \/ receiving /\ Enqueue(p)
     \/ ~receiving /\ Return(p, "ackLost") /\ UNCHANGED queue
  /\ UNCHANGED <<stop, receiving, writerVars, shutdown, dbVars>>

(* Mutant: forgets that an earlier attempt may have been executed.         *)
ClosedMeansRefused(p) == IF progress[p] = "queued" THEN "queueClosed" ELSE "ackLost"

(* A queued attempt that vanished was never executed, unless an earlier    *)
(* attempt of the same batch may have been.                                *)
ClosedAcknowledgementError(p) ==
  IF progress[p] = "queued" /\ ~uncertain[p] THEN "queueClosed" ELSE "ackLost"

(* Mutant: gives up waiting after a while and replays.                     *)
AwaitWithTimeout(p) ==
  /\ pc[p] = "wait"
  /\ \/ ack[p] # "none" /\ Return(p, ack[p])
     \/ /\ attempt[p] + 1 < MaxReplays
        /\ pc' = [pc EXCEPT ![p] = "replay"]
        /\ attempt' = [attempt EXCEPT ![p] = @ + 1]
        /\ UNCHANGED <<num, uncertain, ack, progress, pendingSmart, unconfirmed, outcome>>
  /\ UNCHANGED <<stop, queue, receiving, writerVars, shutdown, dbVars>>

Await(p) ==
  /\ pc[p] = "wait" /\ ack[p] # "none"
  /\ \/ ack[p] # "dropped" /\ Return(p, ack[p])
     \/ /\ ack[p] = "dropped"
        /\ progress[p] = "queued" \/ attempt[p] + 1 = MaxReplays
        /\ Return(p, ClosedAcknowledgementError(p))
     \/ /\ ack[p] = "dropped" /\ progress[p] = "executing"
        /\ attempt[p] + 1 < MaxReplays
        /\ pc' = [pc EXCEPT ![p] = "replay"]
        /\ attempt' = [attempt EXCEPT ![p] = @ + 1]
        /\ uncertain' = [uncertain EXCEPT ![p] = TRUE]
        /\ UNCHANGED <<num, ack, progress, pendingSmart, unconfirmed, outcome>>
  /\ UNCHANGED <<stop, queue, receiving, writerVars, shutdown, dbVars>>

(* Between submissions a producer notices the stop flag and ends.          *)
Leave(p) ==
  /\ pc[p] = "idle" /\ stop
  /\ pc' = [pc EXCEPT ![p] = "done"]
  /\ UNCHANGED <<sharedVars, num, attempt, uncertain, ack, progress,
                 writerVars, shutdown, dbVars, outcome>>

-----------------------------------------------------------------------------
(* The writer thread: run_writer, process_request, execute_transaction     *)

KeepWriterEnv ==
  /\ UNCHANGED <<stop, pendingSmart, unconfirmed, pc, num, attempt, uncertain,
                 shutdown, crashes, outcome>>

(* validate_batch comes before the first transaction.                      *)
Start(req) ==
  IF Batched(req) \in InvalidBatches
    THEN wpc' = "reply" /\ verdict' = "invalid"
    ELSE wpc' = "begin" /\ UNCHANGED verdict

Receive ==
  /\ wpc = "recv" /\ queue # <<>>
  /\ cur' = Head(queue) /\ queue' = Tail(queue)
  /\ progress' = [progress EXCEPT ![Head(queue).prod] = "executing"]
  /\ tries' = MaxAttempts
  /\ IF Head(queue).reopen
       THEN wpc' = "reopen" /\ UNCHANGED verdict
       ELSE Start(Head(queue))
  /\ KeepWriterEnv /\ UNCHANGED <<receiving, ack, connected, staged, db>>

(* Mutants: one attempt too many; no limit on Busy; an unknown COMMIT is   *)
(* taken for a done one.                                                   *)
HandleOnceMore(e) ==
  IF e \in {"busy", "recoverable", "unknown"} /\ tries > 0
    THEN tries' = tries - 1 /\ wpc' = "reopen" /\ UNCHANGED verdict
    ELSE wpc' = "reply" /\ verdict' = e /\ UNCHANGED tries

HandleBusyForever(e) ==
  IF e = "busy"
    THEN wpc' = "begin" /\ UNCHANGED <<tries, verdict>>
    ELSE wpc' = "reply" /\ verdict' = e /\ UNCHANGED tries

HandleUnknownAsDone(e) ==
  /\ wpc' = "reply" /\ verdict' = IF e = "unknown" THEN "ok" ELSE e
  /\ UNCHANGED tries

(* What process_request does with an error: count the attempt, then retry  *)
(* the unchanged batch, on a fresh connection unless it was only Busy.     *)
Handle(e) ==
  IF e \in {"busy", "recoverable", "unknown"} /\ tries > 1
    THEN /\ tries' = tries - 1
         /\ wpc' = IF e = "busy" THEN "begin" ELSE "reopen"
         /\ UNCHANGED verdict
    ELSE /\ wpc' = "reply" /\ verdict' = e
         /\ UNCHANGED tries

(* Dropping the old connection discards its open transaction.              *)
Reopen ==
  /\ wpc = "reopen"
  /\ staged' = {}
  /\ \/ connected' = TRUE /\ Start(cur)
     \/ connected' = FALSE /\ wpc' = "reply" /\ verdict' = "open"
  /\ KeepWriterEnv /\ UNCHANGED <<queue, receiving, ack, progress, cur, tries, db>>

Begin ==
  /\ wpc = "begin"
  /\ \/ wpc' = "body" /\ UNCHANGED <<tries, verdict>>
     \/ \E e \in TransactionErrors : Handle(e)
  /\ KeepWriterEnv
  /\ UNCHANGED <<queue, receiving, ack, progress, cur, connected, staged, db>>

(* Mutant: every statement commits by itself.                              *)
BodyAutocommit ==
  /\ wpc = "body"
  /\ \/ \E row \in Rows(Batched(cur)) \ staged :
           /\ staged' = staged \union {row} /\ db' = db \union {row}
           /\ wpc' = IF staged' = Rows(Batched(cur)) THEN "commit" ELSE "body"
           /\ UNCHANGED verdict
     \/ wpc' = "rollback" /\ verdict' \in TransactionErrors /\ UNCHANGED <<staged, db>>
  /\ KeepWriterEnv /\ UNCHANGED <<queue, receiving, ack, progress, cur, tries, connected>>

(* One statement: the amounts first, the completeness marker last.         *)
Body ==
  /\ wpc = "body"
  /\ \/ \E row \in Rows(Batched(cur)) \ staged :
           /\ row[2] = "marker" => <<row[1], "amount">> \in staged
           /\ staged' = staged \union {row}
           /\ wpc' = IF staged' = Rows(Batched(cur)) THEN "commit" ELSE "body"
           /\ UNCHANGED verdict
     \/ /\ wpc' = "rollback" /\ verdict' \in TransactionErrors
        /\ UNCHANGED staged
  /\ KeepWriterEnv
  /\ UNCHANGED <<queue, receiving, ack, progress, cur, tries, connected, db>>

(* COMMIT: done; refused and to be rolled back; or failed in a way that    *)
(* leaves open whether the transaction is durable.                         *)
Commit ==
  /\ wpc = "commit"
  /\ \/ /\ db' = db \union staged /\ staged' = {}
        /\ wpc' = "reply" /\ verdict' = "ok"
        /\ UNCHANGED tries
     \/ /\ wpc' = "rollback" /\ verdict' \in TransactionErrors
        /\ UNCHANGED <<db, staged, tries>>
     \/ /\ db' \in {db, db \union staged} /\ staged' = {}
        /\ Handle("unknown")
  /\ KeepWriterEnv /\ UNCHANGED <<queue, receiving, ack, progress, cur, connected>>

Rollback ==
  /\ wpc = "rollback"
  /\ \/ staged' = {} /\ Handle(verdict)
     \/ wpc' = "reply" /\ verdict' = "rollback" /\ UNCHANGED <<staged, tries>>
  /\ KeepWriterEnv /\ UNCHANGED <<queue, receiving, ack, progress, cur, connected, db>>

Reply ==
  /\ wpc = "reply"
  /\ ack' = [ack EXCEPT ![cur.prod] = verdict]
  /\ wpc' = IF ConnectionFatal(verdict) THEN "closing" ELSE "recv"
  /\ cur' = NoRequest /\ verdict' = "ok"
  /\ KeepWriterEnv
  /\ UNCHANGED <<queue, receiving, progress, tries, connected, staged, db>>

(* Mutant: the thread survives the panic.                                  *)
PanicCaught ==
  /\ cur # NoRequest
  /\ ack' = [ack EXCEPT ![cur.prod] = "dropped"]
  /\ wpc' = "recv" /\ cur' = NoRequest /\ verdict' = "ok"
  /\ KeepWriterEnv
  /\ UNCHANGED <<queue, receiving, progress, tries, connected, staged, db>>

(* A panic drops the request, and with it the answer channel, before the   *)
(* receiver goes away.                                                     *)
Panic ==
  /\ cur # NoRequest
  /\ ack' = [ack EXCEPT ![cur.prod] = "dropped"]
  /\ wpc' = "closing" /\ cur' = NoRequest /\ verdict' = "ok"
  /\ KeepWriterEnv
  /\ UNCHANGED <<queue, receiving, progress, tries, connected, staged, db>>

(* Mutant: the main thread keeps a handle while it waits for the writer.   *)
AHandleIsKept == FALSE

(* The channel is closed: the producers' handles are gone with them, and   *)
(* shutdown drops its own before it waits.                                 *)
HandlesGone == shutdown # "running"

(* The thread ends: its connection and the channel's receiver are dropped, *)
(* and with the receiver every request still queued.                       *)
Close ==
  /\ \/ wpc = "closing"
     \/ wpc = "recv" /\ queue = <<>> /\ HandlesGone
  /\ wpc' = "exited" /\ receiving' = FALSE
  /\ connected' = FALSE /\ staged' = {}
  /\ queue' = <<>>
  /\ ack' = [p \in Producers |->
               IF \E i \in DOMAIN queue : queue[i].prod = p THEN "dropped" ELSE ack[p]]
  /\ KeepWriterEnv /\ UNCHANGED <<progress, cur, tries, verdict, db>>

-----------------------------------------------------------------------------
(* The main thread and the outside world                                   *)

KeepAllBut == UNCHANGED <<queue, receiving, pendingSmart, unconfirmed,
                          producerVars, writerVars, dbVars, outcome>>

(* SIGTERM, SIGINT, or the supervisor noticing that a thread has ended.    *)
Signal ==
  /\ ~stop /\ stop' = TRUE
  /\ KeepAllBut /\ UNCHANGED shutdown

(* Mutant: only the database thread is looked at.                          *)
SuperviseWriter == wpc = "exited" /\ Signal

Supervise ==
  /\ wpc = "exited" \/ \E p \in Producers : pc[p] = "done"
  /\ Signal

(* DatabaseRuntime::shutdown, once both producers are joined: the last     *)
(* handle is dropped; then main waits for the writer, or gives up.         *)
DropHandle ==
  /\ shutdown = "running" /\ stop
  /\ \A p \in Producers : pc[p] = "done"
  /\ shutdown' = "waiting"
  /\ KeepAllBut /\ UNCHANGED stop

Join ==
  /\ shutdown = "waiting"
  /\ \/ wpc = "exited" /\ shutdown' = "joined"
     \/ wpc # "exited" /\ shutdown' = "timedOut"
  /\ KeepAllBut /\ UNCHANGED stop

(* The process dies (power loss, SIGKILL) and is started again: only the   *)
(* committed rows survive.  Batch numbers go on.                           *)
Crash ==
  /\ crashes < MaxCrashes /\ crashes' = crashes + 1
  /\ stop' = FALSE /\ queue' = <<>> /\ receiving' = TRUE
  /\ pendingSmart' = {} /\ unconfirmed' = 0
  /\ pc' = [p \in Producers |-> "idle"]
  /\ attempt' = [p \in Producers |-> 0]
  /\ uncertain' = [p \in Producers |-> FALSE]
  /\ ack' = [p \in Producers |-> "none"]
  /\ progress' = [p \in Producers |-> "queued"]
  /\ wpc' = "recv" /\ cur' = NoRequest /\ tries' = MaxAttempts
  /\ verdict' = "ok" /\ connected' = TRUE /\ staged' = {}
  /\ shutdown' = "running"
  /\ outcome' = [b \in Batch |->
                   IF outcome[b] = "inflight" THEN "lost" ELSE outcome[b]]
  /\ UNCHANGED <<num, db>>

ProducerStep(p) ==
  Submit(p) \/ Admit(p) \/ TrySend(p) \/ Replay(p) \/ Await(p) \/ Leave(p)

WriterStep ==
  Receive \/ Reopen \/ Begin \/ Body \/ Commit \/ Rollback \/ Reply \/ Close

MainStep == Supervise \/ DropHandle \/ Join

Next ==
  \/ \E p \in Producers : ProducerStep(p)
  \/ WriterStep \/ Panic
  \/ Signal \/ DropHandle \/ Join
  \/ Crash

Spec == Init /\ [][Next]_vars

(* Each thread is scheduled; every step inside submit_inner and inside the *)
(* writer terminates.  Submit (the next sample), Signal, Panic and Crash   *)
(* are not owed to anyone.                                                 *)
Fairness ==
  /\ \A p \in Producers :
       WF_vars(Admit(p) \/ TrySend(p) \/ Replay(p) \/ Await(p) \/ Leave(p))
  /\ WF_vars(WriterStep)
  /\ WF_vars(MainStep)

FairSpec == Spec /\ Fairness
-----------------------------------------------------------------------------
(* Properties                                                              *)

SharedTypeOK ==
  /\ stop \in BOOLEAN /\ receiving \in BOOLEAN
  /\ queue \in Seq(Request) /\ Len(queue) <= Capacity
  /\ pendingSmart \subseteq Devices
  /\ unconfirmed \in Int

ProducerTypeOK ==
  /\ pc \in [Producers -> {"idle", "admit", "send", "wait", "replay", "done"}]
  /\ num \in [Producers -> 0 .. MaxBatches]
  /\ attempt \in [Producers -> 0 .. MaxReplays - 1]
  /\ uncertain \in [Producers -> BOOLEAN]
  /\ ack \in [Producers -> {"none", "dropped", "ok"} \union WriterErrors]
  /\ progress \in [Producers -> {"queued", "executing"}]

WriterTypeOK ==
  /\ wpc \in {"recv", "reopen", "begin", "body", "commit", "rollback",
              "reply", "closing", "exited"}
  /\ cur \in Request \union {NoRequest}
  /\ tries \in 1 .. MaxAttempts
  /\ verdict \in {"ok"} \union WriterErrors
  /\ connected \in BOOLEAN
  /\ staged \subseteq AllRows

OutcomeTypeOK ==
  /\ shutdown \in {"running", "waiting", "joined", "timedOut"}
  /\ db \subseteq AllRows
  /\ crashes \in 0 .. MaxCrashes
  /\ outcome \in [Batch -> {"none", "inflight", "acked", "refused", "failed", "lost"}]

TypeOK == SharedTypeOK /\ ProducerTypeOK /\ WriterTypeOK /\ OutcomeTypeOK

(* What a submitter was told is true of the file: a batch whose CommitAck  *)
(* was received is in it as a whole, and a batch that was refused (stop    *)
(* flag, QueueClosed, InvalidBatch) left no row at all.                    *)
AnswersAreTrue ==
  \A b \in Batch :
    /\ outcome[b] = "acked" => Rows(b) \subseteq db
    /\ outcome[b] \in {"none", "refused"} => Rows(b) \cap db = {}

(* No reader ever sees part of a batch, so a completeness marker is only   *)
(* visible with all the amounts it vouches for, through every retry,       *)
(* failed rollback, reopened connection, panic and process death.          *)
WholeBatches ==
  \A b \in Batch : Rows(b) \cap db # {} => Rows(b) \subseteq db

(* PendingSubmission gives back exactly what the prologue took on every    *)
(* way out of submit_inner: a device is blocked only while its own         *)
(* submission is in hand, and the count ShutdownTimeout reports is right.  *)
AccountingExact ==
  /\ unconfirmed = Cardinality(InFlight)
  /\ pendingSmart = UNION {PendingDevice(p) : p \in InFlight}
  /\ \A p, q \in InFlight :
        p # q => PendingDevice(p) \cap PendingDevice(q) = {}

(* The writer goes back to its queue only with an open connection: a       *)
(* failed reopen ends the thread, so process_request never meets a         *)
(* missing connection.                                                     *)
ServesConnected ==
  wpc \in {"recv", "begin", "body", "commit", "rollback"} => connected

(* The queue and the writer together hold a batch at most once, and only   *)
(* one whose submitter is waiting for it (or the writer is about to die).  *)
OneCopyInHand ==
  LET held == [i \in DOMAIN queue |-> queue[i].prod]
  IN /\ \A i, j \in DOMAIN queue : held[i] = held[j] => i = j
     /\ \A i \in DOMAIN queue :
          /\ pc[held[i]] = "wait" /\ queue[i].num = num[held[i]]
          /\ cur # NoRequest => held[i] # cur.prod
     /\ cur # NoRequest => pc[cur.prod] = "wait" /\ cur.num = num[cur.prod]

(* An answer is only ever lost when the writer thread is dying, so a       *)
(* replayed request is never executed: it ends in                          *)
(* CommitAcknowledgementLost whatever MAX_ACK_REPLAY_ATTEMPTS is.          *)
ReplayIsNeverServed ==
  /\ \A p \in Producers : attempt[p] > 0 => wpc \in {"closing", "exited"}
  /\ cur # NoRequest => ~cur.reopen

(* DatabaseHandle and the writer thread together keep the contract of a    *)
(* commit: all-or-nothing, at most once, only while the submitter waits,   *)
(* CommitAck only for a durable batch, a refusal only for an absent one.   *)
Durable == {b \in Batch : Rows(b) \subseteq db}
Contract == INSTANCE CommitContract WITH durable <- Durable
KeepsContract == Contract!Spec

(* Every submission is answered, whatever fails in the writer.             *)
EverySubmissionReturns ==
  \A p \in Producers : p \in InFlight ~> p \notin InFlight

(* Once the stop flag is up, or once any of the core threads has ended,    *)
(* the daemon gets through its shutdown, unless the process dies first: no *)
(* thread waits for one that is gone.  And when main gives up, it gives up *)
(* on a writer that is still at work and would have ended, never on one    *)
(* that waits for a request nobody can send any more: its queue is closed. *)
ShutdownFinishes ==
  \A n \in 0 .. MaxCrashes :
    (/\ crashes = n
     /\ stop \/ wpc = "exited" \/ \E p \in Producers : pc[p] = "done")
      ~> (\/ crashes > n
          \/ shutdown \in {"joined", "timedOut"} /\ wpc = "exited")
=============================================================================
