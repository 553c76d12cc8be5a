------------------------ MODULE DatabaseWriterProofs ------------------------
(***************************************************************************)
(* Theorems about DatabaseWriter, for every set of producers and devices,  *)
(* every queue capacity, every retry and replay limit, and any number of   *)
(* batches and crashes.                                                    *)
(***************************************************************************)
EXTENDS DatabaseWriter, FiniteSetTheorems, TLAPS

-----------------------------------------------------------------------------
(* The inductive invariant                                                 *)

Working == {"reopen", "begin", "body", "commit", "rollback", "reply"}

(* A request in the queue or in the writer's hand is the current attempt   *)
(* of a producer that waits for its answer.                                *)
Held(req) ==
  /\ pc[req.prod] = "wait"
  /\ num[req.prod] = req.num
  /\ ack[req.prod] = "none"

QueueHeld ==
  /\ \A i \in 1 .. Len(queue) :
       Held(queue[i]) /\ progress[queue[i].prod] = "queued"
  /\ \A i, j \in 1 .. Len(queue) : queue[i].prod = queue[j].prod => i = j

CurrentHeld ==
  /\ cur # NoRequest <=> wpc \in Working
  /\ cur # NoRequest => Held(cur) /\ progress[cur.prod] = "executing"

(* What the writer's program counter says about the batch in hand.         *)
WriterInv ==
  /\ wpc = "commit" => staged = Rows(Batched(cur))
  /\ wpc \in {"begin", "body", "commit", "rollback"} =>
       Batched(cur) \notin InvalidBatches
  /\ wpc = "rollback" => verdict \in TransactionErrors
  /\ wpc = "reply" =>
       /\ verdict = "ok" => Batched(cur) \in Durable
       /\ verdict = "invalid" => Batched(cur) \in InvalidBatches

(* What a producer's program counter says about its current batch.         *)
ProducerInv(p) ==
  /\ pc[p] \in {"admit", "send", "wait", "replay"} => num[p] # 0
  /\ pc[p] \in {"admit", "send"} => Current(p) \notin Durable
  /\ pc[p] = "wait" /\ progress[p] = "queued" /\ ~uncertain[p] =>
       Current(p) \notin Durable
  /\ pc[p] = "replay" => uncertain[p]
  /\ pc[p] \notin {"wait", "replay"} => ack[p] = "none"
  /\ ack[p] = "ok" => Current(p) \in Durable
  /\ ack[p] = "invalid" => Current(p) \in InvalidBatches

(* What each submitter was told.                                           *)
HistoryInv ==
  /\ \A p \in InFlight : outcome[Current(p)] = "inflight"
  /\ \A p \in Producers, n \in 1 .. MaxBatches :
       n > num[p] => outcome[<<p, n>>] = "none"
  /\ \A b \in Batch :
       /\ outcome[b] = "acked" => b \in Durable
       /\ outcome[b] \in {"none", "refused"} => b \notin Durable
  /\ InvalidBatches \cap Durable = {}

IInv ==
  /\ TypeOK
  /\ QueueHeld /\ CurrentHeld
  /\ WriterInv
  /\ \A p \in Producers : ProducerInv(p)
  /\ HistoryInv
  /\ WholeBatches

-----------------------------------------------------------------------------
(* Constant facts                                                          *)

LEMMA BatchPair ==
  ASSUME NEW p \in Producers, NEW n \in 1 .. MaxBatches
  PROVE  /\ <<p, n>> \in Batch
         /\ <<p, n>>[1] = p /\ <<p, n>>[2] = n
BY DEF Batch

LEMMA EmptyQueue ==
  /\ <<>> \in Seq(Request)
  /\ Len(<<>>) = 0 /\ Len(<<>>) <= Capacity
<1>1. Len(<<>>) = 0 /\ <<>> \in Seq(Request)
  OBVIOUS
<1> QED BY <1>1, DatabaseAssumption

LEMMA RowsDisjoint ==
  ASSUME NEW b \in Batch, NEW c \in Batch, b # c
  PROVE  Rows(b) \cap Rows(c) = {} /\ Rows(b) # {}
<1>1. \A r \in Rows(b) : r[1] = b
  BY DEF Rows
<1>2. \A r \in Rows(c) : r[1] = c
  BY DEF Rows
<1>3. Rows(b) # {}
  BY DEF Rows
<1> QED BY <1>1, <1>2, <1>3

(* Only a COMMIT changes what is durable.                                  *)
LEMMA SameRows ==
  ASSUME db' = db
  PROVE  Durable' = Durable /\ (WholeBatches => WholeBatches')
BY DEF Durable, WholeBatches

(* A COMMIT of all the rows of a batch adds just that batch.               *)
LEMMA MoreRows ==
  ASSUME NEW b \in Batch, db' = db \union Rows(b), WholeBatches
  PROVE  Durable' = Durable \union {b} /\ WholeBatches'
<1>1. \A c \in Batch : c # b => Rows(c) \cap Rows(b) = {} /\ Rows(c) # {}
  BY RowsDisjoint
<1>2. \A c \in Batch : c # b => (Rows(c) \subseteq db' <=> Rows(c) \subseteq db)
  BY <1>1
<1>3. Rows(b) \subseteq db'
  OBVIOUS
<1>4. Durable' = Durable \union {b}
  BY <1>2, <1>3 DEF Durable
<1>5. WholeBatches'
  BY <1>1, <1>2, <1>3 DEF WholeBatches
<1> QED BY <1>4, <1>5

(* The requests in the queue and in hand are not disturbed by a step of a  *)
(* producer that has none of them.                                         *)
LEMMA OthersHeld ==
  ASSUME IInv, NEW p \in Producers, UNCHANGED <<queue, cur, wpc>>,
         \A i \in 1 .. Len(queue) : queue[i].prod # p,
         cur # NoRequest => cur.prod # p,
         \A q \in Producers \ {p} :
           /\ pc'[q] = pc[q] /\ num'[q] = num[q]
           /\ ack'[q] = ack[q] /\ progress'[q] = progress[q]
  PROVE  QueueHeld' /\ CurrentHeld'
<1>1. \A i \in 1 .. Len(queue) : queue[i].prod \in Producers \ {p}
  <2>1. \A i \in 1 .. Len(queue) : queue[i] \in Request
    BY DEF IInv, TypeOK, SharedTypeOK
  <2> QED BY <2>1 DEF Request
<1>2. cur # NoRequest => cur.prod \in Producers \ {p}
  BY DEF IInv, TypeOK, WriterTypeOK, Request
<1>3. QueueHeld'
  <2>1. \A i \in 1 .. Len(queue') :
          Held(queue[i])' /\ progress'[queue[i].prod] = "queued"
    BY <1>1 DEF IInv, QueueHeld, Held
  <2> QED BY <2>1 DEF IInv, QueueHeld
<1>4. CurrentHeld'
  BY <1>2 DEF IInv, CurrentHeld, Held
<1> QED BY <1>3, <1>4

-----------------------------------------------------------------------------
(* The producers' steps                                                    *)

LEMMA SubmitStep ==
  ASSUME IInv, NEW p \in Producers, Submit(p)
  PROVE  IInv'
<1>1. SharedTypeOK /\ ProducerTypeOK /\ OutcomeTypeOK
  BY DEF IInv, TypeOK
<1>2. Durable' = Durable /\ WholeBatches'
  BY SameRows DEF IInv, Submit, dbVars
<1>3. SharedTypeOK'
  BY <1>1, DatabaseAssumption DEF SharedTypeOK, Submit, PendingDevice
<1>4. ProducerTypeOK'
  BY <1>1, DatabaseAssumption DEF ProducerTypeOK, Submit
<1>5. WriterTypeOK'
  BY DEF IInv, TypeOK, WriterTypeOK, Submit, writerVars
<1>6. OutcomeTypeOK'
  BY <1>1 DEF OutcomeTypeOK, Submit, dbVars
<1>7. QueueHeld' /\ CurrentHeld'
  <2>1. pc[p] = "idle"
    BY DEF Submit
  <2>2. /\ \A i \in 1 .. Len(queue) : queue[i].prod # p
        /\ cur # NoRequest => cur.prod # p
    BY <2>1 DEF IInv, QueueHeld, CurrentHeld, Held
  <2>3. \A q \in Producers \ {p} :
          /\ pc'[q] = pc[q] /\ num'[q] = num[q]
          /\ ack'[q] = ack[q] /\ progress'[q] = progress[q]
    BY <1>1 DEF Submit, ProducerTypeOK
  <2> QED BY <2>2, <2>3, OthersHeld DEF Submit, writerVars
<1>9. WriterInv'
  BY <1>2 DEF IInv, WriterInv, Submit, writerVars, Batched
<1>10. DEFINE b == <<p, num[p] + 1>>
<1>11. /\ num[p] + 1 \in 1 .. MaxBatches /\ b \in Batch
       /\ outcome[b] = "none" /\ b \notin Durable
  BY <1>1, BatchPair, DatabaseAssumption DEF IInv, HistoryInv, Submit, ProducerTypeOK
<1>12. \A q \in Producers \ {p} : pc'[q] = pc[q] /\ num'[q] = num[q]
  BY <1>1 DEF Submit, ProducerTypeOK
<1>13. num'[p] = num[p] + 1 /\ pc'[p] \in {"admit", "done"} /\ pc[p] = "idle"
  BY <1>1 DEF Submit, ProducerTypeOK
<1>14. \A c \in Batch : c # b => outcome'[c] = outcome[c]
  BY <1>1 DEF Submit, OutcomeTypeOK
<1>15. outcome'[b] = IF pc'[p] = "admit" THEN "inflight" ELSE "refused"
  BY <1>1, <1>11 DEF Submit, OutcomeTypeOK, ProducerTypeOK
<1>16. \A q \in Producers : ProducerInv(q)'
  <2>1. ProducerInv(p)'
    <3>1. ack'[p] = "none"
      BY <1>13 DEF IInv, ProducerInv, Submit
    <3>2. Current(p)' = b /\ num'[p] # 0
      BY <1>1, <1>13 DEF Current, ProducerTypeOK
    <3> QED BY <3>1, <3>2, <1>2, <1>11, <1>13 DEF ProducerInv
  <2>2. ASSUME NEW q \in Producers \ {p} PROVE ProducerInv(q)'
    BY <1>2, <1>12 DEF IInv, ProducerInv, Submit, Current
  <2> QED BY <2>1, <2>2
<1>17. HistoryInv'
  <2>1. \A q \in InFlight' : outcome'[Current(q)'] = "inflight"
    <3>1. ASSUME NEW q \in InFlight', q # p PROVE outcome'[Current(q)'] = "inflight"
      <4>1. q \in InFlight /\ Current(q)' = Current(q) /\ Current(q) # b
        BY <3>1, <1>12 DEF InFlight, Current
      <4>2. Current(q) \in Batch
        BY <4>1, <1>1 DEF IInv, ProducerInv, InFlight, ProducerTypeOK, Current, Batch
      <4> QED BY <4>1, <4>2, <1>14 DEF IInv, HistoryInv
    <3>2. p \in InFlight' => outcome'[Current(p)'] = "inflight"
      BY <1>13, <1>15 DEF InFlight, Current
    <3> QED BY <3>1, <3>2
  <2>2. \A q \in Producers, n \in 1 .. MaxBatches :
          n > num'[q] => outcome'[<<q, n>>] = "none"
    <3>1. ASSUME NEW q \in Producers, NEW n \in 1 .. MaxBatches, n > num'[q]
          PROVE  outcome'[<<q, n>>] = "none"
      <4>1. <<q, n>> \in Batch /\ <<q, n>> # b /\ n > num[q]
        BY <3>1, <1>1, <1>12, <1>13 DEF Batch, ProducerTypeOK
      <4> QED BY <4>1, <1>14 DEF IInv, HistoryInv
    <3> QED BY <3>1
  <2>3. \A c \in Batch :
          /\ outcome'[c] = "acked" => c \in Durable
          /\ outcome'[c] \in {"none", "refused"} => c \notin Durable
    BY <1>11, <1>14, <1>15 DEF IInv, HistoryInv
  <2> QED BY <1>2, <2>1, <2>2, <2>3 DEF IInv, HistoryInv
<1> QED
  BY <1>2, <1>3, <1>4, <1>5, <1>6, <1>7, <1>9, <1>16, <1>17 DEF IInv, TypeOK

(* Leaving submit_inner with an answer that is true of the batch.          *)
LEMMA ReturnStep ==
  ASSUME IInv, NEW p \in Producers, NEW answer, Return(p, answer),
         pc[p] \in {"admit", "send", "wait", "replay"},
         answer = "ok" => Current(p) \in Durable,
         answer \in Refusals => Current(p) \notin Durable,
         \A i \in 1 .. Len(queue) : queue[i].prod # p,
         cur # NoRequest => cur.prod # p,
         UNCHANGED <<stop, queue, receiving, writerVars, shutdown, dbVars>>
  PROVE  IInv'
<1>1. SharedTypeOK /\ ProducerTypeOK /\ OutcomeTypeOK
  BY DEF IInv, TypeOK
<1>2. Durable' = Durable /\ WholeBatches'
  BY SameRows DEF IInv, dbVars
<1> DEFINE o == OutcomeOf(answer)
           b == Current(p)
<1>3. /\ o \in {"acked", "refused", "failed"}
      /\ o = "acked" => b \in Durable
      /\ o = "refused" => b \notin Durable
  BY DEF OutcomeOf
<1>4. b \in Batch
  BY <1>1 DEF IInv, ProducerInv, ProducerTypeOK, Current, Batch
<1>5. SharedTypeOK'
  BY <1>1 DEF SharedTypeOK, Return, Release
<1>6. ProducerTypeOK'
  BY <1>1, DatabaseAssumption DEF ProducerTypeOK, Return
<1>7. WriterTypeOK'
  BY DEF IInv, TypeOK, WriterTypeOK, writerVars
<1>8. OutcomeTypeOK'
  <2>1. outcome' = [outcome EXCEPT ![b] = o]
    BY DEF Return
  <2> HIDE DEF o, b
  <2> QED BY <1>1, <1>3, <2>1 DEF OutcomeTypeOK, dbVars
<1>9. \A q \in Producers \ {p} :
        /\ pc'[q] = pc[q] /\ num'[q] = num[q] /\ uncertain'[q] = uncertain[q]
        /\ ack'[q] = ack[q] /\ progress'[q] = progress[q]
  BY <1>1 DEF Return, ProducerTypeOK
<1>10. pc'[p] \in {"idle", "done"} /\ ack'[p] = "none" /\ num' = num
  BY <1>1 DEF Return, ProducerTypeOK
<1>11. QueueHeld' /\ CurrentHeld'
  BY <1>9, OthersHeld DEF writerVars
<1>12. WriterInv'
  BY <1>2 DEF IInv, WriterInv, writerVars, Batched
<1>13. \A q \in Producers : ProducerInv(q)'
  <2>1. ProducerInv(p)'
    BY <1>10 DEF ProducerInv
  <2>2. ASSUME NEW q \in Producers \ {p} PROVE ProducerInv(q)'
    BY <1>2, <1>9 DEF IInv, ProducerInv, Current
  <2> QED BY <2>1, <2>2
<1>14. HistoryInv'
  <2>1. /\ outcome'[b] = o
        /\ \A c \in Batch : c # b => outcome'[c] = outcome[c]
    BY <1>1, <1>4 DEF Return, OutcomeTypeOK
  <2>2. \A q \in InFlight' : outcome'[Current(q)'] = "inflight"
    <3>1. ASSUME NEW q \in InFlight' PROVE outcome'[Current(q)'] = "inflight"
      <4>1. q # p /\ q \in InFlight
        BY <1>9, <1>10 DEF InFlight
      <4>2. Current(q)' = Current(q) /\ Current(q) # b
        BY <4>1, <1>10 DEF Current
      <4>3. Current(q) \in Batch
        BY <4>1, <1>1 DEF IInv, ProducerInv, InFlight, ProducerTypeOK, Current, Batch
      <4> QED BY <4>1, <4>2, <4>3, <2>1 DEF IInv, HistoryInv
    <3> QED BY <3>1
  <2>3. \A q \in Producers, n \in 1 .. MaxBatches :
          n > num[q] => <<q, n>> \in Batch /\ <<q, n>> # b
    BY <1>1 DEF Batch, Current, ProducerTypeOK
  <2> HIDE DEF o, b
  <2> QED BY <1>2, <1>3, <1>10, <2>1, <2>2, <2>3 DEF IInv, HistoryInv
<1> QED
  BY <1>2, <1>5, <1>6, <1>7, <1>8, <1>11, <1>12, <1>13, <1>14 DEF IInv, TypeOK

(* A step inside submit_inner that answers nothing yet.                    *)
LEMMA StillInFlight ==
  ASSUME IInv, NEW p \in Producers, Durable' = Durable,
         pc[p] \in {"admit", "send", "wait", "replay"},
         pc'[p] \in {"admit", "send", "wait", "replay"},
         UNCHANGED <<num, outcome>>,
         \A q \in Producers \ {p} :
           /\ pc'[q] = pc[q] /\ uncertain'[q] = uncertain[q]
           /\ ack'[q] = ack[q] /\ progress'[q] = progress[q]
  PROVE  HistoryInv' /\ \A q \in Producers \ {p} : ProducerInv(q)'
<1>1. InFlight' = InFlight
  BY DEF InFlight
<1>2. \A q \in Producers : Current(q)' = Current(q)
  BY DEF Current
<1>3. HistoryInv'
  BY <1>1, <1>2 DEF IInv, HistoryInv, InFlight
<1>4. ASSUME NEW q \in Producers \ {p} PROVE ProducerInv(q)'
  BY <1>2 DEF IInv, ProducerInv
<1> QED BY <1>3, <1>4

(* Whoever does not wait, or has an answer, has no request anywhere.       *)
LEMMA NothingHeld ==
  ASSUME IInv, NEW p \in Producers, pc[p] # "wait" \/ ack[p] # "none"
  PROVE  /\ \A i \in 1 .. Len(queue) : queue[i].prod # p
         /\ cur # NoRequest => cur.prod # p
BY DEF IInv, QueueHeld, CurrentHeld, Held

LEMMA AdmitStep ==
  ASSUME IInv, NEW p \in Producers, Admit(p)
  PROVE  IInv'
<1>1. pc[p] = "admit" /\ Current(p) \notin Durable
  BY DEF Admit, IInv, ProducerInv
<1>2. /\ \A i \in 1 .. Len(queue) : queue[i].prod # p
      /\ cur # NoRequest => cur.prod # p
  BY <1>1, NothingHeld
<1>3. CASE Return(p, "stopped")
  BY <1>1, <1>2, <1>3, ReturnStep DEF Admit
<1>4. CASE /\ pc' = [pc EXCEPT ![p] = "send"]
           /\ UNCHANGED <<num, attempt, uncertain, ack, progress,
                          pendingSmart, unconfirmed, outcome>>
  <2>1. Durable' = Durable /\ WholeBatches'
    BY SameRows DEF IInv, Admit, dbVars
  <2>2. TypeOK'
    BY <1>4 DEF IInv, TypeOK, SharedTypeOK, ProducerTypeOK, WriterTypeOK,
                OutcomeTypeOK, Admit, writerVars, dbVars
  <2>3. /\ pc'[p] = "send"
        /\ \A q \in Producers \ {p} : pc'[q] = pc[q]
    BY <1>4 DEF IInv, TypeOK, ProducerTypeOK
  <2>4. QueueHeld' /\ CurrentHeld'
    BY <1>2, <1>4, <2>3, OthersHeld DEF Admit, writerVars
  <2>5. WriterInv'
    BY <2>1 DEF IInv, WriterInv, Admit, writerVars, Batched
  <2>6. HistoryInv' /\ \A q \in Producers \ {p} : ProducerInv(q)'
    BY <1>1, <1>4, <2>1, <2>3, StillInFlight
  <2>7. ProducerInv(p)'
    BY <1>1, <1>4, <2>1, <2>3 DEF IInv, ProducerInv, Current
  <2> QED BY <2>1, <2>2, <2>4, <2>5, <2>6, <2>7 DEF IInv
<1> QED BY <1>3, <1>4 DEF Admit

(* Appending the current attempt of p, first or replayed.                  *)
LEMMA EnqueueStep ==
  ASSUME IInv, NEW p \in Producers, Enqueue(p),
         pc[p] \in {"send", "replay"},
         UNCHANGED <<stop, receiving, writerVars, shutdown, dbVars>>
  PROVE  IInv'
<1>1. SharedTypeOK /\ ProducerTypeOK /\ num[p] # 0
  BY DEF IInv, TypeOK, ProducerInv
<1> DEFINE r == [prod |-> p, num |-> num[p], reopen |-> attempt[p] > 0]
<1>2. r \in Request
  BY <1>1, DatabaseAssumption DEF Request, ProducerTypeOK
<1>3. queue' = Append(queue, r) /\ Len(queue) < Capacity
  BY DEF Enqueue
<1>4. /\ Len(queue') = Len(queue) + 1 /\ queue' \in Seq(Request)
      /\ \A i \in 1 .. Len(queue) : queue'[i] = queue[i]
      /\ queue'[Len(queue) + 1] = r
  <2> HIDE DEF r
  <2> QED BY <1>1, <1>2, <1>3 DEF SharedTypeOK
<1>5. Durable' = Durable /\ WholeBatches'
  BY SameRows DEF IInv, dbVars
<1>6. /\ pc'[p] = "wait" /\ ack'[p] = "none" /\ progress'[p] = "queued"
      /\ num' = num /\ uncertain' = uncertain
      /\ \A q \in Producers \ {p} :
           /\ pc'[q] = pc[q] /\ ack'[q] = ack[q] /\ progress'[q] = progress[q]
  BY <1>1 DEF Enqueue, ProducerTypeOK
<1>7. TypeOK'
  <2>1. SharedTypeOK'
    BY <1>1, <1>3, <1>4, DatabaseAssumption DEF SharedTypeOK, Enqueue
  <2>2. ProducerTypeOK'
    BY <1>1 DEF ProducerTypeOK, Enqueue
  <2> QED BY <2>1, <2>2 DEF IInv, TypeOK, WriterTypeOK, OutcomeTypeOK, Enqueue,
                            writerVars, dbVars
<1>8. /\ \A i \in 1 .. Len(queue) : queue[i] \in Request /\ queue[i].prod # p
      /\ cur # NoRequest => cur.prod # p
  BY <1>1, NothingHeld DEF SharedTypeOK
<1>9. QueueHeld'
  <2>1. ASSUME NEW i \in 1 .. Len(queue) + 1
        PROVE  Held(queue[i])' /\ progress'[queue'[i].prod] = "queued"
    <3>1. CASE i = Len(queue) + 1
      BY <3>1, <1>4, <1>6 DEF Held
    <3>2. CASE i # Len(queue) + 1
      <4>1. i \in 1 .. Len(queue) /\ queue'[i] = queue[i]
        BY <3>2, <1>1, <1>4 DEF SharedTypeOK
      <4>2. queue[i].prod \in Producers \ {p}
        BY <4>1, <1>8 DEF Request
      <4> QED BY <4>1, <4>2, <1>6 DEF IInv, QueueHeld, Held
    <3> QED BY <3>1, <3>2
  <2>2. ASSUME NEW i \in 1 .. Len(queue) + 1, NEW j \in 1 .. Len(queue) + 1,
               queue'[i].prod = queue'[j].prod
        PROVE  i = j
    <3> HIDE DEF r
    <3>1. r.prod = p
      BY DEF r
    <3>2. /\ i # Len(queue) + 1 => i \in 1 .. Len(queue)
          /\ j # Len(queue) + 1 => j \in 1 .. Len(queue)
      BY <1>1 DEF SharedTypeOK
    <3> QED BY <2>2, <3>1, <3>2, <1>4, <1>8 DEF IInv, QueueHeld
  <2> QED BY <1>4, <2>1, <2>2 DEF QueueHeld
<1>10. CurrentHeld'
  <2>1. cur # NoRequest => cur.prod \in Producers \ {p}
    BY <1>8 DEF IInv, TypeOK, WriterTypeOK, Request
  <2> QED BY <2>1, <1>6 DEF IInv, CurrentHeld, Held, writerVars
<1>11. WriterInv'
  BY <1>5 DEF IInv, WriterInv, writerVars, Batched
<1>12. HistoryInv' /\ \A q \in Producers \ {p} : ProducerInv(q)'
  BY <1>5, <1>6, StillInFlight DEF Enqueue
<1>13. ProducerInv(p)'
  BY <1>5, <1>6 DEF IInv, ProducerInv, Current
<1> QED BY <1>5, <1>7, <1>9, <1>10, <1>11, <1>12, <1>13 DEF IInv

LEMMA TrySendStep ==
  ASSUME IInv, NEW p \in Producers, TrySend(p)
  PROVE  IInv'
<1>1. pc[p] = "send" /\ Current(p) \notin Durable
  BY DEF TrySend, IInv, ProducerInv
<1>2. /\ \A i \in 1 .. Len(queue) : queue[i].prod # p
      /\ cur # NoRequest => cur.prod # p
  BY <1>1, NothingHeld
<1>3. CASE Enqueue(p)
  BY <1>1, <1>3, EnqueueStep DEF TrySend
<1>4. CASE Return(p, "queueClosed") /\ UNCHANGED queue
  BY <1>1, <1>2, <1>4, ReturnStep DEF TrySend
<1>5. CASE /\ pc' = [pc EXCEPT ![p] = "admit"]
           /\ UNCHANGED <<queue, num, attempt, uncertain, ack, progress,
                          pendingSmart, unconfirmed, outcome>>
  <2>1. Durable' = Durable /\ WholeBatches'
    BY SameRows DEF IInv, TrySend, dbVars
  <2>2. TypeOK'
    BY <1>5 DEF IInv, TypeOK, SharedTypeOK, ProducerTypeOK, WriterTypeOK,
                OutcomeTypeOK, TrySend, writerVars, dbVars
  <2>3. /\ pc'[p] = "admit"
        /\ \A q \in Producers \ {p} : pc'[q] = pc[q]
    BY <1>5 DEF IInv, TypeOK, ProducerTypeOK
  <2>4. QueueHeld' /\ CurrentHeld'
    BY <1>2, <1>5, <2>3, OthersHeld DEF TrySend, writerVars
  <2>5. WriterInv'
    BY <2>1 DEF IInv, WriterInv, TrySend, writerVars, Batched
  <2>6. HistoryInv' /\ \A q \in Producers \ {p} : ProducerInv(q)'
    BY <1>1, <1>5, <2>1, <2>3, StillInFlight
  <2>7. ProducerInv(p)'
    BY <1>1, <1>5, <2>1, <2>3 DEF IInv, ProducerInv, Current
  <2> QED BY <2>1, <2>2, <2>4, <2>5, <2>6, <2>7 DEF IInv
<1> QED BY <1>3, <1>4, <1>5 DEF TrySend

LEMMA ReplayStep ==
  ASSUME IInv, NEW p \in Producers, Replay(p)
  PROVE  IInv'
<1>1. pc[p] = "replay"
  BY DEF Replay
<1>2. /\ \A i \in 1 .. Len(queue) : queue[i].prod # p
      /\ cur # NoRequest => cur.prod # p
  BY <1>1, NothingHeld
<1>3. CASE Enqueue(p)
  BY <1>1, <1>3, EnqueueStep DEF Replay
<1>4. CASE Return(p, "ackLost") /\ UNCHANGED queue
  BY <1>1, <1>2, <1>4, ReturnStep DEF Replay, Refusals
<1> QED BY <1>3, <1>4 DEF Replay

(* Every answer submit_inner returns is true of the batch.                 *)
LEMMA AnswerFacts ==
  ASSUME IInv, NEW p \in Producers
  PROVE  /\ pc[p] \in {"admit", "send"} => Current(p) \notin Durable
         /\ ack[p] = "ok" => Current(p) \in Durable
         /\ ack[p] \in Refusals => Current(p) \notin Durable
         /\ ClosedAcknowledgementError(p) # "ok"
         /\ pc[p] = "wait" /\ ClosedAcknowledgementError(p) \in Refusals =>
              Current(p) \notin Durable
<1>1. ack[p] \in Refusals => ack[p] = "invalid"
  BY DEF IInv, TypeOK, ProducerTypeOK, WriterErrors, TransactionErrors, Refusals
<1> QED
  BY <1>1 DEF IInv, ProducerInv, HistoryInv, ClosedAcknowledgementError, Refusals

LEMMA AwaitStep ==
  ASSUME IInv, NEW p \in Producers, Await(p)
  PROVE  IInv'
<1>1. pc[p] = "wait" /\ ack[p] # "none"
  BY DEF Await
<1>2. /\ \A i \in 1 .. Len(queue) : queue[i].prod # p
      /\ cur # NoRequest => cur.prod # p
  BY <1>1, NothingHeld
<1>3. CASE ack[p] # "dropped" /\ Return(p, ack[p])
  BY <1>1, <1>2, <1>3, AnswerFacts, ReturnStep DEF Await
<1>4. CASE /\ ack[p] = "dropped"
           /\ progress[p] = "queued" \/ attempt[p] + 1 = MaxReplays
           /\ Return(p, ClosedAcknowledgementError(p))
  BY <1>1, <1>2, <1>4, AnswerFacts, ReturnStep DEF Await
<1>5. CASE /\ ack[p] = "dropped" /\ attempt[p] + 1 < MaxReplays
           /\ pc' = [pc EXCEPT ![p] = "replay"]
           /\ attempt' = [attempt EXCEPT ![p] = @ + 1]
           /\ uncertain' = [uncertain EXCEPT ![p] = TRUE]
           /\ UNCHANGED <<num, ack, progress, pendingSmart, unconfirmed, outcome>>
  <2>1. Durable' = Durable /\ WholeBatches'
    BY SameRows DEF IInv, Await, dbVars
  <2>2. ProducerTypeOK'
    BY <1>5, DatabaseAssumption DEF IInv, TypeOK, ProducerTypeOK
  <2>3. TypeOK'
    BY <1>5, <2>2 DEF IInv, TypeOK, SharedTypeOK, WriterTypeOK, OutcomeTypeOK, Await,
                      writerVars, dbVars
  <2>4. /\ pc'[p] = "replay" /\ uncertain'[p]
        /\ \A q \in Producers \ {p} : pc'[q] = pc[q] /\ uncertain'[q] = uncertain[q]
    BY <1>5 DEF IInv, TypeOK, ProducerTypeOK
  <2>5. QueueHeld' /\ CurrentHeld'
    BY <1>2, <1>5, <2>4, OthersHeld DEF Await, writerVars
  <2>6. WriterInv'
    BY <2>1 DEF IInv, WriterInv, Await, writerVars, Batched
  <2>7. HistoryInv' /\ \A q \in Producers \ {p} : ProducerInv(q)'
    BY <1>1, <1>5, <2>1, <2>4, StillInFlight
  <2>8. ProducerInv(p)'
    BY <1>1, <1>5, <2>1, <2>4 DEF IInv, ProducerInv, Current
  <2> QED BY <2>1, <2>3, <2>5, <2>6, <2>7, <2>8 DEF IInv
<1> QED BY <1>3, <1>4, <1>5 DEF Await

LEMMA LeaveStep ==
  ASSUME IInv, NEW p \in Producers, Leave(p)
  PROVE  IInv'
<1>1. pc[p] = "idle" /\ pc' = [pc EXCEPT ![p] = "done"]
  BY DEF Leave
<1>2. /\ \A i \in 1 .. Len(queue) : queue[i].prod # p
      /\ cur # NoRequest => cur.prod # p
  BY <1>1, NothingHeld
<1>3. Durable' = Durable /\ WholeBatches'
  BY SameRows DEF IInv, Leave, dbVars
<1>4. TypeOK'
  BY <1>1 DEF IInv, TypeOK, SharedTypeOK, ProducerTypeOK, WriterTypeOK,
              OutcomeTypeOK, Leave, sharedVars, writerVars, dbVars
<1>5. /\ pc'[p] = "done"
      /\ \A q \in Producers \ {p} : pc'[q] = pc[q]
  BY <1>1 DEF IInv, TypeOK, ProducerTypeOK
<1>6. QueueHeld' /\ CurrentHeld'
  BY <1>2, <1>5, OthersHeld DEF Leave, sharedVars, writerVars
<1>7. WriterInv'
  BY <1>3 DEF IInv, WriterInv, Leave, writerVars, Batched
<1>8. \A q \in Producers : ProducerInv(q)'
  BY <1>1, <1>3, <1>5 DEF IInv, ProducerInv, Leave, Current
<1>9. HistoryInv'
  <2>1. InFlight' = InFlight
    BY <1>1, <1>5 DEF InFlight
  <2>2. \A q \in Producers : Current(q)' = Current(q)
    BY DEF Leave, Current
  <2> QED BY <1>3, <2>1, <2>2 DEF IInv, HistoryInv, Leave, InFlight
<1> QED BY <1>3, <1>4, <1>6, <1>7, <1>8, <1>9 DEF IInv

-----------------------------------------------------------------------------
(* The writer's steps                                                      *)

(* A step that leaves the file and the answers alone keeps the promises    *)
(* made to the producers.                                                  *)
LEMMA PromisesKept ==
  ASSUME IInv, Durable' = Durable,
         UNCHANGED <<pc, num, uncertain, ack, outcome>>,
         \A q \in Producers : progress'[q] = "queued" => progress[q] = "queued"
  PROVE  HistoryInv' /\ \A q \in Producers : ProducerInv(q)'
<1>1. InFlight' = InFlight /\ \A q \in Producers : Current(q)' = Current(q)
  BY DEF InFlight, Current
<1>2. HistoryInv'
  BY <1>1 DEF IInv, HistoryInv, InFlight
<1>3. \A q \in Producers : ProducerInv(q)'
  BY <1>1 DEF IInv, ProducerInv
<1> QED BY <1>2, <1>3

(* The request in hand and its batch.                                      *)
LEMMA InHand ==
  ASSUME IInv, cur # NoRequest
  PROVE  /\ cur \in Request /\ cur.prod \in Producers /\ Batched(cur) \in Batch
         /\ Held(cur) /\ progress[cur.prod] = "executing"
         /\ Batched(cur) = Current(cur.prod)
         /\ outcome[Batched(cur)] = "inflight"
         /\ Rows(Batched(cur)) \subseteq AllRows
<1>1. cur \in Request /\ Held(cur) /\ progress[cur.prod] = "executing"
  BY DEF IInv, TypeOK, WriterTypeOK, CurrentHeld
<1>2. cur.prod \in Producers /\ cur.num \in 1 .. MaxBatches
  BY <1>1 DEF Request
<1>3. Batched(cur) = Current(cur.prod) /\ Batched(cur) \in Batch
  BY <1>1, <1>2 DEF Batched, Current, Held, Batch
<1>4. outcome[Batched(cur)] = "inflight"
  BY <1>1, <1>2, <1>3 DEF IInv, HistoryInv, InFlight, Held
<1> QED BY <1>1, <1>2, <1>3, <1>4 DEF AllRows

LEMMA ReceiveStep ==
  ASSUME IInv, Receive
  PROVE  IInv'
<1> DEFINE r == Head(queue)
<1>1. SharedTypeOK /\ ProducerTypeOK /\ WriterTypeOK /\ OutcomeTypeOK
  BY DEF IInv, TypeOK
<1>2. /\ queue # <<>> /\ 1 \in 1 .. Len(queue) /\ r = queue[1]
      /\ Len(queue) \in Nat
      /\ Len(queue') = Len(queue) - 1 /\ queue' \in Seq(Request)
      /\ \A i \in 1 .. Len(queue') : /\ i + 1 \in 1 .. Len(queue)
                                     /\ queue'[i] = queue[i + 1]
  BY <1>1 DEF Receive, SharedTypeOK
<1>3. r \in Request /\ r.prod \in Producers /\ r # NoRequest
  <2>1. r \in Request
    BY <1>1, <1>2 DEF SharedTypeOK
  <2> QED BY <2>1, NoRequestAssumption DEF Request
<1>4. Held(r)
  BY <1>2 DEF IInv, QueueHeld
<1>5. /\ cur' = r /\ progress'[r.prod] = "executing"
      /\ \A q \in Producers \ {r.prod} : progress'[q] = progress[q]
      /\ UNCHANGED <<pc, num, uncertain, ack, outcome, db>>
  BY <1>1, <1>3 DEF Receive, ProducerTypeOK, KeepWriterEnv
<1>6. /\ wpc' \in {"reopen", "begin", "reply"}
      /\ wpc' = "begin" => Batched(r) \notin InvalidBatches
      /\ wpc' = "reply" => Batched(r) \in InvalidBatches /\ verdict' = "invalid"
      /\ verdict' \in {verdict, "invalid"}
  BY DEF Receive, Start
<1>7. Durable' = Durable /\ WholeBatches'
  BY <1>5, SameRows DEF IInv
<1>8. TypeOK'
  <2>1. SharedTypeOK'
    BY <1>1, <1>2, DatabaseAssumption DEF SharedTypeOK, Receive, KeepWriterEnv
  <2>2. ProducerTypeOK'
    BY <1>1, <1>3 DEF ProducerTypeOK, Receive, KeepWriterEnv
  <2>3. WriterTypeOK'
    <3>1. tries' \in 1 .. MaxAttempts
      BY DatabaseAssumption DEF Receive
    <3>2. verdict' \in {"ok"} \union WriterErrors
      BY <1>1, <1>6 DEF WriterTypeOK, WriterErrors
    <3> QED BY <1>1, <1>3, <1>5, <1>6, <3>1, <3>2 DEF WriterTypeOK, Receive
  <2>4. OutcomeTypeOK'
    BY <1>1 DEF OutcomeTypeOK, Receive, KeepWriterEnv
  <2> QED BY <2>1, <2>2, <2>3, <2>4 DEF TypeOK
<1>9. QueueHeld'
  <2>1. ASSUME NEW i \in 1 .. Len(queue')
        PROVE  Held(queue[i])' /\ progress'[queue'[i].prod] = "queued"
    <3>1. i + 1 \in 1 .. Len(queue) /\ queue'[i] = queue[i + 1] /\ i + 1 # 1
      BY <1>2
    <3>2. queue[i + 1] \in Request /\ queue[i + 1].prod # r.prod
      BY <1>1, <1>2, <3>1 DEF SharedTypeOK, IInv, QueueHeld
    <3>3. queue[i + 1].prod \in Producers \ {r.prod}
      BY <3>2 DEF Request
    <3> QED BY <1>5, <3>1, <3>3 DEF IInv, QueueHeld, Held
  <2>2. ASSUME NEW i \in 1 .. Len(queue'), NEW j \in 1 .. Len(queue'),
               queue'[i].prod = queue'[j].prod
        PROVE  i = j
    <3>1. /\ i \in Nat /\ i + 1 \in 1 .. Len(queue) /\ queue'[i] = queue[i + 1]
          /\ j \in Nat /\ j + 1 \in 1 .. Len(queue) /\ queue'[j] = queue[j + 1]
      BY <1>2, <2>2
    <3>2. \A m, n \in 1 .. Len(queue) : queue[m].prod = queue[n].prod => m = n
      BY DEF IInv, QueueHeld
    <3>3. i + 1 = j + 1
      BY <2>2, <3>1, <3>2
    <3> QED BY ONLY <3>1, <3>3
  <2> QED BY <2>1, <2>2 DEF QueueHeld
<1>10. CurrentHeld'
  BY <1>3, <1>4, <1>5, <1>6 DEF CurrentHeld, Held, Working
<1>11. WriterInv'
  BY <1>5, <1>6 DEF WriterInv, Batched
<1>12. HistoryInv' /\ \A q \in Producers : ProducerInv(q)'
  BY <1>5, <1>7, PromisesKept
<1> QED BY <1>7, <1>8, <1>9, <1>10, <1>11, <1>12 DEF IInv

(* A step of the writer inside process_request that keeps the request in   *)
(* hand: what is left to show is what its new program counter promises.    *)
LEMMA WorkStep ==
  ASSUME IInv, cur # NoRequest, KeepWriterEnv,
         UNCHANGED <<queue, receiving, ack, progress, cur>>,
         wpc' \in Working, WriterTypeOK', db' \subseteq AllRows,
         Durable' \in {Durable, Durable \union {Batched(cur)}}, WholeBatches',
         Durable' # Durable => Batched(cur) \notin InvalidBatches,
         WriterInv'
  PROVE  IInv'
<1>1. TypeOK'
  BY DEF IInv, TypeOK, SharedTypeOK, ProducerTypeOK, OutcomeTypeOK, KeepWriterEnv
<1>2. QueueHeld' /\ CurrentHeld'
  BY DEF IInv, QueueHeld, CurrentHeld, Held, KeepWriterEnv
<1>3. /\ Batched(cur) = Current(cur.prod) /\ Batched(cur) \in Batch
      /\ outcome[Batched(cur)] = "inflight" /\ cur.prod \in Producers
      /\ pc[cur.prod] = "wait" /\ progress[cur.prod] = "executing"
  BY InHand DEF Held
<1>4. InFlight' = InFlight /\ \A q \in Producers : Current(q)' = Current(q)
  BY DEF InFlight, Current, KeepWriterEnv
<1>5. \A q \in Producers : Current(q) = Batched(cur) => q = cur.prod
  BY <1>3 DEF Current
<1>6. HistoryInv'
  BY <1>3, <1>4 DEF IInv, HistoryInv, InFlight, KeepWriterEnv
<1>7. ASSUME NEW q \in Producers PROVE ProducerInv(q)'
  BY <1>3, <1>4, <1>5 DEF IInv, ProducerInv, KeepWriterEnv
<1> QED BY <1>1, <1>2, <1>6, <1>7 DEF IInv

LEMMA ReopenStep ==
  ASSUME IInv, Reopen
  PROVE  IInv'
<1>1. cur # NoRequest
  BY DEF IInv, CurrentHeld, Working, Reopen
<1>2. Durable' = Durable /\ WholeBatches' /\ db' \subseteq AllRows
  BY SameRows DEF IInv, Reopen, TypeOK, OutcomeTypeOK
<1>3. /\ wpc' \in {"begin", "reply"} /\ connected' \in BOOLEAN
      /\ wpc' = "begin" => Batched(cur) \notin InvalidBatches
      /\ wpc' = "reply" => \/ verdict' = "open"
                           \/ verdict' = "invalid" /\ Batched(cur) \in InvalidBatches
      /\ verdict' \in {verdict, "open", "invalid"}
  BY DEF Reopen, Start
<1>4. WriterTypeOK'
  BY <1>3 DEF IInv, TypeOK, WriterTypeOK, WriterErrors, Reopen
<1>5. WriterInv'
  BY <1>3 DEF WriterInv, Reopen, Batched
<1> QED BY <1>1, <1>2, <1>3, <1>4, <1>5, WorkStep DEF Reopen, Working

(* What a retry or a final error leaves behind.                            *)
LEMMA HandleFacts ==
  ASSUME NEW e \in WriterErrors, Handle(e), IInv
  PROVE  /\ wpc' \in {"begin", "reopen", "reply"}
         /\ wpc' = "reply" => verdict' = e
         /\ verdict' \in {verdict, e}
         /\ tries' \in 1 .. MaxAttempts
BY DatabaseAssumption DEF Handle, IInv, TypeOK, WriterTypeOK

LEMMA BeginStep ==
  ASSUME IInv, Begin
  PROVE  IInv'
<1>1. cur # NoRequest /\ Batched(cur) \notin InvalidBatches
  BY DEF IInv, CurrentHeld, Working, WriterInv, Begin
<1>2. Durable' = Durable /\ WholeBatches' /\ db' \subseteq AllRows
  BY SameRows DEF IInv, Begin, TypeOK, OutcomeTypeOK
<1>3. /\ wpc' \in {"body", "begin", "reopen", "reply"}
      /\ wpc' = "reply" => verdict' \in TransactionErrors
      /\ verdict' \in {verdict} \union TransactionErrors
      /\ tries' \in 1 .. MaxAttempts
  <2>1. CASE wpc' = "body" /\ UNCHANGED <<tries, verdict>>
    BY <2>1 DEF IInv, TypeOK, WriterTypeOK
  <2>2. CASE \E e \in TransactionErrors : Handle(e)
    BY <2>2, HandleFacts DEF WriterErrors
  <2> QED BY <2>1, <2>2 DEF Begin
<1>4. WriterTypeOK'
  BY <1>3 DEF IInv, TypeOK, WriterTypeOK, WriterErrors, Begin
<1>5. WriterInv'
  BY <1>1, <1>3 DEF WriterInv, Begin, Batched, TransactionErrors
<1> QED BY <1>1, <1>2, <1>3, <1>4, <1>5, WorkStep DEF Begin, Working

LEMMA BodyStep ==
  ASSUME IInv, Body
  PROVE  IInv'
<1>1. /\ cur # NoRequest /\ Batched(cur) \notin InvalidBatches
      /\ staged \subseteq AllRows
  BY DEF IInv, CurrentHeld, Working, WriterInv, Body, TypeOK, WriterTypeOK
<1>2. Durable' = Durable /\ WholeBatches' /\ db' \subseteq AllRows
  BY SameRows DEF IInv, Body, TypeOK, OutcomeTypeOK
<1>3. /\ wpc' \in {"body", "commit", "rollback"}
      /\ wpc' = "commit" => staged' = Rows(Batched(cur))
      /\ wpc' = "rollback" => verdict' \in TransactionErrors
      /\ verdict' \in {verdict} \union TransactionErrors
      /\ staged' \subseteq staged \union Rows(Batched(cur))
  BY DEF Body
<1>4. WriterTypeOK'
  BY <1>1, <1>3, InHand DEF IInv, TypeOK, WriterTypeOK, WriterErrors, Body
<1>5. WriterInv'
  BY <1>1, <1>3 DEF WriterInv, Body, Batched, Rows
<1> QED BY <1>1, <1>2, <1>3, <1>4, <1>5, WorkStep DEF Body, Working

LEMMA CommitStep ==
  ASSUME IInv, Commit
  PROVE  IInv'
<1>1. /\ cur # NoRequest /\ Batched(cur) \notin InvalidBatches
      /\ staged = Rows(Batched(cur)) /\ WholeBatches
      /\ staged \subseteq AllRows /\ db \subseteq AllRows
  BY DEF IInv, CurrentHeld, Working, WriterInv, Commit, TypeOK, WriterTypeOK,
         OutcomeTypeOK
<1>2. db' \in {db, db \union Rows(Batched(cur))}
  BY <1>1 DEF Commit
<1>3. /\ Durable' \in {Durable, Durable \union {Batched(cur)}} /\ WholeBatches'
      /\ db' = db \union Rows(Batched(cur)) => Batched(cur) \in Durable'
  <2>1. Batched(cur) \in Batch
    BY <1>1, InHand
  <2> QED BY <1>1, <1>2, <2>1, SameRows, MoreRows
<1>4. /\ wpc' \in {"begin", "reopen", "rollback", "reply"}
      /\ wpc' = "rollback" => verdict' \in TransactionErrors
      /\ wpc' = "reply" => \/ verdict' = "ok" /\ Batched(cur) \in Durable'
                           \/ verdict' = "unknown"
      /\ verdict' \in {verdict, "ok", "unknown"} \union TransactionErrors
      /\ tries' \in 1 .. MaxAttempts /\ staged' \subseteq staged
  <2>1. CASE /\ db' = db \union staged /\ staged' = {}
             /\ wpc' = "reply" /\ verdict' = "ok" /\ UNCHANGED tries
    BY <1>1, <1>3, <2>1 DEF IInv, TypeOK, WriterTypeOK
  <2>2. CASE wpc' = "rollback" /\ verdict' \in TransactionErrors
             /\ UNCHANGED <<db, staged, tries>>
    BY <2>2 DEF IInv, TypeOK, WriterTypeOK
  <2>3. CASE staged' = {} /\ Handle("unknown")
    BY <2>3, HandleFacts DEF WriterErrors
  <2> QED BY <2>1, <2>2, <2>3 DEF Commit
<1>5. WriterTypeOK'
  BY <1>1, <1>4 DEF IInv, TypeOK, WriterTypeOK, WriterErrors, Commit
<1>6. WriterInv'
  BY <1>1, <1>4 DEF WriterInv, Commit, Batched
<1>7. db' \subseteq AllRows
  BY <1>1, <1>2
<1> QED BY <1>1, <1>3, <1>4, <1>5, <1>6, <1>7, WorkStep DEF Commit, Working

LEMMA RollbackStep ==
  ASSUME IInv, Rollback
  PROVE  IInv'
<1>1. /\ cur # NoRequest /\ Batched(cur) \notin InvalidBatches
      /\ verdict \in TransactionErrors
  BY DEF IInv, CurrentHeld, Working, WriterInv, Rollback
<1>2. Durable' = Durable /\ WholeBatches' /\ db' \subseteq AllRows
  BY SameRows DEF IInv, Rollback, TypeOK, OutcomeTypeOK
<1>3. /\ wpc' \in {"begin", "reopen", "reply"}
      /\ wpc' = "reply" => verdict' \in TransactionErrors \union {"rollback"}
      /\ verdict' \in {verdict, "rollback"}
      /\ tries' \in 1 .. MaxAttempts
      /\ staged' \subseteq staged
  <2>1. CASE staged' = {} /\ Handle(verdict)
    BY <1>1, <2>1, HandleFacts DEF WriterErrors
  <2>2. CASE wpc' = "reply" /\ verdict' = "rollback" /\ UNCHANGED <<staged, tries>>
    BY <2>2 DEF IInv, TypeOK, WriterTypeOK
  <2> QED BY <2>1, <2>2 DEF Rollback
<1>4. WriterTypeOK'
  BY <1>3 DEF IInv, TypeOK, WriterTypeOK, WriterErrors, Rollback
<1>5. WriterInv'
  BY <1>1, <1>3 DEF WriterInv, Rollback, Batched, TransactionErrors
<1> QED BY <1>1, <1>2, <1>3, <1>4, <1>5, WorkStep DEF Rollback, Working

(* The answer, or its loss, takes the request out of the writer's hand.    *)
LEMMA LetGoStep ==
  ASSUME IInv, cur # NoRequest, KeepWriterEnv,
         NEW answer \in {"dropped", "ok"} \union WriterErrors,
         ack' = [ack EXCEPT ![cur.prod] = answer],
         wpc' \in {"recv", "closing"}, cur' = NoRequest, verdict' = "ok",
         answer = "ok" => Batched(cur) \in Durable,
         answer = "invalid" => Batched(cur) \in InvalidBatches,
         UNCHANGED <<queue, receiving, progress, tries, connected, staged, db>>
  PROVE  IInv'
<1>1. /\ Batched(cur) = Current(cur.prod) /\ Batched(cur) \in Batch
      /\ cur.prod \in Producers /\ pc[cur.prod] = "wait"
      /\ progress[cur.prod] = "executing"
  BY InHand DEF Held
<1>2. Durable' = Durable /\ WholeBatches'
  BY SameRows DEF IInv
<1>3. /\ ack'[cur.prod] = answer
      /\ \A q \in Producers \ {cur.prod} : ack'[q] = ack[q]
  BY <1>1 DEF IInv, TypeOK, ProducerTypeOK
<1>4. TypeOK'
  <2>1. ProducerTypeOK'
    BY <1>1 DEF IInv, TypeOK, ProducerTypeOK, KeepWriterEnv
  <2> QED BY <2>1 DEF IInv, TypeOK, SharedTypeOK, WriterTypeOK, OutcomeTypeOK,
                      KeepWriterEnv
<1>5. QueueHeld'
  <2>1. \A i \in 1 .. Len(queue) :
          queue[i] \in Request /\ queue[i].prod # cur.prod
    BY <1>1 DEF IInv, TypeOK, SharedTypeOK, QueueHeld
  <2>2. \A i \in 1 .. Len(queue) : queue[i].prod \in Producers \ {cur.prod}
    BY <2>1 DEF Request
  <2> QED BY <2>2, <1>3 DEF IInv, QueueHeld, Held, KeepWriterEnv
<1>6. CurrentHeld' /\ WriterInv'
  BY DEF CurrentHeld, WriterInv, Working
<1>7. InFlight' = InFlight /\ \A q \in Producers : Current(q)' = Current(q)
  BY DEF InFlight, Current, KeepWriterEnv
<1>8. HistoryInv'
  BY <1>2, <1>7 DEF IInv, HistoryInv, InFlight, KeepWriterEnv
<1>9. ASSUME NEW q \in Producers PROVE ProducerInv(q)'
  <2>1. ProducerInv(q) /\ UNCHANGED <<pc, num, uncertain, progress>>
    BY DEF IInv, KeepWriterEnv
  <2>2. Current(q)' = Current(q)
    BY <1>7
  <2>3. CASE q = cur.prod
    <3>1. ack'[q] = answer /\ Current(q) = Batched(cur) /\ pc[q] = "wait"
      BY <1>1, <1>3, <2>3
    <3> QED BY <2>1, <2>2, <3>1, <1>2 DEF ProducerInv
  <2>4. CASE q # cur.prod
    <3>1. ack'[q] = ack[q]
      BY <1>3, <2>4
    <3> QED BY <2>1, <2>2, <3>1, <1>2 DEF ProducerInv
  <2> QED BY <2>3, <2>4
<1> QED BY <1>2, <1>4, <1>5, <1>6, <1>8, <1>9 DEF IInv

LEMMA ReplyStep ==
  ASSUME IInv, Reply
  PROVE  IInv'
<1>1. /\ cur # NoRequest /\ verdict \in {"ok"} \union WriterErrors
      /\ verdict = "ok" => Batched(cur) \in Durable
      /\ verdict = "invalid" => Batched(cur) \in InvalidBatches
  BY DEF IInv, CurrentHeld, Working, WriterInv, TypeOK, WriterTypeOK, Reply
<1> QED BY <1>1, LetGoStep DEF Reply

LEMMA PanicStep ==
  ASSUME IInv, Panic
  PROVE  IInv'
<1>1. "dropped" \notin {"ok", "invalid"}
  OBVIOUS
<1> QED BY <1>1, LetGoStep DEF Panic

LEMMA CloseStep ==
  ASSUME IInv, Close
  PROVE  IInv'
<1>1. /\ cur = NoRequest /\ cur' = cur
      /\ ProducerTypeOK
  BY DEF IInv, CurrentHeld, Working, TypeOK, Close
<1>2. Durable' = Durable /\ WholeBatches'
  BY SameRows DEF IInv, Close
<1>3. \A q \in Producers :
        /\ ack'[q] \in {ack[q], "dropped"}
        /\ ack'[q] # ack[q] => \E i \in 1 .. Len(queue) : queue[i].prod = q
  <2>1. DOMAIN queue = 1 .. Len(queue)
    BY DEF IInv, TypeOK, SharedTypeOK
  <2> QED BY <2>1 DEF Close
<1>4. TypeOK'
  <2>1. ProducerTypeOK'
    BY <1>1, <1>3 DEF ProducerTypeOK, Close, KeepWriterEnv
  <2>2. SharedTypeOK'
    BY EmptyQueue DEF IInv, TypeOK, SharedTypeOK, Close, KeepWriterEnv
  <2> QED BY <2>1, <2>2 DEF IInv, TypeOK, WriterTypeOK, OutcomeTypeOK, Close,
                            KeepWriterEnv
<1>5. QueueHeld' /\ CurrentHeld' /\ WriterInv'
  BY <1>1 DEF QueueHeld, CurrentHeld, WriterInv, Working, Close
<1>6. InFlight' = InFlight /\ \A q \in Producers : Current(q)' = Current(q)
  BY DEF InFlight, Current, Close, KeepWriterEnv
<1>7. HistoryInv'
  BY <1>2, <1>6 DEF IInv, HistoryInv, InFlight, Close, KeepWriterEnv
<1>8. ASSUME NEW q \in Producers PROVE ProducerInv(q)'
  <2>1. /\ UNCHANGED <<pc, num, uncertain, progress>>
        /\ ack'[q] # ack[q] => pc[q] = "wait"
    BY <1>3 DEF IInv, QueueHeld, Held, Close, KeepWriterEnv
  <2> QED BY <2>1, <1>2, <1>3, <1>6 DEF IInv, ProducerInv
<1> QED BY <1>2, <1>4, <1>5, <1>7, <1>8 DEF IInv

-----------------------------------------------------------------------------
(* The main thread, crashes, and stuttering                                *)

LEMMA MainSteps ==
  ASSUME IInv, Signal \/ DropHandle \/ Join \/ UNCHANGED vars
  PROVE  IInv'
<1>1. UNCHANGED <<queue, receiving, pendingSmart, unconfirmed,
                  producerVars, writerVars, dbVars, outcome>>
  BY DEF Signal, DropHandle, Join, KeepAllBut, vars, sharedVars
<1>2. /\ stop' \in BOOLEAN
      /\ shutdown' \in {"running", "waiting", "joined", "timedOut"}
  BY DEF IInv, TypeOK, SharedTypeOK, OutcomeTypeOK, Signal, DropHandle, Join, vars,
         sharedVars
<1>3. Durable' = Durable /\ WholeBatches'
  BY <1>1, SameRows DEF IInv, dbVars
<1>4. TypeOK'
  BY <1>1, <1>2 DEF IInv, TypeOK, SharedTypeOK, ProducerTypeOK, WriterTypeOK,
                    OutcomeTypeOK, producerVars, writerVars, dbVars
<1>5. QueueHeld' /\ CurrentHeld'
  BY <1>1 DEF IInv, QueueHeld, CurrentHeld, Held, producerVars, writerVars
<1>6. WriterInv'
  BY <1>1, <1>3 DEF IInv, WriterInv, writerVars, Batched
<1>7. HistoryInv' /\ \A q \in Producers : ProducerInv(q)'
  BY <1>1, <1>3, PromisesKept DEF producerVars
<1> QED BY <1>3, <1>4, <1>5, <1>6, <1>7 DEF IInv

LEMMA CrashStep ==
  ASSUME IInv, Crash
  PROVE  IInv'
<1>1. Durable' = Durable /\ WholeBatches'
  BY SameRows DEF IInv, Crash
<1>2. TypeOK'
  <2>1. SharedTypeOK'
    <3>1. stop' \in BOOLEAN /\ queue' = <<>> /\ receiving' \in BOOLEAN
          /\ pendingSmart' = {} /\ unconfirmed' = 0
      BY DEF Crash
    <3>2. queue' \in Seq(Request) /\ Len(queue') <= Capacity
      BY <3>1, EmptyQueue
    <3> QED BY <3>1, <3>2 DEF SharedTypeOK
  <2>2. ProducerTypeOK'
    BY DatabaseAssumption DEF IInv, TypeOK, ProducerTypeOK, Crash
  <2>3. WriterTypeOK'
    BY DatabaseAssumption DEF WriterTypeOK, Crash
  <2>4. OutcomeTypeOK'
    BY DatabaseAssumption DEF IInv, TypeOK, OutcomeTypeOK, Crash
  <2> QED BY <2>1, <2>2, <2>3, <2>4 DEF TypeOK
<1>3. QueueHeld' /\ CurrentHeld' /\ WriterInv'
  BY DEF QueueHeld, CurrentHeld, WriterInv, Working, Crash
<1>4. \A q \in Producers : ProducerInv(q)'
  BY DEF ProducerInv, Crash
<1>5. HistoryInv'
  <2>1. InFlight' = {}
    BY DEF InFlight, Crash
  <2>2. \A b \in Batch :
          /\ outcome[b] = "inflight" => outcome'[b] = "lost"
          /\ outcome[b] # "inflight" => outcome'[b] = outcome[b]
    BY DEF Crash
  <2>3. num' = num
    BY DEF Crash
  <2>4. \A p \in Producers, n \in 1 .. MaxBatches : <<p, n>> \in Batch
    BY DEF Batch
  <2> QED BY <1>1, <2>1, <2>2, <2>3, <2>4 DEF IInv, HistoryInv
<1> QED BY <1>1, <1>2, <1>3, <1>4, <1>5 DEF IInv

-----------------------------------------------------------------------------
(* The theorems                                                            *)

LEMMA InitInv == Init => IInv
<1> SUFFICES ASSUME Init PROVE IInv
  OBVIOUS
<1>1. Durable = {} /\ WholeBatches
  BY RowsDisjoint DEF Init, Durable, WholeBatches, Rows
<1>2. TypeOK
  <2>1. SharedTypeOK
    <3>1. stop \in BOOLEAN /\ queue = <<>> /\ receiving \in BOOLEAN
          /\ pendingSmart = {} /\ unconfirmed = 0
      BY DEF Init
    <3>2. queue \in Seq(Request) /\ Len(queue) <= Capacity
      BY <3>1, EmptyQueue
    <3> QED BY <3>1, <3>2 DEF SharedTypeOK
  <2>2. ProducerTypeOK
    BY DatabaseAssumption DEF Init, ProducerTypeOK
  <2>3. WriterTypeOK
    BY DatabaseAssumption DEF Init, WriterTypeOK
  <2>4. OutcomeTypeOK
    BY DatabaseAssumption DEF Init, OutcomeTypeOK
  <2> QED BY <2>1, <2>2, <2>3, <2>4 DEF TypeOK
<1>3. QueueHeld /\ CurrentHeld /\ WriterInv
  BY DEF Init, QueueHeld, CurrentHeld, WriterInv, Working
<1>4. \A p \in Producers : ProducerInv(p)
  BY DEF Init, ProducerInv
<1>5. HistoryInv
  BY <1>1, BatchPair DEF Init, HistoryInv, InFlight
<1> QED BY <1>1, <1>2, <1>3, <1>4, <1>5 DEF IInv

LEMMA NextInv == IInv /\ [Next]_vars => IInv'
<1> SUFFICES ASSUME IInv, [Next]_vars PROVE IInv'
  OBVIOUS
<1>1. ASSUME NEW p \in Producers, ProducerStep(p) PROVE IInv'
  BY <1>1, SubmitStep, AdmitStep, TrySendStep, ReplayStep, AwaitStep, LeaveStep
     DEF ProducerStep
<1>2. CASE WriterStep
  BY <1>2, ReceiveStep, ReopenStep, BeginStep, BodyStep, CommitStep, RollbackStep,
     ReplyStep, CloseStep DEF WriterStep
<1>3. CASE Panic
  BY <1>3, PanicStep
<1>4. CASE Signal \/ DropHandle \/ Join \/ UNCHANGED vars
  BY <1>4, MainSteps
<1>5. CASE Crash
  BY <1>5, CrashStep
<1> QED BY <1>1, <1>2, <1>3, <1>4, <1>5 DEF Next

THEOREM Invariance == Spec => []IInv
BY InitInv, NextInv, PTL DEF Spec

(* For any number of producers, batches and crashes, and whatever fails,   *)
(* every variable keeps its type.                                          *)
THEOREM TypeCorrect == Spec => []TypeOK
BY Invariance, PTL DEF IInv

(* A CommitAck is only ever given for a batch that is in the file as a     *)
(* whole, a refusal only for one that has no row in it.                    *)
THEOREM TrueAnswers == Spec => []AnswersAreTrue
<1>1. IInv => AnswersAreTrue
  <2> SUFFICES ASSUME IInv PROVE AnswersAreTrue
    OBVIOUS
  <2>1. \A b \in Batch : b \notin Durable => Rows(b) \cap db = {}
    BY DEF IInv, WholeBatches, Durable
  <2>2. \A b \in Batch : b \in Durable => Rows(b) \subseteq db
    BY DEF Durable
  <2> QED BY <2>1, <2>2 DEF IInv, HistoryInv, AnswersAreTrue
<1> QED BY <1>1, Invariance, PTL

(* The file never holds part of a batch.                                   *)
THEOREM NoTornBatch == Spec => []WholeBatches
BY Invariance, PTL DEF IInv

(* The queue and the writer hold each producer's request at most once, and *)
(* only while it waits.                                                    *)
THEOREM OneCopy == Spec => []OneCopyInHand
<1>1. IInv => OneCopyInHand
  <2> SUFFICES ASSUME IInv PROVE OneCopyInHand
    OBVIOUS
  <2>1. DOMAIN queue = 1 .. Len(queue)
    BY DEF IInv, TypeOK, SharedTypeOK
  <2>2. QueueHeld /\ CurrentHeld
    BY DEF IInv
  <2>3. ASSUME NEW i \in DOMAIN queue, cur # NoRequest PROVE queue[i].prod # cur.prod
    BY <2>1, <2>2, <2>3 DEF QueueHeld, CurrentHeld
  <2>4. ASSUME NEW i \in DOMAIN queue
        PROVE  pc[queue[i].prod] = "wait" /\ queue[i].num = num[queue[i].prod]
    BY <2>1, <2>2 DEF QueueHeld, Held
  <2>5. ASSUME NEW i \in DOMAIN queue, NEW j \in DOMAIN queue,
               queue[i].prod = queue[j].prod
        PROVE  i = j
    BY <2>1, <2>2, <2>5 DEF QueueHeld
  <2>6. cur # NoRequest => pc[cur.prod] = "wait" /\ cur.num = num[cur.prod]
    BY <2>2 DEF CurrentHeld, Held
  <2> QED BY <2>3, <2>4, <2>5, <2>6 DEF OneCopyInHand
<1> QED BY <1>1, Invariance, PTL

(* The handle and the writer thread, with their queue, retries, reopened   *)
(* connections, panics and crashes, implement the contract of a commit.    *)
THEOREM ImplementsContract == Spec => KeepsContract
<1>1. Init => Contract!Init
  <2> SUFFICES ASSUME Init PROVE Contract!Init
    OBVIOUS
  <2>1. Durable = {}
    BY RowsDisjoint DEF Init, Durable, Rows
  <2> QED BY <2>1 DEF Init, Contract!Init
<1>2. IInv /\ [Next]_vars => [Contract!Next]_(Contract!contractVars)
  <2> SUFFICES ASSUME IInv, [Next]_vars
               PROVE  [Contract!Next]_(Contract!contractVars)
    OBVIOUS
  <2> USE DEF Contract!contractVars
  <2>1. ASSUME NEW p \in Producers, ProducerStep(p)
        PROVE  [Contract!Next]_(Contract!contractVars)
    <3>1. db' = db
      BY <2>1 DEF ProducerStep, Submit, Admit, TrySend, Replay, Await, Leave, dbVars
    <3>2. Durable' = Durable
      BY <3>1, SameRows
    <3>3. CASE Submit(p)
      <4> DEFINE b == <<p, num[p] + 1>>
      <4>1. b \in Batch /\ outcome[b] = "none"
        BY <3>3, BatchPair, DatabaseAssumption
           DEF IInv, TypeOK, ProducerTypeOK, HistoryInv, Submit
      <4>2. \/ outcome' = [outcome EXCEPT ![b] = "inflight"]
            \/ outcome' = [outcome EXCEPT ![b] = "refused"]
        BY <3>3 DEF Submit
      <4>3. Contract!Submit(b) \/ Contract!Reject(b)
        BY <3>2, <4>1, <4>2 DEF Contract!Submit, Contract!Reject
      <4> QED BY <4>1, <4>3 DEF Contract!Next
    <3>4. ASSUME NEW answer, Return(p, answer),
                 pc[p] \in {"admit", "send", "wait", "replay"},
                 answer = "ok" => Current(p) \in Durable,
                 answer \in Refusals => Current(p) \notin Durable
          PROVE  Contract!Next
      <4> DEFINE b == Current(p)
      <4>1. b \in Batch /\ outcome[b] = "inflight"
        BY <3>4 DEF IInv, TypeOK, ProducerTypeOK, ProducerInv, HistoryInv, InFlight,
                    Current, Batch
      <4>2. outcome' = [outcome EXCEPT ![b] = OutcomeOf(answer)]
        BY <3>4 DEF Return
      <4>3. \/ OutcomeOf(answer) = "acked" /\ b \in Durable
            \/ OutcomeOf(answer) = "refused" /\ b \notin Durable
            \/ OutcomeOf(answer) = "failed"
        BY <3>4 DEF OutcomeOf
      <4>4. Contract!Acknowledge(b) \/ Contract!Refuse(b) \/ Contract!Fail(b)
        BY <3>2, <4>1, <4>2, <4>3
           DEF Contract!Acknowledge, Contract!Refuse, Contract!Fail, Contract!Tell
      <4> QED BY <4>1, <4>4 DEF Contract!Next
    <3>5. CASE Admit(p) \/ TrySend(p) \/ Replay(p) \/ Await(p) \/ Leave(p)
      <4>1. \/ outcome' = outcome
            \/ \E answer : /\ Return(p, answer)
                           /\ pc[p] \in {"admit", "send", "wait", "replay"}
                           /\ answer = "ok" => Current(p) \in Durable
                           /\ answer \in Refusals => Current(p) \notin Durable
        BY <3>5, AnswerFacts DEF Admit, TrySend, Replay, Await, Leave, Enqueue, Refusals
      <4> QED BY <3>2, <3>4, <4>1
    <3> QED BY <2>1, <3>3, <3>5 DEF ProducerStep
  <2>2. CASE Commit
    <3>1. /\ cur # NoRequest /\ staged = Rows(Batched(cur)) /\ WholeBatches
          /\ outcome' = outcome /\ db' \in {db, db \union staged}
      BY <2>2 DEF IInv, CurrentHeld, Working, WriterInv, Commit, KeepWriterEnv
    <3>2. Batched(cur) \in Batch /\ outcome[Batched(cur)] = "inflight"
      BY <3>1, InHand
    <3>3. Durable' = Durable \/ Durable' = Durable \union {Batched(cur)}
      BY <3>1, <3>2, SameRows, MoreRows
    <3> QED BY <3>1, <3>2, <3>3 DEF Contract!Next, Contract!Apply
  <2>3. CASE \/ Receive \/ Reopen \/ Begin \/ Body \/ Rollback \/ Reply \/ Close
             \/ Panic \/ Signal \/ DropHandle \/ Join \/ UNCHANGED vars
    <3>1. outcome' = outcome /\ db' = db
      BY <2>3 DEF Receive, Reopen, Begin, Body, Rollback, Reply, Close, Panic, Signal,
                  DropHandle, Join, KeepWriterEnv, KeepAllBut, vars, dbVars
    <3> QED BY <3>1, SameRows
  <2>4. CASE Crash
    <3>1. Durable' = Durable
      BY <2>4, SameRows DEF Crash
    <3> QED BY <2>4, <3>1 DEF Crash, Contract!Crash, Contract!Next
  <2> QED BY <2>1, <2>2, <2>3, <2>4 DEF Next, WriterStep
<1> QED BY <1>1, <1>2, Invariance, PTL DEF Spec, KeepsContract, Contract!Spec

-----------------------------------------------------------------------------
(* Further invariants, each inductive on top of IInv                       *)

(* The writer works, or waits for work, with an open connection; only the  *)
(* answer of a failed reopen is given without one.                         *)
ConnectionInv ==
  /\ wpc \in {"recv", "reopen", "begin", "body", "commit", "rollback"} => connected
  /\ wpc = "reply" => connected \/ verdict = "open"

Dying == wpc \in {"closing", "exited"}

(* An answer is lost, and a batch sent again, only to a dying writer.      *)
LossInv ==
  /\ \A p \in Producers : ack[p] = "dropped" \/ attempt[p] > 0 => Dying
  /\ \A i \in 1 .. Len(queue) : queue[i].reopen => Dying
  /\ cur # NoRequest => ~cur.reopen

(* What is counted is finite.                                              *)
CountInv == IsFiniteSet(InFlight) /\ AccountingExact

LEMMA ConnectionStep ==
  ASSUME IInv, ConnectionInv, [Next]_vars
  PROVE  ConnectionInv'
<1> USE DEF ConnectionInv
<1>1. ASSUME NEW e \in WriterErrors, Handle(e), connected' = connected, connected
      PROVE  ConnectionInv'
  BY <1>1 DEF Handle
<1>2. ASSUME NEW p \in Producers, ProducerStep(p) PROVE ConnectionInv'
  <2>1. UNCHANGED <<wpc, connected, verdict>>
    BY <1>2 DEF ProducerStep, Submit, Admit, TrySend, Replay, Await, Leave, writerVars
  <2> QED BY <2>1
<1>3. CASE Receive
  BY <1>3 DEF Receive, Start
<1>4. CASE Reopen
  BY <1>4 DEF Reopen, Start
<1>5. CASE Begin
  <2>1. CASE wpc' = "body"
    BY <1>5, <2>1 DEF Begin
  <2>2. ASSUME NEW e \in TransactionErrors, Handle(e) PROVE ConnectionInv'
    BY <1>1, <1>5, <2>2 DEF Begin, WriterErrors
  <2> QED BY <1>5, <2>1, <2>2 DEF Begin
<1>6. CASE Body
  BY <1>6 DEF Body
<1>7. CASE Commit
  <2>1. CASE Handle("unknown")
    BY <1>1, <1>7, <2>1 DEF Commit, WriterErrors
  <2> QED BY <1>7, <2>1 DEF Commit
<1>8. CASE Rollback
  <2>1. CASE Handle(verdict)
    <3>1. verdict \in WriterErrors
      BY <1>8 DEF Rollback, IInv, WriterInv, WriterErrors
    <3> QED BY <1>1, <1>8, <2>1, <3>1 DEF Rollback
  <2> QED BY <1>8, <2>1 DEF Rollback
<1>9. CASE Reply
  BY <1>9 DEF Reply, ConnectionFatal
<1>10. CASE Close \/ Panic
  BY <1>10 DEF Close, Panic
<1>11. CASE Signal \/ DropHandle \/ Join \/ UNCHANGED vars
  BY <1>11 DEF Signal, DropHandle, Join, KeepAllBut, vars, writerVars
<1>12. CASE Crash
  BY <1>12 DEF Crash
<1> QED BY <1>2, <1>3, <1>4, <1>5, <1>6, <1>7, <1>8, <1>9, <1>10, <1>11, <1>12
        DEF Next, WriterStep

(* A producer's own step: only Await counts an attempt, and only after a   *)
(* lost answer; only Enqueue marks a request for a fresh connection.       *)
LEMMA LossProducer ==
  ASSUME IInv, LossInv, NEW p \in Producers, ProducerStep(p)
  PROVE  LossInv'
<1>1. /\ attempt \in [Producers -> Nat]
      /\ ack \in [Producers -> {"none", "dropped", "ok"} \union WriterErrors]
      /\ queue \in Seq(Request)
  BY DEF IInv, TypeOK, ProducerTypeOK, SharedTypeOK
<1>2. UNCHANGED <<wpc, cur>>
  BY DEF ProducerStep, Submit, Admit, TrySend, Replay, Await, Leave, writerVars
<1>3. Dying' = Dying
  BY <1>2 DEF Dying
<1>4. \A q \in Producers : ack'[q] = "dropped" \/ attempt'[q] > 0 => Dying
  <2>1. \/ UNCHANGED <<ack, attempt>>
        \/ ack' = [ack EXCEPT ![p] = "none"] /\ attempt' \in {attempt, [attempt EXCEPT ![p] = 0]}
        \/ /\ ack[p] = "dropped" /\ ack' = ack
           /\ attempt' = [attempt EXCEPT ![p] = @ + 1]
    BY DEF ProducerStep, Submit, Admit, TrySend, Replay, Await, Leave, Return, Enqueue
  <2> QED BY <1>1, <2>1 DEF LossInv
<1>5. \A i \in 1 .. Len(queue') : queue'[i].reopen => Dying
  <2>1. CASE queue' = queue
    BY <2>1 DEF LossInv
  <2>2. CASE Enqueue(p)
    <3> DEFINE r == [prod |-> p, num |-> num[p], reopen |-> attempt[p] > 0]
    <3>1. queue' = Append(queue, r)
      BY <2>2 DEF Enqueue
    <3>2. /\ Len(queue') = Len(queue) + 1
          /\ \A i \in 1 .. Len(queue) : queue'[i] = queue[i]
          /\ queue'[Len(queue) + 1] = r
      BY <1>1, <3>1
    <3>3. r.reopen => Dying
      BY DEF LossInv
    <3> QED BY <1>1, <3>2, <3>3 DEF LossInv
  <2>3. queue' = queue \/ Enqueue(p)
    BY DEF ProducerStep, Submit, Admit, TrySend, Replay, Await, Leave, sharedVars
  <2> QED BY <2>1, <2>2, <2>3
<1> QED BY <1>2, <1>3, <1>4, <1>5 DEF LossInv

LEMMA LossStep ==
  ASSUME IInv, LossInv, [Next]_vars
  PROVE  LossInv'
<1>1. /\ attempt \in [Producers -> Nat]
      /\ ack \in [Producers -> {"none", "dropped", "ok"} \union WriterErrors]
      /\ queue \in Seq(Request) /\ verdict \in {"ok"} \union WriterErrors
  BY DEF IInv, TypeOK, ProducerTypeOK, SharedTypeOK, WriterTypeOK
<1>2. ASSUME NEW p \in Producers, ProducerStep(p) PROVE LossInv'
  BY <1>2, LossProducer
<1>3. CASE Receive
  <2>1. /\ wpc = "recv" /\ queue # <<>> /\ cur' = Head(queue) /\ queue' = Tail(queue)
        /\ UNCHANGED <<ack, attempt>>
    BY <1>3 DEF Receive, KeepWriterEnv
  <2>2. /\ Head(queue) = queue[1] /\ 1 \in 1 .. Len(queue)
        /\ \A i \in 1 .. Len(queue') : i + 1 \in 1 .. Len(queue) /\ queue'[i] = queue[i + 1]
    BY <1>1, <2>1
  <2>3. ~Dying
    BY <2>1 DEF Dying
  <2> QED BY <2>1, <2>2, <2>3 DEF LossInv
<1>4. CASE Reopen \/ Begin \/ Body \/ Commit \/ Rollback
  <2>1. UNCHANGED <<queue, cur, ack, attempt>> /\ ~Dying
    BY <1>4 DEF Reopen, Begin, Body, Commit, Rollback, KeepWriterEnv, Dying
  <2> QED BY <2>1 DEF LossInv
<1>5. CASE Reply
  <2>1. /\ wpc = "reply" /\ cur' = NoRequest /\ UNCHANGED <<queue, attempt>>
        /\ ack' = [ack EXCEPT ![cur.prod] = verdict] /\ verdict # "dropped"
    BY <1>1, <1>5 DEF Reply, KeepWriterEnv, WriterErrors, TransactionErrors
  <2>2. \A q \in Producers : ack'[q] = "dropped" => ack[q] = "dropped"
    BY <1>1, <2>1
  <2>3. ~Dying
    BY <2>1 DEF Dying
  <2> QED BY <2>1, <2>2, <2>3 DEF LossInv
<1>6. CASE Panic \/ Close
  <2>1. Dying' /\ cur' = NoRequest
    BY <1>6 DEF Panic, Close, Dying, IInv, CurrentHeld, Working
  <2> QED BY <2>1 DEF LossInv
<1>7. CASE Signal \/ DropHandle \/ Join \/ UNCHANGED vars
  <2>1. UNCHANGED <<queue, cur, ack, attempt, wpc>>
    BY <1>7 DEF Signal, DropHandle, Join, KeepAllBut, vars, writerVars, producerVars,
                sharedVars
  <2> QED BY <2>1 DEF LossInv, Dying
<1>8. CASE Crash
  <2>1. /\ Len(queue') = 0 /\ cur' = NoRequest
        /\ \A p \in Producers : ack'[p] = "none" /\ attempt'[p] = 0
    BY <1>8 DEF Crash
  <2> QED BY <2>1 DEF LossInv
<1> QED BY <1>2, <1>3, <1>4, <1>5, <1>6, <1>7, <1>8 DEF Next, WriterStep

-----------------------------------------------------------------------------
(* The accounting of PendingSubmission                                     *)

(* A submission is admitted: its producer and its device are counted.      *)
LEMMA CountIn ==
  ASSUME CountInv, NEW p, p \notin InFlight, InFlight' = InFlight \union {p},
         PendingDevice(p) \cap pendingSmart = {},
         pendingSmart' = pendingSmart \union PendingDevice(p),
         unconfirmed' = unconfirmed + 1
  PROVE  CountInv'
<1>1. /\ IsFiniteSet(InFlight')
      /\ Cardinality(InFlight') = Cardinality(InFlight) + 1
  BY FS_AddElement DEF CountInv
<1>2. pendingSmart' = UNION {PendingDevice(q) : q \in InFlight'}
  BY DEF CountInv, AccountingExact
<1>3. \A q \in InFlight : PendingDevice(q) \cap PendingDevice(p) = {}
  BY DEF CountInv, AccountingExact
<1>4. \A q, r \in InFlight' : q # r => PendingDevice(q) \cap PendingDevice(r) = {}
  BY <1>3 DEF CountInv, AccountingExact
<1> QED BY <1>1, <1>2, <1>4 DEF CountInv, AccountingExact, PendingDevice

(* A submission is left: what it took is given back, and nothing else.     *)
LEMMA CountOut ==
  ASSUME CountInv, NEW p \in InFlight, InFlight' = InFlight \ {p}, Release(p)
  PROVE  CountInv'
<1>1. /\ IsFiniteSet(InFlight')
      /\ Cardinality(InFlight') = Cardinality(InFlight) - 1
  BY FS_RemoveElement DEF CountInv
<1>2. \A q \in InFlight' : q \in InFlight /\ PendingDevice(q) \cap PendingDevice(p) = {}
  BY DEF CountInv, AccountingExact
<1>3. pendingSmart' = UNION {PendingDevice(q) : q \in InFlight'}
  BY <1>2 DEF CountInv, AccountingExact, Release
<1> QED BY <1>1, <1>2, <1>3 DEF CountInv, AccountingExact, Release, PendingDevice

LEMMA CountSame ==
  ASSUME CountInv, InFlight' = InFlight, UNCHANGED <<pendingSmart, unconfirmed>>
  PROVE  CountInv'
BY DEF CountInv, AccountingExact, PendingDevice

LEMMA CountProducer ==
  ASSUME IInv, CountInv, NEW p \in Producers, ProducerStep(p)
  PROVE  CountInv'
<1>1. pc \in [Producers -> {"idle", "admit", "send", "wait", "replay", "done"}]
  BY DEF IInv, TypeOK, ProducerTypeOK
<1>2. ASSUME NEW answer, Return(p, answer), p \in InFlight PROVE CountInv'
  <2>1. pc' = [pc EXCEPT ![p] = IF answer = "ok" THEN "idle" ELSE "done"] /\ Release(p)
    BY <1>2 DEF Return
  <2>2. InFlight' = InFlight \ {p}
    BY <1>1, <2>1 DEF InFlight
  <2> QED BY <1>2, <2>1, <2>2, CountOut
<1>3. ASSUME NEW s \in {"admit", "send", "wait", "replay"}, pc' = [pc EXCEPT ![p] = s],
             UNCHANGED <<pendingSmart, unconfirmed>>, p \in InFlight
      PROVE  CountInv'
  <2>1. InFlight' = InFlight
    BY <1>1, <1>3 DEF InFlight
  <2> QED BY <1>3, <2>1, CountSame
<1>4. CASE Submit(p)
  <2>1. p \notin InFlight
    BY <1>4 DEF Submit, InFlight
  <2>2. CASE PendingDevice(p) \cap pendingSmart = {}
    <3>1. InFlight' = InFlight \union {p}
      BY <1>1, <1>4, <2>2 DEF Submit, InFlight
    <3> QED BY <1>4, <2>1, <2>2, <3>1, CountIn DEF Submit
  <2>3. CASE PendingDevice(p) \cap pendingSmart # {}
    <3>1. InFlight' = InFlight
      BY <1>1, <1>4, <2>1, <2>3 DEF Submit, InFlight
    <3> QED BY <1>4, <2>3, <3>1, CountSame DEF Submit
  <2> QED BY <2>2, <2>3
<1>5. CASE Admit(p)
  BY <1>2, <1>3, <1>5 DEF Admit, InFlight
<1>6. CASE TrySend(p)
  BY <1>2, <1>3, <1>6 DEF TrySend, Enqueue, InFlight
<1>7. CASE Replay(p)
  BY <1>2, <1>3, <1>7 DEF Replay, Enqueue, InFlight
<1>8. CASE Await(p)
  BY <1>2, <1>3, <1>8 DEF Await, InFlight
<1>9. CASE Leave(p)
  <2>1. InFlight' = InFlight
    BY <1>1, <1>9 DEF Leave, InFlight
  <2> QED BY <1>9, <2>1, CountSame DEF Leave, sharedVars
<1> QED BY <1>4, <1>5, <1>6, <1>7, <1>8, <1>9 DEF ProducerStep

LEMMA CountStep ==
  ASSUME IInv, CountInv, [Next]_vars
  PROVE  CountInv'
<1>1. ASSUME NEW p \in Producers, ProducerStep(p) PROVE CountInv'
  BY <1>1, CountProducer
<1>2. CASE WriterStep \/ Panic \/ Signal \/ DropHandle \/ Join \/ UNCHANGED vars
  <2>1. UNCHANGED <<pc, pendingSmart, unconfirmed>>
    BY <1>2 DEF WriterStep, Receive, Reopen, Begin, Body, Commit, Rollback, Reply, Close,
                Panic, Signal, DropHandle, Join, KeepWriterEnv, KeepAllBut, vars,
                sharedVars, producerVars
  <2> QED BY <2>1, CountSame DEF InFlight
<1>3. CASE Crash
  <2>1. InFlight' = {} /\ pendingSmart' = {} /\ unconfirmed' = 0
    BY <1>3 DEF Crash, InFlight
  <2> QED BY <2>1, FS_EmptySet DEF CountInv, AccountingExact
<1> QED BY <1>1, <1>2, <1>3 DEF Next

(* The three invariants hold together with IInv.                           *)
LEMMA ServiceInvariance == Spec => [](ConnectionInv /\ LossInv /\ CountInv)
<1>1. Init => ConnectionInv
  BY DEF Init, ConnectionInv
<1>2. Init => LossInv
  BY DEF Init, LossInv
<1>3. Init => CountInv
  <2> SUFFICES ASSUME Init PROVE CountInv
    OBVIOUS
  <2>1. InFlight = {}
    BY DEF Init, InFlight
  <2> QED BY <2>1, FS_EmptySet DEF Init, CountInv, AccountingExact
<1> QED BY <1>1, <1>2, <1>3, Invariance, ConnectionStep, LossStep, CountStep, PTL DEF Spec

(* The writer only takes and executes requests with an open connection, as *)
(* a failed reopen ends its thread: process_request never meets a missing  *)
(* connection.                                                             *)
THEOREM AlwaysConnected == Spec => []ServesConnected
<1>1. ConnectionInv => ServesConnected
  BY DEF ConnectionInv, ServesConnected
<1> QED BY <1>1, ServiceInvariance, PTL

(* A replay only ever reaches a writer that is going away: none is served, *)
(* however many attempts and replays the constants allow.                  *)
THEOREM ReplaysAreInVain == Spec => []ReplayIsNeverServed
<1>1. LossInv => ReplayIsNeverServed
  BY DEF LossInv, ReplayIsNeverServed, Dying
<1> QED BY <1>1, ServiceInvariance, PTL

(* unconfirmed_requests is the number of submissions in hand and           *)
(* pending_smart the devices they sample, which are distinct: every way    *)
(* out of submit_inner gives back what its prologue took.                  *)
THEOREM NothingLeaks == Spec => []AccountingExact
<1>1. CountInv => AccountingExact
  BY DEF CountInv
<1> QED BY <1>1, ServiceInvariance, PTL
=============================================================================
