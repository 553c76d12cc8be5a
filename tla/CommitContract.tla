--------------------------- MODULE CommitContract ---------------------------
(***************************************************************************)
(* What DatabaseHandle promises to the thread that submits a batch, with   *)
(* no queue, no writer thread and no retries:                              *)
(*                                                                         *)
(*   - a batch becomes durable as a whole, at most once, and only while    *)
(*     its submitter is still waiting for the answer;                      *)
(*   - CommitAck is given only for a durable batch;                        *)
(*   - a refusal (stop flag, QueueClosed, invalid batch) is given only for *)
(*     a batch that is not durable;                                        *)
(*   - every other error leaves the caller not knowing.                    *)
(***************************************************************************)
CONSTANT Batch

VARIABLES
  durable,   \* the batches whose rows SQLite has committed
  outcome    \* what the submitter of each batch has been told

contractVars == <<durable, outcome>>

Outcome == {"none", "inflight", "acked", "refused", "failed", "lost"}

ContractTypeOK ==
  /\ durable \subseteq Batch
  /\ outcome \in [Batch -> Outcome]

Init ==
  /\ durable = {}
  /\ outcome = [b \in Batch |-> "none"]

Tell(b, o) ==
  /\ outcome[b] = "inflight"
  /\ outcome' = [outcome EXCEPT ![b] = o]
  /\ UNCHANGED durable

Submit(b) ==
  /\ outcome[b] = "none"
  /\ outcome' = [outcome EXCEPT ![b] = "inflight"]
  /\ UNCHANGED durable

Reject(b) ==
  /\ outcome[b] = "none"
  /\ outcome' = [outcome EXCEPT ![b] = "refused"]
  /\ UNCHANGED durable

Apply(b) ==
  /\ outcome[b] = "inflight"
  /\ durable' = durable \union {b}
  /\ UNCHANGED outcome

Acknowledge(b) == b \in durable /\ Tell(b, "acked")

Refuse(b) == b \notin durable /\ Tell(b, "refused")

Fail(b) == Tell(b, "failed")

Crash ==
  /\ outcome' = [b \in Batch |->
                   IF outcome[b] = "inflight" THEN "lost" ELSE outcome[b]]
  /\ UNCHANGED durable

Next ==
  \/ \E b \in Batch :
        Submit(b) \/ Reject(b) \/ Apply(b) \/ Acknowledge(b) \/ Refuse(b) \/ Fail(b)
  \/ Crash

Spec == Init /\ [][Next]_contractVars

(* The answer a submitter has is the truth about the database.             *)
AnswersAreTrue ==
  \A b \in Batch :
    /\ outcome[b] = "acked" => b \in durable
    /\ outcome[b] \in {"none", "refused"} => b \notin durable
=============================================================================
