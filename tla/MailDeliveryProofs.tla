------------------------- MODULE MailDeliveryProofs -------------------------
(***************************************************************************)
(* Theorems about MailDelivery, for any number of processes, calls,        *)
(* tokens, attempts and retries: what a mail, its session and the token it *)
(* uses are promised.                                                      *)
(***************************************************************************)
EXTENDS MailDelivery, TokenCacheProofs

-----------------------------------------------------------------------------
(* The inductive invariant                                                 *)

InSession == {"auth", "authenticated", "terminator", "final"}

JobType == [kind : {"none", "send", "validate", "authorize"},
            pc : {"off", "token", "refresh", "connect", "starttls"} \union InSession,
            refreshed : BOOLEAN, retries : 0 .. TransientRetryLimit,
            result : {"none", "ok", "error", "unknown"}]
ConnType == [tls : BOOLEAN, caps : SUBSET Capabilities]

JobsType ==
  /\ job \in [Procs -> JobType] /\ conn \in [Procs -> ConnType]
  /\ offered \in [Procs -> SUBSET Capabilities] /\ accepted \in [Procs -> Nat]

(* A call under way has had no mail accepted and no result; afterwards the *)
(* result tells what was accepted.                                         *)
ResultOf(p, j, times) ==
  IF j.pc = "off"
  THEN /\ times <= 1
       /\ j.result = "error" => times = 0
       /\ p # Operator /\ j.result = "ok" => times = 1
  ELSE times = 0 /\ j.result = "none" /\ j.kind \in Kinds(p)

(* The session is inside TLS from the authentication on, and its           *)
(* capabilities are those offered there.                                   *)
SessionOf(j, c, inside) ==
  /\ j.pc \in InSession => c.tls /\ inside = c.caps
  /\ j.pc \in InSession \ {"auth"} => "AUTH" \in c.caps
  /\ c.caps # {} => j.pc \in InSession \union {"starttls"}
  /\ j.pc \in {"terminator", "final"} => j.kind = "send"

CallInv ==
  \A p \in Procs : /\ ResultOf(p, job[p], accepted[p])
                   /\ SessionOf(job[p], conn[p], offered[p])

(* A call waits for the acquisition it began, and for no other.            *)
WaitInv == \A p \in Procs : acq[p].pc # "idle" <=> job[p].pc \in {"token", "refresh"}

IInv == TokenInv /\ JobsType /\ CallInv /\ WaitInv

-----------------------------------------------------------------------------
(* A step of one call                                                      *)

LEMMA CallTypes ==
  ASSUME IInv, NEW p \in Procs
  PROVE  /\ job[p] \in JobType /\ conn[p] \in ConnType
         /\ offered[p] \in SUBSET Capabilities /\ accepted[p] \in Nat
         /\ ResultOf(p, job[p], accepted[p]) /\ SessionOf(job[p], conn[p], offered[p])
         /\ acq[p].pc # "idle" <=> job[p].pc \in {"token", "refresh"}
BY DEF IInv, JobsType, CallInv, WaitInv

(* What p's call becomes is all that counts.                               *)
LEMMA CallStep ==
  ASSUME IInv, NEW p \in Procs, NEW j \in JobType, NEW c \in ConnType,
         NEW inside \in SUBSET Capabilities, NEW times \in Nat,
         job' = [job EXCEPT ![p] = j], conn' = [conn EXCEPT ![p] = c],
         offered' = [offered EXCEPT ![p] = inside], accepted' = [accepted EXCEPT ![p] = times],
         ResultOf(p, j, times), SessionOf(j, c, inside),
         TokenInv', \A q \in Procs \ {p} : acq'[q] = acq[q],
         acq'[p].pc # "idle" <=> j.pc \in {"token", "refresh"}
  PROVE  IInv'
<1>1. /\ job'[p] = j /\ conn'[p] = c /\ offered'[p] = inside /\ accepted'[p] = times
      /\ \A q \in Procs \ {p} : /\ job'[q] = job[q] /\ conn'[q] = conn[q]
                                /\ offered'[q] = offered[q] /\ accepted'[q] = accepted[q]
  BY DEF IInv, JobsType
<1>2. JobsType'
  BY DEF IInv, JobsType
<1>3. CallInv'
  BY <1>1 DEF IInv, CallInv
<1>4. WaitInv'
  BY <1>1 DEF IInv, WaitInv
<1> QED BY <1>2, <1>3, <1>4 DEF IInv

(* What stays as it is has not changed at p either.                        *)
LEMMA Kept ==
  ASSUME JobsType, NEW p \in Procs
  PROVE  /\ UNCHANGED job => job' = [job EXCEPT ![p] = job[p]]
         /\ UNCHANGED conn => conn' = [conn EXCEPT ![p] = conn[p]]
         /\ UNCHANGED offered => offered' = [offered EXCEPT ![p] = offered[p]]
         /\ UNCHANGED accepted => accepted' = [accepted EXCEPT ![p] = accepted[p]]
BY DEF JobsType

(* The token cache is as it was, or an acquisition begins.                 *)
LEMMA AcqKept ==
  ASSUME IInv, UNCHANGED <<tokensUnread, acq>>
  PROVE  TokenInv' /\ acq' = acq
BY TokensStutter DEF IInv, tokensUnread, tokenVars

LEMMA AcqBegun ==
  ASSUME IInv, NEW p \in Procs, NEW mode \in Modes, Begin(p, mode), acq[p].pc = "idle",
         mode = "interactive" => p = Operator, UNCHANGED tokensUnread
  PROVE  /\ TokenInv' /\ acq'[p].pc = "metadata"
         /\ \A q \in Procs \ {p} : acq'[q] = acq[q]
<1>1. TokenInv'
  BY BeginStep DEF IInv, tokensUnread, Acquired
<1>2. acq \in [Procs -> AcqType]
  BY DEF IInv, TokenInv, TokenType
<1>3. [Idle EXCEPT !.pc = "metadata", !.mode = mode].pc = "metadata"
  BY DEF Idle
<1> QED BY <1>1, <1>2, <1>3 DEF Begin, Set

(* A call that is over and what it says.                                   *)
LEMMA ReturnRecord ==
  ASSUME NEW result \in {"none", "ok", "error", "unknown"}
  PROVE  LET j == [NoJob EXCEPT !.result = result]
         IN  j \in JobType /\ j.pc = "off" /\ j.result = result
<1>1. 0 \in 0 .. TransientRetryLimit
  BY MailAssumption
<1> QED BY <1>1 DEF NoJob, JobType

LEMMA ClosedTypes == Closed \in ConnType /\ Closed.caps = {} /\ {} \in SUBSET Capabilities
BY DEF Closed, ConnType

(* A change of the step alone.                                             *)
LEMMA StepRecord ==
  ASSUME NEW old \in JobType, NEW pc,
         pc \in {"off", "token", "refresh", "connect", "starttls"} \union InSession
  PROVE  LET j == [old EXCEPT !.pc = pc]
         IN  /\ j \in JobType /\ j.pc = pc /\ j.kind = old.kind /\ j.result = old.result
BY DEF JobType

-----------------------------------------------------------------------------
(* An error, wherever it comes                                             *)

LEMMA BreaksStep ==
  ASSUME IInv, NEW p \in Procs, job[p].pc \in {"connect", "starttls"} \union InSession,
         NEW errors \in SUBSET Errors, Breaks(p, errors), UNCHANGED tokensUnread,
         NEW times \in {0, 1}, accepted' = [accepted EXCEPT ![p] = times],
         times = 1 => errors = {"unknown"}
  PROVE  IInv'
<1>1. /\ job[p] \in JobType /\ job[p].result = "none" /\ job[p].kind \in Kinds(p)
      /\ acq[p].pc = "idle"
  BY CallTypes DEF ResultOf, InSession
<1>2. PICK error \in errors : AfterError(p, error)
  BY DEF Breaks
<1>3. /\ conn' = [conn EXCEPT ![p] = Closed] /\ offered' = [offered EXCEPT ![p] = {}]
      /\ Closed \in ConnType /\ Closed.caps = {} /\ {} \in SUBSET Capabilities
  BY ClosedTypes DEF Breaks, Close
<1>4. times \in Nat /\ (times = 1 => error = "unknown") /\ (times # 1 => times = 0)
  BY <1>2
<1>5. CASE error = "535" /\ method # "PLAIN" /\ ~job[p].refreshed
  <2> DEFINE j == [job[p] EXCEPT !.pc = "refresh"]
  <2>1. job' = [job EXCEPT ![p] = j] /\ Begin(p, "force")
    <3>1. Step(p, "refresh") /\ Begin(p, "force")
      BY <1>2, <1>5 DEF AfterError, IsTransient
    <3>2. job \in [Procs -> JobType]
      BY DEF IInv, JobsType
    <3> QED BY <3>1, <3>2 DEF Step
  <2>2. j \in JobType /\ j.pc = "refresh" /\ j.kind = job[p].kind /\ j.result = job[p].result
    BY <1>1, StepRecord
  <2> HIDE DEF j
  <2>3. "force" \in Modes /\ "force" # "interactive"
    BY DEF Modes
  <2>4. /\ TokenInv' /\ acq'[p].pc = "metadata" /\ \A q \in Procs \ {p} : acq'[q] = acq[q]
    BY <1>1, <2>1, <2>3, AcqBegun
  <2>5. ResultOf(p, j, times) /\ SessionOf(j, Closed, {})
    BY <1>1, <1>3, <1>4, <1>5, <2>2 DEF ResultOf, SessionOf, InSession
  <2> QED BY <1>3, <1>4, <2>1, <2>2, <2>4, <2>5, CallStep
<1>6. CASE /\ ~(error = "535" /\ method # "PLAIN" /\ ~job[p].refreshed)
           /\ IsTransient(error) /\ job[p].retries < TransientRetryLimit
  <2> DEFINE j == [job[p] EXCEPT !.pc = "connect", !.retries = @ + 1]
  <2>1. job' = [job EXCEPT ![p] = j] /\ UNCHANGED acq
    BY <1>2, <1>6, <1>1 DEF AfterError, IInv, JobsType
  <2>2. j \in JobType /\ j.pc = "connect" /\ j.kind = job[p].kind /\ j.result = job[p].result
    <3>1. job[p].retries + 1 \in 0 .. TransientRetryLimit
      BY <1>1, <1>6, MailAssumption DEF JobType
    <3> QED BY <1>1, <3>1 DEF JobType
  <2> HIDE DEF j
  <2>3. TokenInv' /\ acq' = acq
    BY <2>1, AcqKept
  <2>4. ResultOf(p, j, times) /\ SessionOf(j, Closed, {})
    BY <1>1, <1>3, <1>4, <1>6, <2>2 DEF ResultOf, SessionOf, InSession, IsTransient
  <2>5. acq'[p].pc = "idle" /\ \A q \in Procs \ {p} : acq'[q] = acq[q]
    BY <1>1, <2>3
  <2> QED BY <1>3, <1>4, <2>1, <2>2, <2>3, <2>4, <2>5, CallStep
<1>7. CASE /\ ~(error = "535" /\ method # "PLAIN" /\ ~job[p].refreshed)
           /\ ~(IsTransient(error) /\ job[p].retries < TransientRetryLimit)
  <2>1. PICK result \in {"unknown", "error"} :
          Return(p, result) /\ UNCHANGED acq /\ (result = "error" => error # "unknown")
    <3>1. Return(p, IF error = "unknown" THEN "unknown" ELSE "error") /\ UNCHANGED acq
      BY <1>2, <1>7 DEF AfterError, Return, Step, Begin, Set
    <3>2. CASE error = "unknown"
      BY <3>1, <3>2
    <3>3. CASE error # "unknown"
      BY <3>1, <3>3
    <3> QED BY <3>2, <3>3
  <2> DEFINE j == [NoJob EXCEPT !.result = result]
  <2>2. job' = [job EXCEPT ![p] = j] /\ j \in JobType /\ j.pc = "off" /\ j.result = result
    BY <2>1, ReturnRecord DEF Return
  <2> HIDE DEF j
  <2>3. TokenInv' /\ acq' = acq
    BY <2>1, AcqKept
  <2>4. ResultOf(p, j, times) /\ SessionOf(j, Closed, {})
    BY <1>3, <1>4, <2>1, <2>2 DEF ResultOf, SessionOf, InSession
  <2>5. acq'[p].pc = "idle" /\ \A q \in Procs \ {p} : acq'[q] = acq[q]
    BY <1>1, <2>3
  <2> QED BY <1>3, <1>4, <2>2, <2>3, <2>4, <2>5, CallStep
<1> QED BY <1>5, <1>6, <1>7

(* The same where nothing can have been accepted.                          *)
LEMMA BreaksEarly ==
  ASSUME IInv, NEW p \in Procs, job[p].pc \in {"connect", "starttls"} \union InSession,
         NEW errors \in SUBSET Errors, Breaks(p, errors), UNCHANGED <<tokensUnread, accepted>>
  PROVE  IInv'
<1>1. accepted[p] = 0
  BY CallTypes DEF ResultOf, InSession
<1>2. accepted' = [accepted EXCEPT ![p] = 0]
  BY <1>1 DEF IInv, JobsType
<1>3. 0 \in {0, 1} /\ (0 = 1 => errors = {"unknown"}) /\ UNCHANGED tokensUnread
  OBVIOUS
<1> QED BY <1>2, <1>3, BreaksStep

-----------------------------------------------------------------------------
(* The steps of a call                                                     *)

(* A call goes on to its next step, with the token cache as it is.         *)
LEMMA GoesOn ==
  ASSUME IInv, NEW p \in Procs, job[p].pc \in {"connect", "starttls"} \union InSession,
         NEW pc \in {"starttls"} \union InSession, Step(p, pc),
         NEW c \in ConnType, NEW inside \in SUBSET Capabilities,
         conn' = [conn EXCEPT ![p] = c], offered' = [offered EXCEPT ![p] = inside],
         UNCHANGED <<acq, tokensUnread, accepted>>,
         pc \in InSession => c.tls /\ inside = c.caps,
         pc \in InSession \ {"auth"} => "AUTH" \in c.caps,
         pc \in {"terminator", "final"} => job[p].kind = "send"
  PROVE  IInv'
<1> DEFINE j == [job[p] EXCEPT !.pc = pc]
<1>1. /\ job[p] \in JobType /\ job[p].result = "none" /\ job[p].kind \in Kinds(p)
      /\ acq[p].pc = "idle" /\ accepted[p] = 0
  BY CallTypes DEF ResultOf, InSession
<1>2. job' = [job EXCEPT ![p] = j] /\ j \in JobType /\ j.pc = pc /\ j.kind = job[p].kind
      /\ j.result = job[p].result
  BY <1>1, StepRecord DEF Step
<1> HIDE DEF j
<1>3. TokenInv' /\ acq' = acq
  BY AcqKept
<1>4. pc # "off" /\ pc \notin {"token", "refresh"}
  BY DEF InSession
<1>5. ResultOf(p, j, 0) /\ SessionOf(j, c, inside)
  BY <1>1, <1>2, <1>4 DEF ResultOf, SessionOf
<1>6. accepted' = [accepted EXCEPT ![p] = 0] /\ 0 \in Nat
  BY <1>1 DEF IInv, JobsType
<1>7. \A q \in Procs \ {p} : acq'[q] = acq[q]
  BY <1>3
<1> QED BY <1>1, <1>2, <1>3, <1>4, <1>5, <1>6, <1>7, CallStep

(* A call returns, its session closed.                                     *)
LEMMA Returns ==
  ASSUME IInv, NEW p \in Procs, job[p].pc \in {"connect", "starttls"} \union InSession,
         Return(p, "ok"), Close(p), UNCHANGED <<acq, tokensUnread>>,
         NEW times \in {0, 1}, accepted' = [accepted EXCEPT ![p] = times],
         p # Operator => times = 1
  PROVE  IInv'
<1> DEFINE j == [NoJob EXCEPT !.result = "ok"]
<1>1. acq[p].pc = "idle"
  BY CallTypes DEF InSession
<1>2. job' = [job EXCEPT ![p] = j] /\ j \in JobType /\ j.pc = "off" /\ j.result = "ok"
  BY ReturnRecord DEF Return
<1> HIDE DEF j
<1>3. /\ conn' = [conn EXCEPT ![p] = Closed] /\ offered' = [offered EXCEPT ![p] = {}]
      /\ Closed \in ConnType /\ Closed.caps = {} /\ {} \in SUBSET Capabilities
  BY ClosedTypes DEF Close
<1>4. TokenInv' /\ acq' = acq
  BY AcqKept
<1>5. ResultOf(p, j, times) /\ SessionOf(j, Closed, {})
  BY <1>2, <1>3 DEF ResultOf, SessionOf, InSession
<1>6. acq'[p].pc = "idle" /\ (\A q \in Procs \ {p} : acq'[q] = acq[q]) /\ times \in Nat
  BY <1>1, <1>4
<1> QED BY <1>2, <1>3, <1>4, <1>5, <1>6, CallStep

LEMMA ConnectStep ==
  ASSUME IInv, NEW p \in Procs, Connect(p)
  PROVE  IInv'
<1>1. job[p].pc = "connect" /\ UNCHANGED <<tokensUnread, accepted>>
  BY DEF Connect, JobAt
<1>2. CASE Breaks(p, Refusals)
  <2>1. Refusals \in SUBSET Errors
    BY DEF Refusals, Errors
  <2> QED BY <1>1, <1>2, <2>1, BreaksEarly
<1>3. ASSUME NEW caps \in SUBSET Capabilities, UNCHANGED acq,
             conn' = [conn EXCEPT ![p] = [tls |-> tlsMode = "implicit", caps |-> caps]],
             offered' = [offered EXCEPT ![p] = IF tlsMode = "implicit" THEN caps ELSE {}],
             Step(p, IF tlsMode = "implicit" THEN "auth" ELSE "starttls")
      PROVE  IInv'
  <2>1. CASE tlsMode = "implicit"
    <3> DEFINE c == [tls |-> TRUE, caps |-> caps]
    <3>1. c \in ConnType /\ c.tls /\ c.caps = caps
      BY DEF ConnType
    <3>2. conn' = [conn EXCEPT ![p] = c] /\ offered' = [offered EXCEPT ![p] = caps]
          /\ Step(p, "auth")
      BY <1>3, <2>1
    <3>3. "auth" \in InSession /\ "auth" \notin {"terminator", "final"}
      BY DEF InSession
    <3> HIDE DEF c
    <3> QED BY <1>1, <1>3, <3>1, <3>2, <3>3, GoesOn
  <2>2. CASE tlsMode # "implicit"
    <3> DEFINE c == [tls |-> FALSE, caps |-> caps]
    <3>1. c \in ConnType
      BY DEF ConnType
    <3>2. conn' = [conn EXCEPT ![p] = c] /\ offered' = [offered EXCEPT ![p] = {}]
          /\ Step(p, "starttls")
      BY <1>3, <2>2
    <3>3. "starttls" \notin InSession /\ "starttls" \notin {"terminator", "final"}
          /\ {} \in SUBSET Capabilities
      BY DEF InSession
    <3> HIDE DEF c
    <3> QED BY <1>1, <1>3, <3>1, <3>2, <3>3, GoesOn
  <2> QED BY <2>1, <2>2
<1> QED BY <1>2, <1>3 DEF Connect

LEMMA StartTlsStep ==
  ASSUME IInv, NEW p \in Procs, StartTls(p)
  PROVE  IInv'
<1>1. job[p].pc = "starttls" /\ UNCHANGED <<tokensUnread, accepted>>
  BY DEF StartTls, JobAt
<1>2. CASE Breaks(p, IF "STARTTLS" \in conn[p].caps THEN Refusals ELSE {"permanent"})
  <2>1. (IF "STARTTLS" \in conn[p].caps THEN Refusals ELSE {"permanent"}) \in SUBSET Errors
    BY DEF Refusals, Errors
  <2> QED BY <1>1, <1>2, <2>1, BreaksEarly
<1>3. ASSUME NEW caps \in SUBSET Capabilities, UNCHANGED acq,
             conn' = [conn EXCEPT ![p] = [tls |-> TRUE, caps |-> caps]],
             offered' = [offered EXCEPT ![p] = caps], Step(p, "auth")
      PROVE  IInv'
  <2> DEFINE c == [tls |-> TRUE, caps |-> caps]
  <2>1. c \in ConnType /\ c.tls /\ c.caps = caps
    BY DEF ConnType
  <2>2. "auth" \in InSession /\ "auth" \notin {"terminator", "final"}
    BY DEF InSession
  <2>3. conn' = [conn EXCEPT ![p] = c]
    BY <1>3
  <2> HIDE DEF c
  <2> QED BY <1>1, <1>3, <2>1, <2>2, <2>3, GoesOn
<1> QED BY <1>2, <1>3 DEF StartTls

(* The session stays as it is.                                             *)
LEMMA SameSession ==
  ASSUME IInv, NEW p \in Procs, job[p].pc \in InSession, NEW pc \in InSession \ {"auth"},
         Step(p, pc), UNCHANGED <<acq, tokensUnread, conn, offered, accepted>>,
         "AUTH" \in conn[p].caps, pc \in {"terminator", "final"} => job[p].kind = "send"
  PROVE  IInv'
<1>1. /\ conn[p] \in ConnType /\ offered[p] \in SUBSET Capabilities
      /\ conn[p].tls /\ offered[p] = conn[p].caps
  BY CallTypes DEF SessionOf
<1>2. conn' = [conn EXCEPT ![p] = conn[p]] /\ offered' = [offered EXCEPT ![p] = offered[p]]
  BY Kept DEF IInv
<1> QED BY <1>1, <1>2, GoesOn

LEMMA AuthenticateStep ==
  ASSUME IInv, NEW p \in Procs, Authenticate(p)
  PROVE  IInv'
<1>1. job[p].pc = "auth" /\ UNCHANGED <<tokensUnread, accepted>>
  BY DEF Authenticate, JobAt
<1>2. CASE Breaks(p, IF CanAuthenticate(p) THEN Refusals \union {"535"} ELSE {"permanent"})
  <2>1. (IF CanAuthenticate(p) THEN Refusals \union {"535"} ELSE {"permanent"}) \in SUBSET Errors
    BY DEF Refusals, Errors
  <2> QED BY <1>1, <1>2, <2>1, BreaksEarly DEF InSession
<1>3. CASE CanAuthenticate(p) /\ Step(p, "authenticated") /\ UNCHANGED <<acq, conn, offered>>
  <2>1. "authenticated" \in InSession \ {"auth"} /\ "authenticated" \notin {"terminator", "final"}
        /\ "auth" \in InSession
    BY DEF InSession
  <2> QED BY <1>1, <1>3, <2>1, SameSession DEF CanAuthenticate
<1> QED BY <1>2, <1>3 DEF Authenticate

LEMMA ValidatedStep ==
  ASSUME IInv, NEW p \in Procs, Validated(p)
  PROVE  IInv'
<1>1. /\ job[p].pc = "authenticated" /\ job[p].kind = "validate" /\ Return(p, "ok") /\ Close(p)
      /\ UNCHANGED <<acq, tokensUnread, accepted>>
  BY DEF Validated, JobAt, tokenVars, tokensUnread
<1>2. job[p].kind \in Kinds(p) /\ accepted[p] = 0
  BY <1>1, CallTypes DEF ResultOf
<1>3. p = Operator
  BY <1>1, <1>2 DEF Kinds
<1>4. accepted' = [accepted EXCEPT ![p] = 0]
  BY <1>1, <1>2 DEF IInv, JobsType
<1> QED BY <1>1, <1>3, <1>4, Returns DEF InSession

LEMMA TransferStep ==
  ASSUME IInv, NEW p \in Procs, Transfer(p)
  PROVE  IInv'
<1>1. job[p].pc = "authenticated" /\ job[p].kind = "send" /\ UNCHANGED <<tokensUnread, accepted>>
  BY DEF Transfer, JobAt
<1>2. CASE Breaks(p, Refusals)
  <2>1. Refusals \in SUBSET Errors
    BY DEF Refusals, Errors
  <2> QED BY <1>1, <1>2, <2>1, BreaksEarly DEF InSession
<1>3. CASE Step(p, "terminator") /\ UNCHANGED <<acq, conn, offered>>
  <2>1. "terminator" \in InSession \ {"auth"} /\ "authenticated" \in InSession \ {"auth"}
    BY DEF InSession
  <2>2. "AUTH" \in conn[p].caps
    BY <1>1, <2>1, CallTypes DEF SessionOf
  <2> QED BY <1>1, <1>3, <2>1, <2>2, SameSession
<1> QED BY <1>2, <1>3 DEF Transfer

(* An unknown outcome, the mail accepted or not.                           *)
LEMMA UnknownStep ==
  ASSUME IInv, NEW p \in Procs, job[p].pc \in {"terminator", "final"}, Breaks(p, {"unknown"}),
         UNCHANGED accepted \/ Takes(p), UNCHANGED tokensUnread
  PROVE  IInv'
<1>1. accepted[p] = 0 /\ accepted \in [Procs -> Nat]
  BY CallTypes DEF ResultOf, IInv, JobsType
<1>2. PICK times \in {0, 1} : accepted' = [accepted EXCEPT ![p] = times]
  BY <1>1 DEF Takes
<1>3. {"unknown"} \in SUBSET Errors /\ job[p].pc \in InSession
  BY DEF Errors, InSession
<1> QED BY <1>2, <1>3, BreaksStep

LEMMA WriteTerminatorStep ==
  ASSUME IInv, NEW p \in Procs, WriteTerminator(p)
  PROVE  IInv'
<1>1. /\ job[p].pc = "terminator" /\ UNCHANGED tokensUnread
      /\ "terminator" \in InSession \ {"auth"} /\ "final" \in InSession \ {"auth"}
  BY DEF WriteTerminator, JobAt, InSession
<1>2. CASE Step(p, "final") /\ UNCHANGED <<acq, conn, offered, accepted>>
  <2>1. "AUTH" \in conn[p].caps /\ job[p].kind = "send"
    BY <1>1, CallTypes DEF SessionOf
  <2> QED BY <1>1, <1>2, <2>1, SameSession
<1>3. CASE Breaks(p, {"broken"}) /\ UNCHANGED accepted
  <2>1. {"broken"} \in SUBSET Errors
    BY DEF Errors
  <2> QED BY <1>1, <1>3, <2>1, BreaksEarly
<1>4. CASE Breaks(p, {"unknown"}) /\ (UNCHANGED accepted \/ Takes(p))
  BY <1>1, <1>4, UnknownStep
<1> QED BY <1>2, <1>3, <1>4 DEF WriteTerminator

LEMMA ReadFinalStep ==
  ASSUME IInv, NEW p \in Procs, ReadFinal(p)
  PROVE  IInv'
<1>1. job[p].pc = "final" /\ UNCHANGED tokensUnread /\ "final" \in InSession
  BY DEF ReadFinal, JobAt, InSession
<1>2. CASE Takes(p) /\ Return(p, "ok") /\ Close(p) /\ UNCHANGED acq
  <2>1. accepted[p] = 0 /\ accepted \in [Procs -> Nat]
    BY <1>1, CallTypes DEF ResultOf, IInv, JobsType
  <2>2. accepted' = [accepted EXCEPT ![p] = 1]
    BY <1>2, <2>1 DEF Takes
  <2> QED BY <1>1, <1>2, <2>2, Returns
<1>3. CASE Breaks(p, {"4xx", "permanent"}) /\ UNCHANGED accepted
  <2>1. {"4xx", "permanent"} \in SUBSET Errors
    BY DEF Errors
  <2> QED BY <1>1, <1>3, <2>1, BreaksEarly
<1>4. CASE Breaks(p, {"unknown"}) /\ (UNCHANGED accepted \/ Takes(p))
  BY <1>1, <1>4, UnknownStep
<1> QED BY <1>2, <1>3, <1>4 DEF ReadFinal

-----------------------------------------------------------------------------
(* A call begins, waits for its token and gets it, or not                  *)

LEMMA CallBegins ==
  ASSUME IInv, NEW p \in Procs, NEW kind \in Kinds(p), Call(p, kind)
  PROVE  IInv'
<1>1. /\ job[p].pc = "off" /\ acq[p].pc = "idle" /\ conn[p] \in ConnType
      /\ offered[p] \in SUBSET Capabilities /\ SessionOf(job[p], conn[p], offered[p])
  BY CallTypes DEF Call, JobAt
<1>2. conn[p].caps = {}
  BY <1>1 DEF SessionOf, InSession
<1>3. kind \in {"authorize", "validate", "send"} /\ (kind = "authorize" => p = Operator)
  BY DEF Kinds
<1>4. /\ conn' = [conn EXCEPT ![p] = conn[p]] /\ offered' = [offered EXCEPT ![p] = offered[p]]
      /\ accepted' = [accepted EXCEPT ![p] = 0] /\ UNCHANGED tokensUnread
  BY Kept DEF Call, IInv
<1> DEFINE pc == IF method # "PLAIN" THEN "token"
                 ELSE IF kind = "authorize" THEN "off" ELSE "connect"
           result == IF method = "PLAIN" /\ kind = "authorize" THEN "error" ELSE "none"
           j == [NoJob EXCEPT !.kind = kind, !.pc = pc, !.result = result]
<1>5. job' = [job EXCEPT ![p] = j]
  BY DEF Call
<1>6. /\ pc \in {"off", "token", "connect"} /\ result \in {"none", "error"}
      /\ (pc = "token" <=> method # "PLAIN") /\ (pc # "off" => result = "none")
  <2>1. CASE method # "PLAIN"
    BY <2>1
  <2>2. CASE method = "PLAIN" /\ kind = "authorize"
    BY <2>2
  <2>3. CASE method = "PLAIN" /\ kind # "authorize"
    BY <2>3
  <2> QED BY <2>1, <2>2, <2>3
<1> HIDE DEF pc, result
<1>7. j \in JobType /\ j.pc = pc /\ j.result = result /\ j.kind = kind
  <2>1. 0 \in 0 .. TransientRetryLimit
    BY MailAssumption
  <2> QED BY <1>3, <1>6, <2>1 DEF NoJob, JobType
<1> HIDE DEF j
<1>8. ResultOf(p, j, 0) /\ SessionOf(j, conn[p], offered[p])
  BY <1>2, <1>6, <1>7 DEF ResultOf, SessionOf, InSession
<1>9. CASE method # "PLAIN"
  <2>1. PICK mode \in Modes : Begin(p, mode) /\ (mode = "interactive" => p = Operator)
    <3>1. "interactive" \in Modes /\ "runtime" \in Modes /\ "runtime" # "interactive"
      BY DEF Modes
    <3>2. Begin(p, IF kind = "authorize" THEN "interactive" ELSE "runtime")
      BY <1>9 DEF Call
    <3> QED BY <1>3, <3>1, <3>2
  <2>2. /\ TokenInv' /\ acq'[p].pc = "metadata" /\ \A q \in Procs \ {p} : acq'[q] = acq[q]
    BY <1>1, <1>4, <2>1, AcqBegun
  <2>3. 0 \in Nat /\ (acq'[p].pc # "idle" <=> j.pc \in {"token", "refresh"})
    BY <1>6, <1>7, <1>9, <2>2
  <2> QED BY <1>1, <1>4, <1>5, <1>7, <1>8, <2>2, <2>3, CallStep
<1>10. CASE method = "PLAIN"
  <2>1. UNCHANGED acq
    BY <1>10 DEF Call
  <2>2. TokenInv' /\ acq' = acq
    BY <1>4, <2>1, AcqKept
  <2>3. /\ 0 \in Nat /\ (acq'[p].pc # "idle" <=> j.pc \in {"token", "refresh"})
        /\ \A q \in Procs \ {p} : acq'[q] = acq[q]
    BY <1>1, <1>6, <1>7, <1>10, <2>2
  <2> QED BY <1>1, <1>4, <1>5, <1>7, <1>8, <2>2, <2>3, CallStep
<1> QED BY <1>9, <1>10

(* The acquisition is over, and with it the wait.                          *)
LEMMA WaitOver ==
  ASSUME IInv, NEW p \in Procs, job[p].pc \in {"token", "refresh"},
         acq[p].pc \in {"done", "failed"}, Set(p, Idle), UNCHANGED tokensUnread,
         NEW j \in JobType, j.pc \in {"off", "connect"}, ResultOf(p, j, 0),
         job' = [job EXCEPT ![p] = j], UNCHANGED <<conn, offered, accepted>>
  PROVE  IInv'
<1>1. TokenInv /\ UNCHANGED <<clock, cache, disk, server, lost>>
  BY DEF IInv, tokensUnread
<1>2. lost' \in BOOLEAN /\ (lost => lost') /\ acq[p].pc \notin Acquired \union {"sync"}
  BY <1>1 DEF TokenInv, TokenType, Acquired
<1>3. TokenInv'
  BY <1>1, <1>2, EndStep
<1>4. /\ conn[p] \in ConnType /\ offered[p] \in SUBSET Capabilities /\ accepted[p] = 0
      /\ SessionOf(job[p], conn[p], offered[p])
  BY CallTypes DEF ResultOf
<1>5. /\ conn' = [conn EXCEPT ![p] = conn[p]] /\ offered' = [offered EXCEPT ![p] = offered[p]]
      /\ accepted' = [accepted EXCEPT ![p] = 0] /\ 0 \in Nat
  BY <1>4, Kept DEF IInv
<1>6. SessionOf(j, conn[p], offered[p])
  BY <1>4 DEF SessionOf, InSession
<1>7. /\ acq'[p] = Idle /\ \A q \in Procs \ {p} : acq'[q] = acq[q]
  BY <1>1 DEF Set, TokenInv, TokenType
<1>8. acq'[p].pc # "idle" <=> j.pc \in {"token", "refresh"}
  BY <1>7 DEF Idle
<1> QED BY <1>3, <1>4, <1>5, <1>6, <1>7, <1>8, CallStep

LEMMA HasTokenStep ==
  ASSUME IInv, NEW p \in Procs, HasToken(p)
  PROVE  IInv'
<1>1. /\ job[p].pc \in {"token", "refresh"} /\ acq[p].pc = "done" /\ Set(p, Idle)
      /\ UNCHANGED <<tokensUnread, conn, offered, accepted>>
  BY DEF HasToken, At
<1>2. /\ job \in [Procs -> JobType] /\ job[p] \in JobType /\ accepted[p] = 0
      /\ job[p].result = "none" /\ job[p].kind \in Kinds(p)
  BY <1>1, CallTypes DEF ResultOf, IInv, JobsType
<1>3. CASE job[p].kind = "authorize"
  <2> DEFINE j == [NoJob EXCEPT !.result = "ok"]
  <2>1. job' = [job EXCEPT ![p] = j] /\ j \in JobType /\ j.pc = "off" /\ j.result = "ok"
    BY <1>3, ReturnRecord DEF HasToken, Return
  <2>2. p = Operator
    BY <1>2, <1>3 DEF Kinds
  <2> HIDE DEF j
  <2>3. ResultOf(p, j, 0)
    BY <2>1, <2>2 DEF ResultOf
  <2> QED BY <1>1, <2>1, <2>3, WaitOver
<1>4. CASE job[p].kind # "authorize"
  <2> DEFINE j == [job[p] EXCEPT !.refreshed = @ \/ job[p].pc = "refresh", !.pc = "connect"]
  <2>1. job' = [job EXCEPT ![p].refreshed = @ \/ job[p].pc = "refresh", ![p].pc = "connect"]
    BY <1>4 DEF HasToken
  <2>2. job' = [job EXCEPT ![p] = j]
    BY <1>2, <2>1
  <2>3. j \in JobType /\ j.pc = "connect" /\ j.kind = job[p].kind /\ j.result = job[p].result
    BY <1>2 DEF JobType
  <2> HIDE DEF j
  <2>4. ResultOf(p, j, 0)
    BY <1>2, <2>3 DEF ResultOf
  <2> QED BY <1>1, <2>2, <2>3, <2>4, WaitOver
<1> QED BY <1>3, <1>4

LEMMA HasNoTokenStep ==
  ASSUME IInv, NEW p \in Procs, HasNoToken(p)
  PROVE  IInv'
<1>1. /\ job[p].pc \in {"token", "refresh"} /\ acq[p].pc = "failed" /\ Set(p, Idle)
      /\ UNCHANGED <<tokensUnread, conn, offered, accepted>>
  BY DEF HasNoToken, At
<1> DEFINE j == [NoJob EXCEPT !.result = "error"]
<1>2. job' = [job EXCEPT ![p] = j] /\ j \in JobType /\ j.pc = "off" /\ j.result = "error"
  BY ReturnRecord DEF HasNoToken, Return
<1> HIDE DEF j
<1>3. ResultOf(p, j, 0)
  BY <1>2 DEF ResultOf
<1> QED BY <1>1, <1>2, <1>3, WaitOver

-----------------------------------------------------------------------------
(* The token cache and the environment                                     *)

LEMMA AcquiringStep ==
  ASSUME IInv, NEW p \in Procs, Acquiring(p)
  PROVE  IInv'
<1>1. TokenInv /\ Acquisition(p) /\ job[p].pc \in {"token", "refresh"} /\ UNCHANGED mailVars
  BY DEF IInv, Acquiring
<1>2. TokenInv' /\ acq'[p].pc # "idle" /\ \A q \in Procs \ {p} : acq'[q] = acq[q]
  BY <1>1, AcquisitionStep, AcquisitionFrame
<1>3. UNCHANGED <<job, conn, offered, accepted>>
  BY <1>1 DEF mailVars
<1>4. JobsType' /\ CallInv'
  BY <1>3 DEF IInv, JobsType, CallInv
<1>5. WaitInv'
  BY <1>1, <1>2, <1>3 DEF IInv, WaitInv
<1> QED BY <1>2, <1>4, <1>5 DEF IInv

LEMMA PassingStep ==
  ASSUME IInv, Passing
  PROVE  IInv'
<1>1. TokenInv'
  BY ClockStep DEF IInv, Passing
<1>2. UNCHANGED <<job, conn, offered, accepted, acq>>
  BY DEF Passing, Tick, mailVars
<1> QED BY <1>1, <1>2 DEF IInv, JobsType, CallInv, WaitInv

(* No call at all, whether at the start or after a power failure.          *)
LEMMA NoCalls ==
  /\ NoJob \in JobType /\ NoJob.pc = "off" /\ NoJob.result = "none" /\ Closed \in ConnType
  /\ \A p : ResultOf(p, NoJob, 0) /\ SessionOf(NoJob, Closed, {})
  /\ Idle.pc = "idle"
<1>1. NoJob \in JobType /\ NoJob.pc = "off" /\ NoJob.result = "none"
  BY MailAssumption DEF NoJob, JobType
<1>2. Closed \in ConnType /\ Closed.caps = {}
  BY ClosedTypes
<1>3. Idle.pc = "idle"
  BY DEF Idle
<1> QED BY <1>1, <1>2, <1>3 DEF ResultOf, SessionOf, InSession

LEMMA OutageStep ==
  ASSUME IInv, Outage
  PROVE  IInv'
<1>1. TokenInv' /\ acq' = [p \in Procs |-> Idle]
  BY PowerFailsStep DEF IInv, Outage, PowerFails
<1>2. /\ job' = [p \in Procs |-> NoJob] /\ conn' = [p \in Procs |-> Closed]
      /\ offered' = [p \in Procs |-> {}] /\ accepted' = [p \in Procs |-> 0]
  BY DEF Outage
<1>3. JobsType'
  BY <1>2, NoCalls DEF JobsType
<1>4. CallInv'
  BY <1>2, NoCalls DEF CallInv
<1>5. WaitInv'
  BY <1>1, <1>2, NoCalls DEF WaitInv
<1> QED BY <1>1, <1>3, <1>4, <1>5 DEF IInv

LEMMA Initially == Init => IInv
<1> SUFFICES ASSUME Init PROVE IInv
  OBVIOUS
<1>1. TokenInv /\ acq = [p \in Procs |-> Idle]
  BY TokensInitially DEF Init, InitTokens
<1>2. /\ job = [p \in Procs |-> NoJob] /\ conn = [p \in Procs |-> Closed]
      /\ offered = [p \in Procs |-> {}] /\ accepted = [p \in Procs |-> 0]
  BY DEF Init
<1>3. JobsType
  BY <1>2, NoCalls DEF JobsType
<1>4. CallInv
  BY <1>2, NoCalls DEF CallInv
<1>5. WaitInv
  BY <1>1, <1>2, NoCalls DEF WaitInv
<1> QED BY <1>1, <1>3, <1>4, <1>5 DEF IInv

LEMMA Inductive == IInv /\ [Next]_vars => IInv'
<1> SUFFICES ASSUME IInv, [Next]_vars PROVE IInv'
  OBVIOUS
<1>1. ASSUME NEW p \in Procs, NEW kind \in Kinds(p), Call(p, kind) PROVE IInv'
  BY <1>1, CallBegins
<1>2. ASSUME NEW p \in Procs,
             \/ HasToken(p) \/ HasNoToken(p) \/ Acquiring(p)
             \/ Connect(p) \/ StartTls(p) \/ Authenticate(p) \/ Validated(p)
             \/ Transfer(p) \/ WriteTerminator(p) \/ ReadFinal(p)
      PROVE  IInv'
  BY <1>2, HasTokenStep, HasNoTokenStep, AcquiringStep, ConnectStep, StartTlsStep,
     AuthenticateStep, ValidatedStep, TransferStep, WriteTerminatorStep, ReadFinalStep
<1>3. CASE Passing \/ Outage
  BY <1>3, PassingStep, OutageStep
<1>4. CASE UNCHANGED vars
  <2>1. TokenInv'
    BY <1>4, TokensStutter DEF vars, IInv
  <2> QED BY <1>4, <2>1 DEF vars, tokenVars, mailVars, IInv, JobsType, CallInv, WaitInv
<1> QED BY <1>1, <1>2, <1>3, <1>4 DEF Next

-----------------------------------------------------------------------------
(* The theorems                                                            *)

(* The inductive invariant holds in every state the processes, the mail    *)
(* server and the authorization server reach.                              *)
THEOREM Invariance == Spec => []IInv
BY Initially, Inductive, PTL DEF Spec

(* Sessions and acquisitions exist only while their calls need them, and   *)
(* the counters stay in their bounds, whatever those are.                  *)
THEOREM TypeCorrect == Spec => []TypeOK
<1>1. IInv => TypeOK
  <2> SUFFICES ASSUME IInv PROVE TypeOK
    OBVIOUS
  <2>1. /\ clock \in 0 .. MaxClock /\ cache.access \in 0 .. MaxIssued
        /\ cache.refresh \in 0 .. MaxIssued
        /\ server.honours \subseteq Tokens /\ Issued <= MaxIssued
    BY TokenTypes DEF IInv, TokenInv, TokenType
  <2>2. ASSUME NEW p \in Procs
        PROVE  /\ acq[p].attempt \in 1 .. HttpAttempts
               /\ job[p].retries \in 0 .. TransientRetryLimit
               /\ acq[p].pc # "idle" <=> job[p].pc \in {"token", "refresh"}
               /\ conn[p].caps # {} => job[p].pc \in {"starttls", "auth", "authenticated",
                                                      "terminator", "final"}
    <3>1. acq[p] \in AcqType /\ job[p] \in JobType
      BY CallTypes, TokenTypes DEF IInv, TokenInv
    <3>2. acq[p].attempt \in 1 .. HttpAttempts /\ job[p].retries \in 0 .. TransientRetryLimit
      BY <3>1, RecordTypes DEF JobType
    <3>3. /\ acq[p].pc # "idle" <=> job[p].pc \in {"token", "refresh"}
          /\ conn[p].caps # {} => job[p].pc \in InSession \union {"starttls"}
      BY CallTypes DEF SessionOf
    <3> QED BY <3>2, <3>3 DEF InSession
  <2> QED BY <2>1, <2>2 DEF TypeOK
<1> QED BY <1>1, Invariance, PTL

(* acquire_smtp_oauth_token loses no refresh token the server honours      *)
(* without cause, and never states an expiry later than the server's, for  *)
(* any number of processes that share oauth_token.json.                    *)
THEOREM RefreshTokensAreKept == Spec => []RefreshTokenIsKept
<1>1. IInv => RefreshTokenIsKept
  BY TokenInvKeeps DEF IInv
<1> QED BY <1>1, Invariance, PTL

(* submit_mail_blocking and its retries have no mail accepted twice and    *)
(* report nothing that is not so, for any limit of retries.                *)
THEOREM SentOnce == Spec => []MailIsSentOnce
<1>1. IInv => MailIsSentOnce
  <2> SUFFICES ASSUME IInv, NEW p \in Procs
               PROVE  /\ accepted[p] <= 1
                      /\ job[p].result = "error" => accepted[p] = 0
                      /\ p # Operator /\ job[p].result = "ok" => accepted[p] = 1
    BY DEF MailIsSentOnce
  <2>1. accepted[p] \in Nat /\ ResultOf(p, job[p], accepted[p])
    BY CallTypes
  <2> QED BY <2>1 DEF ResultOf
<1> QED BY <1>1, Invariance, PTL

(* open_with_tls_config and authenticate give credentials only to a server *)
(* that offered the mechanism inside TLS.                                  *)
THEOREM CredentialsStayInside == Spec => []CredentialsInsideTls
<1>1. IInv => CredentialsInsideTls
  <2> SUFFICES ASSUME IInv, NEW p \in Procs,
                      job[p].pc \in {"auth", "authenticated", "terminator", "final"}
               PROVE  conn[p].tls /\ (job[p].pc # "auth" => "AUTH" \in offered[p])
    BY DEF CredentialsInsideTls
  <2>1. SessionOf(job[p], conn[p], offered[p])
    BY CallTypes
  <2> QED BY <2>1 DEF SessionOf, InSession
<1> QED BY <1>1, Invariance, PTL
=============================================================================
