---------------------------- MODULE MailDelivery ----------------------------
(***************************************************************************)
(* mail/mod.rs and mail/smtp.rs over the token cache: send_mail,           *)
(* validate_mail and authorize_mail, the SMTP session they open (TLS from  *)
(* the start or STARTTLS, AUTH, the envelope, DATA) and the retries.  A     *)
(* reply is positive, 4xx, 5xx or none that can be read.                   *)
(***************************************************************************)
EXTENDS TokenCache

CONSTANTS
  Methods,              \* smtp_auth_method: subset of {"PLAIN", "XOAUTH2"}
  TlsModes,             \* smtp_tls_mode: subset of {"starttls", "implicit"}
  TransientRetryLimit,  \* TRANSIENT_RETRY_LIMIT
  MaxJobs,              \* bound: mails and commands of one process
  MaxPowerFailures      \* bound: failures of the machine

ASSUME MailAssumption ==
  /\ Methods \subseteq {"PLAIN", "XOAUTH2"} /\ TlsModes \subseteq {"starttls", "implicit"}
  /\ {TransientRetryLimit, MaxJobs, MaxPowerFailures} \subseteq Nat

VARIABLES
  method, tlsMode,   \* the configuration
  job,               \* per process: the call it is in
  conn,              \* per process: [tls, caps], the session it has open
  jobs, failures     \* calls begun; failures of the machine

(* External: what the mail server knows.                                   *)
VARIABLES
  offered,           \* per process: capabilities offered inside TLS
  accepted           \* per process: times the mail of its call was accepted

mailVars == <<method, tlsMode, job, conn, jobs, failures, offered, accepted>>
vars == <<tokenVars, mailVars>>

Closed == [tls |-> FALSE, caps |-> {}]
NoJob == [kind |-> "none", pc |-> "off", refreshed |-> FALSE, retries |-> 0, result |-> "none"]

JobAt(p, pc) == job[p].pc = pc
Step(p, pc) == job' = [job EXCEPT ![p].pc = pc]
Return(p, result) == job' = [job EXCEPT ![p] = [NoJob EXCEPT !.result = result]]

(* Mutant: the session stays open.                                         *)
Keep(p) == UNCHANGED <<conn, offered>>

Close(p) == conn' = [conn EXCEPT ![p] = Closed] /\ offered' = [offered EXCEPT ![p] = {}]

-----------------------------------------------------------------------------
(* Errors                                                                  *)

(* The kinds of MailError the calls tell apart: what a 4xx says, a session *)
(* that breaks, a 535 to AUTH, an outcome nobody knows, all others.        *)
Errors == {"4xx", "broken", "535", "unknown", "permanent"}

(* Mutant: an unknown outcome is as good as a broken session.              *)
IsTransientOrUnknown(error) == error \in {"4xx", "broken", "unknown"}

IsTransient(error) == error \in {"4xx", "broken"}

(* What a command may come back with when it is not positive: a reply, a   *)
(* write or read error, a reply that cannot be parsed or is too long.      *)
Refusals == {"4xx", "permanent", "broken"}

(* After an error: one forced refresh for a 535, TransientRetryLimit new   *)
(* sessions for what may pass, and the error itself for the rest.          *)
AfterError(p, error) ==
  CASE error = "535" /\ method # "PLAIN" /\ ~job[p].refreshed ->
         Step(p, "refresh") /\ Begin(p, "force")
    [] IsTransient(error) /\ job[p].retries < TransientRetryLimit ->
         /\ job' = [job EXCEPT ![p].pc = "connect", ![p].retries = @ + 1]
         /\ UNCHANGED acq
    [] OTHER -> Return(p, IF error = "unknown" THEN "unknown" ELSE "error") /\ UNCHANGED acq

Breaks(p, errors) ==
  /\ \E error \in errors : AfterError(p, error)
  /\ Close(p)

tokensUnread == <<clock, cache, disk, server, lost>>    \* of the module below, but acq

-----------------------------------------------------------------------------
(* The calls                                                               *)

(* send_mail (an alert, or a test message), validate_mail, authorize_mail: *)
(* the last has no use for PLAIN.                                          *)
Call(p, kind) ==
  /\ JobAt(p, "off") /\ jobs[p] < MaxJobs /\ jobs' = [jobs EXCEPT ![p] = @ + 1]
  /\ job' = [job EXCEPT ![p] = [NoJob EXCEPT !.kind = kind,
       !.pc = IF method # "PLAIN" THEN "token"
              ELSE IF kind = "authorize" THEN "off" ELSE "connect",
       !.result = IF method = "PLAIN" /\ kind = "authorize" THEN "error" ELSE "none"]]
  /\ IF method = "PLAIN" THEN UNCHANGED acq
     ELSE Begin(p, IF kind = "authorize" THEN "interactive" ELSE "runtime")
  /\ accepted' = [accepted EXCEPT ![p] = 0]
  /\ UNCHANGED <<tokensUnread, method, tlsMode, conn, failures, offered>>

(* acquire returns; an error of it is the call's.                          *)
HasToken(p) ==
  /\ job[p].pc \in {"token", "refresh"} /\ At(p, "done") /\ Set(p, Idle)
  /\ IF job[p].kind = "authorize" THEN Return(p, "ok")
     ELSE job' = [job EXCEPT ![p].refreshed = @ \/ job[p].pc = "refresh", ![p].pc = "connect"]
  /\ UNCHANGED <<tokensUnread, method, tlsMode, conn, jobs, failures, offered, accepted>>

HasNoToken(p) ==
  /\ job[p].pc \in {"token", "refresh"} /\ At(p, "failed") /\ Set(p, Idle)
  /\ Return(p, "error")
  /\ UNCHANGED <<tokensUnread, method, tlsMode, conn, jobs, failures, offered, accepted>>

-----------------------------------------------------------------------------
(* The session                                                             *)

Capabilities == {"STARTTLS", "AUTH"}

(* A TCP connection and, with implicit TLS, the handshake; greeting, EHLO. *)
Connect(p) ==
  /\ JobAt(p, "connect")
  /\ \/ /\ \E caps \in SUBSET Capabilities :
             /\ conn' = [conn EXCEPT ![p] = [tls |-> tlsMode = "implicit", caps |-> caps]]
             /\ offered' = [offered EXCEPT ![p] = IF tlsMode = "implicit" THEN caps ELSE {}]
        /\ Step(p, IF tlsMode = "implicit" THEN "auth" ELSE "starttls") /\ UNCHANGED acq
     \/ Breaks(p, Refusals)
  /\ UNCHANGED <<tokensUnread, method, tlsMode, jobs, failures, accepted>>

(* Mutant: the capabilities of the first EHLO are good for both.           *)
StartTlsOnly(p) ==
  /\ JobAt(p, "starttls") /\ "STARTTLS" \in conn[p].caps
  /\ \E caps \in SUBSET Capabilities : offered' = [offered EXCEPT ![p] = caps]
  /\ conn' = [conn EXCEPT ![p].tls = TRUE] /\ Step(p, "auth")
  /\ UNCHANGED <<acq, tokensUnread, method, tlsMode, jobs, failures, accepted>>

(* STARTTLS is offered or the session ends; handshake, second EHLO.        *)
StartTls(p) ==
  /\ JobAt(p, "starttls")
  /\ \/ /\ "STARTTLS" \in conn[p].caps
        /\ \E caps \in SUBSET Capabilities :
             /\ conn' = [conn EXCEPT ![p] = [tls |-> TRUE, caps |-> caps]]
             /\ offered' = [offered EXCEPT ![p] = caps]
        /\ Step(p, "auth") /\ UNCHANGED acq
     \/ Breaks(p, IF "STARTTLS" \in conn[p].caps THEN Refusals ELSE {"permanent"})
  /\ UNCHANGED <<tokensUnread, method, tlsMode, jobs, failures, accepted>>

(* The mechanism is offered or nothing is sent.  AUTH with the credentials, *)
(* a challenge answered once.                                              *)
CanAuthenticate(p) == "AUTH" \in conn[p].caps

Authenticate(p) ==
  /\ JobAt(p, "auth")
  /\ \/ CanAuthenticate(p) /\ Step(p, "authenticated") /\ UNCHANGED <<acq, conn, offered>>
     \/ Breaks(p, IF CanAuthenticate(p) THEN Refusals \union {"535"} ELSE {"permanent"})
  /\ UNCHANGED <<tokensUnread, method, tlsMode, jobs, failures, accepted>>

(* validate_mail asks no more of the session.                              *)
Validated(p) ==
  /\ JobAt(p, "authenticated") /\ job[p].kind = "validate" /\ Return(p, "ok") /\ Close(p)
  /\ UNCHANGED <<tokenVars, method, tlsMode, jobs, failures, accepted>>

(* MAIL, RCPT for every recipient, DATA and the lines of the message, of   *)
(* which none ends it: nothing is accepted yet.                            *)
Transfer(p) ==
  /\ JobAt(p, "authenticated") /\ job[p].kind = "send"
  /\ \/ Step(p, "terminator") /\ UNCHANGED <<acq, conn, offered>>
     \/ Breaks(p, Refusals)
  /\ UNCHANGED <<tokensUnread, method, tlsMode, jobs, failures, accepted>>

(* External: the server takes a mail it has the end of, or does not.       *)
Takes(p) == accepted' = [accepted EXCEPT ![p] = @ + 1]

(* A write error leaves the mail without its end.  After a flush error     *)
(* nobody knows.                                                           *)
WriteTerminator(p) ==
  /\ JobAt(p, "terminator")
  /\ \/ Step(p, "final") /\ UNCHANGED <<acq, conn, offered, accepted>>
     \/ Breaks(p, {"broken"}) /\ UNCHANGED accepted
     \/ Breaks(p, {"unknown"}) /\ (UNCHANGED accepted \/ Takes(p))
  /\ UNCHANGED <<tokensUnread, method, tlsMode, jobs, failures>>

(* Mutant: the lost reply is an error of the session like others.          *)
ReadFinalAsAnyReply(p) ==
  /\ JobAt(p, "final")
  /\ \/ Takes(p) /\ Return(p, "ok") /\ Close(p) /\ UNCHANGED acq
     \/ Breaks(p, {"4xx", "permanent"}) /\ UNCHANGED accepted
     \/ Breaks(p, {"broken"}) /\ (UNCHANGED accepted \/ Takes(p))
  /\ UNCHANGED <<tokensUnread, method, tlsMode, jobs, failures>>

(* The final reply: accepted, refused, or lost with the outcome unknown.   *)
ReadFinal(p) ==
  /\ JobAt(p, "final")
  /\ \/ Takes(p) /\ Return(p, "ok") /\ Close(p) /\ UNCHANGED acq
     \/ Breaks(p, {"4xx", "permanent"}) /\ UNCHANGED accepted
     \/ Breaks(p, {"unknown"}) /\ (UNCHANGED accepted \/ Takes(p))
  /\ UNCHANGED <<tokensUnread, method, tlsMode, jobs, failures>>

-----------------------------------------------------------------------------
Acquiring(p) == job[p].pc \in {"token", "refresh"} /\ Acquisition(p) /\ UNCHANGED mailVars

(* Power failure: every call is gone, with whatever it was doing.          *)
Outage ==
  /\ failures < MaxPowerFailures /\ failures' = failures + 1 /\ PowerFails
  /\ job' = [p \in Procs |-> NoJob] /\ conn' = [p \in Procs |-> Closed]
  /\ offered' = [p \in Procs |-> {}] /\ accepted' = [p \in Procs |-> 0]
  /\ UNCHANGED <<method, tlsMode, jobs>>

Passing == Tick /\ UNCHANGED mailVars

Init ==
  /\ InitTokens /\ method \in Methods /\ tlsMode \in TlsModes
  /\ job = [p \in Procs |-> NoJob] /\ conn = [p \in Procs |-> Closed]
  /\ offered = [p \in Procs |-> {}] /\ accepted = [p \in Procs |-> 0]
  /\ jobs = [p \in Procs |-> 0] /\ failures = 0

Kinds(p) == IF p = Operator THEN {"authorize", "validate"} ELSE {"send"}

Next ==
  \/ \E p \in Procs :
       \/ \E kind \in Kinds(p) : Call(p, kind)
       \/ HasToken(p) \/ HasNoToken(p) \/ Acquiring(p)
       \/ Connect(p) \/ StartTls(p) \/ Authenticate(p) \/ Validated(p)
       \/ Transfer(p) \/ WriteTerminator(p) \/ ReadFinal(p)
  \/ Passing \/ Outage

Spec == Init /\ [][Next]_vars

-----------------------------------------------------------------------------
(* Properties                                                              *)

(* The type invariant of both modules: a session exists only between       *)
(* connect and the reply that ends it, an acquisition only while its call  *)
(* waits for it.                                                           *)
TypeOK ==
  /\ clock \in 0 .. MaxClock /\ cache.access \in 0 .. MaxIssued /\ cache.refresh \in 0 .. MaxIssued
  /\ server.honours \subseteq Tokens /\ Issued <= MaxIssued
  /\ \A p \in Procs :
       /\ acq[p].attempt \in 1 .. HttpAttempts /\ job[p].retries \in 0 .. TransientRetryLimit
       /\ acq[p].pc # "idle" <=> job[p].pc \in {"token", "refresh"}
       /\ conn[p].caps # {} => job[p].pc \in {"starttls", "auth", "authenticated",
                                              "terminator", "final"}

(* A mail is accepted at most once, whatever was retried, and what the     *)
(* call reports is true: "ok" of a mail that was accepted, an error only   *)
(* of one that was not; where it cannot know, it says so                   *)
(* (is_transient_smtp_error, write_data_terminator, submit_mail_blocking). *)
MailIsSentOnce ==
  \A p \in Procs :
    /\ accepted[p] <= 1
    /\ job[p].result = "error" => accepted[p] = 0
    /\ p # Operator /\ job[p].result = "ok" => accepted[p] = 1

(* Credentials go only to a server that offered the mechanism inside TLS:  *)
(* what was offered before the handshake does not count                    *)
(* (open_with_tls_config, authenticate).                                   *)
CredentialsInsideTls ==
  \A p \in Procs :
    job[p].pc \in {"auth", "authenticated", "terminator", "final"} =>
      conn[p].tls /\ (job[p].pc # "auth" => "AUTH" \in offered[p])
=============================================================================
