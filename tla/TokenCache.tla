----------------------------- MODULE TokenCache -----------------------------
(***************************************************************************)
(* acquire_smtp_oauth_token of mail/oauth.rs: metadata, the cached token,  *)
(* the decision to use, refresh or authorize, the token request with its   *)
(* retries and the replacement of oauth_token.json.  The daemon and a      *)
(* command share the file; nothing locks it.  The authorization server     *)
(* may rotate refresh tokens, refuse, fail, or answer into the void.       *)
(***************************************************************************)
EXTENDS Integers, Sequences, FiniteSets

CONSTANTS
  Procs,          \* processes that acquire tokens
  Operator,       \* the one of them with an operator at its terminal
  HttpAttempts,   \* HTTP_ATTEMPTS
  Lifetime,       \* expires_in of every response
  Margin,         \* TOKEN_VALIDITY_MARGIN_SECS, in ticks
  MaxClock,       \* bound: ticks of the clock
  MaxIssued       \* bound: tokens the server issues

ASSUME TokenCacheAssumption ==
  /\ Operator \in Procs /\ HttpAttempts \in Nat \ {0}
  /\ {Lifetime, Margin, MaxClock, MaxIssued} \subseteq Nat /\ Lifetime > 0 /\ MaxIssued > 0

Modes == {"interactive", "runtime", "force"}

VARIABLES
  clock,     \* seconds since the epoch
  cache,     \* oauth_token.json as a reader finds it
  disk,      \* what is left of it after a power failure
  server,    \* external: [honours, ends], its refresh tokens and expiry times
  acq        \* per process: the acquisition it is in

(* History, read by the properties only.                                   *)
VARIABLE
  lost       \* a grant may not have reached the file: answer lost, a crash,
             \* a failed write, or two acquisitions at once

tokenVars == <<clock, cache, disk, server, acq, lost>>

Nothing == 0
Tokens == 1 .. MaxIssued

(* A file is ours, bound to another issuer, client or scope, or unsafe     *)
(* (owner, mode, link, size, JSON).                                        *)
Absent == [kind |-> "absent", access |-> Nothing, refresh |-> Nothing, expires |-> 0]
Idle == [pc |-> "idle", mode |-> "runtime", now |-> 0, old |-> Absent, attempt |-> 1,
         spent |-> FALSE, new |-> Absent]

Issued == Len(server.ends)

-----------------------------------------------------------------------------
(* Decisions                                                               *)

BoundToUs(c) == c.kind \in {"absent", "ours"}
SafeFile(c) == c.kind # "unsafe"

Decide(c, mode, now) ==
  LET valid == c.access # Nothing /\ c.expires - now >= Margin
      hasRefresh == c.refresh # Nothing
  IN  CASE mode = "force" /\ hasRefresh -> "refresh"
        [] mode # "force" /\ valid -> "use"
        [] mode # "force" /\ ~valid /\ hasRefresh -> "refresh"
        [] mode = "interactive" /\ ~valid /\ ~hasRefresh -> "authorize"
        [] OTHER -> "require authorization"

(* Mutant: a response without a refresh token leaves none.                 *)
TakeAnswered(answered, previous) == answered

TakeRefreshToken(answered, previous) ==
  IF answered # Nothing THEN answered ELSE previous.refresh

(* Mutant: the lifetime counts from when the answer has come.              *)
ExpiresAtArrival(now) == clock + Lifetime

ExpiresAt(now) == now + Lifetime

-----------------------------------------------------------------------------
(* One acquisition                                                         *)

At(p, pc) == acq[p].pc = pc
Set(p, new) == acq' = [acq EXCEPT ![p] = new]
Go(p, pc) == acq' = [acq EXCEPT ![p].pc = pc]
Fail(p) == Set(p, [Idle EXCEPT !.pc = "failed"])
Succeed(p) == Set(p, [Idle EXCEPT !.pc = "done"])

Begin(p, mode) == Set(p, [Idle EXCEPT !.pc = "metadata", !.mode = mode])

(* Authorizing or refreshing on the strength of a cache read earlier.      *)
Underway(p) == acq[p].pc \in {"consent", "request", "answer", "write", "rename"}
Overlaps(p) == \E q \in Procs \ {p} : Underway(q)

(* Some attempt brings valid metadata, or the acquisition ends.            *)
FetchMetadata(p) ==
  /\ At(p, "metadata") /\ (Go(p, "read") \/ Fail(p))
  /\ UNCHANGED <<clock, cache, disk, server, lost>>

ReadCache(p) ==
  /\ At(p, "read")
  /\ LET mode == acq[p].mode
         decision == Decide(cache, mode, clock)
         read == [acq[p] EXCEPT !.now = clock, !.old = cache]
     IN  \/ SafeFile(cache) /\ BoundToUs(cache) /\ decision = "use" /\ Succeed(p)
         \/ /\ SafeFile(cache) /\ BoundToUs(cache) /\ decision = "refresh"
            /\ Set(p, [read EXCEPT !.pc = "request"])
         \/ /\ SafeFile(cache) /\ BoundToUs(cache) /\ decision = "authorize"
            /\ Set(p, [read EXCEPT !.pc = "consent", !.old = Absent])
         \/ /\ ~SafeFile(cache) \/ ~BoundToUs(cache) \/ decision = "require authorization"
            /\ Fail(p)
  /\ UNCHANGED <<clock, cache, disk, server, lost>>

(* The operator pastes a callback: of this request and with a code, or it  *)
(* is another's, a denial, or no callback at all.                          *)
Consent(p) ==
  /\ At(p, "consent") /\ (Go(p, "request") \/ Fail(p))
  /\ UNCHANGED <<clock, cache, disk, server, lost>>

(* External: the server honours a refresh token it has not replaced, and   *)
(* a code once; it may answer with a new refresh token, which replaces the *)
(* one used.                                                               *)
Honoured(p) ==
  IF acq[p].old.refresh # Nothing THEN acq[p].old.refresh \in server.honours
  ELSE ~acq[p].spent
Grants(p, rotates) ==
  /\ Honoured(p) /\ Issued < MaxIssued
  /\ server' = [honours |-> IF rotates THEN (server.honours \ {acq[p].old.refresh})
                                              \union {Issued + 1}
                            ELSE server.honours,
                ends |-> Append(server.ends, clock + Lifetime)]

(* The next of the attempts, with the same grant.                          *)
Again(p, spent) ==
  IF acq[p].attempt < HttpAttempts
  THEN acq' = [acq EXCEPT ![p].attempt = @ + 1, ![p].spent = @ \/ spent] ELSE Fail(p)

(* What is lost with the answer in hand.                                   *)
Replaces(p) == acq[p].new.refresh # acq[p].old.refresh

(* The server has granted; the answer is on its way, or lost.              *)
Granted(p) ==
  /\ At(p, "request") /\ \E rotates \in BOOLEAN :
       /\ Grants(p, rotates)
       /\ \/ /\ acq' = [acq EXCEPT ![p].pc = "answer", ![p].new.access = Issued + 1,
                                   ![p].new.refresh = IF rotates THEN Issued + 1 ELSE Nothing]
             /\ lost' = (lost \/ Overlaps(p))
          \/ Again(p, TRUE) /\ lost' = (lost \/ rotates)
  /\ UNCHANGED <<clock, cache, disk>>

(* The answer is a token response: bearer, not empty, with a lifetime and  *)
(* with the scopes asked for; otherwise it is thrown away.                 *)
Answered(p) ==
  /\ At(p, "answer")
  /\ LET answered == acq[p].new.refresh IN
     \/ /\ acq' = [acq EXCEPT ![p].pc = "write",
            ![p].new = [kind |-> "ours", access |-> @.access,
                        refresh |-> TakeRefreshToken(answered, acq[p].old),
                        expires |-> ExpiresAt(acq[p].now)]]
        /\ UNCHANGED lost
     \/ Fail(p) /\ lost' = (lost \/ answered # Nothing)
  /\ UNCHANGED <<clock, cache, disk, server>>

(* No connection, 429, a server error: tried again.  invalid_grant or      *)
(* another refusal: the end.                                               *)
Refused(p) ==
  /\ At(p, "request")
  /\ Again(p, FALSE) \/ Fail(p)
  /\ UNCHANGED <<clock, cache, disk, server, lost>>

(* write_cache: a temporary file, complete and synced, then the rename,    *)
(* then the directory.                                                     *)
WriteTemporary(p) ==
  /\ At(p, "write")
  /\ \/ SafeFile(cache) /\ Go(p, "rename") /\ UNCHANGED lost
     \/ Fail(p) /\ lost' = (lost \/ Replaces(p))
  /\ UNCHANGED <<clock, cache, disk, server>>

(* Mutant: no sync of the directory.                                       *)
RenameAndReturn(p) ==
  /\ At(p, "rename") /\ cache' = acq[p].new /\ Succeed(p)
  /\ UNCHANGED <<clock, disk, server, lost>>

Rename(p) ==
  /\ At(p, "rename")
  /\ \/ cache' = acq[p].new /\ Go(p, "sync") /\ UNCHANGED lost
     \/ UNCHANGED cache /\ Fail(p) /\ lost' = (lost \/ Replaces(p))
  /\ UNCHANGED <<clock, disk, server>>

SyncDirectory(p) ==
  /\ At(p, "sync")
  /\ \/ disk' = cache /\ Succeed(p) /\ UNCHANGED lost
     \/ UNCHANGED disk /\ Fail(p) /\ lost' = (lost \/ Replaces(p))
  /\ UNCHANGED <<clock, cache, server>>

Acquisition(p) ==
  \/ FetchMetadata(p) \/ ReadCache(p) \/ Consent(p) \/ Granted(p) \/ Answered(p) \/ Refused(p)
  \/ WriteTemporary(p) \/ Rename(p) \/ SyncDirectory(p)

-----------------------------------------------------------------------------
(* Environment                                                             *)

Tick == clock < MaxClock /\ clock' = clock + 1 /\ UNCHANGED <<cache, disk, server, acq, lost>>

(* A rename that was not synced may be undone.                             *)
PowerFails ==
  /\ cache' \in {cache, disk} /\ disk' = cache'
  /\ lost' = (lost \/ \E p \in Procs : At(p, "sync") \/ Underway(p))
  /\ acq' = [p \in Procs |-> Idle] /\ UNCHANGED <<clock, server>>

Ours == [kind |-> "ours", access |-> 1, refresh |-> 1, expires |-> Lifetime]

InitTokens ==
  /\ clock = 0 /\ lost = FALSE /\ acq = [p \in Procs |-> Idle]
  /\ \/ cache = Ours /\ server = [honours |-> {1}, ends |-> <<Lifetime>>]
     \/ /\ cache \in {Absent, [Absent EXCEPT !.kind = "foreign"], [Absent EXCEPT !.kind = "unsafe"]}
        /\ server = [honours |-> {}, ends |-> <<>>]
  /\ disk = cache

-----------------------------------------------------------------------------
(* Properties                                                              *)

(* A refresh token that works is never lost without cause: the file keeps  *)
(* one the server honours, or an acquisition has it in hand, unless an     *)
(* answer was lost, the machine went down or a write failed before the     *)
(* file was safe, or two processes refreshed at once.  And the expiry the  *)
(* file states is never later than the server's (decide_cache,             *)
(* take_refresh_token, persist_response, write_cache).                     *)
RefreshTokenIsKept ==
  /\ server.honours = {} \/ lost \/ cache.kind = "foreign"
     \/ \E c \in {cache} \union {acq[p].new : p \in Procs} : c.refresh \in server.honours
  /\ cache.access # Nothing => cache.expires <= server.ends[cache.access]
=============================================================================
