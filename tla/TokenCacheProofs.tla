-------------------------- MODULE TokenCacheProofs --------------------------
(***************************************************************************)
(* Facts about TokenCache, for any number of processes, tokens and HTTP    *)
(* attempts: what every step of an acquisition, the clock and a power      *)
(* failure preserve of the file, the server's grants and the tokens in     *)
(* flight.  MailDeliveryProofs builds its theorems on them.                *)
(***************************************************************************)
EXTENDS TokenCache, SequenceTheorems, TLAPS

-----------------------------------------------------------------------------
(* The inductive invariant                                                 *)

Token == [kind : {"absent", "ours", "foreign", "unsafe"}, access : 0 .. MaxIssued,
          refresh : 0 .. MaxIssued, expires : Nat]

Acquiring0 == {"idle", "metadata", "read", "done", "failed"}
Acquired == {"answer", "write", "rename"}
Authorizing == {"consent", "request"} \union Acquired

AcqType == [pc : Acquiring0 \union Authorizing \union {"sync"}, mode : Modes,
            now : 0 .. MaxClock, old : Token, attempt : 1 .. HttpAttempts, spent : BOOLEAN,
            new : Token]

TokenType ==
  /\ clock \in 0 .. MaxClock /\ cache \in Token /\ disk \in Token
  /\ server \in [honours : SUBSET Tokens, ends : Seq(Nat)] /\ Issued <= MaxIssued
  /\ acq \in [Procs -> AcqType] /\ lost \in BOOLEAN

(* Only tokens of the server go round.                                     *)
OriginInv ==
  /\ server.honours \subseteq 1 .. Issued
  /\ cache.refresh <= Issued /\ disk.refresh <= Issued
  /\ \A p \in Procs : acq[p].old.refresh <= Issued /\ acq[p].new.refresh <= Issued

(* What states an expiry states none that is later than the server's.      *)
Dated(c) == c.access # Nothing => c.access <= Issued /\ c.expires <= server.ends[c.access]

ExpiryInv ==
  /\ Dated(cache) /\ Dated(disk)
  /\ \A p \in Procs :
       /\ acq[p].now <= clock
       /\ acq[p].pc \in {"write", "rename"} => Dated(acq[p].new)
       /\ acq[p].pc = "answer" =>
            /\ acq[p].new.access \in 1 .. Issued
            /\ acq[p].now + Lifetime <= server.ends[acq[p].new.access]

(* Only the operator's process authorizes, and only over a file without a  *)
(* refresh token; a refresh leaves one there.                              *)
AuthorInv ==
  \A p \in Procs :
    /\ acq[p].mode = "interactive" => p = Operator
    /\ acq[p].pc \in Authorizing =>
         IF acq[p].old.refresh = Nothing THEN p = Operator /\ cache.refresh = Nothing
         ELSE cache.refresh # Nothing

(* The answer in hand brings a new refresh token.                          *)
Rotated(p) == acq[p].new.refresh # Nothing /\ Replaces(p)

(* What was answered and what is written.                                  *)
AnswerInv ==
  \A p \in Procs :
    /\ acq[p].pc = "answer" /\ acq[p].new.refresh # Nothing => Replaces(p)
    /\ acq[p].pc \in {"write", "rename"} /\ acq[p].old.refresh # Nothing =>
         acq[p].new.refresh # Nothing
    /\ acq[p].pc \in {"write", "rename"} => acq[p].new.kind = "ours"

(* As long as nothing was lost, one acquisition has an answer in hand, the *)
(* server honours one refresh token, and that one is in the file or in the *)
(* answer, and on the disk or on its way there.                            *)
KeptInv ==
  /\ \A p, q \in Procs : acq[p].pc \in Acquired /\ acq[q].pc \in Acquired => p = q
  /\ \A x, y \in server.honours : x = y
  /\ \/ server.honours = {} \/ cache.refresh \in server.honours
     \/ \E p \in Procs : /\ acq[p].pc \in Acquired /\ Rotated(p)
                         /\ acq[p].new.refresh \in server.honours
  /\ \A p \in Procs : acq[p].pc \in Acquired /\ server.honours # {} =>
       IF Rotated(p) THEN acq[p].new.refresh \in server.honours
       ELSE cache.refresh \in server.honours /\ acq[p].old.refresh \in server.honours
  /\ \/ server.honours = {} \/ disk.refresh \in server.honours
     \/ \E p \in Procs : acq[p].pc \in Acquired \union {"sync"} /\ Rotated(p)

TokenInv ==
  /\ TokenType
  /\ OriginInv /\ ExpiryInv /\ AuthorInv /\ AnswerInv
  /\ lost \/ KeptInv

-----------------------------------------------------------------------------
(* Steps of one acquisition                                                *)

LEMMA SetOne ==
  ASSUME TokenType, NEW p \in Procs, NEW r \in AcqType, Set(p, r)
  PROVE  /\ acq' \in [Procs -> AcqType]
         /\ acq'[p] = r /\ \A q \in Procs \ {p} : acq'[q] = acq[q]
BY DEF TokenType, Set

LEMMA RecordTypes ==
  ASSUME NEW r \in AcqType
  PROVE  /\ r.pc \in Acquiring0 \union Authorizing \union {"sync"} /\ r.mode \in Modes
         /\ r.now \in 0 .. MaxClock /\ r.old \in Token /\ r.attempt \in 1 .. HttpAttempts
         /\ r.spent \in BOOLEAN /\ r.new \in Token
         /\ r.old.refresh \in 0 .. MaxIssued /\ r.new.refresh \in 0 .. MaxIssued
         /\ r.new.access \in 0 .. MaxIssued /\ r.new.expires \in Nat
BY DEF AcqType, Token

LEMMA TokenTypes ==
  ASSUME TokenType
  PROVE  /\ Issued \in Nat /\ Issued <= MaxIssued /\ MaxIssued \in Nat /\ clock \in Nat
         /\ server.ends \in Seq(Nat) /\ server.honours \subseteq 1 .. MaxIssued
         /\ cache.refresh \in 0 .. MaxIssued /\ disk.refresh \in 0 .. MaxIssued
         /\ cache.access \in 0 .. MaxIssued /\ cache.expires \in Nat
         /\ \A p \in Procs : acq[p] \in AcqType
BY TokenCacheAssumption DEF TokenType, Issued, Token, Tokens

(* A step that ends an acquisition or is not yet at its end: it touches    *)
(* neither file nor server, and gives up no new refresh token without a    *)
(* note of it.                                                             *)
LEMMA QuietStep ==
  ASSUME TokenInv, NEW p \in Procs, NEW r \in AcqType, Set(p, r),
         UNCHANGED <<clock, cache, disk, server>>,
         r.old.refresh <= Issued, r.new.refresh <= Issued, r.now <= clock,
         r.mode = "interactive" => p = Operator,
         r.pc \in {"consent", "request"} =>
           IF r.old.refresh = Nothing THEN p = Operator /\ cache.refresh = Nothing
           ELSE cache.refresh # Nothing,
         r.pc \notin Acquired \union {"sync"},
         lost' \in BOOLEAN, lost => lost',
         acq[p].pc \in Acquired \union {"sync"} /\ Rotated(p) => lost'
  PROVE  TokenInv'
<1>1. /\ acq' \in [Procs -> AcqType]
      /\ acq'[p] = r /\ \A q \in Procs \ {p} : acq'[q] = acq[q]
  BY SetOne DEF TokenInv
<1>2. r.pc \notin Acquired /\ r.pc # "sync" /\ r.pc \notin {"answer", "write", "rename"}
  BY DEF Acquired
<1>3. TokenType'
  BY <1>1 DEF TokenInv, TokenType, Issued
<1>4. OriginInv' /\ ExpiryInv'
  BY <1>1, <1>2 DEF TokenInv, OriginInv, ExpiryInv, Dated, Issued
<1>5. AuthorInv' /\ AnswerInv'
  BY <1>1, <1>2 DEF TokenInv, AuthorInv, AnswerInv, Authorizing, Replaces
<1>6. ASSUME ~lost' PROVE KeptInv'
  <2>1. KeptInv /\ ~(acq[p].pc \in Acquired \union {"sync"} /\ Rotated(p))
    BY <1>6 DEF TokenInv
  <2> QED BY <1>1, <1>2, <2>1 DEF KeptInv, Rotated, Replaces
<1> QED BY <1>3, <1>4, <1>5, <1>6 DEF TokenInv

(* The beginning and the end of an acquisition, seen by the caller.        *)
Blank(r, pc, mode) ==
  /\ r \in AcqType /\ r.pc = pc /\ r.mode = mode
  /\ r.old.refresh = 0 /\ r.new.refresh = 0 /\ r.now = 0

LEMMA BlankRecords ==
  ASSUME NEW pc \in Acquiring0, NEW mode \in Modes
  PROVE  /\ Blank([Idle EXCEPT !.pc = pc, !.mode = mode], pc, mode)
         /\ Blank([Idle EXCEPT !.pc = pc], pc, "runtime")
         /\ Blank(Idle, "idle", "runtime")
<1>1. Absent \in Token /\ Absent.refresh = 0
  BY TokenCacheAssumption DEF Absent, Token, Nothing
<1>2. 0 \in 0 .. MaxClock /\ 1 \in 1 .. HttpAttempts
  BY TokenCacheAssumption
<1>3. Blank([Idle EXCEPT !.pc = pc, !.mode = mode], pc, mode)
  BY <1>1, <1>2 DEF Blank, Idle, AcqType
<1>4. Blank([Idle EXCEPT !.pc = pc], pc, "runtime")
  BY <1>1, <1>2 DEF Blank, Idle, AcqType, Modes
<1>5. Blank(Idle, "idle", "runtime")
  BY <1>1, <1>2 DEF Blank, Idle, AcqType, Modes, Acquiring0
<1> QED BY <1>3, <1>4, <1>5

LEMMA ResetStep ==
  ASSUME TokenInv, NEW p \in Procs, NEW pc \in Acquiring0, NEW mode \in Modes, NEW r,
         Blank(r, pc, mode), Set(p, r), mode = "interactive" => p = Operator,
         UNCHANGED <<clock, cache, disk, server>>, lost' \in BOOLEAN, lost => lost',
         acq[p].pc \in Acquired \union {"sync"} /\ Rotated(p) => lost'
  PROVE  TokenInv'
<1>1. /\ r \in AcqType /\ r.pc = pc /\ r.mode = mode
      /\ r.old.refresh = 0 /\ r.new.refresh = 0 /\ r.now = 0
  BY DEF Blank
<1>2. Issued \in Nat /\ clock \in Nat
  BY TokenTypes DEF TokenInv
<1>3. pc \notin Acquired \union {"sync"} /\ pc \notin {"consent", "request"}
  BY DEF Acquiring0, Acquired
<1> QED BY <1>1, <1>2, <1>3, QuietStep

LEMMA EndStep ==
  ASSUME TokenInv, NEW p \in Procs, Fail(p) \/ Succeed(p) \/ Set(p, Idle),
         UNCHANGED <<clock, cache, disk, server>>, lost' \in BOOLEAN, lost => lost',
         acq[p].pc \in Acquired \union {"sync"} /\ Rotated(p) => lost'
  PROVE  TokenInv'
<1>1. "runtime" \in Modes /\ {"idle", "failed", "done"} \subseteq Acquiring0
  BY DEF Modes, Acquiring0
<1>2. PICK pc \in {"idle", "failed", "done"} : \E r : Blank(r, pc, "runtime") /\ Set(p, r)
  BY <1>1, BlankRecords DEF Fail, Succeed
<1> QED BY <1>1, <1>2, ResetStep

LEMMA FetchMetadataStep ==
  ASSUME TokenInv, NEW p \in Procs, FetchMetadata(p)
  PROVE  TokenInv'
<1>1. lost' \in BOOLEAN /\ (lost => lost') /\ acq[p].pc \notin Acquired \union {"sync"}
  BY DEF TokenInv, TokenType, FetchMetadata, At, Acquired
<1>2. CASE Fail(p)
  BY <1>1, <1>2, EndStep DEF FetchMetadata
<1>3. CASE Go(p, "read")
  <2> DEFINE r == [acq[p] EXCEPT !.pc = "read"]
  <2>1. acq[p] \in AcqType
    BY TokenTypes DEF TokenInv
  <2>2. /\ r \in AcqType /\ r.pc = "read" /\ r.mode = acq[p].mode /\ r.now = acq[p].now
        /\ r.old = acq[p].old /\ r.new = acq[p].new
    BY <2>1 DEF AcqType, Acquiring0
  <2>3. Set(p, r)
    BY <1>3 DEF Go, Set
  <2> HIDE DEF r
  <2>4. r.pc \notin Acquired \union {"sync"} /\ r.pc \notin {"consent", "request"}
    BY <2>2 DEF Acquired
  <2>5. /\ r.old.refresh <= Issued /\ r.new.refresh <= Issued /\ r.now <= clock
        /\ r.mode = "interactive" => p = Operator
    BY <2>2 DEF TokenInv, OriginInv, ExpiryInv, AuthorInv
  <2> QED BY <1>1, <2>2, <2>3, <2>4, <2>5, QuietStep DEF FetchMetadata
<1> QED BY <1>2, <1>3 DEF FetchMetadata

LEMMA ReadCacheStep ==
  ASSUME TokenInv, NEW p \in Procs, ReadCache(p)
  PROVE  TokenInv'
<1> DEFINE decision == Decide(cache, acq[p].mode, clock)
<1>1. lost' \in BOOLEAN /\ (lost => lost') /\ acq[p].pc \notin Acquired \union {"sync"}
  BY DEF TokenInv, TokenType, ReadCache, At, Acquired
<1>2. CASE Fail(p) \/ Succeed(p)
  BY <1>1, <1>2, EndStep DEF ReadCache
<1>3. ASSUME NEW pc \in {"request", "consent"}, NEW old \in {cache, Absent},
             Set(p, [acq[p] EXCEPT !.pc = pc, !.now = clock, !.old = old]),
             IF old.refresh = Nothing THEN p = Operator /\ cache.refresh = Nothing
             ELSE cache.refresh # Nothing
      PROVE  TokenInv'
  <2> DEFINE r == [acq[p] EXCEPT !.pc = pc, !.now = clock, !.old = old]
  <2>1. acq[p] \in AcqType /\ old \in Token /\ clock \in 0 .. MaxClock
        /\ old.refresh <= Issued /\ clock <= clock
    BY TokenTypes, TokenCacheAssumption
       DEF TokenInv, TokenType, OriginInv, Absent, Token, Nothing
  <2>2. /\ r \in AcqType /\ r.pc = pc /\ r.mode = acq[p].mode /\ r.now = clock
        /\ r.old = old /\ r.new = acq[p].new
    BY <2>1 DEF AcqType, Authorizing
  <2> HIDE DEF r
  <2>3. Set(p, r)
    BY <1>3 DEF r
  <2>4. r.pc \notin Acquired \union {"sync"}
    BY <2>2 DEF Acquired
  <2>5. /\ r.old.refresh <= Issued /\ r.new.refresh <= Issued /\ r.now <= clock
        /\ r.mode = "interactive" => p = Operator
    BY <2>1, <2>2 DEF TokenInv, OriginInv, ExpiryInv, AuthorInv
  <2> QED BY <1>1, <1>3, <2>2, <2>3, <2>4, <2>5, QuietStep DEF ReadCache
<1>4. CASE decision = "refresh"
           /\ Set(p, [[acq[p] EXCEPT !.now = clock, !.old = cache] EXCEPT !.pc = "request"])
  <2>1. cache.refresh # Nothing
    BY <1>4 DEF Decide
  <2>2. Set(p, [acq[p] EXCEPT !.pc = "request", !.now = clock, !.old = cache])
    BY <1>4 DEF Set
  <2> QED BY <1>3, <2>1, <2>2
<1>5. CASE decision = "authorize"
           /\ Set(p, [[acq[p] EXCEPT !.now = clock, !.old = cache]
                        EXCEPT !.pc = "consent", !.old = Absent])
  <2>1. cache.refresh = Nothing /\ acq[p].mode = "interactive"
    BY <1>5 DEF Decide
  <2>2. Set(p, [acq[p] EXCEPT !.pc = "consent", !.now = clock, !.old = Absent])
    BY <1>5 DEF Set
  <2>3. Absent.refresh = Nothing /\ p = Operator
    BY <2>1 DEF Absent, TokenInv, AuthorInv
  <2> QED BY <1>3, <2>1, <2>2, <2>3
<1> QED BY <1>2, <1>4, <1>5 DEF ReadCache

LEMMA ConsentStep ==
  ASSUME TokenInv, NEW p \in Procs, Consent(p)
  PROVE  TokenInv'
<1>1. lost' \in BOOLEAN /\ (lost => lost') /\ acq[p].pc = "consent"
      /\ acq[p].pc \notin Acquired \union {"sync"}
  BY DEF TokenInv, TokenType, Consent, At, Acquired
<1>2. CASE Fail(p)
  BY <1>1, <1>2, EndStep DEF Consent
<1>3. CASE Go(p, "request")
  <2> DEFINE r == [acq[p] EXCEPT !.pc = "request"]
  <2>1. acq[p] \in AcqType
    BY TokenTypes DEF TokenInv
  <2>2. /\ r \in AcqType /\ r.pc = "request" /\ r.mode = acq[p].mode /\ r.now = acq[p].now
        /\ r.old = acq[p].old /\ r.new = acq[p].new
    BY <2>1 DEF AcqType, Authorizing
  <2>3. Set(p, r)
    BY <1>3 DEF Go, Set
  <2> HIDE DEF r
  <2>4. r.pc \notin Acquired \union {"sync"}
    BY <2>2 DEF Acquired
  <2>5. /\ r.old.refresh <= Issued /\ r.new.refresh <= Issued /\ r.now <= clock
        /\ r.mode = "interactive" => p = Operator
        /\ IF r.old.refresh = Nothing THEN p = Operator /\ cache.refresh = Nothing
           ELSE cache.refresh # Nothing
    BY <1>1, <2>2 DEF TokenInv, OriginInv, ExpiryInv, AuthorInv, Authorizing
  <2> QED BY <1>1, <2>2, <2>3, <2>4, <2>5, QuietStep DEF Consent
<1> QED BY <1>2, <1>3 DEF Consent

(* The next attempt keeps all but its number and what became of the code.  *)
LEMMA AgainRecord ==
  ASSUME TokenInv, NEW p \in Procs, NEW spent \in BOOLEAN, Again(p, spent), At(p, "request")
  PROVE  \/ Fail(p)
         \/ \E r \in AcqType :
              /\ Set(p, r) /\ r.pc = "request" /\ r.mode = acq[p].mode /\ r.now = acq[p].now
              /\ r.old = acq[p].old /\ r.new = acq[p].new
<1>1. acq[p] \in AcqType /\ acq \in [Procs -> AcqType]
  BY TokenTypes DEF TokenInv, TokenType
<1>2. CASE acq[p].attempt < HttpAttempts
  <2> DEFINE r == [acq[p] EXCEPT !.attempt = @ + 1, !.spent = @ \/ spent]
  <2>1. acq[p].attempt + 1 \in 1 .. HttpAttempts /\ (acq[p].spent \/ spent) \in BOOLEAN
    BY <1>1, <1>2, TokenCacheAssumption DEF AcqType
  <2>2. /\ r \in AcqType /\ r.pc = acq[p].pc /\ r.mode = acq[p].mode /\ r.now = acq[p].now
        /\ r.old = acq[p].old /\ r.new = acq[p].new
    BY <1>1, <2>1 DEF AcqType
  <2>3. Set(p, r)
    BY <1>1, <1>2 DEF Again, Set
  <2> QED BY <2>2, <2>3 DEF At
<1>3. CASE ~(acq[p].attempt < HttpAttempts)
  BY <1>3 DEF Again
<1> QED BY <1>2, <1>3

LEMMA RefusedStep ==
  ASSUME TokenInv, NEW p \in Procs, Refused(p)
  PROVE  TokenInv'
<1>1. lost' \in BOOLEAN /\ (lost => lost') /\ acq[p].pc = "request" /\ At(p, "request")
      /\ acq[p].pc \notin Acquired \union {"sync"}
      /\ UNCHANGED <<clock, cache, disk, server>>
  BY DEF TokenInv, TokenType, Refused, At, Acquired
<1>2. CASE Fail(p)
  BY <1>1, <1>2, EndStep
<1>3. CASE Again(p, FALSE) /\ ~Fail(p)
  <2>1. PICK r \in AcqType :
          /\ Set(p, r) /\ r.pc = "request" /\ r.mode = acq[p].mode /\ r.now = acq[p].now
          /\ r.old = acq[p].old /\ r.new = acq[p].new
    BY <1>1, <1>3, AgainRecord
  <2>2. r.pc \notin Acquired \union {"sync"}
    BY <2>1 DEF Acquired
  <2>3. /\ r.old.refresh <= Issued /\ r.new.refresh <= Issued /\ r.now <= clock
        /\ r.mode = "interactive" => p = Operator
        /\ IF r.old.refresh = Nothing THEN p = Operator /\ cache.refresh = Nothing
           ELSE cache.refresh # Nothing
    BY <1>1, <2>1 DEF TokenInv, OriginInv, ExpiryInv, AuthorInv, Authorizing
  <2> QED BY <1>1, <2>1, <2>2, <2>3, QuietStep
<1> QED BY <1>2, <1>3 DEF Refused

-----------------------------------------------------------------------------
(* The server grants                                                       *)

(* A grant adds one token at the end of the server's list.                 *)
LEMMA GrantFacts ==
  ASSUME TokenInv, NEW p \in Procs, NEW rotates \in BOOLEAN, Grants(p, rotates)
  PROVE  /\ Issued' = Issued + 1 /\ Issued' <= MaxIssued /\ Issued \in Nat
         /\ server' \in [honours : SUBSET Tokens, ends : Seq(Nat)]
         /\ \A i \in 1 .. Issued : server'.ends[i] = server.ends[i]
         /\ server'.ends[Issued + 1] = clock + Lifetime
         /\ server'.honours = IF rotates
              THEN (server.honours \ {acq[p].old.refresh}) \union {Issued + 1}
              ELSE server.honours
         /\ server'.honours \subseteq 1 .. Issued'
<1>1. /\ Issued \in Nat /\ Issued < MaxIssued /\ MaxIssued \in Nat /\ clock \in Nat
      /\ server.ends \in Seq(Nat) /\ server.honours \subseteq 1 .. Issued
      /\ clock + Lifetime \in Nat
  <2>1. clock \in Nat /\ Issued \in Nat /\ MaxIssued \in Nat /\ Lifetime \in Nat
    BY TokenTypes, TokenCacheAssumption DEF TokenInv
  <2>2. Issued < MaxIssued
    BY DEF Grants
  <2>3. server.ends \in Seq(Nat) /\ server.honours \subseteq 1 .. Issued
    BY TokenTypes DEF TokenInv, OriginInv
  <2> QED BY <2>1, <2>2, <2>3
<1>2. server'.ends = Append(server.ends, clock + Lifetime)
  BY DEF Grants
<1>3. server'.honours = IF rotates
        THEN (server.honours \ {acq[p].old.refresh}) \union {Issued + 1}
        ELSE server.honours
  BY DEF Grants
<1>4. /\ server'.ends \in Seq(Nat) /\ Len(server'.ends) = Issued + 1
      /\ \A i \in 1 .. Issued : server'.ends[i] = server.ends[i]
      /\ server'.ends[Issued + 1] = clock + Lifetime
  BY <1>1, <1>2, AppendProperties DEF Issued
<1>5. server'.honours \subseteq 1 .. Issued + 1 /\ 1 .. Issued + 1 \subseteq Tokens
  BY <1>1, <1>3 DEF Tokens
<1>6. server' = [honours |-> server'.honours, ends |-> server'.ends]
  BY DEF Grants
<1>7. server' \in [honours : SUBSET Tokens, ends : Seq(Nat)]
  BY <1>4, <1>5, <1>6
<1>8. Issued' = Issued + 1 /\ Issued' <= MaxIssued
  BY <1>1, <1>4 DEF Issued
<1>9. server'.honours \subseteq 1 .. Issued'
  BY <1>5, <1>8
<1> QED BY ONLY <1>1, <1>3, <1>4, <1>7, <1>8, <1>9

LEMMA GrantKeepsOld ==
  ASSUME TokenInv, NEW p \in Procs, NEW rotates \in BOOLEAN, Grants(p, rotates),
         NEW c, c.access \in 0 .. MaxIssued, Dated(c)
  PROVE  c.access # Nothing =>
           c.access <= Issued' /\ c.expires <= server'.ends[c.access]
<1>1. /\ Issued' = Issued + 1 /\ Issued \in Nat
      /\ \A i \in 1 .. Issued : server'.ends[i] = server.ends[i]
  BY GrantFacts
<1>2. ASSUME c.access # Nothing PROVE c.access \in 1 .. Issued
  BY <1>1, <1>2 DEF Dated, Nothing
<1> QED BY <1>1, <1>2 DEF Dated

(* A grant in the acquisition of p, which goes on with the record r.       *)
LEMMA GrantedTypes ==
  ASSUME TokenInv, NEW p \in Procs, NEW rotates \in BOOLEAN, Grants(p, rotates),
         NEW r \in AcqType, Set(p, r), UNCHANGED <<clock, cache, disk>>, lost' \in BOOLEAN,
         r.old.refresh <= Issued, r.new.refresh <= Issued + 1, r.now <= clock,
         r.mode = "interactive" => p = Operator,
         r.pc \in Authorizing =>
           IF r.old.refresh = Nothing THEN p = Operator /\ cache.refresh = Nothing
           ELSE cache.refresh # Nothing,
         r.pc \notin {"write", "rename"},
         r.pc = "answer" => /\ r.new.access = Issued + 1
                            /\ r.new.refresh # Nothing => r.new.refresh # r.old.refresh
  PROVE  TokenType' /\ OriginInv' /\ ExpiryInv' /\ AuthorInv' /\ AnswerInv'
<1>0. /\ Issued' = Issued + 1 /\ Issued' <= MaxIssued /\ Issued \in Nat
      /\ server' \in [honours : SUBSET Tokens, ends : Seq(Nat)]
      /\ \A i \in 1 .. Issued : server'.ends[i] = server.ends[i]
      /\ server'.ends[Issued + 1] = clock + Lifetime
      /\ server'.honours \subseteq 1 .. Issued'
  BY GrantFacts
<1>1. /\ acq' \in [Procs -> AcqType]
      /\ acq'[p] = r /\ \A q \in Procs \ {p} : acq'[q] = acq[q]
  BY SetOne DEF TokenInv
<1>2. TokenType'
  BY <1>0, <1>1 DEF TokenInv, TokenType
<1>3. OriginInv'
  <2>1. \A q \in Procs \ {p} : acq[q].old.refresh \in Int /\ acq[q].new.refresh \in Int
    BY TokenTypes, RecordTypes DEF TokenInv
  <2>2. r.old.refresh \in Int /\ cache.refresh \in Int /\ disk.refresh \in Int
    BY TokenTypes, RecordTypes DEF TokenInv
  <2>3. server'.honours \subseteq 1 .. Issued'
    BY <1>0
  <2>4. cache'.refresh <= Issued' /\ disk'.refresh <= Issued'
    BY <1>0, <2>2 DEF TokenInv, OriginInv
  <2>5. ASSUME NEW q \in Procs \ {p}
        PROVE  acq'[q].old.refresh <= Issued' /\ acq'[q].new.refresh <= Issued'
    BY <1>0, <1>1, <2>1 DEF TokenInv, OriginInv
  <2>6. acq'[p].old.refresh <= Issued' /\ acq'[p].new.refresh <= Issued'
    BY <1>0, <1>1, <2>2
  <2> QED BY <2>3, <2>4, <2>5, <2>6 DEF OriginInv
<1>4. ExpiryInv'
  <2>1. Dated(cache)' /\ Dated(disk)'
    <3>1. /\ cache.access \in 0 .. MaxIssued /\ Dated(cache)
          /\ disk.access \in 0 .. MaxIssued /\ Dated(disk)
      BY DEF TokenInv, TokenType, Token, ExpiryInv
    <3>2. cache.access # Nothing =>
            cache.access <= Issued' /\ cache.expires <= server'.ends[cache.access]
      BY <3>1, GrantKeepsOld
    <3>3. disk.access # Nothing =>
            disk.access <= Issued' /\ disk.expires <= server'.ends[disk.access]
      BY <3>1, GrantKeepsOld
    <3> QED BY <3>2, <3>3 DEF Dated
  <2>2. ASSUME NEW q \in Procs \ {p}, acq[q].pc \in {"write", "rename"} PROVE Dated(acq[q].new)'
    <3>1. acq[q].new.access \in 0 .. MaxIssued /\ acq[q] \in AcqType
      BY TokenTypes, RecordTypes DEF TokenInv
    <3> QED BY <1>1, <2>2, <3>1, GrantKeepsOld DEF TokenInv, ExpiryInv, Dated
  <2>3. ASSUME NEW q \in Procs \ {p}, acq[q].pc = "answer"
        PROVE  /\ acq'[q].new.access \in 1 .. Issued'
               /\ acq'[q].now + Lifetime <= server'.ends[acq'[q].new.access]
    <3>1. acq[q].new.access \in 1 .. Issued /\ acq[q].now + Lifetime <= server.ends[acq[q].new.access]
      BY <2>3 DEF TokenInv, ExpiryInv
    <3> QED BY <1>0, <1>1, <3>1
  <2>4. ASSUME r.pc = "answer"
        PROVE  /\ r.new.access \in 1 .. Issued'
               /\ r.now + Lifetime <= server'.ends[r.new.access]
    <3>1. r.now \in Int /\ clock \in Int /\ Lifetime \in Int
      BY RecordTypes, TokenTypes, TokenCacheAssumption DEF TokenInv
    <3>2. r.new.access = Issued + 1
      BY <2>4
    <3>3. Issued + 1 \in 1 .. Issued' /\ server'.ends[Issued + 1] = clock + Lifetime
      BY <1>0
    <3> QED BY <3>1, <3>2, <3>3
  <2>5. \A q \in Procs : acq'[q].now <= clock'
    BY <1>1 DEF TokenInv, ExpiryInv
  <2> QED BY <1>1, <2>1, <2>2, <2>3, <2>4, <2>5 DEF ExpiryInv
<1>5. AuthorInv' /\ AnswerInv'
  BY <1>1 DEF TokenInv, AuthorInv, AnswerInv, Authorizing, Replaces
<1> QED BY <1>2, <1>3, <1>4, <1>5

(* The token a grant is made for is the only one the server honours, and   *)
(* it is in the file, unless other acquisitions are under way.             *)
LEMMA GrantGround ==
  ASSUME TokenInv, KeptInv, NEW p \in Procs, At(p, "request"), Honoured(p), ~Overlaps(p)
  PROVE  /\ \A q \in Procs : acq[q].pc \notin Acquired
         /\ server.honours \subseteq {acq[p].old.refresh}
         /\ server.honours # {} => cache.refresh = acq[p].old.refresh
<1>1. \A q \in Procs : acq[q].pc \notin Acquired
  BY DEF At, Acquired, Overlaps, Underway
<1>2. server.honours = {} \/ cache.refresh \in server.honours
  BY <1>1 DEF KeptInv
<1>3. CASE acq[p].old.refresh # Nothing
  <2>1. acq[p].old.refresh \in server.honours
    BY <1>3 DEF Honoured
  <2> QED BY <1>1, <1>2, <2>1 DEF KeptInv
<1>4. CASE acq[p].old.refresh = Nothing
  <2>1. cache.refresh = Nothing
    BY <1>4 DEF TokenInv, AuthorInv, At, Authorizing
  <2>2. Nothing \notin server.honours
    BY TokenTypes DEF TokenInv, Nothing
  <2> QED BY <1>1, <1>2, <2>1, <2>2
<1> QED BY <1>3, <1>4

LEMMA GrantedAnswer ==
  ASSUME TokenInv, NEW p \in Procs, At(p, "request"), NEW rotates \in BOOLEAN,
         Grants(p, rotates),
         acq' = [acq EXCEPT ![p].pc = "answer", ![p].new.access = Issued + 1,
                            ![p].new.refresh = IF rotates THEN Issued + 1 ELSE Nothing],
         lost' = (lost \/ Overlaps(p)), UNCHANGED <<clock, cache, disk>>
  PROVE  TokenInv'
<1> DEFINE new == [acq[p].new EXCEPT !.access = Issued + 1,
                                     !.refresh = IF rotates THEN Issued + 1 ELSE Nothing]
           r == [acq[p] EXCEPT !.pc = "answer", !.new = new]
<1>1. acq[p] \in AcqType /\ acq \in [Procs -> AcqType] /\ Issued \in Nat
      /\ Issued + 1 \in 0 .. MaxIssued /\ 0 \in 0 .. MaxIssued /\ acq[p].new \in Token
      /\ acq[p].old.refresh \in Nat
  <2>1. acq[p] \in AcqType /\ acq \in [Procs -> AcqType] /\ MaxIssued \in Nat
    BY TokenTypes DEF TokenInv, TokenType
  <2>2. Issued \in Nat /\ Issued + 1 <= MaxIssued
    BY GrantFacts
  <2> QED BY <2>1, <2>2, RecordTypes
<1>2. /\ new \in Token /\ new.access = Issued + 1
      /\ new.refresh = IF rotates THEN Issued + 1 ELSE Nothing
  BY <1>1 DEF Token, Nothing
<1>3. Set(p, r)
  BY <1>1 DEF Set
<1> HIDE DEF new
<1>4. /\ r \in AcqType /\ r.pc = "answer" /\ r.mode = acq[p].mode /\ r.now = acq[p].now
      /\ r.old = acq[p].old /\ r.new = new
  BY <1>1, <1>2 DEF AcqType, Authorizing, Acquired
<1> HIDE DEF r
<1>5. /\ r.old.refresh <= Issued /\ r.now <= clock
      /\ r.mode = "interactive" => p = Operator
      /\ IF r.old.refresh = Nothing THEN p = Operator /\ cache.refresh = Nothing
         ELSE cache.refresh # Nothing
  BY <1>4 DEF TokenInv, OriginInv, ExpiryInv, AuthorInv, Authorizing, At
<1>6. r.new.refresh <= Issued + 1 /\ (r.new.refresh # Nothing => r.new.refresh # r.old.refresh)
  BY <1>1, <1>2, <1>4, <1>5 DEF Nothing
<1>7. lost' \in BOOLEAN
  BY DEF TokenInv, TokenType
<1>8. TokenType' /\ OriginInv' /\ ExpiryInv' /\ AuthorInv' /\ AnswerInv'
  BY <1>2, <1>3, <1>4, <1>5, <1>6, <1>7, GrantedTypes
<1>9. ASSUME ~lost' PROVE KeptInv'
  <2>1. /\ acq'[p] = r /\ \A q \in Procs \ {p} : acq'[q] = acq[q]
    BY <1>3, <1>4, SetOne DEF TokenInv
  <2>2. /\ \A q \in Procs : acq[q].pc \notin Acquired
        /\ server.honours \subseteq {acq[p].old.refresh}
        /\ server.honours # {} => cache.refresh = acq[p].old.refresh
    BY <1>9, GrantGround DEF TokenInv, Grants
  <2>3. r.pc \in Acquired
    BY <1>4 DEF Acquired
  <2>4. CASE rotates
    <3>1. server'.honours = {Issued + 1}
      BY <2>2, <2>4, GrantFacts
    <3>2. Rotated(p)' /\ acq'[p].new.refresh = Issued + 1
      BY <1>1, <1>2, <1>4, <1>6, <2>1, <2>4 DEF Rotated, Replaces, Nothing
    <3> QED BY <2>1, <2>2, <2>3, <3>1, <3>2 DEF KeptInv
  <2>5. CASE ~rotates
    <3>1. server'.honours = server.honours
      BY <2>5, GrantFacts
    <3>2. ~Rotated(p)' /\ acq'[p].old = acq[p].old
      BY <1>2, <1>4, <2>1, <2>5 DEF Rotated
    <3>3. server.honours = {} \/ disk.refresh \in server.honours
          \/ \E q \in Procs \ {p} : acq'[q].pc \in Acquired \union {"sync"} /\ Rotated(q)'
      <4>1. acq[p].pc \notin Acquired \union {"sync"}
        BY DEF At, Acquired
      <4>2. \/ server.honours = {} \/ disk.refresh \in server.honours
            \/ \E q \in Procs : acq[q].pc \in Acquired \union {"sync"} /\ Rotated(q)
        BY <1>9 DEF TokenInv, KeptInv
      <4>3. ASSUME NEW q \in Procs, acq[q].pc \in Acquired \union {"sync"}, Rotated(q)
            PROVE  q # p /\ acq'[q].pc \in Acquired \union {"sync"} /\ Rotated(q)'
        BY <2>1, <4>1, <4>3 DEF Rotated, Replaces
      <4> QED BY <4>2, <4>3
    <3>4. \A q, u \in Procs : acq'[q].pc \in Acquired /\ acq'[u].pc \in Acquired => q = u
      BY <2>1, <2>2
    <3>5. \A x, y \in server.honours : x = y
      BY <2>2
    <3>6. server.honours # {} =>
            cache.refresh \in server.honours /\ acq[p].old.refresh \in server.honours
      BY <2>2
    <3>7. \A q \in Procs : acq'[q].pc \in Acquired => q = p
      BY <2>1, <2>2
    <3> QED BY <3>1, <3>2, <3>3, <3>4, <3>5, <3>6, <3>7 DEF KeptInv
  <2> QED BY <2>4, <2>5
<1> QED BY <1>8, <1>9 DEF TokenInv

(* The answer is lost: the attempt is repeated or was the last.            *)
LEMMA GrantedLost ==
  ASSUME TokenInv, NEW p \in Procs, At(p, "request"), NEW rotates \in BOOLEAN,
         Grants(p, rotates), Again(p, TRUE), lost' = (lost \/ rotates),
         UNCHANGED <<clock, cache, disk>>
  PROVE  TokenInv'
<1>1. PICK r \in AcqType :
        /\ Set(p, r) /\ r.pc \in {"request", "failed"}
        /\ r.now <= clock /\ r.old.refresh <= Issued /\ r.new.refresh <= Issued
        /\ r.mode = "interactive" => p = Operator
        /\ r.pc \in Authorizing =>
             IF r.old.refresh = Nothing THEN p = Operator /\ cache.refresh = Nothing
             ELSE cache.refresh # Nothing
  <2>1. CASE Fail(p)
    <3>1. "failed" \in Acquiring0 /\ "runtime" \in Modes
      BY DEF Acquiring0, Modes
    <3>2. PICK r : Blank(r, "failed", "runtime") /\ Set(p, r)
      BY <2>1, <3>1, BlankRecords DEF Fail
    <3>3. Issued \in Nat /\ clock \in Nat
      BY TokenTypes DEF TokenInv
    <3> QED BY <3>2, <3>3 DEF Blank, Authorizing, Acquired
  <2>2. CASE ~Fail(p)
    <3>1. PICK r \in AcqType :
            /\ Set(p, r) /\ r.pc = "request" /\ r.mode = acq[p].mode /\ r.now = acq[p].now
            /\ r.old = acq[p].old /\ r.new = acq[p].new
      BY <2>2, AgainRecord
    <3>2. /\ r.now <= clock /\ r.old.refresh <= Issued /\ r.new.refresh <= Issued
          /\ r.mode = "interactive" => p = Operator
          /\ IF r.old.refresh = Nothing THEN p = Operator /\ cache.refresh = Nothing
             ELSE cache.refresh # Nothing
      BY <3>1 DEF At, TokenInv, OriginInv, ExpiryInv, AuthorInv, Authorizing
    <3> QED BY <3>1, <3>2
  <2> QED BY <2>1, <2>2
<1>2. Issued \in Nat /\ r.new.refresh \in Int /\ lost' \in BOOLEAN
  BY TokenTypes, RecordTypes DEF TokenInv, TokenType
<1>3. TokenType' /\ OriginInv' /\ ExpiryInv' /\ AuthorInv' /\ AnswerInv'
  <2>1. r.new.refresh <= Issued + 1 /\ r.pc \notin {"answer", "write", "rename"}
    BY <1>1, <1>2
  <2> QED BY <1>1, <1>2, <2>1, GrantedTypes
<1>4. ASSUME ~lost' PROVE KeptInv'
  <2>1. KeptInv /\ ~rotates
    BY <1>4 DEF TokenInv
  <2>2. server'.honours = server.honours
    BY <2>1, GrantFacts
  <2>3. /\ acq'[p] = r /\ \A q \in Procs \ {p} : acq'[q] = acq[q]
    BY <1>1, SetOne DEF TokenInv
  <2>4. r.pc \notin Acquired \union {"sync"} /\ acq[p].pc \notin Acquired \union {"sync"}
    BY <1>1 DEF Acquired, At
  <2> QED BY <2>1, <2>2, <2>3, <2>4 DEF KeptInv, Rotated, Replaces
<1> QED BY <1>3, <1>4 DEF TokenInv

LEMMA GrantedStep ==
  ASSUME TokenInv, NEW p \in Procs, Granted(p)
  PROVE  TokenInv'
BY GrantedAnswer, GrantedLost DEF Granted

-----------------------------------------------------------------------------
(* What was answered is written                                            *)

(* A step of p between the answer and the sync of the directory that       *)
(* leaves the file and the server's grants.                                *)
LEMMA HeldStep ==
  ASSUME TokenInv, NEW p \in Procs, NEW r \in AcqType, Set(p, r), acq[p].pc \in Acquired,
         r.pc \in {"write", "rename"}, UNCHANGED <<clock, cache, disk, server, lost>>,
         r.mode = acq[p].mode, r.now = acq[p].now, r.old = acq[p].old,
         r.new.kind = "ours", r.new.refresh <= Issued, Dated(r.new),
         IF Rotated(p) THEN r.new.refresh = acq[p].new.refresh
         ELSE r.new.refresh = acq[p].old.refresh
  PROVE  TokenInv'
<1>1. /\ acq' \in [Procs -> AcqType]
      /\ acq'[p] = r /\ \A q \in Procs \ {p} : acq'[q] = acq[q]
  BY SetOne DEF TokenInv
<1>2. r.pc \in Acquired /\ r.pc # "answer" /\ r.pc # "sync" /\ r.pc \in Authorizing
      /\ acq[p].pc \in Authorizing
  BY DEF Acquired, Authorizing
<1>3. TokenType'
  BY <1>1 DEF TokenInv, TokenType, Issued
<1>4. OriginInv' /\ ExpiryInv'
  BY <1>1, <1>2 DEF TokenInv, OriginInv, ExpiryInv, Dated, Issued
<1>5. AuthorInv'
  BY <1>1, <1>2 DEF TokenInv, AuthorInv
<1>6. AnswerInv'
  <2>1. r.old.refresh # Nothing => r.new.refresh # Nothing
    BY DEF Rotated
  <2> QED BY <1>1, <1>2, <2>1 DEF TokenInv, AnswerInv, Replaces
<1>7. ASSUME KeptInv PROVE KeptInv'
  <2>1. Rotated(p)' <=> Rotated(p)
    BY <1>1 DEF Rotated, Replaces
  <2>2. Rotated(p) => acq'[p].new.refresh = acq[p].new.refresh
    BY <1>1
  <2>3. \A q \in Procs \ {p} : Rotated(q)' <=> Rotated(q)
    BY <1>1 DEF Rotated, Replaces
  <2>4. \A q \in Procs : acq'[q].pc \in Acquired <=> acq[q].pc \in Acquired
    BY <1>1, <1>2
  <2>5. \A q \in Procs : acq'[q].old = acq[q].old
    BY <1>1
  <2>6. \A q \in Procs : Rotated(q)' => acq'[q].new.refresh = acq[q].new.refresh
    BY <1>1, <2>1, <2>2
  <2>7. \A q \in Procs : acq[q].pc \in Acquired \union {"sync"} =>
                         acq'[q].pc \in Acquired \union {"sync"}
    BY <1>1, <1>2
  <2>8. \A q \in Procs : Rotated(q)' <=> Rotated(q)
    BY <2>1, <2>3
  <2> HIDE DEF Rotated
  <2> QED BY <1>7, <2>4, <2>5, <2>6, <2>7, <2>8 DEF KeptInv
<1> QED BY <1>3, <1>4, <1>5, <1>6, <1>7 DEF TokenInv

LEMMA AnsweredStep ==
  ASSUME TokenInv, NEW p \in Procs, Answered(p)
  PROVE  TokenInv'
<1> DEFINE answered == acq[p].new.refresh
           new == [kind |-> "ours", access |-> acq[p].new.access,
                   refresh |-> TakeRefreshToken(answered, acq[p].old),
                   expires |-> ExpiresAt(acq[p].now)]
           r == [acq[p] EXCEPT !.pc = "write", !.new = new]
<1>1. /\ acq[p] \in AcqType /\ acq \in [Procs -> AcqType] /\ acq[p].pc = "answer"
      /\ acq[p].pc \in Acquired /\ UNCHANGED <<clock, cache, disk, server>>
  BY TokenTypes DEF TokenInv, TokenType, Answered, At, Acquired
<1>2. CASE Fail(p) /\ lost' = (lost \/ answered # Nothing)
  <2>1. lost' \in BOOLEAN /\ (lost => lost') /\ (Rotated(p) => lost')
    BY <1>2 DEF TokenInv, TokenType, Rotated
  <2> QED BY <1>1, <1>2, <2>1, EndStep
<1>3. CASE acq' = [acq EXCEPT ![p].pc = "write",
              ![p].new = [kind |-> "ours", access |-> @.access,
                          refresh |-> TakeRefreshToken(answered, acq[p].old),
                          expires |-> ExpiresAt(acq[p].now)]]
           /\ UNCHANGED lost
  <2>1. /\ answered \in 0 .. MaxIssued /\ acq[p].old.refresh \in 0 .. MaxIssued
        /\ acq[p].new.access \in 0 .. MaxIssued /\ acq[p].now \in Nat
        /\ acq[p].old.refresh <= Issued /\ answered <= Issued
    BY <1>1, RecordTypes DEF TokenInv, OriginInv
  <2>2. new.refresh = (IF answered # Nothing THEN answered ELSE acq[p].old.refresh)
        /\ new.expires = acq[p].now + Lifetime
    BY DEF TakeRefreshToken, ExpiresAt
  <2>3. new.kind = "ours" /\ new.access = acq[p].new.access
    OBVIOUS
  <2>4. new \in Token
    BY <2>1, <2>2, TokenCacheAssumption DEF Token, TakeRefreshToken, ExpiresAt
  <2>5. Dated(new)
    BY <1>1, <2>1, <2>2, <2>3 DEF TokenInv, ExpiryInv, Dated
  <2>6. Set(p, r)
    BY <1>1, <1>3 DEF Set
  <2>7. /\ r \in AcqType /\ r.pc = "write" /\ r.mode = acq[p].mode /\ r.now = acq[p].now
        /\ r.old = acq[p].old /\ r.new = new
    BY <1>1, <2>4 DEF AcqType, Authorizing, Acquired
  <2>8. IF Rotated(p) THEN new.refresh = acq[p].new.refresh
        ELSE new.refresh = acq[p].old.refresh
    BY <1>1, <2>2 DEF TokenInv, AnswerInv, Rotated
  <2>9. new.refresh <= Issued
    BY <2>1, <2>2
  <2> HIDE DEF new, r
  <2> QED BY <1>1, <1>3, <2>3, <2>5, <2>6, <2>7, <2>8, <2>9, HeldStep
<1> QED BY <1>2, <1>3 DEF Answered

LEMMA WriteTemporaryStep ==
  ASSUME TokenInv, NEW p \in Procs, WriteTemporary(p)
  PROVE  TokenInv'
<1>1. /\ acq[p] \in AcqType /\ acq \in [Procs -> AcqType] /\ acq[p].pc = "write"
      /\ acq[p].pc \in Acquired /\ UNCHANGED <<clock, cache, disk, server>>
  BY TokenTypes DEF TokenInv, TokenType, WriteTemporary, At, Acquired
<1>2. CASE Fail(p) /\ lost' = (lost \/ Replaces(p))
  <2>1. lost' \in BOOLEAN /\ (lost => lost') /\ (Rotated(p) => lost')
    BY <1>2 DEF TokenInv, TokenType, Rotated
  <2> QED BY <1>1, <1>2, <2>1, EndStep
<1>3. CASE Go(p, "rename") /\ UNCHANGED lost
  <2> DEFINE r == [acq[p] EXCEPT !.pc = "rename"]
  <2>1. /\ r \in AcqType /\ r.pc = "rename" /\ r.mode = acq[p].mode /\ r.now = acq[p].now
        /\ r.old = acq[p].old /\ r.new = acq[p].new
    BY <1>1 DEF AcqType, Authorizing, Acquired
  <2>2. Set(p, r)
    BY <1>3 DEF Go, Set
  <2>3. /\ acq[p].new.kind = "ours" /\ acq[p].new.refresh <= Issued /\ Dated(acq[p].new)
        /\ acq[p].old.refresh # Nothing => acq[p].new.refresh # Nothing
    BY <1>1 DEF TokenInv, AnswerInv, OriginInv, ExpiryInv
  <2>4. IF Rotated(p) THEN acq[p].new.refresh = acq[p].new.refresh
        ELSE acq[p].new.refresh = acq[p].old.refresh
    BY <2>3 DEF Rotated, Replaces
  <2> HIDE DEF r
  <2> QED BY <1>1, <1>3, <2>1, <2>2, <2>3, <2>4, HeldStep
<1> QED BY <1>2, <1>3 DEF WriteTemporary

LEMMA RenameStep ==
  ASSUME TokenInv, NEW p \in Procs, Rename(p)
  PROVE  TokenInv'
<1>1. /\ acq[p] \in AcqType /\ acq \in [Procs -> AcqType] /\ acq[p].pc = "rename"
      /\ acq[p].pc \in Acquired /\ acq[p].pc \in Authorizing
      /\ UNCHANGED <<clock, disk, server>>
  BY TokenTypes DEF TokenInv, TokenType, Rename, At, Acquired, Authorizing
<1>2. CASE UNCHANGED cache /\ Fail(p) /\ lost' = (lost \/ Replaces(p))
  <2>1. lost' \in BOOLEAN /\ (lost => lost') /\ (Rotated(p) => lost')
    BY <1>2 DEF TokenInv, TokenType, Rotated
  <2> QED BY <1>1, <1>2, <2>1, EndStep
<1>3. CASE cache' = acq[p].new /\ Go(p, "sync") /\ UNCHANGED lost
  <2> DEFINE r == [acq[p] EXCEPT !.pc = "sync"]
  <2>1. /\ r \in AcqType /\ r.pc = "sync" /\ r.mode = acq[p].mode /\ r.now = acq[p].now
        /\ r.old = acq[p].old /\ r.new = acq[p].new
    BY <1>1 DEF AcqType
  <2>2. Set(p, r)
    BY <1>3 DEF Go, Set
  <2> HIDE DEF r
  <2>3. /\ acq' \in [Procs -> AcqType]
        /\ acq'[p] = r /\ \A q \in Procs \ {p} : acq'[q] = acq[q]
    BY <2>1, <2>2, SetOne DEF TokenInv
  <2>4. r.pc \notin Acquired /\ r.pc \notin Authorizing
    BY <2>1 DEF Acquired, Authorizing
  <2>5. TokenType'
    BY <1>1, <1>3, <2>3, RecordTypes DEF TokenInv, TokenType, Issued
  <2>6. OriginInv'
    BY <1>1, <1>3, <2>1, <2>3 DEF TokenInv, OriginInv, Issued
  <2>7. ExpiryInv'
    <3>1. Dated(acq[p].new)
      BY <1>1 DEF TokenInv, ExpiryInv
    <3>2. Dated(cache)' /\ Dated(disk)'
      BY <1>1, <1>3, <3>1 DEF TokenInv, ExpiryInv, Dated, Issued
    <3> QED BY <1>1, <2>1, <2>3, <3>2 DEF TokenInv, ExpiryInv, Dated, Issued
  <2>8. AuthorInv'
    <3>1. acq[p].mode = "interactive" => p = Operator
      BY DEF TokenInv, AuthorInv
    <3>2. ASSUME NEW q \in Procs \ {p}, acq[q].pc \in Authorizing
          PROVE  IF acq[q].old.refresh = Nothing THEN q = Operator /\ cache'.refresh = Nothing
                 ELSE cache'.refresh # Nothing
      <4>1. IF acq[q].old.refresh = Nothing THEN q = Operator /\ cache.refresh = Nothing
            ELSE cache.refresh # Nothing
        BY <3>2 DEF TokenInv, AuthorInv
      <4>2. IF acq[p].old.refresh = Nothing THEN p = Operator /\ cache.refresh = Nothing
            ELSE cache.refresh # Nothing
        BY <1>1 DEF TokenInv, AuthorInv
      <4>3. acq[p].old.refresh # Nothing => acq[p].new.refresh # Nothing
        BY <1>1 DEF TokenInv, AnswerInv
      <4> QED BY <1>3, <4>1, <4>2, <4>3
    <3> QED BY <2>1, <2>3, <2>4, <3>1, <3>2 DEF TokenInv, AuthorInv
  <2>9. AnswerInv'
    BY <2>1, <2>3 DEF TokenInv, AnswerInv, Replaces
  <2>10. ASSUME KeptInv PROVE KeptInv'
    <3>1. \A q \in Procs \ {p} : acq[q].pc \notin Acquired /\ acq'[q].pc \notin Acquired
      BY <1>1, <2>3, <2>10 DEF KeptInv
    <3>2. \A q \in Procs : acq'[q].pc \notin Acquired
      BY <2>3, <2>4, <3>1
    <3>3. acq[p].old.refresh # Nothing => acq[p].new.refresh # Nothing
      BY <1>1 DEF TokenInv, AnswerInv
    <3>4. server.honours # {} => acq[p].new.refresh \in server.honours
      <4>1. CASE Rotated(p)
        BY <1>1, <2>10, <4>1 DEF KeptInv
      <4>2. CASE ~Rotated(p)
        <5>1. acq[p].new.refresh = acq[p].old.refresh
          BY <3>3, <4>2 DEF Rotated, Replaces
        <5> QED BY <1>1, <2>10, <4>2, <5>1 DEF KeptInv
      <4> QED BY <4>1, <4>2
    <3>5. \A q \in Procs : Rotated(q)' <=> Rotated(q)
      BY <2>1, <2>3 DEF Rotated, Replaces
    <3>6. \A q \in Procs : acq[q].pc \in Acquired \union {"sync"} =>
                           acq'[q].pc \in Acquired \union {"sync"}
      BY <2>1, <2>3
    <3>7. \A x, y \in server.honours : x = y
      BY <2>10 DEF KeptInv
    <3>8. \/ server.honours = {} \/ disk.refresh \in server.honours
          \/ \E q \in Procs : acq'[q].pc \in Acquired \union {"sync"} /\ Rotated(q)'
      BY <2>10, <3>5, <3>6 DEF KeptInv
    <3>9. server.honours = {} \/ cache'.refresh \in server.honours
      BY <1>3, <3>4
    <3> QED BY <1>1, <3>2, <3>7, <3>8, <3>9 DEF KeptInv
  <2> QED BY <1>3, <2>5, <2>6, <2>7, <2>8, <2>9, <2>10 DEF TokenInv
<1> QED BY <1>2, <1>3 DEF Rename

LEMMA SyncDirectoryStep ==
  ASSUME TokenInv, NEW p \in Procs, SyncDirectory(p)
  PROVE  TokenInv'
<1>1. /\ acq[p].pc = "sync" /\ acq[p].pc \notin Acquired
      /\ UNCHANGED <<clock, cache, server>>
  BY DEF SyncDirectory, At, Acquired
<1>2. CASE UNCHANGED disk /\ Fail(p) /\ lost' = (lost \/ Replaces(p))
  <2>1. lost' \in BOOLEAN /\ (lost => lost') /\ (Rotated(p) => lost')
    BY <1>2 DEF TokenInv, TokenType, Rotated
  <2> QED BY <1>1, <1>2, <2>1, EndStep
<1>3. CASE disk' = cache /\ Succeed(p) /\ UNCHANGED lost
  <2>1. PICK r : Blank(r, "done", "runtime") /\ Set(p, r)
    <3>1. "done" \in Acquiring0 /\ "runtime" \in Modes
      BY DEF Acquiring0, Modes
    <3> QED BY <1>3, <3>1, BlankRecords DEF Succeed
  <2>2. /\ r \in AcqType /\ r.pc = "done" /\ r.mode = "runtime" /\ r.now = 0
        /\ r.old.refresh = 0 /\ r.new.refresh = 0
    BY <2>1 DEF Blank
  <2>3. /\ acq' \in [Procs -> AcqType]
        /\ acq'[p] = r /\ \A q \in Procs \ {p} : acq'[q] = acq[q]
    BY <2>1, <2>2, SetOne DEF TokenInv
  <2>4. r.pc \notin Acquired /\ r.pc \notin Authorizing /\ Issued \in Nat /\ clock \in Nat
    BY <2>2, TokenTypes DEF Acquired, Authorizing, TokenInv
  <2>5. TokenType'
    BY <1>1, <1>3, <2>3 DEF TokenInv, TokenType, Issued
  <2>6. OriginInv'
    BY <1>1, <1>3, <2>2, <2>3, <2>4 DEF TokenInv, OriginInv, Issued
  <2>7. ExpiryInv'
    <3>1. Dated(cache)' /\ Dated(disk)'
      BY <1>1, <1>3 DEF TokenInv, ExpiryInv, Dated, Issued
    <3> QED BY <1>1, <2>2, <2>3, <2>4, <3>1 DEF TokenInv, ExpiryInv, Dated, Issued
  <2>8. AuthorInv' /\ AnswerInv'
    BY <1>1, <2>2, <2>3, <2>4 DEF TokenInv, AuthorInv, AnswerInv, Replaces
  <2>9. ASSUME KeptInv PROVE KeptInv'
    <3>1. \A q \in Procs : acq'[q].pc \in Acquired <=> acq[q].pc \in Acquired
      BY <1>1, <2>2, <2>3, <2>4
    <3>2. \A q \in Procs : acq[q].pc \in Acquired => q # p /\ acq'[q] = acq[q]
      BY <1>1, <2>3
    <3>3. \A q \in Procs : acq[q].pc \in Acquired => (Rotated(q)' <=> Rotated(q))
      BY <3>2 DEF Rotated, Replaces
    <3>4. \/ server.honours = {} \/ cache.refresh \in server.honours
          \/ \E q \in Procs : /\ acq[q].pc \in Acquired /\ Rotated(q)
                              /\ acq[q].new.refresh \in server.honours
      BY <2>9 DEF KeptInv
    <3>5. \A q \in Procs : acq[q].pc \in Acquired /\ server.honours # {} =>
            IF Rotated(q) THEN acq[q].new.refresh \in server.honours
            ELSE cache.refresh \in server.honours /\ acq[q].old.refresh \in server.honours
      BY <2>9 DEF KeptInv
    <3>6. \A x, y \in server.honours : x = y
      BY <2>9 DEF KeptInv
    <3>7. \A q, u \in Procs : acq[q].pc \in Acquired /\ acq[u].pc \in Acquired => q = u
      BY <2>9 DEF KeptInv
    <3> QED BY <1>1, <1>3, <3>1, <3>2, <3>3, <3>4, <3>5, <3>6, <3>7 DEF KeptInv
  <2> QED BY <1>3, <2>5, <2>6, <2>7, <2>8, <2>9 DEF TokenInv
<1> QED BY <1>2, <1>3 DEF SyncDirectory

LEMMA AcquisitionStep ==
  ASSUME TokenInv, NEW p \in Procs, Acquisition(p)
  PROVE  TokenInv'
BY FetchMetadataStep, ReadCacheStep, ConsentStep, GrantedStep, AnsweredStep, RefusedStep,
   WriteTemporaryStep, RenameStep, SyncDirectoryStep DEF Acquisition

-----------------------------------------------------------------------------
(* The caller and the environment                                          *)

LEMMA BeginStep ==
  ASSUME TokenInv, NEW p \in Procs, NEW mode \in Modes, Begin(p, mode),
         mode = "interactive" => p = Operator, acq[p].pc \notin Acquired \union {"sync"},
         UNCHANGED <<clock, cache, disk, server, lost>>
  PROVE  TokenInv'
<1>1. "metadata" \in Acquiring0 /\ lost' \in BOOLEAN
  BY DEF Acquiring0, TokenInv, TokenType
<1>2. PICK r : Blank(r, "metadata", mode) /\ Set(p, r)
  BY <1>1, BlankRecords DEF Begin
<1> QED BY <1>1, <1>2, ResetStep

LEMMA ClockStep ==
  ASSUME TokenInv, Tick
  PROVE  TokenInv'
<1> USE DEF TokenInv, Tick
<1>1. TokenType'
  BY TokenCacheAssumption DEF TokenType, Issued
<1>2. OriginInv' /\ AuthorInv' /\ AnswerInv' /\ (KeptInv => KeptInv')
  BY DEF OriginInv, AuthorInv, AnswerInv, KeptInv, Rotated, Replaces, Issued
<1>3. ExpiryInv'
  <2>1. \A p \in Procs : acq[p].now \in Int /\ clock \in Int
    BY TokenTypes, RecordTypes
  <2> QED BY <2>1 DEF ExpiryInv, Dated, Issued
<1> QED BY <1>1, <1>2, <1>3

LEMMA PowerFailsStep ==
  ASSUME TokenInv, PowerFails
  PROVE  TokenInv'
<1>1. Blank(Idle, "idle", "runtime")
  <2>1. "idle" \in Acquiring0 /\ "runtime" \in Modes
    BY DEF Acquiring0, Modes
  <2> QED BY <2>1, BlankRecords
<1>2. /\ Idle \in AcqType /\ Idle.pc = "idle" /\ Idle.mode = "runtime" /\ Idle.now = 0
      /\ Idle.old.refresh = 0 /\ Idle.new.refresh = 0
  BY <1>1 DEF Blank
<1>3. \A p \in Procs : acq'[p] = Idle
  BY DEF PowerFails
<1>4. acq' \in [Procs -> AcqType]
  BY <1>2 DEF PowerFails
<1>5. "idle" \notin Acquired /\ "idle" \notin Authorizing /\ Issued \in Nat /\ clock \in Nat
  BY TokenTypes DEF Acquired, Authorizing, TokenInv
<1>6. cache' \in {cache, disk} /\ disk' = cache' /\ UNCHANGED <<clock, server>>
  BY DEF PowerFails
<1>7. TokenType'
  BY <1>4, <1>6 DEF PowerFails, TokenInv, TokenType, Issued
<1>8. OriginInv' /\ AuthorInv' /\ AnswerInv'
  BY <1>2, <1>3, <1>5, <1>6 DEF TokenInv, OriginInv, AuthorInv, AnswerInv, Issued
<1>9. ExpiryInv'
  <2>1. Dated(cache)' /\ Dated(disk)'
    BY <1>6 DEF TokenInv, ExpiryInv, Dated, Issued
  <2> QED BY <1>2, <1>3, <1>5, <1>6, <2>1 DEF ExpiryInv
<1>10. ASSUME ~lost' PROVE KeptInv'
  <2>1. KeptInv /\ \A p \in Procs : acq[p].pc \notin Acquired \union {"sync"}
    BY <1>10 DEF PowerFails, TokenInv, At, Underway, Acquired
  <2>2. \/ server.honours = {}
        \/ cache.refresh \in server.honours /\ disk.refresh \in server.honours
    BY <2>1 DEF KeptInv
  <2> QED BY <1>2, <1>3, <1>5, <1>6, <2>1, <2>2 DEF KeptInv
<1> QED BY <1>7, <1>8, <1>9, <1>10 DEF TokenInv

LEMMA TokensInitially == InitTokens => TokenInv
<1> SUFFICES ASSUME InitTokens PROVE TokenInv
  OBVIOUS
<1>1. Blank(Idle, "idle", "runtime")
  <2>1. "idle" \in Acquiring0 /\ "runtime" \in Modes
    BY DEF Acquiring0, Modes
  <2> QED BY <2>1, BlankRecords
<1>2. /\ Idle \in AcqType /\ Idle.pc = "idle" /\ Idle.mode = "runtime" /\ Idle.now = 0
      /\ Idle.old.refresh = 0 /\ Idle.new.refresh = 0
  BY <1>1 DEF Blank
<1>3. "idle" \notin Acquired /\ "idle" \notin Authorizing
  BY DEF Acquired, Authorizing
<1>4. /\ clock = 0 /\ lost = FALSE /\ acq = [p \in Procs |-> Idle] /\ disk = cache
      /\ \A p \in Procs : acq[p] = Idle
  BY DEF InitTokens
<1>5. /\ cache \in Token /\ server \in [honours : SUBSET Tokens, ends : Seq(Nat)]
      /\ Issued \in Nat /\ Issued <= MaxIssued /\ server.honours \subseteq 1 .. Issued
      /\ cache.refresh <= Issued /\ Dated(cache)
      /\ server.honours = {} \/ (server.honours = {1} /\ cache.refresh = 1)
  <2>1. CASE cache = Ours /\ server = [honours |-> {1}, ends |-> <<Lifetime>>]
    <3>1. cache \in Token /\ cache.access = 1 /\ cache.refresh = 1 /\ cache.expires = Lifetime
      BY <2>1, TokenCacheAssumption DEF Ours, Token
    <3>2. server.honours = {1} /\ server.ends = <<Lifetime>> /\ Issued = 1
          /\ server.ends \in Seq(Nat) /\ server.ends[1] = Lifetime /\ Tokens = 1 .. MaxIssued
      BY <2>1, TokenCacheAssumption DEF Issued, Tokens
    <3>3. server \in [honours : SUBSET Tokens, ends : Seq(Nat)]
      BY <2>1, <3>2, TokenCacheAssumption
    <3> QED BY <3>1, <3>2, <3>3, TokenCacheAssumption DEF Dated
  <2>2. CASE /\ cache \in {Absent, [Absent EXCEPT !.kind = "foreign"],
                           [Absent EXCEPT !.kind = "unsafe"]}
             /\ server = [honours |-> {}, ends |-> <<>>]
    <3>1. cache \in Token /\ cache.access = 0 /\ cache.refresh = 0
      BY <2>2, TokenCacheAssumption DEF Absent, Token, Nothing
    <3>2. server.honours = {} /\ Issued = 0 /\ server.ends = <<>> /\ server.ends \in Seq(Nat)
      BY <2>2 DEF Issued
    <3> QED BY <2>2, <3>1, <3>2, TokenCacheAssumption DEF Dated, Nothing
  <2> QED BY <2>1, <2>2 DEF InitTokens
<1>6. TokenType
  <2>1. acq \in [Procs -> AcqType]
    BY <1>2, <1>4
  <2>2. 0 \in 0 .. MaxClock
    BY TokenCacheAssumption
  <2>3. clock \in 0 .. MaxClock /\ lost \in BOOLEAN
    BY <1>4, <2>2
  <2> QED BY <1>4, <1>5, <2>1, <2>3 DEF TokenType
<1>7. OriginInv /\ ExpiryInv /\ AuthorInv /\ AnswerInv
  BY <1>2, <1>3, <1>4, <1>5 DEF OriginInv, ExpiryInv, AuthorInv, AnswerInv
<1>8. KeptInv
  BY <1>2, <1>3, <1>4, <1>5 DEF KeptInv
<1> QED BY <1>6, <1>7, <1>8 DEF TokenInv

LEMMA TokensStutter ==
  ASSUME TokenInv, UNCHANGED tokenVars
  PROVE  TokenInv'
BY DEF tokenVars, TokenInv, TokenType, OriginInv, ExpiryInv, Dated, AuthorInv, AnswerInv,
       KeptInv, Rotated, Replaces, Issued

(* A step of one acquisition is no step of another, and does not leave the *)
(* acquisition: that is its caller's.                                      *)
LEMMA AcquisitionFrame ==
  ASSUME TokenInv, NEW p \in Procs, Acquisition(p)
  PROVE  /\ acq[p].pc # "idle" /\ acq'[p].pc # "idle"
         /\ \A q \in Procs \ {p} : acq'[q] = acq[q]
<1>1. acq \in [Procs -> AcqType] /\ acq[p] \in AcqType
  BY TokenTypes DEF TokenInv, TokenType
<1>2. acq[p].pc # "idle"
  BY DEF Acquisition, FetchMetadata, ReadCache, Consent, Granted, Answered, Refused,
         WriteTemporary, Rename, SyncDirectory, At
<1> SUFFICES acq'[p].pc # "idle" /\ \A q \in Procs \ {p} : acq'[q] = acq[q]
  BY <1>2
<1>3. ASSUME NEW r, acq' = [acq EXCEPT ![p] = r], r.pc # "idle"
      PROVE  acq'[p].pc # "idle" /\ \A q \in Procs \ {p} : acq'[q] = acq[q]
  BY <1>1, <1>3
<1>4. /\ [Idle EXCEPT !.pc = "failed"].pc = "failed"
      /\ [Idle EXCEPT !.pc = "done"].pc = "done"
  BY DEF Idle
<1>5. CASE Fail(p) \/ Succeed(p)
  BY <1>3, <1>4, <1>5 DEF Fail, Succeed, Set
<1>6. ASSUME NEW pc \in {"read", "request", "rename", "sync"}, Go(p, pc)
      PROVE  acq'[p].pc # "idle" /\ \A q \in Procs \ {p} : acq'[q] = acq[q]
  BY <1>1, <1>6 DEF Go
<1>7. CASE ReadCache(p)
  <2> DEFINE read == [acq[p] EXCEPT !.now = clock, !.old = cache]
             asks == [read EXCEPT !.pc = "request"]
             authorizes == [read EXCEPT !.pc = "consent", !.old = Absent]
  <2>1. asks.pc = "request" /\ authorizes.pc = "consent"
    BY <1>1 DEF AcqType
  <2>2. Succeed(p) \/ Fail(p) \/ acq' = [acq EXCEPT ![p] = asks]
        \/ acq' = [acq EXCEPT ![p] = authorizes]
    BY <1>7 DEF ReadCache, Set
  <2> HIDE DEF asks, authorizes
  <2> QED BY <1>3, <1>5, <2>1, <2>2
<1>8. ASSUME NEW spent \in BOOLEAN, Again(p, spent), At(p, "request")
      PROVE  acq'[p].pc # "idle" /\ \A q \in Procs \ {p} : acq'[q] = acq[q]
  BY <1>3, <1>5, <1>8, AgainRecord DEF Set
<1>9. CASE Granted(p)
  <2>1. PICK rotates \in BOOLEAN :
          \/ acq' = [acq EXCEPT ![p].pc = "answer", ![p].new.access = Issued + 1,
                                ![p].new.refresh = IF rotates THEN Issued + 1 ELSE Nothing]
          \/ Again(p, TRUE)
    BY <1>9 DEF Granted
  <2>2. At(p, "request")
    BY <1>9 DEF Granted
  <2> DEFINE r == [acq[p] EXCEPT !.pc = "answer", !.new.access = Issued + 1,
                     !.new.refresh = IF rotates THEN Issued + 1 ELSE Nothing]
  <2>3. r.pc = "answer"
    BY <1>1 DEF AcqType
  <2>4. CASE acq' = [acq EXCEPT ![p].pc = "answer", ![p].new.access = Issued + 1,
                                ![p].new.refresh = IF rotates THEN Issued + 1 ELSE Nothing]
    <3>1. acq' = [acq EXCEPT ![p] = r]
      BY <1>1, <2>4
    <3> HIDE DEF r
    <3> QED BY <1>3, <2>3, <3>1
  <2> QED BY <1>8, <2>1, <2>2, <2>4
<1>10. CASE Answered(p)
  <2> DEFINE new == [kind |-> "ours", access |-> acq[p].new.access,
                     refresh |-> TakeRefreshToken(acq[p].new.refresh, acq[p].old),
                     expires |-> ExpiresAt(acq[p].now)]
             r == [acq[p] EXCEPT !.pc = "write", !.new = new]
  <2>1. r.pc = "write"
    BY <1>1 DEF AcqType
  <2>2. Fail(p) \/ acq' = [acq EXCEPT ![p] = r]
    BY <1>1, <1>10 DEF Answered
  <2> HIDE DEF r
  <2> QED BY <1>3, <1>5, <2>1, <2>2
<1>11. CASE Refused(p)
  BY <1>5, <1>8, <1>11 DEF Refused
<1>12. CASE FetchMetadata(p) \/ Consent(p) \/ WriteTemporary(p) \/ Rename(p) \/ SyncDirectory(p)
  BY <1>5, <1>6, <1>12 DEF FetchMetadata, Consent, WriteTemporary, Rename, SyncDirectory
<1> QED BY <1>7, <1>9, <1>10, <1>11, <1>12 DEF Acquisition

(* What the theorems take from the invariant.                              *)
LEMMA TokenInvKeeps == TokenInv => RefreshTokenIsKept
<1> SUFFICES ASSUME TokenInv PROVE RefreshTokenIsKept
  OBVIOUS
<1>1. cache.access # Nothing => cache.expires <= server.ends[cache.access]
  BY DEF TokenInv, ExpiryInv, Dated
<1>2. server.honours = {} \/ lost
      \/ \E c \in {cache} \union {acq[p].new : p \in Procs} : c.refresh \in server.honours
  BY DEF TokenInv, KeptInv
<1> QED BY <1>1, <1>2 DEF RefreshTokenIsKept
=============================================================================
