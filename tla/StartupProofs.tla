--------------------------- MODULE StartupProofs ---------------------------
(***************************************************************************)
(* Theorems about Startup, for any number of processes, configurations,    *)
(* disks, database files, starts and swaps: what the database file, the    *)
(* stored samples and an accepted configuration are promised.              *)
(***************************************************************************)
EXTENDS Startup, SequenceTheorems, TLAPS

-----------------------------------------------------------------------------
(* The inductive invariant                                                 *)

(* Inside the transaction, and what a process has behind it.               *)
OfSchema == {"create", "commit schema"}
OfDevices == {"row", "tables", "commit devices"}
Holding == OfSchema \union OfDevices
Running == {"prepare", "idle", "read"}
Validated == {"registrations", "begin devices", "validate again", "history"}
               \union OfDevices \union Running
Unvalidated == {"open", "version", "names", "begin schema", "validate"} \union OfSchema

Reasons == {"nothing", "error"}

ProcType == [pc : {"off", "verify"} \union Unvalidated \union Validated,
             conf : Configs \union {None}, i : Nat, seen : [Paths -> Numbers \union {None}],
             found : Numbers \union {None}, checked : Nat,
             active : SUBSET Paths, said : Reasons]
NodeType == [is : Serials \union Refused, number : Numbers \union {None}, since : 0 .. MaxSwaps]

(* A number stands for one disk at a time.                                 *)
NodeInv ==
  /\ OneDiskPerNumber(node)
  /\ \A q \in Paths : node[q].number # None => node[q].is \in Serials
  /\ \A q \in Paths : node[q].is \in Serials \ Refused => node[q].number # None

TypeInv ==
  /\ initial \in Files
  /\ file \in FileType /\ staged \in FileType /\ lock \in Procs \union {None}
  /\ node \in [Paths -> NodeType] /\ proc \in [Procs -> ProcType]
  /\ starts \in 0 .. MaxStarts /\ swaps \in 0 .. MaxSwaps
  /\ ran \subseteq Configs /\ NodeInv

(* A started process has an accepted configuration, of which it has        *)
(* verified the disks up to the one it is at, then all.                    *)
ConfOf(s) ==
  /\ s.pc = "off" <=> s.conf = None
  /\ s.pc # "off" => Accepted(s.conf) /\ s.i \in DOMAIN s.conf.disks
  /\ s.pc = "verify" => \A i \in 1 .. (s.i - 1) : s.conf.disks[i].serial \in Serials
  /\ s.pc \notin {"off", "verify"} =>
       \A i \in DOMAIN s.conf.disks : s.conf.disks[i].serial \in Serials

(* What is found at a checked number is the disk that was checked there,   *)
(* or it came later.                                                       *)
CheckedOf(s) ==
  s.pc = "read" =>
    /\ s.found # None /\ s.checked <= swaps
    /\ \A q \in With(s.found) :
         node[q].since <= s.checked => node[q].is = s.conf.disks[s.i].serial

Hashes(f) == {r.hash : r \in f.devs}
RegisteredIn(c, f) == \A i \in DOMAIN c.disks : HashId(c.disks[i]) \in Hashes(f)

(* What a process has concluded of the file stays so.                      *)
KnowsOf(s) ==
  /\ s.pc = "names" => Ours \/ file.version = 0
  /\ s.pc \in {"begin schema"} \union OfSchema => Ours
  /\ s.pc = "validate" => file.version = 1
  /\ s.pc \in Validated => Readable(file)
  /\ s.pc \in Running => RegisteredIn(s.conf, file)

ProcInv == \A p \in Procs : ConfOf(proc[p]) /\ CheckedOf(proc[p]) /\ KnowsOf(proc[p])

(* One process is inside a transaction, and it will commit a whole file    *)
(* with every row there was.                                               *)
StagedOf(s) ==
  /\ s.pc = "create" => staged = file
  /\ s.pc \in {"commit schema", "row", "commit devices"} => Readable(staged)
  /\ s.pc = "tables" => Readable(WithTables(staged, s.conf.disks[s.i]))
  /\ Hashes(file) \subseteq Hashes(staged)

LockInv ==
  /\ \A p \in Procs : lock = p <=> proc[p].pc \in Holding
  /\ lock # None => StagedOf(proc[lock])

FileInv ==
  /\ SchemaIsWhole
  /\ \A c \in ran : Readable(file) /\ RegisteredIn(c, file)

RowsInv == OwnHistory /\ \A r \in rows : r.serial \in Serials

IInv == TypeInv /\ ProcInv /\ LockInv /\ FileInv /\ RowsInv

-----------------------------------------------------------------------------
(* Configurations and records                                              *)

LEMMA AcceptedFacts ==
  ASSUME NEW c \in Configs, Accepted(c)
  PROVE  /\ c.disks \in Seq(DiskType) /\ DOMAIN c.disks = 1 .. Len(c.disks)
         /\ Len(c.disks) \in Nat /\ 1 \in DOMAIN c.disks
         /\ \A i \in DOMAIN c.disks : /\ c.disks[i] \in DiskType /\ c.disks[i].path \in Paths
                                      /\ c.disks[i].label \in STRING
<1>1. c.disks \in Seq(DiskType) /\ c.disks # <<>>
  BY StartupAssumption DEF Accepted, ValidDisks
<1>2. \A i \in DOMAIN c.disks : c.disks[i] \in DiskType /\ c.disks[i].path \in Paths
  BY <1>1 DEF Accepted, ValidDisks, ValidDisk
<1>3. \A i \in DOMAIN c.disks : c.disks[i].label \in STRING
  BY <1>2 DEF DiskType
<1> QED BY <1>1, <1>2, <1>3

(* What the start and the monitor ask of a configuration again, an         *)
(* accepted one has.                                                       *)
LEMMA AcceptedIsUsable ==
  ASSUME NEW c \in Configs, Accepted(c)
  PROVE  ValidRegistrations(c) /\ Converts(c)
<1>1. ValidRegistrations(c)
  BY DEF Accepted, ValidDisks, ValidRegistrations, HashId
<1>2. ASSUME NEW i \in DOMAIN c.disks
      PROVE  /\ c.disks[i].window * MsPerHour <= MaxI64
             /\ c.disks[i].window * MinutesPerHour \in 1 .. MaxU32
  <2>1. /\ c.disks[i].window # 0 /\ c.disks[i].window * MsPerHour <= MaxI64
        /\ c.disks[i].window * MinutesPerHour <= MaxU32
    BY <1>2 DEF Accepted, ValidDisks, ValidDisk
  <2>2. c.disks[i].window \in Nat
    BY <1>2, AcceptedFacts DEF DiskType
  <2>3. MinutesPerHour \in Nat \ {0} /\ MaxU32 \in Nat
    BY StartupAssumption
  <2>4. \A m, n \in Nat \ {0} : m * n \in Nat \ {0}
    OBVIOUS
  <2>5. c.disks[i].window * MinutesPerHour \in Nat \ {0}
    BY <2>1, <2>2, <2>3, <2>4
  <2> QED BY <2>1, <2>3, <2>5
<1>3. c.rank # 0
  BY DEF Accepted, ValidDelivery
<1> QED BY <1>1, <1>2, <1>3 DEF Converts

LEMMA ProcFacts ==
  ASSUME IInv, NEW p \in Procs
  PROVE  /\ proc[p] \in ProcType /\ ConfOf(proc[p]) /\ CheckedOf(proc[p]) /\ KnowsOf(proc[p])
         /\ proc[p].pc \in {"off", "verify"} \union Unvalidated \union Validated
         /\ proc[p].i \in Nat /\ proc[p].active \subseteq Paths /\ proc[p].said \in Reasons
         /\ proc[p].seen \in [Paths -> Numbers \union {None}]
         /\ proc[p].pc # "off" => proc[p].conf \in Configs /\ Accepted(proc[p].conf)
         /\ lock = p <=> proc[p].pc \in Holding
<1>1. proc[p] \in ProcType /\ ConfOf(proc[p]) /\ CheckedOf(proc[p]) /\ KnowsOf(proc[p])
  BY DEF IInv, TypeInv, ProcInv
<1>2. proc[p].conf \in Configs \union {None}
  BY <1>1 DEF ProcType
<1>3. proc[p].pc # "off" => proc[p].conf \in Configs /\ Accepted(proc[p].conf)
  BY <1>1, <1>2 DEF ConfOf
<1>4. lock = p <=> proc[p].pc \in Holding
  BY DEF IInv, LockInv
<1> QED BY <1>1, <1>3, <1>4 DEF ProcType

(* The disk a process is at.                                               *)
LEMMA DiskFacts ==
  ASSUME IInv, NEW p \in Procs, proc[p].pc # "off"
  PROVE  /\ Disk(p) \in DiskType /\ Disk(p).path \in Paths /\ Disk(p).label \in STRING
         /\ Disk(p) = proc[p].conf.disks[proc[p].i]
         /\ proc[p].pc # "verify" => Disk(p).serial \in Serials
<1>1. /\ proc[p].conf \in Configs /\ Accepted(proc[p].conf) /\ ConfOf(proc[p])
      /\ proc[p].i \in DOMAIN proc[p].conf.disks
  BY ProcFacts DEF ConfOf
<1>2. Disk(p) \in DiskType /\ Disk(p).path \in Paths /\ Disk(p).label \in STRING
  BY <1>1, AcceptedFacts DEF Disk
<1> QED BY <1>1, <1>2 DEF Disk, ConfOf

(* A change of the step alone.                                             *)
LEMMA MoveRecord ==
  ASSUME NEW s \in ProcType, NEW pc \in {"verify"} \union Unvalidated \union Validated
  PROVE  LET t == [s EXCEPT !.pc = pc]
         IN  /\ t \in ProcType /\ t.pc = pc /\ t.i = s.i /\ t.conf = s.conf
             /\ t.found = s.found /\ t.checked = s.checked /\ t.active = s.active /\ t.said = s.said
BY DEF ProcType

LEMMA Counters ==
  ASSUME IInv
  PROVE  /\ swaps \in Nat /\ 0 <= swaps /\ starts \in 0 .. MaxStarts
         /\ MaxStarts \in Nat /\ MaxSwaps \in Nat
BY StartupAssumption DEF IInv, TypeInv

LEMMA OffRecord ==
  ASSUME NEW why \in Reasons
  PROVE  LET t == [Off EXCEPT !.said = why]
         IN  /\ t \in ProcType /\ t.pc = "off" /\ t.conf = None /\ t.said = why
             /\ t.found = None /\ t.checked = 0
<1>1. 0 \in 0 .. MaxSwaps
  BY StartupAssumption
<1> QED BY <1>1 DEF Off, ProcType

-----------------------------------------------------------------------------
(* A step of one process, as far as processes go                           *)

LEMMA ProcStep ==
  ASSUME IInv, NEW p \in Procs, NEW s \in ProcType, proc' = [proc EXCEPT ![p] = s],
         UNCHANGED <<node, swaps, initial>>, ConfOf(s), CheckedOf(s), KnowsOf(s)',
         \/ UNCHANGED file
         \/ Ours /\ Readable(file)' /\ Hashes(file) \subseteq Hashes(file)'
  PROVE  ProcInv'
<1>1. proc'[p] = s /\ \A q \in Procs \ {p} : proc'[q] = proc[q]
  BY DEF IInv, TypeInv
<1>2. CheckedOf(s)'
  BY DEF CheckedOf, With
<1>3. ConfOf(proc[p])' /\ CheckedOf(proc[p])' /\ KnowsOf(proc[p])'
  BY <1>1, <1>2 DEF ConfOf, CheckedOf, KnowsOf
<1>4. ASSUME NEW q \in Procs \ {p}
      PROVE  ConfOf(proc[q])' /\ CheckedOf(proc[q])' /\ KnowsOf(proc[q])'
  <2>1. proc'[q] = proc[q] /\ ConfOf(proc[q]) /\ CheckedOf(proc[q]) /\ KnowsOf(proc[q])
    BY <1>1, ProcFacts
  <2>2. ConfOf(proc[q])' /\ CheckedOf(proc[q])'
    BY <2>1 DEF ConfOf, CheckedOf, With
  <2>3. KnowsOf(proc[q])'
    <3>1. CASE UNCHANGED file
      BY <2>1, <3>1 DEF KnowsOf, Ours
    <3>2. CASE Ours /\ Readable(file)' /\ Hashes(file) \subseteq Hashes(file)'
      <4>1. Ours' /\ file'.version = 1
        BY <3>2 DEF Ours, Readable
      <4>2. RegisteredIn(proc[q].conf, file) => RegisteredIn(proc[q].conf, file)'
        BY <2>1, <3>2 DEF RegisteredIn
      <4> QED BY <2>1, <3>2, <4>1, <4>2 DEF KnowsOf
    <3> QED BY <3>1, <3>2
  <2> QED BY <2>2, <2>3
<1> QED BY <1>3, <1>4 DEF ProcInv

(* Outside a transaction.                                                  *)
LEMMA OutsideStep ==
  ASSUME IInv, NEW p \in Procs, NEW s \in ProcType, proc' = [proc EXCEPT ![p] = s],
         proc[p].pc \notin Holding, s.pc \notin Holding,
         UNCHANGED <<file, lock, staged, node, swaps, initial>>, starts' \in 0 .. MaxStarts,
         ConfOf(s), CheckedOf(s), KnowsOf(s),
         ran' = ran \/ (s.pc \in Running /\ s.conf \in Configs /\ ran' = ran \union {s.conf})
  PROVE  TypeInv' /\ ProcInv' /\ LockInv' /\ FileInv'
<1>1. proc'[p] = s /\ \A q \in Procs \ {p} : proc'[q] = proc[q]
  BY DEF IInv, TypeInv
<1>2. TypeInv'
  BY DEF IInv, TypeInv, NodeInv, OneDiskPerNumber
<1>3. ProcInv'
  <2>1. KnowsOf(s)'
    BY DEF KnowsOf, Ours
  <2> QED BY <2>1, ProcStep
<1>4. LockInv'
  <2>1. lock # p /\ lock \in Procs \union {None}
    BY ProcFacts DEF IInv, TypeInv
  <2>2. \A q \in Procs : lock' = q <=> proc'[q].pc \in Holding
    BY <1>1, <2>1 DEF IInv, LockInv
  <2>3. ASSUME lock # None PROVE StagedOf(proc[lock])'
    <3>1. proc'[lock] = proc[lock] /\ StagedOf(proc[lock])
      BY <1>1, <2>1, <2>3 DEF IInv, LockInv
    <3> QED BY <3>1 DEF StagedOf
  <2> QED BY <2>2, <2>3 DEF LockInv
<1>5. FileInv'
  <2>1. SchemaIsWhole'
    BY DEF IInv, FileInv, SchemaIsWhole, Ours
  <2>2. s.pc \in Running => Readable(file) /\ RegisteredIn(s.conf, file)
    BY DEF KnowsOf, Validated
  <2>3. \A c \in ran' : Readable(file) /\ RegisteredIn(c, file)
    BY <2>2 DEF IInv, FileInv
  <2> QED BY <2>1, <2>3 DEF FileInv
<1> QED BY <1>2, <1>3, <1>4, <1>5

LEMMA RowsStay ==
  ASSUME IInv, UNCHANGED rows
  PROVE  RowsInv'
BY DEF IInv, RowsInv, OwnHistory

-----------------------------------------------------------------------------
(* Transactions                                                            *)

LEMMA FreshFile == Fresh \in FileType /\ Fresh.globals = {} /\ Fresh.version = 0
BY DEF Fresh, FileType

(* The process is inside its transaction: what it writes is not in the     *)
(* file yet.                                                               *)
LEMMA InsideStep ==
  ASSUME IInv, NEW p \in Procs, NEW s \in ProcType, proc' = [proc EXCEPT ![p] = s],
         lock \in {None, p}, lock' = p, s.pc \in Holding, staged' \in FileType,
         UNCHANGED <<file, node, starts, swaps, initial, ran, rows>>,
         ConfOf(s), CheckedOf(s), KnowsOf(s), StagedOf(s)'
  PROVE  IInv'
<1>1. proc'[p] = s /\ \A q \in Procs \ {p} : proc'[q] = proc[q]
  BY DEF IInv, TypeInv
<1>2. TypeInv'
  BY DEF IInv, TypeInv, NodeInv, OneDiskPerNumber
<1>3. ProcInv'
  <2>1. KnowsOf(s)'
    BY DEF KnowsOf, Ours
  <2> QED BY <2>1, ProcStep
<1>4. LockInv'
  <2>1. \A q \in Procs \ {p} : lock # q
    BY StartupAssumption
  <2>2. \A q \in Procs : lock' = q <=> proc'[q].pc \in Holding
    BY <1>1, <2>1 DEF IInv, LockInv
  <2>3. StagedOf(proc[lock])'
    BY <1>1 DEF StagedOf
  <2> QED BY <2>2, <2>3 DEF LockInv
<1>5. FileInv'
  BY DEF IInv, FileInv, SchemaIsWhole, Ours
<1>6. RowsInv'
  BY RowsStay
<1> QED BY <1>2, <1>3, <1>4, <1>5, <1>6 DEF IInv

(* The transaction is over; it was committed, or the file is as it was.    *)
LEMMA OverStep ==
  ASSUME IInv, NEW p \in Procs, NEW s \in ProcType, proc' = [proc EXCEPT ![p] = s],
         lock = p, lock' = None, staged' = Fresh, s.pc \notin Holding,
         UNCHANGED <<node, starts, swaps, initial, ran, rows>>,
         \/ UNCHANGED file
         \/ file' = staged /\ proc[p].pc \in {"commit schema", "commit devices"},
         ConfOf(s), CheckedOf(s), KnowsOf(s)'
  PROVE  IInv'
<1>1. proc'[p] = s /\ \A q \in Procs \ {p} : proc'[q] = proc[q]
  BY DEF IInv, TypeInv
<1>2. ASSUME file' = staged /\ proc[p].pc \in {"commit schema", "commit devices"}
      PROVE  Ours /\ Readable(file)' /\ Hashes(file) \subseteq Hashes(file)'
  <2>1. StagedOf(proc[p]) /\ KnowsOf(proc[p])
    BY StartupAssumption, ProcFacts DEF IInv, LockInv
  <2>2. Readable(staged) /\ Hashes(file) \subseteq Hashes(staged)
    BY <1>2, <2>1 DEF StagedOf
  <2>3. Ours
    <3>1. CASE proc[p].pc = "commit schema"
      BY <2>1, <3>1 DEF KnowsOf, OfSchema
    <3>2. CASE proc[p].pc = "commit devices"
      <4>1. Readable(file)
        BY <2>1, <3>2 DEF KnowsOf, Validated, OfDevices
      <4> QED BY <4>1 DEF IInv, FileInv, SchemaIsWhole, Ours
    <3> QED BY <1>2, <3>1, <3>2
  <2> QED BY <1>2, <2>2, <2>3
<1>3. \/ UNCHANGED file
      \/ Ours /\ Readable(file)' /\ Hashes(file) \subseteq Hashes(file)'
  BY <1>2
<1>4. TypeInv'
  BY FreshFile DEF IInv, TypeInv, NodeInv, OneDiskPerNumber
<1>5. ProcInv'
  BY <1>3, ProcStep
<1>6. LockInv'
  <2>1. \A q \in Procs \ {p} : proc[q].pc \notin Holding
    BY DEF IInv, LockInv
  <2> QED BY <1>1, <2>1, StartupAssumption DEF LockInv
<1>7. FileInv'
  <2>1. SchemaIsWhole'
    BY <1>3 DEF IInv, FileInv, SchemaIsWhole, Ours
  <2>2. \A c \in ran : Readable(file)' /\ RegisteredIn(c, file)'
    BY <1>3 DEF IInv, FileInv, RegisteredIn
  <2> QED BY <2>1, <2>2 DEF FileInv
<1>8. RowsInv'
  BY RowsStay
<1> QED BY <1>4, <1>5, <1>6, <1>7, <1>8 DEF IInv

(* The process ends, wherever it is.                                       *)
LEMMA EndsStep ==
  ASSUME IInv, NEW p \in Procs, NEW why \in Reasons, Ends(p, why),
         UNCHANGED <<node, starts, swaps, initial, ran, rows>>,
         \/ UNCHANGED file
         \/ file' = staged /\ proc[p].pc \in {"commit schema", "commit devices"}
  PROVE  IInv'
<1> DEFINE s == [Off EXCEPT !.said = why]
<1>1. /\ s \in ProcType /\ s.pc = "off" /\ s.conf = None
      /\ s.found = None /\ s.checked = 0
  BY OffRecord
<1>2. proc' = [proc EXCEPT ![p] = s]
  BY DEF Ends
<1> HIDE DEF s
<1>3. 0 <= swaps /\ starts' \in 0 .. MaxStarts
  BY Counters
<1>4. s.pc \notin Holding \union Running \union Validated \union OfSchema
  BY <1>1 DEF Holding, OfSchema, OfDevices, Running, Validated
<1>5. ConfOf(s) /\ CheckedOf(s) /\ KnowsOf(s) /\ KnowsOf(s)'
  <2>1. ConfOf(s)
    BY <1>1 DEF ConfOf
  <2>2. CheckedOf(s)
    BY <1>1 DEF CheckedOf
  <2>3. KnowsOf(s) /\ KnowsOf(s)'
    BY <1>1, <1>4 DEF KnowsOf
  <2> QED BY <2>1, <2>2, <2>3
<1>6. CASE lock = p
  <2>1. lock' = None /\ staged' = Fresh
    BY <1>6 DEF Ends
  <2> QED BY <1>1, <1>2, <1>3, <1>4, <1>5, <1>6, <2>1, OverStep
<1>7. CASE lock # p
  <2>1. UNCHANGED <<lock, staged>> /\ proc[p].pc \notin Holding
    BY <1>7, ProcFacts DEF Ends
  <2>2. UNCHANGED file
    BY <2>1 DEF Holding, OfSchema, OfDevices
  <2>3. TypeInv' /\ ProcInv' /\ LockInv' /\ FileInv'
    BY <1>1, <1>2, <1>3, <1>4, <1>5, <2>1, <2>2, OutsideStep
  <2> QED BY <2>3, RowsStay DEF IInv
<1> QED BY <1>6, <1>7

(* The process goes on to its next step, outside a transaction.            *)
LEMMA MoveStep ==
  ASSUME IInv, NEW p \in Procs, NEW pc \in Unvalidated \union Validated, Move(p, pc),
         proc[p].pc \notin {"off", "verify"} \union Holding, pc \notin Holding \union {"read"},
         UNCHANGED <<file, lock, staged, node, starts, swaps, initial>>,
         ran' = ran \/ (pc \in Running /\ ran' = ran \union {proc[p].conf}),
         pc = "names" => file.version = 0, pc = "begin schema" => Ours,
         pc = "validate" => file.version = 1, pc \in Validated => Readable(file),
         pc \in Running => RegisteredIn(proc[p].conf, file)
  PROVE  /\ TypeInv' /\ ProcInv' /\ LockInv' /\ FileInv'
         /\ UNCHANGED rows => IInv'
<1> DEFINE s == [proc[p] EXCEPT !.pc = pc]
<1>1. /\ proc[p] \in ProcType /\ proc[p].i \in Nat /\ ConfOf(proc[p]) /\ CheckedOf(proc[p])
      /\ proc[p].conf \in Configs /\ proc \in [Procs -> ProcType]
  BY ProcFacts DEF IInv, TypeInv
<1>2. /\ s \in ProcType /\ s.pc = pc /\ s.i = proc[p].i /\ s.conf = proc[p].conf
  <2>1. pc \in {"verify"} \union Unvalidated \union Validated
    OBVIOUS
  <2> QED BY <1>1, <2>1, MoveRecord
<1>3. proc' = [proc EXCEPT ![p] = s]
  BY <1>1 DEF Move, ProcType
<1> HIDE DEF s
<1>4. pc \notin {"off", "verify"}
  BY DEF Unvalidated, Validated, OfSchema, OfDevices, Running
<1>5. ConfOf(s) /\ CheckedOf(s)
  BY <1>1, <1>2, <1>4 DEF ConfOf, CheckedOf
<1>6. pc \notin OfSchema
  BY DEF Holding
<1>7. KnowsOf(s)
  BY <1>2, <1>6 DEF KnowsOf
<1>8. /\ UNCHANGED <<node, swaps, initial>> /\ starts' \in 0 .. MaxStarts
      /\ ran' = ran \/ (s.pc \in Running /\ s.conf \in Configs /\ ran' = ran \union {s.conf})
  BY <1>1, <1>2 DEF IInv, TypeInv
<1>9. TypeInv' /\ ProcInv' /\ LockInv' /\ FileInv'
  BY <1>2, <1>3, <1>5, <1>7, <1>8, OutsideStep
<1> QED BY <1>9, RowsStay DEF IInv

-----------------------------------------------------------------------------
(* The steps of a start                                                    *)

LEMMA StartStep ==
  ASSUME IInv, NEW p \in Procs, NEW c \in Configs, Start(p, c)
  PROVE  IInv'
<1>1. /\ proc[p].pc = "off" /\ starts < MaxStarts /\ starts' = starts + 1
      /\ UNCHANGED <<file, lock, staged, node, swaps, initial, ran, rows>>
  BY DEF Start, At
<1>2. /\ starts' \in 0 .. MaxStarts /\ proc[p].pc \notin Holding /\ 0 <= swaps
  BY <1>1, Counters DEF Holding, OfSchema, OfDevices
<1>3. CASE Accepted(c)
  <2> DEFINE s == [Off EXCEPT !.pc = "verify", !.conf = c,
                              !.active = {c.disks[i].path : i \in DOMAIN c.disks}]
  <2>1. proc' = [proc EXCEPT ![p] = s]
    BY <1>3 DEF Start
  <2>2. {c.disks[i].path : i \in DOMAIN c.disks} \subseteq Paths
    BY <1>3, AcceptedFacts
  <2>3. /\ s \in ProcType /\ s.pc = "verify" /\ s.conf = c /\ s.i = 1
        /\ s.found = None /\ s.checked = 0
    <3>1. 0 \in 0 .. MaxSwaps
      BY StartupAssumption
    <3> QED BY <2>2, <3>1 DEF Off, ProcType, Reasons
  <2> HIDE DEF s
  <2>4. s.pc \notin Holding \union Running \union Validated \union OfSchema
    BY <2>3 DEF Holding, OfSchema, OfDevices, Running, Validated
  <2>5. ConfOf(s)
    BY <1>3, <2>3, AcceptedFacts, StartupAssumption DEF ConfOf
  <2>6. CheckedOf(s) /\ KnowsOf(s)
    BY <1>2, <2>3, <2>4 DEF CheckedOf, KnowsOf
  <2>7. TypeInv' /\ ProcInv' /\ LockInv' /\ FileInv'
    BY <1>1, <1>2, <2>1, <2>3, <2>4, <2>5, <2>6, OutsideStep
  <2> QED BY <1>1, <2>7, RowsStay DEF IInv
<1>4. CASE ~Accepted(c)
  <2> DEFINE s == [Off EXCEPT !.said = "error"]
  <2>1. proc' = [proc EXCEPT ![p] = s]
    BY <1>4 DEF Start
  <2>2. /\ s \in ProcType /\ s.pc = "off" /\ s.conf = None /\ s.found = None /\ s.checked = 0
    <3>1. "error" \in Reasons
      BY DEF Reasons
    <3> QED BY <3>1, OffRecord
  <2> HIDE DEF s
  <2>3. s.pc \notin Holding \union Running \union Validated \union OfSchema
    BY <2>2 DEF Holding, OfSchema, OfDevices, Running, Validated
  <2>4. ConfOf(s) /\ CheckedOf(s) /\ KnowsOf(s)
    BY <1>2, <2>2, <2>3 DEF ConfOf, CheckedOf, KnowsOf
  <2>5. TypeInv' /\ ProcInv' /\ LockInv' /\ FileInv'
    BY <1>1, <1>2, <2>1, <2>2, <2>3, <2>4, OutsideStep
  <2> QED BY <1>1, <2>5, RowsStay DEF IInv
<1> QED BY <1>3, <1>4

(* One more disk is verified.                                              *)
LEMMA VerifiedStep ==
  ASSUME IInv, NEW p \in Procs, proc[p].pc = "verify", Resolves(Disk(p).path),
         SerialMatches(Disk(p)), NEW s \in ProcType, proc' = [proc EXCEPT ![p] = s],
         s.conf = proc[p].conf,
         IF IsLast(p) THEN s.pc = "open" /\ s.i = proc[p].i
         ELSE s.pc = "verify" /\ s.i = proc[p].i + 1,
         UNCHANGED <<lock, staged, file, node, starts, swaps, initial, ran, rows>>
  PROVE  IInv'
<1>1. /\ proc[p] \in ProcType /\ ConfOf(proc[p]) /\ CheckedOf(proc[p])
      /\ proc[p].conf \in Configs /\ Accepted(proc[p].conf)
  BY ProcFacts
<1>2. /\ Disk(p).path \in Paths /\ Disk(p) = proc[p].conf.disks[proc[p].i]
  BY DiskFacts
<1>3. /\ DOMAIN s.conf.disks = 1 .. Len(s.conf.disks) /\ Len(s.conf.disks) \in Nat
      /\ proc[p].i \in DOMAIN s.conf.disks /\ (IsLast(p) <=> proc[p].i = Len(s.conf.disks))
  BY <1>1, AcceptedFacts DEF ConfOf, IsLast
<1>4. s.conf.disks[proc[p].i].serial \in Serials
  <2>1. node[Disk(p).path].is \in Serials \union Refused
    BY <1>2 DEF IInv, TypeInv, NodeType
  <2> QED BY <1>2, <2>1 DEF Resolves, SerialMatches
<1>5. \A i \in 1 .. (proc[p].i - 1) : s.conf.disks[i].serial \in Serials
  BY <1>1 DEF ConfOf
<1>6. \A i \in 1 .. proc[p].i : s.conf.disks[i].serial \in Serials
  BY <1>3, <1>4, <1>5
<1>7. ConfOf(s)
  <2>1. s.conf # None /\ s.pc # "off" /\ Accepted(s.conf)
    BY <1>1, StartupAssumption
  <2>2. CASE IsLast(p)
    <3>1. \A i \in DOMAIN s.conf.disks : s.conf.disks[i].serial \in Serials
      BY <1>3, <1>6, <2>2
    <3> QED BY <1>3, <2>1, <2>2, <3>1 DEF ConfOf
  <2>3. CASE ~IsLast(p)
    <3>1. s.i \in DOMAIN s.conf.disks /\ s.i - 1 = proc[p].i
      <4>1. \A m \in Nat : \A i \in 1 .. m : i # m => i + 1 \in 1 .. m /\ (i + 1) - 1 = i
        OBVIOUS
      <4>2. s.i = proc[p].i + 1 /\ proc[p].i # Len(s.conf.disks)
        BY <1>3, <2>3
      <4> QED BY <1>3, <4>1, <4>2
    <3>2. \A i \in 1 .. (s.i - 1) : s.conf.disks[i].serial \in Serials
      BY <1>6, <3>1
    <3> QED BY <2>1, <2>3, <3>1, <3>2 DEF ConfOf
  <2> QED BY <2>2, <2>3
<1>8. CheckedOf(s)
  BY DEF CheckedOf
<1>9. s.pc \notin Holding \union Running \union Validated \union OfSchema
      /\ proc[p].pc \notin Holding
  BY DEF Holding, OfSchema, OfDevices, Running, Validated
<1>10. KnowsOf(s)
  BY <1>9 DEF KnowsOf
<1>11. TypeInv' /\ ProcInv' /\ LockInv' /\ FileInv'
  BY <1>7, <1>8, <1>9, <1>10, Counters, OutsideStep
<1> QED BY <1>11, RowsStay DEF IInv

LEMMA VerifyStep ==
  ASSUME IInv, NEW p \in Procs, Verify(p)
  PROVE  IInv'
<1>1. proc[p].pc = "verify" /\ UNCHANGED <<file, node, starts, swaps, initial, ran, rows>>
  BY DEF Verify, At, quiet
<1>2. CASE Ends(p, "error")
  BY <1>1, <1>2, EndsStep DEF Reasons
<1>3. ASSUME Resolves(Disk(p).path), SerialMatches(Disk(p)), UNCHANGED <<lock, staged>>,
             LET noted == [proc[p] EXCEPT !.seen[Disk(p).path] = node[Disk(p).path].number]
             IN  proc' = [proc EXCEPT ![p] = IF IsLast(p) THEN [noted EXCEPT !.pc = "open"]
                                             ELSE [noted EXCEPT !.i = @ + 1]]
      PROVE  IInv'
  <2> DEFINE noted == [proc[p] EXCEPT !.seen[Disk(p).path] = node[Disk(p).path].number]
             s == IF IsLast(p) THEN [noted EXCEPT !.pc = "open"] ELSE [noted EXCEPT !.i = @ + 1]
  <2>1. proc[p] \in ProcType /\ Disk(p).path \in Paths
    BY <1>1, ProcFacts, DiskFacts
  <2>2. node[Disk(p).path].number \in Numbers \union {None}
    BY <2>1 DEF IInv, TypeInv, NodeType
  <2>3. /\ noted \in ProcType /\ noted.conf = proc[p].conf /\ noted.i = proc[p].i
        /\ noted.pc = "verify"
    BY <1>1, <2>1, <2>2 DEF ProcType
  <2> HIDE DEF noted
  <2>4. LET opens == [noted EXCEPT !.pc = "open"]
        IN  /\ opens \in ProcType /\ opens.pc = "open" /\ opens.i = noted.i
            /\ opens.conf = noted.conf
    BY <2>3, MoveRecord DEF Unvalidated
  <2>5. LET follows == [noted EXCEPT !.i = noted.i + 1]
        IN  /\ follows \in ProcType /\ follows.pc = "verify" /\ follows.i = proc[p].i + 1
            /\ follows.conf = noted.conf
    <3>1. noted.i + 1 \in Nat
      BY <2>3 DEF ProcType
    <3> QED BY <2>3, <3>1 DEF ProcType
  <2>6. proc' = [proc EXCEPT ![p] = s]
    BY <1>3 DEF noted
  <2>7. /\ s \in ProcType /\ s.conf = proc[p].conf
        /\ IF IsLast(p) THEN s.pc = "open" /\ s.i = proc[p].i
           ELSE s.pc = "verify" /\ s.i = proc[p].i + 1
    <3>1. CASE IsLast(p)
      BY <2>3, <2>4, <3>1
    <3>2. CASE ~IsLast(p)
      BY <2>3, <2>5, <3>2
    <3> QED BY <3>1, <3>2
  <2> HIDE DEF s
  <2> QED BY <1>1, <1>3, <2>6, <2>7, VerifiedStep
<1> QED BY <1>2, <1>3 DEF Verify

LEMMA OpenStep ==
  ASSUME IInv, NEW p \in Procs, Open(p)
  PROVE  IInv'
<1>1. /\ proc[p].pc = "open" /\ Move(p, "version")
      /\ UNCHANGED <<file, lock, staged, node, starts, swaps, initial, ran, rows>>
  BY DEF Open, At, quiet
<1>2. /\ "version" \in Unvalidated \union Validated
      /\ "version" \notin Holding \union {"read"} \union Validated \union Running
      /\ "open" \notin {"off", "verify"} \union Holding
  BY DEF Unvalidated, Validated, Holding, OfSchema, OfDevices, Running
<1> QED BY <1>1, <1>2, MoveStep

LEMMA ReadVersionStep ==
  ASSUME IInv, NEW p \in Procs, ReadVersion(p)
  PROVE  IInv'
<1>1. /\ proc[p].pc = "version"
      /\ UNCHANGED <<file, node, starts, swaps, initial, ran, rows>>
  BY DEF ReadVersion, At, quiet
<1>2. /\ {"names", "validate"} \subseteq Unvalidated
      /\ \A pc \in {"names", "validate"} :
           pc \notin Holding \union {"read"} \union Validated \union Running
      /\ "version" \notin {"off", "verify"} \union Holding
  BY DEF Unvalidated, Validated, Holding, OfSchema, OfDevices, Running
<1>3. CASE file.version = 0
  <2>1. Move(p, "names") /\ UNCHANGED <<lock, staged>>
    BY <1>3 DEF ReadVersion
  <2> QED BY <1>1, <1>2, <1>3, <2>1, MoveStep
<1>4. CASE file.version = 1
  <2>1. Move(p, "validate") /\ UNCHANGED <<lock, staged>>
    BY <1>4 DEF ReadVersion
  <2> QED BY <1>1, <1>2, <1>4, <2>1, MoveStep
<1>5. CASE file.version # 0 /\ file.version # 1
  <2>1. Ends(p, "error")
    BY <1>5 DEF ReadVersion
  <2> QED BY <1>1, <2>1, EndsStep DEF Reasons
<1> QED BY <1>3, <1>4, <1>5

LEMMA ReadNamesStep ==
  ASSUME IInv, NEW p \in Procs, ReadNames(p)
  PROVE  IInv'
<1>1. /\ proc[p].pc = "names"
      /\ UNCHANGED <<file, node, starts, swaps, initial, ran, rows>>
  BY DEF ReadNames, At, quiet
<1>2. /\ "begin schema" \in Unvalidated
      /\ "begin schema" \notin Holding \union {"read"} \union Validated \union Running
      /\ "names" \notin {"off", "verify"} \union Holding
  BY DEF Unvalidated, Validated, Holding, OfSchema, OfDevices, Running
<1>3. CASE TablesOf(file) = NoTables
  <2>1. Move(p, "begin schema") /\ UNCHANGED <<lock, staged>>
    BY <1>3 DEF ReadNames
  <2>2. Ours
    <3>1. Ours \/ file.version = 0
      BY <1>1, ProcFacts DEF KnowsOf
    <3>2. ~Ours => file = initial /\ initial \in Files
      BY DEF IInv, TypeInv, FileInv, SchemaIsWhole
    <3> QED BY <1>3, <3>1, <3>2, FilesAssumption DEF Ours
  <2> QED BY <1>1, <1>2, <2>1, <2>2, MoveStep
<1>4. CASE TablesOf(file) # NoTables
  <2>1. Ends(p, "error")
    BY <1>4 DEF ReadNames
  <2> QED BY <1>1, <2>1, EndsStep DEF Reasons
<1> QED BY <1>3, <1>4

-----------------------------------------------------------------------------
(* The transactions of a start                                             *)

(* What a process becomes.                                                 *)
LEMMA Moved ==
  ASSUME IInv, NEW p \in Procs, NEW pc \in {"verify"} \union Unvalidated \union Validated,
         Move(p, pc)
  PROVE  \E s \in ProcType :
           /\ proc' = [proc EXCEPT ![p] = s] /\ s.pc = pc /\ s.i = proc[p].i
           /\ s.conf = proc[p].conf
<1> DEFINE s == [proc[p] EXCEPT !.pc = pc]
<1>1. proc[p] \in ProcType /\ proc \in [Procs -> ProcType]
  BY DEF IInv, TypeInv
<1>2. s \in ProcType /\ s.pc = pc /\ s.i = proc[p].i /\ s.conf = proc[p].conf
  BY <1>1 DEF ProcType
<1>3. proc' = [proc EXCEPT ![p] = s]
  BY <1>1 DEF Move
<1> HIDE DEF s
<1> QED BY <1>2, <1>3

(* The facts a step inside a transaction keeps about its process.          *)
LEMMA GoesOnInside ==
  ASSUME IInv, NEW p \in Procs, proc[p].pc \notin {"off", "verify"}, NEW s \in ProcType,
         s.conf = proc[p].conf, s.i \in DOMAIN s.conf.disks,
         s.pc \in Unvalidated \union Validated, s.pc # "read"
  PROVE  ConfOf(s) /\ CheckedOf(s)
<1>1. /\ ConfOf(proc[p]) /\ CheckedOf(proc[p]) /\ proc[p].conf \in Configs
      /\ Accepted(proc[p].conf)
  BY ProcFacts
<1>2. s.pc \notin {"off", "verify"}
  BY DEF Unvalidated, Validated, OfSchema, OfDevices, Running
<1> QED BY <1>1, <1>2, StartupAssumption DEF ConfOf, CheckedOf

(* BEGIN IMMEDIATE.                                                        *)
LEMMA BeginStep ==
  ASSUME IInv, NEW p \in Procs, NEW here, NEW next, Begin(p, here, next),
         \/ here = "begin schema" /\ next = "create"
         \/ here = "begin devices" /\ next = "row"
  PROVE  IInv'
<1>1. /\ proc[p].pc = here /\ lock = None /\ lock' = p /\ staged' = file
      /\ proc' = [proc EXCEPT ![p].pc = next, ![p].i = 1]
      /\ UNCHANGED <<file, node, starts, swaps, initial, ran, rows>>
  BY DEF Begin, At, First, quiet
<1>2. next \in {"verify"} \union Unvalidated \union Validated /\ next \in Holding
      /\ next \in Unvalidated \union Validated
  BY DEF Unvalidated, Validated, Holding, OfSchema, OfDevices
<1>3. /\ proc[p] \in ProcType /\ KnowsOf(proc[p]) /\ proc[p].conf \in Configs
      /\ Accepted(proc[p].conf)
  BY <1>1, ProcFacts
<1>4. PICK s \in ProcType :
        /\ proc' = [proc EXCEPT ![p] = s] /\ s.pc = next /\ s.i = 1
        /\ s.conf = proc[p].conf
  <2> DEFINE t == [proc[p] EXCEPT !.pc = next, !.i = 1]
  <2>1. proc \in [Procs -> ProcType]
    BY DEF IInv, TypeInv
  <2>2. t \in ProcType /\ t.pc = next /\ t.i = 1 /\ t.conf = proc[p].conf
    BY <1>2, <1>3 DEF ProcType
  <2>3. proc' = [proc EXCEPT ![p] = t]
    BY <1>1, <2>1
  <2> HIDE DEF t
  <2> QED BY <2>2, <2>3
<1>6. ConfOf(s) /\ CheckedOf(s)
  BY <1>1, <1>2, <1>3, <1>4, AcceptedFacts, GoesOnInside
<1>7. KnowsOf(s) /\ (here = "begin devices" => Readable(file))
  <2>1. "begin devices" \in Validated /\ "create" \notin Validated \union Running
        /\ "row" \notin Running \union OfSchema
    BY DEF Validated, OfDevices, OfSchema, Running
  <2> QED BY <1>1, <1>3, <1>4, <2>1 DEF KnowsOf
<1>8. StagedOf(s)'
  <2>1. /\ Readable(file) => Readable(staged)'
        /\ Hashes(file)' \subseteq Hashes(staged)'
    BY <1>1 DEF Readable, ValidLayout, ReservedWorkload, Mapped, Hashes
  <2> QED BY <1>1, <1>4, <1>7, <2>1 DEF StagedOf
<1>9. file \in FileType
  BY DEF IInv, TypeInv
<1> QED BY <1>1, <1>2, <1>4, <1>6, <1>7, <1>8, <1>9, InsideStep

(* What the lock holder has staged.                                        *)
LEMMA HolderFacts ==
  ASSUME IInv, NEW p \in Procs, proc[p].pc \in Holding
  PROVE  /\ lock = p /\ p # None /\ StagedOf(proc[p]) /\ staged \in FileType /\ file \in FileType
         /\ proc[p].pc \notin {"off", "verify", "read"}
<1>1. lock = p /\ p # None
  BY ProcFacts, StartupAssumption
<1>2. StagedOf(proc[p]) /\ staged \in FileType /\ file \in FileType
  BY <1>1 DEF IInv, LockInv, TypeInv
<1>3. proc[p].pc \notin {"off", "verify", "read"}
  BY DEF Holding, OfSchema, OfDevices
<1> QED BY <1>1, <1>2, <1>3

LEMMA NewSchema ==
  /\ WithGlobals(Fresh) \in FileType /\ Readable(WithGlobals(Fresh))
  /\ Hashes(Fresh) = {}
<1>1. /\ WithGlobals(Fresh) \in FileType /\ WithGlobals(Fresh).version = 1
      /\ WithGlobals(Fresh).canonical = TRUE /\ WithGlobals(Fresh).globals = GlobalTables
      /\ WithGlobals(Fresh).reserved = TRUE /\ WithGlobals(Fresh).devs = {}
      /\ WithGlobals(Fresh).data = {} /\ WithGlobals(Fresh).history = {}
  BY DEF WithGlobals, Fresh, FileType
<1>2. Fresh.devs = {}
  BY DEF Fresh
<1> QED BY <1>1, <1>2 DEF Readable, ValidLayout, ReservedWorkload, Mapped, Hashes

LEMMA CreateGlobalsStep ==
  ASSUME IInv, NEW p \in Procs, CreateGlobals(p)
  PROVE  IInv'
<1>1. /\ proc[p].pc = "create" /\ proc[p].pc \in Holding
      /\ UNCHANGED <<node, starts, swaps, initial, ran, rows>>
  BY DEF CreateGlobals, At, quiet, Holding, OfSchema
<1>2. CASE staged.globals = {}
  <2>1. /\ lock = p /\ StagedOf(proc[p]) /\ KnowsOf(proc[p]) /\ ConfOf(proc[p])
        /\ proc[p] \in ProcType
    BY <1>1, HolderFacts, ProcFacts
  <2>2. staged = file /\ Ours
    BY <1>1, <2>1 DEF StagedOf, KnowsOf, OfSchema
  <2>3. file = Fresh
    <3>1. ~Readable(file)
      BY <1>2, <2>2 DEF Readable, ValidLayout, GlobalTables
    <3> QED BY <2>2, <3>1 DEF IInv, FileInv, SchemaIsWhole
  <2>4. staged' = WithGlobals(Fresh) /\ Move(p, "commit schema") /\ UNCHANGED <<file, lock>>
    BY <1>2, <2>2, <2>3 DEF CreateGlobals, Write
  <2>5. /\ "commit schema" \in {"verify"} \union Unvalidated \union Validated
        /\ "commit schema" \in Unvalidated /\ "commit schema" \in Holding
        /\ "commit schema" \notin Validated \union Running
    BY DEF Unvalidated, Validated, Holding, OfSchema, OfDevices, Running
  <2>6. PICK s \in ProcType :
          /\ proc' = [proc EXCEPT ![p] = s] /\ s.pc = "commit schema" /\ s.i = proc[p].i
          /\ s.conf = proc[p].conf
    BY <2>4, <2>5, Moved
  <2>8. ConfOf(s) /\ CheckedOf(s)
    BY <1>1, <2>1, <2>5, <2>6, GoesOnInside DEF ConfOf
  <2>9. KnowsOf(s)
    BY <2>2, <2>5, <2>6 DEF KnowsOf
  <2>10. StagedOf(s)' /\ staged' \in FileType
    <3>1. staged' \in FileType /\ Readable(staged)'
      BY <2>4, NewSchema DEF Readable, ValidLayout, ReservedWorkload, Mapped
    <3>2. Hashes(file)' \subseteq Hashes(staged)'
      BY <2>3, <2>4, NewSchema DEF Hashes
    <3> QED BY <2>6, <3>1, <3>2 DEF StagedOf
  <2>11. /\ lock \in {None, p} /\ lock' = p
         /\ UNCHANGED <<file, node, starts, swaps, initial, ran, rows>>
    BY <1>1, <2>1, <2>4
  <2> QED BY <2>5, <2>6, <2>8, <2>9, <2>10, <2>11, InsideStep
<1>3. CASE staged.globals # {}
  <2>1. Ends(p, "error") /\ UNCHANGED file
    BY <1>3 DEF CreateGlobals
  <2> QED BY <1>1, <2>1, EndsStep DEF Reasons
<1> QED BY <1>2, <1>3

(* A row and the tables of a device keep what was registered.              *)
LEMMA RegistrationFacts ==
  ASSUME NEW f \in FileType, NEW d \in DiskType, d.serial \in Serials, d.path \in Paths
  PROVE  /\ WithRow(f, d) \in FileType /\ WithTables(f, d) \in FileType
         /\ Hashes(WithRow(f, d)) = Hashes(f) \union {HashId(d)}
         /\ Hashes(WithTables(f, d)) = Hashes(f)
         /\ Readable(f) => Readable(WithTables(WithRow(f, d), d))
<1> DEFINE row == [hash |-> HashId(d), label |-> d.label, serial |-> d.serial, path |-> d.path]
           devs == (f.devs \ Registered(f, d)) \union {row}
           wr == WithRow(f, d)
<1>1. /\ row \in RowType /\ row.hash = HashId(d) /\ HashId(row) = HashId(d)
      /\ HashId(d) \in Serials \X Paths
  BY DEF RowType, HashId, DiskType
<1> HIDE DEF row
<1>2. f.devs \subseteq RowType /\ f.devs \ Registered(f, d) \subseteq f.devs
  BY DEF FileType
<1>3. devs \subseteq RowType
  BY <1>1, <1>2
<1>4. wr = [f EXCEPT !.devs = devs]
  BY DEF WithRow, row
<1>5. {r.hash : r \in devs} = Hashes(f) \union {HashId(d)}
  BY <1>1 DEF Hashes, Registered
<1>6. (\A r \in f.devs : HashId(r) = r.hash) => \A r \in devs : HashId(r) = r.hash
  BY <1>1
<1> HIDE DEF devs, wr
<1>7. /\ wr \in FileType /\ wr.devs = devs /\ wr.version = f.version
      /\ wr.canonical = f.canonical /\ wr.globals = f.globals /\ wr.reserved = f.reserved
      /\ wr.data = f.data /\ wr.history = f.history
  BY <1>3, <1>4 DEF FileType
<1>8. ASSUME NEW g \in FileType
      PROVE  /\ WithTables(g, d) \in FileType /\ WithTables(g, d).devs = g.devs
             /\ WithTables(g, d).version = g.version
             /\ WithTables(g, d).canonical = g.canonical
             /\ WithTables(g, d).globals = g.globals /\ WithTables(g, d).reserved = g.reserved
             /\ WithTables(g, d).data = g.data \union {HashId(d)}
             /\ WithTables(g, d).history = g.history \union {HashId(d)}
  <2>1. g.data \union {HashId(d)} \subseteq Serials \X Paths
        /\ g.history \union {HashId(d)} \subseteq Serials \X Paths
    BY <1>1 DEF FileType
  <2> QED BY <2>1 DEF WithTables, FileType
<1>9. Hashes(wr) = Hashes(f) \union {HashId(d)}
  BY <1>5, <1>7 DEF Hashes
<1>10. Hashes(WithTables(f, d)) = Hashes(f)
  BY <1>8 DEF Hashes
<1>11. ASSUME Readable(f) PROVE Readable(WithTables(wr, d))
  <2>1. /\ f.version = 1 /\ f.canonical /\ f.globals = GlobalTables /\ f.reserved
        /\ \A r \in f.devs : HashId(r) = r.hash
        /\ f.data = Hashes(f) /\ f.history = Hashes(f)
    BY <1>11 DEF Readable, ValidLayout, ReservedWorkload, Mapped, Hashes
  <2> DEFINE t == WithTables(wr, d)
  <2>2. /\ t.devs = devs /\ t.version = 1 /\ t.canonical /\ t.globals = GlobalTables
        /\ t.reserved /\ t.data = Hashes(f) \union {HashId(d)}
        /\ t.history = Hashes(f) \union {HashId(d)}
    BY <1>7, <1>8, <2>1
  <2> HIDE DEF t
  <2>3. \A r \in t.devs : HashId(r) = r.hash
    BY <1>6, <2>1, <2>2
  <2>4. {r.hash : r \in t.devs} = Hashes(f) \union {HashId(d)}
    BY <1>5, <2>2
  <2>5. Readable(t)
    BY <2>2, <2>3, <2>4 DEF Readable, ValidLayout, ReservedWorkload, Mapped
  <2> QED BY <2>5 DEF t
<1> QED BY <1>7, <1>8, <1>9, <1>10, <1>11 DEF wr

LEMMA RegisterRowStep ==
  ASSUME IInv, NEW p \in Procs, RegisterRow(p)
  PROVE  IInv'
<1>1. /\ proc[p].pc = "row" /\ proc[p].pc \in Holding
      /\ UNCHANGED <<node, starts, swaps, initial, ran, rows>>
  BY DEF RegisterRow, At, quiet, Holding, OfDevices
<1>2. CASE Conflicts(staged, Disk(p))
  <2>1. Ends(p, "error") /\ UNCHANGED file
    BY <1>2 DEF RegisterRow
  <2> QED BY <1>1, <2>1, EndsStep DEF Reasons
<1>3. CASE ~Conflicts(staged, Disk(p))
  <2>1. staged' = WithRow(staged, Disk(p)) /\ Move(p, "tables") /\ UNCHANGED <<file, lock>>
    BY <1>3 DEF RegisterRow, Write
  <2>2. /\ lock = p /\ StagedOf(proc[p]) /\ KnowsOf(proc[p]) /\ ConfOf(proc[p])
        /\ staged \in FileType
    BY <1>1, HolderFacts, ProcFacts
  <2>3. /\ "tables" \in {"verify"} \union Unvalidated \union Validated
        /\ "tables" \in Validated /\ "row" \in Validated /\ "tables" \in Holding
        /\ "tables" \notin Running \union OfSchema
    BY DEF Validated, Holding, OfSchema, OfDevices, Running
  <2>4. PICK s \in ProcType :
          /\ proc' = [proc EXCEPT ![p] = s] /\ s.pc = "tables" /\ s.i = proc[p].i
          /\ s.conf = proc[p].conf
    BY <2>1, <2>3, Moved
  <2>5. ConfOf(s) /\ CheckedOf(s)
    BY <1>1, <2>2, <2>3, <2>4, GoesOnInside DEF ConfOf
  <2>6. KnowsOf(s)
    BY <1>1, <2>2, <2>3, <2>4 DEF KnowsOf
  <2>7. PICK d : d = Disk(p)
    OBVIOUS
  <2>8. d \in DiskType /\ d.serial \in Serials /\ d.path \in Paths
        /\ d = s.conf.disks[s.i]
    BY <1>1, <2>4, <2>7, DiskFacts
  <2>9. /\ WithRow(staged, d) \in FileType
        /\ Hashes(WithRow(staged, d)) = Hashes(staged) \union {HashId(d)}
        /\ Readable(staged) => Readable(WithTables(WithRow(staged, d), d))
    BY <2>2, <2>8, RegistrationFacts
  <2>10. StagedOf(s)' /\ staged' \in FileType
    <3>1. staged' = WithRow(staged, d)
      BY <2>1, <2>7
    <3>2. Hashes(file)' \subseteq Hashes(staged)'
      BY <1>1, <2>1, <2>2, <2>9, <3>1 DEF StagedOf, Hashes
    <3>3. Readable(WithTables(staged, d))'
      <4>1. Readable(WithTables(WithRow(staged, d), d))
        BY <1>1, <2>2, <2>9 DEF StagedOf
      <4> QED BY <3>1, <4>1 DEF Readable, ValidLayout, ReservedWorkload, Mapped, WithTables
    <3> QED BY <2>4, <2>8, <2>9, <3>1, <3>2, <3>3 DEF StagedOf
  <2>11. /\ lock \in {None, p} /\ lock' = p
         /\ UNCHANGED <<file, node, starts, swaps, initial, ran, rows>>
    BY <1>1, <2>1, <2>2
  <2> QED BY <2>3, <2>4, <2>5, <2>6, <2>10, <2>11, InsideStep
<1> QED BY <1>2, <1>3

LEMMA RegisterTablesStep ==
  ASSUME IInv, NEW p \in Procs, RegisterTables(p)
  PROVE  IInv'
<1>1. /\ proc[p].pc = "tables" /\ proc[p].pc \in Holding
      /\ staged' = WithTables(staged, Disk(p))
      /\ UNCHANGED <<file, lock, node, starts, swaps, initial, ran, rows>>
  BY DEF RegisterTables, At, quiet, Holding, OfDevices, Write
<1>2. /\ lock = p /\ StagedOf(proc[p]) /\ KnowsOf(proc[p]) /\ ConfOf(proc[p])
      /\ staged \in FileType /\ proc[p] \in ProcType
      /\ proc[p].conf \in Configs /\ Accepted(proc[p].conf)
  BY <1>1, HolderFacts, ProcFacts
<1>3. /\ {"row", "commit devices", "tables"} \subseteq Validated
      /\ {"row", "commit devices"} \subseteq Holding
      /\ \A pc \in {"row", "commit devices"} : pc \notin Running \union OfSchema
  BY DEF Validated, Holding, OfSchema, OfDevices, Running
<1>4. PICK s \in ProcType :
        /\ proc' = [proc EXCEPT ![p] = s] /\ s.pc \in {"row", "commit devices"}
        /\ s.i \in DOMAIN s.conf.disks /\ s.conf = proc[p].conf
  <2>1. CASE IsLast(p)
    <3> DEFINE t == [proc[p] EXCEPT !.pc = "commit devices"]
    <3>1. proc' = [proc EXCEPT ![p].pc = "commit devices"] /\ proc \in [Procs -> ProcType]
      BY <2>1 DEF RegisterTables, Move, IInv, TypeInv
    <3>2. t \in ProcType /\ t.pc = "commit devices" /\ t.i = proc[p].i /\ t.conf = proc[p].conf
      BY <1>2, <1>3 DEF ProcType
    <3>3. proc' = [proc EXCEPT ![p] = t]
      BY <3>1
    <3> HIDE DEF t
    <3>4. proc[p].i \in DOMAIN proc[p].conf.disks
      BY <1>1, <1>2 DEF ConfOf
    <3> QED BY <3>2, <3>3, <3>4
  <2>2. CASE ~IsLast(p)
    <3> DEFINE t == [proc[p] EXCEPT !.pc = "row", !.i = proc[p].i + 1]
    <3>1. proc' = [proc EXCEPT ![p].pc = "row", ![p].i = @ + 1]
      BY <2>2 DEF RegisterTables, Following
    <3>2. proc \in [Procs -> ProcType] /\ proc[p].i + 1 \in Nat
      BY <1>2 DEF IInv, TypeInv, ProcType
    <3>3. t \in ProcType /\ t.pc = "row" /\ t.i = proc[p].i + 1 /\ t.conf = proc[p].conf
      BY <1>2, <1>3, <3>2 DEF ProcType
    <3>4. proc' = [proc EXCEPT ![p] = t]
      BY <3>1, <3>2
    <3> HIDE DEF t
    <3>5. proc[p].i + 1 \in DOMAIN proc[p].conf.disks
      BY <1>1, <1>2, <2>2, AcceptedFacts DEF ConfOf, IsLast
    <3> QED BY <3>3, <3>4, <3>5
  <2> QED BY <2>1, <2>2
<1>5. ConfOf(s) /\ CheckedOf(s)
  BY <1>1, <1>3, <1>4, GoesOnInside
<1>6. KnowsOf(s)
  BY <1>1, <1>2, <1>3, <1>4 DEF KnowsOf
<1>7. PICK d : d = Disk(p)
  OBVIOUS
<1>8. d \in DiskType /\ d.serial \in Serials /\ d.path \in Paths
      /\ d = proc[p].conf.disks[proc[p].i] /\ staged' = WithTables(staged, d)
  BY <1>1, <1>7, DiskFacts
<1>9. StagedOf(s)' /\ staged' \in FileType
  <2>1. /\ WithTables(staged, d) \in FileType /\ Readable(WithTables(staged, d))
        /\ Hashes(WithTables(staged, d)) = Hashes(staged)
    BY <1>1, <1>2, <1>8, RegistrationFacts DEF StagedOf
  <2>2. Readable(staged)'
    BY <1>8, <2>1 DEF Readable, ValidLayout, ReservedWorkload, Mapped
  <2>3. Hashes(file)' \subseteq Hashes(staged)'
    BY <1>1, <1>2, <1>8, <2>1 DEF StagedOf, Hashes
  <2> QED BY <1>4, <1>8, <2>1, <2>2, <2>3 DEF StagedOf
<1>10. lock \in {None, p} /\ lock' = p /\ s.pc \in Holding
  BY <1>1, <1>2, <1>3, <1>4
<1> QED BY <1>1, <1>4, <1>5, <1>6, <1>9, <1>10, InsideStep

LEMMA CommitStep ==
  ASSUME IInv, NEW p \in Procs, NEW here, NEW next, Commit(p, here, next),
         \/ here = "commit schema" /\ next = "validate"
         \/ here = "commit devices" /\ next = "validate again"
  PROVE  IInv'
<1>1. /\ proc[p].pc = here /\ here \in Holding
      /\ UNCHANGED <<node, starts, swaps, initial, ran, rows>>
  BY DEF Commit, At, quiet, Holding, OfSchema, OfDevices
<1>2. CASE file' \in {file, staged} /\ Ends(p, "error")
  BY <1>1, <1>2, EndsStep DEF Reasons
<1>3. CASE file' = staged /\ Move(p, next) /\ lock' = None /\ staged' = Fresh
  <2>1. /\ next \in {"verify"} \union Unvalidated \union Validated
        /\ next \in Unvalidated \union Validated
        /\ next \notin Holding \union Running \union OfSchema /\ next # "read"
        /\ here \notin {"off", "verify"}
    BY DEF Unvalidated, Validated, Holding, OfSchema, OfDevices, Running
  <2>2. PICK s \in ProcType :
          /\ proc' = [proc EXCEPT ![p] = s] /\ s.pc = next /\ s.i = proc[p].i
          /\ s.conf = proc[p].conf
    BY <1>3, <2>1, Moved
  <2>3. lock = p /\ StagedOf(proc[p]) /\ ConfOf(proc[p])
    BY <1>1, HolderFacts, ProcFacts
  <2>4. ConfOf(s) /\ CheckedOf(s)
    BY <1>1, <2>1, <2>2, <2>3, GoesOnInside DEF ConfOf
  <2>5. Readable(file)' /\ file'.version = 1
    <3>1. Readable(staged)
      BY <1>1, <2>3 DEF StagedOf
    <3> QED BY <1>3, <3>1 DEF Readable, ValidLayout, ReservedWorkload, Mapped
  <2>6. KnowsOf(s)'
    BY <2>1, <2>2, <2>5 DEF KnowsOf
  <2>7. s.pc \notin Holding /\ proc[p].pc \in {"commit schema", "commit devices"}
    BY <1>1, <2>1, <2>2
  <2> QED BY <1>1, <1>3, <2>2, <2>3, <2>4, <2>6, <2>7, OverStep
<1> QED BY <1>2, <1>3 DEF Commit

-----------------------------------------------------------------------------
(* What a start validates                                                  *)

LEMMA ValidateStep ==
  ASSUME IInv, NEW p \in Procs, NEW here, NEW next, Validate(p, here, next),
         \/ here = "validate" /\ next = "registrations"
         \/ here = "validate again" /\ next = "history"
  PROVE  IInv'
<1>1. /\ proc[p].pc = here /\ KnowsOf(proc[p])
      /\ UNCHANGED <<file, node, starts, swaps, initial, ran, rows>>
  BY ProcFacts DEF Validate, At, quiet
<1>2. /\ next \in Unvalidated \union Validated /\ "validate again" \in Validated
      /\ next \notin Holding \union Running \union {"read"}
      /\ next \notin {"names", "begin schema", "validate"}
      /\ here \notin {"off", "verify"} \union Holding
  BY DEF Unvalidated, Validated, Holding, OfSchema, OfDevices, Running
<1>3. CASE ValidLayout(file)
  <2>1. Move(p, next) /\ UNCHANGED <<lock, staged>>
    BY <1>3 DEF Validate
  <2>2. Readable(file)
    BY <1>1, <1>2, <1>3 DEF KnowsOf, Readable
  <2> QED BY <1>1, <1>2, <2>1, <2>2, MoveStep
<1>4. CASE ~ValidLayout(file)
  <2>1. Ends(p, "error")
    BY <1>4 DEF Validate
  <2> QED BY <1>1, <2>1, EndsStep DEF Reasons
<1> QED BY <1>3, <1>4

LEMMA CheckRegistrationsStep ==
  ASSUME IInv, NEW p \in Procs, CheckRegistrations(p)
  PROVE  IInv'
<1>1. /\ proc[p].pc = "registrations" /\ KnowsOf(proc[p])
      /\ UNCHANGED <<file, node, starts, swaps, initial, ran, rows>>
  BY ProcFacts DEF CheckRegistrations, At, quiet
<1>2. ValidRegistrations(proc[p].conf)
  BY <1>1, ProcFacts, AcceptedIsUsable
<1>3. Move(p, "begin devices") /\ UNCHANGED <<lock, staged>>
  BY <1>2 DEF CheckRegistrations
<1>4. /\ "begin devices" \in Unvalidated \union Validated /\ "registrations" \in Validated
      /\ "begin devices" \notin Holding \union Running \union {"read"}
      /\ "registrations" \notin {"off", "verify"} \union Holding
  BY DEF Validated, Holding, OfSchema, OfDevices, Running
<1>5. Readable(file)
  BY <1>1, <1>4 DEF KnowsOf
<1> QED BY <1>1, <1>3, <1>4, <1>5, MoveStep

LEMMA OpenHistoryStep ==
  ASSUME IInv, NEW p \in Procs, OpenHistory(p)
  PROVE  IInv'
<1>1. /\ proc[p].pc = "history" /\ KnowsOf(proc[p])
      /\ UNCHANGED <<file, node, starts, swaps, initial, ran, rows>>
  BY ProcFacts DEF OpenHistory, At, quiet
<1>2. /\ "prepare" \in Unvalidated \union Validated /\ "history" \in Validated
      /\ "prepare" \notin Holding \union {"read"}
      /\ "history" \notin {"off", "verify"} \union Holding
  BY DEF Validated, Holding, OfSchema, OfDevices, Running
<1>3. CASE /\ Move(p, "prepare") /\ UNCHANGED <<lock, staged>>
           /\ \A i \in DOMAIN proc[p].conf.disks :
                Registered(file, proc[p].conf.disks[i]) # {}
  <2>1. Readable(file)
    BY <1>1, <1>2 DEF KnowsOf
  <2>2. RegisteredIn(proc[p].conf, file)
    BY <1>3 DEF RegisteredIn, Registered, Hashes
  <2> QED BY <1>1, <1>2, <1>3, <2>1, <2>2, MoveStep
<1>4. CASE Ends(p, "error")
  BY <1>1, <1>4, EndsStep DEF Reasons
<1> QED BY <1>3, <1>4 DEF OpenHistory

LEMMA PrepareStep ==
  ASSUME IInv, NEW p \in Procs, Prepare(p)
  PROVE  IInv'
<1>1. /\ proc[p].pc = "prepare" /\ KnowsOf(proc[p])
      /\ UNCHANGED <<file, node, starts, swaps, initial, rows>>
  BY ProcFacts DEF Prepare, At, quiet
<1>2. Converts(proc[p].conf)
  BY <1>1, ProcFacts, AcceptedIsUsable
<1>3. Move(p, "idle") /\ ran' = ran \union {proc[p].conf} /\ UNCHANGED <<lock, staged>>
  BY <1>2 DEF Prepare
<1>4. /\ "idle" \in Unvalidated \union Validated /\ "idle" \in Running
      /\ "prepare" \in Validated /\ "prepare" \in Running
      /\ "idle" \notin Holding \union {"read"}
      /\ "prepare" \notin {"off", "verify"} \union Holding
  BY DEF Validated, Holding, OfSchema, OfDevices, Running
<1>5. Readable(file) /\ RegisteredIn(proc[p].conf, file)
  BY <1>1, <1>4 DEF KnowsOf
<1> QED BY <1>1, <1>3, <1>4, <1>5, MoveStep

-----------------------------------------------------------------------------
(* The monitor and the environment                                         *)

LEMMA ResolveStep ==
  ASSUME IInv, NEW p \in Procs, Resolve(p)
  PROVE  IInv'
<1>1. /\ proc[p].pc = "idle"
      /\ UNCHANGED <<file, lock, staged, node, starts, swaps, initial, ran, rows>>
  BY DEF Resolve, At, quiet
<1>2. /\ proc[p] \in ProcType /\ ConfOf(proc[p]) /\ CheckedOf(proc[p]) /\ KnowsOf(proc[p])
      /\ proc[p].conf \in Configs /\ Accepted(proc[p].conf)
      /\ proc \in [Procs -> ProcType]
  BY <1>1, ProcFacts DEF IInv, TypeInv
<1>3. /\ {"idle", "read"} \subseteq Validated /\ {"idle", "read"} \subseteq Running
      /\ \A pc \in {"idle", "read"} : pc \notin Holding
  BY DEF Validated, Holding, OfSchema, OfDevices, Running
<1>4. PICK i \in DOMAIN proc[p].conf.disks :
        LET d == proc[p].conf.disks[i] IN
        /\ d.path \in proc[p].active /\ Resolves(d.path)
        /\ proc' = IF SerialMatches(d)
                   THEN [proc EXCEPT ![p].pc = "read", ![p].i = i,
                           ![p].found = node[d.path].number, ![p].checked = swaps]
                   ELSE [proc EXCEPT ![p].active = @ \ {d.path}]
  BY DEF Resolve
<1> DEFINE d == proc[p].conf.disks[i]
<1>5. i \in Nat /\ swaps \in Nat
  BY <1>2, AcceptedFacts, Counters
<1>5a. /\ d.path \in Paths /\ node[d.path] \in NodeType
       /\ node[d.path].number \in Numbers /\ node[d.path].is \in Serials
  <2>1. d.path \in Paths
    BY <1>2, AcceptedFacts
  <2>2. node[d.path] \in NodeType /\ node[d.path].is \notin Refused
    BY <1>4, <2>1 DEF IInv, TypeInv, Resolves
  <2>3. node[d.path].number # None
    BY <2>1, <2>2 DEF IInv, TypeInv, NodeInv, NodeType
  <2> QED BY <2>1, <2>2, <2>3 DEF NodeType
<1>6. PICK s \in ProcType :
        /\ proc' = [proc EXCEPT ![p] = s] /\ s.conf = proc[p].conf
        /\ \/ /\ s.pc = "read" /\ s.i = i /\ SerialMatches(d)
              /\ s.found = node[d.path].number /\ s.checked = swaps
           \/ s.pc = "idle" /\ s.i = proc[p].i
  <2>1. CASE SerialMatches(d)
    <3> DEFINE t == [proc[p] EXCEPT !.pc = "read", !.i = i, !.found = node[d.path].number,
                                    !.checked = swaps]
    <3>1. /\ t \in ProcType /\ t.pc = "read" /\ t.i = i /\ t.conf = proc[p].conf
          /\ t.found = node[d.path].number /\ t.checked = swaps
      BY <1>2, <1>3, <1>5, <1>5a DEF ProcType
    <3>2. proc' = [proc EXCEPT ![p] = t]
      BY <1>2, <1>4, <2>1
    <3> HIDE DEF t
    <3> QED BY <2>1, <3>1, <3>2
  <2>2. CASE ~SerialMatches(d)
    <3> DEFINE t == [proc[p] EXCEPT !.active = @ \ {d.path}]
    <3>1. t \in ProcType /\ t.pc = "idle" /\ t.i = proc[p].i /\ t.conf = proc[p].conf
      BY <1>1, <1>2 DEF ProcType
    <3>2. proc' = [proc EXCEPT ![p] = t]
      BY <1>2, <1>4, <2>2
    <3> HIDE DEF t
    <3> QED BY <3>1, <3>2
  <2> QED BY <2>1, <2>2
<1>7. ConfOf(s)
  <2>1. s.pc \notin {"off", "verify"} /\ s.i \in DOMAIN s.conf.disks /\ s.conf # None
    BY <1>1, <1>2, <1>6, StartupAssumption DEF ConfOf
  <2> QED BY <1>1, <1>2, <1>6, <2>1 DEF ConfOf
<1>8. CheckedOf(s)
  <2> SUFFICES ASSUME s.pc = "read"
               PROVE  /\ s.found # None /\ s.checked <= swaps
                      /\ \A q \in With(s.found) :
                           node[q].since <= s.checked => node[q].is = s.conf.disks[s.i].serial
    BY DEF CheckedOf
  <2>1. /\ s.found = node[d.path].number /\ s.checked = swaps /\ s.conf.disks[s.i] = d
        /\ node[d.path].is = d.serial
    BY <1>6 DEF SerialMatches
  <2>2. s.found # None /\ s.checked <= swaps
    <3>1. None \notin Numbers
      BY StartupAssumption
    <3>2. node[d.path].number # None
      BY <1>5a, <3>1
    <3>3. swaps <= swaps
      BY <1>5
    <3> QED BY <2>1, <3>2, <3>3
  <2>3. \A q \in With(s.found) : node[q].is = node[d.path].is
    BY <1>5a, <2>1, <2>2 DEF With, IInv, TypeInv, NodeInv, OneDiskPerNumber
  <2> QED BY <2>1, <2>2, <2>3
<1>9. KnowsOf(s)
  <2>1. Readable(file) /\ RegisteredIn(s.conf, file)
    BY <1>1, <1>2, <1>3, <1>6 DEF KnowsOf
  <2> QED BY <1>6, <2>1 DEF KnowsOf, OfSchema
<1>10. s.pc \notin Holding /\ proc[p].pc \notin Holding
  BY <1>1, <1>3, <1>6
<1>11. TypeInv' /\ ProcInv' /\ LockInv' /\ FileInv'
  BY <1>1, <1>6, <1>7, <1>8, <1>9, <1>10, Counters, OutsideStep
<1> QED BY <1>1, <1>11, RowsStay DEF IInv

(* The sample that is stored.                                              *)
LEMMA SampleFacts ==
  ASSUME IInv, NEW p \in Procs, proc[p].pc = "read", IdentityMatches(p),
         NEW q \in With(proc[p].found)
  PROVE  LET row == Sample(p, node[q].is)
         IN  /\ row.serial \in Serials /\ row.counted = {row.serial}
             /\ row.serial = row.hash[1] \/ row.raced
<1> DEFINE row == Sample(p, node[q].is)
<1>1. /\ row.serial = node[q].is /\ row.hash = HashId(Disk(p))
      /\ row.counted = {node[r].is : r \in With(proc[p].found)}
      /\ row.raced <=> \A r \in With(proc[p].found) : node[r].since > proc[p].checked
  BY DEF Sample, IdentityMatches
<1> HIDE DEF row
<1>2. /\ CheckedOf(proc[p]) /\ Disk(p) = proc[p].conf.disks[proc[p].i]
      /\ proc[p] \in ProcType
  BY ProcFacts, DiskFacts
<1>3. proc[p].found # None /\ q \in Paths /\ node[q].number = proc[p].found
  BY <1>2 DEF CheckedOf, With
<1>4. \A r \in With(proc[p].found) : node[r].is = node[q].is
  BY <1>3 DEF With, IInv, TypeInv, NodeInv, OneDiskPerNumber
<1>5. row.serial \in Serials
  BY <1>1, <1>3 DEF IInv, TypeInv, NodeInv
<1>6. row.counted = {row.serial}
  BY <1>1, <1>4
<1>7. row.serial = row.hash[1] \/ row.raced
  <2> SUFFICES ASSUME ~row.raced PROVE row.serial = row.hash[1]
    OBVIOUS
  <2>1. PICK r \in With(proc[p].found) : ~(node[r].since > proc[p].checked)
    BY <1>1
  <2>2. node[r].since \in Nat /\ proc[p].checked \in Nat
    <3>1. node[r] \in NodeType
      BY <2>1 DEF With, IInv, TypeInv
    <3> QED BY <1>2, <3>1, Counters DEF NodeType, ProcType
  <2>3. node[r].since <= proc[p].checked
    BY <2>1, <2>2
  <2>4. node[r].is = Disk(p).serial
    BY <1>2, <2>3 DEF CheckedOf
  <2> QED BY <1>1, <1>4, <2>4 DEF HashId
<1> QED BY <1>5, <1>6, <1>7 DEF row

LEMMA ReadLogStep ==
  ASSUME IInv, NEW p \in Procs, ReadLog(p)
  PROVE  IInv'
<1>1. /\ proc[p].pc = "read"
      /\ UNCHANGED <<file, lock, staged, node, starts, swaps, initial, ran>>
  BY DEF ReadLog, At, quiet
<1>2. /\ {"idle", "read"} \subseteq Validated /\ {"idle", "read"} \subseteq Running
      /\ \A pc \in {"idle", "read"} : pc \notin Holding
  BY DEF Validated, Holding, OfSchema, OfDevices, Running
<1>3. /\ proc[p] \in ProcType /\ ConfOf(proc[p]) /\ KnowsOf(proc[p])
      /\ proc \in [Procs -> ProcType]
  BY ProcFacts DEF IInv, TypeInv
<1>4. PICK active \in SUBSET proc[p].active :
        /\ proc' = [proc EXCEPT ![p].pc = "idle", ![p].found = None, ![p].checked = 0,
                                ![p].active = active]
        /\ \/ UNCHANGED rows
           \/ /\ IdentityMatches(p)
              /\ \E q \in With(proc[p].found) : rows' = rows \union {Sample(p, node[q].is)}
  BY DEF ReadLog
<1> DEFINE s == [proc[p] EXCEPT !.pc = "idle", !.found = None, !.checked = 0,
                                !.active = active]
<1>5. s \in ProcType /\ s.pc = "idle" /\ s.i = proc[p].i /\ s.conf = proc[p].conf
  BY <1>2, <1>3 DEF ProcType
<1>6. proc' = [proc EXCEPT ![p] = s]
  BY <1>3, <1>4
<1> HIDE DEF s
<1>7. ConfOf(s) /\ CheckedOf(s)
  BY <1>1, <1>3, <1>5 DEF ConfOf, CheckedOf
<1>8. KnowsOf(s)
  <2>1. Readable(file) /\ RegisteredIn(s.conf, file)
    BY <1>1, <1>2, <1>3, <1>5 DEF KnowsOf
  <2> QED BY <1>5, <2>1 DEF KnowsOf, OfSchema
<1>9. s.pc \notin Holding /\ proc[p].pc \notin Holding
  BY <1>1, <1>2, <1>5
<1>10. TypeInv' /\ ProcInv' /\ LockInv' /\ FileInv'
  BY <1>1, <1>5, <1>6, <1>7, <1>8, <1>9, Counters, OutsideStep
<1>11. RowsInv'
  <2>1. CASE UNCHANGED rows
    BY <2>1, RowsStay
  <2>2. ASSUME IdentityMatches(p), NEW q \in With(proc[p].found),
               rows' = rows \union {Sample(p, node[q].is)}
        PROVE  RowsInv'
    <3> DEFINE row == Sample(p, node[q].is)
    <3>1. /\ row.serial \in Serials /\ row.counted = {row.serial}
          /\ row.serial = row.hash[1] \/ row.raced
      BY <1>1, <2>2, SampleFacts
    <3>2. rows' = rows \union {row}
      BY <2>2
    <3> HIDE DEF row
    <3> QED BY <3>1, <3>2 DEF IInv, RowsInv, OwnHistory
  <2> QED BY <1>4, <2>1, <2>2
<1> QED BY <1>10, <1>11 DEF IInv

LEMMA LeavesStep ==
  ASSUME IInv, NEW p \in Procs, NobodyLeft(p) \/ Dies(p)
  PROVE  IInv'
<1>1. UNCHANGED <<file, node, starts, swaps, initial, ran, rows>>
  BY DEF NobodyLeft, Dies, quiet
<1>2. Ends(p, "error")
  BY DEF NobodyLeft, Dies
<1> QED BY <1>1, <1>2, EndsStep DEF Reasons

(* What appears at a path is later than every check.                       *)
LEMMA SwapStep ==
  ASSUME IInv, NEW q \in Paths, Swap(q)
  PROVE  IInv'
<1>1. /\ swaps < MaxSwaps /\ swaps' = swaps + 1 /\ OneDiskPerNumber(node')
      /\ UNCHANGED <<file, lock, staged, proc, starts, initial, ran, rows>>
  BY DEF Swap
<1>2. PICK new \in Targets :
        node' = [node EXCEPT ![q] = [is |-> new.is, number |-> new.number,
                                     since |-> swaps + 1]]
  BY DEF Swap
<1>3. swaps \in Nat /\ MaxSwaps \in Nat /\ node \in [Paths -> NodeType]
  BY Counters DEF IInv, TypeInv
<1>4. /\ new.is \in Serials \union Refused /\ new.number \in Numbers \union {None}
      /\ new.number # None => new.is \in Serials
      /\ new.is \in Serials \ Refused => new.number # None
  BY StartupAssumption DEF Targets
<1>5. /\ node' \in [Paths -> NodeType]
      /\ node'[q].is = new.is /\ node'[q].number = new.number /\ node'[q].since = swaps + 1
      /\ \A r \in Paths \ {q} : node'[r] = node[r]
  BY <1>1, <1>2, <1>3, <1>4 DEF NodeType
<1>6. TypeInv'
  <2>1. swaps' \in 0 .. MaxSwaps
    BY <1>1, <1>3
  <2>2. NodeInv'
    <3>1. \A r \in Paths : node'[r].number # None => node'[r].is \in Serials
      BY <1>4, <1>5 DEF IInv, TypeInv, NodeInv
    <3>2. \A r \in Paths : node'[r].is \in Serials \ Refused => node'[r].number # None
      BY <1>4, <1>5 DEF IInv, TypeInv, NodeInv
    <3>3. OneDiskPerNumber(node)'
      BY <1>1 DEF OneDiskPerNumber
    <3> QED BY <3>1, <3>2, <3>3 DEF NodeInv
  <2> QED BY <1>1, <1>5, <2>1, <2>2 DEF IInv, TypeInv
<1>7. ProcInv'
  <2> SUFFICES ASSUME NEW p \in Procs
               PROVE  ConfOf(proc[p])' /\ CheckedOf(proc[p])' /\ KnowsOf(proc[p])'
    BY DEF ProcInv
  <2>1. /\ ConfOf(proc[p]) /\ CheckedOf(proc[p]) /\ KnowsOf(proc[p]) /\ proc[p] \in ProcType
    BY ProcFacts
  <2>2. ConfOf(proc[p])' /\ KnowsOf(proc[p])'
    BY <1>1, <2>1 DEF ConfOf, KnowsOf, Ours
  <2>3. CheckedOf(proc[p])'
    <3> SUFFICES ASSUME proc[p].pc = "read"
                 PROVE  /\ proc[p].found # None /\ proc[p].checked <= swaps'
                        /\ \A r \in Paths :
                             node'[r].number = proc[p].found /\ node'[r].since <= proc[p].checked
                               => node'[r].is = proc[p].conf.disks[proc[p].i].serial
      BY <1>1 DEF CheckedOf, With
    <3>1. /\ proc[p].found # None /\ proc[p].checked <= swaps /\ proc[p].checked \in Nat
          /\ \A r \in Paths :
               node[r].number = proc[p].found /\ node[r].since <= proc[p].checked
                 => node[r].is = proc[p].conf.disks[proc[p].i].serial
      BY <2>1 DEF CheckedOf, With, ProcType
    <3>2. proc[p].checked <= swaps' /\ ~(node'[q].since <= proc[p].checked)
      BY <1>1, <1>3, <1>5, <3>1
    <3> QED BY <1>5, <3>1, <3>2
  <2> QED BY <2>2, <2>3
<1>8. LockInv'
  BY <1>1 DEF IInv, LockInv, StagedOf
<1>9. FileInv' /\ RowsInv'
  BY <1>1 DEF IInv, FileInv, SchemaIsWhole, Ours, RowsInv, OwnHistory
<1> QED BY <1>6, <1>7, <1>8, <1>9 DEF IInv

LEMMA Initially == Init => IInv
<1> SUFFICES ASSUME Init PROVE IInv
  OBVIOUS
<1>1. /\ file \in Files /\ initial = file /\ lock = None /\ staged = Fresh
      /\ node \in [Paths -> [is : Serials, number : Numbers, since : {0}]]
      /\ OneDiskPerNumber(node)
      /\ proc = [p \in Procs |-> Off] /\ starts = 0 /\ swaps = 0
      /\ ran = {} /\ rows = {}
  BY DEF Init
<1>2. MaxSwaps \in Nat /\ MaxStarts \in Nat /\ None \notin Procs
  BY StartupAssumption
<1>3. Off \in ProcType /\ Off.pc = "off" /\ Off.conf = None /\ Off.found = None /\ Off.checked = 0
  BY <1>2 DEF Off, ProcType, Reasons
<1>4. TypeInv
  <2>1. node \in [Paths -> NodeType] /\ NodeInv
    BY <1>1, <1>2, StartupAssumption DEF NodeType, NodeInv
  <2>2. proc \in [Procs -> ProcType]
    BY <1>1, <1>3
  <2>3. file \in FileType
    BY <1>1, FilesAssumption
  <2> QED BY <1>1, <1>2, <2>1, <2>2, <2>3, FreshFile DEF TypeInv
<1>5. "off" \notin Holding \union Running \union Validated \union OfSchema
  BY DEF Holding, OfSchema, OfDevices, Running, Validated
<1>6. ProcInv
  <2>1. ConfOf(Off) /\ KnowsOf(Off)
    BY <1>3, <1>5 DEF ConfOf, KnowsOf
  <2>2. CheckedOf(Off)
    BY <1>1, <1>3 DEF CheckedOf
  <2> QED BY <1>1, <2>1, <2>2 DEF ProcInv
<1>7. LockInv
  BY <1>1, <1>2, <1>3, <1>5 DEF LockInv
<1>8. FileInv /\ RowsInv
  BY <1>1 DEF FileInv, SchemaIsWhole, Ours, RowsInv, OwnHistory
<1> QED BY <1>4, <1>6, <1>7, <1>8 DEF IInv

LEMMA Inductive == IInv /\ [Next]_vars => IInv'
<1> SUFFICES ASSUME IInv, [Next]_vars PROVE IInv'
  OBVIOUS
<1>1. ASSUME NEW p \in Procs, Step(p) PROVE IInv'
  <2>1. ASSUME NEW c \in Configs, Start(p, c) PROVE IInv'
    BY <2>1, StartStep
  <2>2. CASE Verify(p) \/ Open(p) \/ ReadVersion(p) \/ ReadNames(p)
    BY <2>2, VerifyStep, OpenStep, ReadVersionStep, ReadNamesStep
  <2>3. CASE Begin(p, "begin schema", "create") \/ Begin(p, "begin devices", "row")
    BY <2>3, BeginStep
  <2>4. CASE CreateGlobals(p) \/ RegisterRow(p) \/ RegisterTables(p)
    BY <2>4, CreateGlobalsStep, RegisterRowStep, RegisterTablesStep
  <2>5. CASE Commit(p, "commit schema", "validate")
             \/ Commit(p, "commit devices", "validate again")
    BY <2>5, CommitStep
  <2>6. CASE Validate(p, "validate", "registrations") \/ Validate(p, "validate again", "history")
    BY <2>6, ValidateStep
  <2>7. CASE CheckRegistrations(p) \/ OpenHistory(p) \/ Prepare(p)
    BY <2>7, CheckRegistrationsStep, OpenHistoryStep, PrepareStep
  <2>8. CASE Resolve(p) \/ ReadLog(p) \/ NobodyLeft(p) \/ Dies(p)
    BY <2>8, ResolveStep, ReadLogStep, LeavesStep
  <2> QED BY <1>1, <2>1, <2>2, <2>3, <2>4, <2>5, <2>6, <2>7, <2>8 DEF Step
<1>2. ASSUME NEW q \in Paths, Swap(q) PROVE IInv'
  BY <1>2, SwapStep
<1>3. CASE UNCHANGED vars
  <2>1. UNCHANGED <<file, lock, staged, node, proc, starts, swaps, initial, ran, rows>>
    BY <1>3 DEF vars
  <2>2. TypeInv'
    BY <2>1 DEF IInv, TypeInv, NodeInv, OneDiskPerNumber
  <2>3. ASSUME NEW p \in Procs
        PROVE  ConfOf(proc[p])' /\ CheckedOf(proc[p])' /\ KnowsOf(proc[p])'
    <3>1. ConfOf(proc[p]) /\ CheckedOf(proc[p]) /\ KnowsOf(proc[p])
      BY ProcFacts
    <3>2. KnowsOf(proc[p])'
      BY <2>1, <3>1 DEF KnowsOf, Ours
    <3> QED BY <2>1, <3>1, <3>2 DEF ConfOf, CheckedOf, With
  <2>4. LockInv' /\ FileInv'
    BY <2>1 DEF IInv, LockInv, StagedOf, FileInv, SchemaIsWhole, Ours
  <2>5. RowsInv'
    BY <2>1, RowsStay
  <2> QED BY <2>2, <2>3, <2>4, <2>5 DEF IInv, ProcInv
<1> QED BY <1>1, <1>2, <1>3 DEF Next

-----------------------------------------------------------------------------
(* The theorems                                                            *)

(* The inductive invariant holds in every state the processes, the         *)
(* administrator and the disks reach.                                      *)
THEOREM Invariance == Spec => []IInv
BY Initially, Inductive, PTL DEF Spec

(* File, lock, processes, links and counters keep their types, whatever    *)
(* the configurations and the database files.                              *)
THEOREM TypeCorrect == Spec => []TypeOK
<1>1. IInv => TypeOK
  <2> SUFFICES ASSUME IInv PROVE TypeOK
    OBVIOUS
  <2>1. /\ lock \in Procs \union {None} /\ starts \in 0 .. MaxStarts /\ swaps \in 0 .. MaxSwaps
        /\ node \in [Paths -> [is : Serials \union Refused, number : Numbers \union {None},
                           since : 0 .. MaxSwaps]]
        /\ ran \subseteq Configs /\ file \in FileType
    BY DEF IInv, TypeInv, NodeType
  <2>2. /\ file.version \in Nat /\ file.globals \subseteq GlobalTables
        /\ file.data \union file.history \subseteq Serials \X Paths
    BY <2>1 DEF FileType
  <2>3. \A p \in Procs : proc[p].active \subseteq Paths /\ (proc[p].conf = None <=> At(p, "off"))
    BY ProcFacts DEF ConfOf, At
  <2>4. \A r \in rows : r.serial \in Serials
    BY DEF IInv, RowsInv
  <2> QED BY <2>1, <2>2, <2>3, <2>4 DEF TypeOK
<1> QED BY <1>1, Invariance, PTL

(* initialize_or_validate_v1 and register_devices_startup never leave half *)
(* a database, and never touch one that is not this program's, for any     *)
(* number of processes, crashes and failed statements.                     *)
THEOREM SchemaStaysWhole == Spec => []SchemaIsWhole
<1>1. IInv => SchemaIsWhole
  BY DEF IInv, FileInv
<1> QED BY <1>1, Invariance, PTL

(* resolve_nvme_target and identity_matches together: no sample gets into  *)
(* another disk's history or away from the disk whose writes are counted,  *)
(* however disks and numbers are exchanged, but for an exchange between    *)
(* the serial check of the sample itself and the opening.                  *)
THEOREM HistoryIsOwn == Spec => []OwnHistory
<1>1. IInv => OwnHistory
  BY DEF IInv, RowsInv
<1> QED BY <1>1, Invariance, PTL

(* What register_devices_startup has registered once it never refuses      *)
(* later, for any sequence of configurations.                              *)
THEOREM AlwaysStartsAgain == Spec => []StartsAgain
<1>1. IInv => StartsAgain
  <2> SUFFICES ASSUME IInv, NEW c \in ran PROVE Admits(file, c)
    BY DEF StartsAgain
  <2>1. Readable(file) /\ RegisteredIn(c, file)
    BY DEF IInv, FileInv
  <2>2. ASSUME NEW i \in DOMAIN c.disks PROVE ~Conflicts(file, c.disks[i])
    <3>1. Registered(file, c.disks[i]) # {}
      BY <2>1 DEF RegisteredIn, Registered, Hashes
    <3>2. \A r \in Registered(file, c.disks[i]) :
            r.serial = c.disks[i].serial /\ r.path = c.disks[i].path
      BY <2>1 DEF Readable, ValidLayout, Mapped, Registered, HashId
    <3> QED BY <3>1, <3>2 DEF Conflicts
  <2> QED BY <2>1, <2>2 DEF Admits
<1> QED BY <1>1, Invariance, PTL

(* A configuration validate_config accepts is never found unusable by the  *)
(* steps of the start that convert its numbers again.                      *)
THEOREM AcceptedMeansUsable == Spec => []UsableWhenAccepted
<1>1. IInv => UsableWhenAccepted
  BY ProcFacts DEF UsableWhenAccepted, Reasons
<1> QED BY <1>1, Invariance, PTL
=============================================================================
