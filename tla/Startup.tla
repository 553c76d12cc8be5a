------------------------------ MODULE Startup ------------------------------
(***************************************************************************)
(* From the configuration file to a running daemon: config.rs accepts or   *)
(* refuses the file, run_daemon verifies every disk (monitor/smart.rs),    *)
(* database/schema.rs lays out and validates stats.db and registers the    *)
(* devices, SmartMonitorDevice::new converts what was accepted, and the    *)
(* monitor samples.  Several processes share the database file (a daemon   *)
(* started twice), any step may fail or be cut by a crash, disks are       *)
(* swapped and the program is rebuilt for another configuration.           *)
(***************************************************************************)
EXTENDS Integers, Sequences, FiniteSets

CONSTANTS
  Procs,         \* processes that may run as the daemon
  Configs,       \* the configurations it is started with
  Paths,         \* direct names below /dev/disk/by-id
  Serials,       \* serials of the disks there are
  Numbers,       \* device numbers, each with the controller's name
  Files,         \* the database files found before the first start
  MsPerHour, MinutesPerHour,            \* 3 600 000 and 60, scaled
  MaxI64, MaxU32,                       \* the integer ranges, scaled
  MaxStarts,     \* bound: starts of the program
  MaxSwaps,      \* bound: times something else appears at a path
  None

DiskType == [label : STRING, serial : STRING, path : STRING, window : Nat, threshold : STRING]

ASSUME StartupAssumption ==
  /\ IsFiniteSet(Paths) /\ MaxStarts \in Nat /\ MaxSwaps \in Nat
  /\ {MsPerHour, MinutesPerHour, MaxI64, MaxU32} \subseteq Nat \ {0}
  /\ \A c \in Configs : c.disks \in Seq(DiskType)
  /\ None \notin Procs /\ None \notin Configs /\ None \notin Numbers

VARIABLES
  file,      \* stats.db as committed
  lock,      \* the process inside BEGIN IMMEDIATE, or None
  staged,    \* what its transaction would make of the file
  node,      \* per path: [is, number, since], what the by-id link leads to
  proc,      \* per process: where it stands in run_daemon
  starts, swaps

(* History, read by the properties only.                                   *)
VARIABLES
  initial,   \* the database file before the first start
  ran,       \* configurations with which the daemon has been running
  rows       \* samples stored: [hash, serial of the disk read, counted, raced]

vars == <<file, lock, staged, node, proc, starts, swaps, initial, ran, rows>>

-----------------------------------------------------------------------------
(* Configuration (config.rs)                                               *)

SupportedConfigSchema == 1

Blank == ""

(* A configuration carries `flaws`, the textual defects it has (a missing  *)
(* field, broken syntax, a checksum other than the embedded one).          *)
Loads(c) == c.flaws = {}

(* Mutant: the window is checked in milliseconds only.                     *)
ValidDiskInMilliseconds(d) ==
  /\ d.label # Blank /\ d.serial # Blank /\ d.path \in Paths /\ d.window # 0
  /\ d.window * MsPerHour <= MaxI64 /\ d.threshold \notin {"nan", "negative"}

ValidDisk(d) ==
  /\ d.label # Blank /\ d.serial # Blank /\ d.path \in Paths
  /\ d.window # 0
  /\ d.window * MsPerHour <= MaxI64 /\ d.window * MinutesPerHour <= MaxU32
  /\ d.threshold # "nan" /\ d.threshold # "negative"

ValidDisks(c) ==
  /\ c.schema = SupportedConfigSchema /\ c.disks # <<>> /\ c.host # Blank
  /\ \A i \in DOMAIN c.disks : ValidDisk(c.disks[i])
  /\ \A i, j \in DOMAIN c.disks : c.disks[i].path = c.disks[j].path => i = j

ValidDelivery(c) ==
  /\ c.rank # 0 /\ c.rank <= MaxI64
  /\ c.mail.host # Blank /\ c.mail.port # 0 /\ c.mail.from # Blank
  /\ c.mail.to # {} /\ Blank \notin c.mail.to

FixedParams == {"response_type", "client_id", "redirect_uri", "scope", "state",
                "code_challenge", "code_challenge_method"}

(* The section of the method and no other, no field of it empty.           *)
ValidCredentials(c) ==
  /\ c.mail.sections = IF c.mail.method = "PLAIN" THEN {"plain"} ELSE {"oauth"}
  /\ c.mail.empty = {} /\ c.mail.params \cap FixedParams = {}

Accepted(c) == Loads(c) /\ ValidDisks(c) /\ ValidDelivery(c) /\ ValidCredentials(c)

-----------------------------------------------------------------------------
(* Disks (monitor/smart.rs)                                                *)

(* What a link may lead to: a namespace of the disk with the serial, or    *)
(* what is refused whatever the serial (nothing, a file, a partition, a    *)
(* disk that is not NVMe).  A number is free again for another disk as     *)
(* soon as its disk is gone.                                               *)
Refused == {"refused"}

Targets == [is : Serials, number : Numbers] \union [is : Refused, number : {None}]

OneDiskPerNumber(nodes) ==
  \A q, r \in Paths : nodes[q].number = nodes[r].number /\ nodes[q].number # None
                        => nodes[q].is = nodes[r].is

(* SHA-256 over serial, a zero byte and path: taken to be injective.       *)
HashId(d) == <<d.serial, d.path>>

Resolves(path) == node[path].is \notin Refused

SerialMatches(d) == node[d.path].is = d.serial

(* The log is refused when a percentage is over 100; a counter of zero is  *)
(* an absent counter.                                                      *)
UsableLogs == {"counter"}
Logs == UsableLogs \union {"percentage over 100", "no counter", "rejected"}

-----------------------------------------------------------------------------
(* The database file (database/schema.rs)                                  *)

GlobalTables == {"devs", "workloads"}

Fresh == [version |-> 0, canonical |-> TRUE, globals |-> {}, reserved |-> FALSE,
          devs |-> {}, data |-> {}, history |-> {}]

TablesOf(f) == [globals |-> f.globals, data |-> f.data, history |-> f.history]
NoTables == TablesOf(Fresh)

RowType == [hash : Serials \X Paths, label : STRING, serial : Serials, path : Paths]
FileType == [version : Nat, canonical : BOOLEAN, globals : SUBSET GlobalTables,
             reserved : BOOLEAN, devs : SUBSET RowType, data : SUBSET (Serials \X Paths),
             history : SUBSET (Serials \X Paths)]

(* A file without a version and without tables is one just created.        *)
ASSUME FilesAssumption ==
  /\ Files \subseteq FileType
  /\ \A f \in Files : f.version = 0 /\ TablesOf(f) = NoTables => f = Fresh

ReservedWorkload(f) == f.reserved

(* validated_device_tables: every row hashes to its key.                   *)
Mapped(f) == \A r \in f.devs : HashId(r) = r.hash

ValidLayout(f) ==
  /\ f.canonical /\ f.globals = GlobalTables /\ ReservedWorkload(f) /\ Mapped(f)
  /\ LET known == {r.hash : r \in f.devs} IN f.data = known /\ f.history = known

(* What the stats command demands of the file it opens read-only.          *)
Readable(f) == f.version = 1 /\ ValidLayout(f)

WithGlobals(f) ==
  [f EXCEPT !.globals = GlobalTables, !.reserved = TRUE, !.version = 1]

Registered(f, d) == {r \in f.devs : r.hash = HashId(d)}
Holders(f, d) == {r \in f.devs : r.path = d.path}

WithRow(f, d) ==
  LET row == [hash |-> HashId(d), label |-> d.label, serial |-> d.serial, path |-> d.path]
  IN  [f EXCEPT !.devs = (@ \ Registered(f, d)) \union {row}]

WithTables(f, d) == [f EXCEPT !.data = @ \union {HashId(d)}, !.history = @ \union {HashId(d)}]

ValidRegistrations(c) ==
  \A i, j \in DOMAIN c.disks :
    HashId(c.disks[i]) = HashId(c.disks[j]) \/ c.disks[i].path = c.disks[j].path => i = j

(* The registration is refused: the hash stands for another disk, or the   *)
(* path is another disk's.                                                 *)
Conflicts(f, d) ==
  IF Registered(f, d) # {}
  THEN \E r \in Registered(f, d) : r.serial # d.serial \/ r.path # d.path
  ELSE Holders(f, d) # {}

-----------------------------------------------------------------------------
(* A process                                                               *)

(* seen are the numbers noted when the disks were verified; found is the   *)
(* number behind the serial checked last, and checked (history) the time.  *)
Off == [pc |-> "off", conf |-> None, i |-> 1, seen |-> [q \in Paths |-> None],
        found |-> None, checked |-> 0, active |-> {}, said |-> "nothing"]

Disk(p) == proc[p].conf.disks[proc[p].i]
IsLast(p) == proc[p].i = Len(proc[p].conf.disks)
At(p, pc) == proc[p].pc = pc
Move(p, pc) == proc' = [proc EXCEPT ![p].pc = pc]
First(p, pc) == proc' = [proc EXCEPT ![p].pc = pc, ![p].i = 1]
Following(p, pc) == proc' = [proc EXCEPT ![p].pc = pc, ![p].i = @ + 1]

(* Mutant: the configuration of the last life is kept.                     *)
EndsKeeping(p, why) ==
  /\ proc' = [proc EXCEPT ![p].pc = "off", ![p].said = why]
  /\ IF lock = p THEN lock' = None /\ staged' = Fresh ELSE UNCHANGED <<lock, staged>>

(* The process ends, closing its connection rolls back what is open, and   *)
(* it says why: an error, or that what was accepted is "unusable".         *)
Ends(p, why) ==
  /\ proc' = [proc EXCEPT ![p] = [Off EXCEPT !.said = why]]
  /\ IF lock = p THEN lock' = None /\ staged' = Fresh ELSE UNCHANGED <<lock, staged>>

quiet == <<node, starts, swaps, initial>>      \* what no step of a start touches

(* load_config, then the loop of run_daemon over the configured disks.     *)
Start(p, c) ==
  /\ At(p, "off") /\ starts < MaxStarts /\ starts' = starts + 1
  /\ proc' = [proc EXCEPT ![p] =
       IF Accepted(c)
       THEN [Off EXCEPT !.pc = "verify", !.conf = c,
                        !.active = {c.disks[i].path : i \in DOMAIN c.disks}]
       ELSE [Off EXCEPT !.said = "error"]]
  /\ UNCHANGED <<file, lock, staged, node, swaps, initial, ran, rows>>

Verify(p) ==
  /\ At(p, "verify")
  /\ \E log \in Logs :
       IF Resolves(Disk(p).path) /\ SerialMatches(Disk(p)) /\ log \in UsableLogs
       THEN /\ LET noted == [proc[p] EXCEPT !.seen[Disk(p).path] = node[Disk(p).path].number]
               IN  proc' = [proc EXCEPT ![p] = IF IsLast(p) THEN [noted EXCEPT !.pc = "open"]
                                                ELSE [noted EXCEPT !.i = @ + 1]]
            /\ UNCHANGED <<lock, staged>>
       ELSE Ends(p, "error")
  /\ UNCHANGED <<file, quiet, ran, rows>>

(* Connection::open, the pragmas and their read-backs, the WAL checkpoint: *)
(* each may fail (Dies), none changes what is stored.                      *)
Open(p) ==
  /\ At(p, "open") /\ Move(p, "version")
  /\ UNCHANGED <<file, lock, staged, quiet, ran, rows>>

(* initialize_or_validate_v1 reads the version and the table names in two  *)
(* statements; another process may commit between them.                    *)
ReadVersion(p) ==
  /\ At(p, "version")
  /\ CASE file.version = 0 -> Move(p, "names") /\ UNCHANGED <<lock, staged>>
       [] file.version = 1 -> Move(p, "validate") /\ UNCHANGED <<lock, staged>>
       [] OTHER -> Ends(p, "error")
  /\ UNCHANGED <<file, quiet, ran, rows>>

ReadNames(p) ==
  /\ At(p, "names")
  /\ IF TablesOf(file) = NoTables
     THEN Move(p, "begin schema") /\ UNCHANGED <<lock, staged>>
     ELSE Ends(p, "error")
  /\ UNCHANGED <<file, quiet, ran, rows>>

Begin(p, here, next) ==
  /\ At(p, here) /\ lock = None /\ lock' = p /\ staged' = file /\ First(p, next)
  /\ UNCHANGED <<file, quiet, ran, rows>>

(* Mutant: every statement commits by itself.                              *)
WriteThrough(new) == staged' = new /\ file' = new /\ UNCHANGED lock

(* A statement inside the transaction: nobody else sees it yet.            *)
Write(new) == staged' = new /\ UNCHANGED <<file, lock>>

CreateGlobals(p) ==
  /\ At(p, "create")
  /\ IF staged.globals = {}
     THEN Write(WithGlobals(staged)) /\ Move(p, "commit schema")
     ELSE Ends(p, "error") /\ UNCHANGED file
  /\ UNCHANGED <<quiet, ran, rows>>

(* COMMIT; when it reports an error its outcome is unknown and the start   *)
(* fails.                                                                  *)
Commit(p, here, next) ==
  /\ At(p, here)
  /\ \/ file' = staged /\ Move(p, next) /\ lock' = None /\ staged' = Fresh
     \/ file' \in {file, staged} /\ Ends(p, "error")
  /\ UNCHANGED <<quiet, ran, rows>>

Validate(p, here, next) ==
  /\ At(p, here)
  /\ IF ValidLayout(file) THEN Move(p, next) /\ UNCHANGED <<lock, staged>>
     ELSE Ends(p, "error")
  /\ UNCHANGED <<file, quiet, ran, rows>>

CheckRegistrations(p) ==
  /\ At(p, "registrations")
  /\ IF ValidRegistrations(proc[p].conf)
     THEN Move(p, "begin devices") /\ UNCHANGED <<lock, staged>>
     ELSE Ends(p, "unusable")
  /\ UNCHANGED <<file, quiet, ran, rows>>

(* Mutant: the row that holds the path makes way for the new one.          *)
RegisterRowInPlace(p) ==
  /\ At(p, "row") /\ Move(p, "tables")
  /\ Write([WithRow(staged, Disk(p)) EXCEPT !.devs = @ \ {r \in @ : r.path = Disk(p).path
                                                                 /\ r.serial # Disk(p).serial}])
  /\ UNCHANGED <<quiet, ran, rows>>

RegisterRow(p) ==
  /\ At(p, "row")
  /\ IF Conflicts(staged, Disk(p)) THEN Ends(p, "error") /\ UNCHANGED file
     ELSE Write(WithRow(staged, Disk(p))) /\ Move(p, "tables")
  /\ UNCHANGED <<quiet, ran, rows>>

RegisterTables(p) ==
  /\ At(p, "tables") /\ Write(WithTables(staged, Disk(p)))
  /\ IF IsLast(p) THEN Move(p, "commit devices") ELSE Following(p, "row")
  /\ UNCHANGED <<quiet, ran, rows>>

(* validated_device_tables and WriterHistory::open: a second, read-only    *)
(* connection; every registered device must have its tables.               *)
OpenHistory(p) ==
  /\ At(p, "history")
  /\ IF /\ Mapped(file)
        /\ \A i \in DOMAIN proc[p].conf.disks : Registered(file, proc[p].conf.disks[i]) # {}
     THEN Move(p, "prepare") /\ UNCHANGED <<lock, staged>> ELSE Ends(p, "error")
  /\ UNCHANGED <<file, quiet, ran, rows>>

(* SmartMonitorDevice::new and the rank limit convert the numbers again.   *)
Converts(c) ==
  /\ \A i \in DOMAIN c.disks :
       /\ c.disks[i].window * MsPerHour <= MaxI64
       /\ c.disks[i].window * MinutesPerHour \in 1 .. MaxU32
  /\ c.rank # 0

Prepare(p) ==
  /\ At(p, "prepare")
  /\ IF Converts(proc[p].conf)
     THEN Move(p, "idle") /\ ran' = ran \union {proc[p].conf} /\ UNCHANGED <<lock, staged>>
     ELSE Ends(p, "unusable") /\ UNCHANGED ran
  /\ UNCHANGED <<file, quiet, rows>>

-----------------------------------------------------------------------------
(* The monitor of a running process: resolve_nvme_target checks the serial *)
(* through sysfs, then the controller is opened by its name.               *)

(* Mutant: the serial was checked when the daemon started.                 *)
ResolveOnTrust(p) ==
  /\ At(p, "idle") /\ \E i \in DOMAIN proc[p].conf.disks :
       LET d == proc[p].conf.disks[i] IN
       /\ d.path \in proc[p].active /\ Resolves(d.path)
       /\ proc' = [proc EXCEPT ![p].pc = "read", ![p].i = i,
                     ![p].found = node[d.path].number, ![p].checked = swaps]
  /\ UNCHANGED <<file, lock, staged, quiet, ran, rows>>

(* A disk with another serial is given up.                                 *)
Resolve(p) ==
  /\ At(p, "idle") /\ \E i \in DOMAIN proc[p].conf.disks :
       LET d == proc[p].conf.disks[i] IN
       /\ d.path \in proc[p].active /\ Resolves(d.path)
       /\ proc' = IF SerialMatches(d)
                  THEN [proc EXCEPT ![p].pc = "read", ![p].i = i,
                          ![p].found = node[d.path].number, ![p].checked = swaps]
                  ELSE [proc EXCEPT ![p].active = @ \ {d.path}]
  /\ UNCHANGED <<file, lock, staged, quiet, ran, rows>>

With(number) == {q \in Paths : node[q].number = number}

(* Mutant: the serial is identity enough.                                  *)
IdentityTaken(p) == TRUE

IdentityMatches(p) == proc[p].found = proc[p].seen[Disk(p).path]

(* The sample of the disk the controller's name leads to by now; counted   *)
(* is the disk whose writes the collector counts under the same hash, and  *)
(* raced whether the disk came after the check.                            *)
Sample(p, serial) ==
  [hash |-> HashId(Disk(p)), serial |-> serial,
   counted |-> {node[q].is : q \in With(proc[p].seen[Disk(p).path])},
   raced |-> \A q \in With(proc[p].found) : node[q].since > proc[p].checked]

(* The controller is read: refused, to be tried again later; read, but not *)
(* where the disk was at the start, which gives it up; or the sample is    *)
(* stored, in a transaction of its own.                                    *)
ReadLog(p) ==
  /\ At(p, "read")
  /\ \E active \in SUBSET proc[p].active :
       /\ proc' = [proc EXCEPT ![p].pc = "idle", ![p].found = None, ![p].checked = 0,
                               ![p].active = active]
       /\ \/ active = proc[p].active /\ UNCHANGED rows
          \/ /\ With(proc[p].found) # {} /\ ~IdentityMatches(p)
             /\ active = proc[p].active \ {Disk(p).path} /\ UNCHANGED rows
          \/ /\ IdentityMatches(p) /\ lock = None /\ active = proc[p].active
             /\ \E q \in With(proc[p].found) :
                  rows' = rows \union {Sample(p, node[q].is)}
  /\ UNCHANGED <<file, lock, staged, quiet, ran>>

NobodyLeft(p) ==
  /\ At(p, "idle") /\ proc[p].active = {} /\ Ends(p, "error")
  /\ UNCHANGED <<file, quiet, ran, rows>>

-----------------------------------------------------------------------------
(* Crash, kill, I/O error, busy timeout or operator, at any step.          *)
Dies(p) ==
  /\ ~At(p, "off") /\ Ends(p, "error")
  /\ UNCHANGED <<file, quiet, ran, rows>>

(* Another disk, or the same one at another number.                        *)
Swap(q) ==
  /\ swaps < MaxSwaps /\ swaps' = swaps + 1
  /\ \E new \in Targets :
       /\ new.is # node[q].is \/ new.number # node[q].number
       /\ node' = [node EXCEPT ![q] = [is |-> new.is, number |-> new.number,
                                       since |-> swaps + 1]]
  /\ OneDiskPerNumber(node')
  /\ UNCHANGED <<file, lock, staged, proc, starts, initial, ran, rows>>

Init ==
  /\ file \in Files /\ initial = file /\ lock = None /\ staged = Fresh
  /\ node \in [Paths -> [is : Serials, number : Numbers, since : {0}]] /\ OneDiskPerNumber(node)
  /\ proc = [p \in Procs |-> Off] /\ starts = 0 /\ swaps = 0
  /\ ran = {} /\ rows = {}

Step(p) ==
  \/ \E c \in Configs : Start(p, c)
  \/ Verify(p) \/ Open(p) \/ ReadVersion(p) \/ ReadNames(p)
  \/ Begin(p, "begin schema", "create") \/ CreateGlobals(p)
  \/ Commit(p, "commit schema", "validate")
  \/ Validate(p, "validate", "registrations") \/ CheckRegistrations(p)
  \/ Begin(p, "begin devices", "row") \/ RegisterRow(p) \/ RegisterTables(p)
  \/ Commit(p, "commit devices", "validate again")
  \/ Validate(p, "validate again", "history")
  \/ OpenHistory(p) \/ Prepare(p)
  \/ Resolve(p) \/ ReadLog(p) \/ NobodyLeft(p) \/ Dies(p)

Next == (\E p \in Procs : Step(p)) \/ (\E q \in Paths : Swap(q))

Spec == Init /\ [][Next]_vars

-----------------------------------------------------------------------------
(* Properties                                                              *)

(* The type invariant.                                                     *)
TypeOK ==
  /\ lock \in Procs \union {None} /\ starts \in 0 .. MaxStarts /\ swaps \in 0 .. MaxSwaps
  /\ file.version \in Nat /\ file.globals \subseteq GlobalTables
  /\ file.data \union file.history \subseteq Serials \X Paths
  /\ node \in [Paths -> [is : Serials \union Refused, number : Numbers \union {None},
                         since : 0 .. MaxSwaps]]
  /\ \A p \in Procs : proc[p].active \subseteq Paths /\ (proc[p].conf = None <=> At(p, "off"))
  /\ ran \subseteq Configs /\ \A r \in rows : r.serial \in Serials

(* The database found at the first start: none, or this program's.         *)
Ours == initial = Fresh \/ Readable(initial)

(* Whatever start failed, at whatever statement, and whoever else was      *)
(* starting: a database this program made is either empty or complete, so  *)
(* the stats command and the next start never find half of it; one it did  *)
(* not make is left as it was found (initialize_or_validate_v1,            *)
(* register_devices_startup).                                              *)
SchemaIsWhole == IF Ours THEN file = Fresh \/ Readable(file) ELSE file = initial

(* Samples filed under a hash were read from the disk with the serial in   *)
(* that hash, unless the disk was exchanged between the serial check of    *)
(* that very sample and the opening of the controller                      *)
(* (resolve_nvme_target, then read_smart_from_resolved), whatever was      *)
(* exchanged or renumbered before and whoever took over its number.  And   *)
(* in any case it is the disk whose writes the collector counts under the  *)
(* hash by the number noted at the start (identity_matches).               *)
OwnHistory ==
  \A r \in rows : r.counted = {r.serial} /\ (r.serial = r.hash[1] \/ r.raced)

(* What the database demands of a configuration.                           *)
Admits(f, c) ==
  Readable(f) /\ \A i \in DOMAIN c.disks : ~Conflicts(f, c.disks[i])

(* A configuration the daemon has run with is never refused by the         *)
(* database afterwards, whatever other configurations, crashes and failed  *)
(* starts came in between (apply_device_registrations never takes a row    *)
(* away).                                                                  *)
StartsAgain == \A c \in ran : Admits(file, c)

(* A configuration that config.rs accepts is never found unusable later in *)
(* the start, once the disks are verified and the database is written.     *)
(* Mail addresses are no part of it: they are parsed when a mail is        *)
(* written.                                                                *)
UsableWhenAccepted == \A p \in Procs : proc[p].said # "unusable"

=============================================================================
