# nvme-disk-mon: specification and proofs

`nvme-disk-mon` is a daemon that watches the SMART write counter of NVMe
devices, attributes the bytes written to cgroups, keeps both histories in SQLite
and sends a mail when a device writes more than a threshold in its window. This
directory holds its TLA+ model, the TLC configurations that check it on small
instances, and the theorems about it that TLAPS proves for every instance.
Paths are relative to the directory above this one (`src/src/main.rs` is the
repository's `src/main.rs`).

## The system

| part | source | state it keeps | operations | hard because of |
| --- | --- | --- | --- | --- |
| database handle and writer | `database/mod.rs`, `database/task.rs` | bounded FIFO, `pending_smart`, `unconfirmed_requests`, one SQLite connection | submit, replay, execute, retry, reopen, roll back, shut down | several threads, lost answers, unknown COMMIT outcomes, panics, process death |
| writer collector | `writer/collector.rs` | open bucket, baselines, seen instances, amounts, gaps | scan, close a bucket, hand it over, publish it | state of one scan used by the next, partial read failures, wall clock, late scans |
| boundary tracker | `writer/collector.rs:56-108` | the latest boundary report | publish, wait | waiters may miss a minute |
| SMART monitor | `monitor/mod.rs` | baseline, pending sample, schedule, active flag per device | sample, classify, commit, reschedule | clock steps, read failures, crash between commit and alert |
| alert tasks | `monitor/mod.rs:330-415` | none of their own | wait for the boundary, rank, send | concurrent tasks, stop at any point |
| supervision | `main.rs` | stop flag, exit messages, first failure | start, supervise, join, shut down | threads that end on their own |
| schema | `database/schema.rs` | tables, device registrations | checkpoint, validate, register, recover | crash during startup, stale recovery state |
| history ranking | `writer/history.rs` | none (read only) | rank complete windows | reads during writes |
| mail and OAuth | `mail/*.rs` | token cache file | send, authorise, refresh | rotating tokens, unknown submission outcome, two processes on one file |
| SMART reader | `monitor/smart.rs` | none | identify a disk, read its log | the disk is exchanged between check and read |
| configuration | `config.rs` | none | accept or refuse a file | what it lets pass is converted again later |
| command line | `cli.rs` | none | read-only queries, mail commands | runs next to the daemon |
| deployment, build scripts | `scripts/**` | files on the host | install, build | a step fails after others were done |

How they interact. The main thread starts the database writer, then the
collector and the monitor. Both producers submit batches through clones of
`DatabaseHandle` and block until the writer thread answers. The collector
publishes each closed minute to the tracker after its batch is committed; alert
tasks, started by the monitor after a sample is committed, wait for the minute
of their sample there. All of them read one stop flag, which a signal or the
supervisor raises. Only the database survives a process.

What makes each part correct: the database handle tells the truth about
durability and never shows part of a batch; a bucket recorded as complete is
exact; a recorded minute is recorded once and reported only afterwards; a
sample's amount is the difference to the sample before it and an alert is raised
at most once and only for a durable sample; an alert waits for its minute and no
longer; the daemon stops as a whole when one of its threads ends, and its exit
status says why; a start that fails leaves the database empty or complete, and
an accepted configuration stays usable; a mail is accepted at most once, and a
working refresh token is not thrown away.

## Modules

| module | models | state ↔ code |
| --- | --- | --- |
| `CommitContract` | what the handle promises a submitter: durable as a whole, at most once, only while it waits; CommitAck only if durable, refusal only if absent | `durable`: batches in the file; `outcome`: what `submit` returned |
| `BucketContract` | what the collector promises those who read its markers and reports: how a minute becomes the open bucket, is closed, recorded and reported, and what an ending process leaves of it | `open`, `hand`: the open and the closed bucket; `recorded`: markers in the file; `report`: the tracker |
| `SampleLog` | what the monitor promises of its rows: one log per device that is only appended to, a row counts from the row before it, only the latest raises an alert | `rows`: the data tables; `alerts`: what was raised |
| `DatabaseWriter` | `submit_inner`, the writer thread, SQLite transactions, shutdown, process death | `queue`/`receiving`: the `sync_channel`; `ack`/`progress`: `DbRequest.commit_ack`/`progress`; `pc`: where `submit_inner` stands; `wpc`, `tries`, `connected`, `staged`: `process_request`'s locals, the connection and its open transaction; `db`: committed rows; `outcome`: history |
| `WriterCollector` | `CollectorState` and `WriterCollector::run`, with the kernel's cgroup tree and counters as environment | `baseline`, `seen`, `amount`, `incomplete`, `bucket`, `initialized`: the fields of those names; `closed`: the bucket in hand; `report`: the tracker; `recorded`: durable buckets; `since`, `troubled`, `quiet`: history, what really happened since the scan that opened the bucket; `irregular`: history, the minutes not scanned in time |
| `SmartMonitor` | `SmartMonitorTask::run` with everything it calls, `load_recovery_state`, and the threshold events of `stats` | `base`, `pending`, `due`, `failures`, `active`: the fields of `SmartMonitorDevice`; `pc`, `pos`, `now`, `sampled`, `sampledAny`: where the loop stands and its locals; `rows`: the devices' data tables; `stop`: the shared flag; `clock`, `units`, `same`: wall clock, controllers' counters, identities; `alerts`, `last`, `exceeded`, `unbroken`: history |
| `Daemon` | `run_daemon` and `supervise_long_tasks`, the threads as they submit, publish and return, the alert tasks with the tracker, the history query and the mail gate, the end of the process | `sup`: where the main thread stands; `first`: `first_failure`; `stop`: the flag; `channel`: the exit channel; `task`/`outcome`: the join handles; `database`: the writer thread as its owner sees it; `open`, `hand`: the collector's bucket; `report`: the tracker; `complete`: completeness markers; `alert`, `gate`: alert tasks, mail gate; `failed`, `lateMails`: history |
| `Startup` | `load_config_from` and `validate_config`, disk verification, `initialize_or_validate_v1`, registration, `SmartMonitorDevice::new`, then the identity check of every sample | `file`: stats.db as committed; `lock`, `staged`: the open `BEGIN IMMEDIATE` and what it would make of the file; `node`: the disk and device number each by-id link leads to; `proc`: per process, `run_daemon`'s place and locals, `seen` and `found` the numbers noted at the start and by the last check; `initial`, `ran`, `rows`, with `checked` and `since` the times of checks and exchanges: history |
| `TokenCache` | `acquire_smtp_oauth_token`, the cache file and its replacement, with the authorization server as environment | `cache`: `oauth_token.json`; `disk`: what survives a power failure; `acq`: the locals of an acquisition; `server`: the refresh tokens it honours, the expiry times; `lost`: history |
| `MailDelivery` | `send_mail`, `validate_mail`, `authorize_mail` and the SMTP session, over `TokenCache` | `job`: the call with its retries and forced refresh; `conn`: the session; `offered`, `accepted`: the mail server |
| `DatabaseWriterProofs`, `WriterCollectorProofs`, `SmartMonitorProofs`, `DaemonProofs`, `StartupProofs`, `MailDeliveryProofs` | the theorems about the module each is named for | |
| `TokenCacheProofs` | what every step of `TokenCache` preserves, for `MailDeliveryProofs` | |
| `MC*` | instances for TLC | |

Each definition that stands for code is listed with its lines in `PROJECT.json`
(`map`).

### DatabaseWriter

One action per step another thread can observe: reading the stop flag (`Admit`)
and sending (`TrySend`) are separate, because the flag can be raised in between;
so are taking a request (`Receive`), each statement (`Body`), `Commit`,
`Rollback`, and answering (`Reply`). SQLite is a nondeterministic environment:
BEGIN, a statement, COMMIT and ROLLBACK may each fail in each of the classes
`map_sqlite_error` and the two classification functions tell apart, and an
unknown COMMIT may or may not have made the rows durable. `Panic` is a panic of
the writer thread anywhere in `process_request`; it drops the request, hence the
answer channel, before the receiver. `Crash` is the death of the process and its
next start.

A batch has rows of its own: producers use distinct timestamps, and the upserts
make a repeated batch idempotent. Requests to register devices are not modelled;
the daemon submits none (`database/mod.rs:330-332`).

Modelling the replay led to an observation that is now an invariant: an answer
is only lost when the writer thread is dying, so a replayed request is never
executed (`ReplayIsNeverServed`); the replay loop always ends in
`CommitAcknowledgementLost`.

### WriterCollector

A scan is one step: `scan_cgroups` reads a tree that in reality moves under it,
and the model takes the kernel's steps between scans. What a scan may meet is one
fault per scan, out of the kinds a configuration allows (`Faults`); a bound, but
faults of successive scans combine freely. `Scan` is `process_scan` as a whole
together with the marking the loop does before and after it. A bucket is an
integer minute; `late` stands for both `SamplingDeadlineMissed` and
`DatabaseBackpressure`. Amounts are kept per cgroup instance, not per workload
name, which only adds amounts up; the sum's overflow is represented by
`MaxAmount`, the bound checked when a bucket is closed. The database is the
contract proved for `DatabaseWriter`: an acknowledged bucket is durable, one
with any other answer may be, and the collector ends. The truth an amount is
compared with (`since`) counts only cgroups that exist at the closing scan:
bytes of a cgroup that came and went between two scans cannot be seen by the
program and are no part of its promise.

The history variable `since` follows the kernel's hierarchical accounting: a
write counts for its cgroup and every ancestor from the moment it happens. The
history variable `troubled` names the devices of a bucket that something
happened to: a fault, or a cgroup that came or went inside one with a counter,
which stops or starts being a leaf and is read no more, or again. The history
variable `irregular` keeps the minutes that have no boundary of their own: both
sides of a skipped minute, the minutes of a late scan, the one open while a
commit took longer than a sample period, and those of a clock set back.
`ExactAttribution` demands that such a bucket is complete for no device, however
exact its amounts may happen to be.

### SmartMonitor

One pass of the loop is split where another actor can step in: at the top (the
stop flag), at every device, before and after a submission, at the end of the
pass, and in its sleep. Time is the wall clock in ticks: `Minute` ticks are a UTC
minute, which is also `WINDOW_TOLERANCE_MS`. Amounts are NVMe data units; the
factor that makes them bytes scales threshold and overflow bound alike. All
devices share one window and one threshold, and a restart keeps the
configuration. A pass reads the clock once for all devices (`now`) and again
after each read (`sampled`), and the model lets any time pass in between, except
under `Prompt`, where time passes only while the monitor sleeps: the assumption
under which a promise about windows can be made at all. The clock is moved back
only where a configuration lists that fault. A new process starts at a later
clock, verifies its devices and takes the recovered row as baseline; the
first start falls on any tick of a minute. The database is `CommitContract`: an
acknowledged sample is durable, one answered with an error may be, and the
thread ends. `pending` never survives that thread, so the resubmission of a
pending sample is modelled and turns out never to happen. The alert task that
`handle_threshold` starts is one element of `alerts`; what becomes of it is
`Daemon`'s.

`StatsEvents` is the other reader of the same rows (`observe_threshold` over the
`LAG` query of `stats`): it decides anew which samples exceeded the threshold,
from rows that do not say what the monitor decided.

### Daemon

The composition. The database is the three states its owner can tell apart; a
submission succeeds, fails, or takes the writer thread with it
(`DatabaseWriter` says how). The collector keeps its loop, its bucket and the
report, and loses the scans (`WriterCollector`); the monitor keeps the samples
that exceed the threshold (`SmartMonitor`). One device stands for each: an alert
names a minute and a window, whatever the device.

What another thread can observe is a step: the send of an exit message and the
end of the thread that sent it are two (`SendExit` after `Return`), the look at
the join handles and the second look into the channel are two (`SupCheckTasks`,
`SupReceiveAgain`), and a panic ends a thread without a message. `try_recv` at
the top of the loop and `recv_timeout` at its end give the same answers and are
one step together with the look at the flag between them. An alert task looks at
the flag in its wait, before the gate and behind it; the first look, before the
wait, has no effect of its own. Raising an alert is part of the monitor's
acknowledged submission. After an error `main` calls `process::exit` and cuts
alert tasks off; after a clean end the runtime is dropped and waits for them.
With the process its memory is gone, which `Exit` says by resetting it.

The bucket the process starts in is incomplete, as in `WriterCollector`. A ranking
is refused unless each minute of the window has its marker, and a refused or
failed ranking only changes the text of the mail. One thing prevents a mail
altogether: `config.rs` never parses the addresses, so a configuration is
accepted whose alerts cannot be written; they are logged and given up
(`unsendable`).

### Startup

Two processes may run `run_daemon` on one file (the daemon started twice, by
hand and by the service manager); each statement that reads or writes the file is
a step, and `Dies` ends a process at any of them, for an I/O error, a busy
timeout or a signal. A transaction is `BEGIN IMMEDIATE`: `lock` and `staged`. A
COMMIT that reports an error may have happened. The version and the table names
are read in two statements, so the second process of a first start may meet
tables without a version, or find the schema made when it begins: it refuses to
start, which is harmless and what the code does.

A configuration is its disks, its mail part and the set of its textual defects.
The window of a disk is checked in two units; both are kept, with scaled
constants so that a window exists which fits one and not the other. `UsableWhenAccepted` then relates `config.rs` to the
conversions in `monitor/mod.rs` far behind it. Mail addresses are no part of it
(see `Daemon`). SHA-256 is taken to be injective over its inputs; a disk's hash
id is the pair. SQL text is one flag, `canonical`. The `stats` command is
`Readable`: what it demands of the file.

A disk is known by its serial, and by the device number and controller name it
had at the start. The kernel gives a number away again as soon as its disk is
gone, so `Swap` lets the next disk take the number of the one before, as well as
move a disk to another number: the first is stopped by nothing but the serial
check that `resolve_nvme_target` repeats for every sample (`Resolve`), the second by
nothing but `identity_matches`, which compares path, number, controller name and
hash with those of the start. A number and the controller's name change
together in the model. `Resolve` notes the number whose serial it checked, and
the controller is then opened by name, so a disk exchanged in between is read under
the wrong hash. A row is `raced` only if the disk it was read from took its
place after the check of that very sample; `OwnHistory` speaks of all other rows, and
demands of every row that it is of the disk whose writes the collector counts by
the number of the start (`counted`). A serial check after opening would not
need the exception.

`Validate` is one step, though the code reads the schema in several statements
without a transaction. What another process changes between them can only make
the validation fail, and the process ends as in `Dies`.

### TokenCache and MailDelivery

The daemon sends; an operator authorizes and validates next to it. Both acquire
tokens through one file that nothing locks. Within the daemon the mail gate
serialises the attempts (`Daemon`), so one `send` at a time is enough.

In `TokenCache` the attempts at the metadata are one outcome; reading the clock
and the cache is one step. The token request keeps its attempts: an answer lost
on the way leaves the server with a new refresh token and the file with the old,
and the retry uses the old. The server may rotate on every answer or on none.
`WriteTemporary`, `Rename` and `SyncDirectory` are apart because a power failure
undoes a rename that was not synced (`disk`). `lost` names the cases in which no
program without a lock and without a second copy could have kept the token: the
answer with the new one never came or was refused by the program's own checks,
a write failed, the machine went down during an acquisition, or two acquisitions
overlapped. Everywhere else `RefreshTokenIsKept` demands it.

In `MailDelivery` the commands of a session that leave nothing behind on the
server are one step per stage; a stage may succeed or break with each reply the
error classification distinguishes. The terminator and the final reply are steps
of their own, because after them the server may have taken the mail. OAUTHBEARER
differs from XOAUTH2 in its bytes only and is left to the latter.

## Runs

| run | instance | asks |
| --- | --- | --- |
| `writer_daemon` | the daemon's two producers, 2 batches each, queue of 1, 3 attempts, 3 replays, one invalid batch, 1 process death | are the answers true; is a batch ever torn; is the contract kept; is what a submission takes given back on every way out |
| `writer_live` | both producers, queue of 2, fair threads | is every submission answered; does shutdown end, and the writer thread with it |
| `collector_exact` | 1 cgroup, 1 device, 4 minutes, 1 restart, every fault but the two gaps below | is a complete bucket exact and recorded once; is a bucket not scanned in time complete for nobody; is `BucketContract` kept |
| `collector_gaps` | 2 devices, faults of one of them | does a gap stay with its device and end with its cause; is a report durable |
| `collector_first_read`, `collector_nested` | the smallest instances with one more kind of fault | the two disagreements below |
| `monitor_chain` | 1 device, clock to 8 with windows of 4, read failures, regressions, amounts that do not fit, 1 restart | are rows and alerts those of `SampleLog`, across the restart too; do `stats` and the monitor agree; is an alert earned and raised once |
| `monitor_prompt` | 2 devices in one pass, window 12, minute 6, two quick retries, an exchanged device | do rounding and retries together stay in the tolerance; is a device ever scheduled out of reach |
| `monitor_steps` | 1 device, the clock set back at any time | is anything counted twice |
| `daemon_life` | 2 alerts, 3 minutes, window of 1 minute, one failure of any kind, a signal at any time, fair threads | is the exit status true; does an alert ask too early, or never; how many mails follow a stop; does the collector among the other threads keep `BucketContract`; does the process end |
| `startup_shared` | 2 processes, 2 paths, 2 serials, 2 device numbers, 4 valid and 19 flawed configurations, 5 files, 3 starts, 1 exchange | is a schema ever half made; is a history its disk's own; can a start make a later one impossible; is an accepted configuration usable |
| `mail_once` | the daemon and a command, PLAIN and XOAUTH2, both TLS modes, 1 power failure | is a mail taken twice or misreported; is a refresh token lost; are credentials shown outside TLS |

Bounds. The queue's 32 places become 1 or 2. The daemon's two producers have at most
two requests between them and never fill the 32; a queue of 1 lets
`writer_daemon` meet a full one with a producer outside all the same, and
`writer_live`, like the daemon, never does. Two
batches per producer let the effects of one submission meet the next; one
process death separates two lives. In the collector two or three bytes, four
minutes and one restart give a bucket before, with and after each fault, and
skipped minutes; `collector_gaps` needs the second device to tell a shared gap
from a device's own. The monitor's clock allows two windows and a restart between
them; a minute of 2 ticks and a window of 4 have samples before, at and after
each edge of the tolerance, and `monitor_prompt` has a minute of 6 so that half a
minute of rounding and the retries' delays fill the tolerance nearly up: with
one doubling more the sample falls out.

In `daemon_life` three minutes let a report come for an alert's minute, for a
later one, or not at all (`MaxSkipped` is 1: a scan misses at most one whole
minute); two alerts meet at the gate; one failure, because the second thread to
fail meets a supervisor that stops already, and the order of a failure, a signal
and the other thread's end is free. `EveryAlertIsTried` speaks of alerts whose minute
the bounded clock can still pass. In `startup_shared` the five files are an empty
one, one of a newer version, one with tables and no version, one with an
altered table, and one that is complete and names no device; three starts allow a
failed start, another configuration and the first again; two numbers and one
exchange let a disk take another's number or move to another one, and do so
before the check, between check and opening, and after; the integer ranges are scaled
(`MsPerHour` 2, `MinutesPerHour` 1, `MaxI64` 8, `MaxU32` 2), keeping a window
valid in one unit only. In `mail_once` `HttpAttempts` is 2 (the code's 3) and
`TransientRetryLimit` the code's 2; a lifetime, margin and clock of one tick give
a token valid, in its margin and expired; three issued tokens allow a rotation
after the rotation; each process makes one call, and a power failure separates
it from the next life.

Deadlock is not checked: producers, daemon, collector, monitor, calls and
processes really stop.

Fairness (`FairSpec`). Each thread is scheduled by the operating system, and
every step inside `submit_inner` and inside the writer terminates, so each
producer (inside a submission), the writer and the main thread get weak
fairness. Nothing obliges a producer to submit, a signal to arrive, a thread to
panic or the process to die. `writer_live` uses a queue with a place for each
producer. `ShutdownFinishes` demands more than the end of the shutdown, which
gives up waiting after its timeout: unless the process dies, the writer thread
itself must have ended, so a handle that outlives the producers is found. In `Daemon` the main thread, the collector, the monitor's leaving and
submitting, the sending of exit messages and every alert task get weak fairness: each is a
thread of its own, each of its steps terminates (a mail has a bounded number of
attempts, each with its timeouts), and time passes. Sampling gets none: nothing
obliges a device to exceed its threshold. Neither do signals, panics or failures. With fewer
places in the queue two producers could starve each other in the polling loop only if each kept finding the queue full, which the daemon's two producers
and 32 places exclude.

## Disagreements between code and text

* `collector_first_read`: `collector.rs:390-392` says a failed boundary scan is
  carried forward so that a later read "cannot be mistaken for a newly created
  cgroup and counted from zero". For a cgroup that was never read before nothing
  is carried, and its counter is counted from zero in a complete bucket. The same omission has
  a second form (`readAgain` in `Faults`): a failed read drops the baseline, so a
  second failure in a row charges nobody and the new bucket lacks bytes;
  `collector_exact` leaves both forms out.
* `collector_nested`: a cgroup that becomes a leaf when its children are removed
  is first read then, with a hierarchical counter that holds older bytes, and is
  counted from zero like a new one.

Consequences that no text contradicts. Mail addresses are first parsed when an
alert is written, so a daemon with a wrong one starts, runs and never mails
(`unsendable` in `Daemon`). And two of the wall clock: after it is set
back the monitor sleeps until the old time is reached again, and a device is not
sampled meanwhile; and a restart takes the row with the greatest timestamp
(`schema.rs:744`), which is then not the one committed last, so that bytes of the
rows since are counted again. `DueIsNear` and `KeepsLog` are
therefore checked for a clock that is not set back, `CountedOnce` within one
process for one that is (`NothingTwice` proves it for both).

## Proofs

Each `*Proofs` module states its theorems about `Spec` of the module it extends,
for every value of the constants the module's `ASSUME`s admit, whatever their
size. Only a few theorems say more about the constants; each such hypothesis
has a name and is explained below.

| module | theorem | property | beyond the module's assumptions |
| --- | --- | --- | --- |
| `DatabaseWriterProofs` | `TypeCorrect` | `TypeOK` | |
| | `TrueAnswers` | `AnswersAreTrue` | |
| | `NoTornBatch` | `WholeBatches` | |
| | `OneCopy` | `OneCopyInHand` | |
| | `ImplementsContract` | `KeepsContract` (refinement of `CommitContract`) | |
| | `AlwaysConnected` | `ServesConnected` | |
| | `ReplaysAreInVain` | `ReplayIsNeverServed` | |
| | `NothingLeaks` | `AccountingExact` | |
| `WriterCollectorProofs` | `TypeCorrect` | `TypeOK` | |
| | `ReportsAreDurable` | `ReportedIsRecorded` | |
| | `HandedOverOnce` | `RecordedOnce` | |
| | `TrackerMovesForward` | `ReportsMoveForward` | |
| | `GapsHaveCauses` | `QuietBucketIsComplete` | `Steady`: counters are not reset |
| | `BucketsAreExact` | `ExactAttribution` | `Exact`: no cgroup inside another, no failing first or repeated read |
| | `KeepsTheContract` | `KeepsBuckets` (refinement of `BucketContract`) | |
| `SmartMonitorProofs` | `TypeCorrect` | `TypeOK` | |
| | `RowsAddUp` | `HistoryAddsUp` | `Forward`: the clock is not set back |
| | `NoFalseAlert` | `AlertsAreEarned` | `Forward` |
| | `StatsTellTheSame` | `StatsAgree` | `Forward` |
| | `OneAlert` | `AlertedOnce` | `Forward` |
| | `TakesUpTheLast` | `RecoversLastCommitted` | `Forward` |
| | `NothingTwice` | `CountedOnce` | `Growing`: counters are not reset, and the clock is not set back or the process not restarted |
| | `OneLog` | `KeepsLog` (refinement of `SampleLog`) | `Forward` |
| | `NeverFarAway` | `DueIsNear` | `Forward`, `RetriesFit`: all quick retries take half a minute at most |
| | `NoWindowIsLost` | `WindowsAreKept` | `Forward`, `RetriesFit`, `Prompt` |
| `DaemonProofs` | `TypeCorrect` | `TypeOK` | |
| | `ExitIsTruthful` | `TruthfulExit` | |
| | `AskedLateEnough` | `NeverAskedTooEarly` | |
| | `LateMailsAreBounded` | `OneMailAfterStop` | |
| | `KeepsTheContract` | `KeepsBuckets` (refinement of `BucketContract`) | |
| `StartupProofs` | `TypeCorrect` | `TypeOK` | |
| | `SchemaStaysWhole` | `SchemaIsWhole` | |
| | `HistoryIsOwn` | `OwnHistory` | |
| | `AlwaysStartsAgain` | `StartsAgain` | |
| | `AcceptedMeansUsable` | `UsableWhenAccepted` | |
| `MailDeliveryProofs` | `TypeCorrect` | `TypeOK` | |
| | `RefreshTokensAreKept` | `RefreshTokenIsKept` | |
| | `SentOnce` | `MailIsSentOnce` | |
| | `CredentialsStayInside` | `CredentialsInsideTls` | |

Three of these properties are no run's own. `ReportsMoveForward` is part of what
`KeepsBuckets` says, and `HistoryAddsUp` of what `KeepsLog` says: each row joins
the one before it. `RecoversLastCommitted` is what lets a restart keep that log.
`collector_exact` and `monitor_chain` check the two refinements.

All of them follow from one theorem per module, `Invariance: Spec => []IInv`
(in `DatabaseWriterProofs` and three invariants on top of it, in `DaemonProofs`
and one). Few of the
properties are inductive. Each action has a lemma of its own in the proof of
`IInv /\ [Next]_vars => IInv'`. What `IInv` adds:

**DatabaseWriter.** A waiting producer's request is in exactly one place (queue,
writer, or answered); the writer's staged rows belong to the request in hand; an
answer `ok` waits only for a durable batch; a batch whose attempt was never
executed and whose earlier attempts are all certain has no row in the file; a
batch becomes durable only while its submitter is in flight. The refinement then
shows that `Commit` is `Apply`, `Return` is `Acknowledge`, `Refuse` or `Fail`,
and all other steps stutter. Three smaller invariants are inductive on top of
it. `ConnectionInv`: the connection is open wherever the writer stands, except
that the answer of a failed reopen may still be given. `LossInv`: only a writer
that is closing or gone leaves an answer dropped, an attempt counted or a request for
a fresh connection in the queue, so it never takes one. `CountInv`: the set of
producers in flight is finite, their devices are pairwise distinct and they are
what is counted; each step adds one producer, removes one or none.

**WriterCollector.** `HandInv` orders the recorded buckets, the bucket in hand,
the report and the open bucket. `QuietInv` (under `Steady`) finds the cause of
every gap: for a device nothing happened to, every leaf ever seen has a
baseline, every baseline belongs to a leaf that will be read, and no counter is
below its baseline. `AmountInv` (under `Exact`) is the accounting: for a device
without a gap, what is accumulated plus what the next scan will add is what was
written since the opening scan; for a cgroup that was rewound it is no more than
that. `FirstInv` keeps every device incomplete in the bucket a process starts
in, until that one has been reported. `TimeInv` does the same for `irregular`: an open
bucket in it has a gap for every device, so it is closed complete for none. With `FirstInv` each step is one of
`BucketContract`: a scan that crosses a minute is `Close`, a submission `Record`
or `Stop` (the error may hide a commit), a restart `NewProcess`; other scans, the
kernel and the signal stutter. `Steady` is needed because of what the code means to do: after a reset a counter
has no line until the next write, and its first line, which may come in a later
bucket, is not trusted there; the gap then lies in a bucket in which nothing
happened. The three things `Exact` excludes are the disagreements above.

**SmartMonitor.** `RowsInv`: a sample in hand is that of the device the loop is
at, a timestamp has one row, and a table that is not empty has a latest row.
`ChainInv` (under `Forward`): the last committed sample is the latest row; the
baseline is that sample except between a commit and its acknowledgement; the
next sample is due after it; the sample in hand was classified against the
baseline; every alert is no later than its device's baseline. `DueIsNear` is
inductive given those. `PromptInv`: a pass takes no time, and a device that has
not lost a window is due exactly at the nearest minute of its next window plus
the time its quick retries took; `RetriesFit` (all quick retries of a window together take
half a minute at most; in the code 1 + 2 + 4 seconds, `monitor/mod.rs:37-38`)
and half a minute of rounding then stay in the tolerance of a minute.
`CountInv` (under `Growing`) says that no row and no sample in hand counts
beyond the last committed counter value, whatever the timestamps are: a row
counts the units after that value up to its own, so intervals of units stay
disjoint. `Growing` is as weak as the program allows, since a counter that starts
again writes the same unit numbers once more, and a restart after a step back of the clock
counts again (see above). For `OneLog`, a commit is `Append`, because
what was classified against the baseline was classified against the latest row,
and an acknowledgement over the threshold is `Raise`; every other step,
a restart included, stutters.
`SmartMonitor` assumes `RetryAssumption`, that a retry's delay is a natural
number, because the provers do not know it of `2 ^ n`.

**Daemon.** `ChannelInv`, `OutcomeInv` and `MessageInv` tie the exit messages to
the threads: a message is sent once, by a thread that has ended; success has a
stop as its cause; until the supervisor has received one, the message of every
thread that ended without a panic waits; afterwards a failure that no longer waits is
remembered. `MainInv` says what the main thread may conclude at each of its
places. `CollectorInv` keeps the report behind the bucket in hand and that one
behind the open bucket; from it `RankInv` shows that what a ranking missed lies
before the report. `GateInv`: one alert stands behind the gate, and nobody gets
there after a stop. `OpenInv`, that the open bucket is never ahead of the clock,
is inductive on top of these and is what the refinement of `BucketContract` needs
where a process ends or the collector is spawned. Its mapping forgets the
bucket with the thread: a collector that is not running is over and has nothing
in hand, and when the process is gone the next open bucket is the clock's minute
or a later one. That this module's collector and `WriterCollector` keep one
contract is what makes the composition one: what alert tasks rely on here
(markers and reports) is what the scans there provide.

**Startup.** `ProcInv` collects what each process has verified, seen and
concluded, and that others cannot take that back: an accepted configuration,
its disks checked so far, a
validated file that stays readable with every device it has. In it `CheckedOf` is what the
serial check of a sample leaves true until the controller is opened: what is found at the checked
number is the checked disk or came later. It needs `NodeInv`, that a number
stands for one disk at a time; that numbers are reused does no harm. `LockInv`: one process is
inside a transaction, and what it would commit is whole and holds every row
there was. `FileInv` and `RowsInv` are the properties with what makes them
inductive. The assumptions say that configurations have disks as
`DiskConfig` types them, and that a file with no version and no table is one
SQLite has just created.

**TokenCache and MailDelivery.** `TokenInv` (in `TokenCacheProofs`): only tokens
the server issued go round; an expiry in the file is not later than the
server's; a refresh leaves a refresh token; and as long as nothing was lost the
server honours one token, which is in the file or in the answer in hand, and on
the disk or on its way there. `CallInv`: a call under way has had no mail
accepted and has no result, a session authenticates only inside TLS and with
the capabilities offered there. `WaitInv`: a call waits for the acquisition it
began and no other.

Where the proofs led to the model: `SchemaIsWhole` now also says that a file not
of this program is never touched at all, and the run has a fifth file for it;
`QuietBucketIsComplete` was only true without nested cgroups until `troubled`
counted the cgroups that come and go; and a conjunct of the monitor's type
invariant said less than it seemed to.

Only model-checked:

* liveness (`EverySubmissionReturns`, `ShutdownFinishes`, `EveryAlertIsTried`,
  `DaemonEnds`), out of the prover's reach together with ENABLED;
* `ExactAttribution` with counters of nested cgroups, as far as it is true
  (`collector_nested`), and the two disagreements.

## Not modelled

* The order of the ranking (`writer/history.rs`): it is one SQL statement's
  `ORDER BY`. Its checks are in `Daemon` and `Startup`.
* The ioctl, and the fields of the SMART log other than the write counter, the
  percentage and the verdicts on them.
* The bytes of TLS, SMTP, HTTP, MIME and JSON; what may come back is an outcome.
* The naming of workloads, the wording of logs and mails, argument parsing and
  printing.
* Poisoned locks: nothing panics while one is held.
* SQLite itself, beyond what its answers may mean.
* The Python build and deployment scripts: sequential, run by hand; the order of
  stop, install and start is a candidate for a small module.

Hazards no property covers are listed with the reason in `PROJECT.json`.

## Plan

1. All modules of the table above, their runs and, for every safety property,
   a theorem. *Done.*
2. Abstract specifications of handle, collector and monitor, and the proofs that
   the detailed ones implement them. *Done.*
3. Proofs still to be stated: that `Daemon`'s database takes only steps
   `CommitContract` allows; what the contracts themselves imply for their readers;
   `BucketsAreExact` for nested cgroups that never become leaves again.
4. Pure operators: ranking order, checked against a reference definition over
   bounded inputs.
5. `Deploy`: install order and clean-up.
