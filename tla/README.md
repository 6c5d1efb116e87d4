# Lazarus: a TLA+ model of the maintenance record and of its files

Lazarus records the progress of a maintenance: which hosts were running before,
that they were stopped, worked on, started again and found healthy. Automation
drives it through an HTTP API; it never touches a host itself. What it is for is
that its record can be relied on: two maintenances never own the same host, a
retried request has no second effect, and the journal explains every row of the
tables; and that the record itself survives: a backup that is reported can be
restored, a restore loses nothing, and a shutdown cuts off no write. These
modules state that, check it on small instances with TLC, and prove every safety
property that is checked with TLAPS, for any number of runs, targets, jobs, backups,
faults, rows, token lines and header characters.

## 1. Inventory

| Component | State | Operations | Talks to |
|---|---|---|---|
| Lifecycle (`internal/store/lifecycle.go`) | none: transition tables | predicates on states | used by the transactions and by the verifier |
| Store transactions (`internal/store/mutations.go`, `store.go`) | tables `maintenance`, `maintenance_captures`, `targets` | CreateMaintenance, CaptureMaintenance, TransitionMaintenance, TransitionTarget, AddObservation | one mutex and one SQLite connection; append to the journal |
| Journal (`events.go`, `schema.sql`) | `journal_events`, append only | appendEvent | written by every transaction, read back by two of them |
| Offline verifier (`verify.go`) | none: replays the journal | verifyApplicationData | `verify` command, every backup, every restore |
| HTTP API (`internal/api`) | readiness, active requests, metrics | handlers: decode, authorise, call the store, map errors | clients with ETag and If-Match |
| Automation (`examples/ansible`) | one playbook run | read, conditional write, retry, second look | the API |
| Backups (`backup.go`, `artifacts.go`) | files, manifests, `backup.*` events | create, retry, rotate, list, download | verifier, file system |
| Restore and startup (`cmd/lazarus/main.go`, `store.go`, `startup.go`) | database file, preserved copies | restore, Open, schema creation | file system |
| Server life cycle (`cmd/lazarus/main.go`, `internal/api/server.go`) | ready, draining, active handlers | start, drain, shut down | store |
| List endpoints (`reads.go`) | cursors held by clients | pages of runs, events, backups | store |
| Authentication (`internal/auth`, `internal/api/routes.go`) | token file, read once; loaded tokens | load, authenticate, require a role | API |

What is hard about it, and where:

* **Clients interleave.** Transactions are serialised, decisions are not: a
  client reads, thinks, and writes later. Only the version in its ETag protects
  it against what happened in between, including a failure and a reopen that
  bring the run back to the same phase.
* **Answers get lost.** The playbooks repeat a write after 500 or 503, and the
  first copy may have been committed, or may be committed later.
* **Failed runs come back.** `failed` counts as terminal for writes, still holds
  lock keys, and can be reopened into six phases. Every phase therefore has two
  entrances and its guards must hold at both.
* **The rules exist twice.** mutations.go decides what may happen, verify.go
  decides what may have happened. A disagreement makes a healthy database, and
  each of its backups, fail verification.
* **Lock keys must come back.** A run that nobody can finish would hold its
  hosts for ever.
* **Crashes** matter for backups, restore and first start, which work on files;
  a transaction that is cut short is rolled back by SQLite. Files are published
  by write, fsync, rename and fsync of the directory, in several steps each of
  which may fail or be the last.
* **Shutdown races requests.** The signal cancels their contexts, connections
  that are open still bring new ones, and the store is closed at the end.
* **Lists move.** A client pages through rows that others insert and change.

`PROJECT.json` lists the hazards line by line with the properties that cover
them.

### What makes each part correct

* *Transactions*: a lock key has one owner; a completed run is reconciled; a
  cancelled run was never touched; phase `stopped` means that everything is
  down; only targets found running are moved; evidence is immutable; every
  change advances the versions that clients hold.
* *Journal and verifier*: each appended event is one the replay accepts and the
  tables become what the replay makes of it; versions have no gaps; the two
  queries that read the journal see what is there.
* *API and automation*: a request takes effect at most once, only on the state
  that its sender saw, and what a job reports as done stays done.
* *Recovery*: no run is ever cornered, an administrator who winds one up does not
  go round in circles, and in the end its locks are released.
* *Backups*: whatever a power loss leaves, a database with a manifest is a backup
  that passes its checks; what a caller was told is done can be restored, that
  or a newer one; rotation leaves enough; a manifest claims an audit event only
  if there is one; a download never sends a file of an incomplete backup.
* *Restore and startup*: no committed file is destroyed, no database is put next
  to another one's companions or without its WAL, a restore that has succeeded
  stays, and the server can be brought back from whatever is left behind.
* *Server*: after a signal the store is closed under no write, a clean exit
  means that no request was cut off, and the process ends.
* *Lists*: a row that matches all the time is listed, once, and listings end.
* *If-Match*: a write is let through exactly for the versions whose ETag the
  header holds. *Authentication*: whether the server starts depends on what the
  file says, and every answer on the one record that holds the credential.

## 2. Modules

    Lifecycle <- Common <- Store   <- Journal (with Verify; instantiates Replay)
                        |          <- Automation
                        |          <- Recovery
                        |          <- TargetPaths
                        |          <- StoreProofs
                        |          Journal and StoreProofs <- JournalProofs
                        |          Automation, Recovery and StoreProofs <- ClientProofs
                        <- Verify  <- Replay
    Volume <- Backup (instantiates Archive) <- BackupProofs
           <- Restore <- RestoreProofs
    Server <- ServerProofs     Paging <- PagingProofs
    Auth and IfMatch <- GateProofs (together in MCGate too)

| Module | Models |
|---|---|
| `Lifecycle` | the two transition maps of lifecycle.go and its predicates |
| `Common` | the capture document and `parseCaptureTargets`, roles, justifications |
| `Store` | the five write transactions and their tables |
| `Journal` | Store plus the row each transaction appends, and the events of backups |
| `Verify` | event shapes, `replayMaintenance.apply`, the comparison with the tables, the lock check, `verifyGlobalEvents` |
| `Replay` | the abstract specification of the journal: append what the replay accepts |
| `Automation` | playbook jobs against the handlers, with lost answers and late copies |
| `Recovery` | an administrator's way to finish any run |
| `TargetPaths` | Store with a history of target states, for one sentence of the docs |
| `Volume` | a directory and the two kinds of fsync, as the code relies on them |
| `Archive` | what the backups promise, as an abstract specification |
| `Backup` | `BackupWithRetention`, its clean-up and rotation, and downloads |
| `Restore` | the `restore` command, `Open` and SQLite's files |
| `Server` | `runServer` and the handlers that are active when it stops |
| `Paging` | limits, cursors and pages of the two lists |
| `Auth` | the token file, `Authenticate`, `serve` and `require` |
| `IfMatch` | `versionPrecondition` and the grammar it implements |
| `MC...` | instances for TLC: payloads, preconditions, bounds |
| `StoreProofs` | the safety invariants and the action properties of Store |
| `JournalProofs` | the journal implements Store and Replay, answers its queries rightly, and always passes the verifier |
| `ClientProofs` | at most one effect of a job, and the other properties of Automation; the way out of Recovery |
| `ServerProofs` | the shutdown order of Server |
| `BackupProofs` | the invariants of Backup, and that it implements Archive |
| `RestoreProofs` | the invariants of Restore |
| `PagingProofs` | listings are complete and ordered |
| `GateProofs` | what the token file and the If-Match header come to |

Definitions whose name ends in `Bug` are deliberate mistakes in the definition
they stand next to (a dropped guard, a missed update). No action uses one; each
exists to show that a property would notice that mistake.

### How Store corresponds to the code

`Store.write` takes the mutex, opens a transaction on the only connection, runs
the function and commits, or rolls back on any error. So an operation is one
atomic step, and an operation that is refused or interrupted changes nothing.
For every operation there is

* an *outcome* operator: the early returns of the Go function in their order,
  each with the error it returns (`not_found`, `conflict`, `invalid`,
  `forbidden`, `if_match_required`, `version_conflict`), `repeated` for a retry
  that is recognised, or `ok`;
* an *action*, which requires `ok` and makes the assignments of the function.

The order of the early returns decides which status a client sees, and so what
a playbook does next; Automation depends on it.

The data is reduced to what a rule tells apart. A run has a state and a version;
a target a lock key, an original state, a state and a version. Tickets, hosts,
kinds, workflow versions and timestamps are left out, since no guard reads them.
A justification is the byte length of its trimmed text, because the rule is
about its length (1 to 4096). A lock key is a raw text and `TrimSpace` maps it to
the key that is stored, so two spellings of one key are different inputs and the
same lock. A capture is the sequence of its entries; equal documents have equal
SHA-256 digests and different ones different digests. Of the journal, Store
keeps only what the transactions read back: the set `exercised` of runs with a
`target.transitioned` event and the set `observations`. Journal keeps the rows
and checks that the two agree (`QueriesMatchJournal`).

### How Automation corresponds to the playbooks and handlers

A job goes through `read`, `write`, `reconcile`, `done` or `failed`, as the tasks
of the playbook do. `Write` is the task's request handled by the server with an
answer that arrives. `Unanswered` is an answer 500 or 503: the job tries again,
or gives up after `Retries`, and a copy of the request stays in `delayed`. A copy
may never be handled (the server was draining), or be handled at any later time
(`LateDelivery`); handled at once, it is the commit whose answer was lost.
`effects` counts how often a request changed the database and is only used by
properties. `OtherClient` makes any write at any time with `If-Match: *`, which
no version stops.

### How Volume, Backup and Restore correspond to the code

`Volume` is not code of the repository: it is the file system as `backup.go` and
`main.go` use it. A process sees `dir`. A power loss leaves one of the
directories in `possible` and may tear every file that was not fsynced; a kill
leaves `dir` as it is. For backups, changes that were not synced survive
independently of each other (`OrderedMetadata = FALSE`): the code syncs the
directory after every rename that matters, and needs nothing more. For restore
they survive in the order in which they were made (`OrderedMetadata = TRUE`).
That is an assumption: `restoreDatabase` syncs the directory once, after its last
rename (main.go:393), and on a file system that reorders renames the old
database could be lost with the power in between. Journaling file systems keep
the order.

`Backup` has one action per step of `BackupWithRetention` that somebody else can
tell apart: the clean-up removes one file at a time, the snapshot is created,
synced, renamed and the directory synced, the event is recorded or not, the
manifest goes the same way, rotation removes one file at a time. `backup` is the
call that holds `backupMu`. `Fail` is an error return at any of these steps, with
the files that the code removes on its way out; `Crash` is a kill or a power
loss. The name of a backup is a clock reading, which may be lower than earlier
ones; its content is represented by the number of its snapshot, `sha`, so that
what was taken later is greater. That the snapshot passes `Verify` is taken from
`Journal`. A download validates the pair, opens the file, validates what it
opened, records its event and sends the file, without the mutex; backups and
rotation go on in between.

Rotation takes the age of a file from its modification time (backup.go:354). The
file is written after the call that names it has read the clock, so its
modification time is at or after the reading in its name, by an unknown amount:
`Expired` is what may have reached the minimum age, and `SyncManifest` removes any
part of it. This assumes that the clock is not set back *during* a call; between
calls it may be.

`Restore` numbers the databases as they come into being. `valid` are the ones with
a schema, `dirty` the ones with commits that are only in the WAL, `written` the
ones that anybody would miss. The server's actions are `Open` on what it finds
(`Refused` collects what it does not accept; `startupQuickCheck` finds a main file
that a power loss has torn), the creation of the file and of the schema as two
steps, commits and a clean stop. Opening a database creates its WAL and its
shared memory file, whose names are on disk with the first commit and not
before: `synchronous=FULL` makes SQLite sync the WAL and its directory then. The restore command copies,
syncs, moves the four old files away one by one, renames the copy into place and
syncs the directory. A failing rename is undone, last file first; the errors of
the undo are ignored by the code and remembered by the history variable `torn`.
A failing `Stat` returns without undoing anything, as in the code.

### How Server, Paging, Auth and IfMatch correspond to the code

In `Server` the three goroutines of `runServer` and its requests interleave: main,
which withdraws readiness, shuts down, waits for the counter of active handlers
and closes the store; the signal, which cancels every context; and a handler per
request, which is counted when it enters, looks at readiness, opens a
transaction and ends. A handler may hang for ever. Both deadlines are actions
that may happen at any time in their state. `http.Server.Shutdown` is not code of
the repository: `ShutdownDone` is its documented contract, that it returns without
error once no connection is in use. A backup download, which also records an event,
counts as a read: what the properties ask of a handler is whether it has the
store open and whether it was answered, which does not depend on what it does there.

`Paging` has one module for the two lists, whose queries have the same form. A
cursor is the encoded number of the last row of a page. A run's position never
changes (it is its row number), but its state, by which it may be filtered, does.

`Auth` takes a token file as a sequence of lines, each blank, malformed or an
object with its fields in their order, repeated or unknown keys included, and
loads it record by record like `LoadFile`. The mounted file may be replaced at
any time after the first start; it counts from the next start on. A digest is represented by the text
it is computed from, texts by what the code looks at: trimmed form, length, a
blank inside.

`IfMatch` keeps the scanner's control, a loop over positions in a text of single
characters, because the property is about the text. The loop is a recursive
function from a position to what the scanner makes of the rest of the text;
`if_match` is the text, which grows by one fragment per step, and `written` counts
the fragments. Its reference definition is
of another kind: a text is a list of tags if it can be cut at some of its commas
into parts that are tags.

## 3. Runs

| Run | Instance | Shows |
|---|---|---|
| `store_race` | two runs, two keys in three spellings, three documents | keys stay exclusive while runs fail, reopen and finish in any order; completion reconciles |
| `recovery` | one run, up to two targets, six documents, thirteen arbitrary writes | cancellation, the stopped barrier, targets that must not move, evidence, versions; there is always a way out, each write of the administrator gets nearer to it, and locks are eventually released |
| `journal_replay` | one run, two targets, a backup, twelve events | every step of Journal is a step of Replay |
| `journal_full` | one run, one target, a backup, every journal of up to seven events | the whole verifier passes after every transaction |
| `automation` | one job out of fifteen operations, everybody else unrestricted | at most one effect, on the state seen; done stays done |
| `backup` | three backups, two callers, one download at a time, two faults | Backup implements Archive; pairs are intact, answers and audit claims true, downloads complete |
| `restore` | six databases, four faults | nothing committed is lost or mixed up; the server comes back |
| `server` | two writes and a read | the store outlives the writes; a signal ends the process |
| `paging` | five rows, pages of one to three | listings are complete, ordered and finite |
| `gate` | token files of three lines, If-Match headers of five fragments | loading, answers and preconditions mean what the file and the header say |
| `target_paths` | one run, one running target | the first disagreement of section 5 |
| `backup_retry` | one caller, the event cannot be saved once | the second disagreement of section 5 |

### Bounds

* `Interference = 13` (`recovery`). After creation and capture eleven writes
  reach every combination of phase and target states, failures and reopens
  included; the whole life of two running targets takes fifteen writes, the
  last of which are the administrator's, whose steps are not bounded.
* `MaxVersion = 9` (`store_race`). What matters for locks is that each of two
  runs captures, fails, is reopened and ends, in any interleaving; that takes
  six versions of each, and nine let a run complete with a target waived.
* `MaxEvents = 12` and `7`. A refinement is checked step by step, so twelve
  events only have to reach every kind of step; the replay of whole journals
  has to be small because the journal makes every path a state of its own. Seven
  events are enough to complete a run or to fail, reopen and move a target, with
  a backup taken and downloaded in between. `JournalView` lets TLC identify
  states that differ in the beginning of the journal, which is sound for
  `ImplementsReplay`: a step of Replay reads the tables, the event that is
  appended and which backups have an event already. `MaxDownloads = 1` in the
  small one, since downloads repeat; in the other it bounds nothing.
* `Retries = 2`, `MaxVersion = 7` (`automation`). Two retries give three copies of
  one request, more than the two that a double effect needs; seven versions let
  the run fail and come back to the phase that the job had seen.
* `Clock = {1, 2, 3}`, `Keep = 1`, `MinAge = 1`, `MaxFaults = 2` (`backup`). With one
  backup to keep, rotation works from the second backup on, and a third one
  meets what a failure or crash left of the second. Three readings give every
  order of names, so a clock that was set back once or twice. Two faults are a
  failure whose leftovers meet a crash.
* `MaxDatabases = 6`, `MaxFaults = 4` (`restore`). Four faults interrupt a restore,
  the one after it, its undo and a start. Each fault can cost one database, and
  one more comes from the first start and one from the last restore, so that
  the bound never keeps the server from coming back.
* `MaxRows = 5`, limits 0 (none), 1, 2 and 4, with `DefaultLimit = MaxLimit = 3` in
  the place of 100 and 200 (`paging`): full pages, a last page that is full, one
  row more than a page, and a limit that is refused. Changes are not bounded.
* `Writes = {w1, w2}`, `Reads = {q1}` (`server`): one write that is under way and one
  that comes late, next to a read.
* `MaxLines = 3` (`gate`): two records that clash with a third between them, or a
  blank line. `MaxFragments = 5` and `MaxVersion = 10`: two tags with a comma and
  blanks, weak marks, empty elements, a number with a leading zero and one that
  is too large.
* The runs of `store_race` and the callers of `backup` are interchangeable, and
  neither run checks liveness, so symmetry is used there and nowhere else.

`CHECK_DEADLOCK FALSE` is set in all of them: when every run has ended there is
nothing left to write, a stopped process does nothing, and counters are capped.

### Fairness

* `recovery`: `WF_rvars(Administrator(id))`. No write waits for another client
  (there is a mutex, and no transaction holds it across a request), so an
  administrator who keeps at it gets every step done. The other clients are not
  obliged to do anything, and they make finitely many writes: someone who keeps
  failing the run for ever can of course keep it from ending.
* `restore`: `WF` on the start of the server, which Kubernetes repeats, on the
  steps of a restore, and on beginning one while the server refuses to start,
  which is what an operator does then. Nothing is assumed of a restore that
  nobody needs, of commits and of faults; faults are finitely many.
* `server`: `WF` on main's steps and on the two deadlines, which are timers.
  Nothing is assumed of handlers, of the listener or of the signal.
* `paging`: `WF_pvars(NextPage)`: a client that lists asks for the next page. The
  others may insert up to the bound and change rows for ever.

## 4. Proofs

Every theorem holds for any sets of runs, targets, keys, documents, preconditions,
request ids, requests, jobs and retries, any clock, retention and number of
databases and faults.
The assumptions mostly give the constants their types:

* `TrimSpaceAssumption`: trimming maps every raw text to a key or to `""`;
* `PayloadAssumption`: documents are sequences of entries, and `NoCapture` is
  none of them;
* `RequestAssumption`: lengths are naturals, and preconditions well formed;
* `IDAssumption` and `BackupFilesAssumption`: `""`, which an event has where it names
  no run, target or file, is none of them. The handlers refuse empty ids;
* `AutomationAssumption`: operations are well formed and retries a natural;
* `RecoveryAssumption`: the others' writes are counted, and some justification is
  valid, so that an administrator has one to give;
* `ServerAssumption`: finitely many requests, reads apart from writes;
* `BackupAssumption` and `RestoreAssumption`: readings of the clock are naturals, and
  retention keeps at least one backup, as `main.go` validates;
* `NoFileAssumption` (in Backup and in Restore): "no file" is not a file;
* `PagingAssumption`: limits are integers, the default is positive and not above the
  maximum;
* `TextsAssumption`, `LinesAssumption`, `HeadersAssumption` and `NobodyAssumption`: lines
  have one of the three kinds, fields and credentials are texts, and "nobody" is no
  principal;
* `FragmentsAssumption` and `MaxVersionAssumption`: header fragments are texts of
  single characters, and the largest version is positive. It stands for
  `math.MaxInt64`, and the theorem holds for every value.

Three theorems of Restore have the hypothesis `OrderedMetadata`, that the volume
does not lose a rename and keep a later one: `restore` syncs the directory only
after its last rename. The runs assume it too (Restore.cfg), while `RestoredStays`
and everything about backups is proved for both kinds of volumes.

| Module | Theorem | States |
|---|---|---|
| StoreProofs | `TypeCorrect` | `Spec => []TypeOK` |
| | `StoreCorrect` | `Spec => []StoreInvariant` |
| | `LocksAreExclusive` | `Spec => []LockExclusive` |
| | `CompletionReconciles` | `Spec => []CompletedIsReconciled` |
| | `CancellationIsClean` | `Spec => []CancelledIsUntouched` |
| | `BarrierHolds` | `Spec => []StoppedPhaseIsQuiet` |
| | `OthersStayPut` | `Spec => []OnlyRunningTargetsMove` |
| | `EvidenceSurvives` | `Spec => EvidenceIsKept` |
| | `VersionsCoverChanges` | `Spec => ChangesAdvanceVersions` |
| JournalProofs | `JournalCorrect` | `JSpec => []JournalInvariant` |
| | `JournalImplementsStore` | `JSpec => Spec` |
| | `QueriesAreRight` | `JSpec => []QueriesMatchJournal` |
| | `VersionsAreDense` | `JSpec => []JournalIsDense` |
| | `JournalImplementsReplay` | `JSpec => ImplementsReplay` |
| | `VerifyPasses` | `JSpec => []VerifyAlwaysPasses` |
| ClientProofs | `AutomationCorrect` | `ASpec => []AutomationInvariant` |
| | `AutomationTyped` | `ASpec => []AutomationTypeOK` |
| | `AtMostOneEffect` | `ASpec => []AppliedAtMostOnce` |
| | `ETagsIdentify` | `ASpec => []ETagIdentifiesState` |
| | `DoneStaysDone` | `ASpec => []DoneIsDurable` |
| | `LateCopiesAreRefused` | `ASpec => DoneJobsHaveNoLateEffect` |
| | `RecoveryCorrect` | `RSpec => []RecoveryInvariant` (of Recovery) |
| | `WayOutExists` | `RSpec => []AlwaysAWayOut` |
| | `WritesGetNearer` | `RSpec => EveryWriteGetsNearer` |
| ServerProofs | `ServerInvariant` | `SSpec => []ServerInductive` |
| | `ServerTyped` | `SSpec => []ServerTypeOK` |
| | `StoreClosedLast` | `SSpec => []StoreOutlivesWrites` |
| | `CleanExit` | `SSpec => []CleanExitAnswersAll` |
| BackupProofs | `BackupCorrect` | `BSpec => []BackupInvariant` |
| | `BackupTyped` | `BSpec => []BackupTypeOK` |
| | `PairsAreIntact` | `BSpec => []PublishedPairsAreIntact` |
| | `AuditsAreRecorded` | `BSpec => []AuditClaimsHold` |
| | `DownloadsComplete` | `BSpec => []DownloadsAreComplete` |
| | `AnswersAreRecoverable` | `BSpec => []AnsweredIsRecoverable` |
| | `BackupImplementsArchive` | `BSpec => ImplementsArchive` |
| RestoreProofs | `RestoreCorrect` | `RSpec => []RestoreInvariant` |
| | `RestoreTyped` | `RSpec => []RestoreTypeOK` |
| | `RestoredStays` | `RSpec => []RestoredIsServed` |
| | `NothingIsDestroyed` | `OrderedMetadata`: `RSpec => []CommittedFilesSurvive` |
| | `CompanionsAreOwn` | `OrderedMetadata`: `RSpec => []NoForeignCompanions` |
| | `StartsAreComplete` | `OrderedMetadata`: `RSpec => []StartSeesEveryCommit` |
| PagingProofs | `PagingCorrect` | `PSpec => []PagingInvariant` |
| | `ListingOrdered` | `PSpec => []ListingIsOrdered` |
| | `ListingComplete` | `PSpec => []ListingIsComplete` |
| GateProofs | `AuthCorrect` | `ASpec => []AuthInvariant` (of Auth) |
| | `LoadingDecidesByContent` | `ASpec => []LoadDecidesByContent` |
| | `AnswersFollow` | `ASpec => []AnswersFollowTheFile` |
| | `PreconditionUnderstood` | `ISpec => []PreconditionMeansItsTags` |

### Induction over data

The provers cannot instantiate the library's induction theorems, so where a claim
is about a loop (the replay of a journal, the lines of a file, the positions of a
text, the digits of a number) the proof looks at the set of numbers at which the
claim fails. If it is not empty it has a least (or, bounded, a greatest) member,
which the equation of the recursive function refutes. `LeastNumber`, `UpTo`, `StrongUp`
and `DownFrom` of GateProofs are that argument, once for each direction. That a
recursive function exists at all, and so satisfies its equation, is shown in the
same way: partial solutions agree where both are defined, and there is one for
each bound.

### Store

**The inductive invariant.** None of the properties is inductive by itself.
`CancelledIsUntouched` says that no target was moved, but the guard of
cancellation only looks at the journal; it needs `UnexercisedIsUntouched`, that a
run without a `target.transitioned` event has no moved target. A second capture
would overwrite targets and break nearly everything; that it cannot happen is
`CaptureCreatesTargets`: a run with a capture has left `new` for good, since the
reopen into `new` requires that there is none, and a run without one has neither
targets nor such an event. `LockExclusive` needs it too, so that a run which is
created has no targets yet, and one which is reopened from `failed` held its keys
all along. `StoreInvariant` is the conjunction of all of them with `TypeOK`.

**The argument.** All parts but `LockExclusive` speak about one run at a time, and
an action changes one run. `RunOK(id)` in StoreProofs collects what the
invariant says of one run, `InvariantByRun` shows that the invariant is `RunOK`
of all runs and `LockExclusive`, and for every action there is a lemma that it
preserves `RunOK` of the run it acts on; of the others it changes nothing. Locks
need a case split only for the capture: the guard `LockInUse` compares every key
of the document with those of all runs that hold locks. No other action gives a
run keys, and none lets a run that released them hold them again. The two action
properties follow from the same invariant, one action at a time.

### Journal

`JournalInvariant` adds to `StoreInvariant` that `exercised` and `observations` are
what the journal says (`QueriesMatchJournal`) and that each run's aggregate
versions are 1..n (`JournalIsDense`); both are inductive together, since the
version of an appended event is the row's version plus one. `Records(event)` says
what an event must have in common with the transaction that appends it, one
lemma per transaction shows it, and the two invariants follow from it alone.

`JournalImplementsReplay` has two halves per transaction: `Accepts` holds of the
event in the state that stands for the old tables, and `apply` leads to the one
that stands for the new tables. The facts that the verifier checks and the store
does not look up again, such as that a run of the journal has a capture before
it moves a target, come from `StoreInvariant`. The definitions of `Verify` are
instantiated in `Replay` and extended by `Journal`; `SameAccepts` and `SameApply`
show that both mean the same.

`VerifyPasses` is about the whole verifier, which starts from an empty run and
replays the journal to its end. `VerifyInvariant` adds to `JournalInvariant` that for
each run the replay is without error and ends in what the tables say
(`ReplayIsTables`), that its targets are those of the parsed capture
(`CaptureIsParsed`), and that the events of backups are in order. One more event is
one more turn of the replay (`ReplayAfterAppend`), and what that turn does is known
from `JournalImplementsReplay`. The verifier reads the capture from the tables, not
from the journal, so a run that is captured is from then on replayed with its
capture from the first event. That gives the same result
(`ReplayWithLaterCapture`): the events that a replay without a capture accepts do not
look at it.

### Automation

`StoreGrows` says what every transaction does to versions: a run or target that
looks different has its version advanced by one, and no version ever goes back.
Each transaction is shown to do that, whatever its precondition, so it does not
matter who writes. `Remembers` says what an ETag is worth: the version of the
resource is at least the ETag, and while they are equal the job sees what it saw
then. `Spent` says that a request will be refused from now on: the run exists, the
capture is saved, the request id has its observation, or the ETag is below the
version. The invariant is that a job which had its effect, or which goes on to
look again after a conflict, is spent, and that a job which is done is spent or
has no copies under way. At most one effect follows since a commit is possible
only for a request that is not spent, and spends it; nothing makes a spent
request good again.

The observations of a job are saved under its own request ids, which need not be
among those of Store's other clients. So the invariant builds on `TablesOK`, the
part of `TypeOK` that is about the tables.

### Recovery

That locks come back is liveness, and stays with TLC; its two safety halves are
proved. `AlwaysAWayOut` says that in every reachable state some write of the
administrator towards the end of the run passes all early returns: written with
the outcome operators of Store, it needs no ENABLED. `EveryWriteGetsNearer` says
that each of his writes lowers the pair of `Stage` (three: record the failure; two:
reopen; one: cancel, or skip and complete; none: released) and `Unreconciled`, the
targets that completion would refuse. Together they say what a fair administrator
needs, whatever the number of targets.

Both rest on `StoreInvariant`, which is preserved whoever writes, and on
`ExercisedHasTargets`: a run that a `target.transitioned` event keeps from being
cancelled has targets, so that reopened to `starting` it can be completed; with an
empty capture it could not. In `starting` a target that is not reconciled is neither
skipped nor healthy (`OnlyRunningTargetsMove`), and so it can be skipped.

### Server

The invariant `ServerInductive` says what the counter counts (`CounterIsExact`: it
is the number of handlers between entry and answer) and what main knows at each
of its places (`MainKnows`): from the shutdown on, readiness is off; once it waited
for the counter no write is under way, and after a shutdown without error no
request at all. Readiness is what makes the wait final: a write that enters
afterwards is refused before it is admitted.

### Backup

`possible`, all directories that a power loss may leave, is the state that matters,
so the invariant is about each of them. `Names` says what a file may be by its
name in any of them: a published name holds a flushed, undamaged file, and a
manifest that claims to be recorded has its event. `FilesAgree` says that files
of one base have one checksum, `CallInvariant` what the call that holds the mutex
has done so far, and `AnswersHold` that every answer has a backup as new in `Held`,
the backups that are complete in *all* possible directories. It is `Held`, not the
directory as the process sees it, that rotation must leave enough of:
`RotationKeeps` counts the backups in it that are newer than the ones still to be
removed.

Volume has four ways to change a directory (create, rename, remove, sync) and one
to lose changes; a lemma for each says what it does to `Names`, `FilesAgree` and
`Held`, and every action of Backup is proved from those. Rotation and recovery
speak of the newest element of a set of clock readings; that it exists is proved
from the well-foundedness of the naturals (`MaxExists`). In the refinement each
step either adds a complete pair, retires some while a newer one is held, or
leaves the archive alone.

### Restore

What holds on every volume: files have the names of their parts (`Names`), server
and restore exclude each other (`Roles`), the copy is where the next step expects
it (`Copied`), and `RestoredIsServed`.

With ordered metadata every possible directory is `Whole`: committed files and WALs
are in it somewhere, companions belong to the database next to them, and, unless
a rename of an undo has failed, a WAL with commits is with its database. This is
not inductive while a restore runs, since between two renames the files of the
old database are at two places. `Original(s)` is the file that suffix `s` had when the
restore began, found at the path or in the rollback set, and `Together` says of the
originals what `Whole` says of a directory; `Rolled` says which suffixes have been
moved, in which order, and that the rollback set was empty before. The order of
`Suffixes` is essential: the database is moved first and comes back last, so that
whenever it is at the path its companions are too, or the ones that are left
belong to it.

### Paging

The queries order rows downwards, below the cursor, and stop after the limit. A
page is the first part of `Descending` of the rows that match; `DescendingFacts` says
that this is each of them once, in order, which is a counting argument (the
element at place i has i - 1 above it). `PagingInvariant` relates the list so far to
the cursor: the cursor is the last row that was listed (`CursorIsLast`), and every
row above it that matched all along has been listed (`PassedIsListed`). Rows are
only appended, above every cursor in use, and a row that changes leaves `steady`.

### Authentication

`ReadSoFar(file, n, result)` says what `LoadFile` has made of the first n lines: either
they are acceptable and the result holds exactly the entries of their records, or
they are not and it is an error. It is kept by each kind of line; the one that
matters compares a new record with those before it, and the reference with every
other one. `AuthInvariant` then says that a server which is up holds the tokens of
the file that it was started from, so that a later rotation of the mounted file
changes no answer. At most one entry has a given token (`AtMostOne`): so the loop of
`Authenticate` finds the record that the reference speaks of, in whatever order.

### If-Match

The scanner knows positions, the grammar only a set of commas at which the text is
cut into parts. The bridge is `TagPart`: between two cuts there is a tag exactly when
the scanner, started at the first, finds a tag and then, after blanks, the second.
`Agrees` says that from a position on the scanner accepts exactly if there is a set
of cuts whose parts are all tags, and that it then has the versions of those parts;
it is proved from the end of the text to its beginning. In one direction a list
forces the scanner's next stop (`ListIsRead`), in the other the scanner's stops are
the cuts (`LoopReadsAList`). That a tag stands for a version only if it is the text
which `VersionETag` writes for it needs that `FormatInt` and `ParseInt` are inverse to
each other (`FormatSpells`).

### Only model-checked

* Liveness is outside the prover's reach: `LocksAreEventuallyReleased`,
  `BackInService`, `SignalEndsProcess`, `ListingEnds`. What the first rests on is
  proved (see Recovery).
* The two runs of section 5, whose properties do not hold.

`AutomationTypeOK` and `BackupTypeOK` are parts of the inductive invariants and are
proved; no run spends time on them.

## 5. Disagreements with the documentation

**Targets that were never stopped** (`target_paths`). docs/architecture.md line 36
says that a target captured as running "starts as `captured` and follows
`captured -> stopping -> stopped -> starting -> healthy`", and line 39 that "a failed
target can retry through the same phase". The transition table lets a failed
target go to `stopping` or to `starting`, and `targetPhaseAllowed` looks at the
current phase of the run only. So a target that failed while it was being stopped
can, after its run failed and was reopened to `starting`, be started and become
healthy although it was never stopped. That may well be what an operator wants
when a stop went wrong; it is the documentation that does not say so.

**A retry that makes a second backup** (`backup_retry`). docs/backup-restore.md
line 19: "While the pair is retained, the same authenticated caller receives the
existing checked manifest instead of creating another backup." A backup succeeds
also when its `backup.created` event cannot be saved, with `audit_recorded` false
in the manifest, but `backupForRequest` looks for that event. The same caller's
retry then makes another backup while the first is retained.

Three more observations, which no sentence of the documentation contradicts:

* A restore that follows an interrupted one can succeed and leave the old
  database in one rollback set and its WAL in another (main.go:383). Both survive
  (`CommittedFilesSurvive`), but whoever rolls back has to look in both.
* The undo of a failed restore ignores its own errors (main.go:377). If the WAL
  cannot be moved back and the database can, the server starts without the last
  commits; `StartSeesEveryCommit` is stated for an undo that works.
* A retry may be answered with a pair whose manifest was renamed but not yet
  synced, when the first call failed exactly there (backup.go:54);
  `AnsweredIsRecoverable` is stated for the answer of the call that made the
  backup.

## 6. What is not modelled

* *`verifyRequiredSchema` and what SQLite's checks find beyond a torn file*: they
  guard against damage from outside and inspect the schema text, which the models
  do not have. *`Store.Ready`* (startup.go) reads through a connection of its own
  and changes nothing.
* *JSON decoding* beyond the objects of the token file: Store takes the parsed
  values, and what is malformed is represented by the invalid documents.
* *Versions after a restore*: they go back with the tables, and their numbers are
  used again, so an ETag from before the restore may match another state. The
  server is stopped for a restore, and clients have to read again.
* *Timestamps*: ordering never depends on them. An `observed_at` with a year of
  more than four digits is a formatting edge that a unit test covers better.
* *`auth.New`*, which only tests use; *metrics, logging, public probes*: no state
  that a property depends on. *Deployment files and test scripts*: configuration.

## 7. State of the project

Modelled and checked: the workflow (Lifecycle, Common, Store, Journal with Verify
and Replay, Automation, Recovery), the files (Volume, Backup with Archive, Restore),
the process (Server) and the edges of the API (Paging, Auth, IfMatch). Proved: every
invariant and every action property that a passing run checks, and the three
refinements (Journal of Store, Journal of Replay, Backup of Archive).

When the code changes, the order of work is: the mapped definition, the run and
its mutants, then the lemma that bears the action's name.

What could come next:

1. A restore on a volume that reorders renames, for which the code would need a
   sync of the directory between the renames (main.go:393).
2. A listener that fails while handlers are active (main.go:128), where the store
   is closed without waiting for them.
3. Versions across a restore: ETags from before it.
