------------------------------ MODULE Restore -------------------------------
(***************************************************************************)
(* The database file, its companions, and the three things that handle     *)
(* them: Open of internal/store/store.go when the server starts, SQLite    *)
(* while it runs, and the restore command of cmd/lazarus/main.go, which is *)
(* used while the server is stopped.                                       *)
(*                                                                         *)
(* Databases are numbered as they come into being, by a first start or as  *)
(* the copy that a restore makes of a verified backup.  Place 0 is the     *)
(* path that the server opens; place k the rollback set of restore k.      *)
(***************************************************************************)
EXTENDS Volume, Sequences

CONSTANTS
  MaxDatabases,
  MaxFaults        \* stops, kills, power losses, failing calls, restores nobody needed

ASSUME RestoreAssumption == MaxDatabases \in Nat \ {0} /\ MaxFaults \in Nat

VARIABLES
  next,        \* the number of the next database
  valid,       \* databases that have their schema: initialised, or verified copies
  serving,     \* the database that the server has open, 0 when it is stopped
  dirty,       \* databases with commits that are only in their WAL
  written,     \* databases that took a commit
  restore,     \* the restore command
  restored,    \* the last restore that exited with 0, unless another was begun
  torn,        \* whether a rename of an undo has failed
  faults

rvars == <<volume, next, valid, serving, dirty, written, restore, restored, torn, faults>>
databases == <<valid, dirty, written, torn>>

Suffixes == <<"", "-wal", "-shm", "-journal">>
Live(suffix) == <<0, suffix>>
RollbackBug(k, suffix) == <<k, "">>
Rollback(k, suffix) == <<k, suffix>>
Tmp(k) == <<k, ".lazarus-restore">>
RestoreNames ==
  {<<k, s>> : k \in 0..MaxDatabases, s \in {Suffixes[i] : i \in 1..4} \cup {".lazarus-restore"}}

File(n, suffix) == [db |-> n, part |-> suffix]

ASSUME NoFileAssumption == NoFile \notin [db : Nat, part : {Suffixes[i] : i \in 1..4}]

Idle == [pc |-> "idle"]

RInit ==
  /\ VolumeInit(RestoreNames)
  /\ next = 1 /\ serving = 0 /\ restored = 0 /\ faults = 0
  /\ valid = {} /\ dirty = {} /\ written = {} /\ torn = FALSE
  /\ restore = Idle

Disturb == faults < MaxFaults /\ faults' = faults + 1

-----------------------------------------------------------------------------
(* The server.  starting is [pc |-> "starting"] in restore: the two never  *)
(* run at the same time.                                                   *)

Stopped == serving = 0 /\ restore = Idle

(* inspectDatabasePath and the checks of Open.                             *)
LiveMain == dir[Live("")]
OrphanSidecar == \E i \in 2..4 : Exists(Live(Suffixes[i]))
startupQuickCheck == LiveMain \notin damaged
Refused ==
  IF Exists(Live("")) THEN LiveMain.db \notin valid \/ ~startupQuickCheck ELSE OrphanSidecar

WithCompanions(d, n) ==
  [name \in DOMAIN d |-> IF name \in {Live("-wal"), Live("-shm")} /\ d[name] = NoFile
                         THEN File(n, name[2]) ELSE d[name]]

(* SQLite creates the WAL and the shared memory file.  The directory is    *)
(* not synced before the first commit.                                     *)
OpenExisting ==
  /\ Stopped /\ Exists(Live("")) /\ ~Refused
  /\ serving' = LiveMain.db
  /\ Change([x \in {Live("-wal"), Live("-shm")} |-> WithCompanions(dir, LiveMain.db)[x]])
  /\ UNCHANGED <<contents, next, databases, restore, restored, faults>>

(* Nothing is there: SQLite creates the file and writes its header under   *)
(* a rollback journal.                                                     *)
CreateDatabase ==
  /\ Stopped /\ ~Exists(Live("")) /\ ~Refused
  /\ next <= MaxDatabases
  /\ Change([x \in {Live(""), Live("-journal")} |-> File(next, x[2])])
  /\ next' = next + 1
  /\ restore' = [pc |-> "starting"]
  /\ UNCHANGED <<contents, databases, serving, restored, faults>>

initializeSchemaBug ==
  /\ restore.pc = "starting"
  /\ serving' = LiveMain.db
  /\ dir' = [WithCompanions(dir, LiveMain.db) EXCEPT ![Live("-journal")] = NoFile]
  /\ possible' = {dir'}
  /\ flushed' = flushed \cup FilesOf(dir')
  /\ restore' = Idle
  /\ UNCHANGED <<damaged, next, databases, restored, faults>>

initializeSchema ==
  /\ restore.pc = "starting"
  /\ valid' = valid \cup {LiveMain.db}
  /\ serving' = LiveMain.db
  /\ dir' = [WithCompanions(dir, LiveMain.db) EXCEPT ![Live("-journal")] = NoFile]
  /\ possible' = {dir'}
  /\ flushed' = flushed \cup FilesOf(dir')
  /\ restore' = Idle
  /\ UNCHANGED <<damaged, next, dirty, written, restored, torn, faults>>

(* A commit syncs the WAL (synchronous=FULL) and with it the directory.    *)
Commit ==
  /\ serving # 0
  /\ dirty' = dirty \cup {serving}
  /\ written' = written \cup {serving}
  /\ flushed' = flushed \cup {LiveMain, dir[Live("-wal")]}
  /\ SyncDir
  /\ UNCHANGED <<damaged, next, valid, serving, restore, restored, torn, faults>>

(* Store.Close: the WAL is written back, and the companions are removed.   *)
Stop ==
  /\ serving # 0
  /\ Disturb
  /\ dirty' = dirty \ {serving}
  /\ flushed' = flushed \cup {LiveMain}
  /\ Change([x \in {Live("-wal"), Live("-shm")} |-> NoFile])
  /\ serving' = 0
  /\ UNCHANGED <<damaged, next, valid, written, restore, restored, torn>>

-----------------------------------------------------------------------------
(* restoreDatabase.  The backup and its manifest have been checked; what   *)
(* is refused before the temporary file is made changes nothing.           *)

destinationExists == \E i \in 1..4 : Exists(Live(Suffixes[i]))

At(pc) == restore.pc = pc

RestoreBeginBug ==
  /\ Stopped
  /\ next <= MaxDatabases
  /\ Exists(Live("")) \/ ~OrphanSidecar
  /\ IF Refused THEN faults' = faults ELSE Disturb
  /\ Create(Tmp(next), File(next, ""))
  /\ restore' = [pc |-> "copied", k |-> next, i |-> 1, moved |-> <<>>, replace |-> destinationExists]
  /\ next' = next + 1
  /\ restored' = 0
  /\ UNCHANGED <<contents, databases, serving>>

(* --replace is given exactly when it is needed.                           *)
RestoreBegin ==
  /\ Stopped
  /\ next <= MaxDatabases
  /\ IF Refused THEN faults' = faults ELSE Disturb
  /\ Create(Tmp(next), File(next, ""))
  /\ restore' = [pc |-> "copied", k |-> next, i |-> 1, moved |-> <<>>, replace |-> destinationExists]
  /\ next' = next + 1
  /\ restored' = 0
  /\ UNCHANGED <<contents, databases, serving>>

SyncCopy ==
  /\ At("copied")
  /\ SyncFile(Tmp(restore.k))
  /\ valid' = valid \cup {restore.k}
  /\ restore' = [restore EXCEPT !.pc = IF restore.replace THEN "preserve" ELSE "publish"]
  /\ UNCHANGED <<entries, next, serving, dirty, written, restored, torn, faults>>

PreserveBug ==
  /\ At("preserve")
  /\ IF Exists(Live("")) THEN Rename(Live(""), Rollback(restore.k, "")) ELSE UNCHANGED entries
  /\ restore' = [restore EXCEPT !.pc = "publish", !.moved = IF Exists(Live("")) THEN <<"">> ELSE <<>>]
  /\ UNCHANGED <<contents, next, databases, serving, restored, faults>>

Preserve ==
  /\ At("preserve")
  /\ LET s == Suffixes[restore.i] IN
       /\ IF Exists(Live(s)) THEN Rename(Live(s), Rollback(restore.k, s)) ELSE UNCHANGED entries
       /\ restore' = [restore EXCEPT !.pc = IF restore.i = 4 THEN "publish" ELSE "preserve",
                                     !.i = IF restore.i = 4 THEN 4 ELSE restore.i + 1,
                                     !.moved = IF Exists(Live(s)) THEN Append(@, s) ELSE @]
  /\ UNCHANGED <<contents, next, databases, serving, restored, faults>>

Publish ==
  /\ At("publish")
  /\ Rename(Tmp(restore.k), Live(""))
  /\ restore' = [restore EXCEPT !.pc = "published"]
  /\ UNCHANGED <<contents, next, databases, serving, restored, faults>>

SyncDirectoryBug ==
  /\ At("published")
  /\ restored' = restore.k
  /\ restore' = Idle
  /\ UNCHANGED <<volume, next, databases, serving, faults>>

SyncDirectory ==
  /\ At("published")
  /\ SyncDir
  /\ restored' = restore.k
  /\ restore' = Idle
  /\ UNCHANGED <<contents, next, databases, serving, faults>>

(* Errors.  A failing copy, or a Stat that fails between two renames,      *)
(* returns at once; a failing rename is undone first.                      *)
RestoreFails ==
  /\ Disturb
  /\ \/ /\ restore.pc \in {"copied", "preserve"}
        /\ Remove(Tmp(restore.k))
        /\ restore' = Idle
     \/ /\ At("published")
        /\ restore' = Idle
        /\ UNCHANGED entries
     \/ /\ At("publish") \/ (At("preserve") /\ Exists(Live(Suffixes[restore.i])))
        /\ restore' = [restore EXCEPT !.pc = "undo"]
        /\ UNCHANGED entries
  /\ UNCHANGED <<contents, next, databases, serving, restored>>

UndoBug(ok) ==
  /\ At("undo") /\ restore.moved # <<>>
  /\ LET s == Head(restore.moved) IN
       IF ok THEN Rename(Rollback(restore.k, s), Live(s)) ELSE UNCHANGED entries
  /\ IF ok THEN faults' = faults ELSE Disturb
  /\ torn' = (torn \/ ~ok)
  /\ restore' = [restore EXCEPT !.moved = Tail(@)]
  /\ UNCHANGED <<contents, next, valid, dirty, written, serving, restored>>

(* The last file that was moved goes back first.  Errors are ignored.      *)
Undo(ok) ==
  /\ At("undo") /\ restore.moved # <<>>
  /\ LET s == restore.moved[Len(restore.moved)] IN
       IF ok THEN Rename(Rollback(restore.k, s), Live(s)) ELSE UNCHANGED entries
  /\ IF ok THEN faults' = faults ELSE Disturb
  /\ torn' = (torn \/ ~ok)
  /\ restore' = [restore EXCEPT !.moved = SubSeq(@, 1, Len(@) - 1)]
  /\ UNCHANGED <<contents, next, valid, dirty, written, serving, restored>>

UndoDone ==
  /\ At("undo") /\ restore.moved = <<>>
  /\ Remove(Tmp(restore.k))
  /\ restore' = Idle
  /\ UNCHANGED <<contents, next, databases, serving, restored, faults>>

-----------------------------------------------------------------------------
(* Whatever runs is killed; with the power, the directory becomes what has *)
(* reached the disk.                                                       *)
Crash(power) ==
  /\ Disturb
  /\ serving' = 0
  /\ restore' = Idle
  /\ IF power THEN PowerLoss ELSE UNCHANGED volume
  /\ UNCHANGED <<next, databases, restored>>

Start == OpenExisting \/ CreateDatabase \/ initializeSchema

RestoreStep ==
  SyncCopy \/ Preserve \/ Publish \/ SyncDirectory \/ Undo(TRUE) \/ UndoDone

RNext ==
  \/ Start \/ Commit \/ Stop
  \/ RestoreBegin \/ RestoreStep \/ RestoreFails \/ Undo(FALSE)
  \/ \E power \in BOOLEAN : Crash(power)

RSpec == RInit /\ [][RNext]_rvars

(* Kubernetes starts the server again and again; an operator restores when *)
(* it refuses to start, and both come to an end.                           *)
RFairSpec ==
  /\ RSpec
  /\ WF_rvars(Start) /\ WF_rvars(RestoreStep)
  /\ WF_rvars(RestoreBegin /\ Refused)

-----------------------------------------------------------------------------
(* Files have the names of their parts, whatever a power loss leaves, and  *)
(* the server serves the database that is at the path, never during a      *)
(* restore.                                                                *)
RestoreTypeOK ==
  /\ dir \in possible
  /\ \A d \in possible : \A n \in RestoreNames :
       d[n] # NoFile => d[n].db \in 1..(next - 1) /\ (n[1] = 0 => d[n].part = n[2])
  /\ dirty \subseteq written /\ written \subseteq valid /\ valid \subseteq 1..(next - 1)
  /\ serving # 0 => LiveMain.db = serving /\ restore = Idle
  /\ restored # 0 => restored \in valid

(* Nothing that was committed is destroyed: whatever restores, starts and  *)
(* crashes happen, every database that took a commit still has its file    *)
(* somewhere, and its WAL while commits are only there.                    *)
CommittedFilesSurvive ==
  \A d \in possible : \A x \in written :
    /\ File(x, "") \in FilesOf(d)
    /\ x \in dirty => File(x, "-wal") \in FilesOf(d)

(* A database is never left next to the companions of another one, which   *)
(* SQLite would read as its own: restore moves every companion away before *)
(* it publishes, and Open does not initialise next to an orphan.           *)
NoForeignCompanions ==
  \A d \in possible : d[Live("")] # NoFile =>
    \A i \in 2..4 : d[Live(Suffixes[i])] \in {NoFile, File(d[Live("")].db, Suffixes[i])}

(* A restore that has exited with 0 stays in place: no crash brings the    *)
(* old database back to the path, or leaves it empty for Open to           *)
(* initialise.                                                             *)
RestoredIsServed ==
  restored # 0 => \A d \in possible : d[Live("")] = File(restored, "")

(* docs/operations.md: the main file and its companions "must remain       *)
(* together".  A database with commits in its WAL is never at the path     *)
(* without it: the server would start, and silently miss them.  (The undo  *)
(* of a failed restore ignores its own errors: after one of them the main  *)
(* file may be back without its WAL, which is still in the rollback set.)  *)
StartSeesEveryCommit ==
  ~torn => \A d \in possible : d[Live("")] # NoFile /\ d[Live("")].db \in dirty =>
    d[Live("-wal")] = File(d[Live("")].db, "-wal")

(* From whatever a crash or a failure leaves behind, a restore and a start *)
(* bring the server back.                                                  *)
BackInService == <>[](serving # 0)
=============================================================================
