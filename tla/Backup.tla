------------------------------- MODULE Backup -------------------------------
(***************************************************************************)
(* Backups: BackupWithRetention of internal/store/backup.go and the        *)
(* download of an artifact, with a failure, a kill of the process or a     *)
(* power loss between any two of their steps.                              *)
(*                                                                         *)
(* A backup is named after the clock reading at which it was taken; the    *)
(* clock may be set back, but never shows the same nanosecond twice.  Of   *)
(* the database a snapshot keeps its place in the order of snapshots: a    *)
(* later one holds everything that an earlier one holds.                   *)
(***************************************************************************)
EXTENDS Volume, Sequences, FiniteSetsExt

CONSTANTS
  Clock,       \* the clock readings, natural numbers
  Requests,    \* a caller and the X-Request-ID it uses for one backup
  Keep,        \* LAZARUS_BACKUP_KEEP
  MinAge,      \* LAZARUS_BACKUP_MIN_AGE, never zero
  MaxFaults

ASSUME BackupAssumption ==
  /\ Clock \subseteq Nat
  /\ {Keep, MinAge} \subseteq Nat \ {0}
  /\ MaxFaults \in Nat

(* What the files of the backup directory contain.                         *)
Files ==
  [kind : {"db"}, base : Clock, sha : Nat]
    \cup [kind : {"manifest"}, base : Clock, sha : Nat, audit : BOOLEAN]

ASSUME NoFileAssumption == NoFile \notin Files

VARIABLES
  used,        \* clock readings that named a snapshot
  events,      \* the backup.created events of the journal
  backup,      \* the call that holds backupMu
  answers,     \* what callers were answered with success
  download,    \* one call of handleBackupArtifact
  published,   \* backups whose manifest was ever in place
  faults

bvars == <<volume, used, events, backup, answers, download, published, faults>>
callers == <<answers, download, published>>

BackupNames == Clock \X {"db", "db.tmp", "manifest", "manifest.tmp"}
DB(b) == <<b, "db">>
DBTmp(b) == <<b, "db.tmp">>
Manifest(b) == <<b, "manifest">>
ManifestTmp(b) == <<b, "manifest.tmp">>

Idle == [pc |-> "idle"]

BInit ==
  /\ VolumeInit(BackupNames)
  /\ used = {} /\ events = <<>> /\ answers = {} /\ published = {}
  /\ backup = Idle /\ download = Idle
  /\ faults = 0

-----------------------------------------------------------------------------
(* Pairs of a database file and its manifest.                              *)

Pairs(d) == {b \in Clock : d[DB(b)] # NoFile /\ d[Manifest(b)] # NoFile}

BackupArtifact(b) ==
  /\ b \in Pairs(dir)
  /\ dir[Manifest(b)] \notin damaged
  /\ dir[DB(b)] \notin damaged
  /\ dir[DB(b)].sha = dir[Manifest(b)].sha

Incomplete ==
  LET temps == {n \in BackupNames : n[2] \in {"db.tmp", "manifest.tmp"} /\ Exists(n)}
      databases == {DB(b) : b \in {c \in Clock : Exists(DB(c)) /\ ~Exists(Manifest(c))}}
      manifests == {Manifest(b) : b \in {c \in Clock : Exists(Manifest(c)) /\ ~Exists(DB(c))}}
  IN  IF temps # {} THEN temps ELSE IF databases # {} THEN databases ELSE manifests

(* backup.created events of a request, the last of which backupForRequest  *)
(* looks up.                                                               *)
CreatedFor(request) == {i \in DOMAIN events : events[i].request = request}

backupForRequest(request) ==
  LET found == CreatedFor(request)
      b == events[Max(found)].base
  IN  IF found # {} /\ BackupArtifact(b) THEN {b} ELSE {}

-----------------------------------------------------------------------------
(* BackupWithRetention, one action per step that another actor, a failure  *)
(* or a crash can tell apart.                                              *)

At(pc) == backup.pc = pc
Goto(pc) == backup' = [backup EXCEPT !.pc = pc]

(* The manifest that the caller gets, and whether this call made it.       *)
AnswerFor(b, sha, fresh) ==
  [request |-> backup.request, base |-> b, sha |-> sha, fresh |-> fresh]

Begin(request) ==
  /\ At("idle")
  /\ used # Clock
  /\ backup' = [pc |-> "prepare", request |-> request]
  /\ UNCHANGED <<volume, used, events, callers, faults>>

cleanupBackupTemps ==
  /\ At("prepare")
  /\ \E n \in Incomplete : Remove(n)
  /\ UNCHANGED <<contents, used, events, backup, callers, faults>>

AnswerExisting ==
  /\ At("prepare") /\ Incomplete = {}
  /\ \E b \in backupForRequest(backup.request) :
       answers' = answers \cup {AnswerFor(b, dir[Manifest(b)].sha, FALSE)}
  /\ backup' = Idle
  /\ UNCHANGED <<volume, used, events, download, published, faults>>

(* An existing pair that cannot be read counts as none.                    *)
Snapshot(readable) ==
  /\ At("prepare") /\ Incomplete = {}
  /\ readable => backupForRequest(backup.request) = {}
  /\ readable \/ faults < MaxFaults
  /\ faults' = IF readable THEN faults ELSE faults + 1
  /\ \E now \in Clock \ used :
       /\ used' = used \cup {now}
       /\ backup' = [pc |-> "checked", request |-> backup.request, base |-> now,
                     sha |-> Cardinality(used) + 1, audit |-> FALSE, old |-> {}]
       /\ Create(DBTmp(now), [kind |-> "db", base |-> now, sha |-> backup'.sha])
  /\ UNCHANGED <<contents, events, callers>>

SyncSnapshotBug ==
  /\ At("checked")
  /\ Goto("synced")
  /\ UNCHANGED <<volume, used, events, callers, faults>>

SyncSnapshot ==
  /\ At("checked")
  /\ SyncFile(DBTmp(backup.base))
  /\ Goto("synced")
  /\ UNCHANGED <<entries, used, events, callers, faults>>

PublishSnapshot ==
  /\ At("synced")
  /\ Rename(DBTmp(backup.base), DB(backup.base))
  /\ Goto("renamed")
  /\ UNCHANGED <<contents, used, events, callers, faults>>

SyncPublished ==
  /\ At("renamed")
  /\ SyncDir
  /\ Goto("published")
  /\ UNCHANGED <<contents, used, events, callers, faults>>

RecordBackupCreatedBug(ok) ==
  /\ At("published")
  /\ events' = IF ok THEN Append(events, [request |-> backup.request, base |-> backup.base]) ELSE events
  /\ ok \/ faults < MaxFaults
  /\ faults' = IF ok THEN faults ELSE faults + 1
  /\ backup' = [backup EXCEPT !.pc = "recorded", !.audit = TRUE]
  /\ UNCHANGED <<volume, used, callers>>

RecordBackupCreated(ok) ==
  /\ At("published")
  /\ events' = IF ok THEN Append(events, [request |-> backup.request, base |-> backup.base]) ELSE events
  /\ ok \/ faults < MaxFaults
  /\ faults' = IF ok THEN faults ELSE faults + 1
  /\ backup' = [backup EXCEPT !.pc = "recorded", !.audit = ok]
  /\ UNCHANGED <<volume, used, callers>>

ManifestFile ==
  [kind |-> "manifest", base |-> backup.base, sha |-> backup.sha, audit |-> backup.audit]

WriteManifestBug ==
  /\ At("recorded")
  /\ Create(Manifest(backup.base), ManifestFile)
  /\ Goto("written")
  /\ UNCHANGED <<contents, used, events, callers, faults>>

WriteManifest ==
  /\ At("recorded")
  /\ Create(ManifestTmp(backup.base), ManifestFile)
  /\ Goto("written")
  /\ UNCHANGED <<contents, used, events, callers, faults>>

SyncManifestTmp ==
  /\ At("written")
  /\ SyncFile(ManifestTmp(backup.base))
  /\ Goto("manifest synced")
  /\ UNCHANGED <<entries, used, events, callers, faults>>

PublishManifest ==
  /\ At("manifest synced")
  /\ Rename(ManifestTmp(backup.base), Manifest(backup.base))
  /\ published' = published \cup {backup.base}
  /\ Goto("complete")
  /\ UNCHANGED <<contents, used, events, answers, download, faults>>

ExpiredBug(now) ==
  LET databases == {b \in Clock : Exists(DB(b))}
      Newer(b) == {c \in databases : c > b}
  IN  {b \in databases : Cardinality(Newer(b)) >= Keep}

(* rotateBackupsWithAge: beyond the Keep newest names, what may have       *)
(* reached the minimum age at the time of this backup.                     *)
Expired(now) ==
  LET databases == {b \in Clock : Exists(DB(b))}
      Newer(b) == {c \in databases : c > b}
  IN  {b \in databases : Cardinality(Newer(b)) >= Keep /\ now >= b + MinAge}

SyncManifestBug ==
  /\ At("complete")
  /\ backup' = [backup EXCEPT !.pc = "rotate", !.old = Expired(backup.base)]
  /\ UNCHANGED <<volume, used, events, callers, faults>>

(* The code takes a file's age from its modification time.  That is later  *)
(* than the reading in its name, taken when the call began, by any amount: *)
(* some of the files may still be too young.                               *)
SyncManifest ==
  /\ At("complete")
  /\ SyncDir
  /\ \E old \in SUBSET Expired(backup.base) :
       backup' = [backup EXCEPT !.pc = "rotate", !.old = old]
  /\ UNCHANGED <<contents, used, events, callers, faults>>

RotateDatabase ==
  /\ backup.pc \in {"rotate", "rotated"} /\ backup.old # {}
  /\ Remove(DB(Max(backup.old)))
  /\ Goto("rotate manifest")
  /\ UNCHANGED <<contents, used, events, callers, faults>>

(* The error of removing the manifest is ignored.                          *)
RotateManifest(ok) ==
  /\ At("rotate manifest")
  /\ IF ok THEN Remove(Manifest(Max(backup.old))) ELSE UNCHANGED entries
  /\ ok \/ faults < MaxFaults
  /\ faults' = IF ok THEN faults ELSE faults + 1
  /\ backup' = [backup EXCEPT !.pc = "rotated", !.old = @ \ {Max(@)}]
  /\ UNCHANGED <<contents, used, events, callers>>

(* The directory is synced once more after something was removed.          *)
Answer ==
  /\ backup.pc \in {"rotate", "rotated"} /\ backup.old = {}
  /\ IF At("rotated") THEN SyncDir ELSE UNCHANGED entries
  /\ answers' = answers \cup {AnswerFor(backup.base, backup.sha, TRUE)}
  /\ backup' = Idle
  /\ UNCHANGED <<contents, used, events, download, published, faults>>

(* An error return at any step, with what the code removes on the way out. *)
Fail ==
  /\ ~At("idle")
  /\ faults < MaxFaults
  /\ \/ /\ backup.pc \in {"prepare", "renamed", "recorded", "written", "complete", "rotate", "rotated"}
        /\ UNCHANGED entries
     \/ /\ backup.pc \in {"checked", "synced"}
        /\ Remove(DBTmp(backup.base))
     \/ /\ At("recorded")
        /\ Create(ManifestTmp(backup.base), ManifestFile)
     \/ /\ At("manifest synced")
        /\ Remove(ManifestTmp(backup.base))
  /\ faults' = faults + 1
  /\ backup' = Idle
  /\ UNCHANGED <<contents, used, events, callers>>

-----------------------------------------------------------------------------
(* handleBackupArtifact: it takes no lock, so files may disappear between  *)
(* its steps.                                                              *)

Validate(n) ==
  /\ download = Idle
  /\ n[2] \in {"db", "manifest"}
  /\ BackupArtifact(n[1])
  /\ download' = [pc |-> "validated", name |-> n, manifest |-> dir[Manifest(n[1])]]
  /\ UNCHANGED <<volume, used, events, backup, answers, published, faults>>

OpenArtifact ==
  /\ download.pc = "validated"
  /\ download' = IF Exists(download.name)
                 THEN [pc |-> "open", file |-> dir[download.name], manifest |-> download.manifest]
                 ELSE Idle
  /\ UNCHANGED <<volume, used, events, backup, answers, published, faults>>

ValidateOpened ==
  /\ download.file \notin damaged
  /\ IF download.file.kind = "manifest" THEN download.file = download.manifest
                                        ELSE download.file.sha = download.manifest.sha

(* backup.downloaded is recorded first; nothing is sent if that fails.     *)
Serve(recorded) ==
  /\ download.pc = "open"
  /\ recorded \/ faults < MaxFaults
  /\ faults' = IF recorded THEN faults ELSE faults + 1
  /\ download' = IF recorded /\ ValidateOpened THEN [pc |-> "sent", file |-> download.file] ELSE Idle
  /\ UNCHANGED <<volume, used, events, backup, answers, published>>

EndDownload ==
  /\ download.pc = "sent"
  /\ download' = Idle
  /\ UNCHANGED <<volume, used, events, backup, answers, published, faults>>

-----------------------------------------------------------------------------
(* The process is killed and started again; with the power, the directory  *)
(* becomes what has reached the disk.  Committed events stay (the database *)
(* runs with synchronous=FULL).                                            *)
Crash(power) ==
  /\ faults < MaxFaults
  /\ faults' = faults + 1
  /\ backup' = Idle /\ download' = Idle
  /\ IF power THEN PowerLoss ELSE UNCHANGED volume
  /\ UNCHANGED <<used, events, answers, published>>

BackupStep ==
  \/ cleanupBackupTemps \/ AnswerExisting \/ Snapshot(TRUE) \/ SyncSnapshot \/ PublishSnapshot
  \/ SyncPublished \/ RecordBackupCreated(TRUE) \/ WriteManifest \/ SyncManifestTmp
  \/ PublishManifest \/ SyncManifest \/ RotateDatabase \/ RotateManifest(TRUE) \/ Answer

BNext ==
  \/ \E r \in Requests : Begin(r)
  \/ BackupStep
  \/ Snapshot(FALSE) \/ RecordBackupCreated(FALSE) \/ RotateManifest(FALSE) \/ Fail
  \/ \E n \in BackupNames : Validate(n)
  \/ OpenArtifact
  \/ \E recorded \in BOOLEAN : Serve(recorded)
  \/ EndDownload
  \/ \E power \in BOOLEAN : Crash(power)

BSpec == BInit /\ [][BNext]_bvars

-----------------------------------------------------------------------------
(* Files have the kind and the number of their names, whatever a power     *)
(* loss leaves, and nothing is answered or recorded that was not made.     *)
BackupTypeOK ==
  /\ dir \in possible
  /\ \A d \in possible : DOMAIN d = BackupNames /\ \A n \in BackupNames :
       d[n] # NoFile => /\ d[n].base = n[1]
                        /\ d[n].kind = "db" <=> n[2] \in {"db", "db.tmp"}
  /\ damaged \subseteq flushed
  /\ used \subseteq Clock /\ published \subseteq used
  /\ {events[i].base : i \in DOMAIN events} \subseteq used
  /\ {a.base : a \in answers} \subseteq published
  /\ faults \in 0..MaxFaults

(* Whatever a power loss leaves at this moment: a database file with a     *)
(* manifest next to it is a backup that passes its checks.  backup.go      *)
(* syncs each file before the rename that publishes it, and nothing else   *)
(* keeps a torn file from being restored, listed or counted by rotation.   *)
PublishedPairsAreIntact ==
  \A d \in possible : \A b \in Pairs(d) :
    /\ {d[DB(b)], d[Manifest(b)]} \subseteq flushed \ damaged
    /\ d[DB(b)].sha = d[Manifest(b)].sha

(* The backups that can be restored after any crash.                       *)
Recoverable ==
  {[base |-> b, sha |-> dir[DB(b)].sha] :
     b \in {c \in Clock : \A d \in possible :
            c \in Pairs(d) /\ {d[DB(c)], d[Manifest(c)]} \subseteq flushed \ damaged}}

A == INSTANCE Archive WITH archive <- Recoverable

(* docs/backup-restore.md: "Lazarus retains at least the configured number *)
(* of complete backup pairs".  Seen through any crash, the directory is an *)
(* archive that loses a backup only to rotation, with Keep others left and *)
(* a newer one among them.                                                 *)
ImplementsArchive == A!ASpec

(* A caller who was told that its backup is done can restore it, or a      *)
(* newer one, whatever happens to the machine and, between two calls, to   *)
(* the clock: rotation never takes the backup that it was called for.      *)
AnsweredIsRecoverable ==
  \A a \in answers : a.fresh => \E c \in Recoverable : c.sha >= a.sha

(* A manifest that says audit_recorded has its backup.created event in the *)
(* journal, also when it was found again after a crash.                    *)
AuditClaimsHold ==
  \A d \in possible : \A b \in Pairs(d) :
    d[Manifest(b)].audit => \E i \in DOMAIN events : events[i].base = b

(* handleBackupArtifact never sends a file of a backup that was not        *)
(* completed, however rotation, clean-up and crashes cross its steps.      *)
DownloadsAreComplete ==
  download.pc = "sent" => download.file \notin damaged /\ download.file.base \in published

(* docs/backup-restore.md: "While the pair is retained, the same           *)
(* authenticated caller receives the existing checked manifest instead of  *)
(* creating another backup."                                               *)
OneRetainedBackupPerRequest ==
  \A a1, a2 \in answers :
    a1.request = a2.request /\ BackupArtifact(a1.base) /\ BackupArtifact(a2.base) => a1.base = a2.base
=============================================================================
