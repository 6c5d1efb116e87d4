------------------------------- MODULE Journal -------------------------------
(***************************************************************************)
(* Store with the journal_events table: every transaction that commits a   *)
(* change appends the event it builds, in the same transaction             *)
(* (internal/store/events.go and the appendEvent calls of mutations.go).   *)
(* Timestamps, the actor's name and, except for observations, the request  *)
(* id are left out: no rule of the program depends on them.                *)
(***************************************************************************)
EXTENDS Store, Verify

CONSTANT BackupFiles   \* names of the backups taken, each used once

ASSUME BackupFilesAssumption == "" \notin BackupFiles

VARIABLE journal_events

jvars == <<vars, journal_events>>

-----------------------------------------------------------------------------
(* The row appendEvent inserts; events are never updated or deleted.       *)

appendEvent(event) == journal_events' = Append(journal_events, event)

CreatedEvent(id, role) ==
  [type |-> "maintenance.created", role |-> role, request_id |-> "",
   resource_type |-> "maintenance", resource_id |-> id,
   maintenance_id |-> id, target_id |-> "",
   from_state |-> "", to_state |-> "", from_version |-> 0, to_version |-> 0,
   aggregate_version |-> 1,
   payload |-> [id |-> id, state |-> "new", version |-> 1]]

CapturedEvent(id, payload, role) ==
  LET m == maintenance[id]
  IN  [type |-> "maintenance.captured", role |-> role, request_id |-> "",
       resource_type |-> "maintenance", resource_id |-> id,
       maintenance_id |-> id, target_id |-> "",
       from_state |-> "new", to_state |-> "captured",
       from_version |-> m.version, to_version |-> m.version + 1,
       aggregate_version |-> m.version + 1,
       payload |-> [sha256 |-> payload, targets |-> Len(payload)]]

TransitionEventTypeBug(from, to) ==
  IF to = "completed" THEN "maintenance.completed" ELSE "maintenance.transitioned"

TransitionEventType(from, to) ==
  IF to = "completed" THEN "maintenance.completed"
  ELSE IF from = "failed" THEN "maintenance.reopened"
  ELSE "maintenance.transitioned"

TransitionEvent(id, change, role) ==
  LET m == maintenance[id]
  IN  [type |-> TransitionEventType(m.state, change.state), role |-> role, request_id |-> "",
       resource_type |-> "maintenance", resource_id |-> id,
       maintenance_id |-> id, target_id |-> "",
       from_state |-> m.state, to_state |-> change.state,
       from_version |-> m.version, to_version |-> m.version + 1,
       aggregate_version |-> m.version + 1,
       payload |-> [justification |-> change.justification]]

TargetEventTypeBug(to) == "target.transitioned"

TargetEventType(to) == IF to = "skipped" THEN "target.skipped" ELSE "target.transitioned"

TargetEvent(id, t, change, role) ==
  LET target == targets[id][t]
  IN  [type |-> TargetEventType(change.state), role |-> role, request_id |-> "",
       resource_type |-> "target", resource_id |-> t,
       maintenance_id |-> id, target_id |-> t,
       from_state |-> target.state, to_state |-> change.state,
       from_version |-> target.version, to_version |-> target.version + 1,
       aggregate_version |-> maintenance[id].version + 1,
       payload |-> [justification |-> change.justification]]

ObservedEvent(id, t, request, payload, role) ==
  [type |-> "target.observed", role |-> role, request_id |-> request,
   resource_type |-> "target", resource_id |-> t,
   maintenance_id |-> id, target_id |-> t,
   from_state |-> "", to_state |-> "", from_version |-> 0, to_version |-> 0,
   aggregate_version |-> 0,
   payload |-> [document |-> payload]]

-----------------------------------------------------------------------------
(* The two transactions of a backup: the event before its manifest is      *)
(* published, at most once for a file, and one event per download.  The    *)
(* event alone is written; a backup whose event failed may be downloaded.  *)

BackupEvent(type, file, payload) ==
  [type |-> type, role |-> "admin", request_id |-> "",
   resource_type |-> "backup", resource_id |-> file,
   maintenance_id |-> "", target_id |-> "",
   from_state |-> "", to_state |-> "", from_version |-> 0, to_version |-> 0,
   aggregate_version |-> 0, payload |-> payload]

RecordBackupCreatedBug(file) ==
  /\ \A i \in DOMAIN journal_events : journal_events[i].resource_id # file
  /\ appendEvent(BackupEvent("backup.created", file,
       [filename |-> file, sha256 |-> file, bytes |-> 1, audit_recorded |-> FALSE]))
  /\ UNCHANGED vars

RecordBackupCreated(file) ==
  /\ \A i \in DOMAIN journal_events : journal_events[i].resource_id # file
  /\ appendEvent(BackupEvent("backup.created", file,
       [filename |-> file, sha256 |-> file, bytes |-> 1, audit_recorded |-> TRUE]))
  /\ UNCHANGED vars

RecordBackupDownload(file, artifact) ==
  /\ appendEvent(BackupEvent("backup.downloaded", file,
       [filename |-> file, sha256 |-> file, bytes |-> 1, artifact |-> artifact]))
  /\ UNCHANGED vars

-----------------------------------------------------------------------------
JInit == Init /\ journal_events = <<>>

RunWrite ==
  \E id \in MaintenanceIDs, role \in WriterRoles :
    \/ CreateMaintenance(id) /\ appendEvent(CreatedEvent(id, role))
    \/ \E payload \in CapturePayloads :
         CaptureMaintenance(id, payload) /\ appendEvent(CapturedEvent(id, payload, role))
    \/ \E change \in StateChange, precondition \in Preconditions :
         \/ /\ TransitionMaintenance(id, change, precondition, role)
            /\ appendEvent(TransitionEvent(id, change, role))
         \/ \E t \in TargetIDs :
              /\ TransitionTarget(id, t, change, precondition, role)
              /\ appendEvent(TargetEvent(id, t, change, role))
    \/ \E t \in TargetIDs, request \in RequestIDs, payload \in ObservationPayloads,
          precondition \in Preconditions :
         /\ AddObservation(id, t, request, payload, precondition)
         /\ appendEvent(ObservedEvent(id, t, request, payload, role))

BackupWrite ==
  \E file \in BackupFiles :
    \/ RecordBackupCreated(file)
    \/ \E artifact \in {file, "manifest"} : RecordBackupDownload(file, artifact)

JNext == RunWrite \/ BackupWrite

JSpec == JInit /\ [][JNext]_jvars

-----------------------------------------------------------------------------
(* Properties *)

(* What the verifier would hold of a run whose tables are these.           *)
ReplayOfTables(id) ==
  [state |-> maintenance[id].state, revision |-> maintenance[id].version,
   captured |-> HasCapture(id),
   targets |-> [t \in DOMAIN targets[id] |-> ReplayTarget(targets[id][t])],
   physicalTransition |-> id \in exercised]

Verifier ==
  INSTANCE Replay WITH
    journal <- journal_events,
    captures <- maintenance_captures,
    replay <- [id \in MaintenanceIDs |-> ReplayOfTables(id)]

(* Every committed transaction appends an event that the replay accepts,   *)
(* and takes the tables to what the replay makes of it: the store          *)
(* implements the journal's contract.                                      *)
ImplementsReplay == Verifier!Spec

(* The verifier passes on the database after every transaction, over the   *)
(* whole journal from its first event.                                     *)
VerifyAlwaysPasses ==
  verifyApplicationData(maintenance, maintenance_captures, targets, journal_events)

(* What the transactions read back from the journal is what the journal    *)
(* holds: the cancel guard counts 'target.transitioned' events, and the    *)
(* retry of an observation is found by its request id.                     *)
QueriesMatchJournal ==
  /\ exercised = {journal_events[i].maintenance_id :
                    i \in {j \in DOMAIN journal_events :
                             journal_events[j].type = "target.transitioned"}}
  /\ observations = {[maintenance_id |-> journal_events[i].maintenance_id,
                      target_id |-> journal_events[i].target_id,
                      request_id |-> journal_events[i].request_id,
                      payload |-> journal_events[i].payload.document] :
                       i \in {j \in DOMAIN journal_events :
                                journal_events[j].type = "target.observed"}}

(* The unique indexes of schema.sql never reject a legal write: no two     *)
(* events of a run carry the same aggregate version, and a target has one  *)
(* observation per request id.  The versions are 1..n with no gap, so a    *)
(* reader of the journal sees every change of a run in order.              *)
JournalIsDense ==
  \A id \in MaintenanceIDs :
    LET versioned == {i \in DOMAIN journal_events :
                        /\ journal_events[i].maintenance_id = id
                        /\ journal_events[i].aggregate_version # 0}
        observed == {i \in DOMAIN journal_events :
                        /\ journal_events[i].maintenance_id = id
                        /\ journal_events[i].type = "target.observed"}
    IN  /\ {journal_events[i].aggregate_version : i \in versioned} = 1..maintenance[id].version
        /\ \A i, j \in versioned :
             i < j <=> journal_events[i].aggregate_version < journal_events[j].aggregate_version
        /\ \A i, j \in observed :
             /\ journal_events[i].target_id = journal_events[j].target_id
             /\ journal_events[i].request_id = journal_events[j].request_id
             => i = j
=============================================================================
