-------------------------------- MODULE Verify --------------------------------
(***************************************************************************)
(* The offline verifier, internal/store/verify.go: it replays the journal  *)
(* of every run and compares the result with the tables.  An event is the  *)
(* row scanEvent returns: a NULL text is "" and a NULL number is 0.        *)
(* Payloads keep the fields the verifier reads; a SHA-256 digest is        *)
(* represented by the document it is computed from.                        *)
(***************************************************************************)
EXTENDS Common

(* validateEventShape: an event names its resource consistently, and a     *)
(* "backup." event belongs to no run.                                      *)
MaintenanceEventTypes ==
  {"maintenance.created", "maintenance.captured", "maintenance.transitioned",
   "maintenance.reopened", "maintenance.completed"}

TargetEventTypes == {"target.transitioned", "target.skipped", "target.observed"}

NoStates(event) == event.from_state = "" /\ event.to_state = ""

NoVersions(event) == event.from_version = 0 /\ event.to_version = 0

validateEventShape(event) ==
  \/ /\ event.type \in MaintenanceEventTypes
     /\ event.resource_type = "maintenance"
     /\ event.maintenance_id # "" /\ event.resource_id = event.maintenance_id
     /\ event.target_id = ""
  \/ /\ event.type \in TargetEventTypes
     /\ event.resource_type = "target"
     /\ event.maintenance_id # "" /\ event.target_id # ""
     /\ event.resource_id = event.target_id
  \/ /\ event.type \in {"backup.created", "backup.downloaded"}
     /\ event.resource_type = "backup"
     /\ event.maintenance_id = "" /\ event.target_id = ""
     /\ NoStates(event) /\ NoVersions(event) /\ event.aggregate_version = 0

(* The events that belong to no run tell of a backup by its manifest.      *)
AcceptsGlobal(event) ==
  /\ event.payload.filename = event.resource_id
  /\ event.payload.sha256 # "" /\ event.payload.bytes >= 1
  /\ \/ event.type = "backup.created" /\ event.payload.audit_recorded
     \/ event.type = "backup.downloaded" /\ event.payload.artifact # ""

verifyGlobalEvents(journal) ==
  \A i \in DOMAIN journal :
    journal[i].maintenance_id = "" => validateEventShape(journal[i]) /\ AcceptsGlobal(journal[i])

-----------------------------------------------------------------------------
(* replayMaintenance: what the events seen so far say about one run.       *)

EmptyReplay ==
  [state |-> "", revision |-> 0, captured |-> FALSE,
   targets |-> [t \in {} |-> t], physicalTransition |-> FALSE]

validEventJustification(payload) == validJustification(payload.justification)

AcceptsCreated(r, event) ==
  /\ event.type = "maintenance.created"
  /\ r.revision = 0
  /\ event.aggregate_version = 1 /\ NoStates(event) /\ NoVersions(event)
  /\ event.payload = [id |-> event.maintenance_id, state |-> "new", version |-> 1]

AcceptsCaptured(r, event, capture) ==
  /\ event.type = "maintenance.captured"
  /\ capture # NoCapture /\ ~r.captured
  /\ event.from_state = r.state /\ event.from_version = r.revision
  /\ event.to_state = "captured" /\ event.to_version = r.revision + 1
  /\ event.aggregate_version = event.to_version
  /\ event.payload = [sha256 |-> capture, targets |-> Len(capture)]

(* Reopening is an administrator's justified way out of "failed", and the  *)
(* only one.                                                               *)
AcceptsReopen(r, event) ==
  IF event.type = "maintenance.reopened"
  THEN /\ r.state = "failed"
       /\ isAdmin(event.role)
       /\ validEventJustification(event.payload)
       /\ IF r.captured THEN event.to_state \notin {"new", "completed", "cancelled"}
                        ELSE event.to_state = "new"
  ELSE r.state # "failed"

ReplayStopped(r) ==
  \A t \in DOMAIN r.targets :
    IF r.targets[t].original_state \in {"running", "stopped"}
    THEN r.targets[t].state \in {"stopped", "skipped"}
    ELSE r.targets[t].state = "skipped"

ReplayComplete(r) ==
  /\ DOMAIN r.targets # {}
  /\ \A t \in DOMAIN r.targets :
       targetCompletionAllowed(r.targets[t].original_state, r.targets[t].state)

AcceptsTransition(r, event) ==
  /\ event.type \in {"maintenance.transitioned", "maintenance.reopened",
                     "maintenance.completed"}
  /\ r.revision # 0
  /\ event.from_state = r.state /\ event.from_version = r.revision
  /\ event.to_version = r.revision + 1 /\ event.aggregate_version = event.to_version
  /\ ValidMaintenanceTransition(r.state, event.to_state)
  /\ AcceptsReopen(r, event)
  /\ event.to_state = "captured" => event.type = "maintenance.reopened"
  /\ event.to_state = "cancelled" => ~(r.captured /\ r.physicalTransition)
  /\ event.to_state = "stopped" => ReplayStopped(r)
  /\ event.to_state = "completed" => ReplayComplete(r)
  /\ event.to_state = "completed" <=> event.type = "maintenance.completed"

AcceptsTarget(r, event) ==
  /\ event.type \in {"target.transitioned", "target.skipped"}
  /\ r.revision # 0 /\ ~IsMaintenanceTerminal(r.state)
  /\ event.aggregate_version = r.revision + 1
  /\ event.target_id \in DOMAIN r.targets
  /\ LET target == r.targets[event.target_id]
     IN  /\ event.from_state = target.state /\ event.from_version = target.version
         /\ event.to_version = target.version + 1
         /\ ValidTargetTransition(target.state, event.to_state)
         /\ IF event.to_state = "skipped"
            THEN /\ event.type = "target.skipped"
                 /\ isAdmin(event.role)
                 /\ validEventJustification(event.payload)
            ELSE /\ event.type = "target.transitioned"
                 /\ target.original_state \notin {"degraded", "unknown", "stopped"}
                 /\ targetPhaseAllowed(r.state, event.to_state)

AcceptsObserved(r, event) ==
  /\ event.type = "target.observed"
  /\ ~IsMaintenanceTerminal(r.state)
  /\ event.target_id \in DOMAIN r.targets
  /\ event.aggregate_version = 0 /\ NoStates(event) /\ NoVersions(event)

(* The journal's next event is one that replay.apply takes without error.  *)
Accepts(r, event, capture) ==
  \/ AcceptsCreated(r, event)
  \/ AcceptsCaptured(r, event, capture)
  \/ AcceptsTransition(r, event)
  \/ AcceptsTarget(r, event)
  \/ AcceptsObserved(r, event)

-----------------------------------------------------------------------------
(* What replay.apply makes of an event it accepts.                         *)

ReplayTarget(row) ==
  [original_state |-> row.original_state, state |-> row.state, version |-> row.version]

ApplyCaptured(r, event, capture) ==
  LET parsed == parseCaptureTargets(capture)
  IN  [r EXCEPT !.state = "captured", !.revision = event.to_version, !.captured = TRUE,
                !.targets = [t \in DOMAIN parsed |-> ReplayTarget(parsed[t])]]

ApplyTransition(r, event) ==
  [r EXCEPT !.state = event.to_state, !.revision = event.to_version,
            !.targets = IF r.captured
                        THEN [t \in DOMAIN r.targets |->
                                [r.targets[t] EXCEPT !.version = @ + 1]]
                        ELSE @]

ApplyTarget(r, event) ==
  LET moved == [r.targets[event.target_id] EXCEPT !.state = event.to_state,
                                                  !.version = event.to_version]
  IN  [r EXCEPT !.targets = [r.targets EXCEPT ![event.target_id] = moved],
                !.revision = event.aggregate_version,
                !.physicalTransition = r.physicalTransition \/ event.type = "target.transitioned"]

apply(r, event, capture) ==
  IF event.type = "maintenance.created" THEN [r EXCEPT !.state = "new", !.revision = 1]
  ELSE IF event.type = "maintenance.captured" THEN ApplyCaptured(r, event, capture)
  ELSE IF event.type \in {"maintenance.transitioned", "maintenance.reopened",
                          "maintenance.completed"} THEN ApplyTransition(r, event)
  ELSE IF event.type \in {"target.transitioned", "target.skipped"} THEN ApplyTarget(r, event)
  ELSE r

-----------------------------------------------------------------------------
(* verifyMaintenanceReplay: the events of one run, oldest first, and the   *)
(* comparison of what they say with the rows of the tables.                *)

(* One row of the query: it skips the events of other runs, and an event   *)
(* that is not accepted ends the replay with an error.                     *)
Replaying(before, event, id, capture) ==
  IF event.maintenance_id # id THEN before
  ELSE IF before.ok /\ validateEventShape(event) /\ Accepts(before.run, event, capture)
       THEN [ok |-> TRUE, run |-> apply(before.run, event, capture)]
  ELSE [before EXCEPT !.ok = FALSE]

ReplayedRun(id, journal, capture) ==
  LET replay[n \in 0..Len(journal)] ==
        IF n = 0 THEN [ok |-> TRUE, run |-> EmptyReplay]
        ELSE Replaying(replay[n - 1], journal[n], id, capture)
  IN  replay[Len(journal)]

verifyMaintenanceReplay(id, journal, row, capture, rows) ==
  LET replayed == ReplayedRun(id, journal, capture)
      parsed == IF capture = NoCapture THEN [t \in {} |-> t]
                ELSE parseCaptureTargets(capture)
  IN  /\ capture # NoCapture => ValidCapturePayload(capture)
      /\ \E i \in DOMAIN journal : journal[i].maintenance_id = id
      /\ replayed.ok
      /\ replayed.run.state = row.state
      /\ replayed.run.revision = row.version
      /\ replayed.run.captured = (capture # NoCapture)
      /\ DOMAIN rows = DOMAIN parsed /\ DOMAIN rows = DOMAIN replayed.run.targets
      /\ \A t \in DOMAIN rows :
           /\ rows[t].lock_key = parsed[t].lock_key
           /\ rows[t].original_state = parsed[t].original_state
           /\ rows[t].state = replayed.run.targets[t].state
           /\ rows[t].version = replayed.run.targets[t].version

(* No lock key is active in more than one run.                             *)
verifyLockExclusivity(run, rows) ==
  \A key \in LockKeys, a, b \in MaintenanceIDs :
    /\ \A id \in {a, b} : /\ run[id].state \notin {"", "completed", "cancelled"}
                          /\ \E t \in DOMAIN rows[id] : rows[id][t].lock_key = key
    => a = b

(* The application check of `verify' and of every backup: the locks, every *)
(* run against its own events, then the events of no run.                  *)
verifyApplicationData(run, capture, rows, journal) ==
  /\ verifyLockExclusivity(run, rows)
  /\ \A id \in MaintenanceIDs :
       run[id].version # 0 =>
         verifyMaintenanceReplay(id, journal, run[id], capture[id], rows[id])
  /\ verifyGlobalEvents(journal)
=============================================================================
