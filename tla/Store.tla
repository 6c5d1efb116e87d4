-------------------------------- MODULE Store --------------------------------
(***************************************************************************)
(* The write transactions of internal/store/mutations.go over the tables   *)
(* of internal/store/schema.sql.                                           *)
(*                                                                         *)
(* Store.write serialises every transaction behind one mutex and one       *)
(* SQLite connection and rolls back on any error, so a transaction is one  *)
(* step and a refused or interrupted one changes nothing.  Each operation  *)
(* has an outcome operator, the early returns of the function in their     *)
(* order, and an action, what the function commits when the outcome is     *)
(* "ok".                                                                   *)
(*                                                                         *)
(* Of the journal this module keeps only what the transactions read back   *)
(* from it: whether a run has a 'target.transitioned' event, and the       *)
(* observations by request id.  Module Journal adds the rows themselves.   *)
(***************************************************************************)
EXTENDS Common

CONSTANTS
  Justifications,      \* byte lengths of trimmed justification texts
  Preconditions,       \* VersionPrecondition values, parsed from If-Match
  RequestIDs,          \* X-Request-ID values
  ObservationPayloads  \* canonical observation documents

VersionPrecondition == [any : BOOLEAN, versions : SUBSET Nat]

ASSUME RequestAssumption ==
  /\ \A n \in Justifications : n \in Nat
  /\ \A p \in Preconditions : p \in VersionPrecondition

VARIABLES
  maintenance,          \* run id -> its row; version 0 where there is none
  maintenance_captures, \* run id -> the saved payload or NoCapture
  targets,              \* run id -> (target id -> its row)
  exercised,            \* run ids with a 'target.transitioned' event
  observations          \* the 'target.observed' events

vars == <<maintenance, maintenance_captures, targets, exercised, observations>>

MaintenanceRow == [state : MaintenanceStates \cup {""}, version : Nat]

TargetRow ==
  [lock_key : LockKeys, original_state : OriginalStates,
   state : TargetStates, version : Nat \ {0}]

Observation ==
  [maintenance_id : MaintenanceIDs, target_id : TargetIDs,
   request_id : RequestIDs, payload : ObservationPayloads]

NoRow == [state |-> "", version |-> 0]

Exists(id) == maintenance[id].version # 0

HasCapture(id) == maintenance_captures[id] # NoCapture

(* The runs whose targets hold their lock keys, failed ones included.      *)
HoldsLocks(id) == Exists(id) /\ maintenance[id].state \notin {"completed", "cancelled"}

Init ==
  /\ maintenance = [id \in MaintenanceIDs |-> NoRow]
  /\ maintenance_captures = [id \in MaintenanceIDs |-> NoCapture]
  /\ targets = [id \in MaintenanceIDs |-> [t \in {} |-> t]]
  /\ exercised = {}
  /\ observations = {}

-----------------------------------------------------------------------------
(* Parts of a request.                                                     *)

(* A state change names any state, of a run or of a target, valid or not.  *)
StateChange ==
  [state : MaintenanceStates \cup TargetStates, justification : Justifications]

matchBug(precondition, version) ==
  precondition.any \/ \E v \in precondition.versions : version >= v

match(precondition, version) ==
  precondition.any \/ version \in precondition.versions

require(precondition, version) ==
  IF ~precondition.any /\ precondition.versions = {} THEN "if_match_required"
  ELSE IF ~match(precondition, version) THEN "version_conflict"
  ELSE "ok"

-----------------------------------------------------------------------------
(* CreateMaintenance inserts a run in state "new" at version 1.            *)

CreateMaintenanceOutcome(id) == IF Exists(id) THEN "conflict" ELSE "ok"

CreateMaintenance(id) ==
  /\ CreateMaintenanceOutcome(id) = "ok"
  /\ maintenance' = [maintenance EXCEPT ![id] = [state |-> "new", version |-> 1]]
  /\ UNCHANGED <<maintenance_captures, targets, exercised, observations>>

-----------------------------------------------------------------------------
(* CaptureMaintenance saves the discovery document once, creates the       *)
(* targets it lists and takes their lock keys.                             *)

LockInUseBug(key) ==
  \E other \in MaintenanceIDs :
    /\ Exists(other) /\ ~IsMaintenanceTerminal(maintenance[other].state)
    /\ \E t \in DOMAIN targets[other] : targets[other][t].lock_key = key

LockInUse(key) ==
  \E other \in MaintenanceIDs :
    /\ HoldsLocks(other)
    /\ \E t \in DOMAIN targets[other] : targets[other][t].lock_key = key

SavedCaptureMatchesBug(id, payload) == HasCapture(id)

SavedCaptureMatches(id, payload) == HasCapture(id) /\ maintenance_captures[id] = payload

CaptureMaintenanceOutcome(id, payload) ==
  IF ~ValidCapturePayload(payload) THEN "invalid"
  ELSE IF ~Exists(id) THEN "not_found"
  ELSE IF SavedCaptureMatches(id, payload) THEN "repeated"
  ELSE IF HasCapture(id) THEN "conflict"
  ELSE IF maintenance[id].state # "new" THEN "conflict"
  ELSE IF \E i \in DOMAIN payload : LockInUse(TrimSpace[payload[i].lock_key])
       THEN "conflict"
  ELSE "ok"

CaptureMaintenance(id, payload) ==
  /\ CaptureMaintenanceOutcome(id, payload) = "ok"
  /\ maintenance_captures' = [maintenance_captures EXCEPT ![id] = payload]
  /\ targets' = [targets EXCEPT ![id] = parseCaptureTargets(payload)]
  /\ maintenance' = [maintenance EXCEPT
                       ![id] = [state |-> "captured", version |-> @.version + 1]]
  /\ UNCHANGED <<exercised, observations>>

-----------------------------------------------------------------------------
(* TransitionMaintenance moves a run to another phase.                     *)

validateStoppedBarrierBug(id) ==
  \A t \in DOMAIN targets[id] :
    targets[id][t].original_state \in {"running", "stopped"} =>
      targets[id][t].state \in {"stopped", "skipped"}

validateStoppedBarrier(id) ==
  \A t \in DOMAIN targets[id] :
    IF targets[id][t].original_state \in {"running", "stopped"}
    THEN targets[id][t].state \in {"stopped", "skipped"}
    ELSE targets[id][t].state = "skipped"

validateCompletionBug(id) == HasCapture(id) /\ DOMAIN targets[id] # {}

validateCompletion(id) ==
  /\ HasCapture(id)
  /\ \A t \in DOMAIN targets[id] :
       targetCompletionAllowed(targets[id][t].original_state, targets[id][t].state)
  /\ DOMAIN targets[id] # {}

(* Cancelling looks at the journal, since a skipped target does not show   *)
(* what was done to it before.                                             *)
CancelAllowedBug(id) ==
  \A t \in DOMAIN targets[id] : targets[id][t].state \in {"captured", "stopped", "skipped"}

CancelAllowed(id) == id \notin exercised

(* The checks on a run that has failed: only an administrator reopens it.  *)
ReopenOutcome(id, change, role) ==
  IF ~isAdmin(role) THEN "forbidden"
  ELSE IF ~validJustification(change.justification) THEN "invalid"
  ELSE IF ~HasCapture(id) /\ change.state # "new" THEN "conflict"
  ELSE IF HasCapture(id) /\ change.state \in {"new", "completed", "cancelled"} THEN "conflict"
  ELSE "ok"

TransitionMaintenanceOutcome(id, change, precondition, role) ==
  LET m == maintenance[id]
  IN  IF change.state \notin MaintenanceStates THEN "invalid"
      ELSE IF ~Exists(id) THEN "not_found"
      ELSE IF require(precondition, m.version) # "ok" THEN require(precondition, m.version)
      ELSE IF m.state = "failed" /\ ReopenOutcome(id, change, role) # "ok"
           THEN ReopenOutcome(id, change, role)
      ELSE IF m.state # "failed" /\ IsMaintenanceTerminal(m.state) THEN "conflict"
      ELSE IF change.state = "captured" /\ m.state # "failed" THEN "invalid"
      ELSE IF ~ValidMaintenanceTransition(m.state, change.state) THEN "invalid"
      ELSE IF change.state = "cancelled" /\ m.state = "captured" /\ ~CancelAllowed(id)
           THEN "conflict"
      ELSE IF change.state = "stopped" /\ ~validateStoppedBarrier(id) THEN "conflict"
      ELSE IF change.state = "completed" /\ ~validateCompletion(id) THEN "conflict"
      ELSE "ok"

(* A new phase advances the version of every target of a captured run.     *)
AdvancedTargetsBug(id) == targets

AdvancedTargets(id) ==
  IF HasCapture(id)
  THEN [targets EXCEPT ![id] = [t \in DOMAIN targets[id] |->
                                  [targets[id][t] EXCEPT !.version = @ + 1]]]
  ELSE targets

TransitionMaintenance(id, change, precondition, role) ==
  /\ TransitionMaintenanceOutcome(id, change, precondition, role) = "ok"
  /\ targets' = AdvancedTargets(id)
  /\ maintenance' = [maintenance EXCEPT
                       ![id] = [state |-> change.state, version |-> @.version + 1]]
  /\ UNCHANGED <<maintenance_captures, exercised, observations>>

-----------------------------------------------------------------------------
(* TransitionTarget moves one captured target, and the run's version with  *)
(* it.                                                                     *)

NeedsSkipBug(original) == original = "degraded"

NeedsSkip(original) == original \in {"degraded", "unknown"}

TransitionTargetOutcome(id, t, change, precondition, role) ==
  LET m == maintenance[id]
      target == targets[id][t]
      skip == change.state = "skipped"
  IN  IF change.state \notin TargetStates THEN "invalid"
      ELSE IF ~Exists(id) THEN "not_found"
      ELSE IF IsMaintenanceTerminal(m.state) THEN "conflict"
      ELSE IF t \notin DOMAIN targets[id] THEN "not_found"
      ELSE IF require(precondition, target.version) # "ok"
           THEN require(precondition, target.version)
      ELSE IF skip /\ ~isAdmin(role) THEN "forbidden"
      ELSE IF skip /\ ~validJustification(change.justification) THEN "invalid"
      ELSE IF ~skip /\ NeedsSkip(target.original_state) THEN "conflict"
      ELSE IF target.state \in {"healthy", "skipped"} THEN "conflict"
      ELSE IF ~ValidTargetTransition(target.state, change.state) THEN "invalid"
      ELSE IF ~skip /\ target.original_state = "stopped" THEN "conflict"
      ELSE IF ~skip /\ ~targetPhaseAllowed(m.state, change.state) THEN "conflict"
      ELSE "ok"

(* The run's version covers its targets.                                   *)
AdvancedRunBug(id) == maintenance

AdvancedRun(id) == [maintenance EXCEPT ![id].version = @ + 1]

MovedTarget(target, state) == [target EXCEPT !.state = state, !.version = @ + 1]

TransitionTarget(id, t, change, precondition, role) ==
  /\ TransitionTargetOutcome(id, t, change, precondition, role) = "ok"
  /\ targets' = [targets EXCEPT ![id][t] = MovedTarget(@, change.state)]
  /\ maintenance' = AdvancedRun(id)
  /\ exercised' = IF change.state = "skipped" THEN exercised ELSE exercised \cup {id}
  /\ UNCHANGED <<maintenance_captures, observations>>

-----------------------------------------------------------------------------
(* AddObservation saves a measurement under the client's request id.  A    *)
(* repeated request is recognised before anything else is looked at.       *)

SavedObservationsBug(id, t, request) == {}

SavedObservations(id, t, request) ==
  {o \in observations :
     o.maintenance_id = id /\ o.target_id = t /\ o.request_id = request}

AddObservationOutcome(id, t, request, payload, precondition) ==
  LET saved == SavedObservations(id, t, request)
  IN  IF \E o \in saved : o.payload = payload THEN "repeated"
      ELSE IF saved # {} THEN "conflict"
      ELSE IF ~Exists(id) \/ t \notin DOMAIN targets[id] THEN "not_found"
      ELSE IF IsMaintenanceTerminal(maintenance[id].state) THEN "conflict"
      ELSE require(precondition, targets[id][t].version)

AddObservation(id, t, request, payload, precondition) ==
  /\ AddObservationOutcome(id, t, request, payload, precondition) = "ok"
  /\ observations' = observations \cup
       {[maintenance_id |-> id, target_id |-> t,
         request_id |-> request, payload |-> payload]}
  /\ UNCHANGED <<maintenance, maintenance_captures, targets, exercised>>

-----------------------------------------------------------------------------
Next ==
  \E id \in MaintenanceIDs :
    \/ CreateMaintenance(id)
    \/ \E payload \in CapturePayloads : CaptureMaintenance(id, payload)
    \/ \E change \in StateChange, precondition \in Preconditions, role \in WriterRoles :
         \/ TransitionMaintenance(id, change, precondition, role)
         \/ \E t \in TargetIDs : TransitionTarget(id, t, change, precondition, role)
    \/ \E t \in TargetIDs, request \in RequestIDs, payload \in ObservationPayloads,
          precondition \in Preconditions :
         AddObservation(id, t, request, payload, precondition)

Spec == Init /\ [][Next]_vars

-----------------------------------------------------------------------------
(* Properties *)

(* Every table holds rows of the declared column types, and the targets of *)
(* a run are the ones its saved capture lists (mutations.go inserts both   *)
(* in one transaction).                                                    *)
TablesOK ==
  /\ maintenance \in [MaintenanceIDs -> MaintenanceRow]
  /\ \A id \in MaintenanceIDs : (maintenance[id].version = 0) <=> (maintenance[id].state = "")
  /\ maintenance_captures \in [MaintenanceIDs -> CapturePayloads \cup {NoCapture}]
  /\ DOMAIN targets = MaintenanceIDs
  /\ \A id \in MaintenanceIDs :
       /\ DOMAIN targets[id] \subseteq TargetIDs
       /\ targets[id] \in [DOMAIN targets[id] -> TargetRow]
  /\ exercised \in SUBSET MaintenanceIDs

(* The tables, and the rows of the journal that the transactions read.     *)
TypeOK == TablesOK /\ observations \in SUBSET Observation

(* No two runs that still hold locks, failed runs included, claim the same *)
(* lock key: what CaptureMaintenance and the trigger                       *)
(* targets_lock_exclusive enforce and verifyLockExclusivity re-checks.     *)
LockExclusive ==
  \A a, b \in MaintenanceIDs :
    a # b /\ HoldsLocks(a) /\ HoldsLocks(b) =>
      \A t \in DOMAIN targets[a], u \in DOMAIN targets[b] :
        targets[a][t].lock_key # targets[b][u].lock_key

(* A run that is completed restored every captured target to what it was   *)
(* doing before, or had it explicitly skipped, and there was at least one: *)
(* nothing changes a target after validateCompletion accepted it.          *)
CompletedIsReconciled ==
  \A id \in MaintenanceIDs :
    maintenance[id].state = "completed" =>
      /\ HasCapture(id)
      /\ DOMAIN targets[id] # {}
      /\ \A t \in DOMAIN targets[id] :
           targetCompletionAllowed(targets[id][t].original_state, targets[id][t].state)

(* Cancelling releases the lock keys only of a run whose targets were      *)
(* never touched: none was ever moved, however often the run failed and    *)
(* was reopened and whatever was skipped later, and so each is as captured *)
(* or skipped.                                                             *)
CancelledIsUntouched ==
  \A id \in MaintenanceIDs :
    maintenance[id].state = "cancelled" =>
      /\ id \notin exercised
      /\ \A t \in DOMAIN targets[id] :
           targets[id][t].state \in {InitialTargetState(targets[id][t].original_state), "skipped"}

(* While a run is in phase "stopped", by the ordinary path or by a reopen, *)
(* every target that could be stopped is down and the others are skipped.  *)
StoppedPhaseIsQuiet ==
  \A id \in MaintenanceIDs :
    maintenance[id].state = "stopped" =>
      \A t \in DOMAIN targets[id] :
        \/ targets[id][t].state = "skipped"
        \/ /\ targets[id][t].state = "stopped"
           /\ targets[id][t].original_state \in {"running", "stopped"}

(* Only a target captured as running is ever moved; the others stay as     *)
(* captured until an administrator skips them.                             *)
OnlyRunningTargetsMove ==
  \A id \in MaintenanceIDs : \A t \in DOMAIN targets[id] :
    targets[id][t].original_state # "running" =>
      targets[id][t].state \in {InitialTargetState(targets[id][t].original_state), "skipped"}

(* Targets exist, and were moved, only in runs that saved a capture, and   *)
(* such a run has left "new" for good: it is never captured a second time. *)
CaptureCreatesTargets ==
  \A id \in MaintenanceIDs :
    /\ ~HasCapture(id) => DOMAIN targets[id] = {} /\ id \notin exercised
    /\ HasCapture(id) => maintenance[id].state \notin {"", "new"}

(* A run without a 'target.transitioned' event has only targets that are   *)
(* as captured or skipped: the cancel guard may trust the journal.         *)
UnexercisedIsUntouched ==
  \A id \in MaintenanceIDs : \A t \in DOMAIN targets[id] :
    id \notin exercised =>
      targets[id][t].state \in {InitialTargetState(targets[id][t].original_state), "skipped"}

(* The inductive invariant: the safety properties above rest on each other *)
(* and on the two facts just stated.                                       *)
StoreInvariant ==
  /\ TypeOK
  /\ CaptureCreatesTargets
  /\ UnexercisedIsUntouched
  /\ LockExclusive
  /\ CompletedIsReconciled
  /\ CancelledIsUntouched
  /\ StoppedPhaseIsQuiet
  /\ OnlyRunningTargetsMove

(* What one step keeps of a run's evidence, and what it advances.          *)
KeepsRun(id) ==
  /\ HasCapture(id) =>
       /\ maintenance_captures'[id] = maintenance_captures[id]
       /\ DOMAIN targets'[id] = DOMAIN targets[id]
       /\ \A t \in DOMAIN targets[id] :
            /\ targets'[id][t].lock_key = targets[id][t].lock_key
            /\ targets'[id][t].original_state = targets[id][t].original_state
  /\ Exists(id) /\ ~HoldsLocks(id) =>
       maintenance'[id] = maintenance[id] /\ targets'[id] = targets[id]

KeepsEvidence ==
  /\ \A id \in MaintenanceIDs : KeepsRun(id)
  /\ observations \subseteq observations'

AdvancesRun(id) ==
  /\ \/ maintenance'[id].state # maintenance[id].state
     \/ maintenance_captures'[id] # maintenance_captures[id]
     \/ targets'[id] # targets[id]
     => maintenance'[id].version = maintenance[id].version + 1
  /\ \A t \in DOMAIN targets[id] :
       \/ targets'[id][t].state # targets[id][t].state
       \/ maintenance'[id].state # maintenance[id].state
       => targets'[id][t].version = targets[id][t].version + 1

AdvancesVersions == \A id \in MaintenanceIDs : AdvancesRun(id)

(* The evidence is kept: a capture, the identity of its targets and the    *)
(* observations never change or disappear, and a run that released its     *)
(* locks never changes again.                                              *)
EvidenceIsKept == [][KeepsEvidence]_vars

(* Versions cover what a client read: any change of a run, its capture or  *)
(* its targets advances the run's version by one; a target that changes,   *)
(* or whose run changes phase, advances its own by one.                    *)
ChangesAdvanceVersions == [][AdvancesVersions]_vars
=============================================================================
