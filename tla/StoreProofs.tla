----------------------------- MODULE StoreProofs -----------------------------
(***************************************************************************)
(* Theorems about Store, for every set of runs, targets, lock keys and     *)
(* requests and with no bound on versions.                                 *)
(***************************************************************************)
EXTENDS Store, TLAPS

-----------------------------------------------------------------------------
(* The states, spelled out.                                                *)

LEMMA StateSets ==
  /\ MaintenanceStates = {"new", "captured", "stopping", "stopped", "waiting",
                          "starting", "failed", "completed", "cancelled"}
  /\ TargetStates = {"captured", "stopping", "stopped", "starting", "failed",
                     "healthy", "skipped"}
BY DEF MaintenanceStates, TargetStates, maintenanceTransitions, targetTransitions

(* Nothing follows "completed" and "cancelled", nothing leads back to      *)
(* them but the guarded transitions, and no transition invents a state.    *)
LEMMA MaintenanceTransitionFacts ==
  ASSUME NEW from, NEW to, ValidMaintenanceTransition(from, to)
  PROVE  /\ from \in MaintenanceStates \ {"completed", "cancelled"}
         /\ to \in MaintenanceStates
         /\ to = "cancelled" => from \in {"new", "captured"}
         /\ to = "completed" => from = "starting"
         /\ to = "new" => from = "failed"
BY StateSets DEF ValidMaintenanceTransition, maintenanceTransitions

LEMMA TargetTransitionFacts ==
  ASSUME NEW from, NEW to, ValidTargetTransition(from, to)
  PROVE  /\ from \in TargetStates \ {"healthy", "skipped"}
         /\ to \in TargetStates \ {"captured"}
BY StateSets DEF ValidTargetTransition, targetTransitions

-----------------------------------------------------------------------------
(* What an accepted request means, read off the early returns.             *)

LEMMA CreateGuard ==
  ASSUME NEW id, CreateMaintenanceOutcome(id) = "ok"
  PROVE  ~Exists(id)
BY DEF CreateMaintenanceOutcome

LEMMA CaptureGuard ==
  ASSUME NEW id, NEW payload, CaptureMaintenanceOutcome(id, payload) = "ok"
  PROVE  /\ ValidCapturePayload(payload)
         /\ Exists(id) /\ ~HasCapture(id) /\ maintenance[id].state = "new"
         /\ \A i \in DOMAIN payload : ~LockInUse(TrimSpace[payload[i].lock_key])
BY DEF CaptureMaintenanceOutcome, SavedCaptureMatches

LEMMA TransitionGuard ==
  ASSUME NEW id, NEW change, NEW precondition, NEW role,
         TransitionMaintenanceOutcome(id, change, precondition, role) = "ok"
  PROVE  /\ change.state \in MaintenanceStates
         /\ Exists(id)
         /\ match(precondition, maintenance[id].version)
         /\ ValidMaintenanceTransition(maintenance[id].state, change.state)
         /\ maintenance[id].state = "failed" =>
              /\ isAdmin(role) /\ validJustification(change.justification)
              /\ change.state = "new" => ~HasCapture(id)
              /\ change.state # "new" => HasCapture(id)
              /\ change.state \notin {"completed", "cancelled"}
         /\ maintenance[id].state # "failed" =>
              ~IsMaintenanceTerminal(maintenance[id].state) /\ change.state # "captured"
         /\ change.state = "cancelled" /\ maintenance[id].state = "captured" => CancelAllowed(id)
         /\ change.state = "stopped" => validateStoppedBarrier(id)
         /\ change.state = "completed" => validateCompletion(id)
<1>1. require(precondition, maintenance[id].version) = "ok"
  BY DEF TransitionMaintenanceOutcome
<1>2. match(precondition, maintenance[id].version)
  BY <1>1 DEF require
<1>3. maintenance[id].state = "failed" => ReopenOutcome(id, change, role) = "ok"
  BY DEF TransitionMaintenanceOutcome
<1>4. maintenance[id].state = "failed" =>
        /\ isAdmin(role) /\ validJustification(change.justification)
        /\ change.state = "new" => ~HasCapture(id)
        /\ change.state # "new" => HasCapture(id)
        /\ change.state \notin {"completed", "cancelled"}
  BY <1>3 DEF ReopenOutcome
<1>5. /\ change.state \in MaintenanceStates
      /\ Exists(id)
      /\ ValidMaintenanceTransition(maintenance[id].state, change.state)
      /\ maintenance[id].state # "failed" =>
           ~IsMaintenanceTerminal(maintenance[id].state) /\ change.state # "captured"
      /\ change.state = "cancelled" /\ maintenance[id].state = "captured" => CancelAllowed(id)
      /\ change.state = "stopped" => validateStoppedBarrier(id)
      /\ change.state = "completed" => validateCompletion(id)
  BY DEF TransitionMaintenanceOutcome
<1> QED BY <1>2, <1>4, <1>5

LEMMA TargetGuard ==
  ASSUME NEW id, NEW t, NEW change, NEW precondition, NEW role,
         TransitionTargetOutcome(id, t, change, precondition, role) = "ok"
  PROVE  /\ change.state \in TargetStates
         /\ Exists(id) /\ t \in DOMAIN targets[id]
         /\ ~IsMaintenanceTerminal(maintenance[id].state)
         /\ match(precondition, targets[id][t].version)
         /\ ValidTargetTransition(targets[id][t].state, change.state)
         /\ change.state = "skipped" => isAdmin(role) /\ validJustification(change.justification)
         /\ change.state # "skipped" =>
              /\ targets[id][t].original_state \notin {"degraded", "unknown", "stopped"}
              /\ targetPhaseAllowed(maintenance[id].state, change.state)
<1>1. require(precondition, targets[id][t].version) = "ok"
  BY DEF TransitionTargetOutcome
<1>2. match(precondition, targets[id][t].version)
  BY <1>1 DEF require
<1> QED BY <1>2 DEF TransitionTargetOutcome, NeedsSkip

LEMMA ObservationGuard ==
  ASSUME NEW id, NEW t, NEW request, NEW payload, NEW precondition,
         AddObservationOutcome(id, t, request, payload, precondition) = "ok"
  PROVE  /\ Exists(id) /\ t \in DOMAIN targets[id]
         /\ SavedObservations(id, t, request) = {}
         /\ ~IsMaintenanceTerminal(maintenance[id].state)
         /\ match(precondition, targets[id][t].version)
BY DEF AddObservationOutcome, require

-----------------------------------------------------------------------------
(* Parsing a valid capture gives one well-formed row for each entry.       *)

LEMMA ParsedTargets ==
  ASSUME NEW payload \in CapturePayloads, ValidCapturePayload(payload),
         NEW t \in DOMAIN parseCaptureTargets(payload)
  PROVE  LET row == parseCaptureTargets(payload)[t]
         IN  /\ t \in TargetIDs
             /\ row \in TargetRow
             /\ row.state = InitialTargetState(row.original_state)
             /\ \E i \in DOMAIN payload : row.lock_key = TrimSpace[payload[i].lock_key]
<1> DEFINE i == CHOOSE i \in DOMAIN payload : payload[i].target_id = t
           row == parseCaptureTargets(payload)[t]
<1>1. payload \in Seq(CaptureEntry)
  BY PayloadAssumption
<1>2. t \in CapturedIDs(payload)
  BY DEF parseCaptureTargets
<1>3. i \in DOMAIN payload /\ payload[i].target_id = t
  BY <1>2 DEF CapturedIDs
<1> HIDE DEF i
<1>4. payload[i] \in CaptureEntry
  BY <1>1, <1>3
<1>5. /\ row.lock_key = TrimSpace[payload[i].lock_key]
      /\ row.original_state = payload[i].original_state
      /\ row.state = InitialTargetState(payload[i].original_state)
      /\ row.version = 1
      /\ row = [lock_key |-> row.lock_key, original_state |-> row.original_state,
                state |-> row.state, version |-> row.version]
  BY <1>2 DEF parseCaptureTargets, CapturedEntry, i
<1>6. /\ TrimSpace[payload[i].lock_key] \in LockKeys
      /\ payload[i].original_state \in OriginalStates
  BY <1>3, <1>4, TrimSpaceAssumption DEF CaptureEntry, ValidCapturePayload
<1>7. InitialTargetState(payload[i].original_state) \in TargetStates
  BY StateSets DEF InitialTargetState
<1>8. row \in TargetRow
  BY <1>5, <1>6, <1>7 DEF TargetRow
<1> QED BY <1>3, <1>4, <1>5, <1>8 DEF CaptureEntry

-----------------------------------------------------------------------------
(* Type correctness *)

(* Rows, field by field.                                                   *)

LEMMA MaintenanceRowFields ==
  ASSUME NEW row \in MaintenanceRow
  PROVE  row.version \in Nat /\ row.state \in MaintenanceStates \cup {""}
BY DEF MaintenanceRow

LEMMA MaintenanceRowVersion ==
  ASSUME NEW row \in MaintenanceRow, NEW version \in Nat
  PROVE  /\ [row EXCEPT !.version = version] \in MaintenanceRow
         /\ [row EXCEPT !.version = version].version = version
         /\ [row EXCEPT !.version = version].state = row.state
BY DEF MaintenanceRow

LEMMA TargetRowFields ==
  ASSUME NEW row \in TargetRow
  PROVE  /\ row.lock_key \in LockKeys /\ row.original_state \in OriginalStates
         /\ row.state \in TargetStates /\ row.version \in Nat
BY DEF TargetRow

LEMMA TargetRowVersion ==
  ASSUME NEW row \in TargetRow, NEW version \in Nat \ {0}
  PROVE  LET new == [row EXCEPT !.version = version]
         IN  /\ new \in TargetRow
             /\ new.lock_key = row.lock_key
             /\ new.original_state = row.original_state
             /\ new.state = row.state
             /\ new.version = version
BY DEF TargetRow

LEMMA TargetRowMove ==
  ASSUME NEW row \in TargetRow, NEW state \in TargetStates
  PROVE  LET new == MovedTarget(row, state)
         IN  /\ new \in TargetRow
             /\ new.lock_key = row.lock_key
             /\ new.original_state = row.original_state
             /\ new.state = state
             /\ new.version = row.version + 1
<1>1. PICK version \in Nat \ {0} : version = row.version + 1
  BY TargetRowFields
<1>2. MovedTarget(row, state) = [row EXCEPT !.state = state, !.version = version]
  BY <1>1 DEF MovedTarget
<1> QED BY <1>1, <1>2 DEF TargetRow

(* One row of the maintenance table is replaced by a well-formed one.      *)
LEMMA MaintenanceUpdate ==
  ASSUME TablesOK, NEW id \in MaintenanceIDs, NEW state, NEW version,
         state \in MaintenanceStates, version \in Nat \ {0},
         maintenance' = [maintenance EXCEPT ![id] = [state |-> state, version |-> version]]
  PROVE  /\ maintenance' \in [MaintenanceIDs -> MaintenanceRow]
         /\ \A r \in MaintenanceIDs :
              (maintenance'[r].version = 0) <=> (maintenance'[r].state = "")
         /\ maintenance'[id].state = state /\ maintenance'[id].version = version
         /\ \A r \in MaintenanceIDs \ {id} : maintenance'[r] = maintenance[r]
<1> DEFINE row == [state |-> state, version |-> version]
<1>1. row \in MaintenanceRow /\ row.state = state /\ row.version = version
  BY DEF MaintenanceRow
<1>2. row.version # 0 /\ row.state # ""
  BY <1>1, StateSets
<1> HIDE DEF row
<1>3. maintenance' = [maintenance EXCEPT ![id] = row]
  BY DEF row
<1>4. maintenance \in [MaintenanceIDs -> MaintenanceRow]
  BY DEF TablesOK
<1>5. /\ maintenance' \in [MaintenanceIDs -> MaintenanceRow]
      /\ maintenance'[id] = row
      /\ \A r \in MaintenanceIDs \ {id} : maintenance'[r] = maintenance[r]
  BY <1>1, <1>3, <1>4
<1>6. \A r \in MaintenanceIDs : (maintenance'[r].version = 0) <=> (maintenance'[r].state = "")
  BY <1>2, <1>5 DEF TablesOK
<1> QED BY <1>1, <1>5, <1>6

LEMMA InitType == Init => TypeOK
<1> SUFFICES ASSUME Init PROVE TypeOK
  OBVIOUS
<1>1. NoRow \in MaintenanceRow /\ NoRow.version = 0 /\ NoRow.state = ""
  BY DEF NoRow, MaintenanceRow
<1>2. /\ maintenance \in [MaintenanceIDs -> MaintenanceRow]
      /\ \A id \in MaintenanceIDs :
           (maintenance[id].version = 0) <=> (maintenance[id].state = "")
  BY <1>1 DEF Init
<1>3. /\ DOMAIN targets = MaintenanceIDs
      /\ \A id \in MaintenanceIDs :
           /\ DOMAIN targets[id] \subseteq TargetIDs
           /\ targets[id] \in [DOMAIN targets[id] -> TargetRow]
  BY DEF Init
<1> QED BY <1>2, <1>3 DEF Init, TypeOK, TablesOK

LEMMA CreateType ==
  ASSUME TablesOK, NEW id \in MaintenanceIDs, CreateMaintenance(id)
  PROVE  TablesOK'
<1>1. /\ maintenance' \in [MaintenanceIDs -> MaintenanceRow]
      /\ \A r \in MaintenanceIDs :
           (maintenance'[r].version = 0) <=> (maintenance'[r].state = "")
  <2>1. maintenance' = [maintenance EXCEPT ![id] = [state |-> "new", version |-> 1]]
    BY DEF CreateMaintenance
  <2>2. "new" \in MaintenanceStates /\ 1 \in Nat \ {0}
    BY StateSets
  <2> QED BY <2>1, <2>2, MaintenanceUpdate
<1> QED BY <1>1 DEF TablesOK, CreateMaintenance

LEMMA CaptureType ==
  ASSUME TablesOK, NEW id \in MaintenanceIDs, NEW payload \in CapturePayloads,
         CaptureMaintenance(id, payload)
  PROVE  TablesOK'
<1>1. ValidCapturePayload(payload) /\ Exists(id)
  BY CaptureGuard DEF CaptureMaintenance
<1>2. maintenance[id].version + 1 \in Nat \ {0}
  <2>1. maintenance[id] \in MaintenanceRow
    BY DEF TablesOK
  <2>2. maintenance[id].version \in Nat
    BY <2>1, MaintenanceRowFields
  <2> QED BY <2>2
<1>3. /\ maintenance' \in [MaintenanceIDs -> MaintenanceRow]
      /\ \A r \in MaintenanceIDs :
           (maintenance'[r].version = 0) <=> (maintenance'[r].state = "")
  <2>1. maintenance' = [maintenance EXCEPT
                          ![id] = [state |-> "captured", version |-> maintenance[id].version + 1]]
    BY DEF CaptureMaintenance
  <2>2. "captured" \in MaintenanceStates
    BY StateSets
  <2> QED BY <1>2, <2>1, <2>2, MaintenanceUpdate
<1>4. maintenance_captures' \in [MaintenanceIDs -> CapturePayloads \cup {NoCapture}]
  BY DEF TablesOK, CaptureMaintenance
<1>5. DOMAIN targets' = MaintenanceIDs
  BY DEF TablesOK, CaptureMaintenance
<1>6. \A r \in MaintenanceIDs :
        /\ DOMAIN targets'[r] \subseteq TargetIDs
        /\ targets'[r] \in [DOMAIN targets'[r] -> TargetRow]
  <2> SUFFICES ASSUME NEW r \in MaintenanceIDs
               PROVE  /\ DOMAIN targets'[r] \subseteq TargetIDs
                      /\ targets'[r] \in [DOMAIN targets'[r] -> TargetRow]
    OBVIOUS
  <2>1. CASE r = id
    <3>1. targets'[r] = parseCaptureTargets(payload)
      BY <2>1 DEF CaptureMaintenance, TablesOK
    <3>2. parseCaptureTargets(payload) \in
            [DOMAIN parseCaptureTargets(payload) -> TargetRow]
      <4>1. \A t \in DOMAIN parseCaptureTargets(payload) :
              parseCaptureTargets(payload)[t] \in TargetRow
        BY <1>1, ParsedTargets
      <4>2. parseCaptureTargets(payload) =
              [t \in DOMAIN parseCaptureTargets(payload) |-> parseCaptureTargets(payload)[t]]
        BY DEF parseCaptureTargets
      <4> QED BY <4>1, <4>2
    <3>3. DOMAIN parseCaptureTargets(payload) \subseteq TargetIDs
      BY <1>1, ParsedTargets
    <3> QED BY <3>1, <3>2, <3>3
  <2>2. CASE r # id
    BY <2>2 DEF CaptureMaintenance, TablesOK
  <2> QED BY <2>1, <2>2
<1>7. exercised' \in SUBSET MaintenanceIDs
  BY DEF TablesOK, CaptureMaintenance
<1> QED BY <1>3, <1>4, <1>5, <1>6, <1>7 DEF TablesOK

(* What a new phase does to the targets of its run.                        *)
LEMMA AdvancedTargetsFacts ==
  ASSUME TablesOK, NEW id \in MaintenanceIDs
  PROVE  /\ DOMAIN AdvancedTargets(id) = MaintenanceIDs
         /\ \A r \in MaintenanceIDs :
              /\ DOMAIN AdvancedTargets(id)[r] = DOMAIN targets[r]
              /\ AdvancedTargets(id)[r] \in [DOMAIN targets[r] -> TargetRow]
              /\ \A t \in DOMAIN targets[r] :
                   /\ AdvancedTargets(id)[r][t].lock_key = targets[r][t].lock_key
                   /\ AdvancedTargets(id)[r][t].original_state = targets[r][t].original_state
                   /\ AdvancedTargets(id)[r][t].state = targets[r][t].state
         /\ \A r \in MaintenanceIDs \ {id} : AdvancedTargets(id)[r] = targets[r]
         /\ HasCapture(id) =>
              \A t \in DOMAIN targets[id] :
                AdvancedTargets(id)[id][t].version = targets[id][t].version + 1
<1>1. CASE ~HasCapture(id)
  BY <1>1 DEF AdvancedTargets, TablesOK
<1>2. CASE HasCapture(id)
  <2> DEFINE rows == [t \in DOMAIN targets[id] |-> [targets[id][t] EXCEPT !.version = @ + 1]]
  <2>1. AdvancedTargets(id) = [targets EXCEPT ![id] = rows]
    BY <1>2 DEF AdvancedTargets
  <2>2. \A t \in DOMAIN targets[id] :
          /\ rows[t] \in TargetRow
          /\ rows[t].lock_key = targets[id][t].lock_key
          /\ rows[t].original_state = targets[id][t].original_state
          /\ rows[t].state = targets[id][t].state
          /\ rows[t].version = targets[id][t].version + 1
    <3> TAKE t \in DOMAIN targets[id]
    <3>1. targets[id][t] \in TargetRow
      BY DEF TablesOK
    <3>2. targets[id][t].version + 1 \in Nat \ {0}
      BY <3>1, TargetRowFields
    <3>3. rows[t] = [targets[id][t] EXCEPT !.version = targets[id][t].version + 1]
      OBVIOUS
    <3> HIDE DEF rows
    <3> QED BY <3>1, <3>2, <3>3, TargetRowVersion
  <2>3. DOMAIN rows = DOMAIN targets[id] /\ rows \in [DOMAIN targets[id] -> TargetRow]
    BY <2>2
  <2> HIDE DEF rows
  <2>4. \A r \in MaintenanceIDs : targets[r] \in [DOMAIN targets[r] -> TargetRow]
    BY DEF TablesOK
  <2> QED BY <2>1, <2>2, <2>3, <2>4 DEF TablesOK
<1> QED BY <1>1, <1>2

LEMMA TransitionMaintenanceType ==
  ASSUME TablesOK, NEW id \in MaintenanceIDs, NEW change, NEW precondition, NEW role,
         TransitionMaintenance(id, change, precondition, role)
  PROVE  TablesOK'
<1>1. change.state \in MaintenanceStates
  BY TransitionGuard DEF TransitionMaintenance
<1>2. maintenance[id].version + 1 \in Nat \ {0}
  <2>1. maintenance[id] \in MaintenanceRow
    BY DEF TablesOK
  <2>2. maintenance[id].version \in Nat
    BY <2>1, MaintenanceRowFields
  <2> QED BY <2>2
<1>3. /\ maintenance' \in [MaintenanceIDs -> MaintenanceRow]
      /\ \A r \in MaintenanceIDs :
           (maintenance'[r].version = 0) <=> (maintenance'[r].state = "")
  <2>1. maintenance' = [maintenance EXCEPT
                          ![id] = [state |-> change.state, version |-> maintenance[id].version + 1]]
    BY DEF TransitionMaintenance
  <2> QED BY <1>1, <1>2, <2>1, MaintenanceUpdate
<1>4. /\ DOMAIN targets' = MaintenanceIDs
      /\ \A r \in MaintenanceIDs :
           /\ DOMAIN targets'[r] \subseteq TargetIDs
           /\ targets'[r] \in [DOMAIN targets'[r] -> TargetRow]
  <2>1. targets' = AdvancedTargets(id)
    BY DEF TransitionMaintenance
  <2>2. \A r \in MaintenanceIDs : DOMAIN targets[r] \subseteq TargetIDs
    BY DEF TablesOK
  <2> QED BY <2>1, <2>2, AdvancedTargetsFacts
<1> QED BY <1>3, <1>4 DEF TablesOK, TransitionMaintenance

(* A target's change advances the version of its run and nothing else.     *)
LEMMA AdvancedRunFacts ==
  ASSUME TablesOK, NEW id \in MaintenanceIDs, maintenance[id].version # 0
  PROVE  /\ AdvancedRun(id) \in [MaintenanceIDs -> MaintenanceRow]
         /\ \A r \in MaintenanceIDs :
              /\ (AdvancedRun(id)[r].version = 0) <=> (AdvancedRun(id)[r].state = "")
              /\ AdvancedRun(id)[r].state = maintenance[r].state
              /\ r # id => AdvancedRun(id)[r] = maintenance[r]
         /\ AdvancedRun(id)[id].version = maintenance[id].version + 1
<1> DEFINE row == [maintenance[id] EXCEPT !.version = @ + 1]
<1>1. maintenance \in [MaintenanceIDs -> MaintenanceRow] /\ maintenance[id] \in MaintenanceRow
  BY DEF TablesOK
<1>2. /\ row \in MaintenanceRow
      /\ row.state = maintenance[id].state
      /\ row.version = maintenance[id].version + 1 /\ row.version # 0
  <2> DEFINE version == maintenance[id].version
  <2>0. version \in Nat
    BY <1>1, MaintenanceRowFields
  <2> HIDE DEF version
  <2>1. version + 1 \in Nat /\ version + 1 # 0
    BY <2>0
  <2>2. row = [maintenance[id] EXCEPT !.version = version + 1]
    BY DEF version
  <2> USE DEF version
  <2> QED BY <1>1, <2>1, <2>2, MaintenanceRowVersion
<1>3. AdvancedRun(id) = [maintenance EXCEPT ![id] = row]
  BY DEF AdvancedRun
<1> HIDE DEF row
<1>4. AdvancedRun(id)[id] = row
  BY <1>1, <1>3
<1>5. \A other \in MaintenanceIDs \ {id} : AdvancedRun(id)[other] = maintenance[other]
  BY <1>1, <1>3
<1>6. AdvancedRun(id) \in [MaintenanceIDs -> MaintenanceRow]
  BY <1>1, <1>2, <1>3
<1>7. \A r \in MaintenanceIDs : (maintenance[r].version = 0) <=> (maintenance[r].state = "")
  BY DEF TablesOK
<1>8. maintenance[id].state # ""
  BY <1>7
<1>9. (row.version = 0) <=> (row.state = "")
  BY <1>2, <1>8
<1> QED BY <1>2, <1>4, <1>5, <1>6, <1>7, <1>9

(* What TransitionTarget does to the tables.                               *)
LEMMA TransitionTargetFacts ==
  ASSUME TablesOK, NEW id \in MaintenanceIDs, NEW t, NEW change, NEW precondition, NEW role,
         TransitionTarget(id, t, change, precondition, role)
  PROVE  /\ DOMAIN targets' = MaintenanceIDs
         /\ \A r \in MaintenanceIDs :
              /\ DOMAIN targets'[r] = DOMAIN targets[r]
              /\ targets'[r] \in [DOMAIN targets[r] -> TargetRow]
              /\ \A u \in DOMAIN targets[r] :
                   /\ targets'[r][u].lock_key = targets[r][u].lock_key
                   /\ targets'[r][u].original_state = targets[r][u].original_state
                   /\ r # id \/ u # t => targets'[r][u] = targets[r][u]
         /\ targets'[id][t].state = change.state
         /\ targets'[id][t].version = targets[id][t].version + 1
<1>1. /\ change.state \in TargetStates
      /\ t \in DOMAIN targets[id]
  BY TargetGuard DEF TransitionTarget
<1> DEFINE row == MovedTarget(targets[id][t], change.state)
<1>2. targets[id] \in [DOMAIN targets[id] -> TargetRow] /\ DOMAIN targets = MaintenanceIDs
  BY DEF TablesOK
<1>3. /\ row \in TargetRow
      /\ row.lock_key = targets[id][t].lock_key
      /\ row.original_state = targets[id][t].original_state
      /\ row.state = change.state
      /\ row.version = targets[id][t].version + 1
  <2>1. targets[id][t] \in TargetRow
    BY <1>1, <1>2
  <2> QED BY <1>1, <2>1, TargetRowMove
<1>4. targets' = [targets EXCEPT ![id] = [targets[id] EXCEPT ![t] = row]]
  BY DEF TransitionTarget
<1> HIDE DEF row
<1>5. [targets[id] EXCEPT ![t] = row] \in [DOMAIN targets[id] -> TargetRow]
  BY <1>1, <1>2, <1>3
<1>6. \A r \in MaintenanceIDs : targets[r] \in [DOMAIN targets[r] -> TargetRow]
  BY DEF TablesOK
<1> QED BY <1>1, <1>2, <1>3, <1>4, <1>5, <1>6

LEMMA TransitionTargetType ==
  ASSUME TablesOK, NEW id \in MaintenanceIDs, NEW t, NEW change, NEW precondition, NEW role,
         TransitionTarget(id, t, change, precondition, role)
  PROVE  TablesOK'
<1>1. maintenance[id].version # 0
  BY TargetGuard DEF TransitionTarget, Exists
<1>2. /\ maintenance' \in [MaintenanceIDs -> MaintenanceRow]
      /\ \A r \in MaintenanceIDs :
           (maintenance'[r].version = 0) <=> (maintenance'[r].state = "")
  BY <1>1, AdvancedRunFacts DEF TransitionTarget
<1>3. exercised' \in SUBSET MaintenanceIDs
  BY DEF TablesOK, TransitionTarget
<1>4. /\ DOMAIN targets' = MaintenanceIDs
      /\ \A r \in MaintenanceIDs :
           /\ DOMAIN targets'[r] \subseteq TargetIDs
           /\ targets'[r] \in [DOMAIN targets'[r] -> TargetRow]
  BY TransitionTargetFacts DEF TablesOK
<1> QED BY <1>2, <1>3, <1>4 DEF TablesOK, TransitionTarget

LEMMA ObservationType ==
  ASSUME TypeOK, NEW id \in MaintenanceIDs, NEW t \in TargetIDs, NEW request \in RequestIDs,
         NEW payload \in ObservationPayloads, NEW precondition,
         AddObservation(id, t, request, payload, precondition)
  PROVE  TypeOK'
<1>1. observations' \in SUBSET Observation
  <2>1. [maintenance_id |-> id, target_id |-> t, request_id |-> request, payload |-> payload]
          \in Observation
    BY DEF Observation
  <2>2. observations \in SUBSET Observation
    BY DEF TypeOK
  <2> QED BY <2>1, <2>2 DEF AddObservation
<1> QED BY <1>1 DEF TypeOK, TablesOK, AddObservation

LEMMA TypeStep == TypeOK /\ [Next]_vars => TypeOK'
<1> SUFFICES ASSUME TypeOK, [Next]_vars PROVE TypeOK'
  OBVIOUS
<1>0. TablesOK /\ observations \in SUBSET Observation
  BY DEF TypeOK
<1>1. ASSUME NEW id \in MaintenanceIDs, CreateMaintenance(id)
      PROVE  TypeOK'
  BY <1>0, <1>1, CreateType DEF CreateMaintenance, TypeOK
<1>2. ASSUME NEW id \in MaintenanceIDs, NEW payload \in CapturePayloads,
             CaptureMaintenance(id, payload)
      PROVE  TypeOK'
  BY <1>0, <1>2, CaptureType DEF CaptureMaintenance, TypeOK
<1>3. ASSUME NEW id \in MaintenanceIDs, NEW change, NEW precondition, NEW role,
             TransitionMaintenance(id, change, precondition, role)
      PROVE  TypeOK'
  BY <1>0, <1>3, TransitionMaintenanceType DEF TransitionMaintenance, TypeOK
<1>4. ASSUME NEW id \in MaintenanceIDs, NEW t, NEW change, NEW precondition, NEW role,
             TransitionTarget(id, t, change, precondition, role)
      PROVE  TypeOK'
  BY <1>0, <1>4, TransitionTargetType DEF TransitionTarget, TypeOK
<1>5. CASE UNCHANGED vars
  BY <1>5 DEF vars, TypeOK, TablesOK
<1> QED BY <1>1, <1>2, <1>3, <1>4, <1>5, ObservationType DEF Next

(* Every reachable database has well-formed rows in all its tables.        *)
THEOREM TypeCorrect == Spec => []TypeOK
<1> QED BY InitType, TypeStep, PTL DEF Spec

-----------------------------------------------------------------------------
(***************************************************************************)
(* The safety invariants.  All of them but LockExclusive speak of one run  *)
(* at a time.  RunOK is their conjunction as a predicate on what the tables*)
(* say of one run, so that an action only has to be followed for the run it*)
(* changes.                                                                *)
(***************************************************************************)

Untouched(row) == row.state \in {InitialTargetState(row.original_state), "skipped"}

Quiet(row) ==
  \/ row.state = "skipped"
  \/ row.state = "stopped" /\ row.original_state \in {"running", "stopped"}

RunOK(state, captured, moved, rows) ==
  /\ ~captured => DOMAIN rows = {} /\ ~moved
  /\ captured => state \notin {"", "new"}
  /\ \A t \in DOMAIN rows :
       ~moved \/ rows[t].original_state # "running" => Untouched(rows[t])
  /\ state = "completed" =>
       /\ captured
       /\ DOMAIN rows # {}
       /\ \A t \in DOMAIN rows :
            targetCompletionAllowed(rows[t].original_state, rows[t].state)
  /\ state = "cancelled" => ~moved
  /\ state = "stopped" => \A t \in DOMAIN rows : Quiet(rows[t])

RunInvariant ==
  \A id \in MaintenanceIDs :
    RunOK(maintenance[id].state, HasCapture(id), id \in exercised, targets[id])

LEMMA InvariantByRun ==
  StoreInvariant <=> TypeOK /\ LockExclusive /\ RunInvariant
<1>1. StoreInvariant => TypeOK /\ LockExclusive /\ RunInvariant
  BY DEF StoreInvariant, CaptureCreatesTargets, UnexercisedIsUntouched, CompletedIsReconciled,
         CancelledIsUntouched, StoppedPhaseIsQuiet, OnlyRunningTargetsMove,
         RunInvariant, RunOK, Untouched, Quiet
<1>2. TypeOK /\ LockExclusive /\ RunInvariant => StoreInvariant
  BY DEF StoreInvariant, CaptureCreatesTargets, UnexercisedIsUntouched, CompletedIsReconciled,
         CancelledIsUntouched, StoppedPhaseIsQuiet, OnlyRunningTargetsMove,
         RunInvariant, RunOK, Untouched, Quiet
<1> QED BY <1>1, <1>2

-----------------------------------------------------------------------------
(* What each action does to the tables.                                    *)

LEMMA CreateFacts ==
  ASSUME TablesOK, NEW id \in MaintenanceIDs, CreateMaintenance(id)
  PROVE  /\ maintenance[id].state = ""
         /\ maintenance'[id].state = "new"
         /\ \A r \in MaintenanceIDs \ {id} : maintenance'[r] = maintenance[r]
         /\ UNCHANGED <<maintenance_captures, targets, exercised, observations>>
<1>1. ~Exists(id)
  BY CreateGuard DEF CreateMaintenance
<1>2. maintenance[id].state = ""
  BY <1>1 DEF TablesOK, Exists
<1>3. maintenance' = [maintenance EXCEPT ![id] = [state |-> "new", version |-> 1]]
  BY DEF CreateMaintenance
<1>4. "new" \in MaintenanceStates /\ 1 \in Nat \ {0}
  BY StateSets
<1>5. /\ maintenance'[id].state = "new"
      /\ \A r \in MaintenanceIDs \ {id} : maintenance'[r] = maintenance[r]
  BY <1>3, <1>4, MaintenanceUpdate
<1> QED BY <1>2, <1>5 DEF CreateMaintenance

LEMMA NextVersion ==
  ASSUME TablesOK, NEW id \in MaintenanceIDs
  PROVE  maintenance[id].version + 1 \in Nat \ {0}
<1>1. maintenance[id] \in MaintenanceRow
  BY DEF TablesOK
<1>2. maintenance[id].version \in Nat
  BY <1>1, MaintenanceRowFields
<1> QED BY <1>2

LEMMA CaptureFacts ==
  ASSUME TablesOK, NEW id \in MaintenanceIDs, NEW payload \in CapturePayloads,
         CaptureMaintenance(id, payload)
  PROVE  /\ maintenance'[id].state = "captured"
         /\ maintenance_captures'[id] = payload
         /\ targets'[id] = parseCaptureTargets(payload)
         /\ \A r \in MaintenanceIDs \ {id} :
              /\ maintenance'[r] = maintenance[r]
              /\ maintenance_captures'[r] = maintenance_captures[r]
              /\ targets'[r] = targets[r]
         /\ UNCHANGED <<exercised, observations>>
<1>1. maintenance' = [maintenance EXCEPT
                        ![id] = [state |-> "captured", version |-> maintenance[id].version + 1]]
  BY DEF CaptureMaintenance
<1>2. "captured" \in MaintenanceStates
  BY StateSets
<1>3. /\ maintenance'[id].state = "captured"
      /\ \A r \in MaintenanceIDs \ {id} : maintenance'[r] = maintenance[r]
  BY <1>1, <1>2, NextVersion, MaintenanceUpdate
<1>4. /\ maintenance_captures'[id] = payload
      /\ targets'[id] = parseCaptureTargets(payload)
      /\ \A r \in MaintenanceIDs \ {id} :
           /\ maintenance_captures'[r] = maintenance_captures[r]
           /\ targets'[r] = targets[r]
  BY DEF CaptureMaintenance, TablesOK
<1> QED BY <1>3, <1>4 DEF CaptureMaintenance

LEMMA TransitionFacts ==
  ASSUME TablesOK, NEW id \in MaintenanceIDs, NEW change, NEW precondition, NEW role,
         TransitionMaintenance(id, change, precondition, role)
  PROVE  /\ maintenance'[id].state = change.state
         /\ maintenance'[id].version = maintenance[id].version + 1
         /\ \A r \in MaintenanceIDs \ {id} :
              maintenance'[r] = maintenance[r] /\ targets'[r] = targets[r]
         /\ DOMAIN targets'[id] = DOMAIN targets[id]
         /\ \A t \in DOMAIN targets[id] :
              /\ targets'[id][t].lock_key = targets[id][t].lock_key
              /\ targets'[id][t].original_state = targets[id][t].original_state
              /\ targets'[id][t].state = targets[id][t].state
         /\ UNCHANGED <<maintenance_captures, exercised, observations>>
<1>1. maintenance' = [maintenance EXCEPT
                        ![id] = [state |-> change.state, version |-> maintenance[id].version + 1]]
  BY DEF TransitionMaintenance
<1>2. change.state \in MaintenanceStates
  BY TransitionGuard DEF TransitionMaintenance
<1>3. /\ maintenance'[id].state = change.state
      /\ maintenance'[id].version = maintenance[id].version + 1
      /\ \A r \in MaintenanceIDs \ {id} : maintenance'[r] = maintenance[r]
  BY <1>1, <1>2, NextVersion, MaintenanceUpdate
<1>4. targets' = AdvancedTargets(id)
  BY DEF TransitionMaintenance
<1>5. /\ \A r \in MaintenanceIDs \ {id} : targets'[r] = targets[r]
      /\ DOMAIN targets'[id] = DOMAIN targets[id]
      /\ \A t \in DOMAIN targets[id] :
           /\ targets'[id][t].lock_key = targets[id][t].lock_key
           /\ targets'[id][t].original_state = targets[id][t].original_state
           /\ targets'[id][t].state = targets[id][t].state
  BY <1>4, AdvancedTargetsFacts
<1> QED BY <1>3, <1>5 DEF TransitionMaintenance

-----------------------------------------------------------------------------
(* The run an action changes is still as it should be.                     *)

LEMMA CreateRun ==
  ASSUME TablesOK, RunInvariant, NEW id \in MaintenanceIDs, CreateMaintenance(id)
  PROVE  RunInvariant'
<1> SUFFICES ASSUME NEW r \in MaintenanceIDs
             PROVE  RunOK(maintenance'[r].state, HasCapture(r)', (r \in exercised)', targets'[r])
  BY DEF RunInvariant
<1>1. RunOK(maintenance[r].state, HasCapture(r), r \in exercised, targets[r])
  BY DEF RunInvariant
<1>2. /\ HasCapture(r)' <=> HasCapture(r)
      /\ (r \in exercised)' <=> r \in exercised
      /\ targets'[r] = targets[r]
  BY CreateFacts DEF HasCapture
<1>3. CASE r = id
  <2>1. maintenance[r].state = "" /\ maintenance'[r].state = "new"
    BY <1>3, CreateFacts
  <2>2. ~HasCapture(r)
    BY <1>1, <2>1 DEF RunOK
  <2> QED BY <1>1, <1>2, <2>1, <2>2 DEF RunOK
<1>4. CASE r # id
  <2>1. maintenance'[r] = maintenance[r]
    BY <1>4, CreateFacts
  <2> QED BY <1>1, <1>2, <2>1 DEF RunOK
<1> QED BY <1>3, <1>4

LEMMA CaptureRun ==
  ASSUME TablesOK, RunInvariant, NEW id \in MaintenanceIDs, NEW payload \in CapturePayloads,
         CaptureMaintenance(id, payload)
  PROVE  RunInvariant'
<1> SUFFICES ASSUME NEW r \in MaintenanceIDs
             PROVE  RunOK(maintenance'[r].state, HasCapture(r)', (r \in exercised)', targets'[r])
  BY DEF RunInvariant
<1>1. RunOK(maintenance[r].state, HasCapture(r), r \in exercised, targets[r])
  BY DEF RunInvariant
<1>2. (r \in exercised)' <=> r \in exercised
  BY CaptureFacts
<1>3. CASE r = id
  <2>1. maintenance'[r].state = "captured" /\ targets'[r] = parseCaptureTargets(payload)
    BY <1>3, CaptureFacts
  <2>2. HasCapture(r)'
    BY <1>3, CaptureFacts, PayloadAssumption DEF HasCapture
  <2>3. ValidCapturePayload(payload)
    BY CaptureGuard DEF CaptureMaintenance
  <2>4. \A t \in DOMAIN targets'[r] : Untouched(targets'[r][t])
    BY <2>1, <2>3, ParsedTargets DEF Untouched
  <2> QED BY <2>1, <2>2, <2>4 DEF RunOK
<1>4. CASE r # id
  <2>1. /\ maintenance'[r] = maintenance[r]
        /\ targets'[r] = targets[r]
        /\ HasCapture(r)' <=> HasCapture(r)
    BY <1>4, CaptureFacts DEF HasCapture
  <2> QED BY <1>1, <1>2, <2>1 DEF RunOK
<1> QED BY <1>3, <1>4

LEMMA TransitionRun ==
  ASSUME TablesOK, RunInvariant, NEW id \in MaintenanceIDs,
         NEW change, NEW precondition, NEW role,
         TransitionMaintenance(id, change, precondition, role)
  PROVE  RunInvariant'
<1> SUFFICES ASSUME NEW r \in MaintenanceIDs
             PROVE  RunOK(maintenance'[r].state, HasCapture(r)', (r \in exercised)', targets'[r])
  BY DEF RunInvariant
<1>1. RunOK(maintenance[r].state, HasCapture(r), r \in exercised, targets[r])
  BY DEF RunInvariant
<1>2. /\ HasCapture(r)' <=> HasCapture(r)
      /\ (r \in exercised)' <=> r \in exercised
  BY TransitionFacts DEF HasCapture
<1>3. CASE r = id
  <2> DEFINE from == maintenance[id].state
  <2>1. /\ ValidMaintenanceTransition(from, change.state)
        /\ from = "failed" => (change.state = "new" => ~HasCapture(id))
        /\ change.state = "cancelled" /\ from = "captured" => id \notin exercised
        /\ change.state = "stopped" => validateStoppedBarrier(id)
        /\ change.state = "completed" => validateCompletion(id)
    BY TransitionGuard DEF TransitionMaintenance, CancelAllowed
  <2>2. /\ change.state \in MaintenanceStates
        /\ change.state = "cancelled" => from \in {"new", "captured"}
        /\ change.state = "new" => from = "failed"
    BY <2>1, MaintenanceTransitionFacts
  <2>3. maintenance'[r].state = change.state
    BY <1>3, TransitionFacts
  <2>4. /\ DOMAIN targets'[r] = DOMAIN targets[r]
        /\ \A t \in DOMAIN targets[r] :
             /\ targets'[r][t].original_state = targets[r][t].original_state
             /\ targets'[r][t].state = targets[r][t].state
    BY <1>3, TransitionFacts
  <2>5. ~HasCapture(r) => DOMAIN targets'[r] = {} /\ r \notin exercised
    BY <1>1, <2>4 DEF RunOK
  <2>6. HasCapture(r) => change.state \notin {"", "new"}
    BY <1>3, <2>1, <2>2, StateSets
  <2>7. \A t \in DOMAIN targets'[r] :
          r \notin exercised \/ targets'[r][t].original_state # "running" =>
            Untouched(targets'[r][t])
    BY <1>1, <2>4 DEF RunOK, Untouched
  <2>8. change.state = "completed" =>
          /\ HasCapture(r)
          /\ DOMAIN targets'[r] # {}
          /\ \A t \in DOMAIN targets'[r] :
               targetCompletionAllowed(targets'[r][t].original_state, targets'[r][t].state)
    BY <1>3, <2>1, <2>4 DEF validateCompletion
  <2>9. change.state = "cancelled" => r \notin exercised
    BY <1>1, <1>3, <2>1, <2>2 DEF RunOK
  <2>10. change.state = "stopped" => \A t \in DOMAIN targets'[r] : Quiet(targets'[r][t])
    BY <1>3, <2>1, <2>4 DEF validateStoppedBarrier, Quiet
  <2> QED BY <1>2, <2>3, <2>5, <2>6, <2>7, <2>8, <2>9, <2>10 DEF RunOK
<1>4. CASE r # id
  <2>1. maintenance'[r] = maintenance[r] /\ targets'[r] = targets[r]
    BY <1>4, TransitionFacts
  <2> QED BY <1>1, <1>2, <2>1 DEF RunOK
<1> QED BY <1>3, <1>4

LEMMA TargetRun ==
  ASSUME TablesOK, RunInvariant, NEW id \in MaintenanceIDs,
         NEW t, NEW change, NEW precondition, NEW role,
         TransitionTarget(id, t, change, precondition, role)
  PROVE  RunInvariant'
<1> SUFFICES ASSUME NEW r \in MaintenanceIDs
             PROVE  RunOK(maintenance'[r].state, HasCapture(r)', (r \in exercised)', targets'[r])
  BY DEF RunInvariant
<1>1. RunOK(maintenance[r].state, HasCapture(r), r \in exercised, targets[r])
  BY DEF RunInvariant
<1>2. /\ Exists(id) /\ t \in DOMAIN targets[id]
      /\ ~IsMaintenanceTerminal(maintenance[id].state)
      /\ change.state # "skipped" =>
           /\ targets[id][t].original_state \notin {"degraded", "unknown", "stopped"}
           /\ targetPhaseAllowed(maintenance[id].state, change.state)
  BY TargetGuard DEF TransitionTarget
<1>3. HasCapture(r)' <=> HasCapture(r)
  BY DEF TransitionTarget, HasCapture
<1>4. maintenance'[r].state = maintenance[r].state
  BY <1>2, AdvancedRunFacts DEF TransitionTarget, Exists
<1>5. exercised' = IF change.state = "skipped" THEN exercised ELSE exercised \cup {id}
  BY DEF TransitionTarget
<1>6. /\ DOMAIN targets'[r] = DOMAIN targets[r]
      /\ \A u \in DOMAIN targets[r] :
           targets'[r][u].original_state = targets[r][u].original_state
  BY TransitionTargetFacts
<1>7. CASE r = id
  <2>1. /\ targets'[r][t].state = change.state
        /\ \A u \in DOMAIN targets[r] : u # t => targets'[r][u] = targets[r][u]
    BY <1>7, TransitionTargetFacts
  <2>2. change.state # "skipped" => targets'[r][t].original_state = "running"
    <3>1. targets[id][t] \in TargetRow
      BY <1>2 DEF TablesOK
    <3>2. targets[id][t].original_state \in OriginalStates
      BY <3>1, TargetRowFields
    <3> QED BY <1>2, <1>6, <1>7, <3>2 DEF OriginalStates
  <2>3. HasCapture(r)
    BY <1>1, <1>2, <1>7 DEF RunOK
  <2>4. maintenance[r].state \notin {"completed", "cancelled"}
    BY <1>2, <1>7 DEF IsMaintenanceTerminal
  <2>5. \A u \in DOMAIN targets'[r] :
          r \notin exercised' \/ targets'[r][u].original_state # "running" =>
            Untouched(targets'[r][u])
    <3> SUFFICES ASSUME NEW u \in DOMAIN targets'[r],
                        r \notin exercised' \/ targets'[r][u].original_state # "running"
                 PROVE  Untouched(targets'[r][u])
      OBVIOUS
    <3>1. CASE u = t
      BY <1>5, <1>7, <2>1, <2>2, <3>1 DEF Untouched
    <3>2. CASE u # t
      BY <1>1, <1>5, <1>6, <1>7, <2>1, <3>2 DEF RunOK
    <3> QED BY <3>1, <3>2
  <2>6. maintenance[r].state = "stopped" => \A u \in DOMAIN targets'[r] : Quiet(targets'[r][u])
    <3> SUFFICES ASSUME maintenance[r].state = "stopped", NEW u \in DOMAIN targets'[r]
                 PROVE  Quiet(targets'[r][u])
      OBVIOUS
    <3>1. change.state = "skipped"
      BY <1>2, <1>7 DEF targetPhaseAllowed
    <3>2. CASE u = t
      BY <2>1, <3>1, <3>2 DEF Quiet
    <3>3. CASE u # t
      BY <1>1, <1>6, <2>1, <3>3 DEF RunOK
    <3> QED BY <3>2, <3>3
  <2>7. maintenance[r].state \notin {"", "new"}
    BY <1>1, <2>3 DEF RunOK
  <2> QED BY <1>3, <1>4, <2>3, <2>4, <2>5, <2>6, <2>7 DEF RunOK
<1>8. CASE r # id
  <2>1. \A u \in DOMAIN targets[r] : targets'[r][u] = targets[r][u]
    BY <1>8, TransitionTargetFacts
  <2>2. r \in exercised' <=> r \in exercised
    BY <1>5, <1>8
  <2> QED BY <1>1, <1>3, <1>4, <1>6, <2>1, <2>2 DEF RunOK
<1> QED BY <1>7, <1>8

-----------------------------------------------------------------------------
(* Locks stay exclusive.                                                   *)

(* A step that adds no targets, keeps their lock keys and makes no run     *)
(* hold locks again that had released them.                                *)
LEMMA LocksKept ==
  ASSUME LockExclusive,
         \A r \in MaintenanceIDs : HoldsLocks(r)' => HoldsLocks(r),
         \A r \in MaintenanceIDs :
           /\ DOMAIN targets'[r] = DOMAIN targets[r]
           /\ \A t \in DOMAIN targets[r] : targets'[r][t].lock_key = targets[r][t].lock_key
  PROVE  LockExclusive'
BY DEF LockExclusive

LEMMA CreateLocks ==
  ASSUME TablesOK, RunInvariant, LockExclusive, NEW id \in MaintenanceIDs, CreateMaintenance(id)
  PROVE  LockExclusive'
<1>1. DOMAIN targets[id] = {}
  <2>1. RunOK(maintenance[id].state, HasCapture(id), id \in exercised, targets[id])
    BY DEF RunInvariant
  <2>2. maintenance[id].state = ""
    BY CreateFacts
  <2> QED BY <2>1, <2>2 DEF RunOK
<1>2. targets' = targets
  BY CreateFacts
<1>3. \A r \in MaintenanceIDs \ {id} : HoldsLocks(r)' => HoldsLocks(r)
  BY CreateFacts DEF HoldsLocks, Exists
<1> SUFFICES ASSUME NEW a \in MaintenanceIDs, NEW b \in MaintenanceIDs,
                    a # b, HoldsLocks(a)', HoldsLocks(b)',
                    NEW t \in DOMAIN targets[a], NEW u \in DOMAIN targets[b]
             PROVE  targets[a][t].lock_key # targets[b][u].lock_key
  BY <1>2 DEF LockExclusive
<1>4. a # id /\ b # id
  BY <1>1
<1> QED BY <1>3, <1>4 DEF LockExclusive

LEMMA CaptureLocks ==
  ASSUME TablesOK, LockExclusive, NEW id \in MaintenanceIDs, NEW payload \in CapturePayloads,
         CaptureMaintenance(id, payload)
  PROVE  LockExclusive'
<1>1. /\ ValidCapturePayload(payload)
      /\ \A i \in DOMAIN payload : ~LockInUse(TrimSpace[payload[i].lock_key])
  BY CaptureGuard DEF CaptureMaintenance
<1>2. \A r \in MaintenanceIDs \ {id} :
        targets'[r] = targets[r] /\ (HoldsLocks(r)' <=> HoldsLocks(r))
  BY CaptureFacts DEF HoldsLocks, Exists
<1>3. ASSUME NEW t \in DOMAIN targets'[id],
             NEW b \in MaintenanceIDs \ {id}, HoldsLocks(b), NEW u \in DOMAIN targets[b]
      PROVE  targets'[id][t].lock_key # targets[b][u].lock_key
  <2>1. targets'[id] = parseCaptureTargets(payload)
    BY CaptureFacts
  <2>2. PICK i \in DOMAIN payload :
          targets'[id][t].lock_key = TrimSpace[payload[i].lock_key]
    BY <1>1, <2>1, ParsedTargets
  <2>3. ~LockInUse(TrimSpace[payload[i].lock_key])
    BY <1>1
  <2> QED BY <1>3, <2>2, <2>3 DEF LockInUse
<1> SUFFICES ASSUME NEW a \in MaintenanceIDs, NEW b \in MaintenanceIDs,
                    a # b, HoldsLocks(a)', HoldsLocks(b)',
                    NEW t \in DOMAIN targets'[a], NEW u \in DOMAIN targets'[b]
             PROVE  targets'[a][t].lock_key # targets'[b][u].lock_key
  BY DEF LockExclusive
<1>4. CASE a = id
  BY <1>2, <1>3, <1>4
<1>5. CASE b = id
  <2>1. HoldsLocks(a) /\ targets'[a] = targets[a]
    BY <1>2, <1>5
  <2>2. targets'[id][u].lock_key # targets[a][t].lock_key
    BY <1>3, <1>5, <2>1
  <2> QED BY <1>5, <2>1, <2>2
<1>6. CASE a # id /\ b # id
  BY <1>2, <1>6 DEF LockExclusive
<1> QED BY <1>4, <1>5, <1>6

LEMMA TransitionLocks ==
  ASSUME TablesOK, LockExclusive, NEW id \in MaintenanceIDs, NEW change, NEW precondition, NEW role,
         TransitionMaintenance(id, change, precondition, role)
  PROVE  LockExclusive'
<1>1. /\ Exists(id)
      /\ ValidMaintenanceTransition(maintenance[id].state, change.state)
  BY TransitionGuard DEF TransitionMaintenance
<1>2. maintenance[id].state \notin {"completed", "cancelled"}
  BY <1>1, MaintenanceTransitionFacts
<1>3. \A r \in MaintenanceIDs : HoldsLocks(r)' => HoldsLocks(r)
  <2> TAKE r \in MaintenanceIDs
  <2>1. CASE r = id
    BY <1>1, <1>2, <2>1 DEF HoldsLocks
  <2>2. CASE r # id
    BY <2>2, TransitionFacts DEF HoldsLocks, Exists
  <2> QED BY <2>1, <2>2
<1>4. \A r \in MaintenanceIDs :
        /\ DOMAIN targets'[r] = DOMAIN targets[r]
        /\ \A t \in DOMAIN targets[r] : targets'[r][t].lock_key = targets[r][t].lock_key
  <2> TAKE r \in MaintenanceIDs
  <2>1. CASE r = id
    BY <2>1, TransitionFacts
  <2>2. CASE r # id
    <3>1. targets'[r] = targets[r]
      BY <2>2, TransitionFacts
    <3> QED BY <3>1
  <2> QED BY <2>1, <2>2
<1> QED BY <1>3, <1>4, LocksKept

LEMMA TargetLocks ==
  ASSUME TablesOK, LockExclusive, NEW id \in MaintenanceIDs,
         NEW t, NEW change, NEW precondition, NEW role,
         TransitionTarget(id, t, change, precondition, role)
  PROVE  LockExclusive'
<1>1. Exists(id)
  BY TargetGuard DEF TransitionTarget
<1>2. \A r \in MaintenanceIDs : HoldsLocks(r)' => HoldsLocks(r)
  <2> TAKE r \in MaintenanceIDs
  <2>1. /\ maintenance'[r].state = maintenance[r].state
        /\ r # id => maintenance'[r] = maintenance[r]
    BY <1>1, AdvancedRunFacts DEF TransitionTarget, Exists
  <2> QED BY <1>1, <2>1 DEF HoldsLocks, Exists
<1>3. \A r \in MaintenanceIDs :
        /\ DOMAIN targets'[r] = DOMAIN targets[r]
        /\ \A u \in DOMAIN targets[r] : targets'[r][u].lock_key = targets[r][u].lock_key
  BY TransitionTargetFacts
<1> QED BY <1>2, <1>3, LocksKept

-----------------------------------------------------------------------------
(* The invariant is inductive.                                             *)

LEMMA InvariantInit == Init => StoreInvariant
<1> SUFFICES ASSUME Init PROVE StoreInvariant
  OBVIOUS
<1>1. TypeOK
  BY InitType
<1>2. \A id \in MaintenanceIDs :
        /\ maintenance[id].state = ""
        /\ ~HasCapture(id) /\ ~Exists(id)
        /\ DOMAIN targets[id] = {} /\ id \notin exercised
  BY DEF Init, HasCapture, Exists, NoRow
<1>3. LockExclusive
  BY <1>2 DEF LockExclusive
<1>4. RunInvariant
  BY <1>2 DEF RunInvariant, RunOK
<1> QED BY <1>1, <1>3, <1>4, InvariantByRun

LEMMA InvariantStep == StoreInvariant /\ [Next]_vars => StoreInvariant'
<1> SUFFICES ASSUME StoreInvariant, [Next]_vars PROVE StoreInvariant'
  OBVIOUS
<1>0. TypeOK /\ TablesOK /\ LockExclusive /\ RunInvariant
  BY InvariantByRun DEF TypeOK
<1>1. ASSUME NEW id \in MaintenanceIDs, CreateMaintenance(id)
      PROVE  LockExclusive' /\ RunInvariant'
  BY <1>0, <1>1, CreateLocks, CreateRun
<1>2. ASSUME NEW id \in MaintenanceIDs, NEW payload \in CapturePayloads,
             CaptureMaintenance(id, payload)
      PROVE  LockExclusive' /\ RunInvariant'
  BY <1>0, <1>2, CaptureLocks, CaptureRun
<1>3. ASSUME NEW id \in MaintenanceIDs, NEW change, NEW precondition, NEW role,
             TransitionMaintenance(id, change, precondition, role)
      PROVE  LockExclusive' /\ RunInvariant'
  BY <1>0, <1>3, TransitionLocks, TransitionRun
<1>4. ASSUME NEW id \in MaintenanceIDs, NEW t, NEW change, NEW precondition, NEW role,
             TransitionTarget(id, t, change, precondition, role)
      PROVE  LockExclusive' /\ RunInvariant'
  BY <1>0, <1>4, TargetLocks, TargetRun
<1>5. ASSUME UNCHANGED <<maintenance, maintenance_captures, targets, exercised>>
      PROVE  LockExclusive' /\ RunInvariant'
  <2>1. LockExclusive'
    BY <1>0, <1>5 DEF LockExclusive, HoldsLocks, Exists
  <2>2. RunInvariant'
    BY <1>0, <1>5 DEF RunInvariant, RunOK, HasCapture
  <2> QED BY <2>1, <2>2
<1>6. LockExclusive' /\ RunInvariant'
  BY <1>1, <1>2, <1>3, <1>4, <1>5 DEF Next, vars, AddObservation
<1>7. TypeOK'
  BY <1>0, TypeStep
<1>8. TypeOK' /\ LockExclusive' /\ RunInvariant' => StoreInvariant'
  BY InvariantByRun, PTL
<1> QED BY <1>6, <1>7, <1>8

(* Every reachable database satisfies the whole invariant of mutations.go. *)
THEOREM StoreCorrect == Spec => []StoreInvariant
BY InvariantInit, InvariantStep, PTL DEF Spec

(* CaptureMaintenance never gives two unfinished runs the same lock key.   *)
THEOREM LocksAreExclusive == Spec => []LockExclusive
<1>1. StoreInvariant => LockExclusive
  BY DEF StoreInvariant
<1> QED BY <1>1, StoreCorrect, PTL

(* A run that TransitionMaintenance completed restored all its targets.    *)
THEOREM CompletionReconciles == Spec => []CompletedIsReconciled
<1>1. StoreInvariant => CompletedIsReconciled
  BY DEF StoreInvariant
<1> QED BY <1>1, StoreCorrect, PTL

(* A run that TransitionMaintenance cancelled never moved a target.        *)
THEOREM CancellationIsClean == Spec => []CancelledIsUntouched
<1>1. StoreInvariant => CancelledIsUntouched
  BY DEF StoreInvariant
<1> QED BY <1>1, StoreCorrect, PTL

(* In phase "stopped" the barrier holds, also after a reopen.              *)
THEOREM BarrierHolds == Spec => []StoppedPhaseIsQuiet
<1>1. StoreInvariant => StoppedPhaseIsQuiet
  BY DEF StoreInvariant
<1> QED BY <1>1, StoreCorrect, PTL

(* TransitionTarget moves only what was running when it was captured.      *)
THEOREM OthersStayPut == Spec => []OnlyRunningTargetsMove
<1>1. StoreInvariant => OnlyRunningTargetsMove
  BY DEF StoreInvariant
<1> QED BY <1>1, StoreCorrect, PTL

-----------------------------------------------------------------------------
(***************************************************************************)
(* What a step may never do: the action properties, from the inductive     *)
(* invariant.                                                              *)
(***************************************************************************)

(* A step that leaves a run's rows alone keeps its evidence and owes it no *)
(* new version.                                                            *)
LEMMA UnchangedRun ==
  ASSUME NEW r \in MaintenanceIDs,
         maintenance'[r] = maintenance[r],
         maintenance_captures'[r] = maintenance_captures[r],
         targets'[r] = targets[r]
  PROVE  KeepsRun(r) /\ AdvancesRun(r)
BY DEF KeepsRun, AdvancesRun

LEMMA CreateStep ==
  ASSUME TablesOK, RunInvariant, NEW id \in MaintenanceIDs, CreateMaintenance(id)
  PROVE  KeepsEvidence /\ AdvancesVersions
<1> SUFFICES ASSUME NEW r \in MaintenanceIDs PROVE KeepsRun(r) /\ AdvancesRun(r)
  BY CreateFacts DEF KeepsEvidence, AdvancesVersions
<1>1. CASE r = id
  <2>1. RunOK(maintenance[id].state, HasCapture(id), id \in exercised, targets[id])
    BY DEF RunInvariant
  <2>2. ~HasCapture(id) /\ DOMAIN targets[id] = {}
    BY <2>1, CreateFacts DEF RunOK
  <2>3. ~Exists(id) /\ maintenance[id].version = 0
    BY CreateGuard DEF CreateMaintenance, Exists
  <2>4. maintenance'[id].version = 1
    BY DEF CreateMaintenance, TablesOK
  <2>5. KeepsRun(r)
    BY <1>1, <2>2, <2>3 DEF KeepsRun
  <2>6. AdvancesRun(r)
    BY <1>1, <2>2, <2>3, <2>4 DEF AdvancesRun
  <2> QED BY <2>5, <2>6
<1>2. CASE r # id
  BY <1>2, CreateFacts, UnchangedRun
<1> QED BY <1>1, <1>2

LEMMA CaptureStep ==
  ASSUME TablesOK, RunInvariant, NEW id \in MaintenanceIDs, NEW payload \in CapturePayloads,
         CaptureMaintenance(id, payload)
  PROVE  KeepsEvidence /\ AdvancesVersions
<1> SUFFICES ASSUME NEW r \in MaintenanceIDs PROVE KeepsRun(r) /\ AdvancesRun(r)
  BY CaptureFacts DEF KeepsEvidence, AdvancesVersions
<1>1. CASE r = id
  <2>1. ~HasCapture(id) /\ maintenance[id].state = "new"
    BY CaptureGuard DEF CaptureMaintenance
  <2>2. DOMAIN targets[id] = {}
    BY <2>1 DEF RunInvariant, RunOK
  <2>3. maintenance'[id].version = maintenance[id].version + 1
    BY DEF CaptureMaintenance, TablesOK
  <2>4. KeepsRun(r)
    BY <1>1, <2>1 DEF KeepsRun, HoldsLocks
  <2>5. AdvancesRun(r)
    BY <1>1, <2>2, <2>3 DEF AdvancesRun
  <2> QED BY <2>4, <2>5
<1>2. CASE r # id
  BY <1>2, CaptureFacts, UnchangedRun
<1> QED BY <1>1, <1>2

LEMMA TransitionStep ==
  ASSUME TablesOK, RunInvariant, NEW id \in MaintenanceIDs,
         NEW change, NEW precondition, NEW role,
         TransitionMaintenance(id, change, precondition, role)
  PROVE  KeepsEvidence /\ AdvancesVersions
<1> SUFFICES ASSUME NEW r \in MaintenanceIDs PROVE KeepsRun(r) /\ AdvancesRun(r)
  BY TransitionFacts DEF KeepsEvidence, AdvancesVersions
<1>1. CASE r = id
  <2>1. ValidMaintenanceTransition(maintenance[id].state, change.state)
    BY TransitionGuard DEF TransitionMaintenance
  <2>2. maintenance[id].state \notin {"completed", "cancelled"}
    BY <2>1, MaintenanceTransitionFacts
  <2>3. KeepsRun(r)
    BY <1>1, <2>2, TransitionFacts DEF KeepsRun, HoldsLocks
  <2>4. \A t \in DOMAIN targets[id] : targets'[id][t].version = targets[id][t].version + 1
    <3>1. DOMAIN targets[id] # {} => HasCapture(id)
      BY DEF RunInvariant, RunOK
    <3>2. targets' = AdvancedTargets(id)
      BY DEF TransitionMaintenance
    <3> QED BY <3>1, <3>2, AdvancedTargetsFacts
  <2>5. maintenance'[id].version = maintenance[id].version + 1
    BY TransitionFacts
  <2>6. AdvancesRun(r)
    BY <1>1, <2>4, <2>5 DEF AdvancesRun
  <2> QED BY <2>3, <2>6
<1>2. CASE r # id
  BY <1>2, TransitionFacts, UnchangedRun
<1> QED BY <1>1, <1>2

LEMMA TargetStep ==
  ASSUME TablesOK, NEW id \in MaintenanceIDs, NEW t, NEW change, NEW precondition, NEW role,
         TransitionTarget(id, t, change, precondition, role)
  PROVE  KeepsEvidence /\ AdvancesVersions
<1>1. UNCHANGED <<maintenance_captures, observations>>
  BY DEF TransitionTarget
<1> SUFFICES ASSUME NEW r \in MaintenanceIDs PROVE KeepsRun(r) /\ AdvancesRun(r)
  BY <1>1 DEF KeepsEvidence, AdvancesVersions
<1>2. Exists(id) /\ ~IsMaintenanceTerminal(maintenance[id].state)
  BY TargetGuard DEF TransitionTarget
<1>3. /\ \A q \in MaintenanceIDs : maintenance'[q].state = maintenance[q].state
      /\ \A q \in MaintenanceIDs : q # id => maintenance'[q] = maintenance[q]
      /\ maintenance'[id].version = maintenance[id].version + 1
  BY <1>2, AdvancedRunFacts DEF TransitionTarget, Exists
<1>4. CASE r = id
  <2>1. HoldsLocks(id)
    BY <1>2 DEF HoldsLocks, IsMaintenanceTerminal
  <2>2. KeepsRun(r)
    BY <1>1, <1>4, <2>1, TransitionTargetFacts DEF KeepsRun
  <2>3. \A u \in DOMAIN targets[id] :
          targets'[id][u].state # targets[id][u].state =>
            targets'[id][u].version = targets[id][u].version + 1
    BY TransitionTargetFacts
  <2>4. AdvancesRun(r)
    BY <1>3, <1>4, <2>3 DEF AdvancesRun
  <2> QED BY <2>2, <2>4
<1>5. CASE r # id
  <2>1. targets'[r] = targets[r]
    BY <1>5 DEF TransitionTarget, TablesOK
  <2> QED BY <1>1, <1>3, <1>5, <2>1, UnchangedRun
<1> QED BY <1>4, <1>5

LEMMA ObservationStep ==
  ASSUME NEW id, NEW t, NEW request, NEW payload, NEW precondition,
         AddObservation(id, t, request, payload, precondition)
  PROVE  KeepsEvidence /\ AdvancesVersions
<1>1. /\ UNCHANGED <<maintenance, maintenance_captures, targets>>
      /\ observations \subseteq observations'
  BY DEF AddObservation
<1> QED BY <1>1, UnchangedRun DEF KeepsEvidence, AdvancesVersions

LEMMA SafeStep == StoreInvariant /\ [Next]_vars => [KeepsEvidence /\ AdvancesVersions]_vars
<1> SUFFICES ASSUME StoreInvariant, Next PROVE KeepsEvidence /\ AdvancesVersions
  OBVIOUS
<1>1. TablesOK /\ RunInvariant
  BY InvariantByRun DEF TypeOK
<1> QED BY <1>1, CreateStep, CaptureStep, TransitionStep, TargetStep, ObservationStep DEF Next

(* No transaction changes or drops a capture, a target's identity or an    *)
(* observation, nor a run that completed or was cancelled.                 *)
THEOREM EvidenceSurvives == Spec => EvidenceIsKept
<1>1. StoreInvariant /\ [Next]_vars => [KeepsEvidence]_vars
  BY SafeStep
<1> QED BY <1>1, StoreCorrect, PTL DEF Spec, EvidenceIsKept

(* No transaction changes what an ETag stands for without a new version.   *)
THEOREM VersionsCoverChanges == Spec => ChangesAdvanceVersions
<1>1. StoreInvariant /\ [Next]_vars => [AdvancesVersions]_vars
  BY SafeStep
<1> QED BY <1>1, StoreCorrect, PTL DEF Spec, ChangesAdvanceVersions
=============================================================================
