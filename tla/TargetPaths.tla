----------------------------- MODULE TargetPaths -----------------------------
(***************************************************************************)
(* Store with a history of the states each target has been in, for what    *)
(* the documentation says about the path of a target.                      *)
(***************************************************************************)
EXTENDS Store

VARIABLE visited   \* run id -> (target id -> states it has been in)

PInit == Init /\ visited = [id \in MaintenanceIDs |-> [t \in {} |-> t]]

PNext ==
  /\ Next
  /\ visited' = [id \in MaintenanceIDs |->
                   [t \in DOMAIN targets'[id] |->
                      {targets'[id][t].state} \cup
                        (IF t \in DOMAIN visited[id] THEN visited[id][t] ELSE {})]]

PSpec == PInit /\ [][PNext]_<<vars, visited>>

(* docs/architecture.md: a target captured as running follows              *)
(* captured -> stopping -> stopped -> starting -> healthy, and a failed    *)
(* target retries through the same phase.  So a target is brought back     *)
(* only after it was stopped.                                              *)
HealthyTargetsWereStopped ==
  \A id \in MaintenanceIDs : \A t \in DOMAIN targets[id] :
    targets[id][t].state = "healthy" => "stopped" \in visited[id][t]
=============================================================================
