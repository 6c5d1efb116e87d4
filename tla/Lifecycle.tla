------------------------------ MODULE Lifecycle ------------------------------
(***************************************************************************)
(* The state machines of internal/store/lifecycle.go: the states of a      *)
(* maintenance run and of a captured target, and the pure predicates that  *)
(* both the transactions (mutations.go) and the offline verifier           *)
(* (verify.go) consult.                                                    *)
(***************************************************************************)

(* Definitions named ...Bug are deliberate mistakes in the code they       *)
(* stand next to; each shows that some property would notice it.           *)

maintenanceTransitionsBug ==
  [ new      |-> {"captured", "cancelled", "failed"},
    captured |-> {"stopping", "cancelled", "failed"},
    stopping |-> {"stopped", "failed"},
    stopped  |-> {"waiting", "failed"},
    waiting  |-> {"starting", "failed"},
    starting |-> {"completed", "failed"},
    failed   |-> {"new", "captured", "stopping", "stopped"} ]

(* Go maps from a state to the states it may move to.                      *)
maintenanceTransitions ==
  [ new      |-> {"captured", "cancelled", "failed"},
    captured |-> {"stopping", "cancelled", "failed"},
    stopping |-> {"stopped", "failed"},
    stopped  |-> {"waiting", "failed"},
    waiting  |-> {"starting", "failed"},
    starting |-> {"completed", "failed"},
    failed   |-> {"new", "captured", "stopping", "stopped", "waiting", "starting"} ]

targetTransitions ==
  [ captured |-> {"stopping", "skipped"},
    stopping |-> {"stopped", "failed", "skipped"},
    stopped  |-> {"starting", "skipped"},
    starting |-> {"healthy", "failed", "skipped"},
    failed   |-> {"stopping", "starting", "skipped"} ]

(* A state is valid when it is final or a key of the map.                  *)
MaintenanceStates == {"completed", "cancelled"} \cup DOMAIN maintenanceTransitions

TargetStates == {"healthy", "skipped"} \cup DOMAIN targetTransitions

(* What a capture may say a target was doing before the maintenance.       *)
OriginalStates == {"running", "stopped", "degraded", "unknown"}

ValidMaintenanceTransition(from, to) ==
  from \in DOMAIN maintenanceTransitions /\ to \in maintenanceTransitions[from]

ValidTargetTransition(from, to) ==
  from \in DOMAIN targetTransitions /\ to \in targetTransitions[from]

IsMaintenanceTerminalBug(state) == state \in {"failed", "cancelled"}

IsMaintenanceTerminal(state) == state \in {"completed", "failed", "cancelled"}

targetCompletionAllowedBug(original, current) ==
  \/ original = "running" /\ current \in {"healthy", "skipped"}
  \/ original = "stopped" /\ current \in {"stopped", "skipped"}

(* May a run complete with a target that was `original' and is `current'?  *)
targetCompletionAllowed(original, current) ==
  \/ current = "skipped"
  \/ original = "running" /\ current = "healthy"
  \/ original = "stopped" /\ current = "stopped"

(* May a target enter targetState while its run is in maintenanceState?    *)
targetPhaseAllowed(maintenanceState, targetState) ==
  \/ targetState \in {"stopping", "stopped"} /\ maintenanceState = "stopping"
  \/ targetState \in {"starting", "healthy"} /\ maintenanceState = "starting"
  \/ targetState = "failed" /\ maintenanceState \in {"stopping", "starting"}
=============================================================================
