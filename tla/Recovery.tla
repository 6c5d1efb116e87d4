------------------------------- MODULE Recovery -------------------------------
(***************************************************************************)
(* Can every run be brought to an end?  Whatever automation did to it, an  *)
(* administrator must be able to finish a run and release its lock keys    *)
(* with the tools the API gives: record the failure, reopen, skip what     *)
(* cannot recover, complete or cancel (TransitionMaintenance and           *)
(* TransitionTarget of mutations.go).  Everyone else may do any legal      *)
(* writes before and in between, a bounded number of them.                 *)
(***************************************************************************)
EXTENDS Store

CONSTANT Interference   \* how many writes the others make altogether

ASSUME RecoveryAssumption ==
  /\ Interference \in Nat
  /\ \E length \in Justifications : validJustification(length)

VARIABLE budget         \* writes that the others have left

rvars == <<vars, budget>>

RInit == Init /\ budget = Interference

-----------------------------------------------------------------------------
(* The administrator reads the current ETag and writes with it.            *)

ReadTag(version) == [any |-> FALSE, versions |-> {version}]

MoveRun(id, state) ==
  \E length \in Justifications :
    /\ validJustification(length)
    /\ TransitionMaintenance(id, [state |-> state, justification |-> length],
                             ReadTag(maintenance[id].version), "admin")

Skip(id, t) ==
  \E length \in Justifications :
    /\ validJustification(length)
    /\ TransitionTarget(id, t, [state |-> "skipped", justification |-> length],
                        ReadTag(targets[id][t].version), "admin")

Unreconciled(id) ==
  {t \in DOMAIN targets[id] :
     ~targetCompletionAllowed(targets[id][t].original_state, targets[id][t].state)}

(* Give up a run that nothing was done to.                                 *)
NothingDone(id) == maintenance[id].state \in {"new", "captured"} /\ id \notin exercised

Abandon(id) == NothingDone(id) /\ MoveRun(id, "cancelled")

(* Record that the run does not get on.                                    *)
DoesNotGetOn(id) ==
  \/ maintenance[id].state \in {"stopping", "stopped", "waiting"}
  \/ maintenance[id].state = "captured" /\ id \in exercised
  \/ maintenance[id].state = "starting" /\ DOMAIN targets[id] = {}

RecordFailure(id) == DoesNotGetOn(id) /\ MoveRun(id, "failed")

(* Reopen where the work can be wound up.                                  *)
ReopenedState(id) ==
  IF ~HasCapture(id) THEN "new" ELSE IF id \in exercised THEN "starting" ELSE "captured"

Reopen(id) == maintenance[id].state = "failed" /\ MoveRun(id, ReopenedState(id))

(* Waive the targets that are not restored, then complete.                 *)
WindUp(id) ==
  /\ maintenance[id].state = "starting"
  /\ \/ \E t \in Unreconciled(id) : Skip(id, t)
     \/ Unreconciled(id) = {} /\ MoveRun(id, "completed")

Administrator(id) ==
  /\ Abandon(id) \/ RecordFailure(id) \/ Reopen(id) \/ WindUp(id)
  /\ UNCHANGED budget

Others ==
  /\ budget > 0
  /\ Next
  /\ budget' = budget - 1

RNext == Others \/ \E id \in MaintenanceIDs : Administrator(id)

(* The administrator keeps at it: the API is always ready to take the      *)
(* next write, since no write waits for another client.                    *)
RSpec == RInit /\ [][RNext]_rvars /\ \A id \in MaintenanceIDs : WF_rvars(Administrator(id))

-----------------------------------------------------------------------------
(* Properties *)

(* Whether the store would take a write of the administrator.              *)
MayMoveRun(id, state) ==
  \E length \in Justifications :
    /\ validJustification(length)
    /\ TransitionMaintenanceOutcome(id, [state |-> state, justification |-> length],
                                    ReadTag(maintenance[id].version), "admin") = "ok"

MaySkip(id, t) ==
  \E length \in Justifications :
    /\ validJustification(length)
    /\ TransitionTargetOutcome(id, t, [state |-> "skipped", justification |-> length],
                               ReadTag(targets[id][t].version), "admin") = "ok"

WayOut(id) ==
  \/ NothingDone(id) /\ MayMoveRun(id, "cancelled")
  \/ DoesNotGetOn(id) /\ MayMoveRun(id, "failed")
  \/ maintenance[id].state = "failed" /\ MayMoveRun(id, ReopenedState(id))
  \/ maintenance[id].state = "starting" /\ \E t \in Unreconciled(id) : MaySkip(id, t)
  \/ maintenance[id].state = "starting" /\ Unreconciled(id) = {} /\ MayMoveRun(id, "completed")

(* How far a run is from releasing its locks.                              *)
Stage(id) ==
  IF ~HoldsLocks(id) THEN 0
  ELSE IF NothingDone(id) THEN 1
  ELSE IF maintenance[id].state = "starting" /\ DOMAIN targets[id] # {} THEN 1
  ELSE IF maintenance[id].state = "failed" THEN 2
  ELSE 3

Nearer(id) ==
  \/ Stage(id)' < Stage(id)
  \/ /\ Stage(id)' = Stage(id)
     /\ Unreconciled(id)' \subseteq Unreconciled(id)
     /\ Unreconciled(id)' # Unreconciled(id)

(* No sequence of legal writes leads a run into a corner: while it holds   *)
(* lock keys, the early returns of TransitionMaintenance and               *)
(* TransitionTarget let the administrator's next write through, whatever   *)
(* phase, targets and journal the others left.                             *)
AlwaysAWayOut == \A id \in MaintenanceIDs : HoldsLocks(id) => WayOut(id)

(* The administrator does not go round in circles: each write brings the   *)
(* run to an earlier stage, or reconciles a target and undoes none.        *)
EveryWriteGetsNearer ==
  [][\A id \in MaintenanceIDs : Administrator(id) => Nearer(id)]_rvars

(* The locks of every run are eventually released, by completion or by a   *)
(* safe cancellation.                                                      *)
LocksAreEventuallyReleased ==
  \A id \in MaintenanceIDs : HoldsLocks(id) ~> ~HoldsLocks(id)
=============================================================================
