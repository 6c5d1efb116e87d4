------------------------------- MODULE Common -------------------------------
(***************************************************************************)
(* What the write transactions and the offline verifier share: the saved   *)
(* discovery document (the capture) and how it is parsed, the roles, and   *)
(* the rule for justifications.                                            *)
(***************************************************************************)
EXTENDS Integers, Sequences, Lifecycle

CONSTANTS
  MaintenanceIDs,      \* primary keys a client may use for a run
  TargetIDs,           \* target_id values a capture may use
  LockKeys,            \* trimmed, non-empty lock keys
  RawLockKeys,         \* lock_key texts as clients send them
  TrimSpace,           \* strings.TrimSpace on those texts
  CapturePayloads,     \* discovery documents: sequences of entries
  NoCapture            \* no row in maintenance_captures

CaptureEntry ==
  [target_id : TargetIDs, lock_key : RawLockKeys, original_state : STRING]

(* validID refuses the empty text.                                         *)
ASSUME IDAssumption == "" \notin MaintenanceIDs /\ "" \notin TargetIDs

ASSUME TrimSpaceAssumption == TrimSpace \in [RawLockKeys -> LockKeys \cup {""}]

ASSUME PayloadAssumption ==
  /\ \A payload \in CapturePayloads : payload \in Seq(CaptureEntry)
  /\ NoCapture \notin CapturePayloads

-----------------------------------------------------------------------------
(* The capture lists each target once, with a lock key that is not blank   *)
(* and a known original state.                                             *)
ValidCapturePayload(payload) ==
  \A i \in DOMAIN payload :
    /\ \A j \in DOMAIN payload :
         payload[i].target_id = payload[j].target_id => i = j
    /\ TrimSpace[payload[i].lock_key] # ""
    /\ payload[i].original_state \in OriginalStates

CapturedIDs(payload) == {payload[i].target_id : i \in DOMAIN payload}

CapturedEntry(payload, t) ==
  payload[CHOOSE i \in DOMAIN payload : payload[i].target_id = t]

InitialTargetStateBug(original) == original

InitialTargetState(original) == IF original = "stopped" THEN "stopped" ELSE "captured"

parseCaptureTargets(payload) ==
  [t \in CapturedIDs(payload) |->
     LET entry == CapturedEntry(payload, t)
     IN  [lock_key |-> TrimSpace[entry.lock_key],
          original_state |-> entry.original_state,
          state |-> InitialTargetState(entry.original_state),
          version |-> 1]]

-----------------------------------------------------------------------------
(* The roles that the routes of the write operations let through.          *)
WriterRoles == {"operator", "admin"}

isAdmin(role) == role = "admin"

(* A justification is represented by the byte length of its trimmed text.  *)
validJustification(length) == length \in 1..4096
=============================================================================
