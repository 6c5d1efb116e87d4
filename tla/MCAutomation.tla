----------------------------- MODULE MCAutomation -----------------------------
(***************************************************************************)
(* Instances of Automation for TLC: one job against everybody else.  Jobs  *)
(* meet only through the store, and OtherClient does whatever another job  *)
(* could, so one job in detail is enough.                                  *)
(***************************************************************************)
EXTENDS Automation, MCStore

CONSTANTS m1, o1

Doc == <<Entry(t1, "db", "running")>>
OtherDoc == <<Entry(t1, "db ", "running")>>

AutomationPayloads == {Doc, OtherDoc}

Op(kind, state, role) ==
  [kind |-> kind, id |-> m1, t |-> t1, state |-> state, justification |-> 1,
   role |-> role, document |-> Doc, observation |-> o1]

MCOperations ==
  { Op("create", "new", "operator"), Op("capture", "captured", "operator"),
    Op("observe", "stopped", "operator") }
  \cup { Op("maintenance", s, "operator") : s \in {"stopping", "stopped", "failed", "cancelled"} }
  \cup { Op("maintenance", s, "admin") : s \in {"stopping", "starting"} }
  \cup { Op("target", s, "operator") : s \in {"stopping", "stopped", "failed", "starting"} }
  \cup { Op("target", "skipped", "admin"), Op("target", "skipped", "operator") }

MCRequestIDs == Jobs \X (1..MaxVersion)

MCANext == ANext /\ \A id \in MaintenanceIDs : maintenance'[id].version <= MaxVersion

MCASpec == AInit /\ [][MCANext]_avars
=============================================================================
