------------------------------- MODULE MCStore -------------------------------
(***************************************************************************)
(* Instances of Store for TLC.  Versions grow with every write, so they    *)
(* are capped by MaxVersion; everything else is finite by itself.          *)
(***************************************************************************)
EXTENDS Store, TLC

CONSTANTS
  MaxVersion,      \* runs take no write beyond this version
  t1, t2           \* two target ids

(* "db " is "db" with white space around it; " " trims to nothing.         *)
MCRawLockKeys == {"db", "db ", "web", " "}
MCTrimSpace == [raw \in MCRawLockKeys |->
                  CASE raw \in {"db", "db "} -> "db"
                    [] raw = "web" -> "web"
                    [] raw = " " -> ""]

Entry(t, key, original) ==
  [target_id |-> t, lock_key |-> key, original_state |-> original]

(* Two runs that compete for lock keys: the same key written in two ways,  *)
(* disjoint keys, and malformed documents.                                 *)
RacePayloads ==
  { <<Entry(t1, "db", "stopped")>>,
    <<Entry(t1, "db ", "running"), Entry(t2, "web", "unknown")>>,
    <<Entry(t1, " ", "running")>> }

Unconditional == { [any |-> TRUE, versions |-> {}] }

MCPreconditions ==
  { [any |-> TRUE, versions |-> {}],
    [any |-> FALSE, versions |-> {}],
    [any |-> FALSE, versions |-> {2, 3}] }

Symmetry == Permutations(MaintenanceIDs)

MCNext == Next /\ \A id \in MaintenanceIDs : maintenance'[id].version <= MaxVersion

MCSpec == Init /\ [][MCNext]_vars
=============================================================================
