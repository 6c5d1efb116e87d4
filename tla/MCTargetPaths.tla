---------------------------- MODULE MCTargetPaths ----------------------------
(* An instance of TargetPaths for TLC: one run with one target.             *)
EXTENDS TargetPaths, MCStore

OneRunning == { <<Entry(t1, "db", "running")>> }

MCPNext == PNext /\ \A id \in MaintenanceIDs : maintenance'[id].version <= MaxVersion

MCPSpec == PInit /\ [][MCPNext]_<<vars, visited>>
=============================================================================
