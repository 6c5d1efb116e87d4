------------------------------ MODULE MCRecovery ------------------------------
(* Instances of Recovery for TLC.  Versions are bounded by Interference and *)
(* by the few steps of the administrator.                                   *)
EXTENDS Recovery, MCStore

(* A mix of original states, a run with nothing to do, and malformed        *)
(* documents.                                                               *)
RecoveryPayloads ==
  { <<Entry(t1, "db", "running"), Entry(t2, "db", "degraded")>>,
    <<Entry(t1, "db", "stopped")>>,
    <<Entry(t1, "db", "unknown")>>,
    <<>>,
    <<Entry(t1, "web", "paused")>>,
    <<Entry(t1, "web", "running"), Entry(t1, "db", "running")>> }
=============================================================================
