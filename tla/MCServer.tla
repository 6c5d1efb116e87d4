------------------------------ MODULE MCServer -------------------------------
(***************************************************************************)
(* Instances of Server for TLC: requests as model values.                  *)
(***************************************************************************)
EXTENDS Server
=============================================================================
