-------------------------------- MODULE Replay --------------------------------
(***************************************************************************)
(* What the journal promises: every event that is ever appended is one     *)
(* that the verifier's replay accepts after the events before it, and what *)
(* the replay holds afterwards is what apply makes of it.  By induction    *)
(* over the journal a database that implements this specification always   *)
(* passes verify, whatever the order of its writes.                        *)
(***************************************************************************)
EXTENDS Verify

VARIABLES
  journal,  \* journal_events, oldest first
  captures, \* run id -> saved capture
  replay    \* run id -> replayMaintenance after the journal so far

vars == <<journal, captures, replay>>

Init ==
  /\ journal = <<>>
  /\ captures = [id \in MaintenanceIDs |-> NoCapture]
  /\ replay = [id \in MaintenanceIDs |-> EmptyReplay]

(* One event is appended, and it names its resource.                       *)
Appended(event) ==
  /\ journal' # <<>>
  /\ journal' = Append(journal, event)
  /\ validateEventShape(event)

(* An event of a run.  The verifier reads the capture table as it is after *)
(* the transaction, and a saved capture never changes.                     *)
AppendRunEvent ==
  LET event == journal'[Len(journal')]
      id == event.maintenance_id
  IN  /\ Appended(event)
      /\ id \in MaintenanceIDs
      /\ captures' \in {captures, [captures EXCEPT ![id] = captures'[id]]}
      /\ captures[id] # NoCapture => captures' = captures
      /\ Accepts(replay[id], event, captures'[id])
      /\ replay' = [replay EXCEPT ![id] = apply(@, event, captures'[id])]

(* An event about a backup leaves every run as it is.                      *)
AppendGlobalEvent ==
  LET event == journal'[Len(journal')]
  IN  /\ Appended(event)
      /\ event.maintenance_id = "" /\ AcceptsGlobal(event)
      /\ UNCHANGED <<captures, replay>>

Spec == Init /\ [][AppendRunEvent \/ AppendGlobalEvent]_vars
=============================================================================
