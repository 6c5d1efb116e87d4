------------------------------ MODULE MCJournal ------------------------------
(***************************************************************************)
(* Instances of Journal for TLC.  The journal records every path, so the   *)
(* instances are small; MaxEvents bounds the journal.                      *)
(***************************************************************************)
EXTENDS Journal, MCStore, FiniteSets

CONSTANTS
  MaxEvents,     \* the journal takes no event beyond this many
  MaxDownloads   \* most downloads of backups

TwoPayloads == { <<Entry(t1, "db ", "running")>>, <<Entry(t1, "db", "stopped")>> }

ThreePayloads ==
  { <<Entry(t1, "db ", "running"), Entry(t2, "db", "degraded")>>,
    <<Entry(t1, "db", "stopped")>>, <<>> }

(* One step of a refinement depends on the tables and on the event that    *)
(* the step appends, not on how the journal began; which backups have an   *)
(* event decides what can be appended.                                     *)
JournalView ==
  <<vars, Len(journal_events),
    {journal_events[i].resource_id : i \in DOMAIN journal_events} \cap BackupFiles,
    IF journal_events = <<>> THEN {} ELSE {journal_events[Len(journal_events)]}>>

Downloads(events) == {i \in DOMAIN events : events[i].type = "backup.downloaded"}

MCJNext ==
  /\ JNext
  /\ Len(journal_events') <= MaxEvents
  /\ Cardinality(Downloads(journal_events')) <= MaxDownloads

MCJSpec == JInit /\ [][MCJNext]_jvars
=============================================================================
