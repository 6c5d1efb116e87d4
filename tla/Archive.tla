------------------------------ MODULE Archive -------------------------------
(***************************************************************************)
(* What the backups promise: a set of backups that can be restored, which  *)
(* grows, and from which an old one is taken only when Keep others remain  *)
(* and a newer one is among them.  A backup is a record whose sha numbers  *)
(* the snapshots in the order in which they were taken.                    *)
(***************************************************************************)
EXTENDS Naturals, FiniteSets

CONSTANT Keep

VARIABLE archive

AInit == archive = {}

Add == archive \subseteq archive' /\ IsFiniteSet(archive')

Retire ==
  \E old \in archive :
    /\ archive' = archive \ {old}
    /\ Cardinality(archive') >= Keep
    /\ \E new \in archive' : new.sha > old.sha

ANext == Add \/ Retire

ASpec == AInit /\ [][ANext]_archive
=============================================================================
