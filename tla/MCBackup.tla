------------------------------ MODULE MCBackup -------------------------------
(* Instances of Backup for TLC.                                             *)
EXTENDS Backup, TLC

RequestSymmetry == Permutations(Requests)

(* The only fault is that the event cannot be saved.                       *)
RetryNext == (\E r \in Requests : Begin(r)) \/ BackupStep \/ RecordBackupCreated(FALSE)

RetrySpec == BInit /\ [][RetryNext]_bvars
=============================================================================
