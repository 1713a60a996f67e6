---------------------------- MODULE MCBackupSSH ----------------------------
(* BackupSSH for TLC: see the MCBackupSSH_*.cfg files. *)
EXTENDS BackupSSH
============================================================================
