---------------------------- MODULE MCRestoreSSH ----------------------------
(* RestoreSSH for TLC: see the MCRestoreSSH_*.cfg files. *)
EXTENDS RestoreSSH
============================================================================
