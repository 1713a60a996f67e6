---------------------------- MODULE MCJobCenter ----------------------------
(* JobCenter for TLC: see the MCJobCenter_*.cfg files. *)
EXTENDS JobCenter
============================================================================
