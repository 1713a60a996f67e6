---------------------------- MODULE MCDeepVerify ----------------------------
(* DeepVerify for TLC: see MCDeepVerify_verify.cfg. *)
EXTENDS DeepVerify
============================================================================
