----------------------------- MODULE MCConnect -----------------------------
(* Connect for TLC: no file, an empty one, one with the key the jump host had
   before. *)
EXTENDS Connect

MCKnownFiles == {Absent, {<<"target", Key>>}, {<<"jump", "old">>}}
============================================================================
