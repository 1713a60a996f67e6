---------------------------- MODULE MCSyncScreen ----------------------------
(* SyncScreen for TLC: the device and the others had a host in common once;
   the others have since renamed it and given the old name to a new one.  One
   device that writes to the same bucket has another master key. *)
EXTENDS SyncScreen

Host(i, n) == [id |-> i, name |-> n]

MCStart == {<<Host(1, "A")>>}

MCOthers == {Bundle("k1", <<Host(1, "B")>>, {"r1"}),
             Bundle("k2", <<Host(1, "B")>>, {"r2"})}

MCExports == {Bundle("pw", <<Host(3, "A")>>, {"r3"}),
            ProfileBundle("pw", <<Host(3, "A")>>),
            ProfilePayload(<<Host(1, "A")>>)}
============================================================================
