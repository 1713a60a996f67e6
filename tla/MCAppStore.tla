----------------------------- MODULE MCAppStore -----------------------------
(* Small instances of AppStore, with the monitor of AppInTurn. *)
EXTENDS AppInTurn

CONSTANTS o1, o2, old, none

MCSeed == [Empty EXCEPT ![o1] = {"row"}]

(* A vault with nothing but the seed templates, and one an older build left *)
(* behind: a host with a stale destination, one verified backup, no         *)
(* templates.                                                               *)
FreshVault == [EmptyStore EXCEPT !["templates"] = MCSeed]
OldVault ==
    [EmptyStore EXCEPT
        !["profiles"] = [Empty EXCEPT ![o1] = {"row", "oldDest"}],
        !["history"]  = [Empty EXCEPT ![old] = {"row", "checksum"}]]

(* Another device's data: a host with a stale destination and a backup. *)
OtherDevice ==
    [EmptyStore EXCEPT
        !["profiles"] = [Empty EXCEPT ![o2] = {"row", "oldDest"}],
        !["history"]  = [Empty EXCEPT ![old] = {"row", "checksum", "quick"}],
        !["logs"]     = [Empty EXCEPT ![old] = {"start", "complete"}],
        !["settings"] = [Empty EXCEPT ![o2] = {"row"}]]

MCVaults  == {FreshVault, OldVault}
MCBundles == {OtherDevice}
TwoOps    == {o1, o2}
MCIds     == {o1, o2, old}

AllJobs   == JobKinds
=============================================================================
