----------------------------- MODULE BackupCall -----------------------------
(***************************************************************************)
(* What App.Backup relies on when it calls transfer.BackupSSH or            *)
(* transfer.BackupWordPress: a call works on its path, and it reports       *)
(* success only when the whole dump lies there.  After it has returned,     *)
(* nothing touches the path again, so the record, its checksum and its      *)
(* fingerprint describe the file the user will restore.                     *)
(***************************************************************************)

CONSTANTS
    Calls,   \* each with a path of its own
    Leaves   \* what a failed call may leave: of Copies, or "stuck", which the
             \* system would not remove

VARIABLES
    outcome,  \* "none" while a call runs, then "ok" or "failed"
    copy      \* what lies under its path

Copies == {"none", "partial", "whole"}

Init == /\ outcome = [i \in Calls |-> "none"]
        /\ copy \in [Calls -> {"none", "partial"}]

Ends(i, result) == outcome' = [outcome EXCEPT ![i] = result]
Puts(i, S)      == \E c \in S : copy' = [copy EXCEPT ![i] = c]

Write(i)   == outcome[i] = "none" /\ Puts(i, Copies) /\ UNCHANGED outcome
Succeed(i) == outcome[i] = "none" /\ copy[i] = "whole" /\ Ends(i, "ok") /\ UNCHANGED copy
Fail(i)    == outcome[i] = "none" /\ Ends(i, "failed") /\ Puts(i, Leaves)

Next == \E i \in Calls : Write(i) \/ Succeed(i) \/ Fail(i)

Spec == Init /\ [][Next]_<<outcome, copy>>
============================================================================
