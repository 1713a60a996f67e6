------------------------------ MODULE AppInTurn ------------------------------
(***************************************************************************)
(* AppStore with a monitor that remembers whether the user's operations    *)
(* have come one at a time.  Operations that overlap can overtake each     *)
(* other's saves (behind in AppStore); what is promised of the history and *)
(* the log in the vault file is promised to those who wait.                *)
(***************************************************************************)
EXTENDS AppStore

(* No operation has run beside another so far: each began when the one      *)
(* before it was over.                                                      *)
VARIABLE alone

InTurnInit == Init /\ alone = TRUE
InTurnNext ==
    /\ Next
    /\ alone' = (alone /\ \A o, p \in Ops : Active(o)' /\ Active(p)' => o = p)
InTurnSpec == InTurnInit /\ [][InTurnNext]_<<vars, alone>>

(* Operations one at a time: a backup the vault's log calls complete has    *)
(* its finished record, quick verdict included, in the vault's history,     *)
(* over failed captures, failed persists and restarts (app.go:364-406).     *)
AloneCompleteIsRecorded == alone => CompleteIsRecorded

(* Operations one at a time: nothing recorded in the vault's history and    *)
(* log ever disappears from it (store.go:142, store.go:533-571).            *)
AloneVaultOnlyGrows ==
    [][alone' => \A k \in {"history", "logs"}, i \in Ids :
                     disk[k][i] \subseteq disk'[k][i]]_<<vars, alone>>
=============================================================================
