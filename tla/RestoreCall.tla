----------------------------- MODULE RestoreCall -----------------------------
(***************************************************************************)
(* What a user who restores into a database relies on, one call of           *)
(* App.Restore after the other: while a call works, the database may be      *)
(* anything; a call is reported as complete only when the database is the    *)
(* file.  From then on the database is left alone until the next call        *)
(* begins, whatever the post-import query, a cancel or a lost connection do. *)
(* Of a call that was not alone on the server nothing is promised, and       *)
(* nothing of one that failed.                                               *)
(***************************************************************************)

VARIABLES
    state,  \* of the last call: "running", "complete" or "failed"
    alone,  \* nothing of an earlier call was at work when it created the database
    whole   \* the database is its file

Init == /\ state = "failed"
        /\ alone \in BOOLEAN
        /\ whole = FALSE

Begin == /\ state # "running"
         /\ state' = "running"
         /\ whole' \in BOOLEAN
         /\ UNCHANGED alone

(* The database is dropped, created and filled, perhaps twice. *)
Work == /\ state = "running"
        /\ whole' \in BOOLEAN
        /\ alone' \in BOOLEAN
        /\ UNCHANGED state

Complete == /\ state = "running"
            /\ alone => whole
            /\ state' = "complete"
            /\ UNCHANGED <<alone, whole>>

Fail == /\ state = "running"
        /\ state' = "failed"
        /\ whole' \in BOOLEAN
        /\ UNCHANGED alone

(* What a call left behind on the server goes on. *)
Late == /\ state # "running"
        /\ ~(state = "complete" /\ alone)
        /\ whole' \in BOOLEAN
        /\ UNCHANGED <<state, alone>>

Next == Begin \/ Work \/ Complete \/ Fail \/ Late

Spec == Init /\ [][Next]_<<state, alone, whole>>
============================================================================
