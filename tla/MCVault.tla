------------------------------- MODULE MCVault -------------------------------
(* Small instances of Vault. *)
EXTENDS Vault
CONSTANTS w1, w2, e1
MCWords == {w1, w2}
MCEdits == {e1}

(* A vault of an earlier session, under a passphrase of full length. *)
MCEarlier ==
    {[salt |-> 0, key |-> <<[word |-> w1, len |-> MaxLen], 0>>, data |-> {e1}]}
MCCopies == {"profiles.json", "logs.json"}
=============================================================================
