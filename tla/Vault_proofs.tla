---------------------------- MODULE Vault_proofs ----------------------------
(***************************************************************************)
(* Proofs about Vault, for any passphrases, salts and edits: nothing is    *)
(* lost by a migration, the passphrase of the session opens the file,      *)
(* plaintext survives beside an open vault only where the code lets it,    *)
(* and the vault keeps its passphrase.                                     *)
(* And about SyncScreen, where the master key of the open vault closes and  *)
(* opens what devices share: for any keys, bundles and goroutines.          *)
(***************************************************************************)
EXTENDS Vault, SyncScreen, SequenceTheorems, WellFoundedInduction, TLAPS

(* What each stage of a call may rely on. *)
CallOK ==
    /\ unlocked => pc \in {"idle", "sweep"}
    /\ pc = "sweep" => unlocked
    /\ pc \in {"purge", "read", "unmigrated"} => HasVault
    /\ pc = "migrate" => ~HasVault
    /\ pc = "read" => legacy = {}
    /\ pc = "unmigrated" => /\ vault.key = dataKey /\ vault.salt = vaultSalt
                            /\ dataKey = <<arg, vaultSalt>>

(* The vault is encrypted with a key of its own salt, and Store's lists     *)
(* contain what it holds.                                                   *)
FileOK ==
    HasVault => /\ vault.key = <<vault.key[1], vault.salt>>
                /\ unlocked => vault.data \subseteq data

Inv == /\ TypeOK /\ NothingLost /\ KeyOpensVault /\ NoPlaintextWhileOpen
       /\ CallOK /\ FileOK

-----------------------------------------------------------------------------
LEMMA BlankType == Blank \in Texts /\ NoKey \in Keys
<1>1. (CHOOSE w \in Words : TRUE) \in Words  BY KeyAssumption
<1>2. 0 \in 0..MaxLen /\ 0 \in Salts  BY KeyAssumption DEF Salts
<1> QED  BY <1>1, <1>2 DEF Blank, NoKey, Texts, Keys

LEMMA InitInv == Init => Inv
<1> SUFFICES ASSUME Init PROVE Inv  OBVIOUS
<1>1. TypeOK
  <2>1. 0 \in Salts /\ 0 \in 0..MaxCrashes  BY KeyAssumption DEF Salts
  <2>2. vault \in Files \cup {None}  BY EarlierAssumption DEF Init
  <2>3. copies \in SUBSET LegacyFiles  BY EditsAssumption DEF Init
  <2>4. owned \in Data
    <3>1. legacy \in Data  BY DEF Init, Data
    <3>2. HasVault => vault.data \in Data  BY <2>2 DEF HasVault, Files
    <3> QED  BY <3>1, <3>2 DEF Init, OnDisk
  <2>5. {} \in Data  BY DEF Data
  <2> QED
    BY <2>1, <2>2, <2>3, <2>4, <2>5, BlankType
       DEF Init, TypeOK, Calls
<1>2. CallOK /\ KeyOpensVault /\ NoPlaintextWhileOpen
  BY DEF Init, CallOK, KeyOpensVault, NoPlaintextWhileOpen
<1>3. NothingLost  BY DEF Init, NothingLost
<1>4. FileOK
  <2>1. SUFFICES ASSUME HasVault
                 PROVE  vault.key = <<vault.key[1], vault.salt>>
    BY DEF Init, FileOK
  <2>2. vault \in Files /\ vault.key[2] = vault.salt
    BY <2>1, EarlierAssumption DEF Init, HasVault
  <2> QED  BY <2>2 DEF Files, Keys
<1> QED  BY <1>1, <1>2, <1>3, <1>4 DEF Inv

LEMMA VaultFields ==
  ASSUME TypeOK, HasVault
  PROVE  /\ vault \in Files
         /\ vault.salt \in Salts /\ vault.key \in Keys /\ vault.data \in Data
  BY DEF TypeOK, HasVault, Files

LEMMA WriteVaultType ==
  ASSUME TypeOK, NEW text \in Texts, NEW payload \in Data,
         WriteVault(text, payload)
  PROVE  /\ vault' \in Files /\ HasVault'
         /\ vault'.key = <<text, vault'.salt>> /\ vault'.data = payload
         /\ dataKey' = vault'.key /\ vaultSalt' = vault'.salt
         /\ dataKey' \in Keys /\ vaultSalt' \in Salts
         /\ salts' \in Salts /\ owned' \in Data
<1> DEFINE salt == salts + 1
<1>1. salt \in Salts /\ <<text, salt>> \in Keys
  BY DEF WriteVault, Keys
<1>2. vault' = [salt |-> salt, key |-> <<text, salt>>, data |-> payload]
  BY DEF WriteVault
<1>3. vault' \in Files  BY <1>1, <1>2 DEF Files
<1>4. HasVault'  BY <1>3, NoneAssumption DEF HasVault
<1>5. owned' \in Data  BY DEF WriteVault, TypeOK, Data
<1> QED  BY <1>1, <1>2, <1>3, <1>4, <1>5 DEF WriteVault

(* A step that changes at most the call in progress and the editor. *)
LEMMA QuietInv ==
  ASSUME Inv, pc' \in Calls, arg' \in Texts, field' \in Texts,
         UNCHANGED <<files, store, salts, crashes, aux>>,
         CallOK', pc = "idle" \/ ~unlocked \/ copies = {}
  PROVE  Inv'
<1> USE DEF Inv
<1>1. TypeOK'  BY DEF TypeOK, store, files, aux
<1>2. NothingLost' /\ KeyOpensVault' /\ FileOK'
  BY DEF NothingLost, OnDisk, KeyOpensVault, FileOK, HasVault, store, files, aux
<1>3. NoPlaintextWhileOpen'
  BY DEF NoPlaintextWhileOpen, store, files, aux
<1> QED  BY <1>1, <1>2, <1>3

LEMMA CallUnlockInv ==
  ASSUME Inv, NEW text \in Texts, CallUnlock(text), field' \in Texts, ~unlocked
  PROVE  Inv'
<1>1. pc' \in Calls  BY DEF CallUnlock, Calls
<1>2. CallOK'
  BY DEF Inv, CallOK, CallUnlock, HasVault, store, files
<1> QED  BY <1>1, <1>2, QuietInv DEF CallUnlock

LEMMA CreateInv == ASSUME Inv, SubmitCreate PROVE Inv'
<1>1. field \in Texts /\ {} \in Data  BY DEF Inv, TypeOK, Data
<1>2. /\ vault' \in Files /\ HasVault'
      /\ vault'.key = <<field, vault'.salt>> /\ vault'.data = {}
      /\ dataKey' = vault'.key /\ vaultSalt' = vault'.salt
      /\ dataKey' \in Keys /\ vaultSalt' \in Salts
      /\ salts' \in Salts /\ owned' \in Data
  BY <1>1, WriteVaultType DEF SubmitCreate, Inv
<1>3. TypeOK'
  BY <1>1, <1>2, BlankType DEF SubmitCreate, Inv, TypeOK
<1>4. NothingLost'
  <2>1. owned = {}
    BY DEF SubmitCreate, Inv, NothingLost, OnDisk
  <2> QED  BY <1>2, <2>1 DEF SubmitCreate, WriteVault, NothingLost, OnDisk
<1>5. KeyOpensVault' /\ NoPlaintextWhileOpen'
  BY <1>2 DEF SubmitCreate, KeyOpensVault, NoPlaintextWhileOpen
<1>6. CallOK'  BY <1>2 DEF SubmitCreate, CallOK
<1>7. FileOK'
  <2>1. vault'.key = <<vault'.key[1], vault'.salt>>  BY <1>2
  <2> QED  BY <1>2, <2>1 DEF SubmitCreate, FileOK
<1> QED  BY <1>3, <1>4, <1>5, <1>6, <1>7 DEF Inv

LEMMA RemoveInv ==
  ASSUME Inv, NEW f \in LegacyFiles, RemoveLegacy(f) PROVE Inv'
<1>1. /\ legacy' \subseteq legacy /\ copies' \subseteq copies
      /\ UNCHANGED <<vault, store, pc, arg, field, salts, crashes, aux>>
  BY DEF RemoveLegacy
<1>2. TypeOK'  BY <1>1 DEF Inv, TypeOK, store, aux
<1>3. HasVault
  BY DEF RemoveLegacy, Removing, Inv, CallOK, KeyOpensVault
<1>4. NothingLost'
  BY <1>1, <1>3 DEF Inv, NothingLost, OnDisk, HasVault, aux
<1>5. pc # "idle" /\ pc # "read" /\ pc # "migrate"
  BY DEF RemoveLegacy, Removing
<1>6. NoPlaintextWhileOpen' /\ KeyOpensVault' /\ CallOK' /\ FileOK'
  BY <1>1, <1>5 DEF Inv, NoPlaintextWhileOpen, KeyOpensVault, CallOK,
                    FileOK, HasVault, store, aux
<1> QED  BY <1>2, <1>4, <1>6 DEF Inv

LEMMA RemoveFailsInv == ASSUME Inv, RemoveFails PROVE Inv'
<1>1. /\ pc \in Removing /\ pc' = "idle"
      /\ spared' = (spared \/ pc = "sweep")
      /\ UNCHANGED <<files, store, arg, field, salts, crashes, owned>>
  BY DEF RemoveFails, Return
<1>2. TypeOK'
  <2>1. spared' \in BOOLEAN  BY <1>1 DEF Inv, TypeOK
  <2> QED  BY <1>1, <2>1 DEF Inv, TypeOK, store, files, Calls
<1>3. NothingLost' /\ KeyOpensVault' /\ FileOK'
  BY <1>1 DEF Inv, NothingLost, OnDisk, KeyOpensVault, FileOK, HasVault,
              store, files
<1>4. CallOK'  BY <1>1 DEF CallOK
<1>5. unlocked => legacy = {} /\ pc = "sweep"
  BY <1>1 DEF Inv, CallOK, NoPlaintextWhileOpen, Removing
<1>6. NoPlaintextWhileOpen'
  BY <1>1, <1>5 DEF NoPlaintextWhileOpen, store, files
<1> QED  BY <1>2, <1>3, <1>4, <1>6 DEF Inv

LEMMA ReadInv == ASSUME Inv, ReadVault PROVE Inv'
<1>1. /\ HasVault /\ legacy = {} /\ arg \in Texts /\ ~unlocked
      /\ pc = "read"
  BY DEF ReadVault, Inv, CallOK, TypeOK
<1>2. CASE vault.key # <<arg, vault.salt>>
  <2>1. pc' = "idle" /\ UNCHANGED <<files, store, salts, crashes, aux>>
    BY <1>2 DEF ReadVault, Return, aux
  <2>2. CallOK'  BY <2>1 DEF CallOK
  <2>3. pc' \in Calls  BY <2>1 DEF Calls
  <2>4. arg' \in Texts /\ field' \in Texts
    BY <1>2 DEF ReadVault, Inv, TypeOK
  <2> QED  BY <1>1, <2>1, <2>2, <2>3, <2>4, QuietInv
<1>3. CASE vault.key = <<arg, vault.salt>>
  <2>1. /\ dataKey' = vault.key /\ vaultSalt' = vault.salt
        /\ data' = vault.data /\ masterKey' = arg /\ unlocked' = TRUE
        /\ field' = Blank /\ spared' = FALSE /\ pc' = "sweep"
        /\ UNCHANGED <<vault, legacy, copies, arg, salts, crashes, owned>>
    BY <1>3 DEF ReadVault, Open, files
  <2>2. TypeOK'
    BY <1>1, <2>1, VaultFields, BlankType DEF Inv, TypeOK, Calls, Removing
  <2>3. NothingLost' /\ NoPlaintextWhileOpen'
    BY <1>1, <2>1 DEF Inv, NothingLost, OnDisk, HasVault, NoPlaintextWhileOpen
  <2>4. KeyOpensVault' /\ CallOK' /\ FileOK'
    BY <1>1, <1>3, <2>1 DEF Inv, KeyOpensVault, CallOK, FileOK, HasVault
  <2> QED  BY <2>2, <2>3, <2>4 DEF Inv
<1> QED  BY <1>2, <1>3

LEMMA MigrateInv == ASSUME Inv, Migrate PROVE Inv'
<1>1. arg \in Texts /\ legacy \in Data /\ ~HasVault
  BY DEF Migrate, Inv, TypeOK, Data, CallOK
<1>2. /\ vault' \in Files /\ HasVault'
      /\ vault'.key = <<arg, vault'.salt>> /\ vault'.data = legacy
      /\ dataKey' = vault'.key /\ vaultSalt' = vault'.salt
      /\ dataKey' \in Keys /\ vaultSalt' \in Salts
      /\ salts' \in Salts /\ owned' \in Data
  BY <1>1, WriteVaultType DEF Migrate, Inv
<1>3. ~unlocked /\ ~unlocked'  BY DEF Migrate, Inv, CallOK
<1>4. TypeOK'  BY <1>2 DEF Migrate, Inv, TypeOK, Calls, Removing
<1>5. NothingLost'
  <2>1. owned \subseteq legacy  BY <1>1 DEF Inv, NothingLost, OnDisk
  <2>2. owned' = owned \cup legacy
    BY DEF Migrate, WriteVault
  <2> QED  BY <1>2, <2>1, <2>2 DEF NothingLost, OnDisk
<1>6. KeyOpensVault' /\ NoPlaintextWhileOpen'
  BY <1>3 DEF KeyOpensVault, NoPlaintextWhileOpen
<1>7. CallOK'
  BY <1>2, <1>3 DEF Migrate, CallOK
<1>8. FileOK'
  <2>1. vault'.key = <<vault'.key[1], vault'.salt>>  BY <1>2
  <2> QED  BY <1>2, <1>3, <2>1 DEF Migrate, FileOK
<1> QED  BY <1>4, <1>5, <1>6, <1>7, <1>8 DEF Inv

LEMMA MigrateDoneInv == ASSUME Inv, MigrateDone PROVE Inv'
<1>1. /\ HasVault /\ legacy = {} /\ copies = {} /\ arg \in Texts
      /\ pc' = "idle"
      /\ vault.key = dataKey /\ vault.salt = vaultSalt
      /\ dataKey = <<arg, vaultSalt>>
  BY DEF MigrateDone, Inv, CallOK, TypeOK, Return
<1>2. /\ data' = vault.data /\ masterKey' = arg /\ unlocked' = TRUE
      /\ field' = Blank /\ spared' = FALSE
      /\ UNCHANGED <<vault, legacy, copies, dataKey, vaultSalt, arg, salts,
                     crashes, owned>>
  BY DEF MigrateDone, Open, files
<1>3. TypeOK'
  BY <1>1, <1>2, VaultFields, BlankType DEF Inv, TypeOK, Calls
<1>4. NothingLost' /\ NoPlaintextWhileOpen'
  BY <1>1, <1>2 DEF Inv, NothingLost, OnDisk, HasVault, NoPlaintextWhileOpen
<1>5. KeyOpensVault' /\ CallOK' /\ FileOK'
  BY <1>1, <1>2 DEF Inv, KeyOpensVault, CallOK, FileOK, HasVault
<1> QED  BY <1>3, <1>4, <1>5 DEF Inv

LEMMA SaveInv ==
  ASSUME Inv, NEW e \in Edits, NEW ok \in BOOLEAN, Save(e, ok) PROVE Inv'
<1>1. /\ HasVault /\ legacy = {} /\ unlocked /\ pc = "idle"
      /\ vault.key = dataKey /\ vault.salt = vaultSalt
      /\ dataKey = <<masterKey, vaultSalt>>
      /\ vault.data \subseteq data /\ (~spared => copies = {})
  BY DEF Save, Inv, KeyOpensVault, NoPlaintextWhileOpen, FileOK
<1>2. /\ data' = data \cup {e}
      /\ UNCHANGED <<legacy, copies, unlocked, dataKey, masterKey, vaultSalt,
                     pc, arg, field, salts, crashes, spared>>
  BY DEF Save
<1>3. data' \in Data  BY <1>2 DEF Inv, TypeOK, Data
<1>4. CASE ok
  <2>1. /\ vault' = [salt |-> vaultSalt, key |-> dataKey, data |-> data']
        /\ owned' = owned \cup data'
    BY <1>4 DEF Save
  <2>2. vault' \in Files  BY <1>3, <2>1 DEF Inv, TypeOK, Files
  <2>3. HasVault'  BY <2>2, NoneAssumption DEF HasVault
  <2>4. TypeOK'  BY <1>2, <1>3, <2>1, <2>2 DEF Inv, TypeOK, Data
  <2>5. vault'.data = data' /\ vault'.key = dataKey /\ vault'.salt = vaultSalt
    BY <2>1
  <2>6. owned \subseteq vault.data
    BY <1>1 DEF Inv, NothingLost, OnDisk
  <2>7. NothingLost'
    BY <1>1, <1>2, <2>1, <2>3, <2>5, <2>6 DEF NothingLost, OnDisk
  <2>8. KeyOpensVault' /\ NoPlaintextWhileOpen' /\ CallOK'
    BY <1>1, <1>2, <2>3, <2>5
       DEF KeyOpensVault, NoPlaintextWhileOpen, CallOK
  <2>9. FileOK'
    BY <1>1, <1>2, <2>5 DEF FileOK
  <2> QED  BY <2>4, <2>7, <2>8, <2>9 DEF Inv
<1>5. CASE ~ok
  <2>1. vault' = vault /\ owned' = owned  BY <1>5 DEF Save
  <2>2. TypeOK'  BY <1>2, <1>3, <2>1 DEF Inv, TypeOK
  <2>3. NothingLost' /\ KeyOpensVault' /\ NoPlaintextWhileOpen'
    BY <1>2, <2>1 DEF Inv, NothingLost, OnDisk, HasVault, KeyOpensVault,
                      NoPlaintextWhileOpen
  <2>4. CallOK' /\ FileOK'
    BY <1>1, <1>2, <2>1 DEF Inv, CallOK, FileOK, HasVault
  <2> QED  BY <2>2, <2>3, <2>4 DEF Inv
<1> QED  BY <1>4, <1>5

(* Forgetting the keys and the lists, with no call left in progress. *)
LEMMA ForgetInv ==
  ASSUME Inv, Forget, pc' = "idle", arg' = arg, field' \in Texts,
         crashes' \in 0..MaxCrashes, UNCHANGED <<files, salts, aux>>
  PROVE  Inv'
<1> USE DEF files, aux
<1>1. TypeOK'
  <2>1. 0 \in Salts /\ {} \in Data  BY KeyAssumption DEF Salts, Data
  <2> QED  BY <2>1, BlankType DEF Forget, Inv, TypeOK, Calls
<1>2. NothingLost' /\ KeyOpensVault' /\ NoPlaintextWhileOpen'
  BY DEF Forget, Inv, NothingLost, OnDisk, HasVault, KeyOpensVault,
         NoPlaintextWhileOpen
<1>3. CallOK' /\ FileOK'
  BY DEF Forget, Inv, CallOK, FileOK, HasVault
<1> QED  BY <1>1, <1>2, <1>3 DEF Inv

LEMMA NextInv == Inv /\ [Next]_vars => Inv'
<1> SUFFICES ASSUME Inv, [Next]_vars PROVE Inv'  OBVIOUS
<1>1. ASSUME NEW text \in Texts, Type(text) PROVE Inv'
  <2>1. CASE HasVault \/ legacy # {}
    BY <1>1, <2>1, CallUnlockInv DEF Type
  <2>2. CASE ~(HasVault \/ legacy # {})
    <3>1. CallOK'
      BY <1>1, <2>2 DEF Type, Inv, CallOK, HasVault, store, files
    <3> QED  BY <1>1, <2>2, <3>1, QuietInv DEF Type, Inv, TypeOK
  <2> QED  BY <2>1, <2>2
<1>2. CASE SubmitUnlock
  BY <1>2, CallUnlockInv DEF SubmitUnlock, Inv, TypeOK
<1>3. CASE SubmitCreate  BY <1>3, CreateInv
<1>4. CASE UnlockDispatch
  <2>1. pc' \in Calls  BY <1>4 DEF UnlockDispatch, Calls, Removing
  <2>2. CallOK'
    BY <1>4 DEF UnlockDispatch, Inv, CallOK, HasVault, store, files
  <2>3. ~unlocked  BY <1>4 DEF UnlockDispatch, Inv, CallOK
  <2> QED  BY <1>4, <2>1, <2>2, <2>3, QuietInv DEF UnlockDispatch, Inv, TypeOK
<1>5. ASSUME NEW f \in LegacyFiles, RemoveLegacy(f) PROVE Inv'
  BY <1>5, RemoveInv
<1>6. CASE RemoveFails  BY <1>6, RemoveFailsInv
<1>7. CASE PurgeDone \/ SweepDone \/ MigrateFails
  <2>1. /\ pc' \in {"idle", "read"} /\ (pc' = "read" => PurgeDone)
        /\ UNCHANGED <<files, store, arg, field, salts, crashes, aux>>
    BY <1>7 DEF PurgeDone, SweepDone, MigrateFails, Return
  <2>2. ~unlocked \/ copies = {}
    BY <1>7 DEF PurgeDone, SweepDone, MigrateFails, Inv, CallOK
  <2>3. CallOK'
    BY <2>1 DEF PurgeDone, Inv, CallOK, HasVault, store, files
  <2>4. pc' \in Calls /\ arg' \in Texts /\ field' \in Texts
    BY <2>1 DEF Inv, TypeOK, Calls
  <2> QED  BY <2>1, <2>2, <2>3, <2>4, QuietInv
<1>8. CASE ReadVault  BY <1>8, ReadInv
<1>9. CASE Migrate  BY <1>9, MigrateInv
<1>10. CASE MigrateDone  BY <1>10, MigrateDoneInv
<1>11. ASSUME NEW e \in Edits, NEW ok \in BOOLEAN, Save(e, ok) PROVE Inv'
  BY <1>11, SaveInv
<1>12. CASE Lock
  BY <1>12, ForgetInv DEF Lock, Inv, TypeOK
<1>13. CASE Crash
  <2>1. crashes' \in 0..MaxCrashes  BY <1>13, KeyAssumption DEF Crash, Inv, TypeOK
  <2> QED  BY <1>13, <2>1, ForgetInv, BlankType DEF Crash, Return
<1>14. CASE UNCHANGED vars
  <2> USE <1>14 DEF vars, store, files, aux, Inv
  <2>1. TypeOK'  BY DEF TypeOK
  <2>2. NothingLost' /\ KeyOpensVault' /\ FileOK'
    BY DEF NothingLost, OnDisk, KeyOpensVault, FileOK, HasVault
  <2>3. NoPlaintextWhileOpen' /\ CallOK'
    BY DEF NoPlaintextWhileOpen, CallOK, HasVault
  <2> QED  BY <2>1, <2>2, <2>3
<1> QED
  BY <1>1, <1>2, <1>3, <1>4, <1>5, <1>6, <1>7, <1>8, <1>9, <1>10, <1>11,
     <1>12, <1>13, <1>14 DEF Next

LEMMA InvHolds == Spec => []Inv
<1> QED  BY InitInv, NextInv, PTL DEF Spec

(* A migration loses nothing: plaintext found where there is no vault, and  *)
(* whatever a vault has held, stays on the disk through failures, wrong     *)
(* passphrases and restarts at any point.                                   *)
THEOREM NothingIsLost == Spec => []NothingLost
<1>1. Inv => NothingLost  BY DEF Inv
<1> QED  BY <1>1, InvHolds, PTL

(* The passphrase of the session opens the file the session leaves behind. *)
THEOREM SessionKeyOpensVault == Spec => []KeyOpensVault
<1>1. Inv => KeyOpensVault  BY DEF Inv
<1> QED  BY <1>1, InvHolds, PTL

(* No plaintext file is left while the vault is open, and a .legacy copy    *)
(* only where the code looks for none or drops the error of removing it.    *)
THEOREM OpenMeansEncrypted == Spec => []NoPlaintextWhileOpen
<1>1. Inv => NoPlaintextWhileOpen  BY DEF Inv
<1> QED  BY <1>1, InvHolds, PTL

(* The vault is never re-encrypted with another passphrase and never goes   *)
(* away.                                                                    *)
THEOREM PassphraseIsKept == Spec => VaultKeepsPassphrase
<1>1. Inv /\ [Next]_vars =>
        [HasVault => vault' # None /\ vault'.key[1] = vault.key[1]]_vars
  <2> SUFFICES ASSUME Inv, [Next]_vars, HasVault
               PROVE  vault' # None /\ vault'.key[1] = vault.key[1]
    OBVIOUS
  <2>1. CASE UNCHANGED vault  BY <2>1 DEF HasVault
  <2>2. ASSUME NEW e \in Edits, NEW ok \in BOOLEAN, Save(e, ok)
        PROVE  vault' # None /\ vault'.key[1] = vault.key[1]
    <3>1. vault.key = dataKey  BY <2>2 DEF Save, Inv, KeyOpensVault
    <3>2. CASE ok
      <4>1. HasVault'
        BY <2>2, SaveInv, NoneAssumption, <3>2
           DEF Save, Inv, KeyOpensVault
      <4>2. vault'.key = dataKey  BY <2>2, <3>2 DEF Save
      <4> QED  BY <3>1, <4>1, <4>2 DEF HasVault
    <3>3. CASE ~ok  BY <2>2, <3>3 DEF Save, HasVault
    <3> QED  BY <3>2, <3>3
  <2>3. ~SubmitCreate  BY DEF SubmitCreate
  <2>4. ~Migrate  BY DEF Migrate, Inv, CallOK
  <2>5. Next \/ UNCHANGED vars  OBVIOUS
  <2> QED
    BY <2>1, <2>2, <2>3, <2>4, <2>5
       DEF Next, vars, Type, CallUnlock, SubmitUnlock, UnlockDispatch,
           RemoveLegacy, RemoveFails, PurgeDone, ReadVault, SweepDone,
           MigrateFails, MigrateDone, Lock, Crash, files
<1> QED  BY <1>1, InvHolds, PTL DEF Spec, VaultKeepsPassphrase

(* Every variable keeps its type. *)
THEOREM TypeCorrect == Spec => []TypeOK
<1>1. Inv => TypeOK  BY DEF Inv
<1> QED  BY <1>1, InvHolds, PTL

----------------------------------------------------------------------------
(* The screen through which the data of an open vault is shared and imported *)
(* (SyncScreen).                                                             *)


(* The records the device may come to have. *)
Shared ==
    UNION {b.records : b \in {o \in Others : o.key = Key} \cup Exports}

(* A bundle that was made with the key of the device; one that opens with it is. *)
Ours(b)  == b.key = Key /\ b.records \subseteq Shared
ForUs(b) == Opens(b, Key) => Ours(b)
Within(b, ids) == b = Nothing \/ b.records \subseteq ids

(* What each stage of the goroutine f may rely on: of a pull, the bundle it has
   opened; of a push that follows one, that the device still has the records of
   the bundle that was merged. *)
FlowOK(f) ==
    /\ At(f, "preview") => ForUs(flow[f].bundle)
    /\ At(f, "apply") => Ours(flow[f].bundle)
    /\ At(f, "snapshot") => Within(flow[f].base, records)
    /\ At(f, "put") =>
         /\ Ours(flow[f].bundle)
         /\ Within(flow[f].base, flow[f].bundle.records)
    /\ At(f, "work") => flow[f] \in [at : {"work"}, canceled : BOOLEAN]

(* And the two dialogs that hold a pulled bundle for their OK button. *)
DialogOK ==
    /\ dialog.kind = "confirm" => ForUs(dialog.bundle)
    /\ dialog.kind = "conflicts" => Ours(dialog.bundle)

ScreenInv ==
    /\ records \subseteq Shared
    /\ remote = Nothing \/ ForUs(remote)
    /\ DOMAIN flow = Flows /\ flow = [f \in Flows |-> flow[f]]
    /\ \A f \in Flows : FlowOK(f)
    /\ DialogOK

----------------------------------------------------------------------------
(* Which bundles are for the device: those of devices with its key, and those
   it has made itself; of the others none opens. *)
LEMMA OthersForUs ==
    ASSUME NEW b \in Others  PROVE ForUs(b)
<1> SUFFICES ASSUME Opens(b, Key) PROVE Ours(b)
    BY DEF ForUs
<1>1. b.key = Key
    BY OthersAssumption DEF Opens, Decrypts
<1>2. b \in {o \in Others : o.key = Key} \cup Exports  BY <1>1
<1>3. QED  BY <1>1, <1>2 DEF Ours, Shared

LEMMA ExportsShared == \A b \in Exports : b.records \subseteq Shared
BY DEF Shared

LEMMA OursForUs == ASSUME NEW b, Ours(b)  PROVE ForUs(b)
BY DEF ForUs

(* A goroutine that is set to work, or ends, while nothing is merged. *)
LEMMA FlowsKeep ==
    ASSUME ScreenInv, NEW f \in Flows, NEW x, Run(f, x),
           records \subseteq records', FlowOK(f)'
    PROVE  /\ DOMAIN flow' = Flows /\ flow' = [g \in Flows |-> flow'[g]]
           /\ \A g \in Flows : FlowOK(g)'
<1>1. flow' = [flow EXCEPT ![f] = x]  BY DEF Run
<1>2. DOMAIN flow' = Flows /\ flow' = [g \in Flows |-> flow'[g]]
    BY <1>1 DEF ScreenInv
<1>3. \A g \in Flows : g # f => flow'[g] = flow[g]  BY <1>1 DEF ScreenInv
<1>4. ASSUME NEW g \in Flows, g # f  PROVE FlowOK(g)'
    <2>1. FlowOK(g) /\ flow'[g] = flow[g]  BY <1>3, <1>4 DEF ScreenInv
    <2>2. \A b : Within(b, records) => Within(b, records')
        BY DEF Within, Nothing
    <2>3. QED  BY <2>1, <2>2 DEF FlowOK, At, ForUs, Ours, Within, Nothing
<1>5. QED  BY <1>2, <1>4

(* One that shows a dialog and no more. *)
LEMMA FlowsStay ==
    ASSUME ScreenInv, UNCHANGED <<records, flow>>
    PROVE  /\ DOMAIN flow' = Flows /\ flow' = [g \in Flows |-> flow'[g]]
           /\ \A g \in Flows : FlowOK(g)'
BY DEF ScreenInv, FlowOK, At, ForUs, Ours, Within, Nothing

LEMMA PlainDialog ==
    ASSUME dialog'.kind \notin {"confirm", "conflicts"}  PROVE DialogOK'
BY DEF DialogOK

LEMMA ScreenInitInv == ScreenInit => ScreenInv
<1> SUFFICES ASSUME ScreenInit PROVE ScreenInv  OBVIOUS
<1>1. \A f \in Flows : FlowOK(f)
    BY DEF ScreenInit, FlowOK, At, Idle
<1>2. DialogOK  BY DEF ScreenInit, DialogOK, NoDialog
<1>3. QED  BY <1>1, <1>2 DEF ScreenInit, ScreenInv, Nothing

----------------------------------------------------------------------------
(* The buttons: of what they start only a preview and a merge hold a bundle. *)
LEMMA PullKeeps ==
    ASSUME ScreenInv, NEW asked, SyncPull(asked),
           UNCHANGED <<records, remote>>
    PROVE  ScreenInv'
<1>1. dialog' \in {Notice, Loading}
    BY DEF SyncPull, Show
<1>2. DialogOK'  BY <1>1, PlainDialog DEF Notice, Loading
<1>3. CASE UNCHANGED flow  BY <1>2, <1>3, FlowsStay DEF ScreenInv, ForUs, Ours
<1>4. ASSUME NEW f \in Flows, Run(f, Download)  PROVE ScreenInv'
    <2>1. flow'[f].at = "download"
        BY <1>4 DEF ScreenInv, Run, Download
    <2>2. FlowOK(f)'  BY <2>1 DEF FlowOK, At
    <2>3. QED  BY <1>2, <1>4, <2>2, FlowsKeep DEF ScreenInv, ForUs, Ours
<1>5. QED  BY <1>3, <1>4 DEF SyncPull

LEMMA ForceKeeps == ASSUME ScreenInv, ForcePush PROVE ScreenInv'
<1>1. PICK f \in Flows : RunSyncPush(f, Nothing)
    BY DEF ForcePush
<1>2. UNCHANGED <<records, remote>>  BY DEF ForcePush, lists
<1>3. DialogOK'
    BY <1>1, PlainDialog DEF RunSyncPush, Show, Loading
<1>4. flow'[f] = Snapshot(Nothing)
    BY <1>1 DEF ScreenInv, RunSyncPush, Run
<1>5. FlowOK(f)'
    BY <1>4 DEF FlowOK, At, Snapshot, Within, Nothing
<1>6. QED
    BY <1>1, <1>2, <1>3, <1>5, FlowsKeep DEF ScreenInv, ForUs, Ours, RunSyncPush

LEMMA ConfirmKeeps == ASSUME ScreenInv, OKConfirm PROVE ScreenInv'
<1>1. PICK f \in Flows : Run(f, Preview(dialog.bundle))
    BY DEF OKConfirm
<1>2. UNCHANGED <<records, remote>>  BY DEF OKConfirm, lists
<1>3. DialogOK'
    BY PlainDialog DEF OKConfirm, Show, Loading
<1>4. ForUs(dialog.bundle)
    BY DEF OKConfirm, Shown, ScreenInv, DialogOK
<1>5. flow'[f] = Preview(dialog.bundle)
    BY <1>1 DEF ScreenInv, Run
<1>6. FlowOK(f)'
    <2>1. flow'[f].at = "preview" /\ flow'[f].bundle = dialog.bundle
        BY <1>5 DEF Preview
    <2>2. ForUs(flow[f].bundle)'  BY <1>4, <2>1 DEF ForUs, Ours, Shared
    <2>3. QED  BY <2>1, <2>2 DEF FlowOK, At
<1>7. QED  BY <1>1, <1>2, <1>3, <1>6, FlowsKeep DEF ScreenInv, ForUs, Ours

LEMMA StartKeeps == ASSUME ScreenInv, StartWork PROVE ScreenInv'
<1>1. PICK f \in Flows : /\ Run(f, Work)
                         /\ Show(Cancelable(f))
                            \/ Show(Loading)
    BY DEF StartWork
<1>2. UNCHANGED <<records, remote>>  BY DEF StartWork, lists
<1>3. DialogOK'
    BY <1>1, PlainDialog DEF Show, Loading, Cancelable
<1>4. flow'[f] = Work  BY <1>1 DEF ScreenInv, Run
<1>5. FlowOK(f)'  BY <1>4 DEF FlowOK, At, Work
<1>6. QED  BY <1>1, <1>2, <1>3, <1>5, FlowsKeep DEF ScreenInv, ForUs, Ours

(* A cancel leaves a mark on the work the dialog is for, if it still runs. *)
LEMMA CancelKeeps == ASSUME ScreenInv, CancelWork PROVE ScreenInv'
<1>0. PICK f : f = dialog.flow  OBVIOUS
<1>1. UNCHANGED <<records, remote>>  BY DEF CancelWork, lists
<1>2. DialogOK'
    BY PlainDialog DEF CancelWork, Show, NoDialog
<1>3. CASE UNCHANGED flow  BY <1>1, <1>2, <1>3, FlowsStay DEF ScreenInv, ForUs, Ours
<1>4. CASE /\ At(f, "work")
           /\ flow' = [flow EXCEPT ![f].canceled = TRUE]
    <2>1. CASE f \notin Flows
        <3>1. flow' = flow  BY <1>4, <2>1 DEF ScreenInv
        <3>2. QED  BY <1>3, <3>1
    <2>2. CASE f \in Flows
        <3> DEFINE x == [flow[f] EXCEPT !.canceled = TRUE]
        <3>1. Run(f, x)  BY <1>4 DEF Run
        <3>2. x \in [at : {"work"}, canceled : BOOLEAN]
            BY <1>4, <2>2 DEF ScreenInv, FlowOK
        <3>3. flow'[f] = x  BY <2>2, <3>1 DEF ScreenInv, Run
        <3> HIDE DEF x
        <3>4. FlowOK(f)'  BY <3>2, <3>3 DEF FlowOK, At
        <3>5. QED  BY <1>1, <1>2, <2>2, <3>1, <3>4, FlowsKeep DEF ScreenInv, ForUs, Ours
    <2>3. QED  BY <2>1, <2>2
<1>5. QED  BY <1>0, <1>3, <1>4 DEF CancelWork

(* A file that opens is merged at once, or waits in a dialog. *)
LEMMA PasswordKeeps ==
    ASSUME ScreenInv, NEW b \in Exports, NEW k, OKPassword(b, k)
    PROVE  ScreenInv' /\ records \subseteq records'
<1>1. UNCHANGED <<remote, flow>>  BY DEF OKPassword
<1>2. records' = records \/ records' = records \cup b.records
    BY DEF OKPassword, Merge, MergeHistory, lists
<1>3. records \subseteq records' /\ records' \subseteq Shared
    BY <1>2, ExportsShared DEF ScreenInv
<1>4. DialogOK'
    BY PlainDialog DEF OKPassword, Show, Notice,
                       FileConflicts
<1>5. \A f \in Flows : FlowOK(f)'
    BY <1>1, <1>3 DEF ScreenInv, FlowOK, At, ForUs, Ours, Within, Nothing
<1>6. QED  BY <1>1, <1>3, <1>4, <1>5 DEF ScreenInv, ForUs, Ours, Shared

----------------------------------------------------------------------------
(* The goroutines.  What a pull gets is the object, or nothing. *)
LEMMA DownloadKeeps ==
    ASSUME ScreenInv, NEW f \in Flows, Downloaded(f)  PROVE ScreenInv'
<1>1. UNCHANGED <<records, remote>>  BY DEF Downloaded, lists
<1>2. PICK got \in {remote, Nothing} :
          IF got = Nothing
          THEN dialog' = Notice ELSE dialog' = Confirm(got)
    BY DEF Downloaded, Pull, Show, Nothing
<1>3. DialogOK'
    <2>1. CASE got = Nothing  BY <1>2, <2>1, PlainDialog DEF Notice
    <2>2. CASE got # Nothing
        <3>1. ForUs(got)  BY <1>2, <2>2 DEF ScreenInv
        <3>2. dialog' = Confirm(got)  BY <1>2, <2>2
        <3>3. dialog'.kind = "confirm" /\ dialog'.bundle = got
            BY <3>2 DEF Confirm
        <3>4. QED  BY <3>1, <3>3 DEF DialogOK, ForUs, Ours, Shared
    <2>3. QED  BY <2>1, <2>2
<1>4. Run(f, Idle)  BY DEF Downloaded, End
<1>5. flow'[f].at = "idle"  BY <1>4 DEF ScreenInv, Run, Idle
<1>6. FlowOK(f)'  BY <1>5 DEF FlowOK, At
<1>7. QED  BY <1>1, <1>3, <1>4, <1>6, FlowsKeep DEF ScreenInv, ForUs, Ours

(* A preview goes on with a bundle only if it opens. *)
LEMMA PreviewKeeps ==
    ASSUME ScreenInv, NEW f \in Flows, Previewed(f)  PROVE ScreenInv'
<1>1. UNCHANGED <<records, remote>>  BY DEF Previewed, lists
<1>2. PICK b : b = flow[f].bundle  OBVIOUS
<1>3. ForUs(b)  BY <1>2 DEF Previewed, ScreenInv, FlowOK
<1>4. CASE Run(f, Idle) /\ Show(Notice)
    <2>1. flow'[f].at = "idle"  BY <1>4 DEF ScreenInv, Run, Idle
    <2>2. FlowOK(f)'  BY <2>1 DEF FlowOK, At
    <2>3. DialogOK'  BY <1>4, PlainDialog DEF Show, Notice
    <2>4. QED  BY <1>1, <1>4, <2>2, <2>3, FlowsKeep DEF ScreenInv, ForUs, Ours
<1>5. CASE /\ Opens(b, Key)
           /\ Run(f, Apply(b, hosts))
           /\ Show(NoDialog)
    <2>1. Ours(b)  BY <1>3, <1>5 DEF ForUs
    <2>2. flow'[f] = Apply(b, hosts)  BY <1>5 DEF ScreenInv, Run
    <2>3. flow'[f].at = "apply" /\ flow'[f].bundle = b
        BY <2>2 DEF Apply
    <2>4. FlowOK(f)'  BY <2>1, <2>3 DEF FlowOK, At, Ours, Shared
    <2>5. DialogOK'  BY <1>5, PlainDialog DEF Show, NoDialog
    <2>6. QED  BY <1>1, <1>5, <2>4, <2>5, FlowsKeep DEF ScreenInv, ForUs, Ours
<1>6. CASE /\ Opens(b, Key)
           /\ Run(f, Idle)
           /\ Show(SyncConflicts(b, hosts))
    <2>1. Ours(b)  BY <1>3, <1>6 DEF ForUs
    <2>2. flow'[f].at = "idle"  BY <1>6 DEF ScreenInv, Run, Idle
    <2>3. FlowOK(f)'  BY <2>2 DEF FlowOK, At
    <2>4. dialog'.kind = "conflicts" /\ dialog'.bundle = b
        BY <1>6 DEF Show, SyncConflicts
    <2>5. DialogOK'  BY <2>1, <2>4 DEF DialogOK, Ours, Shared
    <2>6. QED  BY <1>1, <1>6, <2>3, <2>5, FlowsKeep DEF ScreenInv, ForUs, Ours
<1>7. QED  BY <1>2, <1>4, <1>5, <1>6 DEF Previewed, End

(* The merge of a bundle that has been opened; a push that follows has it as
   its base. *)
LEMMA ApplyKeeps ==
    ASSUME ScreenInv, NEW f \in Flows, NEW b, Ours(b),
           ApplySyncImport(b, f), UNCHANGED remote
    PROVE  ScreenInv' /\ records \subseteq records'
<1>1. records' = records \cup b.records
    BY DEF ApplySyncImport, Merge, MergeHistory
<1>2. records \subseteq records' /\ records' \subseteq Shared
    BY <1>1 DEF ScreenInv, Ours
<1>3. CASE Show(Notice) /\ Run(f, Idle)
    <2>1. flow'[f].at = "idle"  BY <1>3 DEF ScreenInv, Run, Idle
    <2>2. FlowOK(f)'  BY <2>1 DEF FlowOK, At
    <2>3. DialogOK'  BY <1>3, PlainDialog DEF Show, Notice
    <2>4. QED
        BY <1>2, <1>3, <2>2, <2>3, FlowsKeep DEF ScreenInv, ForUs, Ours, Shared
<1>4. CASE /\ Show(Loading)
           /\ Run(f, Snapshot(b))
    <2>1. flow'[f] = Snapshot(b)  BY <1>4 DEF ScreenInv, Run
    <2>2. flow'[f].at = "snapshot" /\ flow'[f].base = b
        BY <2>1 DEF Snapshot
    <2>3. FlowOK(f)'  BY <1>1, <2>2 DEF FlowOK, At, Within
    <2>4. DialogOK'  BY <1>4, PlainDialog DEF Show, Loading
    <2>5. QED
        BY <1>2, <1>4, <2>3, <2>4, FlowsKeep DEF ScreenInv, ForUs, Ours, Shared
<1>5. QED  BY <1>3, <1>4 DEF ApplySyncImport, End

(* The copy a push uploads has every record of the device. *)
LEMMA SnapshotKeeps ==
    ASSUME ScreenInv, NEW f \in Flows, Snapshotted(f)  PROVE ScreenInv'
<1>1. UNCHANGED <<records, remote, dialog>>
    BY DEF Snapshotted, lists
<1>2. PICK base, b : base = flow[f].base /\ b = Bundle(Key, hosts, records)
    OBVIOUS
<1>3. b.records = records /\ b.key = Key
    BY <1>2 DEF Bundle, AppPayload
<1>4. Within(base, b.records)
    BY <1>2, <1>3 DEF Snapshotted, ScreenInv, FlowOK
<1>5. Run(f, Put(base, b))  BY <1>2 DEF Snapshotted
<1>6. flow'[f] = Put(base, b)  BY <1>5 DEF ScreenInv, Run
<1>7. flow'[f].at = "put" /\ flow'[f].base = base /\ flow'[f].bundle = b
    BY <1>6 DEF Put
<1>8. Ours(b)  BY <1>3 DEF ScreenInv, Ours
<1>9. FlowOK(f)'
    BY <1>4, <1>7, <1>8
       DEF FlowOK, At, Ours, Shared, Within, Nothing
<1>10. DialogOK'  BY <1>1 DEF ScreenInv, DialogOK, ForUs, Ours
<1>11. QED  BY <1>1, <1>5, <1>9, <1>10, FlowsKeep DEF ScreenInv, ForUs, Ours

(* The object is replaced by a bundle of the device's own records, or not. *)
LEMMA PutKeeps ==
    ASSUME ScreenInv, NEW f \in Flows, PutDone(f)  PROVE ScreenInv'
<1>1. UNCHANGED records  BY DEF PutDone, lists
<1>2. remote' = Nothing \/ ForUs(remote)'
    <2>1. remote' \in {remote, flow[f].bundle}
        BY DEF PutDone, Push
    <2>2. ForUs(flow[f].bundle)
        BY OursForUs DEF PutDone, ScreenInv, FlowOK
    <2>3. QED  BY <2>1, <2>2 DEF ScreenInv, ForUs, Ours, Shared
<1>3. DialogOK'
    BY PlainDialog DEF PutDone, Show, Notice
<1>4. Run(f, Idle)  BY DEF PutDone, End
<1>5. flow'[f].at = "idle"  BY <1>4 DEF ScreenInv, Run, Idle
<1>6. FlowOK(f)'  BY <1>5 DEF FlowOK, At
<1>7. QED  BY <1>1, <1>2, <1>3, <1>4, <1>6, FlowsKeep DEF ScreenInv

LEMMA WorkKeeps ==
    ASSUME ScreenInv, NEW f \in Flows, Worked(f)  PROVE ScreenInv'
<1>1. UNCHANGED <<records, remote>>  BY DEF Worked, lists
<1>2. DialogOK'
    <2>1. dialog' \in {Notice, NoDialog, dialog}
        BY DEF Worked, Show
    <2>2. CASE dialog' = dialog  BY <2>2 DEF ScreenInv, DialogOK, ForUs, Ours
    <2>3. CASE dialog' # dialog
        BY <2>1, <2>3, PlainDialog DEF Notice, NoDialog
    <2>4. QED  BY <2>2, <2>3
<1>3. Run(f, Idle)  BY DEF Worked, End
<1>4. flow'[f].at = "idle"  BY <1>3 DEF ScreenInv, Run, Idle
<1>5. FlowOK(f)'  BY <1>4 DEF FlowOK, At
<1>6. QED  BY <1>1, <1>2, <1>3, <1>5, FlowsKeep DEF ScreenInv, ForUs, Ours

----------------------------------------------------------------------------
(* The steps that leave the goroutines and the records alone. *)
Sundry == \/ PressPush \/ CancelWarning \/ Close
          \/ CancelDialog \/ Dismiss \/ EditHosts
          \/ OtherDialog

LEMMA SundryKeeps == ASSUME ScreenInv, Sundry PROVE ScreenInv'
<1>1. UNCHANGED <<records, remote, flow>>
    BY DEF Sundry, PressPush, CancelWarning, Close,
           CancelDialog, Dismiss, EditHosts,
           OtherDialog, lists
<1>2. \/ dialog' \in {Warning, Notice, NoDialog, dialog}
      \/ \E b, k : dialog' = Password(b, k)
    BY DEF Sundry, PressPush, CancelWarning, Close,
           CancelDialog, Dismiss, EditHosts,
           OtherDialog, Show
<1>3. DialogOK'
    <2>1. CASE dialog' = dialog  BY <2>1 DEF ScreenInv, DialogOK, ForUs, Ours
    <2>2. CASE dialog' # dialog
        BY <1>2, <2>2, PlainDialog
           DEF Warning, Notice, NoDialog, Password
    <2>3. QED  BY <2>1, <2>2
<1>4. QED  BY <1>1, <1>3, FlowsStay DEF ScreenInv, ForUs, Ours

LEMMA ElsewhereKeeps ==
    ASSUME ScreenInv, PushElsewhere
    PROVE  ScreenInv'
<1>1. UNCHANGED <<records, dialog, flow>>
    BY DEF PushElsewhere, lists
<1>2. PICK b \in Others : remote' = b  BY DEF PushElsewhere
<1>3. ForUs(remote)'  BY <1>2, OthersForUs DEF ForUs, Ours, Shared
<1>4. DialogOK'  BY <1>1 DEF ScreenInv, DialogOK, ForUs, Ours
<1>5. QED  BY <1>1, <1>3, <1>4, FlowsStay DEF ScreenInv

LEMMA ScreenStep ==
    ASSUME ScreenInv, [ScreenNext]_screenVars
    PROVE  ScreenInv'
<1>1. ASSUME NEW f \in Flows, Goroutine(f)  PROVE ScreenInv'
    <2>1. ASSUME Applied(f)  PROVE ScreenInv'
        BY <2>1, ApplyKeeps DEF Applied, ScreenInv, FlowOK
    <2>2. QED
        BY <1>1, <2>1, DownloadKeeps, PreviewKeeps, SnapshotKeeps, PutKeeps,
           WorkKeeps DEF Goroutine
<1>2. ASSUME PressPull \/ PullFirst  PROVE ScreenInv'
    BY <1>2, PullKeeps DEF PressPull, PullFirst, lists
<1>3. ASSUME OKConflicts  PROVE ScreenInv'
    <2>1. PICK f \in Flows : ApplySyncImport(dialog.bundle, f)
        BY <1>3 DEF OKConflicts
    <2>2. Ours(dialog.bundle) /\ UNCHANGED remote
        BY <1>3 DEF OKConflicts, Shown, ScreenInv, DialogOK
    <2>3. QED  BY <2>1, <2>2, ApplyKeeps
<1>4. ASSUME NEW b \in Exports, NEW k, OKPassword(b, k)
      PROVE  ScreenInv'
    BY <1>4, PasswordKeeps
<1>5. CASE UNCHANGED screenVars
    BY <1>5, FlowsStay DEF screenVars, ScreenInv, DialogOK, ForUs, Ours
<1>6. Click =>
        \/ Sundry \/ PressPull \/ PullFirst \/ ForcePush
        \/ OKConfirm \/ OKConflicts
        \/ \E b \in Exports, k \in Passwords : OKPassword(b, k)
        \/ StartWork \/ CancelWork
    BY DEF Click, Sundry
<1>7. Click => ScreenInv'
    BY <1>2, <1>3, <1>4, <1>6, SundryKeeps, ForceKeeps, ConfirmKeeps,
       StartKeeps, CancelKeeps
<1>8. QED
    BY <1>1, <1>5, <1>7, SundryKeeps, ElsewhereKeeps DEF ScreenNext, Sundry

LEMMA ScreenInvariant == ScreenSpec => []ScreenInv
<1>1. ScreenInv /\ [ScreenNext]_screenVars => ScreenInv'  BY ScreenStep
<1>2. QED  BY <1>1, ScreenInitInv, PTL DEF ScreenSpec

(* What a click or a goroutine may do with the lists of the device. *)
Read == \/ UNCHANGED lists
        \/ \E f \in Flows : /\ At(f, "apply")
                             /\ flow[f].bundle.key = Key
                             /\ Merge(flow[f].bundle)
        \/ /\ dialog.kind = "conflicts"
           /\ dialog.bundle.key = Key
           /\ Merge(dialog.bundle)
        \/ /\ dialog.kind = "password"
           /\ dialog.bundle.key \in {Plain, dialog.typed}
           /\ Merge(dialog.bundle)

LEMMA ReadStep ==
    ASSUME ScreenInv, [ScreenNext]_screenVars, ~EditHosts  PROVE Read
<1>1. ASSUME NEW f \in Flows, Goroutine(f)  PROVE Read
    <2>1. CASE Applied(f)
        <3>1. At(f, "apply") /\ Merge(flow[f].bundle)
            BY <2>1 DEF Applied, ApplySyncImport
        <3>2. flow[f].bundle.key = Key
            BY <3>1 DEF ScreenInv, FlowOK, Ours
        <3>3. QED  BY <3>1, <3>2 DEF Read
    <2>2. CASE ~Applied(f)
        BY <1>1, <2>2
           DEF Goroutine, Downloaded, Previewed, Snapshotted, PutDone, Worked,
               Read
    <2>3. QED  BY <2>1, <2>2
<1>2. CASE OKConflicts
    <2>1. dialog.kind = "conflicts" /\ Merge(dialog.bundle)
        BY <1>2 DEF OKConflicts, Shown, ApplySyncImport
    <2>2. dialog.bundle.key = Key
        BY <2>1 DEF ScreenInv, DialogOK, Ours
    <2>3. QED  BY <2>1, <2>2 DEF Read
<1>3. ASSUME NEW b \in Exports, NEW k, OKPassword(b, k)  PROVE Read
    <2>1. CASE UNCHANGED lists  BY <2>1 DEF Read
    <2>2. CASE Opens(b, k) /\ Merge(b)
        <3>1. b.key \in {Plain, k}  BY <2>2 DEF Opens, Decrypts
        <3>2. dialog = Password(b, k)  BY <1>3 DEF OKPassword
        <3>3. /\ dialog.kind = "password"
              /\ dialog.bundle = b /\ dialog.typed = k
            BY <3>2 DEF Password
        <3>4. QED  BY <2>2, <3>1, <3>3 DEF Read
    <2>3. QED  BY <1>3, <2>1, <2>2 DEF OKPassword
<1>4. CASE Click /\ ~OKConflicts
           /\ ~\E b \in Exports, k \in Passwords : OKPassword(b, k)
    BY <1>4
       DEF Click, PressPush, PressPull, PullFirst, ForcePush, CancelWarning,
           OKConfirm, CancelDialog, Dismiss, StartWork, CancelWork, Read
<1>5. CASE \/ Close \/ OtherDialog \/ PushElsewhere
           \/ UNCHANGED screenVars
    BY <1>5 DEF Close, OtherDialog, PushElsewhere, screenVars, lists, Read
<1>6. QED  BY <1>1, <1>2, <1>3, <1>4, <1>5 DEF ScreenNext

(* Only the end of an upload takes a goroutine from there. *)
LEMMA PutEnds ==
    ASSUME ScreenInv, NEW f \in Flows, At(f, "put"),
           [ScreenNext]_screenVars, flow'[f] # flow[f]
    PROVE  PutDone(f)
<1>1. \A g \in Flows : \A x :
        Run(g, x) /\ ~At(g, "put") => flow'[f] = flow[f]
    BY DEF ScreenInv, Run, At
<1>2. ASSUME NEW g \in Flows, Goroutine(g)  PROVE PutDone(f)
    <2>1. CASE g = f
        BY <1>2, <2>1
           DEF Goroutine, At, Downloaded,
               Previewed, Applied, Snapshotted, Worked
    <2>2. CASE g # f
        <3>1. \A x : Run(g, x) => flow'[f] = flow[f]
            BY <2>2 DEF ScreenInv, Run
        <3>2. \E x : Run(g, x)
            BY <1>2
               DEF Goroutine, Downloaded, Previewed,
                   Applied, ApplySyncImport, Snapshotted,
                   PutDone, Worked, End
        <3>3. QED  BY <3>1, <3>2
    <2>3. QED  BY <2>1, <2>2
<1>3. \A g \in Flows : Goes(g) => ~At(g, "put")
    BY DEF Goes, At
<1>4. ~Click
    <2>1. SUFFICES ASSUME Click PROVE flow'[f] = flow[f]  OBVIOUS
    <2>2. CASE UNCHANGED flow  BY <2>2
    <2>3. CASE \E g \in Flows : \E x : Goes(g) /\ Run(g, x)
        BY <1>1, <1>3, <2>3
    <2>4. CASE CancelWork
        <3>1. PICK g : g = dialog.flow  OBVIOUS
        <3>2. flow' = IF At(g, "work")
                      THEN [flow EXCEPT ![g].canceled = TRUE] ELSE flow
            BY <2>4, <3>1 DEF CancelWork
        <3>3. CASE g = f  BY <3>2, <3>3 DEF At
        <3>4. CASE g # f  BY <3>2, <3>4 DEF ScreenInv
        <3>5. QED  BY <3>3, <3>4
    <2>5. QED
        BY <2>1, <2>2, <2>3, <2>4
           DEF Click, PressPush, PressPull,
               PullFirst, SyncPull, ForcePush,
               RunSyncPush, CancelWarning, OKConfirm,
               OKConflicts, ApplySyncImport, End,
               OKPassword, CancelDialog, Dismiss,
               StartWork
<1>5. QED
    BY <1>2, <1>4
       DEF ScreenNext, screenVars, Close, EditHosts,
           OtherDialog, PushElsewhere

(* A push that follows a pull keeps every record of the object it pulled, if
   that is still the one it replaces. *)
THEOREM PulledRecordsAreKept == ScreenSpec => PushKeepsWhatWasPulled
<1>1. ASSUME ScreenInv, [ScreenNext]_screenVars, NEW f \in Flows,
             At(f, "put"), flow'[f] # flow[f],
             flow[f].base = remote, remote # Nothing
      PROVE  remote.records \subseteq remote'.records
    <2>1. remote' \in {remote, flow[f].bundle}
        BY <1>1, PutEnds DEF PutDone, Push
    <2>2. remote.records \subseteq flow[f].bundle.records
        BY <1>1 DEF ScreenInv, FlowOK, Within
    <2>3. QED  BY <2>1, <2>2
<1>2. ScreenInv /\ [ScreenNext]_screenVars =>
        [\A f \in Flows :
            At(f, "put") /\ flow'[f] # flow[f] /\ flow[f].base = remote
            /\ remote # Nothing
            => remote.records \subseteq remote'.records]_screenVars
    BY <1>1 DEF Nothing
<1>3. QED
    BY <1>2, ScreenInvariant, PTL DEF ScreenSpec, PushKeepsWhatWasPulled

----------------------------------------------------------------------------
(* What a merge does with a list, one entry after the other.  A proof over all
   entries needs induction, which the library has for operators; here it is for
   a set of numbers, from the fact that the order of the numbers is
   well-founded. *)
LEMMA LeastNumber ==
    ASSUME NEW T \in SUBSET Nat, T # {}
    PROVE  \E k \in T : \A j \in T : ~(j < k)
<1> DEFINE Below == OpToRel(<, Nat)
<1>1. IsWellFoundedOn(Below, Nat)  BY NatLessThanWellFounded, Zenon
<1>2. \A i, j \in Nat : i < j => <<i, j>> \in Below  BY Zenon DEF OpToRel
<1> HIDE DEF Below
<1>3. PICK k \in T : \A j \in T : ~(<<j, k>> \in Below)
    BY <1>1, WFMin
<1>4. QED  BY <1>2, <1>3

LEMMA AllNumbers ==
    ASSUME NEW T \in SUBSET Nat, 0 \in T, \A k \in T : k + 1 \in T
    PROVE  T = Nat
<1> SUFFICES ASSUME T # Nat PROVE FALSE  OBVIOUS
<1>1. PICK k \in Nat \ T : \A j \in Nat \ T : ~(j < k)  BY LeastNumber
<1>2. k # 0 /\ k - 1 \in Nat  BY <1>1
<1>3. k - 1 \in T  BY <1>1, <1>2
<1>4. QED  BY <1>1, <1>2, <1>3

(* FoldLeft as the community modules define it: over the sets of positions,
   the greatest taken last. *)
Folding(list, base, n, g) ==
    g = [s \in SUBSET (1..n) |->
           IF s = {} THEN base
           ELSE MergeOne(g[s \ {Max(s)}], list[Max(s)])]

LEMMA MaxOfPositions ==
    ASSUME NEW n \in Nat, NEW s \in SUBSET (1..n), s # {}
    PROVE  Max(s) \in s /\ \A i \in s : Max(s) >= i
<1> DEFINE T == {d \in Nat : n - d \in s}
<1>1. PICK i \in s : TRUE  OBVIOUS
<1>2. n - i \in T  BY <1>1
<1>3. PICK d \in T : \A e \in T : ~(e < d)  BY <1>2, LeastNumber
<1>4. n - d \in s /\ \A j \in s : n - d >= j
    <2>1. ASSUME NEW j \in s PROVE n - d >= j
        <3>1. n - j \in T  BY <2>1
        <3>2. ~(n - j < d)  BY <1>3, <3>1
        <3>3. QED  BY <1>3, <3>2
    <2>2. QED  BY <1>3, <2>1
<1>5. QED  BY <1>4 DEF Max

LEMMA MaxIs ==
    ASSUME NEW S \in SUBSET Int, NEW m \in S, \A i \in S : m >= i
    PROVE  Max(S) = m
<1>1. PICK x : x = Max(S)  OBVIOUS
<1>2. x \in S /\ \A i \in S : x >= i  BY <1>1 DEF Max
<1>3. x \in Int /\ m \in Int /\ x >= m /\ m >= x  BY <1>2
<1>4. QED  BY <1>1, <1>3

LEMMA FoldExists ==
    ASSUME NEW list, NEW base
    PROVE  \A n \in Nat : \E g : Folding(list, base, n, g)
<1> DEFINE T == {n \in Nat : \E g : Folding(list, base, n, g)}
<1>1. 0 \in T
    <2> DEFINE g == [s \in {{}} |-> base]
    <2>1. SUBSET (1..0) = {{}}  OBVIOUS
    <2>2. g = [s \in SUBSET (1..0) |->
                 IF s = {} THEN base
                 ELSE MergeOne(g[s \ {Max(s)}],
                                      list[Max(s)])]
        BY <2>1
    <2>3. Folding(list, base, 0, g)  BY <2>2 DEF Folding
    <2>4. QED  BY <2>3
<1>2. ASSUME NEW n \in T PROVE n + 1 \in T
    <2>1. PICK g : Folding(list, base, n, g)  OBVIOUS
    <2> DEFINE m == n + 1
               one(x, p) == MergeOne(x, p)
               h == [s \in SUBSET (1..m) |->
                       IF m \in s THEN one(g[s \ {m}], list[m]) ELSE g[s]]
    <2> HIDE DEF one
    <2>2. m \in Nat /\ 1..n \subseteq 1..m /\ m \notin 1..n
          /\ 1..m = (1..n) \cup {m}
        OBVIOUS
    <2>3. ASSUME NEW s \in SUBSET (1..m)
          PROVE  h[s] = IF s = {} THEN base
                        ELSE one(h[s \ {Max(s)}], list[Max(s)])
        <3>1. CASE m \in s
            <4>1. Max(s) = m  BY <2>2, <3>1, MaxIs
            <4>2. h[s \ {m}] = g[s \ {m}]  BY <2>2
            <4>3. QED  BY <3>1, <4>1, <4>2
        <3>2. CASE m \notin s
            <4>1. s \in SUBSET (1..n)  BY <2>2, <3>2
            <4>2. h[s] = g[s]  BY <3>2
            <4>3. CASE s = {}  BY <2>1, <4>1, <4>2, <4>3 DEF Folding
            <4>4. CASE s # {}
                <5>1. PICK k : k = Max(s)  OBVIOUS
                <5>2. m \notin s \ {k} /\ s \ {k} \in SUBSET (1..m)
                    BY <3>2
                <5>3. h[s \ {k}] = g[s \ {k}]  BY <5>2
                <5>4. g[s] = one(g[s \ {k}], list[k])
                    BY <2>1, <4>1, <4>4, <5>1 DEF Folding, one
                <5>5. QED  BY <4>2, <4>4, <5>1, <5>3, <5>4
            <4>5. QED  BY <4>3, <4>4
        <3>3. QED  BY <3>1, <3>2
    <2>4. h = [s \in SUBSET (1..m) |->
                 IF s = {} THEN base
                 ELSE one(h[s \ {Max(s)}], list[Max(s)])]
        <3>1. h = [s \in SUBSET (1..m) |-> h[s]]  OBVIOUS
        <3> HIDE DEF h
        <3>2. QED  BY <2>3, <3>1
    <2>5. Folding(list, base, m, h)  BY <2>4 DEF Folding, one
    <2>6. QED  BY <2>2, <2>5
<1>3. T = Nat
    <2> HIDE DEF T
    <2>1. T \in SUBSET Nat  BY DEF T
    <2>2. QED  BY <1>1, <1>2, <2>1, AllNumbers
<1>4. QED  BY <1>3

----------------------------------------------------------------------------
(* The maps of a merge: an id or a name of the list leads to where it was last
   in it; one that is not in the list leads to what was appended. *)
Host == [id : Ids, name : Names]

Leads(old, key, f) ==
    /\ \A i \in DOMAIN old : old[i][key] \in DOMAIN f
    /\ \A x \in DOMAIN f :
         LET s == Positions(old, key, x)
         IN IF s # {} THEN f[x] = Max(s)
            ELSE f[x] \in Nat /\ f[x] > Len(old)

(* The state of a merge of list into old. *)
Merging(old, list, m) ==
    /\ m = [out |-> m.out, byID |-> m.byID, byName |-> m.byName]
    /\ m.out \in Seq(Host) /\ Len(m.out) >= Len(old)
    /\ Leads(old, "id", m.byID) /\ Leads(old, "name", m.byName)
    /\ \A i \in DOMAIN old :
         m.out[i] = old[i] \/ old[i] \in Conflicts(old, list)

LEMMA LastOf ==
    ASSUME NEW old \in Seq(Host), NEW key, NEW x,
           Positions(old, key, x) # {}
    PROVE  /\ Max(Positions(old, key, x)) \in DOMAIN old
           /\ Max(Positions(old, key, x)) \in
                Positions(old, key, x)
<1> DEFINE s == Positions(old, key, x)
<1>1. Len(old) \in Nat /\ DOMAIN old = 1..Len(old)  BY LenProperties
<1>2. s \in SUBSET (1..Len(old))  BY <1>1 DEF Positions
<1> HIDE DEF s
<1>3. Max(s) \in s  BY <1>1, <1>2, MaxOfPositions DEF s
<1>4. QED  BY <1>1, <1>2, <1>3 DEF s

LEMMA IndexLeads ==
    ASSUME NEW old \in Seq(Host), NEW key, NEW f,
           f = [x \in {h[key] : h \in ToSet(old)} |->
                  Max(Positions(old, key, x))]
    PROVE  Leads(old, key, f)
<1>1. \A i \in DOMAIN old : old[i] \in ToSet(old)  BY DEF ToSet
<1>2. \A i \in DOMAIN old : old[i][key] \in DOMAIN f  BY <1>1
<1>3. ASSUME NEW x \in DOMAIN f
      PROVE  /\ Positions(old, key, x) # {}
             /\ f[x] = Max(Positions(old, key, x))
    BY <1>3 DEF ToSet, Positions
<1>4. QED  BY <1>2, <1>3 DEF Leads

LEMMA AssignedLeads ==
    ASSUME NEW old \in Seq(Host), NEW key, NEW f, Leads(old, key, f),
           NEW x, x \notin DOMAIN f, NEW n \in Nat, n > Len(old)
    PROVE  Leads(old, key, Assigned(f, x, n))
<1> DEFINE g == Assigned(f, x, n)
<1>1. /\ DOMAIN g = DOMAIN f \cup {x} /\ g[x] = n
      /\ \A y \in DOMAIN f : g[y] = f[y]
    BY DEF Assigned
<1> HIDE DEF g
<1>2. Positions(old, key, x) = {}
    BY DEF Leads, Positions
<1>3. ASSUME NEW y \in DOMAIN g
      PROVE  LET s == Positions(old, key, y)
             IN IF s # {} THEN g[y] = Max(s)
                ELSE g[y] \in Nat /\ g[y] > Len(old)
    <2>1. CASE y = x  BY <1>1, <1>2, <2>1
    <2>2. CASE y # x  BY <1>1, <2>2 DEF Leads
    <2>3. QED  BY <2>1, <2>2
<1>4. \A i \in DOMAIN old : old[i][key] \in DOMAIN g  BY <1>1 DEF Leads
<1>5. Leads(old, key, g)  BY <1>3, <1>4 DEF Leads
<1>6. QED  BY <1>5 DEF g

LEMMA MergeBegins ==
    ASSUME NEW old \in Seq(Host), NEW list
    PROVE  Merging(old, list, Indexed(old))
<1> DEFINE m == Indexed(old)
<1>1. /\ m = [out |-> m.out, byID |-> m.byID, byName |-> m.byName]
      /\ m.out = old
    BY DEF Indexed
<1>2. m.byID = [x \in {h["id"] : h \in ToSet(old)} |->
                  Max(Positions(old, "id", x))]
    BY DEF Indexed
<1>3. m.byName = [x \in {h["name"] : h \in ToSet(old)} |->
                  Max(Positions(old, "name", x))]
    BY DEF Indexed
<1> HIDE DEF m
<1>4. Leads(old, "id", m.byID) /\ Leads(old, "name", m.byName)
    BY <1>2, <1>3, IndexLeads
<1>5. Len(old) \in Nat  BY LenProperties
<1>6. Merging(old, list, m)  BY <1>1, <1>4, <1>5 DEF Merging
<1>7. QED  BY <1>6 DEF m

(* An entry of the list is replaced only by an imported one that the user is
   told of. *)
LEMMA Told ==
    ASSUME NEW old, NEW list, NEW p \in ToSet(list),
           Entry(old, p) # {}
    PROVE  old[Max(Entry(old, p))] \in Conflicts(old, list)
BY DEF Conflicts

LEMMA ReplaceOne ==
    ASSUME NEW old \in Seq(Host), NEW list, NEW m, Merging(old, list, m),
           NEW p \in Host, NEW k,
           k \in DOMAIN old => old[k] \in Conflicts(old, list)
    PROVE  Merging(old, list, [m EXCEPT !.out[k] = p])
<1> DEFINE n == [m EXCEPT !.out[k] = p]
<1>1. /\ n = [out |-> n.out, byID |-> n.byID, byName |-> n.byName]
      /\ n.out = [m.out EXCEPT ![k] = p]
      /\ n.byID = m.byID /\ n.byName = m.byName
    <2>1. PICK o, i, a : m = [out |-> o, byID |-> i, byName |-> a]
        BY DEF Merging
    <2>2. n = [out |-> [o EXCEPT ![k] = p], byID |-> i, byName |-> a]  BY <2>1
    <2>3. QED  BY <2>1, <2>2
<1> HIDE DEF n
<1>2. m.out \in Seq(Host) /\ Len(old) \in Nat /\ Len(m.out) \in Nat
      /\ DOMAIN old = 1..Len(old) /\ DOMAIN m.out = 1..Len(m.out)
    BY LenProperties DEF Merging
<1>3. n.out \in Seq(Host) /\ Len(n.out) = Len(m.out)
    <2>1. CASE k \in 1..Len(m.out)  BY <1>1, <1>2, <2>1, ExceptSeq
    <2>2. CASE k \notin 1..Len(m.out)
        <3>1. n.out = m.out  BY <1>1, <1>2, <2>2
        <3>2. QED  BY <1>2, <3>1
    <2>3. QED  BY <2>1, <2>2
<1>4. ASSUME NEW i \in DOMAIN old
      PROVE  n.out[i] = old[i] \/ old[i] \in Conflicts(old, list)
    <2>1. CASE i = k  BY <2>1
    <2>2. CASE i # k
        <3>1. i \in DOMAIN m.out  BY <1>2 DEF Merging
        <3>2. n.out[i] = m.out[i]  BY <1>1, <2>2, <3>1
        <3>3. QED  BY <3>2 DEF Merging
    <2>3. QED  BY <2>1, <2>2
<1>5. Merging(old, list, n)  BY <1>1, <1>3, <1>4 DEF Merging
<1>6. QED  BY <1>5 DEF n

LEMMA AppendOne ==
    ASSUME NEW old \in Seq(Host), NEW list, NEW m, Merging(old, list, m),
           NEW p \in Host, p.id \notin DOMAIN m.byID,
           p.name \notin DOMAIN m.byName
    PROVE  Merging(old, list, Appended(m, p))
<1> DEFINE n == Appended(m, p)
<1>1. m.out \in Seq(Host) /\ Len(old) \in Nat /\ Len(m.out) \in Nat
      /\ DOMAIN old = 1..Len(old) /\ DOMAIN m.out = 1..Len(m.out)
    BY LenProperties DEF Merging
<1>2. PICK c : c = Len(m.out) + 1  OBVIOUS
<1>3. c \in Nat /\ c > Len(old)  BY <1>1, <1>2 DEF Merging
<1>4. /\ n = [out |-> n.out, byID |-> n.byID, byName |-> n.byName]
      /\ n.out = Append(m.out, p)
      /\ n.byID = Assigned(m.byID, p.id, c)
      /\ n.byName = Assigned(m.byName, p.name, c)
    BY <1>2 DEF Appended
<1> HIDE DEF n
<1>5. Leads(old, "id", n.byID)
    BY <1>3, <1>4, AssignedLeads DEF Merging
<1>6. Leads(old, "name", n.byName)
    BY <1>3, <1>4, AssignedLeads DEF Merging
<1>7. /\ n.out \in Seq(Host) /\ Len(n.out) = c
      /\ \A i \in DOMAIN m.out : n.out[i] = m.out[i]
    BY <1>1, <1>2, <1>4, AppendProperties
<1>8. \A i \in DOMAIN old :
        n.out[i] = old[i] \/ old[i] \in Conflicts(old, list)
    <2>1. DOMAIN old \subseteq DOMAIN m.out  BY <1>1 DEF Merging
    <2>2. QED  BY <1>7, <2>1 DEF Merging
<1>9. Len(n.out) >= Len(old)  BY <1>1, <1>3, <1>7
<1>10. Merging(old, list, n)
    BY <1>4, <1>5, <1>6, <1>7, <1>8, <1>9 DEF Merging
<1>11. QED  BY <1>10 DEF n

LEMMA MergeGoesOn ==
    ASSUME NEW old \in Seq(Host), NEW list, NEW m, Merging(old, list, m),
           NEW p \in Host, p \in ToSet(list)
    PROVE  Merging(old, list, MergeOne(m, p))
<1>1. Len(old) \in Nat /\ DOMAIN old = 1..Len(old)  BY LenProperties
<1>2. CASE p.id \in DOMAIN m.byID
    <2>1. PICK k : k = m.byID[p.id]  OBVIOUS
    <2>2. MergeOne(m, p) = [m EXCEPT !.out[k] = p]
        BY <1>2, <2>1 DEF MergeOne
    <2>3. ASSUME k \in DOMAIN old
          PROVE  old[k] \in Conflicts(old, list)
        <3>1. Positions(old, "id", p.id) # {}
            BY <1>1, <1>2, <2>1, <2>3 DEF Merging, Leads
        <3>2. k = Max(Positions(old, "id", p.id))
            BY <1>2, <2>1, <3>1 DEF Merging, Leads
        <3>3. Entry(old, p) = Positions(old, "id", p.id)
            BY <3>1 DEF Entry
        <3>4. QED  BY <3>1, <3>2, <3>3, Told
    <2>4. k \in DOMAIN old => old[k] \in Conflicts(old, list)
        BY <2>3
    <2>5. Merging(old, list, [m EXCEPT !.out[k] = p])  BY <2>4, ReplaceOne
    <2>6. QED  BY <2>2, <2>5
<1>3. CASE p.id \notin DOMAIN m.byID /\ p.name \in DOMAIN m.byName
    <2>1. PICK k : k = m.byName[p.name]  OBVIOUS
    <2>2. MergeOne(m, p) = [m EXCEPT !.out[k] = p]
        BY <1>3, <2>1 DEF MergeOne
    <2>3. ASSUME k \in DOMAIN old
          PROVE  old[k] \in Conflicts(old, list)
        <3>1. Positions(old, "id", p.id) = {}
            BY <1>3 DEF Merging, Leads, Positions
        <3>2. Positions(old, "name", p.name) # {}
            BY <1>1, <1>3, <2>1, <2>3 DEF Merging, Leads
        <3>3. k = Max(Positions(old, "name", p.name))
            BY <1>3, <2>1, <3>2 DEF Merging, Leads
        <3>4. Entry(old, p) = Positions(old, "name", p.name)
            BY <3>1 DEF Entry
        <3>5. QED  BY <3>2, <3>3, <3>4, Told
    <2>4. k \in DOMAIN old => old[k] \in Conflicts(old, list)
        BY <2>3
    <2>5. Merging(old, list, [m EXCEPT !.out[k] = p])  BY <2>4, ReplaceOne
    <2>6. QED  BY <2>2, <2>5
<1>4. CASE p.id \notin DOMAIN m.byID /\ p.name \notin DOMAIN m.byName
    <2>1. MergeOne(m, p) = Appended(m, p)
        BY <1>4 DEF MergeOne
    <2>2. QED  BY <1>4, <2>1, AppendOne
<1>5. QED  BY <1>2, <1>3, <1>4

LEMMA FoldMerges ==
    ASSUME NEW old \in Seq(Host), NEW list \in Seq(Host), NEW g,
           Folding(list, Indexed(old), Len(list), g)
    PROVE  Merging(old, list, g[1..Len(list)])
<1> DEFINE T == {n \in Nat : n <= Len(list) => Merging(old, list, g[1..n])}
<1>1. Len(list) \in Nat /\ DOMAIN list = 1..Len(list)  BY LenProperties
<1>2. 0 \in T
    <2>1. 1..0 = {}  OBVIOUS
    <2>2. g[{}] = Indexed(old)  BY DEF Folding
    <2>3. Merging(old, list, g[1..0])  BY <2>1, <2>2, MergeBegins
    <2>4. QED  BY <2>3
<1>3. ASSUME NEW n \in T PROVE n + 1 \in T
    <2>1. SUFFICES ASSUME n + 1 <= Len(list)
                   PROVE  Merging(old, list, g[1..(n + 1)])
        OBVIOUS
    <2>2. n \in Nat /\ Merging(old, list, g[1..n])  BY <1>1, <2>1
    <2>3. PICK s : s = 1..(n + 1)  OBVIOUS
    <2>4. /\ s \in SUBSET (1..Len(list)) /\ s \in SUBSET Int
          /\ n + 1 \in s /\ s # {} /\ s \ {n + 1} = 1..n
          /\ n + 1 \in DOMAIN list /\ \A i \in s : n + 1 >= i
        <3> HIDE DEF T
        <3>1. n \in Nat /\ Len(list) \in Nat /\ n + 1 <= Len(list)
            BY <1>1, <2>1, <2>2
        <3>2. \A i \in s : i \in Int /\ 1 <= i /\ i <= n + 1
            BY <2>3, <3>1
        <3>3. s \ {n + 1} = 1..n  BY <2>3, <3>1
        <3>4. n + 1 \in s  BY <2>3, <3>1
        <3>5. QED  BY <1>1, <3>1, <3>2, <3>3, <3>4
    <2>5. Max(s) = n + 1  BY <2>4, MaxIs
    <2>6. g[s] = MergeOne(g[1..n], list[n + 1])
        BY <2>4, <2>5 DEF Folding
    <2>7. list[n + 1] \in Host  BY <2>4, ElementOfSeq
    <2>8. list[n + 1] \in ToSet(list)  BY <2>4 DEF ToSet
    <2>9. Merging(old, list, MergeOne(g[1..n], list[n + 1]))
        BY <2>2, <2>7, <2>8, MergeGoesOn
    <2>10. QED  BY <2>3, <2>6, <2>9
<1>4. T = Nat
    <2> HIDE DEF T
    <2>1. T \in SUBSET Nat  BY DEF T
    <2>2. QED  BY <1>2, <1>3, <2>1, AllNumbers
<1>5. QED  BY <1>1, <1>4

(* A merge of any list into any list replaces no entry but those the user is
   told of. *)
THEOREM MergeReplacesWhatIsListed ==
    ASSUME NEW old \in Seq(Host), NEW list \in Seq(Host)
    PROVE  /\ MergeProfiles(old, list) \in Seq(Host)
           /\ ToSet(old) \ ToSet(MergeProfiles(old, list))
                \subseteq Conflicts(old, list)
<1>1. Len(list) \in Nat /\ DOMAIN list = 1..Len(list)
      /\ Len(old) \in Nat /\ DOMAIN old = 1..Len(old)
    BY LenProperties
<1> DEFINE n == Len(list)
           g == CHOOSE f : Folding(list, Indexed(old), n, f)
<1>2. Folding(list, Indexed(old), n, g)  BY <1>1, FoldExists
<1>3. MergeProfiles(old, list) = g[1..n].out
    BY <1>1 DEF MergeProfiles, FoldLeft, MapThenFoldSet,
                Folding
<1>4. Merging(old, list, g[1..n])  BY <1>2, FoldMerges
<1> HIDE DEF g
<1>5. PICK out : out = g[1..n].out  OBVIOUS
<1>6. /\ out \in Seq(Host) /\ Len(out) >= Len(old)
      /\ \A i \in DOMAIN old :
           out[i] = old[i] \/ old[i] \in Conflicts(old, list)
    BY <1>4, <1>5 DEF Merging
<1>7. DOMAIN old \subseteq DOMAIN out
    <2>1. Len(out) \in Nat /\ DOMAIN out = 1..Len(out)  BY <1>6, LenProperties
    <2>2. QED  BY <1>1, <1>6, <2>1
<1>8. ToSet(old) \ ToSet(out) \subseteq Conflicts(old, list)
    BY <1>6, <1>7 DEF ToSet
<1>9. QED  BY <1>3, <1>5, <1>6, <1>8

----------------------------------------------------------------------------
(* The types of SyncScreen, with what the merges rely on: every bundle on its
   way has a list of hosts, and one that is merged without a question replaces
   nothing of the list it was compared with. *)
Stages == {"idle", "download", "preview", "apply", "snapshot", "put", "work"}

FlowTyped(r) ==
    /\ r.at \in Stages
    /\ r.at \in {"preview", "apply"} => r.bundle.hosts \in Seq(Host)
    /\ r.at = "apply" => Conflicts(r.seen, r.bundle.hosts) = {}
    /\ r.at = "put" => /\ r.bundle.hosts \in Seq(Host)
                       /\ r.bundle.format = "app"

DialogTyped(d) ==
    /\ d.kind \in Dialogs
    /\ d.kind \in {"confirm", "conflicts"} => d.bundle.hosts \in Seq(Host)

ObjectTyped(b) ==
    b = Nothing \/ (b.format = "app" /\ b.hosts \in Seq(Host))

TypeInv ==
    /\ hosts \in Seq(Host)
    /\ DialogTyped(dialog)
    /\ closing \in BOOLEAN /\ pending \in BOOLEAN
    /\ ObjectTyped(remote)
    /\ \A f \in Flows : FlowTyped(flow[f])
    /\ asides \in 0..MaxAsides

LEMMA TypeInit == ScreenInit => TypeInv
<1> SUFFICES ASSUME ScreenInit PROVE TypeInv  OBVIOUS
<1>1. hosts \in Seq(Host)  BY StartAssumption DEF ScreenInit, Host
<1>2. DialogTyped(dialog)
    BY DEF DialogTyped, ScreenInit, NoDialog, Dialogs
<1>3. \A f \in Flows : FlowTyped(flow[f])
    BY DEF ScreenInit, Idle, FlowTyped, Stages
<1>4. asides \in 0..MaxAsides  BY BoundsAssumption DEF ScreenInit
<1>5. QED
    BY <1>1, <1>2, <1>3, <1>4 DEF ScreenInit, TypeInv, ObjectTyped, Nothing

(* What a goroutine is set to. *)
LEMMA RunTyped ==
    ASSUME ScreenInv, TypeInv, NEW f \in Flows, NEW x, Run(f, x),
           FlowTyped(x)
    PROVE  \A g \in Flows : FlowTyped(flow[g])'
<1>1. flow' = [flow EXCEPT ![f] = x]  BY DEF Run
<1>2. \A g \in Flows : flow'[g] = IF g = f THEN x ELSE flow[g]
    BY <1>1 DEF ScreenInv
<1>3. \A g \in Flows : FlowTyped(flow'[g])  BY <1>2 DEF TypeInv
<1>4. QED  BY <1>3

(* Which dialogs there are. *)
LEMMA PlainTyped ==
    /\ DialogTyped(NoDialog) /\ DialogTyped(Loading)
    /\ DialogTyped(Notice) /\ DialogTyped(Warning)
    /\ \A b, k : DialogTyped(Password(b, k))
    /\ \A b : DialogTyped(FileConflicts(b))
    /\ \A f : DialogTyped(Cancelable(f))
BY DEF DialogTyped, Dialogs, NoDialog, Loading,
       Notice, Warning, Password, FileConflicts,
       Cancelable

LEMMA QuestionsTyped ==
    ASSUME NEW b, b.hosts \in Seq(Host)
    PROVE  /\ DialogTyped(Confirm(b))
           /\ \A l : DialogTyped(SyncConflicts(b, l))
BY DEF DialogTyped, Dialogs, Confirm, SyncConflicts

LEMMA StagesTyped ==
    /\ FlowTyped(Idle) /\ FlowTyped(Download)
    /\ FlowTyped(Work) /\ \A b : FlowTyped(Snapshot(b))
    /\ \A b : b.hosts \in Seq(Host) => FlowTyped(Preview(b))
    /\ \A b, l : b.hosts \in Seq(Host) /\ Conflicts(l, b.hosts) = {}
                 => FlowTyped(Apply(b, l))
    /\ \A a, b : b.hosts \in Seq(Host) /\ b.format = "app"
                 => FlowTyped(Put(a, b))
BY DEF FlowTyped, Stages, Idle, Download, Work,
       Snapshot, Preview, Apply, Put

----------------------------------------------------------------------------
(* The list of hosts: an edit, a merge, or nothing. *)
LEMMA EditTyped ==
    ASSUME TypeInv, EditHosts
    PROVE  hosts' \in Seq(Host) /\ asides' # asides /\ asides' \in 0..MaxAsides
<1>1. asides' # asides /\ asides' \in 0..MaxAsides
    BY BoundsAssumption DEF TypeInv, EditHosts, Aside
<1>2. hosts \in Seq(Host) /\ Len(hosts) \in Nat /\ DOMAIN hosts = 1..Len(hosts)
    BY LenProperties DEF TypeInv
<1>3. ASSUME NEW h \in Host, hosts' = Append(hosts, h)
      PROVE  hosts' \in Seq(Host)
    BY <1>2, <1>3, AppendProperties
<1>4. ASSUME NEW i \in DOMAIN hosts, hosts' = RemoveAt(hosts, i)
      PROVE  hosts' \in Seq(Host)
    <2>1. i \in Int /\ 1 <= i /\ i <= Len(hosts)  BY <1>2
    <2>2. \A j \in 1..(i - 1) : hosts[j] \in Host  BY <1>2, <2>1, ElementOfSeq
    <2>3. \A j \in (i + 1)..Len(hosts) : hosts[j] \in Host
        BY <1>2, <2>1, ElementOfSeq
    <2>4. SubSeq(hosts, 1, i - 1) \in Seq(Host)
        BY <2>1, <2>2, SubSeqProperties
    <2>5. SubSeq(hosts, i + 1, Len(hosts)) \in Seq(Host)
        BY <1>2, <2>1, <2>3, SubSeqProperties
    <2>6. QED  BY <1>4, <2>4, <2>5, ConcatProperties DEF RemoveAt
<1>5. ASSUME NEW i \in DOMAIN hosts, NEW n \in Names,
             hosts' = [hosts EXCEPT ![i].name = n]
      PROVE  hosts' \in Seq(Host)
    <2>1. i \in 1..Len(hosts) /\ hosts[i] \in Host  BY <1>2, ElementOfSeq
    <2>2. PICK h : h = [hosts[i] EXCEPT !.name = n]  OBVIOUS
    <2>3. h \in Host  BY <2>1, <2>2 DEF Host
    <2>4. hosts' = [hosts EXCEPT ![i] = h]  BY <1>5, <2>2
    <2>5. QED  BY <1>2, <2>1, <2>3, <2>4, ExceptSeq
<1>6. QED  BY <1>1, <1>3, <1>4, <1>5 DEF EditHosts, Host

(* What a step that is not an edit may do with the list. *)
Merges(b) == hosts' = MergeProfiles(hosts, b.hosts)
Allowed ==
    \/ hosts' = hosts
    \/ \E f \in Flows : At(f, "apply") /\ Merges(flow[f].bundle)
    \/ dialog.kind = "conflicts" /\ Merges(dialog.bundle)
    \/ \E b \in Exports :
          Conflicts(hosts, b.hosts) = {} /\ Merges(b)

LEMMA StepAllowed ==
    ASSUME [ScreenNext]_screenVars, ~EditHosts  PROVE Allowed
<1>1. ASSUME NEW f \in Flows, Goroutine(f)  PROVE Allowed
    <2>1. CASE Applied(f)
        BY <2>1 DEF Applied, ApplySyncImport, Merge,
                    Allowed, Merges
    <2>2. CASE ~Applied(f)
        BY <1>1, <2>2
           DEF Goroutine, Downloaded, Previewed,
               Snapshotted, PutDone, Worked, lists,
               Allowed
    <2>3. QED  BY <2>1, <2>2
<1>2. CASE OKConflicts
    BY <1>2 DEF OKConflicts, Shown, ApplySyncImport,
                Merge, Allowed, Merges
<1>3. ASSUME NEW b \in Exports, NEW k, OKPassword(b, k)
      PROVE  Allowed
    BY <1>3 DEF OKPassword, Merge, lists, Allowed, Merges
<1>4. CASE Click /\ ~OKConflicts
           /\ ~\E b \in Exports, k \in Passwords :
                  OKPassword(b, k)
    <2>1. hosts' = hosts
        BY <1>4
           DEF Click, PressPush, PressPull,
               PullFirst, ForcePush, CancelWarning,
               OKConfirm, CancelDialog, Dismiss,
               StartWork, CancelWork, lists
    <2>2. QED  BY <2>1 DEF Allowed
<1>5. CASE \/ Close \/ OtherDialog \/ PushElsewhere
           \/ UNCHANGED screenVars
    BY <1>5 DEF Close, OtherDialog, PushElsewhere,
                screenVars, lists, Allowed
<1>6. QED  BY <1>1, <1>2, <1>3, <1>4, <1>5 DEF ScreenNext

LEMMA MergeTyped ==
    ASSUME TypeInv, NEW b, b.hosts \in Seq(Host), Merges(b)
    PROVE  /\ hosts' \in Seq(Host)
           /\ ToSet(hosts) \ ToSet(hosts')
                \subseteq Conflicts(hosts, b.hosts)
<1>1. hosts \in Seq(Host)  BY DEF TypeInv
<1>2. PICK l : l = b.hosts  OBVIOUS
<1>3. l \in Seq(Host)  BY <1>2
<1>4. /\ MergeProfiles(hosts, l) \in Seq(Host)
      /\ ToSet(hosts) \ ToSet(MergeProfiles(hosts, l))
           \subseteq Conflicts(hosts, l)
    BY <1>1, <1>3, MergeReplacesWhatIsListed
<1>5. QED  BY <1>2, <1>4 DEF Merges

(* The list has the conflicts of the bundle; if it is the list the bundle was
   compared with, these are the ones the user was told of. *)
LEMMA HostsStep ==
    ASSUME TypeInv, [ScreenNext]_screenVars
    PROVE  /\ hosts' \in Seq(Host)
           /\ asides' = asides =>
                \/ ToSet(hosts) \ ToSet(hosts')
                     \subseteq ListedConflicts
                \/ ListIsOld
<1>1. CASE EditHosts  BY <1>1, EditTyped
<1>2. CASE ~EditHosts
    <2>1. Allowed  BY <1>2, StepAllowed
    <2>2. CASE hosts' = hosts  BY <2>2 DEF TypeInv
    <2>3. ASSUME NEW f \in Flows, At(f, "apply"),
                 Merges(flow[f].bundle)
          PROVE  /\ hosts' \in Seq(Host)
                 /\ \/ ToSet(hosts) \ ToSet(hosts')
                         \subseteq ListedConflicts
                    \/ ListIsOld
        <3>1. flow[f].bundle.hosts \in Seq(Host)
            BY <2>3 DEF TypeInv, FlowTyped, At
        <3>2. Conflicts(flow[f].seen, flow[f].bundle.hosts) = {}
            BY <2>3 DEF TypeInv, FlowTyped, At
        <3>3. /\ hosts' \in Seq(Host)
              /\ ToSet(hosts) \ ToSet(hosts')
                   \subseteq Conflicts(hosts, flow[f].bundle.hosts)
            BY <2>3, <3>1, MergeTyped
        <3>4. CASE flow[f].seen # hosts
            BY <2>3, <3>3, <3>4 DEF ListIsOld
        <3>5. CASE flow[f].seen = hosts  BY <3>2, <3>3, <3>5
        <3>6. QED  BY <3>4, <3>5
    <2>4. CASE dialog.kind = "conflicts" /\ Merges(dialog.bundle)
        <3>1. dialog.bundle.hosts \in Seq(Host)
            BY <2>4 DEF TypeInv, DialogTyped
        <3>2. /\ hosts' \in Seq(Host)
              /\ ToSet(hosts) \ ToSet(hosts')
                   \subseteq Conflicts(hosts, dialog.bundle.hosts)
            BY <2>4, <3>1, MergeTyped
        <3>3. CASE dialog.seen # hosts  BY <2>4, <3>2, <3>3 DEF ListIsOld
        <3>4. CASE dialog.seen = hosts
            BY <2>4, <3>2, <3>4 DEF ListedConflicts
        <3>5. QED  BY <3>3, <3>4
    <2>5. ASSUME NEW b \in Exports, Conflicts(hosts, b.hosts) = {},
                 Merges(b)
          PROVE  /\ hosts' \in Seq(Host)
                 /\ ToSet(hosts) \ ToSet(hosts') = {}
        <3>1. b.hosts \in Seq(Host)  BY BundlesAssumption DEF Host
        <3>2. QED  BY <2>5, <3>1, MergeTyped
    <2>6. QED  BY <2>1, <2>2, <2>3, <2>4, <2>5 DEF Allowed
<1>3. QED  BY <1>1, <1>2

(* The other variables. *)
LEMMA GoroutineTyped ==
    ASSUME ScreenInv, TypeInv, NEW f \in Flows, Goroutine(f),
           hosts \in Seq(Host)
    PROVE  /\ DialogTyped(dialog)' /\ closing' \in BOOLEAN
           /\ pending' \in BOOLEAN /\ ObjectTyped(remote)'
           /\ \A g \in Flows : FlowTyped(flow[g])'
           /\ asides' = asides
<1>0. FlowTyped(flow[f])  BY DEF TypeInv
<1>1. CASE Downloaded(f)
    <2>1. /\ UNCHANGED <<closing, remote, asides>> /\ pending' \in BOOLEAN
          /\ Run(f, Idle)
        BY <1>1 DEF Downloaded, Ask, End, TypeInv
    <2>2. PICK got \in {remote, Nothing} :
              IF got = Nothing
              THEN dialog' = Notice ELSE dialog' = Confirm(got)
        BY <1>1 DEF Downloaded, Pull, Show, Nothing
    <2>3. got # Nothing => got.hosts \in Seq(Host)
        BY <2>2 DEF TypeInv, ObjectTyped
    <2>4. DialogTyped(dialog')  BY <2>2, <2>3, PlainTyped, QuestionsTyped
    <2>5. QED
        BY <2>1, <2>4, StagesTyped, RunTyped DEF TypeInv
<1>2. CASE Previewed(f)
    <2>1. PICK b : b = flow[f].bundle  OBVIOUS
    <2>2. b.hosts \in Seq(Host)
        BY <1>0, <1>2, <2>1 DEF Previewed, At, FlowTyped
    <2>3. UNCHANGED <<closing, remote, asides>> /\ pending' \in BOOLEAN
        BY <1>2 DEF Previewed, Ask, TypeInv
    <2>4. \/ dialog' = Notice /\ Run(f, Idle)
          \/ /\ Conflicts(hosts, b.hosts) = {}
             /\ dialog' = NoDialog
             /\ Run(f, Apply(b, hosts))
          \/ /\ dialog' = SyncConflicts(b, hosts)
             /\ Run(f, Idle)
        BY <1>2, <2>1 DEF Previewed, Show, End
    <2>5. DialogTyped(dialog')  BY <2>2, <2>4, PlainTyped, QuestionsTyped
    <2>6. \E x : Run(f, x) /\ FlowTyped(x)
        BY <2>2, <2>4, StagesTyped
    <2>7. QED  BY <2>3, <2>5, <2>6, RunTyped DEF TypeInv
<1>3. CASE Applied(f)
    <2>1. /\ UNCHANGED <<closing, remote, asides>> /\ pending' = FALSE
          /\ \/ dialog' = Notice /\ Run(f, Idle)
             \/ /\ dialog' = Loading
                /\ Run(f, Snapshot(flow[f].bundle))
        BY <1>3 DEF Applied, ApplySyncImport, Ask,
                    Show, End
    <2>2. DialogTyped(dialog')  BY <2>1, PlainTyped
    <2>3. \E x : Run(f, x) /\ FlowTyped(x)  BY <2>1, StagesTyped
    <2>4. QED  BY <2>1, <2>2, <2>3, RunTyped DEF TypeInv
<1>4. CASE Snapshotted(f)
    <2>1. PICK b : b = Bundle(Key, hosts, records)  OBVIOUS
    <2>2. b.hosts \in Seq(Host) /\ b.format = "app"
        BY <2>1 DEF Bundle, AppPayload
    <2>3. /\ UNCHANGED <<dialog, closing, pending, remote, asides>>
          /\ Run(f, Put(flow[f].base, b))
        BY <1>4, <2>1 DEF Snapshotted
    <2>4. FlowTyped(Put(flow[f].base, b))  BY <2>2, StagesTyped
    <2>5. QED  BY <2>3, <2>4, RunTyped DEF TypeInv
<1>5. CASE PutDone(f)
    <2>1. /\ UNCHANGED <<closing, pending, asides>>
          /\ dialog' = Notice /\ Run(f, Idle)
          /\ remote' \in {remote, flow[f].bundle}
        BY <1>5 DEF PutDone, Push, Show, End
    <2>2. ObjectTyped(flow[f].bundle)
        BY <1>0, <1>5 DEF PutDone, At, FlowTyped, ObjectTyped
    <2>3. ObjectTyped(remote')  BY <2>1, <2>2 DEF TypeInv
    <2>4. DialogTyped(dialog')  BY <2>1, PlainTyped
    <2>5. QED  BY <2>1, <2>3, <2>4, StagesTyped, RunTyped DEF TypeInv
<1>6. CASE Worked(f)
    <2>1. /\ UNCHANGED <<closing, pending, remote, asides>>
          /\ dialog' \in {Notice, NoDialog, dialog}
          /\ Run(f, Idle)
        BY <1>6 DEF Worked, Show, End
    <2>2. DialogTyped(dialog')  BY <2>1, PlainTyped DEF TypeInv
    <2>3. QED  BY <2>1, <2>2, StagesTyped, RunTyped DEF TypeInv
<1>7. QED
    BY <1>1, <1>2, <1>3, <1>4, <1>5, <1>6 DEF Goroutine

LEMMA StayTyped ==
    ASSUME TypeInv, UNCHANGED flow  PROVE \A g \in Flows : FlowTyped(flow[g])'
BY DEF TypeInv

LEMMA CancelTyped ==
    ASSUME ScreenInv, TypeInv, CancelWork
    PROVE  \A g \in Flows : FlowTyped(flow[g])'
<1>1. PICK f : f = dialog.flow  OBVIOUS
<1>2. CASE flow' = flow  BY <1>2, StayTyped
<1>3. CASE /\ At(f, "work") /\ f \in Flows
           /\ flow' = [flow EXCEPT ![f].canceled = TRUE]
    <2>1. PICK x : x = [flow[f] EXCEPT !.canceled = TRUE]  OBVIOUS
    <2>2. flow[f] \in [at : {"work"}, canceled : BOOLEAN]
        BY <1>3 DEF ScreenInv, FlowOK
    <2>3. x.at = "work"  BY <2>1, <2>2
    <2>4. FlowTyped(x)  BY <2>3 DEF FlowTyped, Stages
    <2>5. Run(f, x)  BY <1>3, <2>1 DEF Run
    <2>6. QED  BY <1>3, <2>4, <2>5, RunTyped
<1>4. CASE f \notin Flows /\ flow' = [flow EXCEPT ![f].canceled = TRUE]
    <2>1. flow' = flow  BY <1>4 DEF ScreenInv
    <2>2. QED  BY <1>2, <2>1
<1>5. QED  BY <1>1, <1>2, <1>3, <1>4 DEF CancelWork

(* What a click sets and starts. *)
Started ==
    \/ flow' = flow
    \/ CancelWork
    \/ \E f \in Flows : \E x : Run(f, x) /\ FlowTyped(x)

LEMMA PullStarts ==
    ASSUME TypeInv, NEW asked \in BOOLEAN, SyncPull(asked)
    PROVE  DialogTyped(dialog') /\ pending' \in BOOLEAN /\ Started
BY PlainTyped, StagesTyped
   DEF SyncPull, Show, Ask, Started

LEMMA ApplyStarts ==
    ASSUME NEW f \in Flows, NEW b, ApplySyncImport(b, f)
    PROVE  DialogTyped(dialog') /\ pending' \in BOOLEAN /\ Started
<1>1. pending' = FALSE  BY DEF ApplySyncImport, Ask
<1>2. \/ dialog' = Notice /\ Run(f, Idle)
      \/ dialog' = Loading /\ Run(f, Snapshot(b))
    BY DEF ApplySyncImport, Show, End
<1>3. DialogTyped(dialog')  BY <1>2, PlainTyped
<1>4. Started  BY <1>2, StagesTyped DEF Started
<1>5. QED  BY <1>1, <1>3, <1>4

LEMMA ClickTyped ==
    ASSUME TypeInv, Click
    PROVE  /\ DialogTyped(dialog') /\ closing' \in BOOLEAN
           /\ pending' \in BOOLEAN /\ Started
           /\ remote' = remote /\ asides' = asides
<1>1. CASE PressPush \/ CancelWarning \/ CancelDialog
           \/ Dismiss
    <2>1. dialog' \in {Warning, Notice, NoDialog}
        BY <1>1 DEF PressPush, CancelWarning,
                    CancelDialog, Dismiss, Show
    <2>2. /\ UNCHANGED <<closing, remote, flow, asides>>
          /\ pending' \in {pending, FALSE}
        BY <1>1 DEF PressPush, CancelWarning,
                    CancelDialog, Dismiss, Ask
    <2>3. QED  BY <2>1, <2>2, PlainTyped DEF TypeInv, Started
<1>2. CASE PressPull \/ PullFirst
    <2>1. PICK asked \in BOOLEAN : SyncPull(asked)
        BY <1>2 DEF PressPull, PullFirst, TypeInv
    <2>2. UNCHANGED <<closing, remote, asides>>
        BY <1>2 DEF PressPull, PullFirst
    <2>3. QED  BY <2>1, <2>2, PullStarts DEF TypeInv
<1>3. CASE ForcePush
    <2>1. PICK f \in Flows : RunSyncPush(f, Nothing)
        BY <1>3 DEF ForcePush
    <2>2. /\ UNCHANGED <<closing, remote, asides>> /\ pending' = FALSE
          /\ dialog' = Loading
          /\ Run(f, Snapshot(Nothing))
        BY <1>3, <2>1 DEF ForcePush, RunSyncPush, Ask,
                          Show
    <2>3. Started  BY <2>2, StagesTyped DEF Started
    <2>4. QED  BY <2>2, <2>3, PlainTyped DEF TypeInv
<1>4. CASE OKConfirm
    <2>1. PICK b : b = dialog.bundle  OBVIOUS
    <2>2. b.hosts \in Seq(Host)
        BY <1>4, <2>1 DEF OKConfirm, Shown, TypeInv, DialogTyped
    <2>3. FlowTyped(Preview(b))  BY <2>2, StagesTyped
    <2>4. /\ \E f \in Flows : Run(f, Preview(b))
          /\ dialog' = Loading /\ closing' = TRUE
          /\ UNCHANGED <<pending, remote, asides>>
        BY <1>4, <2>1 DEF OKConfirm, Show
    <2>5. Started  BY <2>3, <2>4 DEF Started
    <2>6. QED  BY <2>4, <2>5, PlainTyped DEF TypeInv
<1>5. CASE OKConflicts
    <2>1. PICK f \in Flows : ApplySyncImport(dialog.bundle, f)
        BY <1>5 DEF OKConflicts
    <2>2. closing' = TRUE /\ UNCHANGED <<remote, asides>>
        BY <1>5 DEF OKConflicts
    <2>3. QED  BY <2>1, <2>2, ApplyStarts
<1>6. ASSUME NEW b \in Exports, NEW k, OKPassword(b, k)
      PROVE  /\ DialogTyped(dialog') /\ closing' \in BOOLEAN
             /\ pending' \in BOOLEAN /\ Started
             /\ remote' = remote /\ asides' = asides
    <2>1. dialog' = FileConflicts(b) \/ dialog' = Notice
        BY <1>6 DEF OKPassword, Show
    <2>2. closing' = TRUE /\ UNCHANGED <<pending, remote, flow, asides>>
        BY <1>6 DEF OKPassword
    <2>3. QED  BY <2>1, <2>2, PlainTyped DEF TypeInv, Started
<1>7. CASE StartWork
    <2>1. PICK f \in Flows : /\ Run(f, Work)
                             /\ dialog' \in {Cancelable(f), Loading}
        BY <1>7 DEF StartWork, Show
    <2>2. UNCHANGED <<closing, pending, remote, asides>>
        BY <1>7 DEF StartWork
    <2>3. Started  BY <2>1, StagesTyped DEF Started
    <2>4. QED  BY <2>1, <2>2, <2>3, PlainTyped DEF TypeInv
<1>8. CASE CancelWork
    BY <1>8, PlainTyped DEF CancelWork, Show, TypeInv, Started
<1>9. QED
    BY <1>1, <1>2, <1>3, <1>4, <1>5, <1>6, <1>7, <1>8 DEF Click

LEMMA TypeStep ==
    ASSUME ScreenInv, TypeInv, [ScreenNext]_screenVars
    PROVE  TypeInv'
<1>1. hosts' \in Seq(Host)  BY HostsStep
<1>2. ASSUME NEW f \in Flows, Goroutine(f)  PROVE TypeInv'
    <2>1. hosts \in Seq(Host)  BY DEF TypeInv
    <2>2. /\ DialogTyped(dialog)' /\ closing' \in BOOLEAN
          /\ pending' \in BOOLEAN /\ ObjectTyped(remote)'
          /\ \A g \in Flows : FlowTyped(flow[g])'
          /\ asides' = asides
        BY <1>2, <2>1, GoroutineTyped
    <2>3. QED  BY <1>1, <2>2 DEF TypeInv
<1>3. CASE Click
    <2>1. /\ DialogTyped(dialog') /\ closing' \in BOOLEAN
          /\ pending' \in BOOLEAN /\ Started
          /\ remote' = remote /\ asides' = asides
        BY <1>3, ClickTyped
    <2>2. \A g \in Flows : FlowTyped(flow[g])'
        BY <2>1, StayTyped, CancelTyped, RunTyped DEF Started
    <2>3. QED  BY <1>1, <2>1, <2>2 DEF TypeInv
<1>4. CASE EditHosts
    <2>1. asides' \in 0..MaxAsides  BY <1>4, EditTyped
    <2>2. UNCHANGED <<dialog, closing, pending, remote, flow>>
        BY <1>4 DEF EditHosts
    <2>3. QED  BY <1>1, <2>1, <2>2 DEF TypeInv
<1>5. CASE OtherDialog
    <2>1. asides' \in 0..MaxAsides
        BY <1>5, BoundsAssumption DEF OtherDialog, Aside, TypeInv
    <2>2. UNCHANGED <<closing, pending, remote, flow>>
        BY <1>5 DEF OtherDialog
    <2>3. DialogTyped(dialog')
        BY <1>5, PlainTyped DEF OtherDialog, Show
    <2>4. QED  BY <1>1, <2>1, <2>2, <2>3 DEF TypeInv
<1>6. CASE PushElsewhere
    <2>1. UNCHANGED <<dialog, closing, pending, flow, asides>>
        BY <1>6 DEF PushElsewhere
    <2>2. PICK b \in Others : remote' = b  BY <1>6 DEF PushElsewhere
    <2>3. ObjectTyped(remote')
        BY <2>2, BundlesAssumption, OthersAssumption DEF ObjectTyped, Host
    <2>4. QED  BY <1>1, <2>1, <2>3 DEF TypeInv
<1>7. CASE Close
    <2>1. UNCHANGED <<pending, remote, flow, asides>> /\ closing' = FALSE
          /\ dialog' = NoDialog
        BY <1>7 DEF Close, Show
    <2>2. QED  BY <1>1, <2>1, PlainTyped DEF TypeInv
<1>8. CASE UNCHANGED screenVars  BY <1>1, <1>8 DEF screenVars, TypeInv
<1>9. QED
    BY <1>2, <1>3, <1>4, <1>5, <1>6, <1>7, <1>8 DEF ScreenNext

LEMMA TypeInvariant == ScreenSpec => [](ScreenInv /\ TypeInv)
<1>1. ScreenInv /\ TypeInv /\ [ScreenNext]_screenVars
        => ScreenInv' /\ TypeInv'
    BY ScreenStep, TypeStep
<1>2. ScreenInit => ScreenInv /\ TypeInv  BY ScreenInitInv, TypeInit
<1>3. QED  BY <1>1, <1>2, PTL DEF ScreenSpec

(* Every variable of the screen keeps its type. *)
THEOREM ScreenTypes == ScreenSpec => []ScreenTypeOK
<1>1. ASSUME ScreenInv, TypeInv  PROVE ScreenTypeOK
    <2>1. hosts \in Seq([id : Ids, name : Names])  BY <1>1 DEF TypeInv, Host
    <2>2. records \subseteq UNION {b.records : b \in Others \cup Exports}
        BY <1>1 DEF ScreenInv, Shared
    <2>3. remote.format \in {"nothing", "app"}
        BY <1>1 DEF TypeInv, ObjectTyped, Nothing
    <2>4. QED
        BY <1>1, <2>1, <2>2, <2>3
           DEF ScreenTypeOK, TypeInv, DialogTyped, FlowTyped, Stages
<1>2. QED  BY <1>1, TypeInvariant, PTL

(* A pull or an import replaces only hosts the user was told about, unless the
   hosts changed after the list was made. *)
THEOREM OnlyListedAreReplaced == ScreenSpec => ReplacedWasListed
<1>1. ScreenInv /\ TypeInv /\ [ScreenNext]_screenVars =>
        [asides' = asides =>
            \/ ToSet(hosts) \ ToSet(hosts')
                 \subseteq ListedConflicts
            \/ ListIsOld]_screenVars
    BY HostsStep
<1>2. QED
    BY <1>1, TypeInvariant, PTL DEF ScreenSpec, ReplacedWasListed

(* Whatever is pulled or imported, the lists of the device change only by what
   was read with its own key: its master key or the password that was typed. *)
THEOREM OnlyOwnKeyIsRead == ScreenSpec => OnlyOwnKey
<1>1. ASSUME ScreenInv, TypeInv, [ScreenNext]_screenVars  PROVE asides' = asides => Read
    BY <1>1, ReadStep, EditTyped
<1>2. ScreenInv /\ TypeInv /\ [ScreenNext]_screenVars =>
        [asides' = asides => Read]_screenVars
    BY <1>1
<1>3. ScreenSpec => [][asides' = asides => Read]_screenVars
    BY <1>2, TypeInvariant, PTL DEF ScreenSpec
<1>4. QED  BY <1>3, PTL DEF OnlyOwnKey, Read
=============================================================================
