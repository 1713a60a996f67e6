-------------------------------- MODULE Vault --------------------------------
(***************************************************************************)
(* The life of the encrypted vault: creation, unlocking, the migration of  *)
(* an older build's plaintext files, persisting, locking, and the login    *)
(* screen that drives it.  The UI goroutine blocks while a call runs, so   *)
(* calls do not interleave; the process may end between any two writes to  *)
(* the disk, and every write and removal may fail.                         *)
(*                                                                         *)
(* What the user types is a prefix of one of a few words.  Encryption with *)
(* the key derived from a passphrase and a salt opens only with both.      *)
(***************************************************************************)
EXTENDS Naturals, Sequences

CONSTANTS
    Words,      \* the passphrases the user may be typing
    MaxLen,     \* their length
    MinKeyLen,  \* minMasterKeyLen
    Edits,      \* data the user adds while the vault is open
    Earlier,    \* vaults an earlier session may have left
    LeftCopies, \* the plaintext files whose .legacy copy may be around
    MaxSalt,    \* bound on the salts drawn
    MaxCrashes, \* bound on process restarts
    None        \* no vault file

ASSUME KeyAssumption ==
    /\ Words # {}
    /\ MaxLen \in Nat /\ MinKeyLen \in Nat \ {0}
    /\ MaxSalt \in Nat /\ MaxCrashes \in Nat

LegacyFiles == {"profiles.json", "templates.json", "export_history.json",
                "logs.json"}
RemovalOrder == <<"profiles.json", "templates.json", "export_history.json",
                  "logs.json">>
ASSUME EditsAssumption ==
    /\ Edits \cap LegacyFiles = {}
    /\ LeftCopies \subseteq LegacyFiles

Texts == [word : Words, len : 0..MaxLen]
Salts == 0..MaxSalt
Keys  == Texts \X Salts               \* secrets.DeriveKey(passphrase, salt)
Data  == SUBSET (LegacyFiles \cup Edits)
Files == [salt : Salts, key : Keys, data : Data]

ASSUME NoneAssumption == None \notin Files
ASSUME EarlierAssumption ==
    /\ Earlier \subseteq Files
    /\ \A v \in Earlier : v.salt = 0 /\ v.key[2] = v.salt

VARIABLES
    vault,     \* app_data.vault.json
    legacy,    \* the plaintext files present
    copies,    \* ... and the ones with a .legacy copy beside their path
    unlocked, dataKey, masterKey, vaultSalt, data,  \* Store
    pc, arg,   \* the store call in progress and its passphrase
    field,     \* the master key editor of the login screen
    salts,     \* salts drawn so far
    crashes,
    owned,     \* auxiliary: what the vault has held, and the plaintext found
               \* where there was no vault
    spared     \* auxiliary: this session opened without removing the copies

store == <<unlocked, dataKey, masterKey, vaultSalt, data>>
files == <<vault, legacy, copies>>
aux   == <<owned, spared>>
vars  == <<files, store, pc, arg, field, salts, crashes, aux>>

Removing == {"purge", "unmigrated", "sweep"}
Calls    == Removing \cup {"idle", "unlock", "read", "migrate"}
Blank == [word |-> CHOOSE w \in Words : TRUE, len |-> 0]
NoKey == <<Blank, 0>>

HasVault == vault # None
OnDisk == IF HasVault THEN vault.data ELSE legacy

-----------------------------------------------------------------------------
(* A first start, the first start after an upgrade from plaintext files, or  *)
(* a later one; plaintext beside a vault need not be what was migrated into *)
(* it (an older build ran again, a backup of the directory was restored).   *)
Init ==
    /\ vault \in {None} \cup Earlier
    /\ legacy \in SUBSET LegacyFiles
    /\ copies \in SUBSET LeftCopies
    /\ unlocked = FALSE /\ dataKey = NoKey /\ masterKey = Blank
    /\ vaultSalt = 0 /\ data = {}
    /\ pc = "idle" /\ arg = Blank /\ field = Blank
    /\ salts = 0 /\ crashes = 0
    /\ owned = OnDisk
    /\ spared = FALSE

Return == pc' = "idle"

(* applyPayloadLocked, setMasterKeyLocked, unlocked = true; the UI then     *)
(* clears the editor (completeUnlock).                                      *)
Open(payload) ==
    /\ data' = payload
    /\ masterKey' = arg
    /\ unlocked' = TRUE
    /\ spared' = FALSE
    /\ field' = Blank

(* writeVaultLocked: a fresh salt, a fresh key, one atomic rename. *)
WriteVault(text, payload) ==
    LET salt == salts + 1 IN
    /\ salt \in Salts
    /\ salts' = salt
    /\ vault' = [salt |-> salt, key |-> <<text, salt>>, data |-> payload]
    /\ dataKey' = <<text, salt>>
    /\ vaultSalt' = salt
    /\ owned' = owned \cup payload

(* Store.Unlock, up to its first access to the disk. *)
CallUnlock(text) ==
    /\ arg' = text
    /\ pc' = IF text.len = 0 \/ unlocked THEN "idle" ELSE "unlock"
    /\ UNCHANGED <<files, store, salts, crashes, aux>>

(* Every change of the login editors tries to unlock without being asked:   *)
(* consumeLoginEditor and tryUnlockSilent.                                  *)
Type(text) ==
    /\ pc = "idle" /\ ~unlocked
    /\ text.word = field.word \/ field.len = 0 \/ text.len = 0
    /\ text.len \in {field.len, field.len + 1} \/ text.len + 1 = field.len
    /\ field' = text
    /\ IF HasVault \/ legacy # {}
         THEN CallUnlock(text)
         ELSE UNCHANGED <<files, store, pc, arg, salts, crashes, aux>>

(* The button or Enter with a vault or plaintext files: tryUnlockWithFeedback. *)
SubmitUnlock ==
    /\ pc = "idle" /\ ~unlocked
    /\ HasVault \/ legacy # {}
    /\ CallUnlock(field)
    /\ UNCHANGED field

(* The button or Enter on a first start: CreateVault with the confirmed key. *)
(* It looks for no plaintext, and leaves the .legacy copies alone.           *)
SubmitCreate ==
    /\ pc = "idle" /\ ~unlocked
    /\ ~HasVault /\ legacy = {}
    /\ field.len >= MinKeyLen
    /\ WriteVault(field, {})
    /\ data' = {} /\ masterKey' = field /\ unlocked' = TRUE
    /\ field' = Blank
    /\ spared' = TRUE
    /\ UNCHANGED <<legacy, copies, pc, arg, crashes>>

(* Mutant: plaintext files go before anything else is looked at. *)
DispatchPurgeFirst ==
    /\ pc = "unlock"
    /\ pc' = CASE legacy # {}               -> "purge"
               [] HasVault /\ legacy = {}   -> "read"
               [] OTHER                     -> "idle"
    /\ UNCHANGED <<files, store, arg, field, salts, crashes, aux>>

(* Mutant: plaintext files are migrated, vault or no vault. *)
DispatchMigrateAgain ==
    /\ pc = "unlock"
    /\ pc' = CASE legacy # {}               -> "migrate"
               [] HasVault /\ legacy = {}   -> "read"
               [] OTHER                     -> "idle"
    /\ UNCHANGED <<files, store, arg, field, salts, crashes, aux>>

(* Store.Unlock: plaintext files beside a vault are removed first, unread;  *)
(* without a vault they are migrated.  The .legacy copies are not looked    *)
(* for.                                                                     *)
UnlockDispatch ==
    /\ pc = "unlock"
    /\ pc' = CASE HasVault /\ legacy # {}    -> "purge"
               [] HasVault /\ legacy = {}    -> "read"
               [] ~HasVault /\ legacy # {}   -> "migrate"
               [] OTHER                      -> "idle"   \* ErrVaultNotFound
    /\ UNCHANGED <<files, store, arg, field, salts, crashes, aux>>

(* removeLegacyPlaintextLocked: each file and then its .legacy copy.  The   *)
(* copies are never read.                                                   *)
Reached(f) ==
    \E i \in 1..Len(RemovalOrder) :
        /\ f = RemovalOrder[i]
        /\ \A j \in 1..(i - 1) : RemovalOrder[j] \notin legacy \cup copies

RemoveLegacy(f) ==
    /\ pc \in Removing
    /\ Reached(f)
    /\ IF f \in legacy
         THEN legacy' = legacy \ {f} /\ UNCHANGED copies
         ELSE f \in copies /\ copies' = copies \ {f} /\ UNCHANGED legacy
    /\ UNCHANGED <<vault, store, pc, arg, field, salts, crashes, aux>>

(* The first file or copy that cannot be removed ends the call: with an     *)
(* error, or in the last sweep with the session open and nothing said.      *)
RemoveFails ==
    /\ pc \in Removing
    /\ legacy \cup copies # {}
    /\ Return
    /\ spared' = (spared \/ pc = "sweep")
    /\ UNCHANGED <<files, store, arg, field, salts, crashes, owned>>

(* Mutant: a failed removal does not stop the call. *)
PurgeDoneAnyway ==
    /\ pc = "purge"
    /\ pc' = "read"
    /\ UNCHANGED <<files, store, arg, field, salts, crashes, aux>>

PurgeDone ==
    /\ pc = "purge" /\ legacy \cup copies = {}
    /\ pc' = "read"
    /\ UNCHANGED <<files, store, arg, field, salts, crashes, aux>>

(* Mutant: the salt of the file is not remembered. *)
ReadVaultSaltless ==
    /\ pc = "read"
    /\ IF vault.key = <<arg, vault.salt>>
         THEN /\ dataKey' = <<arg, vault.salt>>
              /\ vaultSalt' = vaultSalt
              /\ Open(vault.data)
              /\ pc' = "sweep"
         ELSE Return /\ UNCHANGED <<store, field, spared>>
    /\ UNCHANGED <<files, arg, salts, crashes, owned>>

(* readVaultFileLocked: ErrWrongMasterKey unless the key opens the payload. *)
(* The session is open before the plaintext is swept once more.             *)
ReadVault ==
    /\ pc = "read"
    /\ IF vault.key = <<arg, vault.salt>>
         THEN /\ dataKey' = <<arg, vault.salt>>
              /\ vaultSalt' = vault.salt
              /\ Open(vault.data)
              /\ pc' = "sweep"
         ELSE Return /\ UNCHANGED <<store, field, spared>>
    /\ UNCHANGED <<files, arg, salts, crashes, owned>>

SweepDone ==
    /\ pc = "sweep" /\ legacy \cup copies = {}
    /\ Return
    /\ UNCHANGED <<files, store, arg, field, salts, crashes, aux>>

(* A legacy file that does not parse, or a vault that cannot be written. *)
MigrateFails ==
    /\ pc = "migrate"
    /\ Return
    /\ UNCHANGED <<files, store, arg, field, salts, crashes, aux>>

(* loadLegacyPayloadLocked, then writeVaultLocked with whatever passphrase  *)
(* the call was given.                                                      *)
Migrate ==
    /\ pc = "migrate"
    /\ WriteVault(arg, legacy)
    /\ pc' = "unmigrated"
    /\ UNCHANGED <<legacy, copies, unlocked, masterKey, data, arg, field,
                   crashes, spared>>

(* All plaintext files are gone: apply the payload. *)
MigrateDone ==
    /\ pc = "unmigrated" /\ legacy \cup copies = {}
    /\ Return
    /\ Open(vault.data)
    /\ UNCHANGED <<files, dataKey, vaultSalt, arg, salts, crashes, owned>>

(* A save: Store's memory changes, then persistVaultLocked rewrites the     *)
(* file under the salt and key of this session, or fails.                   *)
Save(e, ok) ==
    /\ pc = "idle" /\ unlocked
    /\ data' = data \cup {e}
    /\ IF ok
         THEN /\ vault' = [salt |-> vaultSalt, key |-> dataKey, data |-> data']
              /\ owned' = owned \cup data'
         ELSE UNCHANGED <<vault, owned>>
    /\ UNCHANGED <<legacy, copies, unlocked, dataKey, masterKey, vaultSalt, pc,
                   arg, field, salts, crashes, spared>>

(* The session's keys and lists are gone. *)
Forget ==
    /\ unlocked' = FALSE /\ dataKey' = NoKey /\ masterKey' = Blank
    /\ vaultSalt' = 0 /\ data' = {}

(* Store.Lock: wipe the keys and the lists. *)
Lock ==
    /\ pc = "idle" /\ unlocked
    /\ Forget
    /\ UNCHANGED <<files, pc, arg, field, salts, crashes, aux>>

(* The process ends, at any point of a call, and starts again. *)
Crash ==
    /\ crashes < MaxCrashes
    /\ crashes' = crashes + 1
    /\ Forget
    /\ Return
    /\ field' = Blank
    /\ UNCHANGED <<files, arg, salts, aux>>

Next ==
    \/ \E text \in Texts : Type(text)
    \/ SubmitUnlock
    \/ SubmitCreate
    \/ UnlockDispatch
    \/ \E f \in LegacyFiles : RemoveLegacy(f)
    \/ RemoveFails
    \/ PurgeDone
    \/ ReadVault
    \/ SweepDone
    \/ MigrateFails
    \/ Migrate
    \/ MigrateDone
    \/ \E e \in Edits, ok \in BOOLEAN : Save(e, ok)
    \/ Lock
    \/ Crash

Spec == Init /\ [][Next]_vars

-----------------------------------------------------------------------------
(* Every variable keeps its type. *)
TypeOK ==
    /\ vault \in Files \cup {None}
    /\ legacy \in SUBSET LegacyFiles /\ copies \in SUBSET LegacyFiles
    /\ unlocked \in BOOLEAN /\ spared \in BOOLEAN
    /\ dataKey \in Keys /\ masterKey \in Texts /\ vaultSalt \in Salts
    /\ data \in Data /\ owned \in Data
    /\ pc \in Calls /\ arg \in Texts /\ field \in Texts
    /\ salts \in Salts
    /\ crashes \in 0..MaxCrashes

(* Plaintext found where there is no vault, and everything a vault has held *)
(* since, is still there at every moment of a migration, in the plaintext   *)
(* files until there is a vault and in the vault from then on: a restart, a *)
(* wrong passphrase or a failed removal in the middle loses nothing         *)
(* (vault.go:120-162).  Nothing is said of plaintext that lies beside a     *)
(* vault without having been migrated into it, nor of .legacy copies: the   *)
(* code removes both unread.                                                *)
NothingLost == owned \subseteq OnDisk

(* While the vault is open, the passphrase it was opened with and the salt  *)
(* in the file derive the key the file is encrypted with, so the next       *)
(* session can open it with the same passphrase.                            *)
KeyOpensVault ==
    unlocked => /\ HasVault
                /\ vault.key = dataKey /\ vault.salt = vaultSalt
                /\ dataKey = <<masterKey, vaultSalt>>

(* No plaintext file survives beside an open vault, and no .legacy copy     *)
(* either, once the call that opened it is over, except where the code lets *)
(* it: CreateVault removes nothing, and Unlock drops the error of its last  *)
(* sweep (vault.go:121-139, 156-162).                                       *)
NoPlaintextWhileOpen ==
    unlocked => /\ legacy = {}
                /\ pc = "idle" /\ ~spared => copies = {}

(* Once there is a vault, it stays, and keeps the passphrase it was created *)
(* with: no later call, retry or restart of a migration re-encrypts it with *)
(* another one.                                                             *)
VaultKeepsPassphrase ==
    [][HasVault => vault' # None /\ vault'.key[1] = vault.key[1]]_vars

(* ui/cache.go:82-83: silent auto-unlock only applies to existing vaults or *)
(* legacy data, "Vault creation always requires an explicit button press or *)
(* Enter".  A vault is then only created for what the user submitted, at    *)
(* least MinKeyLen characters long.                                         *)
CreatedKeyLongEnough == HasVault => vault.key[1].len >= MinKeyLen
=============================================================================
