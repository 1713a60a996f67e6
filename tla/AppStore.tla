------------------------------ MODULE AppStore ------------------------------
(***************************************************************************)
(* The three copies of the application data: the lists in App's memory     *)
(* (guarded by App.mu), the lists in Store's memory (guarded by Store.mu)  *)
(* and the payload of the vault file.  Every operation of App changes its  *)
(* own copy and takes a snapshot under App.mu, releases it, and only then  *)
(* hands the snapshot to Store, which replaces its whole list and rewrites *)
(* the whole vault file.  Operations run on goroutines of their own, so    *)
(* between the two steps others may commit and save.                       *)
(*                                                                         *)
(* A list is a function from entry ids to the set of facts recorded for    *)
(* that entry; no facts means no entry.  The log entries of an operation   *)
(* are the facts listed under the operation's id.                          *)
(***************************************************************************)
EXTENDS Naturals, Sequences

CONSTANTS
    Ops,        \* operations the user starts (each runs at most once)
    Ids,        \* entry ids; an operation's id (newID) is also its record's
    NoOp,       \* not an operation
    Jobs,       \* the operations offered in this instance
    Vaults,     \* vault payloads an earlier session may have left
    Bundles,    \* payloads of the files and objects that can be imported
    Seed,       \* the seed templates
    MaxCrashes  \* bound on process restarts

Kinds      == {"profiles", "templates", "history", "logs"}
StoreKinds == Kinds \cup {"settings"}
Facts == {"row", "edited", "oldDest", "checksum", "quick", "deep",
          "start", "phase", "complete", "failure"}
Lists    == [Ids -> SUBSET Facts]
Catalogs == [StoreKinds -> Lists]

ASSUME OpsAssumption ==
    /\ Ops \subseteq Ids
    /\ NoOp \notin Ops
    /\ MaxCrashes \in Nat
ASSUME DataAssumption ==
    /\ Vaults \subseteq Catalogs
    /\ Bundles \subseteq Catalogs
    /\ Seed \in Lists
    /\ \A c \in Vaults \cup Bundles, o \in Ops :  \* newID is fresh
          c["history"][o] = {} /\ c["logs"][o] = {}
ASSUME JobsAssumption ==
    Jobs \subseteq {"backup", "restore", "quickVerify", "deepVerify", "edit",
                    "setting", "import"}

VARIABLES
    app,       \* App.profiles, templates, history, logs
    mem,       \* Store's lists and sync settings
    disk,      \* the payload in app_data.vault.json
    unlocked,  \* Store.unlocked
    clean,     \* did the last persist succeed?
    crashes,
    pc, job,   \* per operation: where it is, which one it is
    todo,      \* ... the lists it still has to save (or load)
    next,      \* ... where it goes after that
    snap,      \* ... its local copies of lists
    rec, copy, \* ... the history entry it works on, and its copy of it
    latest,    \* auxiliary: who holds the newest unsaved snapshot of a list
    behind     \* auxiliary: the store was left behind the app's list

data  == <<mem, disk, unlocked, clean>>
local == <<job, rec, copy>>
vars  == <<app, mem, disk, unlocked, clean, crashes, pc, job, todo, next,
           snap, rec, copy, latest, behind>>

Empty      == [i \in Ids |-> {}]
EmptyStore == [k \in StoreKinds |-> Empty]
JobKinds == {"backup", "restore", "quickVerify", "deepVerify", "edit",
             "setting", "import"}
UiJobs   == {"edit", "setting"}  \* run to the end on the UI goroutine
Ended    == {"idle", "ok", "failed", "dead"}
Steps    == Ended \cup {"transfer", "capture", "logDone", "post",
                        "verifying", "save", "load", "assign"}
Nexts    == {"ok", "failed", "transfer", "capture", "logDone", "post",
             "verifying", "load"}
Order    == <<"profiles", "templates", "history", "logs">>

Active(o)     == pc[o] \notin Ended
Pending(o, k) == pc[o] = "save" /\ \E j \in 1..Len(todo[o]) : todo[o][j] = k

-----------------------------------------------------------------------------
(* MergeProfiles and MergeTemplates replace, MergeHistory and MergeLogs keep. *)
Overlay(l, imported) ==
    [i \in Ids |-> IF imported[i] # {} THEN imported[i] ELSE l[i]]
KeepExisting(l, imported) ==
    [i \in Ids |-> IF l[i] # {} THEN l[i] ELSE imported[i]]
AddEntries(l, imported) == [i \in Ids |-> l[i] \cup imported[i]]
Merged(a, b) ==
    [k \in Kinds |-> CASE k = "history" -> KeepExisting(a[k], b[k])
                       [] k = "logs"    -> AddEntries(a[k], b[k])
                       [] OTHER         -> Overlay(a[k], b[k])]

(* paths.MigrateBackupDestination over the loaded profiles. *)
Migrated(l) == [i \in Ids |-> l[i] \ {"oldDest"}]

(* applyPayloadLocked: a payload without templates gets the seed templates. *)
Applied(d) ==
    [d EXCEPT !["templates"] = IF @ = Empty THEN Seed ELSE @]

Catalog(a) == [k \in StoreKinds |-> IF k \in Kinds THEN a[k] ELSE Empty]

-----------------------------------------------------------------------------
Init ==
    /\ app = [k \in Kinds |-> Empty]
    /\ mem = EmptyStore
    /\ disk \in Vaults
    /\ unlocked = FALSE
    /\ clean = TRUE
    /\ crashes = 0
    /\ pc   = [o \in Ops |-> "idle"]
    /\ job  = [o \in Ops |-> "edit"]
    /\ todo = [o \in Ops |-> << >>]
    /\ next = [o \in Ops |-> "ok"]
    /\ snap = [o \in Ops |-> EmptyStore]
    /\ rec  = [o \in Ops |-> o]
    /\ copy = [o \in Ops |-> {}]
    /\ latest = [k \in Kinds |-> NoOp]
    /\ behind = [k \in Kinds |-> FALSE]

(* Mutant: the payload is built before the list is replaced. *)
PersistEarly(m, ok) ==
    /\ mem' = m
    /\ disk' = IF ok THEN mem ELSE disk
    /\ clean' = ok

(* persistVaultLocked: encrypt, write the temporary file, rename it over    *)
(* the vault.  When it fails the memory has changed and the file has not.   *)
Persist(m, ok) ==
    /\ mem' = m
    /\ disk' = IF ok THEN m ELSE disk
    /\ clean' = ok

(* App.Unlock: store.Unlock reads the payload, Reload copies it and saves   *)
(* the profiles again when a destination was migrated.  No operation runs   *)
(* before the vault is open, so the call is one step.                       *)
Unlock(ok) ==
    /\ ~unlocked
    /\ unlocked' = TRUE
    /\ LET m == [Applied(disk) EXCEPT !["profiles"] = Migrated(@)] IN
       /\ app' = [k \in Kinds |-> m[k]]
       /\ IF m["profiles"] # disk["profiles"]
            THEN Persist(m, ok)
            ELSE ok /\ mem' = m /\ disk' = disk /\ clean' = TRUE
    /\ latest' = [k \in Kinds |-> NoOp]
    /\ behind' = [k \in Kinds |-> FALSE]
    /\ UNCHANGED <<crashes, pc, todo, next, snap, local>>

(* The process ends; every goroutine and both memories are gone. *)
Crash ==
    /\ unlocked
    /\ crashes < MaxCrashes
    /\ crashes' = crashes + 1
    /\ unlocked' = FALSE
    /\ clean' = TRUE
    /\ app' = [k \in Kinds |-> Empty]
    /\ mem' = EmptyStore
    /\ pc' = [o \in Ops |-> IF Active(o) THEN "dead" ELSE pc[o]]
    /\ latest' = [k \in Kinds |-> NoOp]
    /\ behind' = [k \in Kinds |-> FALSE]
    /\ UNCHANGED <<disk, todo, next, snap, local>>

-----------------------------------------------------------------------------
(* Mutant: the snapshot is taken before the list is changed. *)
CommitSnapshotFirst(o, k, l, then) ==
    /\ app'  = [app EXCEPT ![k] = l]
    /\ snap' = [snap EXCEPT ![o][k] = app[k]]
    /\ todo' = [todo EXCEPT ![o] = <<k>>]
    /\ next' = [next EXCEPT ![o] = then]
    /\ pc'   = [pc EXCEPT ![o] = "save"]
    /\ latest' = [latest EXCEPT ![k] = o]
    /\ UNCHANGED <<behind, crashes, data>>

(* One App.mu section: replace list k by l, copy it, and go on to save it. *)
Commit(o, k, l, then) ==
    /\ app'  = [app EXCEPT ![k] = l]
    /\ snap' = [snap EXCEPT ![o][k] = l]
    /\ todo' = [todo EXCEPT ![o] = <<k>>]
    /\ next' = [next EXCEPT ![o] = then]
    /\ pc'   = [pc EXCEPT ![o] = "save"]
    /\ latest' = [latest EXCEPT ![k] = o]
    /\ UNCHANGED <<behind, crashes, data>>

(* logPhaseWithFile: append an entry and save the logs. *)
Log(o, f, then) ==
    Commit(o, "logs", [app["logs"] EXCEPT ![o] = @ \cup {f}], then)

(* logPhaseWithFile drops the error of SaveLogs; every other caller of a    *)
(* Save returns it.                                                         *)
ErrorIgnored(o, k) == k = "logs" /\ job[o] # "import"

(* Store.SaveProfiles, SaveTemplates, SaveHistory, SaveLogs and             *)
(* SaveSyncSettings: the whole list is replaced, the whole vault rewritten. *)
(* An operation that gives up leaves its other lists unsaved.               *)
Save(o, ok) ==
    /\ pc[o] = "save"
    /\ LET k       == Head(todo[o])
           goOn    == ok \/ ErrorIgnored(o, k)
           last    == Len(todo[o]) = 1
           newest  == {q \in Kinds : latest[q] = o}
           dropped == IF goOn THEN {} ELSE newest \ {k}
       IN /\ Persist([mem EXCEPT ![k] = snap[o][k]], ok)
          /\ pc' = [pc EXCEPT ![o] = IF ~goOn THEN "failed"
                                     ELSE IF last THEN next[o] ELSE "save"]
          /\ todo' = [todo EXCEPT ![o] = IF ~goOn THEN << >>
                           ELSE IF last /\ next[o] = "load" THEN Order
                           ELSE Tail(@)]
          /\ latest' = [q \in Kinds |->
                IF q \in dropped \cup (newest \cap {k}) THEN NoOp
                                                        ELSE latest[q]]
          /\ behind' = [q \in Kinds |->
                CASE q \in dropped        -> TRUE
                  [] q = k /\ q \in newest -> FALSE
                  [] OTHER -> behind[q] \/ (q = k /\ latest[q] = NoOp)]
    /\ UNCHANGED <<app, unlocked, crashes, next, snap, local>>

-----------------------------------------------------------------------------
(* The UI goroutine runs one editor call at a time; background operations   *)
(* are goroutines nothing counts or excludes.                               *)
Begin(o, j) ==
    /\ unlocked
    /\ pc[o] = "idle"
    /\ j \in Jobs
    /\ j \in UiJobs => \A p \in Ops : Active(p) => job[p] \notin UiJobs
    /\ job' = [job EXCEPT ![o] = j]

(* SaveProfile and SaveTemplate write the whole entry the editor holds. *)
SaveEntry(o, k, i, e) ==
    /\ Begin(o, "edit")
    /\ Commit(o, k, [app[k] EXCEPT ![i] = e], "ok")
    /\ UNCHANGED <<rec, copy>>

(* DeleteProfile and DeleteTemplate. *)
DeleteEntry(o, k, i) ==
    /\ Begin(o, "edit")
    /\ app[k][i] # {}
    /\ Commit(o, k, [app[k] EXCEPT ![i] = {}], "ok")
    /\ UNCHANGED <<rec, copy>>

(* ReplaceTemplateInProfiles over the hosts the user ticked. *)
ReplaceTemplateInProfiles(o, S) ==
    /\ Begin(o, "edit")
    /\ S # {}
    /\ Commit(o, "profiles",
              [i \in Ids |-> IF i \in S /\ app["profiles"][i] # {}
                               THEN app["profiles"][i] \cup {"edited"}
                               ELSE app["profiles"][i]], "ok")
    /\ UNCHANGED <<rec, copy>>

(* SaveSyncSettings replaces the settings; RecordSyncPush, RecordSyncPull   *)
(* and SetImportDestForProfile set one entry.  All of it is one Store.mu    *)
(* section, and nothing of App changes.                                     *)
SaveSettings(o, l, ok) ==
    /\ Begin(o, "setting")
    /\ Persist([mem EXCEPT !["settings"] = l], ok)
    /\ pc' = [pc EXCEPT ![o] = IF ok THEN "ok" ELSE "failed"]
    /\ UNCHANGED <<app, unlocked, crashes, todo, next, snap, rec, copy, latest,
                   behind>>

(* Backup and Restore log their start, then transfer. *)
StartTransfer(o, j) ==
    /\ j \in {"backup", "restore"}
    /\ Begin(o, j)
    /\ Log(o, "start", "transfer")
    /\ UNCHANGED <<rec, copy>>

(* opLogger: strategies, attempts and retries, and the pre-import query. *)
TransferLog(o) ==
    /\ \/ pc[o] = "transfer"
       \/ pc[o] = "verifying" /\ job[o] = "deepVerify"
    /\ Log(o, "phase", pc[o])
    /\ UNCHANGED local

(* Canceled, failed, or a dump below 128 bytes: one more log entry. *)
TransferFails(o) ==
    /\ pc[o] = "transfer"
    /\ Log(o, "failure", "failed")
    /\ UNCHANGED local

(* Mutant: the completion is logged as soon as the record is saved. *)
BackupRecordThenLog(o) ==
    /\ pc[o] = "transfer" /\ job[o] = "backup"
    /\ Commit(o, "history", [app["history"] EXCEPT ![o] = {"row"}], "logDone")
    /\ UNCHANGED local

(* Backup appends its record to the history ... *)
BackupRecord(o) ==
    /\ pc[o] = "transfer" /\ job[o] = "backup"
    /\ Commit(o, "history", [app["history"] EXCEPT ![o] = {"row"}], "capture")
    /\ UNCHANGED local

(* UpdateHistoryRecord: replace the entry with this id by the copy the      *)
(* caller holds, or fail when there is none.                                *)
UpdateHistoryRecord(o, e, then) ==
    IF app["history"][rec[o]] = {}
      THEN /\ pc' = [pc EXCEPT ![o] = "failed"]
           /\ UNCHANGED <<app, data, crashes, todo, next, snap, latest, behind>>
      ELSE Commit(o, "history", [app["history"] EXCEPT ![rec[o]] = e], then)

(* ... then adds to it the quick verdict, and the checksum if it could be   *)
(* had: captureBackupMetadata drops its errors, and without a checksum the  *)
(* verdict is a failed one.  Whether a fingerprint could be had as well is  *)
(* not told apart ...                                                       *)
BackupCapture(o) ==
    /\ pc[o] = "capture"
    /\ \E had \in SUBSET {"checksum"} :
         UpdateHistoryRecord(o, {"row", "quick"} \cup had, "logDone")
    /\ UNCHANGED local

(* ... and logs its completion last. *)
BackupComplete(o) ==
    /\ pc[o] = "logDone"
    /\ Log(o, "complete", "ok")
    /\ UNCHANGED local

(* A failed pre-import query ends the restore without a failure entry. *)
RestorePreQueryFails(o) ==
    /\ pc[o] = "transfer" /\ job[o] = "restore"
    /\ Log(o, "phase", "failed")
    /\ UNCHANGED local

RestoreComplete(o) ==
    /\ pc[o] = "transfer" /\ job[o] = "restore"
    /\ Log(o, "complete", "post")
    /\ UNCHANGED local

(* The post-import query, when there is one, logs its own outcome. *)
RestorePostQuery(o, outcome) ==
    /\ pc[o] = "post"
    /\ Log(o, "phase", outcome)
    /\ UNCHANGED local

RestoreNoPostQuery(o) ==
    /\ pc[o] = "post"
    /\ pc' = [pc EXCEPT ![o] = "ok"]
    /\ UNCHANGED <<app, data, crashes, todo, next, snap, local, latest, behind>>

(* QuickVerify and DeepVerify copy the whole record, check the file against *)
(* its checksum (and restore it, count rows and compare with its            *)
(* fingerprint), and write the copy back.  Without a checksum, and in a     *)
(* deep verification without a fingerprint, they return at once.            *)
VerifyRead(o, j, i) ==
    /\ j \in {"quickVerify", "deepVerify"}
    /\ Begin(o, j)
    /\ "checksum" \in app["history"][i]
    /\ rec'  = [rec EXCEPT ![o] = i]
    /\ copy' = [copy EXCEPT ![o] = app["history"][i]]
    /\ pc'   = [pc EXCEPT ![o] = "verifying"]
    /\ UNCHANGED <<app, data, crashes, todo, next, snap, latest, behind>>

VerifyWrite(o) ==
    /\ pc[o] = "verifying"
    /\ UpdateHistoryRecord(o, copy[o] \cup
           {IF job[o] = "deepVerify" THEN "deep" ELSE "quick"}, "ok")
    /\ UNCHANGED local

VerifyFails(o) ==
    /\ pc[o] = "verifying"
    /\ pc' = [pc EXCEPT ![o] = "failed"]
    /\ UNCHANGED <<app, data, crashes, todo, next, snap, local, latest, behind>>

(* applyImportedAppData: merge the four lists in one App.mu section, save   *)
(* them one after the other, then the imported sync settings if there are   *)
(* any, then Reload.                                                        *)
ImportMerge(o, b) ==
    /\ Begin(o, "import")
    /\ app'  = Merged(app, b)
    /\ snap' = [snap EXCEPT ![o] = [k \in StoreKinds |->
                   IF k \in Kinds THEN Merged(app, b)[k] ELSE b[k]]]
    /\ todo' = [todo EXCEPT ![o] =
                   IF b["settings"] = Empty THEN Order
                                            ELSE Append(Order, "settings")]
    /\ next' = [next EXCEPT ![o] = "load"]
    /\ pc'   = [pc EXCEPT ![o] = "save"]
    /\ latest' = [k \in Kinds |-> o]
    /\ UNCHANGED <<behind, data, crashes, rec, copy>>

(* Reload: each list is copied out of Store in a critical section of its own. *)
Load(o) ==
    /\ pc[o] = "load"
    /\ LET k == Head(todo[o]) IN snap' = [snap EXCEPT ![o][k] = mem[k]]
    /\ todo' = [todo EXCEPT ![o] = Tail(@)]
    /\ pc' = [pc EXCEPT ![o] = IF Len(todo[o]) = 1 THEN "assign" ELSE "load"]
    /\ UNCHANGED <<app, data, crashes, next, local, latest, behind>>

(* ... and App's four lists are replaced by the copies; a migrated backup   *)
(* destination saves the profiles once more.                                *)
Assign(o) ==
    /\ pc[o] = "assign"
    /\ LET profiles == Migrated(snap[o]["profiles"])
           migrated == profiles # snap[o]["profiles"]
           saving   == IF migrated THEN {"profiles"} ELSE {}
       IN /\ app' = [k \in Kinds |->
                        IF k = "profiles" THEN profiles ELSE snap[o][k]]
          /\ snap' = [snap EXCEPT ![o]["profiles"] = profiles]
          /\ todo' = [todo EXCEPT ![o] =
                         IF migrated THEN <<"profiles">> ELSE << >>]
          /\ pc' = [pc EXCEPT ![o] = IF migrated THEN "save" ELSE "ok"]
          /\ latest' = [k \in Kinds |-> IF k \in saving THEN o ELSE NoOp]
          /\ behind' = [k \in Kinds |->
                           k \notin saving /\ mem[k] # snap[o][k]]
    /\ next' = [next EXCEPT ![o] = "ok"]
    /\ UNCHANGED <<data, crashes, local>>

-----------------------------------------------------------------------------
Entries == {{"row"}, {"row", "edited"}}

Edit(o) ==
    \/ \E k \in {"profiles", "templates"}, i \in Ids :
         \/ \E e \in Entries : SaveEntry(o, k, i, e)
         \/ DeleteEntry(o, k, i)
    \/ \E S \in SUBSET Ids : ReplaceTemplateInProfiles(o, S)
    \/ \E l \in {[Empty EXCEPT ![o] = {"row"}],
               [mem["settings"] EXCEPT ![o] = {"edited"}]}, ok \in BOOLEAN :
         SaveSettings(o, l, ok)

Transfer(o) ==
    \/ \E j \in Jobs : StartTransfer(o, j)
    \/ TransferLog(o)
    \/ TransferFails(o)
    \/ BackupRecord(o)
    \/ BackupCapture(o)
    \/ BackupComplete(o)
    \/ RestorePreQueryFails(o)
    \/ RestoreComplete(o)
    \/ \E outcome \in {"ok", "failed"} : RestorePostQuery(o, outcome)
    \/ RestoreNoPostQuery(o)

Verify(o) ==
    \/ \E j \in Jobs, i \in Ids : VerifyRead(o, j, i)
    \/ VerifyWrite(o)
    \/ VerifyFails(o)

Import(o) ==
    \/ \E b \in Bundles : ImportMerge(o, b)
    \/ Load(o)
    \/ Assign(o)

Next ==
    \/ \E ok \in BOOLEAN : Unlock(ok)
    \/ Crash
    \/ \E o \in Ops :
         \/ Edit(o)
         \/ Transfer(o)
         \/ Verify(o)
         \/ Import(o)
         \/ \E ok \in BOOLEAN : Save(o, ok)

Spec == Init /\ [][Next]_vars

-----------------------------------------------------------------------------
(* Every variable keeps its type. *)
TypeOK ==
    /\ app \in [Kinds -> Lists]
    /\ mem \in Catalogs
    /\ disk \in Catalogs
    /\ unlocked \in BOOLEAN
    /\ clean \in BOOLEAN
    /\ crashes \in 0..MaxCrashes
    /\ pc \in [Ops -> Steps]
    /\ job \in [Ops -> JobKinds]
    /\ todo \in [Ops -> Seq(StoreKinds)]
    /\ next \in [Ops -> Nexts]
    /\ snap \in [Ops -> Catalogs]
    /\ rec \in [Ops -> Ids]
    /\ copy \in [Ops -> SUBSET Facts]
    /\ latest \in [Kinds -> Ops \cup {NoOp}]
    /\ behind \in [Kinds -> BOOLEAN]

(* While the vault is open and the last persist went through, the vault     *)
(* file holds exactly what Store holds, or what Store would build from it   *)
(* on a restart: persistVaultLocked writes the whole current payload, never *)
(* a part of it and never a snapshot.                                       *)
DiskMirrorsStore ==
    unlocked /\ clean => disk = mem \/ mem = Applied(disk)

(* Once no save of a list is outstanding, Store holds App's list, unless a  *)
(* newer snapshot was overtaken by an older one, an import gave up before   *)
(* saving it, or a reload picked up something older.  These are the only    *)
(* ways for App and Store to drift apart.                                   *)
Agreement ==
    unlocked => \A k \in Kinds :
        (\A o \in Ops : ~Pending(o, k)) /\ ~behind[k] => mem[k] = app[k]

(* A backup the vault's log calls complete has its finished record, the one *)
(* with the quick verdict, in the vault's history: a restart never finds a  *)
(* completion beside no record or beside the one written before the capture *)
(* (app.go:364-406).  Checksum and fingerprint may be missing from it.      *)
CompleteIsRecorded ==
    \A o \in Ops : job[o] = "backup" /\ "complete" \in disk["logs"][o]
                      => "quick" \in disk["history"][o]
=============================================================================
