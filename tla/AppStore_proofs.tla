--------------------------- MODULE AppStore_proofs ---------------------------
(***************************************************************************)
(* Proofs about AppStore, for any operations, ids, vaults and bundles:     *)
(* types, the vault file mirroring Store, the agreement of App and Store,  *)
(* and what operations that wait for each other leave in the vault.        *)
(***************************************************************************)
EXTENDS AppInTurn, SequenceTheorems, TLAPS

USE DEF Kinds, StoreKinds

(* A saving or loading operation has a list left to save or load. *)
TodoOK ==
    \A o \in Ops : pc[o] \in {"save", "load"} => todo[o] # << >>

(* The owner of the newest snapshot of a list has yet to save it, and the   *)
(* snapshot is still App's list; a list nobody owns was saved, unless the   *)
(* store was left behind.                                                   *)
LatestOK ==
    \A k \in Kinds :
        /\ \A o \in Ops : latest[k] = o => Pending(o, k) /\ snap[o][k] = app[k]
        /\ latest[k] = NoOp /\ ~behind[k] => mem[k] = app[k]

TInv == TypeOK /\ TodoOK
Inv  == TInv /\ DiskMirrorsStore /\ LatestOK

-----------------------------------------------------------------------------
(* The operators on lists stay within lists. *)
LEMMA EmptyLists == Empty \in Lists /\ EmptyStore \in Catalogs
  BY DEF Empty, EmptyStore, Lists, Catalogs

LEMMA AppendFact ==
  ASSUME NEW l \in Lists, NEW i \in Ids, NEW f \in SUBSET Facts
  PROVE  /\ [l EXCEPT ![i] = f] \in Lists
         /\ [l EXCEPT ![i] = @ \cup f] \in Lists
  BY DEF Lists

LEMMA MigratedType ==
  ASSUME NEW l \in Lists PROVE Migrated(l) \in Lists
  BY DEF Lists, Migrated

LEMMA MergedType ==
  ASSUME NEW a \in [Kinds -> Lists], NEW b \in Catalogs
  PROVE  Merged(a, b) \in [Kinds -> Lists]
<1>1. ASSUME NEW l \in Lists, NEW m \in Lists
      PROVE  /\ Overlay(l, m) \in Lists
             /\ KeepExisting(l, m) \in Lists
             /\ AddEntries(l, m) \in Lists
  BY DEF Lists, Overlay, KeepExisting, AddEntries
<1>2. ASSUME NEW k \in Kinds
      PROVE  a[k] \in Lists /\ b[k] \in Lists
  BY DEF Catalogs
<1> QED  BY <1>1, <1>2 DEF Merged

LEMMA AppliedType ==
  ASSUME NEW d \in Catalogs
  PROVE  /\ Applied(d) \in Catalogs
         /\ Applied(d)["profiles"] = d["profiles"]
  BY DataAssumption DEF Applied, Catalogs

(* What is left of a work list after its head is done. *)
LEMMA TailFacts ==
  ASSUME NEW S, NEW s \in Seq(S), s # << >>
  PROVE  /\ Head(s) \in S
         /\ Tail(s) \in Seq(S)
         /\ Len(s) # 1 => Tail(s) # << >>
         /\ \A x : (\E j \in 1..Len(s) : s[j] = x) /\ x # Head(s)
                 => /\ Len(s) # 1
                    /\ \E j \in 1..Len(Tail(s)) : Tail(s)[j] = x
<1>1. /\ Head(s) \in S /\ Tail(s) \in Seq(S)
      /\ Len(Tail(s)) = Len(s) - 1
      /\ \A i \in 1..Len(Tail(s)) : Tail(s)[i] = s[i + 1]
  BY HeadTailProperties
<1>2. Len(s) \in Nat \ {0}  BY EmptySeq
<1>3. Head(s) = s[1]  OBVIOUS
<1>4. Len(s) # 1 => Tail(s) # << >>
  <2> SUFFICES ASSUME Tail(s) = << >> PROVE Len(s) = 1  OBVIOUS
  <2>1. Len(Tail(s)) = 0  BY EmptySeq
  <2>2. Len(s) - 1 = 0  BY <2>1, <1>1
  <2> QED  BY <2>2, <1>2
<1>5. ASSUME NEW x, NEW j \in 1..Len(s), s[j] = x, x # Head(s)
      PROVE  /\ Len(s) # 1
             /\ \E i \in 1..Len(Tail(s)) : Tail(s)[i] = x
  <2>1. j # 1  BY <1>3, <1>5
  <2>2. j - 1 \in 1..Len(Tail(s)) /\ (j - 1) + 1 = j  BY <1>1, <1>2, <2>1
  <2>3. Tail(s)[j - 1] = x  BY <1>1, <1>5, <2>2
  <2>4. Len(s) # 1
    <3> DEFINE n == Len(s)
    <3>1. n \in Nat /\ j \in 1..n /\ j # 1  BY <1>2, <2>1
    <3> HIDE DEF n
    <3>2. n # 1  BY <3>1
    <3> QED  BY <3>2 DEF n
  <2> QED  BY <2>2, <2>3, <2>4
<1> QED  BY <1>1, <1>4, <1>5

-----------------------------------------------------------------------------
LEMMA TypeInit == Init => TInv
<1> SUFFICES ASSUME Init PROVE TInv  OBVIOUS
<1>1. disk \in Catalogs  BY DataAssumption DEF Init
<1>2. app \in [Kinds -> Lists] /\ mem \in Catalogs /\ snap \in [Ops -> Catalogs]
  BY EmptyLists DEF Init
<1>3. rec \in [Ops -> Ids] /\ copy \in [Ops -> SUBSET Facts]
  BY OpsAssumption DEF Init
<1>4. todo \in [Ops -> Seq(StoreKinds)]
  <2>1. << >> \in Seq(StoreKinds)  OBVIOUS
  <2> QED  BY <2>1 DEF Init
<1>5. /\ pc \in [Ops -> Steps] /\ next \in [Ops -> Nexts]
      /\ job \in [Ops -> JobKinds]
  BY DEF Init, Steps, Ended, Nexts, JobKinds
<1>6. latest \in [Kinds -> Ops \cup {NoOp}] /\ behind \in [Kinds -> BOOLEAN]
  BY DEF Init
<1>7. crashes \in 0..MaxCrashes  BY OpsAssumption DEF Init
<1>8. unlocked \in BOOLEAN /\ clean \in BOOLEAN  BY DEF Init
<1>9. TodoOK  BY DEF Init, TodoOK
<1> QED
  BY <1>1, <1>2, <1>3, <1>4, <1>5, <1>6, <1>7, <1>8, <1>9 DEF TInv, TypeOK

(* A committing step keeps the types. *)
LEMMA CommitType ==
  ASSUME TInv, NEW o \in Ops, NEW k \in Kinds, NEW l \in Lists,
         NEW then \in Nexts, Commit(o, k, l, then),
         job' \in [Ops -> JobKinds], rec' \in [Ops -> Ids],
         copy' \in [Ops -> SUBSET Facts]
  PROVE  TInv'
<1>1. app' \in [Kinds -> Lists]  BY DEF TInv, TypeOK, Commit
<1>2. snap' \in [Ops -> Catalogs]
  BY DEF TInv, TypeOK, Commit, Catalogs
<1>3. todo' \in [Ops -> Seq(StoreKinds)]
  BY DEF TInv, TypeOK, Commit
<1>4. pc' \in [Ops -> Steps] /\ next' \in [Ops -> Nexts]
  BY DEF TInv, TypeOK, Commit, Steps
<1>5. TodoOK'
  BY DEF TInv, TypeOK, TodoOK, Commit
<1>6. latest' \in [Kinds -> Ops \cup {NoOp}] /\ behind' \in [Kinds -> BOOLEAN]
  BY DEF TInv, TypeOK, Commit
<1> QED
  BY <1>1, <1>2, <1>3, <1>4, <1>5, <1>6 DEF TInv, TypeOK, Commit, data

LEMMA LogType ==
  ASSUME TInv, NEW o \in Ops, NEW f \in Facts, NEW then \in Nexts,
         Log(o, f, then),
         job' \in [Ops -> JobKinds], rec' \in [Ops -> Ids],
         copy' \in [Ops -> SUBSET Facts]
  PROVE  TInv'
<1>1. [app["logs"] EXCEPT ![o] = @ \cup {f}] \in Lists
  BY AppendFact, OpsAssumption DEF TInv, TypeOK
<1> QED  BY <1>1, CommitType DEF Log

LEMMA UpdateType ==
  ASSUME TInv, NEW o \in Ops, NEW e \in SUBSET Facts, NEW then \in Nexts,
         UpdateHistoryRecord(o, e, then), UNCHANGED local
  PROVE  TInv'
<1>1. CASE app["history"][rec[o]] = {}
  <2>1. pc' \in [Ops -> Steps] /\ TodoOK'
    BY <1>1 DEF TInv, TypeOK, TodoOK, UpdateHistoryRecord, Steps, Ended
  <2> QED
    BY <1>1, <2>1 DEF TInv, TypeOK, UpdateHistoryRecord, data, local
<1>2. CASE app["history"][rec[o]] # {}
  <2>1. [app["history"] EXCEPT ![rec[o]] = e] \in Lists
    BY AppendFact DEF TInv, TypeOK
  <2>2. Commit(o, "history", [app["history"] EXCEPT ![rec[o]] = e], then)
    BY <1>2 DEF UpdateHistoryRecord
  <2>3. /\ job' \in [Ops -> JobKinds] /\ rec' \in [Ops -> Ids]
        /\ copy' \in [Ops -> SUBSET Facts]
    BY DEF TInv, TypeOK, local
  <2> QED  BY <2>1, <2>2, <2>3, CommitType
<1> QED  BY <1>1, <1>2

(* A step that only moves an operation's program counter. *)
LEMMA MoveType ==
  ASSUME TInv, NEW o \in Ops, NEW p \in Steps \ {"save", "load"},
         pc' = [pc EXCEPT ![o] = p],
         UNCHANGED <<app, data, crashes, todo, next, snap, latest, behind>>,
         job' \in [Ops -> JobKinds], rec' \in [Ops -> Ids],
         copy' \in [Ops -> SUBSET Facts]
  PROVE  TInv'
<1>1. pc' \in [Ops -> Steps] /\ TodoOK'
  BY DEF TInv, TypeOK, TodoOK
<1> QED  BY <1>1 DEF TInv, TypeOK, data

LEMMA BeginType ==
  ASSUME TInv, NEW o \in Ops, NEW j \in JobKinds, Begin(o, j)
  PROVE  job' \in [Ops -> JobKinds]
  BY DEF TInv, TypeOK, Begin

LEMMA EditType ==
  ASSUME TInv, NEW o \in Ops, Edit(o) PROVE TInv'
<1> "edit" \in JobKinds /\ "setting" \in JobKinds /\ "ok" \in Nexts
  BY DEF JobKinds, Nexts
<1>1. ASSUME NEW k \in {"profiles", "templates"}, NEW i \in Ids,
             NEW e \in Entries, SaveEntry(o, k, i, e)
      PROVE  TInv'
  <2>1. [app[k] EXCEPT ![i] = e] \in Lists
    BY AppendFact DEF TInv, TypeOK, Entries, Facts
  <2>2. /\ job' \in [Ops -> JobKinds] /\ rec' \in [Ops -> Ids]
        /\ copy' \in [Ops -> SUBSET Facts]
    BY <1>1, BeginType DEF SaveEntry, TInv, TypeOK
  <2>3. Commit(o, k, [app[k] EXCEPT ![i] = e], "ok")  BY <1>1 DEF SaveEntry
  <2> QED  BY <2>1, <2>2, <2>3, CommitType
<1>2. ASSUME NEW k \in {"profiles", "templates"}, NEW i \in Ids,
             DeleteEntry(o, k, i)
      PROVE  TInv'
  <2>1. [app[k] EXCEPT ![i] = {}] \in Lists
    BY AppendFact DEF TInv, TypeOK
  <2>2. /\ job' \in [Ops -> JobKinds] /\ rec' \in [Ops -> Ids]
        /\ copy' \in [Ops -> SUBSET Facts]
    BY <1>2, BeginType DEF DeleteEntry, TInv, TypeOK
  <2>3. Commit(o, k, [app[k] EXCEPT ![i] = {}], "ok")  BY <1>2 DEF DeleteEntry
  <2> QED  BY <2>1, <2>2, <2>3, CommitType
<1>3. ASSUME NEW S \in SUBSET Ids, ReplaceTemplateInProfiles(o, S)
      PROVE  TInv'
  <2> DEFINE l == [i \in Ids |-> IF i \in S /\ app["profiles"][i] # {}
                                   THEN app["profiles"][i] \cup {"edited"}
                                   ELSE app["profiles"][i]]
  <2>1. l \in Lists
    BY DEF TInv, TypeOK, Lists, Facts
  <2>2. /\ job' \in [Ops -> JobKinds] /\ rec' \in [Ops -> Ids]
        /\ copy' \in [Ops -> SUBSET Facts]
    BY <1>3, BeginType DEF ReplaceTemplateInProfiles, TInv, TypeOK
  <2>3. Commit(o, "profiles", l, "ok")
    BY <1>3 DEF ReplaceTemplateInProfiles
  <2> HIDE DEF l
  <2> QED  BY <2>1, <2>2, <2>3, CommitType
<1>4. ASSUME NEW l \in {[Empty EXCEPT ![o] = {"row"}],
                       [mem["settings"] EXCEPT ![o] = {"edited"}]},
             NEW ok \in BOOLEAN, SaveSettings(o, l, ok)
      PROVE  TInv'
  <2>1. l \in Lists
    <3>1. /\ mem["settings"] \in Lists /\ o \in Ids
          /\ {"row"} \in SUBSET Facts /\ {"edited"} \in SUBSET Facts
      BY OpsAssumption DEF Facts, TInv, TypeOK, Catalogs
    <3>2. [Empty EXCEPT ![o] = {"row"}] \in Lists
      BY <3>1, EmptyLists, AppendFact
    <3>3. [mem["settings"] EXCEPT ![o] = {"edited"}] \in Lists
      BY <3>1, AppendFact
    <3> QED  BY <1>4, <3>2, <3>3
  <2>2. mem' \in Catalogs /\ disk' \in Catalogs /\ clean' \in BOOLEAN
    BY <1>4, <2>1 DEF SaveSettings, Persist, TInv, TypeOK, Catalogs
  <2>3. pc' \in [Ops -> Steps] /\ TodoOK'
    BY <1>4 DEF SaveSettings, TInv, TypeOK, TodoOK, Steps, Ended
  <2>4. job' \in [Ops -> JobKinds]
    BY <1>4, BeginType DEF SaveSettings
  <2> QED
    BY <1>4, <2>2, <2>3, <2>4 DEF SaveSettings, TInv, TypeOK
<1> QED  BY <1>1, <1>2, <1>3, <1>4 DEF Edit

LEMMA TransferType ==
  ASSUME TInv, NEW o \in Ops, Transfer(o) PROVE TInv'
<1> USE DEF Nexts, Facts
<1>1. ASSUME NEW j \in Jobs, StartTransfer(o, j) PROVE TInv'
  <2>1. j \in JobKinds  BY <1>1 DEF StartTransfer, JobKinds
  <2>2. /\ job' \in [Ops -> JobKinds] /\ rec' \in [Ops -> Ids]
        /\ copy' \in [Ops -> SUBSET Facts]
    BY <1>1, <2>1, BeginType DEF StartTransfer, TInv, TypeOK
  <2>3. Log(o, "start", "transfer")  BY <1>1 DEF StartTransfer
  <2> QED  BY <2>2, <2>3, LogType
<1>2. ASSUME UNCHANGED local
      PROVE  /\ job' \in [Ops -> JobKinds] /\ rec' \in [Ops -> Ids]
             /\ copy' \in [Ops -> SUBSET Facts]
  BY <1>2 DEF TInv, TypeOK, local
<1>3. CASE TransferLog(o)
  <2>1. pc[o] \in Nexts  BY <1>3 DEF TransferLog
  <2> QED  BY <1>2, <1>3, <2>1, LogType DEF TransferLog
<1>4. CASE TransferFails(o)
  BY <1>2, <1>4, LogType DEF TransferFails
<1>5. CASE BackupRecord(o)
  <2>1. [app["history"] EXCEPT ![o] = {"row"}] \in Lists
    BY AppendFact, OpsAssumption DEF TInv, TypeOK
  <2> QED  BY <1>2, <1>5, <2>1, CommitType DEF BackupRecord
<1>6. CASE BackupCapture(o)
  BY <1>6, UpdateType DEF BackupCapture
<1>7. CASE BackupComplete(o)
  BY <1>2, <1>7, LogType DEF BackupComplete
<1>8. CASE RestorePreQueryFails(o)
  BY <1>2, <1>8, LogType DEF RestorePreQueryFails
<1>9. CASE RestoreComplete(o)
  BY <1>2, <1>9, LogType DEF RestoreComplete
<1>10. ASSUME NEW outcome \in {"ok", "failed"}, RestorePostQuery(o, outcome)
       PROVE  TInv'
  BY <1>2, <1>10, LogType DEF RestorePostQuery
<1>11. CASE RestoreNoPostQuery(o)
  <2>1. "ok" \in Steps \ {"save", "load"}  BY DEF Steps, Ended
  <2> QED  BY <1>2, <1>11, <2>1, MoveType DEF RestoreNoPostQuery
<1> QED
  BY <1>1, <1>3, <1>4, <1>5, <1>6, <1>7, <1>8, <1>9, <1>10, <1>11 DEF Transfer

LEMMA VerifyType ==
  ASSUME TInv, NEW o \in Ops, Verify(o) PROVE TInv'
<1> USE DEF Facts
<1>1. "ok" \in Nexts  BY DEF Nexts
<1>2. ASSUME NEW j \in Jobs, NEW i \in Ids, VerifyRead(o, j, i) PROVE TInv'
  <2>1. j \in JobKinds  BY <1>2 DEF VerifyRead, JobKinds
  <2>2. /\ job' \in [Ops -> JobKinds] /\ rec' \in [Ops -> Ids]
        /\ copy' \in [Ops -> SUBSET Facts]
    BY <1>2, <2>1, BeginType DEF VerifyRead, TInv, TypeOK, Lists
  <2>3. "verifying" \in Steps \ {"save", "load"}  BY DEF Steps, Ended
  <2> QED  BY <1>2, <2>2, <2>3, MoveType DEF VerifyRead
<1>3. CASE VerifyWrite(o)
  <2> DEFINE e == copy[o] \cup
                  {IF job[o] = "deepVerify" THEN "deep" ELSE "quick"}
  <2>1. e \in SUBSET Facts  BY DEF TInv, TypeOK
  <2>2. UpdateHistoryRecord(o, e, "ok") /\ UNCHANGED local
    BY <1>3 DEF VerifyWrite
  <2> HIDE DEF e
  <2> QED  BY <1>1, <2>1, <2>2, UpdateType
<1>4. CASE VerifyFails(o)
  <2>1. "failed" \in Steps \ {"save", "load"}  BY DEF Steps, Ended
  <2>2. /\ job' \in [Ops -> JobKinds] /\ rec' \in [Ops -> Ids]
        /\ copy' \in [Ops -> SUBSET Facts]
    BY <1>4 DEF VerifyFails, TInv, TypeOK, local
  <2> QED  BY <1>4, <2>1, <2>2, MoveType DEF VerifyFails
<1> QED  BY <1>2, <1>3, <1>4 DEF Verify

LEMMA ImportType ==
  ASSUME TInv, NEW o \in Ops, Import(o) PROVE TInv'
<1> USE DEF Nexts
<1>1. ASSUME NEW b \in Bundles, ImportMerge(o, b) PROVE TInv'
  <2>1. b \in Catalogs  BY DataAssumption
  <2>2. Merged(app, b) \in [Kinds -> Lists]
    BY <2>1, MergedType DEF TInv, TypeOK
  <2>3. app' \in [Kinds -> Lists] /\ snap' \in [Ops -> Catalogs]
    BY <1>1, <2>1, <2>2 DEF ImportMerge, TInv, TypeOK, Catalogs
  <2>4. /\ Order \in Seq(StoreKinds) /\ Order # << >>
        /\ Append(Order, "settings") \in Seq(StoreKinds)
        /\ Append(Order, "settings") # << >>
    BY DEF Order
  <2>5. todo' \in [Ops -> Seq(StoreKinds)] /\ TodoOK'
    BY <1>1, <2>4 DEF ImportMerge, TInv, TypeOK, TodoOK
  <2>6. pc' \in [Ops -> Steps] /\ next' \in [Ops -> Nexts]
    BY <1>1 DEF ImportMerge, TInv, TypeOK, Steps
  <2>7. latest' \in [Kinds -> Ops \cup {NoOp}]
    BY <1>1 DEF ImportMerge
  <2>8. job' \in [Ops -> JobKinds]
    BY <1>1, BeginType DEF ImportMerge, JobKinds
  <2> QED
    BY <1>1, <2>3, <2>5, <2>6, <2>7, <2>8 DEF ImportMerge, TInv, TypeOK, data
<1>2. CASE Load(o)
  <2>1. todo[o] # << >> /\ todo[o] \in Seq(StoreKinds)
    BY <1>2 DEF Load, TInv, TypeOK, TodoOK
  <2>2. Head(todo[o]) \in StoreKinds /\ Tail(todo[o]) \in Seq(StoreKinds)
    BY <2>1
  <2>3. snap' \in [Ops -> Catalogs]
    BY <1>2, <2>2 DEF Load, TInv, TypeOK, Catalogs
  <2>4. /\ todo' \in [Ops -> Seq(StoreKinds)]
        /\ pc' \in [Ops -> Steps]
    <3>1. todo' = [todo EXCEPT ![o] = Tail(todo[o])]
      BY <1>2 DEF Load, TInv, TypeOK
    <3>2. todo' \in [Ops -> Seq(StoreKinds)]
      BY <3>1, <2>2 DEF TInv, TypeOK
    <3>3. pc' \in [Ops -> Steps]
      BY <1>2 DEF Load, TInv, TypeOK, Steps
    <3> QED  BY <3>2, <3>3
  <2>5. Len(todo[o]) # 1 => Tail(todo[o]) # << >>
    BY <2>1, TailFacts
  <2>6. TodoOK'
    BY <1>2, <2>5 DEF Load, TInv, TypeOK, TodoOK
  <2> QED
    BY <1>2, <2>3, <2>4, <2>6 DEF Load, TInv, TypeOK, data, local
<1>3. CASE Assign(o)
  <2> DEFINE profiles == Migrated(snap[o]["profiles"])
  <2>1. profiles \in Lists
    BY MigratedType DEF TInv, TypeOK, Catalogs
  <2>2. snap' = [snap EXCEPT ![o]["profiles"] = profiles]
    BY <1>3 DEF Assign
  <2>3. app' = [k \in Kinds |-> IF k = "profiles" THEN profiles ELSE snap[o][k]]
    BY <1>3 DEF Assign
  <2> HIDE DEF profiles
  <2>4. app' \in [Kinds -> Lists] /\ snap' \in [Ops -> Catalogs]
    BY <2>1, <2>2, <2>3 DEF TInv, TypeOK, Catalogs
  <2>5. todo' \in [Ops -> Seq(StoreKinds)] /\ TodoOK'
    <3>1. PICK m \in BOOLEAN :
            /\ todo' = [todo EXCEPT ![o] = IF m THEN <<"profiles">> ELSE << >>]
            /\ pc' = [pc EXCEPT ![o] = IF m THEN "save" ELSE "ok"]
      BY <1>3 DEF Assign
    <3>2. <<"profiles">> \in Seq(StoreKinds) /\ << >> \in Seq(StoreKinds)
      OBVIOUS
    <3>3. todo' \in [Ops -> Seq(StoreKinds)]
      BY <3>1, <3>2 DEF TInv, TypeOK
    <3>4. TodoOK'
      BY <3>1 DEF TInv, TypeOK, TodoOK
    <3> QED  BY <3>3, <3>4
  <2>6. pc' \in [Ops -> Steps] /\ next' \in [Ops -> Nexts]
    BY <1>3 DEF Assign, TInv, TypeOK, Steps, Ended
  <2>7. latest' \in [Kinds -> Ops \cup {NoOp}]
    BY <1>3 DEF Assign
  <2>8. behind' \in [Kinds -> BOOLEAN]
    BY <1>3, Zenon DEF Assign
  <2> QED
    BY <1>3, <2>4, <2>5, <2>6, <2>7, <2>8
       DEF Assign, TInv, TypeOK, data, local
<1> QED  BY <1>1, <1>2, <1>3 DEF Import

LEMMA SaveType ==
  ASSUME TInv, NEW o \in Ops, NEW ok \in BOOLEAN, Save(o, ok) PROVE TInv'
<1> DEFINE k == Head(todo[o])
<1>1. todo[o] # << >> /\ todo[o] \in Seq(StoreKinds)
  BY DEF Save, TInv, TypeOK, TodoOK
<1>2. k \in StoreKinds /\ Tail(todo[o]) \in Seq(StoreKinds)
  BY <1>1
<1>3. [mem EXCEPT ![k] = snap[o][k]] \in Catalogs
  BY <1>2 DEF TInv, TypeOK, Catalogs
<1>4. mem' \in Catalogs /\ disk' \in Catalogs /\ clean' \in BOOLEAN
  BY <1>3 DEF Save, Persist, TInv, TypeOK
<1>5. Order \in Seq(StoreKinds) /\ Order # << >>
  BY DEF Order
<1>6. todo' \in [Ops -> Seq(StoreKinds)]
  <2>1. PICK t \in {<< >>, Order, Tail(todo[o])} :
          todo' = [todo EXCEPT ![o] = t]
    BY DEF Save, TInv, TypeOK
  <2>2. << >> \in Seq(StoreKinds)  OBVIOUS
  <2> QED  BY <2>1, <2>2, <1>2, <1>5 DEF TInv, TypeOK
<1>7. pc' \in [Ops -> Steps]
  BY DEF Save, TInv, TypeOK, Steps, Nexts, Ended
<1>8. Len(todo[o]) # 1 => Tail(todo[o]) # << >>
  BY <1>1, TailFacts
<1>9. TodoOK'
  <2> SUFFICES ASSUME NEW p \in Ops, pc'[p] \in {"save", "load"}
               PROVE  todo'[p] # << >>
    BY DEF TodoOK
  <2>1. CASE p # o
    BY <2>1 DEF Save, TInv, TypeOK, TodoOK
  <2>2. CASE p = o
    <3>1. ok \/ ErrorIgnored(o, k)
      BY <2>2 DEF Save, TInv, TypeOK
    <3>2. CASE Len(todo[o]) = 1
      <4>1. next[o] = "load"
        BY <2>2, <3>1, <3>2 DEF Save, TInv, TypeOK, Nexts
      <4> QED  BY <2>2, <3>1, <3>2, <4>1, <1>5 DEF Save, TInv, TypeOK
    <3>3. CASE Len(todo[o]) # 1
      BY <2>2, <3>1, <3>3, <1>8 DEF Save, TInv, TypeOK
    <3> QED  BY <3>2, <3>3
  <2> QED  BY <2>1, <2>2
<1>10. latest' \in [Kinds -> Ops \cup {NoOp}]
  BY DEF Save, TInv, TypeOK
<1>11. behind' \in [Kinds -> BOOLEAN]
  BY Zenon DEF Save, TInv, TypeOK
<1> QED
  BY <1>4, <1>6, <1>7, <1>9, <1>10, <1>11 DEF Save, TInv, TypeOK, local

LEMMA UnlockType ==
  ASSUME TInv, NEW ok \in BOOLEAN, Unlock(ok) PROVE TInv'
<1> DEFINE m == [Applied(disk) EXCEPT !["profiles"] = Migrated(@)]
<1>1. m \in Catalogs
  BY AppliedType, MigratedType DEF TInv, TypeOK, Catalogs
<1>2. app' = [k \in Kinds |-> m[k]]
  BY DEF Unlock
<1>3. mem' = m /\ disk' \in {m, disk} /\ clean' \in {ok, TRUE}
  BY DEF Unlock, Persist
<1> HIDE DEF m
<1>4. app' \in [Kinds -> Lists]  BY <1>1, <1>2 DEF Catalogs
<1>5. mem' \in Catalogs /\ disk' \in Catalogs /\ clean' \in BOOLEAN
  BY <1>1, <1>3 DEF TInv, TypeOK
<1>6. /\ latest' \in [Kinds -> Ops \cup {NoOp}]
      /\ behind' \in [Kinds -> BOOLEAN]
  BY DEF Unlock
<1>7. TodoOK'  BY DEF Unlock, TInv, TodoOK
<1>8. unlocked' \in BOOLEAN  BY DEF Unlock
<1> QED
  BY <1>4, <1>5, <1>6, <1>7, <1>8 DEF Unlock, TInv, TypeOK, local

LEMMA CrashType ==
  ASSUME TInv, Crash PROVE TInv'
<1>1. app' \in [Kinds -> Lists] /\ mem' \in Catalogs
  BY EmptyLists DEF Crash
<1>2. pc' \in [Ops -> Steps]  BY DEF Crash, TInv, TypeOK, Steps, Ended
<1>3. /\ latest' \in [Kinds -> Ops \cup {NoOp}]
      /\ behind' \in [Kinds -> BOOLEAN]
  BY DEF Crash
<1>4. TodoOK'
  <2> SUFFICES ASSUME NEW o \in Ops, pc'[o] \in {"save", "load"}
               PROVE  todo'[o] # << >>
    BY DEF TodoOK
  <2>1. pc'[o] = pc[o]  BY DEF Crash, TInv, TypeOK
  <2> QED  BY <2>1 DEF Crash, TInv, TodoOK
<1>5. crashes' \in 0..MaxCrashes
  BY OpsAssumption DEF Crash, TInv, TypeOK
<1>6. unlocked' \in BOOLEAN /\ clean' \in BOOLEAN
  BY DEF Crash
<1> QED
  BY <1>1, <1>2, <1>3, <1>4, <1>5, <1>6 DEF Crash, TInv, TypeOK, local

LEMMA TypeNext == TInv /\ [Next]_vars => TInv'
<1> SUFFICES ASSUME TInv, [Next]_vars PROVE TInv'  OBVIOUS
<1>1. ASSUME NEW ok \in BOOLEAN, Unlock(ok) PROVE TInv'
  BY <1>1, UnlockType
<1>2. CASE Crash  BY <1>2, CrashType
<1>3. ASSUME NEW o \in Ops, Edit(o) PROVE TInv'  BY <1>3, EditType
<1>4. ASSUME NEW o \in Ops, Transfer(o) PROVE TInv'  BY <1>4, TransferType
<1>5. ASSUME NEW o \in Ops, Verify(o) PROVE TInv'  BY <1>5, VerifyType
<1>6. ASSUME NEW o \in Ops, Import(o) PROVE TInv'  BY <1>6, ImportType
<1>7. ASSUME NEW o \in Ops, NEW ok \in BOOLEAN, Save(o, ok) PROVE TInv'
  BY <1>7, SaveType
<1>8. CASE UNCHANGED vars
  BY <1>8 DEF vars, TInv, TypeOK, TodoOK, data, local
<1> QED
  BY <1>1, <1>2, <1>3, <1>4, <1>5, <1>6, <1>7, <1>8 DEF Next

(* Every variable keeps its type, for any number of operations and ids. *)
THEOREM TypeCorrect == Spec => []TypeOK
<1>1. Init => TInv  BY TypeInit
<1>2. TInv /\ [Next]_vars => TInv'  BY TypeNext
<1>3. TInv => TypeOK  BY DEF TInv
<1> QED  BY <1>1, <1>2, <1>3, PTL DEF Spec

-----------------------------------------------------------------------------
(* Committing a list makes its operation the owner of the newest snapshot;  *)
(* the operation had nothing pending before.                                *)
LEMMA CommitInv ==
  ASSUME Inv, NEW o \in Ops, NEW k \in Kinds, NEW l, NEW then,
         Commit(o, k, l, then), pc[o] # "save"
  PROVE  DiskMirrorsStore' /\ LatestOK'
<1>1. DiskMirrorsStore'
  BY DEF Inv, DiskMirrorsStore, Commit, data, Applied
<1>2. ASSUME NEW q \in Kinds, NEW p \in Ops, latest'[q] = p
      PROVE  Pending(p, q)' /\ snap'[p][q] = app'[q]
  <2>1. CASE q = k
    <3>1. p = o  BY <1>2, <2>1 DEF Commit, Inv, TInv, TypeOK
    <3>2. pc'[o] = "save" /\ todo'[o] = <<k>>
      BY DEF Commit, Inv, TInv, TypeOK
    <3>3. Pending(p, q)'  BY <2>1, <3>1, <3>2 DEF Pending
    <3>4. snap'[p][q] = l /\ app'[q] = l
      BY <2>1, <3>1 DEF Commit, Inv, TInv, TypeOK, Catalogs
    <3> QED  BY <3>3, <3>4
  <2>2. CASE q # k
    <3>1. latest[q] = p  BY <1>2, <2>2 DEF Commit, Inv, TInv, TypeOK
    <3>2. Pending(p, q) /\ snap[p][q] = app[q]
      BY <3>1 DEF Inv, LatestOK
    <3>3. p # o  BY <3>2 DEF Pending
    <3>4. /\ pc'[p] = pc[p] /\ todo'[p] = todo[p] /\ snap'[p] = snap[p]
          /\ app'[q] = app[q]
      BY <2>2, <3>3 DEF Commit, Inv, TInv, TypeOK
    <3> QED  BY <3>2, <3>4 DEF Pending
  <2> QED  BY <2>1, <2>2
<1>3. ASSUME NEW q \in Kinds, latest'[q] = NoOp, ~behind'[q]
      PROVE  mem'[q] = app'[q]
  <2>1. q # k  BY <1>3, OpsAssumption DEF Commit, Inv, TInv, TypeOK
  <2>2. /\ latest[q] = NoOp /\ ~behind[q]
        /\ mem'[q] = mem[q] /\ app'[q] = app[q]
    BY <1>3, <2>1 DEF Commit, Inv, TInv, TypeOK, data
  <2> QED  BY <2>2 DEF Inv, LatestOK
<1> QED  BY <1>1, <1>2, <1>3 DEF LatestOK

(* A step of an operation that saves nothing and changes no list. *)
LEMMA MoveInv ==
  ASSUME Inv, NEW o \in Ops, NEW p,
         pc' = [pc EXCEPT ![o] = p], pc[o] # "save",
         UNCHANGED <<app, data, todo, snap, latest, behind>>
  PROVE  DiskMirrorsStore' /\ LatestOK'
<1>1. DiskMirrorsStore'  BY DEF Inv, DiskMirrorsStore, data, Applied
<1>2. ASSUME NEW q \in Kinds, NEW r \in Ops, latest'[q] = r
      PROVE  Pending(r, q)' /\ snap'[r][q] = app'[q]
  <2>1. Pending(r, q) /\ snap[r][q] = app[q]
    BY <1>2 DEF Inv, LatestOK
  <2>2. r # o  BY <2>1 DEF Pending
  <2>3. pc'[r] = pc[r]  BY <2>2 DEF Inv, TInv, TypeOK
  <2> QED  BY <2>1, <2>3 DEF Pending
<1>3. ASSUME NEW q \in Kinds, latest'[q] = NoOp, ~behind'[q]
      PROVE  mem'[q] = app'[q]
  BY <1>3 DEF Inv, LatestOK, data
<1> QED  BY <1>1, <1>2, <1>3 DEF LatestOK

LEMMA BeginIdle ==
  ASSUME NEW o \in Ops, NEW j, Begin(o, j) PROVE pc[o] # "save"
  BY DEF Begin

LEMMA UpdateInv ==
  ASSUME Inv, NEW o \in Ops, NEW e, NEW then,
         UpdateHistoryRecord(o, e, then), pc[o] # "save"
  PROVE  DiskMirrorsStore' /\ LatestOK'
<1>1. CASE app["history"][rec[o]] = {}
  BY <1>1, MoveInv DEF UpdateHistoryRecord
<1>2. CASE app["history"][rec[o]] # {}
  BY <1>2, CommitInv DEF UpdateHistoryRecord
<1> QED  BY <1>1, <1>2

LEMMA LogInv ==
  ASSUME Inv, NEW o \in Ops, NEW f, NEW then, Log(o, f, then), pc[o] # "save"
  PROVE  DiskMirrorsStore' /\ LatestOK'
  BY CommitInv DEF Log

LEMMA EditInv ==
  ASSUME Inv, NEW o \in Ops, Edit(o) PROVE DiskMirrorsStore' /\ LatestOK'
<1>1. ASSUME NEW k \in {"profiles", "templates"}, NEW i \in Ids,
             NEW e \in Entries, SaveEntry(o, k, i, e)
      PROVE  DiskMirrorsStore' /\ LatestOK'
  BY <1>1, BeginIdle, CommitInv DEF SaveEntry
<1>2. ASSUME NEW k \in {"profiles", "templates"}, NEW i \in Ids,
             DeleteEntry(o, k, i)
      PROVE  DiskMirrorsStore' /\ LatestOK'
  BY <1>2, BeginIdle, CommitInv DEF DeleteEntry
<1>3. ASSUME NEW S \in SUBSET Ids, ReplaceTemplateInProfiles(o, S)
      PROVE  DiskMirrorsStore' /\ LatestOK'
  BY <1>3, BeginIdle, CommitInv DEF ReplaceTemplateInProfiles
<1>4. ASSUME NEW l \in {[Empty EXCEPT ![o] = {"row"}],
                       [mem["settings"] EXCEPT ![o] = {"edited"}]},
             NEW ok \in BOOLEAN, SaveSettings(o, l, ok)
      PROVE  DiskMirrorsStore' /\ LatestOK'
  <2>1. pc[o] # "save"  BY <1>4, BeginIdle DEF SaveSettings
  <2>2. DiskMirrorsStore'
    BY <1>4 DEF SaveSettings, Persist, DiskMirrorsStore
  <2>3. ASSUME NEW q \in Kinds, NEW r \in Ops, latest'[q] = r
        PROVE  Pending(r, q)' /\ snap'[r][q] = app'[q]
    <3>1. Pending(r, q) /\ snap[r][q] = app[q]
      BY <1>4, <2>3 DEF SaveSettings, Inv, LatestOK
    <3>2. r # o  BY <2>1, <3>1 DEF Pending
    <3>3. pc'[r] = pc[r]
      BY <1>4, <3>2 DEF SaveSettings, Inv, TInv, TypeOK
    <3> QED  BY <1>4, <3>1, <3>3 DEF SaveSettings, Pending
  <2>4. ASSUME NEW q \in Kinds, latest'[q] = NoOp, ~behind'[q]
        PROVE  mem'[q] = app'[q]
    <3>1. mem'[q] = mem[q]
      BY <1>4 DEF SaveSettings, Persist, Inv, TInv, TypeOK, Catalogs
    <3> QED  BY <1>4, <2>4, <3>1 DEF SaveSettings, Inv, LatestOK
  <2> QED  BY <2>2, <2>3, <2>4 DEF LatestOK
<1> QED  BY <1>1, <1>2, <1>3, <1>4 DEF Edit

LEMMA TransferInv ==
  ASSUME Inv, NEW o \in Ops, Transfer(o) PROVE DiskMirrorsStore' /\ LatestOK'
<1>1. ASSUME NEW j \in Jobs, StartTransfer(o, j)
      PROVE  DiskMirrorsStore' /\ LatestOK'
  BY <1>1, BeginIdle, LogInv DEF StartTransfer
<1>2. CASE TransferLog(o)  BY <1>2, LogInv DEF TransferLog
<1>3. CASE TransferFails(o)  BY <1>3, LogInv DEF TransferFails
<1>4. CASE BackupRecord(o)  BY <1>4, CommitInv DEF BackupRecord
<1>5. CASE BackupCapture(o)  BY <1>5, UpdateInv DEF BackupCapture
<1>6. CASE BackupComplete(o)  BY <1>6, LogInv DEF BackupComplete
<1>7. CASE RestorePreQueryFails(o)  BY <1>7, LogInv DEF RestorePreQueryFails
<1>8. CASE RestoreComplete(o)  BY <1>8, LogInv DEF RestoreComplete
<1>9. ASSUME NEW outcome \in {"ok", "failed"}, RestorePostQuery(o, outcome)
      PROVE  DiskMirrorsStore' /\ LatestOK'
  BY <1>9, LogInv DEF RestorePostQuery
<1>10. CASE RestoreNoPostQuery(o)  BY <1>10, MoveInv DEF RestoreNoPostQuery
<1> QED
  BY <1>1, <1>2, <1>3, <1>4, <1>5, <1>6, <1>7, <1>8, <1>9, <1>10 DEF Transfer

LEMMA VerifyInv ==
  ASSUME Inv, NEW o \in Ops, Verify(o) PROVE DiskMirrorsStore' /\ LatestOK'
<1>1. ASSUME NEW j \in Jobs, NEW i \in Ids, VerifyRead(o, j, i)
      PROVE  DiskMirrorsStore' /\ LatestOK'
  BY <1>1, BeginIdle, MoveInv DEF VerifyRead
<1>2. CASE VerifyWrite(o)  BY <1>2, UpdateInv DEF VerifyWrite
<1>3. CASE VerifyFails(o)  BY <1>3, MoveInv DEF VerifyFails
<1> QED  BY <1>1, <1>2, <1>3 DEF Verify

LEMMA ImportInv ==
  ASSUME Inv, NEW o \in Ops, Import(o) PROVE DiskMirrorsStore' /\ LatestOK'
<1>1. ASSUME NEW b \in Bundles, ImportMerge(o, b)
      PROVE  DiskMirrorsStore' /\ LatestOK'
  <2>1. DiskMirrorsStore'
    BY <1>1 DEF ImportMerge, Inv, DiskMirrorsStore, data, Applied
  <2>2. ASSUME NEW q \in Kinds
        PROVE  /\ latest'[q] = o
               /\ Pending(o, q)' /\ snap'[o][q] = app'[q]
    <3>1. pc'[o] = "save" /\ snap'[o][q] = Merged(app, b)[q]
      BY <1>1 DEF ImportMerge, Inv, TInv, TypeOK
    <3>2. \E j \in 1..Len(todo'[o]) : todo'[o][j] = q
      <4>1. todo'[o] \in {Order, Append(Order, "settings")}
        BY <1>1 DEF ImportMerge, Inv, TInv, TypeOK
      <4>2. \E j \in 1..4 : Order[j] = q /\ Append(Order, "settings")[j] = q
        BY DEF Order
      <4>3. Len(Order) = 4 /\ Len(Append(Order, "settings")) = 5
        BY DEF Order
      <4> QED  BY <4>1, <4>2, <4>3
    <3> QED  BY <1>1, <3>1, <3>2 DEF ImportMerge, Pending
  <2>3. ASSUME NEW q \in Kinds PROVE latest'[q] # NoOp
    BY <2>2, OpsAssumption
  <2> QED  BY <2>1, <2>2, <2>3 DEF LatestOK
<1>2. CASE Load(o)
  <2>1. DiskMirrorsStore'
    BY <1>2 DEF Load, Inv, DiskMirrorsStore, data, Applied
  <2>2. ASSUME NEW q \in Kinds, NEW r \in Ops, latest'[q] = r
        PROVE  Pending(r, q)' /\ snap'[r][q] = app'[q]
    <3>1. Pending(r, q) /\ snap[r][q] = app[q]
      BY <1>2, <2>2 DEF Load, Inv, LatestOK
    <3>2. r # o  BY <1>2, <3>1 DEF Load, Pending
    <3>3. pc'[r] = pc[r] /\ todo'[r] = todo[r] /\ snap'[r] = snap[r]
      BY <1>2, <3>2 DEF Load, Inv, TInv, TypeOK
    <3> QED  BY <1>2, <3>1, <3>3 DEF Load, Pending
  <2>3. ASSUME NEW q \in Kinds, latest'[q] = NoOp, ~behind'[q]
        PROVE  mem'[q] = app'[q]
    BY <1>2, <2>3 DEF Load, Inv, LatestOK, data
  <2> QED  BY <2>1, <2>2, <2>3 DEF LatestOK
<1>3. CASE Assign(o)
  <2> DEFINE profiles == Migrated(snap[o]["profiles"])
             migrated == profiles # snap[o]["profiles"]
             saving   == IF migrated THEN {"profiles"} ELSE {}
  <2>1. DiskMirrorsStore'
    BY <1>3 DEF Assign, Inv, DiskMirrorsStore, data, Applied
  <2>2. ASSUME NEW q \in Kinds, NEW r \in Ops, latest'[q] = r
        PROVE  Pending(r, q)' /\ snap'[r][q] = app'[q]
    <3>1. latest'[q] = IF q \in saving THEN o ELSE NoOp
      BY <1>3 DEF Assign
    <3>2. q = "profiles" /\ migrated /\ r = o
      BY <2>2, <3>1, OpsAssumption
    <3>3. pc'[o] = "save" /\ todo'[o] = <<"profiles">>
      BY <1>3, <3>2 DEF Assign, Inv, TInv, TypeOK
    <3>4. app'["profiles"] = profiles /\ snap'[o]["profiles"] = profiles
      BY <1>3 DEF Assign, Inv, TInv, TypeOK, Catalogs
    <3> QED  BY <3>2, <3>3, <3>4 DEF Pending
  <2>3. ASSUME NEW q \in Kinds, latest'[q] = NoOp, ~behind'[q]
        PROVE  mem'[q] = app'[q]
    <3>1. latest'[q] = IF q \in saving THEN o ELSE NoOp
      BY <1>3 DEF Assign
    <3>2. q \notin saving  BY <2>3, <3>1, OpsAssumption
    <3>3. behind'[q] <=> q \notin saving /\ mem[q] # snap[o][q]
      BY <1>3, Zenon DEF Assign
    <3>4. mem[q] = snap[o][q]  BY <2>3, <3>2, <3>3
    <3>5. app'[q] = IF q = "profiles" THEN profiles ELSE snap[o][q]
      BY <1>3 DEF Assign
    <3>6. q = "profiles" => profiles = snap[o]["profiles"]
      BY <3>2
    <3>7. mem' = mem  BY <1>3 DEF Assign, data
    <3> HIDE DEF profiles
    <3> QED  BY <3>4, <3>5, <3>6, <3>7
  <2> QED  BY <2>1, <2>2, <2>3 DEF LatestOK
<1> QED  BY <1>1, <1>2, <1>3 DEF Import

LEMMA SaveInv ==
  ASSUME Inv, NEW o \in Ops, NEW ok \in BOOLEAN, Save(o, ok)
  PROVE  DiskMirrorsStore' /\ LatestOK'
<1> DEFINE k       == Head(todo[o])
           goOn    == ok \/ ErrorIgnored(o, k)
           newest  == {q \in Kinds : latest[q] = o}
           dropped == IF goOn THEN {} ELSE newest \ {k}
<1>1. todo[o] # << >> /\ todo[o] \in Seq(StoreKinds) /\ pc[o] = "save"
  BY DEF Save, Inv, TInv, TypeOK, TodoOK
<1>2. k \in StoreKinds  BY <1>1, TailFacts
<1>3. /\ mem' = [mem EXCEPT ![k] = snap[o][k]]
      /\ disk' = IF ok THEN [mem EXCEPT ![k] = snap[o][k]] ELSE disk
      /\ clean' = ok
      /\ app' = app /\ snap' = snap
  BY DEF Save, Persist
<1>4. DiskMirrorsStore'
  BY <1>3 DEF DiskMirrorsStore
<1>5. ASSUME NEW q \in Kinds
      PROVE  /\ latest'[q] = IF q \in dropped \cup (newest \cap {k})
                               THEN NoOp ELSE latest[q]
             /\ q \in dropped => behind'[q]
             /\ q \notin dropped /\ q = k /\ q \notin newest
                   => (behind'[q] <=> behind[q] \/ latest[q] = NoOp)
             /\ q \notin dropped /\ q # k => (behind'[q] <=> behind[q])
  <2>1. latest'[q] = IF q \in dropped \cup (newest \cap {k})
                       THEN NoOp ELSE latest[q]
    BY DEF Save
  <2>2. behind'[q] = CASE q \in dropped -> TRUE
                       [] q = k /\ q \in newest -> FALSE
                       [] OTHER -> behind[q] \/ (q = k /\ latest[q] = NoOp)
    BY Zenon DEF Save
  <2> HIDE DEF k, dropped, newest
  <2>3. q \in dropped => behind'[q]
    <3> SUFFICES ASSUME q \in dropped PROVE behind'[q]  OBVIOUS
    <3>1. ~(q = k /\ q \in newest)  BY DEF dropped
    <3> QED  BY <2>2, <3>1
  <2>4. q \notin dropped /\ ~(q = k /\ q \in newest)
          => (behind'[q] <=> behind[q] \/ (q = k /\ latest[q] = NoOp))
    BY <2>2
  <2> QED  BY <2>1, <2>3, <2>4
<1>6. ASSUME NEW q \in Kinds, NEW r \in Ops, latest'[q] = r
      PROVE  Pending(r, q)' /\ snap'[r][q] = app'[q]
  <2>1. latest[q] = r /\ q \notin dropped /\ (q = k => r # o)
    BY <1>5, <1>6, OpsAssumption
  <2>2. Pending(r, q) /\ snap[r][q] = app[q]
    BY <2>1 DEF Inv, LatestOK
  <2>3. CASE r # o
    <3>1. pc'[r] = pc[r] /\ todo'[r] = todo[r]
      BY <2>3 DEF Save, Inv, TInv, TypeOK
    <3> QED  BY <1>3, <2>2, <3>1 DEF Pending
  <2>4. CASE r = o
    <3>1. q # k /\ goOn  BY <2>1, <2>4
    <3>2. \E j \in 1..Len(todo[o]) : todo[o][j] = q
      BY <2>2, <2>4 DEF Pending
    <3>3. /\ Len(todo[o]) # 1
          /\ \E j \in 1..Len(Tail(todo[o])) : Tail(todo[o])[j] = q
      BY <1>1, <3>1, <3>2, TailFacts
    <3>4. pc'[o] = "save" /\ todo'[o] = Tail(todo[o])
      BY <3>1, <3>3 DEF Save, Inv, TInv, TypeOK
    <3> QED  BY <1>3, <2>2, <2>4, <3>3, <3>4 DEF Pending
  <2> QED  BY <2>3, <2>4
<1>7. ASSUME NEW q \in Kinds, latest'[q] = NoOp, ~behind'[q]
      PROVE  mem'[q] = app'[q]
  <2>1. q \notin dropped  BY <1>5, <1>7
  <2>2. CASE q = k /\ q \in newest
    <3>1. snap[o][q] = app[q]  BY <2>2 DEF Inv, LatestOK
    <3> QED  BY <1>2, <1>3, <2>2, <3>1 DEF Inv, TInv, TypeOK, Catalogs
  <2>3. CASE q = k /\ q \notin newest
    BY <1>5, <1>7, <2>1, <2>3
  <2>4. CASE q # k
    <3>1. latest[q] = NoOp /\ ~behind[q]
      BY <1>5, <1>7, <2>1, <2>4
    <3>2. mem[q] = app[q]  BY <3>1 DEF Inv, LatestOK
    <3> QED  BY <1>3, <2>4, <3>2 DEF Inv, TInv, TypeOK, Catalogs
  <2> QED  BY <2>2, <2>3, <2>4
<1> QED  BY <1>4, <1>6, <1>7 DEF LatestOK

LEMMA UnlockInv ==
  ASSUME Inv, NEW ok \in BOOLEAN, Unlock(ok)
  PROVE  DiskMirrorsStore' /\ LatestOK'
<1> DEFINE m == [Applied(disk) EXCEPT !["profiles"] = Migrated(@)]
<1>1. LatestOK'
  <2>1. ASSUME NEW q \in Kinds
        PROVE  latest'[q] = NoOp /\ mem'[q] = app'[q]
    BY DEF Unlock, Persist
  <2> QED  BY <2>1, OpsAssumption DEF LatestOK
<1>2. DiskMirrorsStore'
  <2>1. disk \in Catalogs  BY DEF Inv, TInv, TypeOK
  <2>2. CASE m["profiles"] # disk["profiles"]
    BY <2>2 DEF Unlock, Persist, DiskMirrorsStore
  <2>3. CASE m["profiles"] = disk["profiles"]
    <3>1. mem' = m /\ disk' = disk  BY <2>3 DEF Unlock
    <3>2. Applied(disk) \in [StoreKinds -> Lists]
      BY <2>1, AppliedType DEF Catalogs
    <3>3. m = Applied(disk)
      BY <2>1, <2>3, <3>2, AppliedType
    <3> QED  BY <3>1, <3>3 DEF DiskMirrorsStore
  <2> QED  BY <2>2, <2>3
<1> QED  BY <1>1, <1>2

LEMMA InvInit == Init => Inv
<1> SUFFICES ASSUME Init PROVE Inv  OBVIOUS
<1>1. TInv  BY TypeInit
<1>2. DiskMirrorsStore  BY DEF Init, DiskMirrorsStore
<1>3. LatestOK
  BY OpsAssumption DEF Init, LatestOK, EmptyStore
<1> QED  BY <1>1, <1>2, <1>3 DEF Inv

LEMMA InvNext == Inv /\ [Next]_vars => Inv'
<1> SUFFICES ASSUME Inv, [Next]_vars PROVE DiskMirrorsStore' /\ LatestOK'
  BY TypeNext DEF Inv
<1>1. ASSUME NEW ok \in BOOLEAN, Unlock(ok)
      PROVE  DiskMirrorsStore' /\ LatestOK'
  BY <1>1, UnlockInv
<1>2. CASE Crash
  BY <1>2, OpsAssumption DEF Crash, DiskMirrorsStore, LatestOK, EmptyStore
<1>3. ASSUME NEW o \in Ops, Edit(o) PROVE DiskMirrorsStore' /\ LatestOK'
  BY <1>3, EditInv
<1>4. ASSUME NEW o \in Ops, Transfer(o) PROVE DiskMirrorsStore' /\ LatestOK'
  BY <1>4, TransferInv
<1>5. ASSUME NEW o \in Ops, Verify(o) PROVE DiskMirrorsStore' /\ LatestOK'
  BY <1>5, VerifyInv
<1>6. ASSUME NEW o \in Ops, Import(o) PROVE DiskMirrorsStore' /\ LatestOK'
  BY <1>6, ImportInv
<1>7. ASSUME NEW o \in Ops, NEW ok \in BOOLEAN, Save(o, ok)
      PROVE  DiskMirrorsStore' /\ LatestOK'
  BY <1>7, SaveInv
<1>8. CASE UNCHANGED vars
  BY <1>8 DEF vars, Inv, DiskMirrorsStore, LatestOK, Pending, Applied
<1> QED
  BY <1>1, <1>2, <1>3, <1>4, <1>5, <1>6, <1>7, <1>8 DEF Next

LEMMA InvHolds == Spec => []Inv
<1>1. Init => Inv  BY InvInit
<1>2. Inv /\ [Next]_vars => Inv'  BY InvNext
<1> QED  BY <1>1, <1>2, PTL DEF Spec

(* The vault file mirrors Store's memory after every persist that succeeds, *)
(* whichever operations interleave: each save writes the current payload,   *)
(* not the snapshot it was given.                                           *)
THEOREM DiskMirrors == Spec => []DiskMirrorsStore
<1>1. Inv => DiskMirrorsStore  BY DEF Inv
<1> QED  BY <1>1, InvHolds, PTL

(* App and Store agree on every list with no save outstanding, unless a     *)
(* save was overtaken or abandoned or a reload came in between.             *)
THEOREM AgreementHolds == Spec => []Agreement
<1>1. Inv => Agreement
  <2> SUFFICES ASSUME Inv, NEW k \in Kinds,
                      \A o \in Ops : ~Pending(o, k), ~behind[k]
               PROVE  mem[k] = app[k]
    BY DEF Agreement
  <2>1. latest[k] \in Ops \cup {NoOp}  BY DEF Inv, TInv, TypeOK
  <2> QED  BY <2>1 DEF Inv, LatestOK
<1> QED  BY <1>1, InvHolds, PTL

-----------------------------------------------------------------------------
(* Operations one at a time.  The argument follows one operation through    *)
(* its steps: what it has put in App's lists it has put there alone, so its *)
(* snapshots are App's lists, and every save writes a history and a log     *)
(* that hold everything Store and the vault file held before.               *)

Records == {"history", "logs"}

(* Operation o is at step s, or is saving the list it will go there with. *)
Heading(o, s) == pc[o] = s \/ (pc[o] = "save" /\ next[o] = s)

(* No two operations are under way (the condition of the monitor). *)
Single == \A o, p \in Ops : Active(o) /\ Active(p) => o = p

WhileOpen == \A o \in Ops : Active(o) => unlocked

(* App holds what Store holds, and Store what the vault file holds. *)
Kept ==
    \A k \in Records, i \in Ids :
        /\ mem[k][i] \subseteq app[k][i]
        /\ unlocked => disk[k][i] \subseteq mem[k][i]

(* The id of an operation that has not begun is nowhere. *)
Unused(o) ==
    pc[o] = "idle" =>
        /\ rec[o] = o
        /\ \A k \in Records : app[k][o] = {} /\ disk[k][o] = {}

(* CompleteIsRecorded, already between App's log and Store's history. *)
Recorded(o) ==
    job[o] = "backup" =>
        /\ "complete" \in app["logs"][o] => "quick" \in mem["history"][o]
        /\ "complete" \in disk["logs"][o] => "quick" \in disk["history"][o]

(* What an operation under way knows at each of its steps. *)
Working(o) ==
    /\ \A k \in Records :
         /\ Pending(o, k) => snap[o][k] = app[k]
         /\ pc[o] = "load" => \/ snap[o][k] = mem[k]
                              \/ \E j \in 1..Len(todo[o]) : todo[o][j] = k
         /\ pc[o] = "assign" => snap[o][k] = mem[k]
    /\ Heading(o, "transfer") => rec[o] = o /\ app["history"][o] = {}
    /\ Heading(o, "capture") => rec[o] = o /\ app["history"][o] = {"row"}
    /\ pc[o] = "save" /\ next[o] = "logDone" =>
           todo[o] = <<"history">> /\ "quick" \in app["history"][o]
    /\ pc[o] = "logDone" => "quick" \in mem["history"][o]
    /\ Heading(o, "verifying") => app["history"][rec[o]] = copy[o]

Turn ==
    /\ Single /\ WhileOpen /\ Kept
    /\ \A o \in Ops : Unused(o) /\ Recorded(o) /\ Working(o)

(* The step leaves in the vault's history and log what was there. *)
DiskGrows ==
    \A k \in Records, i \in Ids : disk[k][i] \subseteq disk'[k][i]

(* An operation that is not under way has nothing to know. *)
LEMMA EndedWorking ==
  ASSUME NEW o \in Ops, ~Active(o) PROVE Working(o)
  BY DEF Working, Active, Ended, Pending, Heading

(* A step of operation o: all others have ended or have not begun. *)
LEMMA StepOf ==
  ASSUME TInv, Turn, Single', NEW o \in Ops, NEW s,
         pc' = [pc EXCEPT ![o] = s], s # "idle",
         Active(o) \/ s \notin Ended, unlocked, unlocked',
         \A p \in Ops \ {o} : rec'[p] = rec[p],
         Kept', Working(o)',
         \A p \in Ops \ {o}, k \in Records :
             pc[p] = "idle" => app'[k][p] = {} /\ disk'[k][p] = {},
         \A p \in Ops : Recorded(p)'
  PROVE  Turn'
<1>1. pc'[o] = s /\ \A p \in Ops \ {o} : pc'[p] = pc[p]
  BY DEF TInv, TypeOK
<1>2. ASSUME NEW p \in Ops, p # o PROVE ~Active(p)'
  <2>1. CASE Active(o)
    <3>1. ~Active(p)  BY <1>2, <2>1 DEF Turn, Single
    <3> QED  BY <1>1, <1>2, <3>1 DEF Active
  <2>2. CASE s \notin Ended
    <3>1. Active(o)'  BY <1>1, <2>2 DEF Active
    <3> QED  BY <1>2, <3>1 DEF Single
  <2> QED  BY <2>1, <2>2
<1>3. ASSUME NEW p \in Ops PROVE Working(p)'
  <2>1. CASE p = o  BY <2>1
  <2>2. CASE p # o
    <3>1. ~Active(p)'  BY <1>2, <2>2
    <3> QED  BY <3>1 DEF Working, Active, Ended, Pending, Heading
  <2> QED  BY <2>1, <2>2
<1>4. ASSUME NEW p \in Ops PROVE Unused(p)'
  <2>1. CASE p = o  BY <1>1, <2>1 DEF Unused
  <2>2. CASE p # o  BY <1>1, <2>2 DEF Unused, Turn
  <2> QED  BY <2>1, <2>2
<1>5. WhileOpen'  BY DEF WhileOpen
<1> QED  BY <1>3, <1>4, <1>5 DEF Turn

(* ... that saves nothing and takes nothing away from App's lists. *)
LEMMA GrowStep ==
  ASSUME TInv, Turn, Single', NEW o \in Ops, NEW s,
         pc' = [pc EXCEPT ![o] = s], s # "idle",
         Active(o) \/ s \notin Ended, unlocked, UNCHANGED data,
         \A p \in Ops \ {o} : rec'[p] = rec[p] /\ job'[p] = job[p],
         job'[o] = job[o] \/ pc[o] = "idle",
         Working(o)',
         \A k \in Records, i \in Ids : app[k][i] \subseteq app'[k][i],
         \A p \in Ops \ {o}, k \in Records :
             pc[p] = "idle" => app'[k][p] = {},
         \A p \in Ops : job'[p] = "backup" /\ "complete" \in app'["logs"][p]
                            => "quick" \in mem["history"][p]
  PROVE  Turn'
<1>1. mem' = mem /\ disk' = disk /\ unlocked' = unlocked  BY DEF data
<1>2. Kept'
  BY <1>1 DEF Turn, Kept
<1>3. ASSUME NEW p \in Ops PROVE Recorded(p)'
  <2>1. CASE job'[p] = job[p]
    BY <1>1, <2>1 DEF Recorded, Turn
  <2>2. CASE p = o /\ pc[o] = "idle"
    <3>1. disk["logs"][p] = {}  BY <2>2 DEF Turn, Unused, Records
    <3> QED  BY <1>1, <3>1 DEF Recorded
  <2> QED  BY <2>1, <2>2
<1>4. ASSUME NEW p \in Ops \ {o}, NEW k \in Records, pc[p] = "idle"
      PROVE  app'[k][p] = {} /\ disk'[k][p] = {}
  BY <1>1, <1>4 DEF Turn, Unused
<1> QED  BY <1>1, <1>2, <1>3, <1>4, StepOf

(* A commit that takes nothing away, with what its next step needs. *)
LEMMA CommitTurn ==
  ASSUME TInv, Turn, Single', NEW o \in Ops, NEW k \in Kinds,
         NEW l \in Lists, NEW then, Commit(o, k, l, then), unlocked,
         \A p \in Ops \ {o} : rec'[p] = rec[p] /\ job'[p] = job[p],
         job'[o] = job[o] \/ pc[o] = "idle",
         k \in Records => \A i \in Ids : app[k][i] \subseteq l[i],
         k \in Records => \A p \in Ops \ {o} : pc[p] = "idle" => l[p] = {},
         k = "logs" => \A p \in Ops : job'[p] = "backup" /\ "complete" \in l[p]
                                         => "quick" \in mem["history"][p],
         then = "transfer" => rec'[o] = o /\ app'["history"][o] = {},
         then = "capture" => rec'[o] = o /\ app'["history"][o] = {"row"},
         then = "logDone" => k = "history" /\ "quick" \in l[o],
         then = "verifying" => app'["history"][rec'[o]] = copy'[o]
  PROVE  Turn'
<1>1. /\ app' = [app EXCEPT ![k] = l]
      /\ pc' = [pc EXCEPT ![o] = "save"] /\ pc'[o] = "save"
      /\ todo'[o] = <<k>> /\ next'[o] = then
      /\ snap'[o] = [snap[o] EXCEPT ![k] = l]
      /\ UNCHANGED data
  BY DEF Commit, TInv, TypeOK
<1>2. /\ app'[k] = l /\ snap'[o][k] = l
      /\ \A q \in Kinds \ {k} : app'[q] = app[q]
  BY <1>1 DEF TInv, TypeOK, Catalogs
<1>3. Working(o)'
  <2>1. ASSUME NEW q \in Records, Pending(o, q)' PROVE snap'[o][q] = app'[q]
    <3>1. q = k  BY <1>1, <2>1 DEF Pending
    <3> QED  BY <1>2, <3>1
  <2>2. then = "logDone" => "quick" \in app'["history"][o]
    BY <1>2
  <2> QED  BY <1>1, <2>1, <2>2 DEF Working, Heading
<1>4. ASSUME NEW q \in Records
      PROVE  /\ \A i \in Ids : app[q][i] \subseteq app'[q][i]
             /\ \A p \in Ops \ {o} : pc[p] = "idle" => app'[q][p] = {}
  <2>1. CASE q = k  BY <1>2, <2>1
  <2>2. CASE q # k
    <3>1. app'[q] = app[q]  BY <1>2, <2>2 DEF Records
    <3> QED  BY <3>1 DEF Turn, Unused
  <2> QED  BY <2>1, <2>2
<1>5. ASSUME NEW p \in Ops, job'[p] = "backup", "complete" \in app'["logs"][p]
      PROVE  "quick" \in mem["history"][p]
  <2>1. CASE k = "logs"  BY <1>2, <1>5, <2>1
  <2>2. CASE k # "logs"
    <3>1. app'["logs"] = app["logs"]  BY <1>2, <2>2
    <3>2. CASE job'[p] = job[p]  BY <1>5, <3>1, <3>2 DEF Turn, Recorded
    <3>3. CASE p = o /\ pc[o] = "idle"
      BY <1>5, <3>1, <3>3 DEF Turn, Unused, Records
    <3> QED  BY <3>2, <3>3
  <2> QED  BY <2>1, <2>2
<1>6. "save" # "idle" /\ "save" \notin Ended  BY DEF Ended
<1>7. pc' = [pc EXCEPT ![o] = "save"] /\ UNCHANGED data  BY <1>1
<1>8. Active(o) \/ "save" \notin Ended  BY <1>6
<1>9. \A p \in Ops : job'[p] = "backup" /\ "complete" \in app'["logs"][p]
                            => "quick" \in mem["history"][p]  BY <1>5
<1>10. \A q \in Records, i \in Ids : app[q][i] \subseteq app'[q][i]  BY <1>4
<1>11. \A p \in Ops \ {o}, q \in Records :
             pc[p] = "idle" => app'[q][p] = {}  BY <1>4
<1> HIDE DEF Kinds
<1> QED  BY <1>3, <1>6, <1>7, <1>8, <1>9, <1>10, <1>11, GrowStep

(* A log entry of the operation. *)
LEMMA LogTurn ==
  ASSUME TInv, Turn, Single', NEW o \in Ops, NEW f \in Facts, NEW then,
         Log(o, f, then), unlocked,
         \A p \in Ops \ {o} : rec'[p] = rec[p] /\ job'[p] = job[p],
         job'[o] = job[o] \/ pc[o] = "idle",
         f = "complete" /\ job'[o] = "backup" => "quick" \in mem["history"][o],
         then = "transfer" => rec'[o] = o /\ app["history"][o] = {},
         then = "verifying" => app["history"][rec'[o]] = copy'[o],
         then \notin {"capture", "logDone"}
  PROVE  Turn'
<1> DEFINE l == [app["logs"] EXCEPT ![o] = @ \cup {f}]
<1>1. app["logs"] \in Lists /\ o \in Ids
  BY OpsAssumption DEF TInv, TypeOK
<1>2. l \in Lists  BY <1>1, AppendFact
<1>3. /\ l[o] = app["logs"][o] \cup {f}
      /\ \A i \in Ids \ {o} : l[i] = app["logs"][i]
  BY <1>1 DEF Lists
<1>4. Commit(o, "logs", l, then)  BY DEF Log
<1> HIDE DEF l
<1>5. \A i \in Ids : app["logs"][i] \subseteq l[i]  BY <1>3
<1>6. \A p \in Ops \ {o} : pc[p] = "idle" => l[p] = {}
  BY <1>3, OpsAssumption DEF Turn, Unused, Records
<1>7. ASSUME NEW p \in Ops, job'[p] = "backup", "complete" \in l[p]
      PROVE  "quick" \in mem["history"][p]
  <2>1. CASE p # o
    BY <1>3, <1>7, <2>1, OpsAssumption DEF Turn, Recorded
  <2>2. CASE p = o /\ f = "complete"  BY <1>7, <2>2
  <2>3. CASE p = o /\ f # "complete"
    <3>1. "complete" \in app["logs"][o]  BY <1>3, <1>7, <2>3
    <3>2. pc[o] # "idle"  BY <3>1 DEF Turn, Unused, Records
    <3> QED  BY <1>7, <2>3, <3>1, <3>2 DEF Turn, Recorded
  <2> QED  BY <2>1, <2>2, <2>3
<1>8. app'["history"] = app["history"]
  BY <1>4 DEF Commit, TInv, TypeOK
<1> QED  BY <1>2, <1>4, <1>5, <1>6, <1>7, <1>8, CommitTurn

(* A commit of the hosts or the templates, by an editor call. *)
LEMMA EntryTurn ==
  ASSUME TInv, Turn, Single', NEW o \in Ops,
         NEW k \in {"profiles", "templates"}, NEW l \in Lists,
         Begin(o, "edit"), Commit(o, k, l, "ok"), UNCHANGED <<rec, copy>>
  PROVE  Turn'
<1>1. /\ pc[o] = "idle" /\ unlocked
      /\ \A p \in Ops \ {o} : rec'[p] = rec[p] /\ job'[p] = job[p]
  BY DEF Begin, TInv, TypeOK
<1>2. k \in Kinds /\ k \notin Records  BY DEF Records
<1> QED  BY <1>1, <1>2, CommitTurn DEF Records

(* An operation's step on the history entry it works on. *)
LEMMA HistoryTurn ==
  ASSUME TInv, Turn, Single', NEW o \in Ops, NEW i \in Ids,
         NEW e \in SUBSET Facts, NEW then,
         Commit(o, "history", [app["history"] EXCEPT ![i] = e], then),
         UNCHANGED local, Active(o),
         app["history"][i] \subseteq e,
         i = o \/ app["history"][i] # {},
         then \notin {"transfer", "verifying"},
         then = "capture" => i = o /\ rec[o] = o /\ e = {"row"},
         then = "logDone" => i = o /\ "quick" \in e
  PROVE  Turn'
<1> DEFINE l == [app["history"] EXCEPT ![i] = e]
<1>1. app["history"] \in Lists  BY DEF TInv, TypeOK
<1>2. l \in Lists  BY <1>1, AppendFact
<1>3. l[i] = e /\ \A j \in Ids \ {i} : l[j] = app["history"][j]
  BY <1>1 DEF Lists
<1>4. rec' = rec /\ job' = job /\ unlocked
  BY DEF local, Turn, WhileOpen
<1>5. app'["history"] = l  BY DEF Commit, TInv, TypeOK
<1>6. Commit(o, "history", l, then)  OBVIOUS
<1> HIDE DEF l
<1>7. \A j \in Ids : app["history"][j] \subseteq l[j]  BY <1>3
<1>8. \A p \in Ops \ {o} : pc[p] = "idle" => l[p] = {}
  BY <1>3, OpsAssumption DEF Turn, Unused, Records
<1> QED  BY <1>2, <1>3, <1>4, <1>5, <1>6, <1>7, <1>8, CommitTurn

(* A step of an operation that changes no list. *)
LEMMA StandTurn ==
  ASSUME TInv, Turn, Single', NEW o \in Ops, NEW s,
         pc' = [pc EXCEPT ![o] = s], s # "idle",
         Active(o) \/ s \notin Ended, unlocked, UNCHANGED <<app, data>>,
         \A p \in Ops \ {o} : rec'[p] = rec[p] /\ job'[p] = job[p],
         job'[o] = job[o] \/ pc[o] = "idle",
         Working(o)'
  PROVE  Turn'
<1>1. ASSUME NEW p \in Ops, job'[p] = "backup", "complete" \in app'["logs"][p]
      PROVE  "quick" \in mem["history"][p]
  <2>1. CASE job'[p] = job[p]  BY <1>1, <2>1 DEF Turn, Recorded
  <2>2. CASE p = o /\ pc[o] = "idle"
    BY <1>1, <2>2 DEF Turn, Unused, Records
  <2> QED  BY <2>1, <2>2
<1>2. \A p \in Ops \ {o}, k \in Records : pc[p] = "idle" => app'[k][p] = {}
  BY DEF Turn, Unused
<1> QED  BY <1>1, <1>2, GrowStep

(* The sync settings are saved beside whatever is under way. *)
LEMMA SettingsTurn ==
  ASSUME TInv, Turn, NEW o \in Ops, NEW l, NEW ok \in BOOLEAN,
         SaveSettings(o, l, ok)
  PROVE  Turn' /\ DiskGrows
<1>1. /\ pc[o] = "idle" /\ pc'[o] \in {"ok", "failed"} /\ unlocked /\ unlocked'
      /\ \A p \in Ops \ {o} : pc'[p] = pc[p] /\ job'[p] = job[p]
      /\ job'[o] = "setting"
      /\ UNCHANGED <<app, todo, next, snap, rec, copy>>
  BY DEF SaveSettings, Begin, TInv, TypeOK
<1>2. /\ \A k \in Records : mem'[k] = mem[k]
      /\ disk' \in {disk, mem'}
  BY DEF SaveSettings, Persist, TInv, TypeOK, Catalogs, Records
<1>3. ~Active(o) /\ ~Active(o)' /\ \A p \in Ops \ {o} : Active(p)' = Active(p)
  BY <1>1 DEF Active, Ended
<1>4. Single' /\ WhileOpen'  BY <1>1, <1>3 DEF Turn, Single, WhileOpen
<1>5. \A k \in Records, i \in Ids :
         /\ mem'[k][i] \subseteq app'[k][i]
         /\ disk[k][i] \subseteq disk'[k][i] /\ disk'[k][i] \subseteq mem'[k][i]
  BY <1>1, <1>2 DEF Turn, Kept
<1>6. ASSUME NEW p \in Ops PROVE Unused(p)'
  <2>1. CASE p = o  BY <1>1, <2>1 DEF Unused
  <2>2. CASE p # o
    <3> SUFFICES ASSUME pc[p] = "idle" PROVE Unused(p)'
      BY <1>1, <2>2 DEF Unused
    <3>1. rec[p] = p /\ \A k \in Records : app[k][p] = {}
      BY DEF Turn, Unused
    <3>2. \A k \in Records : disk'[k][p] \subseteq app'[k][p]
      BY <1>5, OpsAssumption
    <3> QED  BY <1>1, <3>1, <3>2 DEF Unused
  <2> QED  BY <2>1, <2>2
<1>7. ASSUME NEW p \in Ops PROVE Recorded(p)'
  <2>1. CASE p = o  BY <1>1, <2>1 DEF Recorded
  <2>2. CASE p # o
    <3>1. /\ mem'["logs"] = mem["logs"] /\ mem'["history"] = mem["history"]
          /\ mem["logs"][p] \subseteq app["logs"][p]
      BY <1>2, OpsAssumption DEF Turn, Kept, Records
    <3> QED  BY <1>1, <1>2, <2>2, <3>1 DEF Turn, Recorded
  <2> QED  BY <2>1, <2>2
<1>8. ASSUME NEW p \in Ops PROVE Working(p)'
  <2>1. CASE p = o
    BY <1>1, <2>1 DEF Working, Heading, Pending
  <2>2. CASE p # o
    <3>1. /\ mem'["history"] = mem["history"]
          /\ \A k \in Records : Pending(p, k)' = Pending(p, k)
      BY <1>1, <1>2, <2>2 DEF Pending, Records
    <3> QED
      BY <1>1, <1>2, <2>2, <3>1 DEF Turn, Working, Heading
  <2> QED  BY <2>1, <2>2
<1> QED
  BY <1>1, <1>4, <1>5, <1>6, <1>7, <1>8 DEF Turn, Kept, DiskGrows

LEMMA EditTurn ==
  ASSUME TInv, Turn, Single', NEW o \in Ops, Edit(o) PROVE Turn'
<1>1. ASSUME NEW k \in {"profiles", "templates"}, NEW i \in Ids,
             NEW e \in Entries, SaveEntry(o, k, i, e)
      PROVE  Turn'
  <2>1. [app[k] EXCEPT ![i] = e] \in Lists
    BY AppendFact DEF TInv, TypeOK, Entries, Facts
  <2> QED  BY <1>1, <2>1, EntryTurn DEF SaveEntry
<1>2. ASSUME NEW k \in {"profiles", "templates"}, NEW i \in Ids,
             DeleteEntry(o, k, i)
      PROVE  Turn'
  <2>1. [app[k] EXCEPT ![i] = {}] \in Lists
    BY AppendFact DEF TInv, TypeOK
  <2> QED  BY <1>2, <2>1, EntryTurn DEF DeleteEntry
<1>3. ASSUME NEW S \in SUBSET Ids, ReplaceTemplateInProfiles(o, S)
      PROVE  Turn'
  <2> DEFINE l == [i \in Ids |-> IF i \in S /\ app["profiles"][i] # {}
                                   THEN app["profiles"][i] \cup {"edited"}
                                   ELSE app["profiles"][i]]
  <2>1. l \in Lists  BY DEF TInv, TypeOK, Lists, Facts
  <2>2. Begin(o, "edit") /\ Commit(o, "profiles", l, "ok")
        /\ UNCHANGED <<rec, copy>>
    BY <1>3 DEF ReplaceTemplateInProfiles
  <2> HIDE DEF l
  <2> QED  BY <2>1, <2>2, EntryTurn
<1>4. ASSUME NEW l, NEW ok \in BOOLEAN, SaveSettings(o, l, ok)
      PROVE  Turn'
  BY <1>4, SettingsTurn
<1> QED  BY <1>1, <1>2, <1>3, <1>4 DEF Edit

LEMMA TransferTurn ==
  ASSUME TInv, Turn, Single', NEW o \in Ops, Transfer(o) PROVE Turn'
<1> USE DEF Facts
<1>1. ASSUME NEW j \in Jobs, StartTransfer(o, j) PROVE Turn'
  <2>1. /\ pc[o] = "idle" /\ unlocked /\ rec' = rec
        /\ \A p \in Ops \ {o} : job'[p] = job[p]
    BY <1>1 DEF StartTransfer, Begin, TInv, TypeOK
  <2>2. rec[o] = o /\ app["history"][o] = {}
    BY <2>1 DEF Turn, Unused, Records
  <2>3. Log(o, "start", "transfer")  BY <1>1 DEF StartTransfer
  <2> QED  BY <2>1, <2>2, <2>3, LogTurn
<1>2. ASSUME pc[o] \in {"transfer", "capture", "logDone", "post", "verifying"}
      PROVE  Active(o) /\ unlocked
  BY <1>2 DEF Active, Ended, Turn, WhileOpen
<1>3. CASE TransferLog(o)
  <2>1. unlocked /\ rec' = rec /\ job' = job /\ copy' = copy
    BY <1>2, <1>3 DEF TransferLog, local
  <2>2. CASE pc[o] = "transfer"
    <3>1. rec[o] = o /\ app["history"][o] = {}
      BY <2>2 DEF Turn, Working, Heading
    <3>2. Log(o, "phase", "transfer")  BY <1>3, <2>2 DEF TransferLog
    <3> QED  BY <2>1, <3>1, <3>2, LogTurn
  <2>3. CASE pc[o] = "verifying"
    <3>1. app["history"][rec[o]] = copy[o]
      BY <2>3 DEF Turn, Working, Heading
    <3>2. Log(o, "phase", "verifying")  BY <1>3, <2>3 DEF TransferLog
    <3> QED  BY <2>1, <3>1, <3>2, LogTurn
  <2> QED  BY <1>3, <2>2, <2>3 DEF TransferLog
<1>4. ASSUME NEW f \in Facts, NEW then \in {"ok", "failed", "post"},
             Log(o, f, then), UNCHANGED local,
             pc[o] \in {"transfer", "logDone", "post"},
             f = "complete" /\ job[o] = "backup" => pc[o] = "logDone"
      PROVE  Turn'
  <2>1. unlocked /\ rec' = rec /\ job' = job  BY <1>2, <1>4 DEF local
  <2>2. pc[o] = "logDone" => "quick" \in mem["history"][o]
    BY DEF Turn, Working
  <2> QED  BY <1>4, <2>1, <2>2, LogTurn
<1>5. CASE TransferFails(o)
  <2>1. pc[o] = "transfer" /\ Log(o, "failure", "failed") /\ UNCHANGED local
    BY <1>5 DEF TransferFails
  <2> QED  BY <2>1, <1>4
<1>6. CASE BackupRecord(o)
  <2> DEFINE e == {"row"}
  <2>1. pc[o] = "transfer" /\ UNCHANGED local
        /\ Commit(o, "history", [app["history"] EXCEPT ![o] = e], "capture")
    BY <1>6 DEF BackupRecord
  <2>2. rec[o] = o /\ app["history"][o] = {} /\ o \in Ids
    BY <2>1, OpsAssumption DEF Turn, Working, Heading
  <2>3. Active(o)  BY <1>2, <2>1
  <2>4. e \in SUBSET Facts /\ e = {"row"} /\ app["history"][o] \subseteq e
    BY <2>2
  <2>5. "capture" \notin {"transfer", "verifying"} /\ "capture" # "logDone"
    OBVIOUS
  <2> HIDE DEF e, Facts
  <2> QED  BY ONLY TInv, Turn, Single', <2>1, <2>2, <2>3, <2>4, <2>5, HistoryTurn
<1>7. CASE BackupCapture(o)
  <2> PICK had \in SUBSET {"checksum"} :
         UpdateHistoryRecord(o, {"row", "quick"} \cup had, "logDone")
    BY <1>7 DEF BackupCapture
  <2> DEFINE e == {"row", "quick"} \cup had
  <2>1. /\ pc[o] = "capture" /\ UNCHANGED local
        /\ UpdateHistoryRecord(o, e, "logDone")
    BY <1>7 DEF BackupCapture
  <2>2. rec[o] = o /\ app["history"][o] = {"row"} /\ o \in Ids
    BY <2>1, OpsAssumption DEF Turn, Working, Heading
  <2>3. Commit(o, "history", [app["history"] EXCEPT ![o] = e], "logDone")
    BY <2>1, <2>2 DEF UpdateHistoryRecord
  <2>4. Active(o)  BY <1>2, <2>1
  <2>5. e \in SUBSET Facts /\ "quick" \in e /\ app["history"][o] \subseteq e
    BY <2>2
  <2>6. "logDone" \notin {"transfer", "verifying"} /\ "logDone" # "capture"
    OBVIOUS
  <2> HIDE DEF e, Facts
  <2> QED
    BY ONLY TInv, Turn, Single', <2>1, <2>2, <2>3, <2>4, <2>5, <2>6, HistoryTurn
<1>8. CASE BackupComplete(o)
  <2>1. pc[o] = "logDone" /\ Log(o, "complete", "ok") /\ UNCHANGED local
    BY <1>8 DEF BackupComplete
  <2> QED  BY <2>1, <1>4
<1>9. CASE RestorePreQueryFails(o)
  <2>1. pc[o] = "transfer" /\ Log(o, "phase", "failed") /\ UNCHANGED local
    BY <1>9 DEF RestorePreQueryFails
  <2> QED  BY <2>1, <1>4
<1>10. CASE RestoreComplete(o)
  <2>1. /\ pc[o] = "transfer" /\ job[o] = "restore"
        /\ Log(o, "complete", "post") /\ UNCHANGED local
    BY <1>10 DEF RestoreComplete
  <2> QED  BY <2>1, <1>4
<1>11. ASSUME NEW outcome \in {"ok", "failed"}, RestorePostQuery(o, outcome)
       PROVE  Turn'
  <2>1. pc[o] = "post" /\ Log(o, "phase", outcome) /\ UNCHANGED local
    BY <1>11 DEF RestorePostQuery
  <2> QED  BY <2>1, <1>4
<1>12. CASE RestoreNoPostQuery(o)
  <2>1. /\ pc[o] = "post" /\ pc' = [pc EXCEPT ![o] = "ok"]
        /\ UNCHANGED <<app, data>> /\ rec' = rec /\ job' = job
    BY <1>12 DEF RestoreNoPostQuery, local
  <2>2. Active(o) /\ unlocked  BY <1>2, <2>1
  <2>3. pc'[o] = "ok"  BY <2>1 DEF TInv, TypeOK
  <2>4. Working(o)'  BY <2>3 DEF Working, Heading, Pending
  <2> QED  BY <2>1, <2>2, <2>4, StandTurn
<1> QED
  BY <1>1, <1>3, <1>5, <1>6, <1>7, <1>8, <1>9, <1>10, <1>11, <1>12
     DEF Transfer

LEMMA VerifyTurn ==
  ASSUME TInv, Turn, Single', NEW o \in Ops, Verify(o) PROVE Turn'
<1>1. ASSUME NEW j \in Jobs, NEW i \in Ids, VerifyRead(o, j, i) PROVE Turn'
  <2>1. /\ pc[o] = "idle" /\ unlocked
        /\ pc' = [pc EXCEPT ![o] = "verifying"] /\ pc'[o] = "verifying"
        /\ rec'[o] = i /\ copy'[o] = app["history"][i]
        /\ UNCHANGED <<app, data>>
        /\ \A p \in Ops \ {o} : rec'[p] = rec[p] /\ job'[p] = job[p]
    BY <1>1 DEF VerifyRead, Begin, TInv, TypeOK
  <2>2. Working(o)'  BY <2>1 DEF Working, Heading, Pending
  <2>3. "verifying" # "idle" /\ "verifying" \notin Ended  BY DEF Ended
  <2> QED  BY <2>1, <2>2, <2>3, StandTurn
<1>2. ASSUME pc[o] = "verifying"
      PROVE  Active(o) /\ unlocked /\ app["history"][rec[o]] = copy[o]
  BY <1>2 DEF Active, Ended, Turn, WhileOpen, Working, Heading
<1>3. ASSUME pc[o] = "verifying", pc' = [pc EXCEPT ![o] = "failed"],
             UNCHANGED <<app, data>>, UNCHANGED local
      PROVE  Turn'
  <2>1. rec' = rec /\ job' = job  BY <1>3 DEF local
  <2>2. pc'[o] = "failed"  BY <1>3 DEF TInv, TypeOK
  <2>3. Working(o)'  BY <2>2 DEF Working, Heading, Pending
  <2> QED  BY <1>2, <1>3, <2>1, <2>3, StandTurn
<1>4. CASE VerifyWrite(o)
  <2> DEFINE e == copy[o] \cup
                  {IF job[o] = "deepVerify" THEN "deep" ELSE "quick"}
  <2>1. /\ pc[o] = "verifying" /\ UNCHANGED local
        /\ UpdateHistoryRecord(o, e, "ok")
    BY <1>4 DEF VerifyWrite
  <2>2. /\ e \in SUBSET Facts /\ copy[o] \subseteq e /\ rec[o] \in Ids
    BY DEF TInv, TypeOK, Facts
  <2> HIDE DEF e
  <2>3. CASE app["history"][rec[o]] = {}
    BY <1>3, <2>1, <2>3 DEF UpdateHistoryRecord
  <2>4. CASE app["history"][rec[o]] # {}
    <3>1. Commit(o, "history", [app["history"] EXCEPT ![rec[o]] = e], "ok")
      BY <2>1, <2>4 DEF UpdateHistoryRecord
    <3>2. Active(o) /\ app["history"][rec[o]] \subseteq e
      BY <1>2, <2>1, <2>2
    <3> QED  BY <2>1, <2>2, <2>4, <3>1, <3>2, HistoryTurn
  <2> QED  BY <2>3, <2>4
<1>5. CASE VerifyFails(o)
  BY <1>3, <1>5 DEF VerifyFails
<1> QED  BY <1>1, <1>4, <1>5 DEF Verify

(* Merging keeps the history and the log, and the ids in use stay free of   *)
(* another device's entries.                                                *)
LEMMA MergedKeeps ==
  ASSUME NEW a \in [Kinds -> Lists], NEW b \in Catalogs, NEW k \in Records,
         NEW i \in Ids
  PROVE  /\ a[k][i] \subseteq Merged(a, b)[k][i]
         /\ b[k][i] = {} => Merged(a, b)[k][i] = a[k][i]
<1>1. /\ Merged(a, b)["history"] = KeepExisting(a["history"], b["history"])
      /\ Merged(a, b)["logs"] = AddEntries(a["logs"], b["logs"])
  BY DEF Merged
<1>2. /\ Merged(a, b)["history"][i] = IF a["history"][i] # {}
                                         THEN a["history"][i]
                                         ELSE b["history"][i]
      /\ Merged(a, b)["logs"][i] = a["logs"][i] \cup b["logs"][i]
  BY <1>1 DEF KeepExisting, AddEntries
<1>3. CASE k = "history"  BY <1>2, <1>3
<1>4. CASE k = "logs"  BY <1>2, <1>4
<1> QED  BY <1>3, <1>4 DEF Records

LEMMA ImportTurn ==
  ASSUME TInv, Turn, Single', NEW o \in Ops, Import(o) PROVE Turn'
<1>1. ASSUME NEW b \in Bundles, ImportMerge(o, b) PROVE Turn'
  <2>1. /\ b \in Catalogs
        /\ \A p \in Ops : b["history"][p] = {} /\ b["logs"][p] = {}
    BY DataAssumption
  <2>2. /\ pc[o] = "idle" /\ unlocked
        /\ pc' = [pc EXCEPT ![o] = "save"] /\ pc'[o] = "save"
        /\ app' = Merged(app, b) /\ next'[o] = "load"
        /\ \A k \in Kinds : snap'[o][k] = Merged(app, b)[k]
        /\ UNCHANGED data /\ rec' = rec
        /\ \A p \in Ops \ {o} : job'[p] = job[p]
        /\ job'[o] = "import"
    BY <1>1 DEF ImportMerge, Begin, TInv, TypeOK
  <2>3. app \in [Kinds -> Lists]  BY DEF TInv, TypeOK
  <2>4. \A k \in Records, i \in Ids : app[k][i] \subseteq app'[k][i]
    BY <2>1, <2>2, <2>3, MergedKeeps
  <2>5. \A k \in Records, p \in Ops : app'[k][p] = app[k][p]
    <3> SUFFICES ASSUME NEW k \in Records, NEW p \in Ops
                 PROVE  app'[k][p] = app[k][p]
      OBVIOUS
    <3>1. p \in Ids /\ b[k][p] = {}  BY <2>1, OpsAssumption DEF Records
    <3> QED  BY <2>1, <2>2, <2>3, <3>1, MergedKeeps
  <2>6. Working(o)'
    BY <2>2 DEF Working, Heading, Records
  <2>7. \A p \in Ops \ {o}, k \in Records : pc[p] = "idle" => app'[k][p] = {}
    BY <2>5 DEF Turn, Unused
  <2>8. \A p \in Ops : job'[p] = "backup" /\ "complete" \in app'["logs"][p]
                           => "quick" \in mem["history"][p]
    BY <2>2, <2>5 DEF Turn, Recorded, Records
  <2>9. "save" # "idle" /\ "save" \notin Ended  BY DEF Ended
  <2>10. /\ Active(o) \/ "save" \notin Ended
         /\ \A p \in Ops \ {o} : rec'[p] = rec[p] /\ job'[p] = job[p]
    BY <2>2, <2>9
  <2> QED  BY <2>2, <2>4, <2>6, <2>7, <2>8, <2>9, <2>10, GrowStep
<1>2. ASSUME pc[o] \in {"load", "assign"} PROVE Active(o) /\ unlocked
  BY <1>2 DEF Active, Ended, Turn, WhileOpen
<1>3. CASE Load(o)
  <2> DEFINE k == Head(todo[o])
             s == IF Len(todo[o]) = 1 THEN "assign" ELSE "load"
  <2>1. /\ pc[o] = "load" /\ todo[o] # << >> /\ todo[o] \in Seq(StoreKinds)
        /\ pc' = [pc EXCEPT ![o] = s] /\ pc'[o] = s
        /\ snap'[o] = [snap[o] EXCEPT ![k] = mem[k]]
        /\ todo'[o] = Tail(todo[o])
        /\ UNCHANGED <<app, data>> /\ rec' = rec /\ job' = job /\ mem' = mem
    BY <1>3 DEF Load, TInv, TypeOK, TodoOK, local, data
  <2>2. k \in StoreKinds  BY <2>1, TailFacts
  <2>3. ASSUME NEW q \in Records
        PROVE  \/ snap'[o][q] = mem'[q]
               \/ /\ s = "load"
                  /\ \E j \in 1..Len(todo'[o]) : todo'[o][j] = q
    <3>1. \/ snap[o][q] = mem[q]
          \/ \E j \in 1..Len(todo[o]) : todo[o][j] = q
      BY <2>1 DEF Turn, Working
    <3>2. /\ q = k => snap'[o][q] = mem[q]
          /\ q # k => snap'[o][q] = snap[o][q]
      BY <2>1, <2>2 DEF TInv, TypeOK, Catalogs, Records
    <3>3. (\E j \in 1..Len(todo[o]) : todo[o][j] = q) /\ q # k
            => /\ Len(todo[o]) # 1
               /\ \E j \in 1..Len(Tail(todo[o])) : Tail(todo[o])[j] = q
      BY <2>1, TailFacts
    <3> HIDE DEF k
    <3> QED  BY <2>1, <3>1, <3>2, <3>3
  <2>4. s \in {"load", "assign"} /\ s # "idle"  OBVIOUS
  <2> HIDE DEF s, k
  <2>5. Working(o)'
    BY <2>1, <2>3, <2>4 DEF Working, Heading, Pending
  <2>6. Active(o) /\ unlocked  BY <1>2, <2>1
  <2> QED  BY <2>1, <2>4, <2>5, <2>6, StandTurn
<1>4. CASE Assign(o)
  <2> DEFINE s == IF Migrated(snap[o]["profiles"]) # snap[o]["profiles"]
                    THEN "save" ELSE "ok"
  <2>1. /\ pc[o] = "assign"
        /\ pc' = [pc EXCEPT ![o] = s] /\ pc'[o] = s
        /\ \A k \in Records : app'[k] = snap[o][k]
        /\ todo'[o] \in {<<"profiles">>, << >>} /\ next'[o] = "ok"
        /\ UNCHANGED data /\ rec' = rec /\ job' = job
        /\ mem' = mem /\ disk' = disk /\ unlocked' = unlocked
    BY <1>4 DEF Assign, TInv, TypeOK, local, data, Records
  <2>2. \A k \in Records : app'[k] = mem'[k]
    BY <2>1 DEF Turn, Working
  <2>3. s \in {"save", "ok"} /\ s # "idle"  OBVIOUS
  <2> HIDE DEF s
  <2>4. Working(o)'
    <3>1. \A k \in Records : ~Pending(o, k)'
      BY <2>1 DEF Pending, Records
    <3> QED  BY <2>1, <2>3, <3>1 DEF Working, Heading
  <2>5. Kept'  BY <2>1, <2>2 DEF Turn, Kept
  <2>6. \A k \in Records, i \in Ids : app'[k][i] \subseteq app[k][i]
    BY <2>1, <2>2 DEF Turn, Kept
  <2>7. \A p \in Ops \ {o}, k \in Records :
            pc[p] = "idle" => app'[k][p] = {} /\ disk'[k][p] = {}
    <3> SUFFICES ASSUME NEW p \in Ops, NEW k \in Records, pc[p] = "idle"
                 PROVE  app'[k][p] = {} /\ disk'[k][p] = {}
      OBVIOUS
    <3>1. app[k][p] = {} /\ disk[k][p] = {}  BY DEF Turn, Unused
    <3>2. app'[k][p] \subseteq app[k][p]  BY <2>6, OpsAssumption
    <3> QED  BY <2>1, <3>1, <3>2
  <2>8. ASSUME NEW p \in Ops PROVE Recorded(p)'
    <3>1. app'["logs"][p] \subseteq app["logs"][p]
      BY <2>6, OpsAssumption DEF Records
    <3> QED  BY <2>1, <3>1 DEF Turn, Recorded
  <2>9. Active(o) /\ unlocked  BY <1>2, <2>1
  <2> QED  BY <2>1, <2>3, <2>4, <2>5, <2>7, <2>8, <2>9, StepOf
<1> QED  BY <1>1, <1>3, <1>4 DEF Import

LEMMA TailMember ==
  ASSUME NEW S, NEW s \in Seq(S), s # << >>, NEW x,
         \E j \in 1..Len(Tail(s)) : Tail(s)[j] = x
  PROVE  \E j \in 1..Len(s) : s[j] = x
<1>1. /\ Len(Tail(s)) = Len(s) - 1
      /\ \A i \in 1..Len(Tail(s)) : Tail(s)[i] = s[i + 1]
  BY HeadTailProperties
<1>2. Len(s) \in Nat  OBVIOUS
<1>3. PICK j \in 1..Len(Tail(s)) : Tail(s)[j] = x  OBVIOUS
<1>4. j + 1 \in 1..Len(s) /\ s[j + 1] = x  BY <1>1, <1>2, <1>3
<1> QED  BY <1>4

(* The save of one list.  Of the history and the log it writes App's lists; *)
(* the other lists of the payload are Store's.                              *)
LEMMA SaveTurn ==
  ASSUME TInv, Turn, Single', NEW o \in Ops, NEW ok \in BOOLEAN, Save(o, ok)
  PROVE  Turn' /\ DiskGrows
<1> DEFINE k    == Head(todo[o])
           goOn == ok \/ ErrorIgnored(o, k)
           last == Len(todo[o]) = 1
           s    == IF ~goOn THEN "failed" ELSE IF last THEN next[o] ELSE "save"
<1>1. /\ pc[o] = "save" /\ todo[o] # << >> /\ todo[o] \in Seq(StoreKinds)
      /\ pc' = [pc EXCEPT ![o] = s] /\ pc'[o] = s
      /\ mem' = [mem EXCEPT ![k] = snap[o][k]]
      /\ disk' \in {disk, mem'}
      /\ app' = app /\ next' = next /\ snap' = snap /\ rec' = rec /\ job' = job
      /\ copy' = copy /\ unlocked' = unlocked
  BY DEF Save, Persist, TInv, TypeOK, TodoOK, local
<1>2. /\ goOn /\ ~last => todo'[o] = Tail(todo[o])
      /\ goOn /\ last /\ next[o] = "load" => todo'[o] = Order
  <2>1. /\ goOn /\ ~last => todo'[o] = Tail(todo[o])
        /\ goOn /\ last /\ next[o] = "load" => todo'[o] = Order
    BY DEF Save, TInv, TypeOK
  <2> QED  BY <2>1
<1>3. k \in StoreKinds /\ Pending(o, k)
  <2>1. k \in StoreKinds  BY <1>1, TailFacts
  <2>2. Len(todo[o]) \in Nat \ {0} /\ k = todo[o][1]  BY <1>1, EmptySeq
  <2> HIDE DEF k
  <2> QED  BY <1>1, <2>1, <2>2 DEF Pending
<1>4. Active(o) /\ unlocked
  BY <1>1 DEF Active, Ended, Turn, WhileOpen
<1>5. \A q \in Records : mem'[q] = IF q = k THEN app[q] ELSE mem[q]
  <2>1. ASSUME NEW q \in Records, q = k PROVE mem'[q] = app[q]
    <3>1. snap[o][q] = app[q]  BY <1>3, <2>1 DEF Turn, Working
    <3> QED  BY <1>1, <1>3, <2>1, <3>1 DEF TInv, TypeOK, Catalogs
  <2>2. ASSUME NEW q \in Records, q # k PROVE mem'[q] = mem[q]
    BY <1>1, <2>2 DEF TInv, TypeOK, Catalogs, Records
  <2> QED  BY <2>1, <2>2
<1> HIDE DEF k, goOn, last, s
<1>6. \A q \in Records, i \in Ids :
         /\ mem[q][i] \subseteq mem'[q][i] /\ mem'[q][i] \subseteq app'[q][i]
         /\ disk[q][i] \subseteq disk'[q][i] /\ disk'[q][i] \subseteq mem'[q][i]
  <2> SUFFICES ASSUME NEW q \in Records, NEW i \in Ids
               PROVE  /\ mem[q][i] \subseteq mem'[q][i]
                      /\ mem'[q][i] \subseteq app'[q][i]
                      /\ disk[q][i] \subseteq disk'[q][i]
                      /\ disk'[q][i] \subseteq mem'[q][i]
    OBVIOUS
  <2>1. disk[q][i] \subseteq mem[q][i] /\ mem[q][i] \subseteq app[q][i]
    BY <1>4 DEF Turn, Kept
  <2>2. mem'[q] \in {app[q], mem[q]}  BY <1>5
  <2> QED  BY <1>1, <2>1, <2>2
<1>7. Kept' /\ DiskGrows  BY <1>6 DEF Kept, DiskGrows
<1>8. \A p \in Ops \ {o}, q \in Records :
          pc[p] = "idle" => app'[q][p] = {} /\ disk'[q][p] = {}
  <2> SUFFICES ASSUME NEW p \in Ops, NEW q \in Records, pc[p] = "idle"
               PROVE  app'[q][p] = {} /\ disk'[q][p] = {}
    OBVIOUS
  <2>1. app'[q][p] = {}  BY <1>1 DEF Turn, Unused
  <2>2. disk'[q][p] \subseteq app'[q][p]  BY <1>6, OpsAssumption
  <2> QED  BY <2>1, <2>2
<1>9. ASSUME NEW p \in Ops PROVE Recorded(p)'
  <2> SUFFICES ASSUME job[p] = "backup" PROVE Recorded(p)'
    BY <1>1 DEF Recorded
  <2>1. /\ mem["history"][p] \subseteq mem'["history"][p]
        /\ mem'["logs"][p] \subseteq app'["logs"][p]
    BY <1>6, OpsAssumption DEF Records
  <2>2. "complete" \in app'["logs"][p] => "quick" \in mem'["history"][p]
    BY <1>1, <2>1 DEF Turn, Recorded
  <2>3. "complete" \in disk["logs"][p] => "quick" \in disk["history"][p]
    BY DEF Turn, Recorded
  <2> QED  BY <1>1, <2>1, <2>2, <2>3 DEF Recorded
<1>10. Working(o)'
  <2>1. CASE s = "failed"
    BY <1>1, <2>1 DEF Working, Heading, Pending
  <2>2. CASE goOn /\ ~last
    <3>1. s = "save" /\ todo'[o] = Tail(todo[o])  BY <1>2, <2>2 DEF s
    <3>2. ASSUME NEW q \in Records, Pending(o, q)' PROVE snap'[o][q] = app'[q]
      <4>1. Pending(o, q)
        BY <1>1, <3>1, <3>2, TailMember DEF Pending
      <4> QED  BY <1>1, <4>1 DEF Turn, Working
    <3>3. next[o] # "logDone"
      <4> SUFFICES ASSUME next[o] = "logDone" PROVE FALSE  OBVIOUS
      <4>1. todo[o] = <<"history">>  BY <1>1 DEF Turn, Working
      <4> QED  BY <2>2, <4>1 DEF last
    <3>4. /\ next[o] = "transfer" => rec[o] = o /\ app["history"][o] = {}
          /\ next[o] = "capture" => rec[o] = o /\ app["history"][o] = {"row"}
          /\ next[o] = "verifying" => app["history"][rec[o]] = copy[o]
      BY <1>1 DEF Turn, Working, Heading
    <3> QED  BY <1>1, <3>1, <3>2, <3>3, <3>4 DEF Working, Heading
  <2>3. CASE goOn /\ last
    <3>1. s = next[o] /\ next[o] \in Nexts  BY <2>3 DEF s, TInv, TypeOK
    <3>2. /\ next[o] = "transfer" => rec[o] = o /\ app["history"][o] = {}
          /\ next[o] = "capture" => rec[o] = o /\ app["history"][o] = {"row"}
          /\ next[o] = "verifying" => app["history"][rec[o]] = copy[o]
      BY <1>1 DEF Turn, Working, Heading
    <3>3. next[o] = "logDone" => "quick" \in mem'["history"][o]
      <4> SUFFICES ASSUME next[o] = "logDone"
                   PROVE  "quick" \in mem'["history"][o]
        OBVIOUS
      <4>1. todo[o] = <<"history">> /\ "quick" \in app["history"][o]
        BY <1>1 DEF Turn, Working
      <4>2. k = "history"  BY <4>1 DEF k
      <4> QED  BY <1>5, <4>1, <4>2 DEF Records
    <3>4. ASSUME next[o] = "load", NEW q \in Records
          PROVE  \E j \in 1..Len(todo'[o]) : todo'[o][j] = q
      <4>1. todo'[o] = Order  BY <1>2, <2>3, <3>4
      <4>2. Len(Order) = 4 /\ Order[3] = "history" /\ Order[4] = "logs"
        BY DEF Order
      <4> QED  BY <4>1, <4>2 DEF Records
    <3> QED
      BY <1>1, <3>1, <3>2, <3>3, <3>4 DEF Working, Heading, Pending, Nexts
  <2> QED  BY <2>1, <2>2, <2>3 DEF s
<1>11. s # "idle"  BY DEF s, TInv, TypeOK, Nexts
<1>12. \A p \in Ops \ {o} : rec'[p] = rec[p]  BY <1>1
<1> QED
  BY <1>1, <1>4, <1>7, <1>8, <1>9, <1>10, <1>11, <1>12, StepOf

(* Opening the vault: App and Store hold the file's history and log. *)
LEMMA UnlockTurn ==
  ASSUME TInv, Turn, NEW ok \in BOOLEAN, Unlock(ok)
  PROVE  Turn' /\ DiskGrows
<1>1. /\ ~unlocked /\ UNCHANGED <<pc, next, todo>> /\ rec' = rec /\ job' = job
      /\ \A k \in Records : /\ app'[k] = disk[k] /\ mem'[k] = disk[k]
                            /\ disk'[k] = disk[k]
  <2>1. /\ ~unlocked /\ UNCHANGED <<pc, next, todo>> /\ rec' = rec /\ job' = job
    BY DEF Unlock, local
  <2> DEFINE m == [Applied(disk) EXCEPT !["profiles"] = Migrated(@)]
  <2>2. \A k \in Records : m[k] = disk[k]
    BY DEF Applied, Records, TInv, TypeOK, Catalogs
  <2>3. app' = [k \in Kinds |-> m[k]] /\ mem' = m /\ disk' \in {disk, m}
    BY DEF Unlock, Persist
  <2> HIDE DEF m
  <2> QED  BY <2>1, <2>2, <2>3 DEF Records
<1>2. \A p \in Ops : ~Active(p) /\ ~Active(p)'
  BY <1>1 DEF Turn, WhileOpen, Active
<1>3. \A p \in Ops : Unused(p)'  BY <1>1 DEF Turn, Unused
<1>4. \A p \in Ops : Recorded(p)'
  BY <1>1 DEF Turn, Recorded, Records
<1>5. \A p \in Ops : Working(p)'
  BY <1>2 DEF Working, Active, Ended, Heading, Pending
<1>6. Kept' /\ DiskGrows  BY <1>1 DEF Kept, DiskGrows
<1>7. Single' /\ WhileOpen'  BY <1>2 DEF Single, WhileOpen
<1> QED  BY <1>3, <1>4, <1>5, <1>6, <1>7 DEF Turn

(* The process ends: what was under way is over. *)
LEMMA CrashTurn ==
  ASSUME TInv, Turn, Crash PROVE Turn' /\ DiskGrows
<1>1. /\ \A p \in Ops : pc'[p] = IF Active(p) THEN "dead" ELSE pc[p]
      /\ ~unlocked' /\ rec' = rec /\ job' = job /\ disk' = disk
      /\ \A k \in Records, i \in Ids : app'[k][i] = {} /\ mem'[k][i] = {}
  BY DEF Crash, local, Records, Empty, EmptyStore
<1>2. \A p \in Ops : ~Active(p)' /\ (pc'[p] = "idle" => pc[p] = "idle")
  BY <1>1 DEF Active, Ended
<1>3. \A p \in Ops : Unused(p)'
  BY <1>1, <1>2, OpsAssumption DEF Turn, Unused
<1>4. \A p \in Ops : Recorded(p)'
  BY <1>1, OpsAssumption DEF Turn, Recorded, Records
<1>5. \A p \in Ops : Working(p)'
  BY <1>2 DEF Working, Active, Ended, Heading, Pending
<1>6. Kept' /\ DiskGrows  BY <1>1 DEF Kept, DiskGrows
<1>7. Single' /\ WhileOpen'  BY <1>2 DEF Single, WhileOpen
<1> QED  BY <1>3, <1>4, <1>5, <1>6, <1>7 DEF Turn

(* Only an unlock and a persist write the file. *)
LEMMA OtherStepsGrow ==
  ASSUME NEW o \in Ops, Transfer(o) \/ Verify(o) \/ Import(o)
  PROVE  disk' = disk
<1>1. Transfer(o) => disk' = disk
  BY DEF Transfer, StartTransfer, TransferLog, TransferFails, BackupRecord,
         BackupCapture, BackupComplete, RestorePreQueryFails, RestoreComplete,
         RestorePostQuery, RestoreNoPostQuery, Log, Commit,
         UpdateHistoryRecord, data
<1>2. Verify(o) => disk' = disk
  BY DEF Verify, VerifyRead, VerifyWrite, VerifyFails, UpdateHistoryRecord,
         Commit, data
<1>3. Import(o) => disk' = disk
  BY DEF Import, ImportMerge, Load, Assign, data
<1> QED  BY <1>1, <1>2, <1>3

LEMMA EditGrows ==
  ASSUME TInv, Turn, NEW o \in Ops, Edit(o) PROVE DiskGrows
<1>1. ASSUME NEW l, NEW ok \in BOOLEAN, SaveSettings(o, l, ok)
      PROVE  DiskGrows
  BY <1>1, SettingsTurn
<1>2. ASSUME NEW k, NEW i, NEW e, SaveEntry(o, k, i, e) PROVE DiskGrows
  BY <1>2 DEF SaveEntry, Commit, data, DiskGrows
<1>3. ASSUME NEW k, NEW i, DeleteEntry(o, k, i) PROVE DiskGrows
  BY <1>3 DEF DeleteEntry, Commit, data, DiskGrows
<1>4. ASSUME NEW S, ReplaceTemplateInProfiles(o, S) PROVE DiskGrows
  BY <1>4 DEF ReplaceTemplateInProfiles, Commit, data, DiskGrows
<1> QED  BY <1>1, <1>2, <1>3, <1>4 DEF Edit

LEMMA TurnNext ==
  ASSUME TInv, Turn, Single', Next PROVE Turn' /\ DiskGrows
<1>1. ASSUME NEW ok \in BOOLEAN, Unlock(ok) PROVE Turn' /\ DiskGrows
  BY <1>1, UnlockTurn
<1>2. CASE Crash  BY <1>2, CrashTurn
<1>3. ASSUME NEW o \in Ops, Edit(o) PROVE Turn' /\ DiskGrows
  BY <1>3, EditTurn, EditGrows
<1>4. ASSUME NEW o \in Ops, Transfer(o) \/ Verify(o) \/ Import(o)
      PROVE  Turn' /\ DiskGrows
  <2>1. Turn'  BY <1>4, TransferTurn, VerifyTurn, ImportTurn
  <2>2. disk' = disk  BY <1>4, OtherStepsGrow
  <2> QED  BY <2>1, <2>2 DEF DiskGrows
<1>5. ASSUME NEW o \in Ops, NEW ok \in BOOLEAN, Save(o, ok)
      PROVE  Turn' /\ DiskGrows
  BY <1>5, SaveTurn
<1> QED  BY <1>1, <1>2, <1>3, <1>4, <1>5 DEF Next

LEMMA TurnInit == Init => Turn
<1> SUFFICES ASSUME Init PROVE Turn  OBVIOUS
<1>1. \A o \in Ops : ~Active(o)  BY DEF Init, Active, Ended
<1>2. Single /\ WhileOpen  BY <1>1 DEF Single, WhileOpen
<1>3. Kept  BY DEF Init, Kept, Empty, EmptyStore, Records
<1>4. ASSUME NEW o \in Ops PROVE Unused(o) /\ Recorded(o)
  <2>1. /\ disk["history"][o] = {} /\ disk["logs"][o] = {}
    BY DataAssumption DEF Init
  <2>2. app["history"][o] = {} /\ app["logs"][o] = {} /\ rec[o] = o
    BY OpsAssumption DEF Init, Empty
  <2> QED  BY <2>1, <2>2 DEF Unused, Recorded, Records
<1> QED  BY <1>1, <1>2, <1>3, <1>4, EndedWorking DEF Turn

TurnInv == alone => Turn

LEMMA InTurnInvariant == InTurnSpec => [](TInv /\ TurnInv)
<1>1. InTurnInit => TInv /\ TurnInv
  BY TypeInit, TurnInit DEF InTurnInit, TurnInv
<1>2. TInv /\ TurnInv /\ [InTurnNext]_<<vars, alone>> => (TInv /\ TurnInv)'
  <2> SUFFICES ASSUME TInv, TurnInv, [InTurnNext]_<<vars, alone>>, alone'
               PROVE  Turn'
    BY TypeNext DEF InTurnNext, TurnInv
  <2>1. CASE InTurnNext
    <3>1. alone /\ Single'  BY <2>1 DEF InTurnNext, Single
    <3> QED  BY <2>1, <3>1, TurnNext DEF InTurnNext, TurnInv
  <2>2. CASE UNCHANGED <<vars, alone>>
    BY <2>2 DEF vars, TurnInv, Turn, Single, WhileOpen, Kept, Unused, Recorded,
                Working, Heading, Pending, Active
  <2> QED  BY <2>1, <2>2
<1> QED  BY <1>1, <1>2, PTL DEF InTurnSpec

(* For users who let one operation end before they begin the next: a backup *)
(* the vault's log calls complete is in the vault's history with its        *)
(* checksum and fingerprint, whatever persists fail and whenever the        *)
(* process dies.                                                            *)
THEOREM AloneCompleteHolds == InTurnSpec => []AloneCompleteIsRecorded
<1>1. TurnInv => AloneCompleteIsRecorded
  BY DEF TurnInv, Turn, Recorded, AloneCompleteIsRecorded, CompleteIsRecorded
<1> QED  BY <1>1, InTurnInvariant, PTL

(* For the same users the history and the log in the vault file only grow:  *)
(* no save of a backup, a verification, an import or an editor call drops   *)
(* what an earlier one recorded.                                            *)
THEOREM AloneVaultGrows == InTurnSpec => AloneVaultOnlyGrows
<1> DEFINE Grows == alone' => \A k \in {"history", "logs"}, i \in Ids :
                                  disk[k][i] \subseteq disk'[k][i]
<1>1. TInv /\ TurnInv /\ [InTurnNext]_<<vars, alone>>
          => [Grows]_<<vars, alone>>
  <2> SUFFICES ASSUME TInv, TurnInv, InTurnNext, alone' PROVE Grows
    OBVIOUS
  <2>1. alone /\ Single' /\ Next  BY DEF InTurnNext, Single
  <2>2. DiskGrows  BY <2>1, TurnNext DEF TurnInv
  <2> QED  BY <2>2 DEF DiskGrows, Records
<1> HIDE DEF Grows
<1>2. InTurnSpec => [][Grows]_<<vars, alone>>
  BY <1>1, InTurnInvariant, PTL DEF InTurnSpec
<1> QED  BY <1>2 DEF AloneVaultOnlyGrows, Grows
=============================================================================
