-------------------------- MODULE JobCenter_proofs --------------------------
(***************************************************************************)
(* Proofs about JobCenter, for any set of jobs and any number of messages   *)
(* and changes: there is one ticker goroutine at most, and a cache of the   *)
(* current revision is not stale.                                           *)
(***************************************************************************)
EXTENDS JobCenter, FiniteSetTheorems, TLAPS

(* The workers that have changed App's records and not yet saved them. *)
Unsaved == {j \in Jobs : worker[j] = "changed"}

(* Every change is either counted by Store or about to be. *)
Counted == hist = revision + Cardinality(Unsaved)

(* The revision a frame has read is no newer than the records it reads. *)
SeenOK == ui = "rebuilding" => seen <= hist

CacheOK == cache # None => cache.revision <= cache.records /\ cache.records <= hist

Types ==
    /\ worker \in [Jobs -> {"none", "listed", "run", "phase", "changed", "closing",
                            "done", "refreshed", "ended"}]
    /\ waiting \in Nat /\ stopping \in Nat /\ running \in BOOLEAN
    /\ hist \in Nat /\ revision \in Nat /\ seen \in Nat
    /\ cache \in [revision: Nat, records: Nat] \cup {None}

(* addJob's job waits for its worker. *)
StartingOK == ui = "adding" => starting \in Jobs /\ worker[starting] = "listed"

Inv == Types /\ StartingOK /\ OneTicker /\ Counted /\ SeenOK /\ CacheOK

-----------------------------------------------------------------------------
LEMMA UnsavedFinite == IsFiniteSet(Unsaved) /\ Cardinality(Unsaved) \in Nat
<1>1. IsFiniteSet(Unsaved)  BY JobsAssumption, FS_Subset DEF Unsaved
<1> QED  BY <1>1, FS_CardinalityType

LEMMA CountedAhead == Types /\ Counted => revision <= hist
  BY UnsavedFinite DEF Types, Counted

LEMMA InitInv == Init => Inv
<1> SUFFICES ASSUME Init PROVE Inv  OBVIOUS
<1>1. Unsaved = {}  BY DEF Init, Unsaved
<1>2. Cardinality(Unsaved) = 0  BY <1>1, FS_EmptySet
<1>3. Types
  <2>1. cache \in [revision: Nat, records: Nat] \cup {None}  BY DEF Init
  <2> QED  BY <2>1 DEF Init, Types
<1>4. OneTicker /\ Counted  BY <1>2 DEF Init, OneTicker, Counted
<1>5. StartingOK /\ SeenOK /\ CacheOK  BY DEF Init, StartingOK, SeenOK, CacheOK
<1> QED  BY <1>3, <1>4, <1>5 DEF Inv

(* What is left to show of a step that touches neither the records nor, but
   for a reset, the cache. *)
LEMMA RestInv ==
  ASSUME Inv, Types', StartingOK', OneTicker', Unsaved' = Unsaved,
         UNCHANGED <<hist, revision, seen>>, ui' = "rebuilding" => ui = "rebuilding",
         cache' \in {cache, None}
  PROVE  Inv'
  BY DEF Inv, Counted, SeenOK, CacheOK

(* And of a step of a worker that neither changes nor saves the records. *)
LEMMA WorkerInv ==
  ASSUME Inv, NEW j \in Jobs, NEW from,
         NEW to \in {"run", "phase", "closing", "done", "refreshed", "ended"},
         Goes(j, from, to), from \notin {"listed", "changed"},
         UNCHANGED <<hist, revision, seen, ui, starting, waiting, stopping, running>>,
         cache' \in {cache, None}
  PROVE  Inv'
<1>1. Types'  BY DEF Inv, Types, Goes
<1>2. StartingOK'  BY DEF Inv, Types, StartingOK, Goes
<1>3. OneTicker'  BY DEF Inv, OneTicker
<1>4. Unsaved' = Unsaved  BY DEF Inv, Goes, Unsaved, Types
<1> QED  BY <1>1, <1>2, <1>3, <1>4, RestInv

-----------------------------------------------------------------------------
LEMMA NextInv == Inv /\ [Next]_vars => Inv'
<1> SUFFICES ASSUME Inv, [Next]_vars PROVE Inv'  OBVIOUS
<1>0. Types /\ StartingOK /\ OneTicker /\ Counted /\ SeenOK /\ CacheOK /\ revision <= hist
  BY CountedAhead DEF Inv
<1>1. ASSUME NEW j \in Jobs, AddJob(j) PROVE Inv'
  <2>1. Types' /\ StartingOK'
    BY <1>0, <1>1 DEF AddJob, Types, StartingOK, tickers, records
  <2>2. Unsaved' = Unsaved  BY <1>0, <1>1 DEF AddJob, Unsaved, Types
  <2>3. OneTicker'  BY <1>0, <1>1 DEF AddJob, OneTicker, tickers
  <2> QED  BY <1>1, <2>1, <2>2, <2>3, RestInv DEF AddJob, records
<1>2. CASE EnsureTicker
  <2>1. starting \in Jobs /\ worker[starting] = "listed"
    BY <1>0, <1>2 DEF EnsureTicker, StartingOK
  <2>2. waiting' \in Nat  BY <1>0, <1>2 DEF EnsureTicker, Types
  <2>3. Types'  BY <1>0, <1>2, <2>1, <2>2 DEF EnsureTicker, Types, records
  <2>4. Unsaved' = Unsaved  BY <1>0, <1>2, <2>1 DEF EnsureTicker, Unsaved, Types
  <2>5. OneTicker'
    <3>1. CASE running  BY <1>0, <1>2, <3>1 DEF EnsureTicker, OneTicker, Types
    <3>2. CASE ~running  BY <1>0, <1>2, <3>2 DEF EnsureTicker, OneTicker, Types
    <3> QED  BY <3>1, <3>2
  <2>6. StartingOK'  BY <1>2 DEF EnsureTicker, StartingOK
  <2> QED  BY <1>2, <2>3, <2>4, <2>5, <2>6, RestInv DEF EnsureTicker, records
<1>3. CASE (\E t \in {"jobs", "files", "other"} : OpenTab(t)) \/ DrawJobs \/ DrawOther \/ DrawFiles
  <2>1. /\ UNCHANGED <<worker, waiting, stopping, running, hist, revision, seen, cache, starting>>
        /\ ui' \in {ui, "idle"}
    BY <1>3 DEF OpenTab, DrawJobs, DrawOther, DrawFiles, window, jobs, tickers, records
  <2>2. Types' /\ StartingOK' /\ OneTicker' /\ Unsaved' = Unsaved
    BY <1>0, <2>1 DEF Types, StartingOK, OneTicker, Unsaved
  <2> QED  BY <2>1, <2>2, RestInv
<1>4. CASE ReadRevision
  <2>1. Types'  BY <1>0, <1>4 DEF ReadRevision, Types, jobs, tickers, records
  <2>2. Unsaved' = Unsaved  BY <1>4 DEF ReadRevision, Unsaved, jobs
  <2>3. Counted'  BY <1>0, <1>4, <2>2 DEF ReadRevision, Counted, records
  <2>4. SeenOK'  BY <1>0, <1>4 DEF ReadRevision, SeenOK, records
  <2>5. StartingOK' /\ OneTicker' /\ CacheOK'
    BY <1>0, <1>4 DEF ReadRevision, StartingOK, OneTicker, CacheOK, jobs, tickers, records
  <2> QED  BY <2>1, <2>2, <2>3, <2>4, <2>5 DEF Inv
<1>5. CASE Rebuild
  <2>1. cache' = [revision |-> seen, records |-> hist] /\ seen <= hist
    BY <1>0, <1>5 DEF Rebuild, SeenOK
  <2>2. Types'  BY <1>0, <1>5, <2>1 DEF Rebuild, Types, jobs, tickers, records
  <2>3. Unsaved' = Unsaved  BY <1>5 DEF Rebuild, Unsaved, jobs
  <2>4. Counted' /\ SeenOK'  BY <1>0, <1>5, <2>3 DEF Rebuild, Counted, SeenOK, records
  <2>5. CacheOK'  BY <1>0, <1>5, <2>1 DEF Rebuild, CacheOK, Types, records
  <2>6. StartingOK' /\ OneTicker'
    BY <1>0, <1>5 DEF Rebuild, StartingOK, OneTicker, jobs, tickers
  <2> QED  BY <2>2, <2>4, <2>5, <2>6 DEF Inv
<1>6. ASSUME NEW j \in Jobs, Progress(j) \/ ResetForPhase(j) \/ Return(j) \/ Finish(j)
                             \/ LastRefresh(j) \/ LastReset(j)
      PROVE  Inv'
  <2>1. /\ UNCHANGED <<hist, revision, seen, ui, starting, waiting, stopping, running>>
        /\ cache' \in {cache, None}
    BY <1>6 DEF Progress, ResetForPhase, Return, Finish, LastRefresh, LastReset,
                window, tickers, records
  <2>2. \E from \in {"run", "phase", "closing", "done", "refreshed"},
           to \in {"run", "phase", "closing", "done", "refreshed", "ended"} : Goes(j, from, to)
    BY <1>6 DEF Progress, ResetForPhase, Return, Finish, LastRefresh, LastReset
  <2> QED  BY <2>1, <2>2, WorkerInv
<1>7. ASSUME NEW j \in Jobs, Change(j) PROVE Inv'
  <2>1. Types'  BY <1>0, <1>7 DEF Change, Goes, Types, window, tickers
  <2>2. j \notin Unsaved /\ Unsaved' = Unsaved \cup {j}
    BY <1>0, <1>7 DEF Change, Goes, Unsaved, Types
  <2>3. Cardinality(Unsaved') = Cardinality(Unsaved) + 1
    BY <2>2, UnsavedFinite, FS_AddElement
  <2>4. Counted'  BY <1>0, <1>7, <2>3, UnsavedFinite DEF Change, Counted, Types
  <2>5. SeenOK' /\ CacheOK'
    BY <1>0, <1>7 DEF Change, SeenOK, CacheOK, Types, window
  <2>6. StartingOK' /\ OneTicker'
    BY <1>0, <1>7 DEF Change, Goes, StartingOK, OneTicker, Types, window, tickers
  <2> QED  BY <2>1, <2>4, <2>5, <2>6 DEF Inv
<1>8. ASSUME NEW j \in Jobs, Save(j) PROVE Inv'
  <2>1. Types'  BY <1>0, <1>8 DEF Save, Goes, Types, window, tickers
  <2>2. j \in Unsaved /\ Unsaved' = Unsaved \ {j}
    BY <1>0, <1>8 DEF Save, Goes, Unsaved, Types
  <2>3. Cardinality(Unsaved') = Cardinality(Unsaved) - 1
    BY <2>2, UnsavedFinite, FS_RemoveElement
  <2>4. Counted'  BY <1>0, <1>8, <2>3, UnsavedFinite DEF Save, Counted, Types
  <2>5. SeenOK' /\ CacheOK' /\ StartingOK' /\ OneTicker'
    BY <1>0, <1>8 DEF Save, Goes, SeenOK, CacheOK, StartingOK, OneTicker, Types, window, tickers
  <2> QED  BY <2>1, <2>4, <2>5 DEF Inv
<1>9. CASE Tick \/ StopTicker
  <2>1. UNCHANGED <<worker, hist, revision, seen, cache, ui, starting>>
    BY <1>9 DEF Tick, StopTicker, window, jobs, records
  <2>2. /\ waiting' \in Nat /\ stopping' \in Nat /\ running' \in BOOLEAN /\ OneTicker'
    <3>1. CASE Tick /\ Active = {}
      BY <1>0, <3>1 DEF Tick, OneTicker, Types
    <3>2. CASE Tick /\ Active # {}
      BY <1>0, <3>2 DEF Tick, OneTicker, Types
    <3>3. CASE StopTicker
      <4>1. stopping > 0 /\ running
        BY <1>0, <3>3 DEF StopTicker, OneTicker, Types
      <4>2. stopping = 1 /\ waiting = 0
        BY <1>0, <3>3, <4>1 DEF StopTicker, OneTicker, Types
      <4>3. stopping' = 0 /\ waiting' = 0 /\ running' = FALSE
        BY <3>3, <4>2 DEF StopTicker
      <4>4. OneTicker'  BY <4>3 DEF OneTicker
      <4>5. waiting' \in Nat /\ stopping' \in Nat /\ running' \in BOOLEAN  BY <4>3
      <4> QED  BY <4>4, <4>5
    <3> QED  BY <1>9, <3>1, <3>2, <3>3
  <2>3. Types' /\ StartingOK' /\ Unsaved' = Unsaved
    BY <1>0, <2>1, <2>2 DEF Types, StartingOK, Unsaved
  <2> QED  BY <2>1, <2>2, <2>3, RestInv
<1>10. CASE Pause \/ UNCHANGED vars
  <2>1. UNCHANGED <<worker, hist, revision, seen, cache, ui, starting, waiting, stopping, running>>
    BY <1>10 DEF Pause, vars, window, jobs, tickers, records
  <2>2. Types' /\ StartingOK' /\ OneTicker' /\ Unsaved' = Unsaved
    BY <1>0, <2>1 DEF Types, StartingOK, OneTicker, Unsaved
  <2> QED  BY <2>1, <2>2, RestInv
<1> QED  BY <1>1, <1>2, <1>3, <1>4, <1>5, <1>6, <1>7, <1>8, <1>9, <1>10
         DEF Next, Frame, Closing

-----------------------------------------------------------------------------
LEMMA Invariance == Spec => []Inv
<1> QED  BY InitInv, NextInv, PTL DEF Spec

(* There is never a second ticker goroutine, for any number of jobs. *)
THEOREM NeverTwoTickers == Spec => []OneTicker
<1>1. Inv => OneTicker  BY DEF Inv
<1> QED  BY <1>1, Invariance, PTL

(* The cache of the Files tab is never stale between saves, for any number of
   jobs and changes. *)
THEOREM CacheNeverStale == Spec => []CacheIsCurrent
<1>1. Inv => CacheIsCurrent
  <2> SUFFICES ASSUME Inv, cache # None, cache.revision = revision,
                      \A j \in Jobs : worker[j] # "changed"
               PROVE  cache.records = hist
    BY DEF CacheIsCurrent
  <2>1. Cardinality(Unsaved) = 0
    <3>1. Unsaved = {}  BY DEF Unsaved
    <3> QED  BY <3>1, FS_EmptySet
  <2>2. hist = revision  BY <2>1 DEF Inv, Counted, Types
  <2>3. cache \in [revision: Nat, records: Nat]  BY DEF Inv, Types
  <2> QED  BY <2>2, <2>3 DEF Inv, CacheOK, Types
<1> QED  BY <1>1, Invariance, PTL

-----------------------------------------------------------------------------
(* What the window shows and the workers report. *)
Screen ==
    /\ tab \in {"jobs", "files", "other"} /\ redraw \in BOOLEAN /\ recent \in BOOLEAN
    /\ ui \in {"idle", "adding", "rebuilding", "drawing"}
    /\ starting \in Jobs \cup {None}
    /\ drawn \in [Jobs -> [progress: 0..MaxProgress, done: BOOLEAN]]
    /\ progress \in [Jobs -> 0..MaxProgress] /\ done \in [Jobs -> BOOLEAN]

(* The numbers of changes known here and there. *)
Bounds ==
    /\ hist \in 0..MaxChanges
    /\ revision \in 0..MaxChanges
    /\ seen \in 0..MaxChanges
    /\ cache \in [revision: 0..MaxChanges, records: 0..MaxChanges] \cup {None}
    /\ files \in 0..MaxChanges \cup {None}

LEMMA RequestType ==
  ASSUME redraw \in BOOLEAN, recent \in BOOLEAN, NEW force \in BOOLEAN, RequestRefresh(force)
  PROVE  redraw' \in BOOLEAN /\ recent' \in BOOLEAN
  BY DEF RequestRefresh

LEMMA ScreenNext == Screen /\ [Next]_vars => Screen'
<1> SUFFICES ASSUME Screen, [Next]_vars PROVE Screen'  OBVIOUS
<1> USE DEF Screen
<1>1. ASSUME NEW j \in Jobs, AddJob(j) PROVE Screen'  BY <1>1 DEF AddJob
<1>2. CASE EnsureTicker  BY <1>2 DEF EnsureTicker
<1>3. ASSUME NEW t \in {"jobs", "files", "other"}, OpenTab(t) PROVE Screen'
  BY <1>3 DEF OpenTab, jobs
<1>4. CASE DrawJobs
  <2>1. drawn' \in [Jobs -> [progress: 0..MaxProgress, done: BOOLEAN]]  BY <1>4 DEF DrawJobs
  <2> QED  BY <1>4, <2>1 DEF DrawJobs, jobs
<1>5. CASE DrawOther \/ ReadRevision \/ Rebuild \/ DrawFiles
  BY <1>5 DEF DrawOther, ReadRevision, Rebuild, DrawFiles, window, jobs
<1>6. ASSUME NEW j \in Jobs, Progress(j) PROVE Screen'
  <2>1. redraw' \in BOOLEAN /\ recent' \in BOOLEAN  BY <1>6, RequestType DEF Progress
  <2>2. progress' \in [Jobs -> 0..MaxProgress]  BY <1>6, BoundsAssumption DEF Progress
  <2> QED  BY <1>6, <2>1, <2>2 DEF Progress, window
<1>7. ASSUME NEW j \in Jobs, LastRefresh(j) PROVE Screen'
  <2>1. redraw' \in BOOLEAN /\ recent' \in BOOLEAN  BY <1>7, RequestType DEF LastRefresh
  <2> QED  BY <1>7, <2>1 DEF LastRefresh, window
<1>8. ASSUME NEW j \in Jobs,
             ResetForPhase(j) \/ Change(j) \/ Save(j) \/ Return(j) \/ Finish(j) \/ LastReset(j)
      PROVE  Screen'
  BY <1>8 DEF ResetForPhase, Change, Save, Return, Finish, LastReset, window
<1>9. CASE Pause \/ Tick \/ StopTicker \/ UNCHANGED vars
  BY <1>9 DEF Pause, Tick, StopTicker, window, jobs, vars
<1> QED  BY <1>1, <1>2, <1>3, <1>4, <1>5, <1>6, <1>7, <1>8, <1>9 DEF Next, Frame, Closing

(* Store is never ahead of App, so the bound of the changes is the bound of the
   revisions and of all copies of them. *)
LEMMA BoundsNext == Inv /\ Inv' /\ Bounds /\ [Next]_vars => Bounds'
<1> SUFFICES ASSUME Inv, Inv', Bounds, [Next]_vars PROVE Bounds'  OBVIOUS
<1>1. revision' \in Nat /\ hist' \in Nat /\ revision' <= hist'
  <2>1. Types' /\ Counted'  BY DEF Inv
  <2>2. IsFiniteSet(Unsaved') /\ Cardinality(Unsaved') \in Nat
    <3>1. Unsaved' \subseteq Jobs  BY DEF Unsaved
    <3>2. IsFiniteSet(Unsaved')  BY <3>1, JobsAssumption, FS_Subset
    <3> QED  BY <3>2, FS_CardinalityType
  <2> QED  BY <2>1, <2>2 DEF Types, Counted
<1>2. hist' = hist \/ (hist < MaxChanges /\ hist' = hist + 1)
  BY DEF Next, Frame, Closing, AddJob, EnsureTicker, OpenTab, DrawJobs, DrawOther,
         ReadRevision, Rebuild, DrawFiles, Progress, Change, Return, ResetForPhase, Save,
         Finish, LastRefresh, LastReset, Pause, Tick, StopTicker, records, vars
<1>3. hist' \in 0..MaxChanges /\ revision' \in 0..MaxChanges
  BY <1>1, <1>2, BoundsAssumption DEF Bounds
<1>4. seen' \in {seen, revision}
  BY DEF Next, Frame, Closing, AddJob, EnsureTicker, OpenTab, DrawJobs, DrawOther,
         ReadRevision, Rebuild, DrawFiles, Progress, Change, Return, ResetForPhase, Save,
         Finish, LastRefresh, LastReset, Pause, Tick, StopTicker, window, vars
<1>5. cache' \in {cache, None, [revision |-> seen, records |-> hist]}
  BY DEF Next, Frame, Closing, AddJob, EnsureTicker, OpenTab, DrawJobs, DrawOther,
         ReadRevision, Rebuild, DrawFiles, Progress, Change, Return, ResetForPhase, Save,
         Finish, LastRefresh, LastReset, Pause, Tick, StopTicker, window, vars
<1>6. files' \in {files, None} \/ (cache # None /\ files' = cache.records)
  BY DEF Next, Frame, Closing, AddJob, EnsureTicker, OpenTab, DrawJobs, DrawOther,
         ReadRevision, Rebuild, DrawFiles, Progress, Change, Return, ResetForPhase, Save,
         Finish, LastRefresh, LastReset, Pause, Tick, StopTicker, window, vars
<1>7. cache' \in [revision: 0..MaxChanges, records: 0..MaxChanges] \cup {None}
  BY <1>5 DEF Bounds
<1>8. files' \in 0..MaxChanges \cup {None}  BY <1>6 DEF Bounds
<1> QED  BY <1>3, <1>4, <1>7, <1>8 DEF Bounds

(* Every variable keeps its type and its bound. *)
THEOREM TypeCorrect == Spec => []TypeOK
<1>1. ASSUME Init PROVE Screen /\ Bounds
  <2>1. 0 \in 0..MaxProgress /\ 0 \in 0..MaxChanges  BY BoundsAssumption
  <2>2. drawn \in [Jobs -> [progress: 0..MaxProgress, done: BOOLEAN]]
    BY <1>1, <2>1 DEF Init
  <2>3. progress \in [Jobs -> 0..MaxProgress] /\ done \in [Jobs -> BOOLEAN]
    BY <1>1, <2>1 DEF Init
  <2>4. Screen  BY <1>1, <2>2, <2>3 DEF Init, Screen
  <2>5. Bounds  BY <1>1, <2>1 DEF Init, Bounds
  <2> QED  BY <2>4, <2>5
<1>2. Inv /\ Screen /\ Bounds => TypeOK  BY DEF Inv, Types, Screen, Bounds, TypeOK
<1>3. Spec => []Screen  BY <1>1, ScreenNext, PTL DEF Spec
<1>4. Spec => []Bounds  BY <1>1, BoundsNext, Invariance, PTL DEF Spec
<1> QED  BY <1>2, <1>3, <1>4, Invariance, PTL
============================================================================
