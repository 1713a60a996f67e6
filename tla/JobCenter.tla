----------------------------- MODULE JobCenter -----------------------------
(***************************************************************************)
(* The Backups screen and the goroutines behind it: the thread of the       *)
(* window, one worker per backup, restore or deep verification, and the     *)
(* ticker that redraws the screen once a second while a job is active.      *)
(*                                                                          *)
(* The window draws when somebody has called invalidate.  The Jobs tab      *)
(* draws the jobs; the Files tab draws the records, through a cache that is *)
(* valid for one revision of the store.  The workers take the locks of the  *)
(* jobs and of the ticker, and none for the cache.                          *)
(*                                                                          *)
(* The list of records is the number of changes made to it.                 *)
(***************************************************************************)
EXTENDS Integers, FiniteSets

CONSTANTS
    Jobs,           \* jobs a user may start
    MaxProgress,    \* progress messages of one job
    MaxChanges,     \* changes the jobs make to the records
    None            \* no cache, no job

ASSUME JobsAssumption == IsFiniteSet(Jobs) /\ None \notin Jobs
ASSUME BoundsAssumption == MaxProgress \in Nat /\ MaxChanges \in Nat

VARIABLES
    tab,        \* what the window shows: the jobs, the files, another section
    redraw,     \* invalidate was called and no frame has started since
    ui,         \* where the window's thread is
    starting,   \* the job addJob is adding
    seen,       \* the revision the frame under way has read
    cache,      \* backupCache
    files,      \* the records the Files tab last drew; None: it drew none
    drawn,      \* the jobs as the Jobs tab last drew them
    worker,     \* where the goroutine of each job is
    progress,   \* job.Progress and job.Status
    done,       \* job.Done
    recent,     \* a refresh was requested less than 300 ms ago
    waiting,    \* ticker goroutines that wait for the next second
    stopping,   \* and those that have found no active job
    running,    \* jobTickerRunning
    hist,       \* App's list of records
    revision    \* of Store, one more with every save

vars == <<tab, redraw, ui, starting, seen, cache, files, drawn, worker, progress,
          done, recent, waiting, stopping, running, hist, revision>>

window == <<tab, ui, starting, seen, cache, files, drawn>>
jobs == <<worker, progress, done>>
tickers == <<waiting, stopping, running>>
records == <<hist, revision>>

Listed == {j \in Jobs : worker[j] # "none"}
Active == {j \in Listed : ~done[j]}

Init == /\ tab = "files" /\ redraw = TRUE
        /\ ui = "idle" /\ starting = None /\ seen = 0
        /\ cache = None /\ files = None
        /\ drawn = [j \in Jobs |-> [progress |-> 0, done |-> FALSE]]
        /\ worker = [j \in Jobs |-> "none"]
        /\ progress = [j \in Jobs |-> 0]
        /\ done = [j \in Jobs |-> FALSE]
        /\ recent = FALSE
        /\ waiting = 0 /\ stopping = 0 /\ running = FALSE
        /\ hist = 0 /\ revision = 0

----------------------------------------------------------------------------
(* The window's thread. *)

(* addJob puts the job on the list... *)
AddJob(j) ==
    /\ ui = "idle"
    /\ worker[j] = "none"
    /\ worker' = [worker EXCEPT ![j] = "listed"]
    /\ ui' = "adding"
    /\ starting' = j
    /\ UNCHANGED <<tab, redraw, seen, cache, files, drawn, progress, done, recent,
                   tickers, records>>

(* ... makes sure that a ticker runs, and the caller opens the Jobs tab and
   starts the worker. *)
EnsureTicker ==
    /\ ui = "adding"
    /\ waiting' = IF running THEN waiting ELSE waiting + 1
    /\ running' = TRUE
    /\ worker' = [worker EXCEPT ![starting] = "run"]
    /\ ui' = "idle"
    /\ starting' = None
    /\ tab' = "jobs"
    /\ redraw' = TRUE
    /\ UNCHANGED <<seen, cache, files, drawn, progress, done, recent, stopping,
                   records>>

(* The user changes tab or section: the window redraws. *)
OpenTab(t) ==
    /\ ui = "idle"
    /\ tab # t
    /\ tab' = t
    /\ redraw' = TRUE
    /\ UNCHANGED <<ui, starting, seen, cache, files, drawn, jobs, recent, tickers, records>>

DrawJobs ==
    /\ ui = "idle" /\ redraw
    /\ tab = "jobs"
    /\ redraw' = FALSE
    /\ drawn' = [j \in Jobs |-> [progress |-> progress[j], done |-> done[j]]]
    /\ UNCHANGED <<tab, ui, starting, seen, cache, files, jobs, recent, tickers, records>>

DrawOther ==
    /\ ui = "idle" /\ redraw
    /\ tab = "other"
    /\ redraw' = FALSE
    /\ UNCHANGED <<window, jobs, recent, tickers, records>>

(* The Files tab: rebuild reads the revision before the records... *)
ReadRevision ==
    /\ ui = "idle" /\ redraw
    /\ tab = "files"
    /\ redraw' = FALSE
    /\ seen' = revision
    /\ ui' = IF cache # None /\ cache.revision = revision THEN "drawing" ELSE "rebuilding"
    /\ UNCHANGED <<tab, starting, cache, files, drawn, jobs, recent, tickers, records>>

Rebuild ==
    /\ ui = "rebuilding"
    /\ cache' = [revision |-> seen, records |-> hist]
    /\ ui' = "drawing"
    /\ UNCHANGED <<tab, redraw, starting, seen, files, drawn, jobs, recent, tickers, records>>

(* ... and draws what is in the cache by then. *)
DrawFiles ==
    /\ ui = "drawing"
    /\ files' = IF cache = None THEN None ELSE cache.records
    /\ ui' = "idle"
    /\ UNCHANGED <<tab, redraw, starting, seen, cache, drawn, jobs, recent, tickers, records>>

----------------------------------------------------------------------------
(* The workers. *)

(* requestBackupsRefresh; it reads the section without a lock. *)
RequestRefresh(force) ==
    IF tab = "other" \/ (recent /\ ~force)
    THEN UNCHANGED <<redraw, recent>>
    ELSE redraw' = TRUE /\ recent' = TRUE

Goes(j, from, to) == worker[j] = from /\ worker' = [worker EXCEPT ![j] = to]

(* A progress message; of a backup's last phases, one that is followed by a
   reset of the cache. *)
Progress(j) ==
    /\ \/ Goes(j, "run", "run")
       \/ Goes(j, "run", "phase")
    /\ progress[j] < MaxProgress
    /\ progress' = [progress EXCEPT ![j] = @ + 1]
    /\ RequestRefresh(FALSE)
    /\ UNCHANGED <<window, done, tickers, records>>

ResetForPhase(j) ==
    /\ Goes(j, "phase", "run")
    /\ cache' = None
    /\ UNCHANGED <<tab, redraw, ui, starting, seen, files, drawn, progress, done,
                   recent, tickers, records>>

(* The operation changes App's records... *)
Change(j) ==
    /\ Goes(j, "run", "changed")
    /\ hist < MaxChanges
    /\ hist' = hist + 1
    /\ UNCHANGED <<window, redraw, progress, done, recent, tickers, revision>>

(* A plausible mistake: a save of records does not count the revision. *)
SaveUncounted(j) ==
    /\ Goes(j, "changed", "run")
    /\ UNCHANGED <<window, redraw, progress, done, recent, tickers, records>>

(* ... and saves them: Store counts the revision whether or not the vault can
   be written. *)
Save(j) ==
    /\ Goes(j, "changed", "run")
    /\ revision' = revision + 1
    /\ UNCHANGED <<window, redraw, progress, done, recent, tickers, hist>>

(* The operation is over; an import leaves the cache alone here. *)
Return(j) ==
    /\ Goes(j, "run", "closing")
    /\ cache' \in {cache, None}
    /\ UNCHANGED <<tab, redraw, ui, starting, seen, files, drawn, progress, done,
                   recent, tickers, records>>

(* finishJob: the job is done... *)
Finish(j) ==
    /\ Goes(j, "closing", "done")
    /\ done' = [done EXCEPT ![j] = TRUE]
    /\ UNCHANGED <<window, redraw, progress, recent, tickers, records>>

(* A plausible mistake: the last refresh is throttled like the others. *)
LastRefreshThrottled(j) ==
    /\ Goes(j, "done", "refreshed")
    /\ RequestRefresh(FALSE)
    /\ UNCHANGED <<window, progress, done, tickers, records>>

(* ... the screen is redrawn... *)
LastRefresh(j) ==
    /\ Goes(j, "done", "refreshed")
    /\ RequestRefresh(TRUE)
    /\ UNCHANGED <<window, progress, done, tickers, records>>

(* ... and the cache is reset. *)
LastReset(j) ==
    /\ Goes(j, "refreshed", "ended")
    /\ cache' = None
    /\ UNCHANGED <<tab, redraw, ui, starting, seen, files, drawn, progress, done,
                   recent, tickers, records>>

(* 300 ms pass. *)
Pause ==
    /\ recent
    /\ recent' = FALSE
    /\ UNCHANGED <<window, redraw, jobs, tickers, records>>

----------------------------------------------------------------------------
(* A plausible mistake: the ticker stops with the first job that is done. *)
TickUntilOneIsDone ==
    /\ waiting > 0
    /\ IF \E j \in Listed : done[j]
       THEN /\ waiting' = waiting - 1
            /\ stopping' = stopping + 1
            /\ UNCHANGED redraw
       ELSE redraw' = TRUE /\ UNCHANGED <<waiting, stopping>>
    /\ UNCHANGED <<window, jobs, recent, running, records>>

(* The ticker: once a second it looks for active jobs... *)
Tick ==
    /\ waiting > 0
    /\ IF Active = {}
       THEN /\ waiting' = waiting - 1
            /\ stopping' = stopping + 1
            /\ UNCHANGED redraw
       ELSE redraw' = TRUE /\ UNCHANGED <<waiting, stopping>>
    /\ UNCHANGED <<window, jobs, recent, running, records>>

(* A plausible mistake: the goroutine says it is gone, and waits once more. *)
StopTickerLate ==
    /\ stopping > 0
    /\ stopping' = stopping - 1
    /\ waiting' = waiting + 1
    /\ running' = FALSE
    /\ UNCHANGED <<window, redraw, jobs, recent, records>>

(* ... and when there are none it says that it is gone, in a second step. *)
StopTicker ==
    /\ stopping > 0
    /\ stopping' = stopping - 1
    /\ running' = FALSE
    /\ UNCHANGED <<window, redraw, jobs, recent, waiting, records>>

----------------------------------------------------------------------------
Frame == DrawJobs \/ DrawOther \/ ReadRevision \/ Rebuild \/ DrawFiles

Closing(j) == ResetForPhase(j) \/ Save(j) \/ Finish(j) \/ LastRefresh(j) \/ LastReset(j)

Next == \/ \E j \in Jobs : AddJob(j)
        \/ EnsureTicker
        \/ \E t \in {"jobs", "files", "other"} : OpenTab(t)
        \/ Frame
        \/ \E j \in Jobs : Progress(j) \/ Change(j) \/ Return(j) \/ Closing(j)
        \/ Pause
        \/ Tick \/ StopTicker

(* An operation may take for ever; everything else goes on. *)
Spec == /\ Init /\ [][Next]_vars
        /\ WF_vars(EnsureTicker)
        /\ WF_vars(Frame)
        /\ \A j \in Jobs : WF_vars(Closing(j))
        /\ WF_vars(Tick) /\ WF_vars(StopTicker)

----------------------------------------------------------------------------
TypeOK ==
    /\ tab \in {"jobs", "files", "other"} /\ redraw \in BOOLEAN
    /\ ui \in {"idle", "adding", "rebuilding", "drawing"}
    /\ starting \in Jobs \cup {None}
    /\ seen \in 0..MaxChanges
    /\ cache \in [revision: 0..MaxChanges, records: 0..MaxChanges] \cup {None}
    /\ files \in 0..MaxChanges \cup {None}
    /\ drawn \in [Jobs -> [progress: 0..MaxProgress, done: BOOLEAN]]
    /\ worker \in [Jobs -> {"none", "listed", "run", "phase", "changed", "closing",
                            "done", "refreshed", "ended"}]
    /\ progress \in [Jobs -> 0..MaxProgress] /\ done \in [Jobs -> BOOLEAN]
    /\ recent \in BOOLEAN /\ running \in BOOLEAN
    /\ waiting \in Nat /\ stopping \in Nat
    /\ hist \in 0..MaxChanges /\ revision \in 0..MaxChanges

(* At most one ticker goroutine exists, and jobTickerRunning says whether it
   does, although it is read and written at other moments than the goroutine
   starts and ends (jobs.go:114-136). *)
OneTicker == waiting + stopping = IF running THEN 1 ELSE 0

(* Between saves, a cache of the current revision holds the current records:
   neither the order in which rebuild reads the two, nor that in which App and
   Store change, nor the resets of the workers can leave it stale
   (cache.go:47-61, app.go:376-383, store.go:142-143). *)
CacheIsCurrent ==
    (cache # None /\ cache.revision = revision
       /\ \A j \in Jobs : worker[j] # "changed")
    => cache.records = hist

(* A job that has ended is drawn as ended while the Jobs tab is open, also
   when its last messages came too fast to be drawn (jobs.go:83-101, 146-159). *)
FinishedIsDrawn ==
    \A j \in Jobs : (done[j] /\ tab = "jobs") ~> (drawn[j].done \/ tab # "jobs")

(* "Progress appears in the Jobs tab" (README.md:320): as long as a ticker
   waits, the progress of an active job is drawn, also when its message came too
   fast to be drawn itself, unless the progress moves on or the job ends
   (jobs.go:114-159). *)
ProgressAppears ==
    \A j \in Jobs, p \in 1..MaxProgress :
        (tab = "jobs" /\ progress[j] = p /\ ~done[j] /\ waiting > 0)
        ~> (drawn[j].progress = p \/ progress[j] # p \/ done[j] \/ tab # "jobs")
============================================================================
