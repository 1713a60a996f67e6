----------------------------- MODULE RestoreSSH -----------------------------
(***************************************************************************)
(* Restores over SSH into one destination database, one call of App.Restore *)
(* after the other: the pre-import query, transfer.RestoreSSH with its two   *)
(* strategies, and the post-import query.                                    *)
(*                                                                          *)
(* Each attempt drops and creates the database, then imports the file: the  *)
(* first through a pipe, the second from a copy of the file on the server.   *)
(* An import is a process of the server.  It outlives the connection that    *)
(* started it and goes on with the input it has; so does a command that      *)
(* drops the database.  The environment cancels calls and breaks             *)
(* connections; remote commands fail or hang.                                *)
(*                                                                          *)
(* A file is a sequence of chunks.  The database is the sequence of chunks   *)
(* imported since it was last dropped, each with the call and the attempt    *)
(* that imported it.                                                         *)
(***************************************************************************)
EXTENDS Integers, Sequences

CONSTANTS
    Calls,      \* restores, one after the other
    Size,       \* chunks of the backup file
    Pipefail    \* the remote shell has pipefail

ASSUME CallsAssumption == Calls \in Nat
ASSUME SizeAssumption == Size \in Nat \ {0}
ASSUME PipefailAssumption == Pipefail \in BOOLEAN

VARIABLES
    call,       \* the call under way, or the last one
    pc,         \* where it is; most names are the command it waits for
    query,      \* the pre- or post-import query: "none", "dial" or "run"
    attempt,    \* the turn of RestoreSSH's loop
    result,     \* of each call
    intact,     \* the file the call restores is complete
    canceled,   \* its ctx is done
    up,         \* its SSH client can still run commands
    watched,    \* a cancelOnContext goroutine holds the client
    sent,       \* chunks written to the import or to the remote copy
    exit,       \* the exit status the import reported
    alone,      \* nothing of an earlier call ran when the database was created
    db,         \* the destination database
    live,       \* the imports that run on the server
    drops       \* calls whose DROP and CREATE is under way without a client

vars == <<call, pc, query, attempt, result, intact, canceled, up, watched, sent, exit,
          alone, db, live, drops>>

Chunks == (0..Calls) \X (0..2) \X (0..Size)
Imports == [call: 1..Calls, attempt: 1..2, done: 0..Size, avail: 0..Size]

Before == <<0, 0, 0>>
Mine == {i \in live : i.call = call}

Init == /\ call = 0
        /\ pc = "idle"
        /\ query = "none"
        /\ attempt = 1
        /\ result = [c \in 1..Calls |-> "none"]
        /\ intact = TRUE
        /\ canceled = FALSE /\ up = FALSE /\ watched = FALSE
        /\ sent = 0 /\ exit = "none" /\ alone = TRUE
        /\ db = <<Before>>
        /\ live = {} /\ drops = {}

server == <<db, live, drops>>
request == <<call, intact, canceled, watched>>
client == <<request, query>>

----------------------------------------------------------------------------
(* The call returns; the client is closed. *)
Return(r) == /\ pc' = "idle"
             /\ result' = [result EXCEPT ![call] = r]
             /\ up' = FALSE

(* A plausible mistake: the second attempt dials again. *)
EndAttemptRedials(retryable) ==
    IF retryable /\ attempt = 1
    THEN attempt' = 2 /\ pc' = "attempt" /\ up' = TRUE /\ UNCHANGED result
    ELSE Return("failed") /\ UNCHANGED attempt

(* The end of one turn of the loop after an error. *)
EndAttempt(retryable) ==
    IF retryable /\ attempt = 1
    THEN attempt' = 2 /\ pc' = "attempt" /\ UNCHANGED <<result, up>>
    ELSE Return("failed") /\ UNCHANGED attempt

(* An error whose text the remote decides may or may not be retryable. *)
Fails == \E retryable \in BOOLEAN : EndAttempt(retryable)

Goes(to) == pc' = to /\ UNCHANGED <<attempt, result, up>>

----------------------------------------------------------------------------
(* App.Restore begins, with a context of its own. *)
Start == /\ pc = "idle"
         /\ call < Calls
         /\ call' = call + 1
         /\ pc' = "prequery"
         /\ intact' \in BOOLEAN
         /\ canceled' = FALSE
         /\ watched' = FALSE
         /\ UNCHANGED <<query, attempt, result, up, sent, exit, alone, server>>

(* The queries of the user before and after the import, each over a connection
   of its own.  What their SQL does to the database is left out. *)
Queries == {"prequery", "postquery"}

(* A failed pre-import query ends the call; so does a post-import query, of
   which the log has said complete. *)
QueryEnds(ok) ==
    /\ query' = "none"
    /\ IF pc = "prequery"
       THEN IF ok THEN Goes("connect") ELSE Return("failed") /\ UNCHANGED attempt
       ELSE /\ pc' = "idle"
            /\ result' = IF ok THEN result
                               ELSE [result EXCEPT ![call] = "queryfailed"]
            /\ UNCHANGED <<attempt, up>>

(* There is none; or the destination is protected, the file too small, ctx done,
   the command not to be built. *)
NoQuery ==
    /\ pc \in Queries /\ query = "none"
    /\ \E ok \in BOOLEAN : QueryEnds(ok)
    /\ UNCHANGED <<request, sent, exit, alone, server>>

(* RunImportQuery looks at ctx once and dials; ssh.NewExecutor knows no ctx. *)
DialQuery ==
    /\ pc \in Queries /\ query = "none"
    /\ ~canceled
    /\ query' = "dial"
    /\ Goes(pc)
    /\ UNCHANGED <<request, sent, exit, alone, server>>

QueryDialed ==
    /\ pc \in Queries /\ query = "dial"
    /\ \/ query' = "run" /\ Goes(pc)
       \/ QueryEnds(FALSE)
    /\ UNCHANGED <<request, sent, exit, alone, server>>

(* A cancel closes the client of the command that runs, and is what the query
   then returns. *)
RunQuery ==
    /\ pc \in Queries /\ query = "run"
    /\ \E ok \in BOOLEAN : (ok => ~canceled) /\ QueryEnds(ok)
    /\ UNCHANGED <<request, sent, exit, alone, server>>

(* RestoreSSH up to the loop: dial, preflight, compression. *)
Connect == /\ pc = "connect"
           /\ \/ /\ pc' = "attempt"
                 /\ attempt' = 1
                 /\ up' = TRUE
                 /\ UNCHANGED result
              \/ Return("failed") /\ UNCHANGED attempt
           /\ UNCHANGED <<client, sent, exit, alone, server>>

(* A plausible mistake: the database is recreated for the first attempt only. *)
AttemptPreparesOnce ==
    /\ pc = "attempt"
    /\ IF canceled
       THEN Return("canceled") /\ UNCHANGED attempt
       ELSE Goes(IF attempt = 1 THEN "prepare" ELSE "mkdir")
    /\ UNCHANGED <<client, sent, exit, alone, server>>

(* The head of the loop. *)
Attempt == /\ pc = "attempt"
           /\ IF canceled
              THEN Return("canceled") /\ UNCHANGED attempt
              ELSE Goes("prepare")
           /\ UNCHANGED <<client, sent, exit, alone, server>>

(* DROP and CREATE DATABASE; an error may come after the DROP, and a command
   whose connection is gone may still be under way. *)
Prepare ==
    /\ pc = "prepare"
    /\ \/ /\ up
          /\ db' = <<>>
          /\ alone' = (drops = {} /\ live \subseteq Mine)
          /\ Goes(IF attempt = 1 THEN "stream" ELSE "mkdir")
          /\ UNCHANGED drops
       \/ /\ up
          /\ db' \in {db, <<>>}
          /\ Fails
          /\ UNCHANGED <<alone, drops>>
       \/ /\ ~up
          /\ drops' \in {drops, drops \cup {call}}
          /\ Fails
          /\ UNCHANGED <<alone, db>>
    /\ UNCHANGED <<client, sent, exit, live>>

----------------------------------------------------------------------------
(* restoreStream. *)

Import(available) == [call |-> call, attempt |-> attempt, done |-> 0, avail |-> available]

OpenStream ==
    /\ pc = "stream"
    /\ \/ /\ up
          /\ live' = live \cup {Import(0)}
          /\ watched' = TRUE
          /\ sent' = 0
          /\ exit' = "none"
          /\ Goes("copy")
       \/ Fails /\ UNCHANGED <<live, watched, sent, exit>>
    /\ UNCHANGED <<call, query, intact, canceled, alone, db, drops>>

(* fastCopy: one chunk goes into the pipe. *)
Copy ==
    /\ pc = "copy"
    /\ up
    /\ sent < Size
    /\ \E i \in Mine : live' = (live \ {i}) \cup {[i EXCEPT !.avail = @ + 1]}
    /\ sent' = sent + 1
    /\ Goes("copy")
    /\ UNCHANGED <<client, exit, alone, db, drops>>

(* The copy is over: ctx is looked at first; then a write that failed because
   the import or the connection is gone, "upload: EOF" if it is the import. *)
CopyEnds ==
    /\ pc = "copy"
    /\ sent = Size \/ ~up \/ Mine = {}
    /\ \/ canceled /\ Return("canceled") /\ UNCHANGED attempt
       \/ ~canceled /\ up /\ Mine = {} /\ EndAttempt(TRUE)
       \/ ~canceled /\ ~up /\ Fails
       \/ ~canceled /\ sent = Size /\ Goes("wait")
    /\ UNCHANGED <<client, sent, exit, alone, server>>

(* A plausible mistake: nobody waits for the import once the file is sent. *)
WaitNot ==
    /\ pc = "wait"
    /\ \/ ~up /\ Fails
       \/ up /\ Goes("imported")
    /\ UNCHANGED <<client, sent, exit, alone, server>>

(* session.Wait. *)
Wait ==
    /\ pc = "wait"
    /\ \/ ~up /\ Fails
       \/ up /\ exit = "bad" /\ Fails
       \/ up /\ exit = "ok" /\ Goes("imported")
    /\ UNCHANGED <<client, sent, exit, alone, server>>

----------------------------------------------------------------------------
(* restoreTmpFile.  It never looks at ctx.  The remote directory is new, so
   there is nothing to resume. *)

MakeTmpDir ==
    /\ pc = "mkdir"
    /\ \/ up /\ Goes("upload") /\ sent' = 0
       \/ Fails /\ UNCHANGED sent
    /\ UNCHANGED <<client, exit, alone, server>>

Upload ==
    /\ pc = "upload"
    /\ \/ up /\ sent < Size /\ sent' = sent + 1 /\ Goes("upload")
       \/ up /\ sent = Size /\ Goes("import") /\ UNCHANGED sent
       \/ Fails /\ UNCHANGED sent
    /\ UNCHANGED <<client, exit, alone, server>>

StartImport ==
    /\ pc = "import"
    /\ \/ /\ up
          /\ live' = live \cup {Import(Size)}
          /\ exit' = "none"
          /\ Goes("run")
       \/ Fails /\ UNCHANGED <<live, exit>>
    /\ UNCHANGED <<client, sent, alone, db, drops>>

(* The import returns; the remote directory is removed. *)
ImportReturns ==
    /\ pc = "run"
    /\ \/ ~up /\ Fails
       \/ up /\ exit = "bad" /\ Fails
       \/ up /\ exit = "ok" /\ Goes("imported")
    /\ UNCHANGED <<client, sent, exit, alone, server>>

----------------------------------------------------------------------------
(* Back in App.Restore: the log says complete, and the post-import query is next. *)
Complete == /\ pc = "imported"
            /\ pc' = "postquery"
            /\ result' = [result EXCEPT ![call] = "complete"]
            /\ up' = FALSE
            /\ UNCHANGED <<client, attempt, sent, exit, alone, server>>

----------------------------------------------------------------------------
(* The server. *)

(* An import applies a chunk of its input, whether or not the database is the
   one that was created for it. *)
Apply(i) ==
    /\ i.done < i.avail
    /\ live' = (live \ {i}) \cup {[i EXCEPT !.done = @ + 1]}
    /\ db' = Append(db, <<i.call, i.attempt, i.done + 1>>)
    /\ UNCHANGED <<client, pc, attempt, result, up, sent, exit, alone, drops>>

(* An import ends: with success only when it has applied the whole input and,
   where the shell has pipefail, gunzip found it complete. *)
Ends(i) ==
    /\ live' = live \ {i}
    /\ IF up /\ i.call = call
       THEN \/ exit' = "bad"
            \/ /\ pc # "copy" /\ i.done = Size
               /\ Pipefail => intact
               /\ exit' = "ok"
       ELSE UNCHANGED exit
    /\ UNCHANGED <<client, pc, attempt, result, up, sent, alone, db, drops>>

(* A DROP and CREATE nobody waits for is executed, or dies. *)
LateDrop(c) ==
    /\ drops' = drops \ {c}
    /\ db' \in {db, <<>>}
    /\ UNCHANGED <<client, pc, attempt, result, up, sent, exit, alone, live>>

(* The rest of the environment. *)

Cancel == /\ pc # "idle"
          /\ ~canceled
          /\ canceled' = TRUE
          /\ UNCHANGED <<call, pc, query, attempt, result, intact, up, watched, sent,
                         exit, alone, server>>

ConnectionLost == /\ up
                  /\ up' = FALSE
                  /\ UNCHANGED <<client, pc, attempt, result, sent, exit, alone, server>>

(* A plausible mistake: cancelOnContext ends with the session it was started
   for. *)
CancelFirstSession == /\ watched /\ canceled /\ up
                      /\ attempt = 1
                      /\ up' = FALSE
                      /\ UNCHANGED <<client, pc, attempt, result, sent, exit, alone, server>>

(* cancelOnContext closes the client, in the second attempt too. *)
CancelOnContext == /\ watched
                   /\ canceled
                   /\ up
                   /\ up' = FALSE
                   /\ UNCHANGED <<client, pc, attempt, result, sent, exit, alone, server>>

----------------------------------------------------------------------------
(* Steps of RestoreSSH that wait for its client, and those of the queries. *)
Transfer == \/ Prepare \/ OpenStream \/ Copy \/ CopyEnds \/ Wait
            \/ MakeTmpDir \/ Upload \/ StartImport \/ ImportReturns

Query == NoQuery \/ DialQuery \/ QueryDialed \/ RunQuery

Local == NoQuery \/ Attempt \/ Complete

Next == \/ Start \/ Query \/ Connect \/ Transfer \/ Local
        \/ \E i \in live : Apply(i) \/ Ends(i)
        \/ \E c \in drops : LateDrop(c)
        \/ Cancel \/ ConnectionLost \/ CancelOnContext

Spec == Init /\ [][Next]_vars

(* A remote command may hang for ever, and so may a dial, whose handshake has no
   deadline.  What waits for the SSH client returns when the client is closed; a
   query that runs closes its client itself on a cancel. *)
FairSpec == /\ Spec
            /\ WF_vars(Local)
            /\ WF_vars(~up /\ Transfer)
            /\ WF_vars(canceled /\ RunQuery)
            /\ WF_vars(CancelOnContext)

----------------------------------------------------------------------------
TypeOK ==
    /\ call \in 0..Calls
    /\ pc \in {"idle", "prequery", "connect", "attempt", "prepare", "stream", "copy",
               "wait", "mkdir", "upload", "import", "run", "imported", "postquery"}
    /\ query \in {"none", "dial", "run"}
    /\ attempt \in 1..2
    /\ result \in [1..Calls -> {"none", "complete", "failed", "canceled", "queryfailed"}]
    /\ intact \in BOOLEAN /\ canceled \in BOOLEAN /\ up \in BOOLEAN
    /\ watched \in BOOLEAN /\ alone \in BOOLEAN
    /\ sent \in 0..Size
    /\ exit \in {"none", "ok", "bad"}
    /\ db \in Seq(Chunks)
    /\ live \subseteq Imports
    /\ drops \subseteq 1..Calls

Restored == db = [k \in 1..Size |-> <<call, attempt, k>>]

(* When a restore is logged as complete and the post-import query runs, the
   database is exactly the file, imported once and by one attempt, unless
   something of an earlier call was still running when it was created; without
   pipefail this needs an intact file (transfer.go:381-442, app.go:524-529). *)
ImportIsWhole ==
    pc \in {"imported", "postquery"} /\ alone => Restored /\ (Pipefail => intact)

(* Two imports of one call never run at the same time: a retry over a client
   that still works starts after the import it replaces is gone
   (transfer.go:438-441, 461-482). *)
OneImport == \A i, j \in live : i.call = j.call => i = j

(* A cancel ends the call once its first import was started, however the
   remote commands hang and in either attempt, and while a query runs; only not
   while the post-import query dials.  The loss of the connection ends the
   transfer (transfer.go:456, 603-607, app.go:439-457). *)
CallEnds ==
    \A c \in 1..Calls :
        /\ (call = c /\ canceled /\ (watched \/ query = "run") /\ query # "dial")
           ~> (call # c \/ pc = "idle")
        /\ (call = c /\ ~up /\ pc \notin Queries \cup {"connect"})
           ~> (call # c \/ pc \in {"idle", "postquery"})

(* What the log says of the last call; a post-import query that fails comes
   after that. *)
Reported ==
    CASE pc = "postquery" -> "complete"
      [] pc = "idle" -> IF call > 0 /\ result[call] \in {"complete", "queryfailed"}
                        THEN "complete" ELSE "failed"
      [] OTHER -> "running"

(* Restores keep the promise of RestoreCall: complete is reported of a database
   that is the file, and from then on neither an import, a DROP nor a retry of
   that call touches it before the next call begins (app.go:494-532,
   transfer.go:381-442). *)
Promise == INSTANCE RestoreCall WITH state <- Reported, whole <- Restored

KeepsPromise == Promise!Spec

(* DBack "restores backups" (README.md:7): what a complete restore leaves in
   the database was imported by that restore. *)
CompleteMeansRestored == pc = "imported" => \A k \in DOMAIN db : db[k][1] = call
============================================================================
