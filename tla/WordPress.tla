------------------------------ MODULE WordPress ------------------------------
(***************************************************************************)
(* Hosts with the WordPress plugin: BackupWordPress, RestoreWordPress and   *)
(* queries on the side of the program, and the PHP request that serves each *)
(* of them in the plugin.  The program runs one call after the other; a     *)
(* request whose client has gone goes on until it next sends something, so  *)
(* an import runs to its end beside the requests of later calls.            *)
(*                                                                          *)
(* The plugin reaches the database through PDO, a connection for every      *)
(* statement, or else through the one connection of wpdb, which reconnects  *)
(* when it is lost and knows nothing of the old session then.               *)
(*                                                                          *)
(* A database is the set of the facts that hold in it; a dump is a sequence *)
(* of statements, and what one adds to a database is the statement itself.  *)
(***************************************************************************)
EXTENDS Integers, Sequences, FiniteSets, SequencesExt

CONSTANTS
    Calls,         \* 1..n, in the order of the user
    NumTables,     \* tables of the site
    NumBatches,    \* batches of rows in a table
    Drivers,       \* what PHP may have: "pdo", "wpdb"
    Kinds,         \* of calls: "backup", "restore", "query"
    ForeignDumps,  \* files that other sites and other programs made
    Queries,       \* scripts, a sequence of statements for each line
    MaxEdits,      \* bound on changes the site makes
    MaxFaults      \* bound on losses and failures of the environment

VARIABLES
    driver,  \* DBack_Database::driver
    db,      \* the databases of the site's server
    call,    \* per call: the program's side
    work,    \* per call: the plugin's side
    file,    \* per call: what lies under the path of the backup
    edits,
    faults

vars == <<driver, db, call, work, file, edits, faults>>

Tables    == 1..NumTables
Batches   == 1..NumBatches
Databases == {"wp", "verify"}   \* DB_NAME, and the one a deep verification names

Statements == {<<"set">>, <<"save">>, <<"restore">>, <<"garbage">>}
              \cup {"create"} \X Tables
              \cup {"row"} \X Tables \X Int \X Batches
              \cup {"use", "createdb", "dropdb"} \X Databases

Exists         == <<"db">>
Table(t)       == <<"create", t>>
Row(t, v, b)   == <<"row", t, v, b>>
IsRow(f)       == f[1] = "row"
IsAbout(f, t)  == f[1] \in {"create", "row"} /\ f[2] = t
About(S, t)    == {f \in S : IsAbout(f, t)}
Content(d)     == {d[k] : k \in {l \in DOMAIN d : d[l][1] \in {"create", "row"}}}

(* The settings a dump begins with: how its rows are meant. *)
Settings == <<"set">>

(* The same row of a table, whatever its value. *)
Place(f)  == IF IsRow(f) THEN Row(f[2], 0, f[4]) ELSE f
Places(S) == {Place(f) : f \in S}

(* A file defines a table once, and before its rows; it does not leave the
   database it is restored to. *)
DefinesFirst(d) ==
    /\ \A k, l \in DOMAIN d : d[k][1] = "create" /\ d[l] = d[k] => k = l
    /\ \A k \in DOMAIN d : d[k][1] = "row" => \E l \in 1..(k - 1) : d[l] = Table(d[k][2])
Stays(d) == \A k \in DOMAIN d : d[k] \notin {<<"use", "verify">>, <<"dropdb", "wp">>}

ASSUME KindAssumption == Kinds \subseteq {"backup", "restore", "query"}
ASSUME SizeAssumption == NumTables \in Nat /\ NumBatches \in Nat
ASSUME DumpAssumption == /\ ForeignDumps \subseteq Seq(Statements)
                         /\ \A d \in ForeignDumps : DefinesFirst(d) /\ Stays(d)
ASSUME QueryAssumption == Queries \subseteq Seq(Seq(Statements) \ {<<>>})

NoFile == [there |-> FALSE, got |-> <<>>, tail |-> "open", stuck |-> FALSE]

NoCall == [kind |-> "none", at |-> "idle", canceled |-> FALSE, broken |-> FALSE,
           target |-> "wp", sends |-> <<>>, result |-> "none"]

NewSession(d) == [db |-> d, saved |-> FALSE, set |-> FALSE]

NoWork == [at |-> "none", left |-> <<>>, todo |-> <<>>, session |-> NewSession("wp"), ran |-> 0,
           reply |-> "none", snapshot |-> {}, view |-> {}, cut |-> {}, alone |-> TRUE, lost |-> FALSE,
           rows |-> FALSE, whole |-> FALSE]

FirstContent == {Exists} \cup {Table(t) : t \in Tables}
                         \cup {Row(t, 0, b) : t \in Tables, b \in Batches}

Init == /\ driver \in Drivers
        /\ db = [d \in Databases |-> IF d = "wp" THEN FirstContent ELSE {}]
        /\ call = [i \in Calls |-> NoCall]
        /\ work = [i \in Calls |-> NoWork]
        /\ file = [i \in Calls |-> NoFile]
        /\ edits = 0
        /\ faults = 0

At(i, l)     == call[i].at = l
Serving(i, l) == work[i].at = l
Step(i, c)   == call' = [call EXCEPT ![i] = c]
Serve(i, w)  == work' = [work EXCEPT ![i] = w]
Fault        == faults < MaxFaults /\ faults' = faults + 1
Listening(i) == call[i].at \in {"copy", "wait"} /\ ~call[i].broken

(* The call returns. *)
Ended(c, result) == [c EXCEPT !.at = "done", !.result = result, !.canceled = FALSE, !.broken = FALSE]

----------------------------------------------------------------------------
(* The program: App.Backup, App.Restore and RunImportQuery with a client.  The
   queries here are those that name no database in the request. *)

Sources(i) == ForeignDumps \cup {file[j].got : j \in {k \in Calls : call[k].kind = "backup"
                                                                  /\ call[k].result = "ok"}}

Begin(i) ==
    /\ At(i, "idle")
    /\ \A j \in 1..(i - 1) : At(j, "done")
    /\ \E kind \in Kinds, d \in Databases :
          \E s \in CASE kind = "backup"  -> {<<>>}
                     [] kind = "restore" -> Sources(i)
                     [] kind = "query"   -> Queries :
             /\ kind # "restore" => d = "wp"
             /\ Step(i, [NoCall EXCEPT !.kind = kind, !.target = d, !.sends = s,
                            !.at = IF kind = "query" THEN "request" ELSE "preflight"])
    /\ UNCHANGED <<driver, db, work, file, edits, faults>>

(* Client.Preflight: the checks of the plugin fail, or the request does. *)
Preflight(i) ==
    /\ At(i, "preflight")
    /\ \E passed \in BOOLEAN :
          Step(i, IF passed THEN [call[i] EXCEPT !.at = "request"] ELSE Ended(call[i], "failed"))
    /\ UNCHANGED <<driver, db, work, file, edits, faults>>

(* Client.Export: an answer of status 400 or more, or of JSON, is an error;
   else the file is created and the copying begins. *)
RequestExport(i) ==
    /\ At(i, "request") /\ call[i].kind = "backup"
    /\ \/ /\ Step(i, [call[i] EXCEPT !.at = "copy"])
          /\ Serve(i, [NoWork EXCEPT !.at = "connect", !.left = [t \in Tables |-> t]])
          /\ file' = [file EXCEPT ![i] = [NoFile EXCEPT !.there = TRUE]]
       \/ Step(i, Ended(call[i], "failed")) /\ UNCHANGED <<work, file>>
    /\ UNCHANGED <<driver, db, edits, faults>>

Lines(i, n) == IF call[i].kind = "query" THEN call[i].sends
               ELSE [k \in 1..n |-> <<call[i].sends[k]>>]

(* Client.Import and Client.Query: the plugin has read the body before its
   handler runs. *)
RequestImport(i) ==
    /\ At(i, "request") /\ call[i].kind # "backup"
    /\ Step(i, [call[i] EXCEPT !.at = "wait"])
    /\ Serve(i, [NoWork EXCEPT !.at = "prepare", !.todo = Lines(i, Len(call[i].sends))])
    /\ UNCHANGED <<driver, db, file, edits, faults>>

(* The upload breaks off, and PHP takes what has arrived for the body: the
   statement it ends in is not one. *)
UploadBreaks(i) ==
    /\ At(i, "request") /\ call[i].kind = "restore"
    /\ \/ call[i].canceled /\ UNCHANGED faults
       \/ Fault
    /\ Step(i, [call[i] EXCEPT !.at = "wait", !.broken = TRUE])
    /\ \/ UNCHANGED work
       \/ \E n \in 0..(Len(call[i].sends) - 1) :
             Serve(i, [NoWork EXCEPT !.at = "prepare", !.todo = Append(Lines(i, n), << <<"garbage">> >>)])
    /\ UNCHANGED <<driver, db, file, edits>>

(* fastCopy ends with the response, or with an error. *)
CopyEnds(i) ==
    /\ At(i, "copy")
    /\ \/ call[i].broken \/ call[i].canceled
       \/ file[i].tail # "open"
    /\ Step(i, [call[i] EXCEPT !.at = "check"])
    /\ UNCHANGED <<driver, db, work, file, edits, faults>>

(* validateBackupIntegrity reads every member of the archive to its end: what
   follows the trailer must be an archive too. *)
Acceptable(i) == file[i].tail = "trailer" /\ Len(file[i].got) > 0

(* os.Remove, whose error is dropped.  The file is still open, and a system
   that does not remove open files leaves it. *)
Removed(f) == {NoFile, [f EXCEPT !.stuck = TRUE]}

(* A plausible mistake: only what the copy reports is cleaned up after. *)
CheckKeepsCanceled(i) ==
    /\ At(i, "check")
    /\ LET ok == ~call[i].canceled /\ ~call[i].broken /\ Acceptable(i) IN
       /\ Step(i, Ended(call[i], IF ok THEN "ok" ELSE "failed"))
       /\ \E f \in IF ok \/ call[i].canceled THEN {file[i]} ELSE Removed(file[i]) :
             file' = [file EXCEPT ![i] = f]
    /\ UNCHANGED <<driver, db, work, edits, faults>>

(* After the copy: the context, its error, the archive and the size; whatever
   is wrong, the file is to be removed. *)
Check(i) ==
    /\ At(i, "check")
    /\ LET ok == ~call[i].canceled /\ ~call[i].broken /\ Acceptable(i) IN
       /\ Step(i, Ended(call[i], IF ok THEN "ok" ELSE "failed"))
       /\ \E f \in IF ok THEN {file[i]} ELSE Removed(file[i]) :
             file' = [file EXCEPT ![i] = f]
    /\ UNCHANGED <<driver, db, work, edits, faults>>

(* The answer: an error is one by its status or its code, and an import must
   have executed something. *)
Answer(i) ==
    /\ At(i, "wait") /\ ~call[i].broken
    /\ work[i].reply # "none"
    /\ Step(i, Ended(call[i], work[i].reply))
    /\ UNCHANGED <<driver, db, work, file, edits, faults>>

(* enrichTransportError asks for the index of the site before the error is
   returned; there may be no answer to that. *)
Broken(i) ==
    /\ At(i, "wait") /\ call[i].broken
    /\ Step(i, Ended(call[i], "failed"))
    /\ UNCHANGED <<driver, db, work, file, edits, faults>>

(* A plausible mistake: only the sending is given the context. *)
AbortBeforeSending(i) ==
    /\ call[i].canceled
    /\ call[i].at \in {"preflight", "request"}
    /\ Step(i, Ended(call[i], "failed"))
    /\ UNCHANGED <<driver, db, work, file, edits, faults>>

(* Requests are made with the context: a canceled one returns at once, and so
   does the request for the index after it. *)
Abort(i) ==
    /\ call[i].canceled
    /\ call[i].at \in {"preflight", "request", "wait"}
    /\ Step(i, Ended(call[i], "failed"))
    /\ UNCHANGED <<driver, db, work, file, edits, faults>>

Cancel(i) ==
    /\ call[i].at \notin {"idle", "done"} /\ ~call[i].canceled
    /\ Step(i, [call[i] EXCEPT !.canceled = TRUE])
    /\ UNCHANGED <<driver, db, work, file, edits, faults>>

NetworkLost(i) ==
    /\ Listening(i) /\ Fault
    /\ Step(i, [call[i] EXCEPT !.broken = TRUE])
    /\ UNCHANGED <<driver, db, work, file, edits>>

----------------------------------------------------------------------------
(* The plugin: DBack_Exporter. *)

(* PDO begins one transaction, so it sees one snapshot.  Either way the dump
   begins with its settings. *)
Connect(i) ==
    /\ Serving(i, "connect")
    /\ Serve(i, [work[i] EXCEPT !.at = "export", !.todo = <<Settings>>,
                               !.snapshot = IF driver = "pdo" THEN db["wp"] ELSE {}])
    /\ UNCHANGED <<driver, db, call, file, edits, faults>>

(* mysqldump-php puts a definition between a SET that saves a session variable
   and one that restores it. *)
Definition(t) == IF driver = "pdo" THEN << <<"save">>, Table(t), <<"restore">> >>
                 ELSE <<Table(t)>>

(* The rows of a SELECT without ORDER BY. *)
RowsOf(seen) == SetToSeqs({f \in seen : IsRow(f)})

(* Table after table, wpdb each as it is when its turn comes. *)
ReadTable(i) ==
    /\ Serving(i, "export") /\ work[i].todo = <<>> /\ work[i].left # <<>>
    /\ LET t    == Head(work[i].left)
           seen == About(IF driver = "pdo" THEN work[i].snapshot ELSE db["wp"], t) IN
       \E rows \in RowsOf(seen) :
          Serve(i, [work[i] EXCEPT
                       !.left = Tail(@),
                       !.todo = IF Table(t) \in seen THEN Definition(t) \o rows ELSE <<>>,
                       !.view = @ \cup seen])
    /\ UNCHANGED <<driver, db, call, file, edits, faults>>

(* What is written is flushed.  PHP ends a request whose client has gone when
   it writes. *)
Emit(i) ==
    /\ Serving(i, "export") /\ work[i].todo # <<>>
    /\ IF Listening(i)
       THEN /\ file' = [file EXCEPT ![i].got = Append(@, Head(work[i].todo))]
            /\ Serve(i, [work[i] EXCEPT !.todo = Tail(@)])
       ELSE Serve(i, [NoWork EXCEPT !.at = "gone"]) /\ UNCHANGED file
    /\ UNCHANGED <<driver, db, call, edits, faults>>

EndsWith(i, tail) ==
    /\ Serve(i, IF tail = "trailer" /\ Listening(i) THEN [work[i] EXCEPT !.at = "gone"]
                ELSE [NoWork EXCEPT !.at = "gone"])
    /\ file' = IF Listening(i) THEN [file EXCEPT ![i].tail = tail] ELSE file

ExportEnds(i) ==
    /\ Serving(i, "export") /\ work[i].todo = <<>> /\ work[i].left = <<>>
    /\ EndsWith(i, "trailer")
    /\ UNCHANGED <<driver, db, call, edits, faults>>

(* An exception.  The dump through wpdb gets its trailer all the same, but
   the error follows as JSON; a fatal error of PHP just ends the response. *)
ExportFails(i) ==
    /\ work[i].at \in {"connect", "export"} /\ Fault
    /\ \E tail \in {"json", "cut"} : EndsWith(i, tail)
    /\ UNCHANGED <<driver, db, call, edits>>

(* mysqli_fetch_assoc returns false at the last row, and when the connection
   is lost: the loop ends, and the next query finds a new connection. *)
RowsEndEarly(i) ==
    /\ Serving(i, "export") /\ driver = "wpdb" /\ Fault
    /\ work[i].todo # <<>> /\ IsRow(Head(work[i].todo))
    /\ Serve(i, [work[i] EXCEPT !.todo = <<>>, !.cut = @ \cup {Head(work[i].todo)[2]}])
    /\ UNCHANGED <<driver, db, call, file, edits>>

----------------------------------------------------------------------------
(* The plugin: DBack_Importer and DBack_Query_Runner. *)

(* The databases become new by what request i does, or by the site itself;
   w is the new state of i's request. *)
Change(new, i, w) ==
    /\ db' = new
    /\ work' = [j \in Calls |->
                  IF j = i THEN w
                  ELSE [work[j] EXCEPT !.alone = @ /\ new[call[j].target] = db[call[j].target]]]

(* A request that is over answers, if anyone is there. *)
Replies(w, result) ==
    [NoWork EXCEPT !.at = "gone", !.reply = result, !.alone = w.alone, !.lost = w.lost]

(* prepare_import_target. *)
Prepare(i) ==
    /\ Serving(i, "prepare")
    /\ LET d == call[i].target IN
       \/ Change([db EXCEPT ![d] = @ \cup {Exists}], i,
                 [work[i] EXCEPT !.at = "exec", !.session.db = d])
       \/ Change(db, i, Replies(work[i], "failed"))
    /\ UNCHANGED <<driver, call, file, edits, faults>>

(* should_skip_verify_statement, of a statement that begins with USE, CREATE
   DATABASE or DROP DATABASE. *)
Skips(i, s) == /\ call[i].kind = "restore" /\ call[i].target = "verify"
               /\ s[1] \in {"use", "createdb", "dropdb"}

Refused(s, se) ==
    \/ s[1] = "garbage"
    \/ s[1] = "restore" /\ ~se.saved
    \/ s[1] = "create" /\ Exists \notin db[se.db]
    \/ s[1] = "row" /\ (Table(s[2]) \notin db[se.db] \/ \E f \in About(db[se.db], s[2]) : IsRow(f) /\ f[4] = s[4])
    \/ s[1] = "createdb" /\ Exists \in db[s[2]]
    \/ s[1] = "use" /\ Exists \notin db[s[2]]

Written(s, d) ==
    CASE s[1] = "create"   -> [db EXCEPT ![d] = (@ \ About(@, s[2])) \cup {s}]
      [] s[1] = "row"      -> [db EXCEPT ![d] = @ \cup {s}]
      [] s[1] = "createdb" -> [db EXCEPT ![s[2]] = {Exists}]
      [] s[1] = "dropdb"   -> [db EXCEPT ![s[2]] = {}]
      [] OTHER             -> db

Fresh(i) == NewSession(call[i].target)

SessionAfter(s, se) == [db    |-> IF s[1] = "use" THEN s[2] ELSE se.db,
                        saved |-> se.saved \/ s[1] = "save",
                        set   |-> se.set \/ s = Settings]

(* Without the settings of its file, a table or a row may be refused, for a
   foreign key to what is still to come; and a row may become another one: an
   id of 0 gets the next number, a time is shifted, a letter is replaced. *)
Unsettled(s, se) == s[1] \in {"create", "row"} /\ ~se.set

Becomes(s, se) == IF IsRow(s) /\ Unsettled(s, se) THEN {s, Row(s[2], s[3] - 1, s[4])} ELSE {s}

(* What is left of the script once its first statement is done. *)
RestOf(lines) == IF Len(Head(lines)) = 1 THEN Tail(lines)
                 ELSE <<Tail(Head(lines))>> \o Tail(lines)

(* A connection of PDO serves one line. *)
Disconnects(i) == driver = "pdo" /\ Len(Head(work[i].todo)) = 1

NextSession(i, s) == IF Disconnects(i) THEN Fresh(i) ELSE SessionAfter(s, work[i].session)

(* mysqli takes one statement at a time, PDO a whole line. *)
TooMany(i) == driver = "wpdb" /\ Len(Head(work[i].todo)) > 1

(* DBack_Database::exec with the next statement. *)
Exec(i) ==
    /\ Serving(i, "exec") /\ work[i].todo # <<>>
    /\ LET s  == Head(Head(work[i].todo))
           se == work[i].session
           w  == [work[i] EXCEPT !.todo = RestOf(@), !.ran = 1, !.session = NextSession(i, s),
                                 !.lost = @ \/ Disconnects(i)] IN
       \/ Skips(i, s) /\ Change(db, i, [work[i] EXCEPT !.todo = RestOf(@)])
       \/ /\ ~Skips(i, s)
          /\ Refused(s, se) \/ Unsettled(s, se) \/ TooMany(i)
          /\ Change(db, i, Replies(work[i], "failed"))
       \/ /\ ~Skips(i, s) /\ ~Refused(s, se) /\ ~TooMany(i)
          /\ \E x \in Becomes(s, se) : Change(Written(x, se.db), i, w)
    /\ UNCHANGED <<driver, call, file, edits, faults>>

(* A plausible mistake: the error of a statement is only logged. *)
ExecFailsUnnoticed(i) ==
    /\ Serving(i, "exec") /\ work[i].todo # <<>> /\ Fault
    /\ Serve(i, [work[i] EXCEPT !.todo = RestOf(@), !.ran = 1])
    /\ UNCHANGED <<driver, db, call, file, edits>>

(* A statement fails for a reason of the server. *)
ExecFails(i) ==
    /\ Serving(i, "exec") /\ work[i].todo # <<>> /\ Fault
    /\ Change(db, i, Replies(work[i], "failed"))
    /\ UNCHANGED <<driver, call, file, edits>>

(* A plausible mistake: wpdb is not told the name of the database. *)
ReconnectedToSite(i) == NewSession("wp")

(* wpdb selects $wpdb->dbname, which activate_database has set. *)
Reconnected(i) == Fresh(i)

(* wpdb has lost its connection: it reconnects and repeats the statement. *)
Reconnect(i) ==
    /\ Serving(i, "exec") /\ driver = "wpdb" /\ Fault
    /\ Serve(i, [work[i] EXCEPT !.session = Reconnected(i), !.lost = TRUE])
    /\ UNCHANGED <<driver, db, call, file, edits>>

(* Every table of the file is in the target, row for row. *)
ImportedRows(i) ==
    LET c == Content(call[i].sends) IN
    \A f \in c : Places(About(db[call[i].target], f[2])) = Places(About(c, f[2]))

(* And with its values. *)
Imported(i) ==
    LET c == Content(call[i].sends) IN
    \A f \in c : About(db[call[i].target], f[2]) = About(c, f[2])

(* No statement is left; an import that executed none is an error. *)
ExecEnds(i) ==
    /\ Serving(i, "exec") /\ work[i].todo = <<>>
    /\ Change(db, i, [Replies(work[i], IF work[i].ran > 0 THEN "ok" ELSE "failed")
                        EXCEPT !.rows  = call[i].kind = "restore" /\ ImportedRows(i),
                               !.whole = call[i].kind = "restore" /\ Imported(i)])
    /\ UNCHANGED <<driver, call, file, edits, faults>>

(* The process that serves the request is killed: no answer. *)
WorkerKilled(i) ==
    /\ work[i].at \in {"prepare", "exec"} /\ Fault
    /\ Serve(i, [NoWork EXCEPT !.at = "gone"])
    /\ Step(i, [call[i] EXCEPT !.broken = @ \/ At(i, "wait")])
    /\ UNCHANGED <<driver, db, file, edits>>

(* The site goes on working while the plugin reads or writes; what it does at
   other times makes no difference. *)
Edit(t) ==
    /\ edits < MaxEdits /\ edits' = edits + 1
    /\ \E i \in Calls : work[i].at \in {"export", "exec"}
    /\ LET rows == {f \in About(db["wp"], t) : IsRow(f)} IN
       /\ rows # {}
       /\ db' = [db EXCEPT !["wp"] = (@ \ rows) \cup {Row(t, f[3] + 1, f[4]) : f \in rows}]
    /\ work' = [j \in Calls |-> [work[j] EXCEPT !.alone = @ /\ call[j].target # "wp"]]
    /\ UNCHANGED <<driver, call, file, faults>>

----------------------------------------------------------------------------
Program(i) == \/ Begin(i) \/ Preflight(i) \/ RequestExport(i) \/ RequestImport(i)
              \/ UploadBreaks(i) \/ CopyEnds(i) \/ Check(i) \/ Answer(i) \/ Broken(i) \/ Abort(i)
Plugin(i)  == \/ Connect(i) \/ ReadTable(i) \/ Emit(i) \/ ExportEnds(i) \/ ExportFails(i)
              \/ RowsEndEarly(i) \/ Prepare(i) \/ Exec(i) \/ ExecFails(i) \/ Reconnect(i)
              \/ ExecEnds(i) \/ WorkerKilled(i)

Next == \/ \E i \in Calls : Program(i) \/ Plugin(i) \/ Cancel(i) \/ NetworkLost(i)
        \/ \E t \in Tables : Edit(t)

Spec == Init /\ [][Next]_vars

(* Nothing of the site is fair; the program's own steps are. *)
FairSpec == Spec /\ \A i \in Calls : WF_vars(Abort(i)) /\ WF_vars(CopyEnds(i)) /\ WF_vars(Check(i))

----------------------------------------------------------------------------
(* Of the tables whose rows did not end early, the file has what was read. *)
WholeFile(i) ==
    LET rowsCut == {f \in work[i].view : IsRow(f) /\ f[2] \in work[i].cut} IN
    /\ file[i].tail = "trailer"
    /\ work[i].left = <<>>
    /\ work[i].view \ rowsCut \subseteq Content(file[i].got)

(* A backup through the plugin keeps the promise App.Backup relies on: success
   only with the whole dump, nothing left behind by a failure but what the
   system would not remove, and the path untouched after the return
   (transfer_wordpress.go:79-103).  Rows of a table that mysqli lost silently
   are the exception. *)
Promise == INSTANCE BackupCall
    WITH Leaves  <- {"none", "stuck"},
         outcome <- [i \in Calls |-> IF call[i].kind = "backup" THEN call[i].result ELSE "none"],
         copy    <- [i \in Calls |-> IF ~file[i].there THEN "none"
                                     ELSE IF file[i].stuck THEN "stuck"
                                     ELSE IF WholeFile(i) THEN "whole" ELSE "partial"]

BackupKeepsPromise == Promise!Spec

(* One connection took all of the file, and first of all its settings. *)
OneSession(i) ==
    ~work[i].lost /\ call[i].sends # <<>> /\ Head(call[i].sends) = Settings

(* A restore that reports success has put every table of the file into the
   target, with each of its rows and no others, whatever broke and was
   repeated on the way; and with the values of the file, if its settings were
   not lost with a connection: a reconnect of wpdb loses them, and so does PDO
   with its connection for every statement (class-dback-database.php:348).
   Nobody else may write there meanwhile: a canceled import that still runs in
   the plugin would (class-dback-importer.php:166-200). *)
RestoredIsWhole ==
    \A i \in Calls :
        call[i].kind = "restore" /\ call[i].result = "ok" /\ work[i].alone
           => work[i].rows /\ (OneSession(i) => work[i].whole)

(* An import into the database of a deep verification never changes the one
   the site works with: not through statements of the file that switch the
   database, nor after wpdb has reconnected (class-dback-database.php:144). *)
VerifyLeavesSiteAlone ==
    [][\A i \in Calls :
          call[i].kind = "restore" /\ call[i].target = "verify" /\ work'[i] # work[i]
             => db'["wp"] = db["wp"]]_vars

(* A canceled call returns, although the HTTP client has no timeout and the
   site may never answer (client.go:35; README.md:92 offers the cancel). *)
CancelEndsCall == \A i \in Calls : call[i].canceled ~> At(i, "done")
============================================================================
