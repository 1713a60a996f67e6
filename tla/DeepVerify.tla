----------------------------- MODULE DeepVerify -----------------------------
(***************************************************************************)
(* Deep verification: App.DeepVerify restores a backup into a temporary     *)
(* database dback_verify_<seconds>, counts the rows of every table the      *)
(* fingerprint of the backup lists, writes the verdict into the record and  *)
(* drops the database; a deferred drop follows every other way out.         *)
(*                                                                          *)
(* Verifications run on goroutines of their own against one database        *)
(* server, over SSH or through the WordPress plugin.  The environment       *)
(* cancels them, commands fail or hang, connections break, and a command    *)
(* whose client has gone may still be carried out later.  The file may be   *)
(* damaged at any time.                                                     *)
(*                                                                          *)
(* A database is the set of its rows.  The dump holds one row per table; a  *)
(* row in a database names the verification and the attempt that wrote it.  *)
(***************************************************************************)
EXTENDS Integers, FiniteSets

CONSTANTS
    Verifs,     \* verifications, one job each
    Plugin,     \* those on a host with the WordPress plugin
    Records,    \* backups in the history
    Tables,     \* tables of the dumped database
    Cut,        \* tables that are left in a damaged file
    Dumps,      \* how a dump may name databases, see Spellings
    MaxSecond   \* bound on the clock

ASSUME TablesAssumption == Cut \subseteq Tables /\ IsFiniteSet(Tables)
(* How a dump says where its rows go: USE with the name in backquotes at the start
   of a line, USE with a plain name, or a form no importer looks at: a qualified
   name, or a statement inside a comment the server executes. *)
Spellings == {"use", "plain", "other"}

ASSUME VerifyAssumption ==
    /\ Plugin \subseteq Verifs
    /\ Dumps \subseteq SUBSET Spellings
    /\ MaxSecond \in Nat

VARIABLES
    now,        \* the time, in seconds
    file,       \* per record: the state of its file
    names,      \* ... how its dump names databases
    record,     \* per record: checksum, fingerprint and deep verdict
    pc,         \* per verification: where it is
    rec,        \* ... its record
    name,       \* ... the second its database is named after
    attempt,    \* ... the turn of RestoreSSH's loop
    todo,       \* ... tables still to import, then to count
    counted,    \* ... the row counts so far
    result,     \* ... what it returns
    canceled,   \* ... its ctx is done
    watched,    \* ... a cancelOnContext goroutine holds its SSH client
    up,         \* ... the SSH client it works with is connected
    cut,        \* ... a command of its was not answered
    dbs,        \* the databases of the server
    late        \* commands that are carried out after their client has gone

vars == <<now, file, names, record, pc, rec, name, attempt, todo, counted,
          result, canceled, watched, up, cut, dbs, late>>

Seconds    == 0..MaxSecond
Production == -1
Unnamed    == -2
Databases  == Seconds \cup {Production}
Rows       == Verifs \X (0..2) \X Tables
Absent     == {<<>>}   \* no database of this name
NoTables   == [t \in {} |-> 0]

(* The counts of the fingerprint are estimates. *)
Fingerprints == UNION {[S -> 1..2] : S \in SUBSET Tables}
Verdicts == {"none", "matched", "row_diff"}

Init == /\ now = 0
        /\ file = [r \in Records |-> "whole"]
        /\ names \in [Records -> Dumps]
        /\ record = [r \in Records |->
                        [sha |-> FALSE, prints |-> {}, deep |-> "none"]]
        /\ pc = [v \in Verifs |-> "idle"]
        /\ rec \in [Verifs -> Records]
        /\ name = [v \in Verifs |-> Unnamed]
        /\ attempt = [v \in Verifs |-> 1]
        /\ todo = [v \in Verifs |-> {}]
        /\ counted = [v \in Verifs |-> NoTables]
        /\ result = [v \in Verifs |-> "none"]
        /\ canceled = [v \in Verifs |-> FALSE]
        /\ watched = [v \in Verifs |-> FALSE]
        /\ up = [v \in Verifs |-> FALSE]
        /\ cut = [v \in Verifs |-> FALSE]
        /\ dbs = [d \in Databases |-> IF d = Production THEN {} ELSE Absent]
        /\ late = {}

world  == <<now, file, names>>
choice == <<rec, canceled>>
run    == <<canceled, watched, counted>>
server == <<dbs, late>>

OnPlugin(v) == v \in Plugin
At(v, l)    == pc[v] = l
Goto(v, l)  == pc' = [pc EXCEPT ![v] = l]
PrintsOf(r)    == CHOOSE f \in record[r].prints : TRUE
Whole(v)    == file[rec[v]] = "whole"
FileTables(v) == IF Whole(v) THEN Tables ELSE Cut

----------------------------------------------------------------------------
(* DeepVerify is left: the job's ctx is canceled on the way out, and nothing
   of the run is kept. *)
Over(v) == /\ Goto(v, "done")
           /\ canceled' = [canceled EXCEPT ![v] = TRUE]
           /\ watched' = [watched EXCEPT ![v] = FALSE]
           /\ counted' = [counted EXCEPT ![v] = NoTables]

(* Back from DeepVerify with r: an error, or a verdict and its report after the
   drop. *)
Return(v, r) == Over(v) /\ result' = [result EXCEPT ![v] = r]

(* Every other way out after the database was named, a cancel's included, is
   an error and runs the deferred drop. *)
Leave(v) == /\ Goto(v, "deferred")
            /\ result' = [result EXCEPT ![v] = "error"]
            /\ up' = [up EXCEPT ![v] = FALSE]
            /\ todo' = [todo EXCEPT ![v] = {}]
            /\ attempt' = [attempt EXCEPT ![v] = 1]

(* A command of v gets no answer; the server may still carry it out. *)
Unanswered(v, commands) ==
    /\ cut' = [cut EXCEPT ![v] = TRUE]
    /\ late' \in {late, late \cup commands}

(* A plausible mistake: the second attempt only creates the database when it
   is missing. *)
PreparedIfMissing(v) ==
    IF attempt[v] = 2 /\ dbs[name[v]] # Absent THEN dbs
    ELSE [dbs EXCEPT ![name[v]] = {}]

(* DROP DATABASE IF EXISTS; CREATE DATABASE. *)
Prepared(v) == [dbs EXCEPT ![name[v]] = {}]

Dropped(v) == [dbs EXCEPT ![name[v]] = Absent]

(* The spellings the importer of v takes out of a dump: the sed of the SSH import
   rewrites USE with a name in backquotes, and only that; the plugin skips every
   statement that begins with USE.  Both drop CREATE and DROP DATABASE. *)
Caught(v) == IF OnPlugin(v) THEN {"use", "plain"} ELSE {"use"}

(* The dump of v names a database in a way its importer lets through. *)
Escapes(v) == ~(names[rec[v]] \subseteq Caught(v))

(* A plausible mistake: the uploaded file is imported with the plain command. *)
TargetOfPlainUpload(v) ==
    IF Escapes(v) \/ (attempt[v] = 2 /\ names[rec[v]] # {}) THEN Production ELSE name[v]

(* The database the rows of v's import go to: the client connects to the override,
   and stays there unless the dump says otherwise. *)
Target(v) == IF Escapes(v) THEN Production ELSE name[v]

ImportedRow(v, n, t) ==
    [dbs EXCEPT ![Target(v)] = (@ \ Absent) \cup {<<v, n, t>>}]

----------------------------------------------------------------------------
(* The end of a backup: the checksum and the fast fingerprint of the new
   record.  The fingerprint may fail, and that of a database the user may not
   list is empty; a record without checksum is never verified and left out. *)
Capture(r) ==
    /\ record[r].prints = {} /\ ~record[r].sha
    /\ \E f \in {{}} \cup {{g} : g \in Fingerprints} :
          record' = [record EXCEPT ![r].sha = TRUE, ![r].prints = f]
    /\ UNCHANGED <<world, pc, choice, name, attempt, todo, counted, result,
                   watched, up, cut, server>>

(* The button, the confirmation and the first checks of DeepVerify. *)
Begin(v) ==
    /\ At(v, "idle")
    /\ record[rec[v]].sha
    /\ record[rec[v]].prints # {}
    /\ IF Whole(v) THEN Goto(v, "name") /\ UNCHANGED <<result, run>>
                   ELSE Return(v, "error")
    /\ UNCHANGED <<world, record, rec, name, attempt, todo, up, cut, server>>

(* TempDBName; from here on the deferred drop is in place. *)
Name(v) ==
    /\ At(v, "name")
    /\ name' = [name EXCEPT ![v] = now]
    /\ Goto(v, IF ~OnPlugin(v) THEN "connect" ELSE "create")
    /\ UNCHANGED <<world, record, choice, attempt, todo, counted, result,
                   watched, up, cut, server>>

----------------------------------------------------------------------------
(* RestoreSSH: dial and preflight, which no cancel reaches; then the head of
   the loop looks at ctx. *)
Connect(v) ==
    /\ At(v, "connect")
    /\ \/ Leave(v)
       \/ /\ ~canceled[v]
          /\ up' = [up EXCEPT ![v] = TRUE]
          /\ Goto(v, "prepare")
          /\ UNCHANGED <<attempt, todo, result>>
    /\ UNCHANGED <<world, record, choice, name, counted, watched, cut, server>>

(* The end of a turn of the loop after an error of the server; whether its
   text is retryable is the server's. *)
AttemptFails(v) ==
    \/ Leave(v)
    \/ /\ attempt[v] = 1 /\ ~canceled[v]
       /\ attempt' = [attempt EXCEPT ![v] = 2]
       /\ Goto(v, "prepare")
       /\ UNCHANGED <<todo, result, up>>

(* BuildImportPrepareTempCommand. *)
Prepare(v) ==
    /\ At(v, "prepare")
    /\ \/ /\ up[v]
          /\ dbs' = Prepared(v)
          /\ todo' = [todo EXCEPT ![v] = FileTables(v)]
          /\ watched' = [watched EXCEPT ![v] = @ \/ attempt[v] = 1]
          /\ Goto(v, "import")
          /\ UNCHANGED <<attempt, result, up, cut, late>>
       \/ /\ up[v]
          /\ dbs' \in {dbs, Dropped(v)}
          /\ AttemptFails(v)
          /\ UNCHANGED <<watched, cut, late>>
       \/ /\ ~up[v]
          /\ Unanswered(v, {<<v, "prepare">>})
          /\ Leave(v)
          /\ UNCHANGED <<watched, dbs>>
    /\ UNCHANGED <<world, record, choice, name, counted>>

(* RestoreWordPress is preceded by a query of its own. *)
Create(v) ==
    /\ At(v, "create")
    /\ \/ /\ dbs' = Prepared(v)
          /\ todo' = [todo EXCEPT ![v] = FileTables(v)]
          /\ Goto(v, "import")
          /\ UNCHANGED <<attempt, result, up, cut, late>>
       \/ /\ dbs' \in {dbs, Dropped(v)}
          /\ Leave(v)
          /\ UNCHANGED <<cut, late>>
       \/ /\ Leave(v)
          /\ Unanswered(v, {<<v, "prepare">>})
          /\ UNCHANGED dbs
    /\ UNCHANGED <<world, record, choice, name, counted, watched>>

(* The import writes a row.  Over SSH a missing database is an error; the
   plugin creates it. *)
ImportRow(v, t) ==
    /\ At(v, "import")
    /\ ~OnPlugin(v) => up[v] /\ dbs[name[v]] # Absent
    /\ t \in todo[v]
    /\ dbs' = ImportedRow(v, attempt[v], t)
    /\ todo' = [todo EXCEPT ![v] = @ \ {t}]
    /\ UNCHANGED <<world, record, pc, choice, name, attempt, counted, result,
                   watched, up, cut, late>>

(* The whole input is in.  The plugin takes a file that ends early as it is;
   the pipeline of the SSH import does so without pipefail. *)
ImportDone(v) ==
    /\ At(v, "import")
    /\ todo[v] = {}
    /\ ~OnPlugin(v) => up[v]
    /\ Goto(v, "count")
    /\ todo' = [todo EXCEPT ![v] = DOMAIN PrintsOf(rec[v])]
    /\ up' = [up EXCEPT ![v] = FALSE]
    /\ attempt' = [attempt EXCEPT ![v] = 1]
    /\ UNCHANGED <<world, record, choice, name, counted, result, watched, cut,
                   server>>

(* The import ends with an error of the server. *)
ImportFails(v) ==
    /\ At(v, "import")
    /\ IF ~OnPlugin(v)
       THEN up[v] /\ AttemptFails(v)
       ELSE Leave(v)
    /\ UNCHANGED <<world, record, choice, name, counted, watched, cut, server>>

(* The client loses the import, which goes on.  A second attempt over SSH would
   fail on the dead connection before it reaches the server. *)
ImportLost(v) ==
    /\ At(v, "import")
    /\ ~OnPlugin(v) => ~up[v]
    /\ Unanswered(v, {<<v, "import">>})
    /\ Leave(v)
    /\ UNCHANGED <<world, record, choice, name, counted, watched, dbs>>

----------------------------------------------------------------------------
(* RunImportQuery: a request to the plugin, or a command over an SSH client of its
   own.  No cancel reaches the dial of that client. *)
Asks(v) == OnPlugin(v) \/ up[v]

QueryDialed(v) ==
    /\ pc[v] \in {"count", "drop", "deferred"}
    /\ At(v, "count") => todo[v] # {}
    /\ ~Asks(v)
    /\ up' = [up EXCEPT ![v] = TRUE]
    /\ UNCHANGED <<world, record, pc, choice, name, attempt, todo, counted, result,
                   watched, cut, server>>

(* CountTablesExact: one query per table.  A table that is not there is an error. *)
RowsOf(v, t) == {row \in dbs[name[v]] \ Absent : row[3] = t}

CountTable(v, t) ==
    /\ At(v, "count")
    /\ ~canceled[v] /\ Asks(v)
    /\ t \in todo[v]
    /\ RowsOf(v, t) # {}
    /\ up' = [up EXCEPT ![v] = FALSE]
    /\ todo' = [todo EXCEPT ![v] = @ \ {t}]
    /\ counted' = [counted EXCEPT ![v] =
                      [s \in DOMAIN @ \cup {t} |->
                          IF s = t THEN Cardinality(RowsOf(v, t)) ELSE @[s]]]
    /\ UNCHANGED <<world, record, pc, choice, name, attempt, result, watched, cut,
                   server>>

(* A plausible mistake: the queries do not watch ctx. *)
CountFailsUnwatched(v) ==
    /\ At(v, "count")
    /\ todo[v] # {}
    /\ Leave(v)
    /\ ~canceled[v]
    /\ UNCHANGED <<world, record, choice, name, counted, watched, cut, server>>

CountFails(v) ==
    /\ At(v, "count")
    /\ todo[v] # {}
    /\ Leave(v)
    /\ UNCHANGED <<world, record, choice, name, counted, watched, cut, server>>

(* BuildTableReport: every table of the fingerprint against its count. *)
Passed(v) == counted[v] = PrintsOf(rec[v])
Verdict(v) == IF Passed(v) THEN "matched" ELSE "row_diff"

(* The verdict goes into the record; the save may fail. *)
Record(v) ==
    /\ At(v, "count")
    /\ todo[v] = {}
    /\ record' = [record EXCEPT ![rec[v]].deep = Verdict(v)]
    /\ \/ Goto(v, "drop") /\ UNCHANGED <<attempt, todo, result, up>>
       \/ Leave(v)
    /\ UNCHANGED <<world, choice, name, counted, watched, cut, server>>

(* The drop at the end runs under ctx: after a cancel no query is sent. *)
Drop(v) ==
    /\ At(v, "drop")
    /\ \/ /\ ~canceled[v] /\ Asks(v)
          /\ dbs' = Dropped(v)
          /\ Return(v, "verdict")
          /\ up' = [up EXCEPT ![v] = FALSE]
          /\ UNCHANGED <<attempt, todo>>
       \/ /\ UNCHANGED dbs \/ (Asks(v) /\ dbs' = Dropped(v))
          /\ Leave(v)
          /\ UNCHANGED run
    /\ UNCHANGED <<world, record, rec, name, cut, late>>

(* A plausible mistake: the deferred drop runs under ctx as well, and after a
   cancel nothing is sent. *)
DeferredDropUnderCtx(v) ==
    /\ At(v, "deferred")
    /\ \/ ~canceled[v] /\ Asks(v) /\ dbs' = Dropped(v) /\ UNCHANGED cut
       \/ ~canceled[v] /\ UNCHANGED dbs /\ cut' = [cut EXCEPT ![v] = TRUE]
       \/ canceled[v] /\ UNCHANGED <<dbs, cut>>
    /\ Over(v)
    /\ up' = [up EXCEPT ![v] = FALSE]
    /\ UNCHANGED <<world, record, rec, name, attempt, todo, result, late>>

(* The deferred drop has a context of its own, of two minutes, which does not
   reach its dial either.  Its error is dropped. *)
DeferredDrop(v) ==
    /\ At(v, "deferred")
    /\ \/ Asks(v) /\ dbs' = Dropped(v) /\ UNCHANGED cut
       \/ UNCHANGED dbs /\ cut' = [cut EXCEPT ![v] = TRUE]
    /\ Over(v)
    /\ up' = [up EXCEPT ![v] = FALSE]
    /\ UNCHANGED <<world, record, rec, name, attempt, todo, result, late>>

----------------------------------------------------------------------------
(* The environment. *)

(* The clock, as long as somebody is still to read it. *)
Tick == /\ now < MaxSecond
        /\ \E v \in Verifs : pc[v] \in {"idle", "name"}
        /\ now' = now + 1
        /\ UNCHANGED <<file, names, record, pc, choice, name, attempt, todo,
                       counted, result, watched, up, cut, server>>

Damage(r) == /\ file[r] = "whole"
             /\ record[r].sha
             /\ file' = [file EXCEPT ![r] = "cut"]
             /\ UNCHANGED <<now, names, record, pc, choice, name, attempt, todo,
                            counted, result, watched, up, cut, server>>

Cancel(v) == /\ pc[v] \notin {"idle", "done"}
             /\ ~canceled[v]
             /\ canceled' = [canceled EXCEPT ![v] = TRUE]
             /\ UNCHANGED <<world, record, pc, rec, name, attempt, todo,
                            counted, result, watched, up, cut, server>>

ConnectionLost(v) ==
    /\ pc[v] \in {"prepare", "import"} /\ up[v]
    /\ up' = [up EXCEPT ![v] = FALSE]
    /\ UNCHANGED <<world, record, pc, choice, name, attempt, todo, counted,
                   result, watched, cut, server>>

(* cancelOnContext. *)
CancelOnContext(v) == watched[v] /\ canceled[v] /\ ConnectionLost(v)

(* A command without a client is carried out after all, or dies. *)
Late(c) ==
    /\ late' = late \ {c}
    /\ LET v == c[1] IN
       \/ UNCHANGED dbs
       \/ c[2] = "prepare" /\ dbs' = Prepared(v)
       \/ /\ c[2] = "import"
          /\ ~OnPlugin(v) => dbs[name[v]] # Absent
          /\ \E t \in Tables : dbs' = ImportedRow(v, 0, t)
    /\ UNCHANGED <<world, record, pc, choice, name, attempt, todo, counted,
                   result, watched, up, cut>>

----------------------------------------------------------------------------
Remote(v) == \/ Connect(v) \/ Prepare(v) \/ Create(v)
             \/ \E t \in Tables : ImportRow(v, t) \/ CountTable(v, t)
             \/ ImportDone(v) \/ ImportFails(v) \/ ImportLost(v)
             \/ QueryDialed(v) \/ CountFails(v) \/ Drop(v)

Next == \/ \E r \in Records : Capture(r) \/ Damage(r)
        \/ \E v \in Verifs : \/ Begin(v) \/ Name(v) \/ Remote(v) \/ Record(v)
                             \/ DeferredDrop(v) \/ Cancel(v)
                             \/ ConnectionLost(v) \/ CancelOnContext(v)
        \/ \E c \in late : Late(c)
        \/ Tick

Spec == Init /\ [][Next]_vars

(* A remote command may hang, and so may a dial.  A cancel ends a request to the
   plugin; over SSH it closes the client, once there is one, and what waits for a
   closed client returns.  The context of the deferred drop runs out. *)
FairSpec ==
    /\ Spec
    /\ \A v \in Verifs :
          /\ WF_vars(Name(v)) /\ WF_vars(Record(v))
          /\ WF_vars(Asks(v) /\ DeferredDrop(v))
          /\ WF_vars(CancelOnContext(v))
          /\ WF_vars(~up[v] /\ (Prepare(v) \/ ImportLost(v)))
          /\ WF_vars(canceled[v] /\ Create(v))
          /\ WF_vars(canceled[v] /\ Asks(v) /\ (CountFails(v) \/ Drop(v)))
          /\ WF_vars(canceled[v] /\ OnPlugin(v) /\ ImportLost(v))

----------------------------------------------------------------------------
Places == {"idle", "name", "connect", "create", "prepare", "import", "count",
           "drop", "deferred", "done"}

TypeOK ==
    /\ now \in Seconds
    /\ file \in [Records -> {"whole", "cut"}]
    /\ names \in [Records -> SUBSET Spellings]
    /\ record \in [Records -> [sha : BOOLEAN, prints : SUBSET Fingerprints,
                               deep : Verdicts]]
    /\ pc \in [Verifs -> Places]
    /\ rec \in [Verifs -> Records]
    /\ name \in [Verifs -> Seconds \cup {Unnamed}]
    /\ attempt \in [Verifs -> 1..2]
    /\ todo \in [Verifs -> SUBSET Tables]
    /\ \A v \in Verifs : DOMAIN counted[v] \subseteq Tables
    /\ result \in [Verifs -> {"none", "error", "verdict"}]
    /\ canceled \in [Verifs -> BOOLEAN] /\ watched \in [Verifs -> BOOLEAN]
    /\ up \in [Verifs -> BOOLEAN] /\ cut \in [Verifs -> BOOLEAN]
    /\ \A d \in Databases : dbs[d] = Absent \/ dbs[d] \subseteq Rows
    /\ late \subseteq Verifs \X {"prepare", "import"}

(* No other verification has named its database in the same second. *)
Alone(v) == \A w \in Verifs \ {v} : name[w] # name[v]

(* An import of the verification is at work, in time or late. *)
Importing(v) == At(v, "import") \/ <<v, "import">> \in late

(* The production database changes only through an import, in time or late, of a
   dump that names a database in a way its importer lets through - whichever
   attempt it is, and whatever the verification prepares and drops.  The dumps of
   DBack itself name none ("Your production database is not modified",
   ui/verify.go:190; transfer.go:322-328, commands.go:262-333). *)
ProductionUntouched ==
    [][dbs'[Production] # dbs[Production]
       => \E v \in Verifs : Importing(v) /\ Escapes(v)]_vars

(* The verdict is about the file: unless another verification shares the
   temporary database, what is compared with the fingerprint is one complete
   import of an undamaged file - nothing of a failed attempt before it, nothing
   of a command that came late (verify.go:202-239, transfer.go:381-410). *)
VerdictIsOfTheFile ==
    \A v \in Verifs :
        pc[v] = "drop" /\ Alone(v) /\ Whole(v)
        => counted[v] = [t \in DOMAIN PrintsOf(rec[v]) |-> 1]

(* A temporary database outlives its verification only when the server left a
   command of that verification, or its last drop, unanswered; never after a
   verdict was returned (verify.go:186-194, 245-248). *)
LeftoverIsExplained ==
    \A v \in Verifs :
        /\ pc[v] = "done" /\ name[v] # Unnamed /\ Alone(v)
        /\ dbs[name[v]] # Absent
        => cut[v] /\ result[v] = "error"

(* Over SSH a verification dials before its restore and before each query. *)
Dials(v) == ~Asks(v) /\ pc[v] \in {"connect", "count", "drop", "deferred"}

(* Nothing but a dial keeps a canceled verification: one that has sent a query,
   talks to the plugin, or is in an import a goroutine watches, ends or comes to
   dial for its last drop, however the commands hang (app.go:443-457,
   transfer.go:456, verify.go:191). *)
CancelEnds ==
    \A v \in Verifs :
        /\ canceled[v]
        /\ \/ OnPlugin(v) \/ watched[v] \/ At(v, "name")
           \/ up[v] /\ pc[v] \in {"count", "drop", "deferred"}
        ~> At(v, "done") \/ Dials(v)
============================================================================
