--------------------------- MODULE WordPress_proofs ---------------------------
(***************************************************************************)
(* Proofs about WordPress, for any calls, tables, batches and scripts, any  *)
(* foreign dump that defines its tables first, and any number of edits and  *)
(* faults.                                                                  *)
(***************************************************************************)
EXTENDS WordPress, FiniteSetTheorems, SequenceTheorems, TLAPS

Tabled == ({"create"} \X Tables) \cup ({"row"} \X Tables \X Int \X Batches)
Facts  == {Exists} \cup Tabled
Dumped == {<<"set">>, <<"save">>, <<"restore">>} \cup Tabled     \* what the plugin writes
Lines1 == Seq(Statements) \ {<<>>}                    \* what is executed at a time

(* The rows of a set of facts are of tables it has. *)
Rooted(S) == \A f \in S : IsRow(f) => Table(f[2]) \in S

Files == [there : BOOLEAN, got : Seq(Dumped), tail : {"open", "trailer", "json", "cut"},
          stuck : BOOLEAN]
Sessions == [db : Databases, saved : BOOLEAN, set : BOOLEAN]

CallStates == [kind : {"none", "backup", "restore", "query"},
               at : {"idle", "preflight", "request", "copy", "check", "wait", "done"},
               canceled : BOOLEAN, broken : BOOLEAN, target : Databases,
               sends : Seq(Statements) \cup Seq(Lines1), result : {"none", "ok", "failed"}]

WorkStates == [at : {"none", "connect", "export", "prepare", "exec", "gone"},
               left : Seq(Tables), todo : Seq(Dumped) \cup Seq(Lines1),
               session : Sessions, ran : {0, 1}, reply : {"none", "ok", "failed"},
               snapshot : SUBSET Facts, view : SUBSET Facts, cut : SUBSET Tables,
               alone : BOOLEAN, lost : BOOLEAN, rows : BOOLEAN, whole : BOOLEAN]

Type == /\ db \in [Databases -> SUBSET Facts]
        /\ \A d \in Databases : IsFiniteSet(db[d]) /\ Rooted(db[d])
        /\ call \in [Calls -> CallStates]
        /\ work \in [Calls -> WorkStates]
        /\ file \in [Calls -> Files]

(* Where the two sides of a call can be. *)
SidesOK(c, w, f) ==
    /\ c.at = "idle" <=> c.kind = "none"
    /\ c.result = "none" <=> c.at # "done"
    /\ c.at \in {"idle", "preflight", "request"} => w.at = "none" /\ f = NoFile
    /\ c.kind = "backup" => c.at # "wait" /\ w.at \in {"none", "connect", "export", "gone"}
    /\ c.kind # "backup" => /\ c.at \notin {"copy", "check"} /\ f = NoFile
                            /\ w.at \in {"none", "prepare", "exec", "gone"}
    /\ c.kind \in {"none", "backup", "query"} => c.target = "wp"
    /\ c.kind = "query" => c.sends \in Seq(Lines1)
    /\ w.at \in {"none", "prepare", "exec"} => w.reply = "none"
    /\ w.at \in {"prepare", "exec"} => w.todo \in Seq(Lines1)
    /\ w.at \in {"connect", "export"} => w.todo \in Seq(Dumped)

(* What is read and not lost with a connection is in the file, or comes. *)
RowsCut(w) == {x \in w.view : IsRow(x) /\ x[2] \in w.cut}
Kept(w, f) == w.view \ RowsCut(w) \subseteq Content(f.got) \cup Content(w.todo)

(* The tables to come are the last ones, the file is in order, and behind a row
   only rows of its table wait. *)
RowsLast(d) == \A k \in DOMAIN d : IsRow(d[k]) =>
                  \A l \in k..Len(d) : IsRow(d[l]) /\ d[l][2] = d[k][2]
Ordered(w, f) ==
    /\ RowsLast(w.todo)
    /\ \A k \in 1..Len(w.left) : w.left[k] = NumTables - Len(w.left) + k
    /\ DefinesFirst(f.got \o w.todo)
    /\ \A x \in Content(f.got \o w.todo) : x[2] <= NumTables - Len(w.left)

BackupOK(c, w, f) ==
    c.kind = "backup" =>
    /\ DefinesFirst(f.got)
    /\ c.at \in {"copy", "check"} => f.there
    /\ c.result = "failed" => f = NoFile \/ (f.there /\ f.stuck)
    /\ f.stuck => c.result = "failed"
    /\ c.result = "ok" => f.there /\ f.tail = "trailer"
    /\ f.tail # "open" => w.at = "gone"
    /\ f.tail = "trailer" => /\ w.left = <<>>
                             /\ w.view \ RowsCut(w) \subseteq Content(f.got)
    /\ w.at = "connect" => w.todo = <<>> /\ w.view = {} /\ f.got = <<>>
    /\ w.at \in {"connect", "export"} /\ c.at = "copy" /\ ~c.broken => Kept(w, f) /\ Ordered(w, f)
    /\ w.at = "export" => Rooted(w.snapshot) /\ IsFiniteSet(w.snapshot)

(* What is left of an import is the end of the file, or was cut off. *)
Rest(c, w)  == w.todo = [k \in 1..Len(w.todo) |-> <<c.sends[Len(c.sends) - Len(w.todo) + k]>>]
CutOff(w)   == w.todo # <<>> /\ w.todo[Len(w.todo)] = << <<"garbage">> >>

(* What the first n statements of d put into table t. *)
First(d, n, t) == {d[k] : k \in {l \in 1..n : IsAbout(d[l], t)}}

(* The tables that are defined hold what came after. *)
Loaded(d, n, S) ==
    /\ Exists \in S
    /\ \A t \in Tables : (\E k \in 1..n : d[k] = Table(t)) => About(S, t) = First(d, n, t)

(* What the statements of d became is e: the same but for values. *)
Reads(e, d) ==
    /\ e \in Seq(Statements) /\ Len(e) = Len(d)
    /\ \A k \in 1..Len(d) : Place(e[k]) = Place(d[k])

Steady(c, w)        == ~w.lost /\ c.sends # <<>> /\ Head(c.sends) = Settings
Arrived(c, w, n, S) == \E e : /\ Reads(e, c.sends) /\ Loaded(e, n, S)
                              /\ Steady(c, w) => e = c.sends

RestoreOK(c, w, S) ==
    c.kind = "restore" =>
    /\ c.sends \in Seq(Statements) /\ DefinesFirst(c.sends) /\ Stays(c.sends)
    /\ w.at \in {"prepare", "exec"} =>
          /\ \A k \in 1..Len(w.todo) : Len(w.todo[k]) = 1
          /\ CutOff(w) \/ (Len(w.todo) <= Len(c.sends) /\ Rest(c, w))
    /\ w.at = "prepare" => CutOff(w) \/ Len(w.todo) = Len(c.sends)
    /\ w.at = "exec" /\ (c.target = "verify" \/ ~CutOff(w)) => w.session.db = c.target
    /\ w.at = "exec" /\ w.alone =>
          CutOff(w) \/ Arrived(c, w, Len(c.sends) - Len(w.todo), S)
    /\ w.at = "exec" /\ Steady(c, w) /\ ~CutOff(w) /\ Len(w.todo) < Len(c.sends)
          => w.session.set
    /\ c.result = "ok" => w.reply = "ok"
    /\ w.reply = "ok" /\ w.alone => w.rows /\ (Steady(c, w) => w.whole)

Local(i) == /\ SidesOK(call[i], work[i], file[i])
            /\ BackupOK(call[i], work[i], file[i])
            /\ RestoreOK(call[i], work[i], db[call[i].target])

Inv == Type /\ \A i \in Calls : Local(i)

----------------------------------------------------------------------------
(* What a step of call i does to the others: at most it ends their being
   alone, if it writes to the database they write to. *)
Spared(j) ==
    /\ call'[j] = call[j] /\ file'[j] = file[j]
    /\ work'[j] = work[j] \/ work'[j] = [work[j] EXCEPT !.alone = FALSE]
    /\ work'[j].alone => db'[call[j].target] = db[call[j].target]
Elsewhere(i) == \A j \in Calls \ {i} : Spared(j)

(* The invariant of a call in the next state, from the values there. *)
LEMMA NextLocal ==
    ASSUME NEW i \in Calls, NEW c, NEW w, NEW f, NEW S,
           call'[i] = c, work'[i] = w, file'[i] = f, db'[c.target] = S,
           SidesOK(c, w, f), BackupOK(c, w, f), RestoreOK(c, w, S)
    PROVE  Local(i)'
<1>1. SidesOK(call[i], work[i], file[i])'  BY DEF SidesOK
<1>2. BackupOK(call[i], work[i], file[i])'
  BY DEF BackupOK, RowsCut, Kept, Ordered
<1>3. RestoreOK(call[i], work[i], db[call[i].target])'
  <2>1. \A n, R : Arrived(call[i], work[i], n, R)' <=> Arrived(c, w, n', R')
    BY DEF Arrived, Steady
  <2> QED  BY <2>1 DEF RestoreOK, Rest, CutOff, Steady
<1> QED  BY <1>1, <1>2, <1>3 DEF Local

(* A request that is no longer alone promises less. *)
LEMMA NotAlone ==
    ASSUME NEW c, NEW w \in WorkStates, NEW f, NEW S, NEW T,
           SidesOK(c, w, f), BackupOK(c, w, f), RestoreOK(c, w, S)
    PROVE  LET v == [w EXCEPT !.alone = FALSE] IN
           SidesOK(c, v, f) /\ BackupOK(c, v, f) /\ RestoreOK(c, v, T)
<1> DEFINE v == [w EXCEPT !.alone = FALSE]
<1>1. /\ v.at = w.at /\ v.left = w.left /\ v.todo = w.todo /\ v.session = w.session
      /\ v.reply = w.reply /\ v.snapshot = w.snapshot /\ v.view = w.view
      /\ v.cut = w.cut /\ v.alone = FALSE /\ v.lost = w.lost
  BY DEF WorkStates
<1> HIDE DEF v
<1>2. SidesOK(c, v, f)  BY <1>1 DEF SidesOK
<1>3. BackupOK(c, v, f)  BY <1>1 DEF BackupOK, RowsCut, Kept, Ordered
<1>4. RestoreOK(c, v, T)  BY <1>1 DEF RestoreOK, Rest, CutOff, Steady
<1> QED  BY <1>2, <1>3, <1>4 DEF v

LEMMA SparedLocal ==
    ASSUME Inv, NEW j \in Calls, Spared(j)
    PROVE  Local(j)'
<1> DEFINE c == call[j]
           w == work[j]
           f == file[j]
           S == db[c.target]
           T == db'[c.target]
<1>1. /\ SidesOK(c, w, f) /\ BackupOK(c, w, f) /\ RestoreOK(c, w, S)
      /\ w \in WorkStates
  BY DEF Inv, Type, Local
<1>2. call'[j] = c /\ file'[j] = f /\ db'[c.target] = T  BY DEF Spared
<1>3. ASSUME work'[j] = [w EXCEPT !.alone = FALSE] PROVE Local(j)'
  <2> DEFINE v == [w EXCEPT !.alone = FALSE]
  <2>1. SidesOK(c, v, f) /\ BackupOK(c, v, f) /\ RestoreOK(c, v, T)
    BY <1>1, NotAlone
  <2>2. work'[j] = v  BY <1>3
  <2> HIDE DEF c, w, f, v, S, T
  <2> QED  BY <1>2, <2>1, <2>2, NextLocal
<1>4. ASSUME work'[j] = w PROVE Local(j)'
  <2>1. w.alone => S = T  BY <1>4 DEF Spared
  <2> HIDE DEF c, w, f, S, T
  <2>2. RestoreOK(c, w, T)
    <3>1. CASE w.alone  BY <1>1, <2>1, <3>1
    <3>2. CASE ~w.alone  BY <1>1, <3>2 DEF RestoreOK
    <3> QED  BY <3>1, <3>2
  <2> QED  BY <1>1, <1>2, <1>4, <2>2, NextLocal
<1> QED  BY <1>3, <1>4 DEF Spared

LEMMA StepInv ==
    ASSUME Inv, Type', NEW i \in Calls, Elsewhere(i), Local(i)'
    PROVE  Inv'
BY SparedLocal DEF Elsewhere, Inv

(* One of the three records of call i changes. *)
LEMMA CallChanges ==
    ASSUME Type, NEW i \in Calls, NEW c \in CallStates, Step(i, c)
    PROVE  /\ call' \in [Calls -> CallStates] /\ call'[i] = c
           /\ \A j \in Calls \ {i} : call'[j] = call[j]
BY DEF Type, Step

LEMMA WorkChanges ==
    ASSUME Type, NEW i \in Calls, NEW w \in WorkStates, Serve(i, w)
    PROVE  /\ work' \in [Calls -> WorkStates] /\ work'[i] = w
           /\ \A j \in Calls \ {i} : work'[j] = work[j]
BY DEF Type, Serve

(* The constants that calls and requests begin with. *)
LEMMA Beginnings ==
    /\ NoCall \in CallStates /\ NoWork \in WorkStates /\ NoFile \in Files
    /\ NoFile.got = <<>> /\ NoFile.tail = "open" /\ ~NoFile.there /\ ~NoFile.stuck
<1>1. <<>> \in Seq(Statements) /\ <<>> \in Seq(Tables) /\ <<>> \in Seq(Dumped)
  OBVIOUS
<1>2. NoCall \in CallStates  BY <1>1 DEF NoCall, CallStates, Databases
<1>3. NoWork \in WorkStates  BY <1>1 DEF NoWork, NewSession, WorkStates, Sessions, Databases
<1>4. NoFile \in Files  BY <1>1 DEF NoFile, Files
<1> QED  BY <1>2, <1>3, <1>4 DEF NoFile

(* A step that changes nothing but the call's side. *)
LEMMA CallOnly ==
    ASSUME Inv, NEW i \in Calls, NEW c \in CallStates, Step(i, c),
           UNCHANGED <<db, work, file>>,
           SidesOK(c, work[i], file[i]), BackupOK(c, work[i], file[i]),
           RestoreOK(c, work[i], db[c.target])
    PROVE  Inv'
<1>1. Type' /\ Elsewhere(i) /\ call'[i] = c  BY CallChanges DEF Inv, Type, Elsewhere, Spared
<1>2. work'[i] = work[i] /\ file'[i] = file[i] /\ db'[c.target] = db[c.target]
  OBVIOUS
<1> QED  BY <1>1, <1>2, NextLocal, StepInv

LEMMA EndedFacts ==
    ASSUME NEW c \in CallStates, NEW r \in {"none", "ok", "failed"}
    PROVE  /\ Ended(c, r) \in CallStates
           /\ Ended(c, r).kind = c.kind /\ Ended(c, r).target = c.target
           /\ Ended(c, r).sends = c.sends /\ Ended(c, r).at = "done"
           /\ Ended(c, r).result = r /\ ~Ended(c, r).broken
BY DEF Ended, CallStates

(* A call ends that has no file. *)
LEMMA EndsWithout ==
    ASSUME Inv, NEW i \in Calls, Step(i, Ended(call[i], "failed")),
           call[i].kind # "none", UNCHANGED <<db, work, file>>, file[i] = NoFile
    PROVE  Inv'
<1> DEFINE e == Ended(call[i], "failed")
<1>1. /\ call[i] \in CallStates /\ SidesOK(call[i], work[i], file[i])
      /\ BackupOK(call[i], work[i], file[i])
      /\ RestoreOK(call[i], work[i], db[call[i].target])
  BY DEF Inv, Type, Local
<1>2. /\ e \in CallStates /\ e.kind = call[i].kind /\ e.target = call[i].target
      /\ e.sends = call[i].sends /\ e.at = "done" /\ e.result = "failed"
  BY <1>1, EndedFacts
<1> HIDE DEF e
<1>3. SidesOK(e, work[i], file[i])  BY <1>1, <1>2 DEF SidesOK
<1>4. BackupOK(e, work[i], file[i])
  BY <1>1, <1>2, Beginnings DEF BackupOK
<1>5. RestoreOK(e, work[i], db[e.target])
  BY <1>1, <1>2 DEF RestoreOK, Rest, CutOff, Arrived, Steady
<1>6. Step(i, e)  BY DEF e
<1> QED  BY <1>2, <1>3, <1>4, <1>5, <1>6, CallOnly

(* A call goes on with another place or flag, and the same data. *)
LEMMA GoesOn ==
    ASSUME Inv, NEW i \in Calls, NEW c \in CallStates, Step(i, c),
           UNCHANGED <<db, work, file>>,
           c.kind = call[i].kind, c.target = call[i].target, c.sends = call[i].sends,
           c.result = call[i].result, call[i].broken => c.broken,
           \/ c.at = call[i].at
           \/ call[i].at = "preflight" /\ c.at = "request"
           \/ call[i].at = "copy" /\ c.at = "check"
    PROVE  Inv'
<1>1. /\ SidesOK(call[i], work[i], file[i]) /\ BackupOK(call[i], work[i], file[i])
      /\ RestoreOK(call[i], work[i], db[call[i].target])
  BY DEF Inv, Type, Local
<1>2. SidesOK(c, work[i], file[i])  BY <1>1 DEF SidesOK
<1>3. BackupOK(c, work[i], file[i])  BY <1>1 DEF BackupOK
<1>4. RestoreOK(c, work[i], db[c.target])  BY <1>1 DEF RestoreOK, Rest, Arrived, Steady
<1> QED  BY <1>2, <1>3, <1>4, CallOnly

LEMMA PreflightInv == ASSUME Inv, NEW i \in Calls, Preflight(i) PROVE Inv'
<1>1. /\ call[i].at = "preflight" /\ UNCHANGED <<db, work, file>> /\ call[i] \in CallStates
      /\ file[i] = NoFile /\ call[i].kind # "none"
  BY DEF Preflight, At, Inv, Type, Local, SidesOK
<1>2. CASE Step(i, Ended(call[i], "failed"))  BY <1>1, <1>2, EndsWithout
<1>3. CASE Step(i, [call[i] EXCEPT !.at = "request"])
  <2> DEFINE c == [call[i] EXCEPT !.at = "request"]
  <2>1. /\ c \in CallStates /\ c.at = "request" /\ c.kind = call[i].kind
        /\ c.target = call[i].target /\ c.sends = call[i].sends
        /\ c.result = call[i].result /\ c.broken = call[i].broken
    BY <1>1 DEF CallStates
  <2>2. Step(i, c)  BY <1>3
  <2> HIDE DEF c
  <2> QED  BY <1>1, <2>1, <2>2, GoesOn
<1> QED  BY <1>2, <1>3 DEF Preflight

LEMMA CopyEndsInv == ASSUME Inv, NEW i \in Calls, CopyEnds(i) PROVE Inv'
<1> DEFINE c == [call[i] EXCEPT !.at = "check"]
<1>1. /\ Step(i, c) /\ UNCHANGED <<db, work, file>> /\ call[i].at = "copy"
  BY DEF CopyEnds, At
<1>2. /\ c \in CallStates /\ c.at = "check" /\ c.kind = call[i].kind
      /\ c.target = call[i].target /\ c.sends = call[i].sends
      /\ c.result = call[i].result /\ c.broken = call[i].broken
  BY DEF Inv, Type, CallStates
<1> HIDE DEF c
<1> QED  BY <1>1, <1>2, GoesOn

LEMMA CancelInv == ASSUME Inv, NEW i \in Calls, Cancel(i) PROVE Inv'
<1> DEFINE c == [call[i] EXCEPT !.canceled = TRUE]
<1>1. /\ Step(i, c) /\ UNCHANGED <<db, work, file>>  BY DEF Cancel
<1>2. /\ c \in CallStates /\ c.at = call[i].at /\ c.kind = call[i].kind
      /\ c.target = call[i].target /\ c.sends = call[i].sends
      /\ c.result = call[i].result /\ c.broken = call[i].broken
  BY DEF Inv, Type, CallStates
<1> HIDE DEF c
<1> QED  BY <1>1, <1>2, GoesOn

LEMMA NetworkLostInv == ASSUME Inv, NEW i \in Calls, NetworkLost(i) PROVE Inv'
<1> DEFINE c == [call[i] EXCEPT !.broken = TRUE]
<1>1. /\ Step(i, c) /\ UNCHANGED <<db, work, file>>  BY DEF NetworkLost
<1>2. /\ c \in CallStates /\ c.at = call[i].at /\ c.kind = call[i].kind
      /\ c.target = call[i].target /\ c.sends = call[i].sends
      /\ c.result = call[i].result /\ c.broken
  BY DEF Inv, Type, CallStates
<1> HIDE DEF c
<1> QED  BY <1>1, <1>2, GoesOn

LEMMA LeavesInv == ASSUME Inv, NEW i \in Calls, Abort(i) \/ Broken(i) PROVE Inv'
<1>1. /\ Step(i, Ended(call[i], "failed")) /\ UNCHANGED <<db, work, file>>
      /\ call[i].at \in {"preflight", "request", "wait"}
  BY DEF Abort, Broken, At
<1>2. file[i] = NoFile /\ call[i].kind # "none"
  BY <1>1 DEF Inv, Local, SidesOK
<1> QED  BY <1>1, <1>2, EndsWithout

LEMMA AnswerInv == ASSUME Inv, NEW i \in Calls, Answer(i) PROVE Inv'
<1> DEFINE e == Ended(call[i], work[i].reply)
<1>1. /\ call[i].at = "wait" /\ work[i].reply # "none" /\ Step(i, e)
      /\ UNCHANGED <<db, work, file>>
      /\ call[i] \in CallStates /\ work[i].reply \in {"none", "ok", "failed"}
      /\ SidesOK(call[i], work[i], file[i])
      /\ RestoreOK(call[i], work[i], db[call[i].target])
  BY DEF Answer, At, Inv, Type, Local, WorkStates
<1>2. /\ e \in CallStates /\ e.kind = call[i].kind /\ e.target = call[i].target
      /\ e.sends = call[i].sends /\ e.at = "done" /\ e.result = work[i].reply
  BY <1>1, EndedFacts
<1> HIDE DEF e
<1>3. SidesOK(e, work[i], file[i])  BY <1>1, <1>2 DEF SidesOK
<1>4. BackupOK(e, work[i], file[i])
  BY <1>1, <1>2 DEF BackupOK, SidesOK
<1>5. RestoreOK(e, work[i], db[e.target])
  BY <1>1, <1>2 DEF RestoreOK, Rest, CutOff, Arrived, Steady
<1> QED  BY <1>1, <1>2, <1>3, <1>4, <1>5, CallOnly

Puts(i, f) == file' = [file EXCEPT ![i] = f]

LEMMA FileChanges ==
    ASSUME Type, NEW i \in Calls, NEW f \in Files, Puts(i, f)
    PROVE  /\ file' \in [Calls -> Files] /\ file'[i] = f
           /\ \A j \in Calls \ {i} : file'[j] = file[j]
BY DEF Type, Puts

LEMMA NothingChanges ==
    ASSUME Type, NEW i \in Calls
    PROVE  /\ UNCHANGED call => Step(i, call[i])
           /\ UNCHANGED work => Serve(i, work[i])
           /\ UNCHANGED file => Puts(i, file[i])
BY DEF Type, Step, Serve, Puts

(* A step of call i that leaves the databases alone. *)
LEMMA SidesChange ==
    ASSUME Inv, NEW i \in Calls, NEW c \in CallStates, NEW w \in WorkStates, NEW f \in Files,
           Step(i, c), Serve(i, w), Puts(i, f), UNCHANGED db,
           SidesOK(c, w, f), BackupOK(c, w, f), RestoreOK(c, w, db[c.target])
    PROVE  Inv'
<1>1. Type  BY DEF Inv
<1>2. /\ call'[i] = c /\ work'[i] = w /\ file'[i] = f /\ db'[c.target] = db[c.target]
      /\ \A j \in Calls \ {i} : /\ call'[j] = call[j] /\ work'[j] = work[j]
                                 /\ file'[j] = file[j] /\ db'[call[j].target] = db[call[j].target]
  BY <1>1, CallChanges, WorkChanges, FileChanges
<1>3. Type'  BY <1>1, CallChanges, WorkChanges, FileChanges DEF Type
<1>4. Elsewhere(i)  BY <1>2 DEF Elsewhere, Spared
<1>5. Local(i)'  BY <1>2, NextLocal
<1> QED  BY <1>3, <1>4, <1>5, StepInv

(* A file of the plugin holds no statement that leaves the database. *)
LEMMA DumpedFacts ==
    /\ Dumped \subseteq Statements
    /\ \A d \in Seq(Dumped) : d \in Seq(Statements) /\ Stays(d)
<1>1. Dumped \subseteq Statements  BY DEF Dumped, Tabled, Statements
<1>2. ASSUME NEW d \in Seq(Dumped) PROVE Stays(d)
  <2>1. \A k \in DOMAIN d : d[k] \in Dumped  OBVIOUS
  <2>2. \A x \in Dumped : x[1] \in {"set", "save", "restore", "create", "row"}
    BY DEF Dumped, Tabled
  <2>3. <<"use", "verify">>[1] = "use" /\ <<"dropdb", "wp">>[1] = "dropdb"  OBVIOUS
  <2> QED  BY <2>1, <2>2, <2>3 DEF Stays
<1> QED  BY <1>1, <1>2, SeqMonotonic

LEMMA SourcesFacts ==
    ASSUME Inv, NEW i \in Calls, NEW s \in Sources(i)
    PROVE  s \in Seq(Statements) /\ DefinesFirst(s) /\ Stays(s)
<1>1. CASE s \in ForeignDumps  BY <1>1, DumpAssumption
<1>2. CASE s \notin ForeignDumps
  <2>1. PICK j \in Calls : s = file[j].got /\ call[j].kind = "backup"
    BY <1>2 DEF Sources
  <2>2. BackupOK(call[j], work[j], file[j]) /\ file[j] \in Files
    BY DEF Inv, Type, Local
  <2> QED  BY <2>1, <2>2, DumpedFacts DEF BackupOK, Files
<1> QED  BY <1>1, <1>2

LEMMA BeginInv == ASSUME Inv, NEW i \in Calls, Begin(i) PROVE Inv'
<1>1. /\ call[i].at = "idle" /\ UNCHANGED <<db, work, file>>
      /\ work[i].at = "none" /\ work[i].reply = "none" /\ file[i] = NoFile
  BY DEF Begin, At, Inv, Local, SidesOK
<1>2. PICK kind \in Kinds, d \in Databases :
         \E s \in CASE kind = "backup"  -> {<<>>}
                    [] kind = "restore" -> Sources(i)
                    [] kind = "query"   -> Queries :
            /\ kind # "restore" => d = "wp"
            /\ Step(i, [NoCall EXCEPT !.kind = kind, !.target = d, !.sends = s,
                           !.at = IF kind = "query" THEN "request" ELSE "preflight"])
  BY DEF Begin
<1>3. kind \in {"backup", "restore", "query"}  BY KindAssumption
<1>4. PICK s : /\ kind = "backup" => s = <<>>
               /\ kind = "restore" => s \in Sources(i)
               /\ kind = "query" => s \in Queries
               /\ kind # "restore" => d = "wp"
               /\ Step(i, [NoCall EXCEPT !.kind = kind, !.target = d, !.sends = s,
                              !.at = IF kind = "query" THEN "request" ELSE "preflight"])
  <2>1. CASE kind = "backup"  BY <1>2, <2>1
  <2>2. CASE kind = "restore"  BY <1>2, <2>2
  <2>3. CASE kind = "query"  BY <1>2, <2>3
  <2> QED  BY <1>3, <2>1, <2>2, <2>3
<1> DEFINE c == [NoCall EXCEPT !.kind = kind, !.target = d, !.sends = s,
                    !.at = IF kind = "query" THEN "request" ELSE "preflight"]
<1>5. s \in Seq(Statements) \cup Seq(Lines1)
  <2>1. kind = "backup" => s \in Seq(Statements)  BY <1>4
  <2>2. kind = "restore" => s \in Seq(Statements)  BY <1>4, SourcesFacts
  <2>3. kind = "query" => s \in Seq(Lines1)  BY <1>4, QueryAssumption DEF Lines1
  <2> QED  BY <1>3, <2>1, <2>2, <2>3
<1>6. /\ c \in CallStates /\ c.kind = kind /\ c.target = d /\ c.sends = s
      /\ c.at \in {"request", "preflight"} /\ c.result = "none"
  BY <1>3, <1>5, Beginnings DEF CallStates, NoCall
<1>7. Step(i, c)  BY <1>4
<1> HIDE DEF c
<1>8. SidesOK(c, work[i], file[i])
  BY <1>1, <1>3, <1>4, <1>6, QueryAssumption DEF SidesOK, Lines1
<1>9. BackupOK(c, work[i], file[i])
  BY <1>1, <1>6, Beginnings DEF BackupOK, DefinesFirst
<1>10. RestoreOK(c, work[i], db[c.target])
  BY <1>1, <1>4, <1>6, SourcesFacts DEF RestoreOK
<1> QED  BY <1>1, <1>6, <1>7, <1>8, <1>9, <1>10, CallOnly

LEMMA RemovedFacts ==
    ASSUME NEW f \in Files, NEW g \in Removed(f)
    PROVE  /\ g \in Files
           /\ g = NoFile \/ (g.stuck /\ g.there = f.there /\ g.got = f.got /\ g.tail = f.tail)
BY Beginnings DEF Removed, Files

LEMMA CheckInv == ASSUME Inv, NEW i \in Calls, Check(i) PROVE Inv'
<1> DEFINE ok == ~call[i].canceled /\ ~call[i].broken /\ Acceptable(i)
           e == Ended(call[i], IF ok THEN "ok" ELSE "failed")
<1>1. PICK f \in IF ok THEN {file[i]} ELSE Removed(file[i]) : Puts(i, f)
  BY DEF Check, Puts
<1>2. /\ call[i].at = "check" /\ Step(i, e) /\ UNCHANGED <<db, work>>
      /\ (ok => file[i].tail = "trailer")
  BY DEF Check, At, Acceptable
<1>3. /\ call[i] \in CallStates /\ file[i] \in Files /\ work[i] \in WorkStates
      /\ SidesOK(call[i], work[i], file[i]) /\ BackupOK(call[i], work[i], file[i])
  BY DEF Inv, Type, Local
<1>4. /\ e \in CallStates /\ e.kind = call[i].kind /\ e.target = call[i].target
      /\ e.at = "done" /\ e.result = IF ok THEN "ok" ELSE "failed"
  BY <1>3, EndedFacts
<1>5. call[i].kind = "backup"  BY <1>2, <1>3 DEF SidesOK
<1>6. file[i].there /\ ~file[i].stuck  BY <1>2, <1>3, <1>5 DEF BackupOK, SidesOK
<1>7. /\ f \in Files
      /\ \/ f = file[i] /\ e.result = "ok" /\ f.tail = "trailer"
         \/ f = NoFile /\ e.result = "failed"
         \/ /\ f.stuck /\ f.there /\ e.result = "failed"
            /\ f.got = file[i].got /\ f.tail = file[i].tail
  <2>1. CASE ok  BY <1>1, <1>2, <1>3, <1>4, <2>1
  <2>2. CASE ~ok
    <3>1. f \in Removed(file[i]) /\ e.result = "failed"  BY <1>1, <1>4, <2>2
    <3> HIDE DEF e, ok
    <3> QED  BY <1>3, <1>6, <3>1, RemovedFacts
  <2> QED  BY <2>1, <2>2
<1> HIDE DEF e, ok
<1>8. SidesOK(e, work[i], f)  BY <1>2, <1>3, <1>4, <1>5, <1>7 DEF SidesOK
<1>9. BackupOK(e, work[i], f)
  <2>1. CASE f = file[i] /\ e.result = "ok" /\ f.tail = "trailer"
    BY <1>3, <1>4, <1>5, <1>6, <2>1 DEF BackupOK
  <2>2. CASE f = NoFile /\ e.result = "failed"
    BY <1>3, <1>4, <1>5, <2>2, Beginnings DEF BackupOK, DefinesFirst
  <2>3. CASE /\ f.stuck /\ f.there /\ e.result = "failed"
             /\ f.got = file[i].got /\ f.tail = file[i].tail
    BY <1>3, <1>4, <1>5, <2>3 DEF BackupOK
  <2> QED  BY <1>7, <2>1, <2>2, <2>3
<1>10. RestoreOK(e, work[i], db[e.target])  BY <1>4, <1>5 DEF RestoreOK
<1>11. Serve(i, work[i])  BY <1>2, NothingChanges DEF Inv
<1> QED  BY <1>1, <1>2, <1>3, <1>4, <1>7, <1>8, <1>9, <1>10, <1>11, SidesChange

LEMMA RequestExportInv == ASSUME Inv, NEW i \in Calls, RequestExport(i) PROVE Inv'
<1>1. /\ call[i].at = "request" /\ call[i].kind = "backup" /\ UNCHANGED db
      /\ file[i] = NoFile /\ call[i] \in CallStates
      /\ SidesOK(call[i], work[i], file[i]) /\ BackupOK(call[i], work[i], file[i])
  BY DEF RequestExport, At, Inv, Type, Local, SidesOK
<1>2. CASE Step(i, Ended(call[i], "failed")) /\ UNCHANGED <<work, file>>
  BY <1>1, <1>2, EndsWithout
<1> DEFINE c == [call[i] EXCEPT !.at = "copy"]
           w == [NoWork EXCEPT !.at = "connect", !.left = [t \in Tables |-> t]]
           f == [NoFile EXCEPT !.there = TRUE]
<1>3. CASE Step(i, c) /\ Serve(i, w) /\ Puts(i, f)
  <2>1. /\ c \in CallStates /\ c.at = "copy" /\ c.kind = "backup"
        /\ c.target = call[i].target /\ c.result = call[i].result
    BY <1>1 DEF CallStates
  <2>2. [t \in Tables |-> t] \in Seq(Tables) /\ Len([t \in Tables |-> t]) = NumTables
    BY SizeAssumption DEF Tables
  <2>3. /\ w \in WorkStates /\ w.at = "connect" /\ w.left = [t \in Tables |-> t]
        /\ w.todo = <<>> /\ w.view = {} /\ w.reply = "none"
    BY <2>2, Beginnings DEF WorkStates, NoWork
  <2>4. f \in Files /\ f.there /\ f.got = <<>> /\ f.tail = "open" /\ ~f.stuck
    BY Beginnings DEF NoFile, Files
  <2> HIDE DEF c, w, f
  <2>5. SidesOK(c, w, f)  BY <1>1, <2>1, <2>3 DEF SidesOK
  <2>6. BackupOK(c, w, f)
    <3>1. <<>> \o <<>> = <<>>  OBVIOUS
    <3>2. DefinesFirst(<<>>) /\ Content(<<>>) = {} /\ RowsLast(<<>>)
      BY DEF DefinesFirst, Content, RowsLast
    <3>3. \A k \in 1..Len(w.left) : w.left[k] = NumTables - Len(w.left) + k
      BY <2>2, <2>3, SizeAssumption DEF Tables
    <3>4. Ordered(w, f)  BY <2>3, <2>4, <3>1, <3>2, <3>3 DEF Ordered
    <3>5. Kept(w, f)  BY <2>3 DEF Kept
    <3> QED  BY <1>1, <2>1, <2>3, <2>4, <3>2, <3>4, <3>5 DEF BackupOK, SidesOK
  <2>7. RestoreOK(c, w, db[c.target])  BY <2>1 DEF RestoreOK
  <2> QED  BY <1>1, <1>3, <2>1, <2>3, <2>4, <2>5, <2>6, <2>7, SidesChange
<1> QED  BY <1>2, <1>3 DEF RequestExport, Puts

(* A line for each of the first n statements of a file. *)
LEMMA OneEach ==
    ASSUME NEW d \in Seq(Statements), NEW n \in 0..Len(d)
    PROVE  LET s == [k \in 1..n |-> <<d[k]>>] IN
           /\ s \in Seq(Lines1) /\ Len(s) = n
           /\ \A k \in 1..n : s[k] = <<d[k]>> /\ Len(s[k]) = 1
<1>1. \A k \in 1..n : <<d[k]>> \in Lines1 /\ Len(<<d[k]>>) = 1  BY DEF Lines1
<1> QED  BY <1>1

LEMMA RequestImportInv == ASSUME Inv, NEW i \in Calls, RequestImport(i) PROVE Inv'
<1> DEFINE c == [call[i] EXCEPT !.at = "wait"]
           w == [NoWork EXCEPT !.at = "prepare", !.todo = Lines(i, Len(call[i].sends))]
<1>1. /\ call[i].at = "request" /\ call[i].kind # "backup" /\ UNCHANGED <<db, file>>
      /\ Step(i, c) /\ Serve(i, w) /\ call[i] \in CallStates /\ file[i] \in Files
      /\ SidesOK(call[i], work[i], file[i]) /\ RestoreOK(call[i], work[i], db[call[i].target])
  BY DEF RequestImport, At, Inv, Type, Local
<1>2. /\ c \in CallStates /\ c.at = "wait" /\ c.kind = call[i].kind
      /\ c.target = call[i].target /\ c.sends = call[i].sends /\ c.result = call[i].result
  BY <1>1 DEF CallStates
<1> HIDE DEF c, w
<1>3. c.kind \in {"restore", "query"}  BY <1>1, <1>2 DEF SidesOK, CallStates
<1>4. /\ Lines(i, Len(c.sends)) \in Seq(Lines1)
      /\ c.kind = "restore" =>
            /\ Len(Lines(i, Len(c.sends))) = Len(c.sends)
            /\ Lines(i, Len(c.sends)) = [k \in 1..Len(c.sends) |-> <<c.sends[k]>>]
            /\ \A k \in 1..Len(c.sends) : Len(Lines(i, Len(c.sends))[k]) = 1
  <2>1. CASE c.kind = "query"
    BY <1>1, <1>2, <2>1 DEF Lines, SidesOK
  <2>2. CASE c.kind = "restore"
    <3>1. c.sends \in Seq(Statements)  BY <1>1, <1>2, <2>2 DEF RestoreOK
    <3>2. Len(c.sends) \in 0..Len(c.sends)  BY <3>1
    <3>3. Lines(i, Len(c.sends)) = [k \in 1..Len(c.sends) |-> <<c.sends[k]>>]
      BY <1>1, <1>2, <2>2 DEF Lines
    <3> DEFINE s == [k \in 1..Len(c.sends) |-> <<c.sends[k]>>]
    <3>4. /\ s \in Seq(Lines1) /\ Len(s) = Len(c.sends)
          /\ \A k \in 1..Len(c.sends) : Len(s[k]) = 1
      BY <3>1, <3>2, OneEach
    <3> QED  BY <3>3, <3>4
  <2> QED  BY <1>3, <2>1, <2>2
<1>5. /\ w \in WorkStates /\ w.at = "prepare" /\ w.todo = Lines(i, Len(c.sends))
      /\ w.reply = "none"
  BY <1>2, <1>4, Beginnings DEF w, WorkStates, NoWork
<1>6. SidesOK(c, w, file[i])  BY <1>1, <1>2, <1>3, <1>4, <1>5 DEF SidesOK
<1>7. BackupOK(c, w, file[i])  BY <1>3 DEF BackupOK
<1>8. RestoreOK(c, w, db[c.target])
  <2> SUFFICES ASSUME c.kind = "restore" PROVE RestoreOK(c, w, db[c.target])
    BY DEF RestoreOK
  <2>1. c.sends \in Seq(Statements) /\ DefinesFirst(c.sends) /\ Stays(c.sends)
    BY <1>1, <1>2 DEF RestoreOK
  <2>2. \A k \in Int : Len(c.sends) - Len(c.sends) + k = k  BY <2>1
  <2>3. Rest(c, w)  BY <1>4, <1>5, <2>1, <2>2 DEF Rest
  <2> QED  BY <1>1, <1>2, <1>4, <1>5, <2>1, <2>3 DEF RestoreOK, SidesOK
<1>9. Puts(i, file[i])  BY <1>1, NothingChanges DEF Inv
<1> QED  BY <1>1, <1>2, <1>5, <1>6, <1>7, <1>8, <1>9, SidesChange

LEMMA UploadBreaksInv == ASSUME Inv, NEW i \in Calls, UploadBreaks(i) PROVE Inv'
<1> DEFINE c == [call[i] EXCEPT !.at = "wait", !.broken = TRUE]
<1>1. /\ call[i].at = "request" /\ call[i].kind = "restore" /\ UNCHANGED <<db, file>>
      /\ Step(i, c) /\ call[i] \in CallStates /\ file[i] \in Files /\ work[i] \in WorkStates
      /\ SidesOK(call[i], work[i], file[i]) /\ RestoreOK(call[i], work[i], db[call[i].target])
  BY DEF UploadBreaks, At, Inv, Type, Local
<1>2. /\ c \in CallStates /\ c.at = "wait" /\ c.kind = "restore"
      /\ c.target = call[i].target /\ c.sends = call[i].sends /\ c.result = call[i].result
  BY <1>1 DEF CallStates
<1>3. /\ c.sends \in Seq(Statements) /\ DefinesFirst(c.sends) /\ Stays(c.sends)
      /\ work[i].at = "none" /\ work[i].reply = "none" /\ file[i] = NoFile
      /\ c.result = "none"
  BY <1>1, <1>2 DEF RestoreOK, SidesOK
<1>4. Puts(i, file[i])  BY <1>1, NothingChanges DEF Inv
<1> HIDE DEF c
<1>5. BackupOK(c, work[i], file[i]) /\ \A w : BackupOK(c, w, file[i])
  BY <1>2 DEF BackupOK
<1>6. CASE UNCHANGED work
  <2>1. SidesOK(c, work[i], file[i])  BY <1>2, <1>3 DEF SidesOK
  <2>2. RestoreOK(c, work[i], db[c.target])  BY <1>2, <1>3 DEF RestoreOK
  <2>3. Serve(i, work[i])  BY <1>6, NothingChanges DEF Inv
  <2> QED  BY <1>1, <1>2, <1>4, <1>5, <2>1, <2>2, <2>3, SidesChange
<1>7. ASSUME NEW n \in 0..(Len(call[i].sends) - 1),
             Serve(i, [NoWork EXCEPT !.at = "prepare",
                          !.todo = Append(Lines(i, n), << <<"garbage">> >>)])
      PROVE  Inv'
  <2> DEFINE s == [k \in 1..n |-> <<c.sends[k]>>]
             todo == Append(s, << <<"garbage">> >>)
             w == [NoWork EXCEPT !.at = "prepare", !.todo = todo]
  <2>1. n \in 0..Len(c.sends)  BY <1>2, <1>3
  <2>2. s \in Seq(Lines1) /\ Len(s) = n /\ \A k \in 1..n : Len(s[k]) = 1
    BY <1>3, <2>1, OneEach
  <2>3. Lines(i, n) = s  BY <1>1, <1>2 DEF Lines
  <2>4. << <<"garbage">> >> \in Lines1 /\ Len(<< <<"garbage">> >>) = 1
    BY DEF Lines1, Statements
  <2> HIDE DEF s
  <2>5. /\ todo \in Seq(Lines1) /\ Len(todo) = n + 1
        /\ todo[n + 1] = << <<"garbage">> >> /\ \A k \in 1..(n + 1) : Len(todo[k]) = 1
    BY <2>1, <2>2, <2>4
  <2> HIDE DEF todo
  <2>6. /\ w \in WorkStates /\ w.at = "prepare" /\ w.todo = todo /\ w.reply = "none"
    BY <2>5, Beginnings DEF WorkStates, NoWork
  <2>7. Serve(i, w)  BY <1>7, <2>3 DEF todo
  <2> HIDE DEF w
  <2>8. CutOff(w)  BY <2>1, <2>5, <2>6 DEF CutOff
  <2>9. SidesOK(c, w, file[i])  BY <1>2, <1>3, <2>5, <2>6 DEF SidesOK
  <2>10. RestoreOK(c, w, db[c.target])
    BY <1>2, <1>3, <2>5, <2>6, <2>8 DEF RestoreOK
  <2> QED  BY <1>1, <1>2, <1>4, <1>5, <2>6, <2>7, <2>9, <2>10, SidesChange
<1> QED  BY <1>6, <1>7 DEF UploadBreaks

----------------------------------------------------------------------------
(* The plugin writes a dump. *)

LEMMA DumpedShape ==
    ASSUME NEW x \in Dumped
    PROVE  /\ x[1] \in {"set", "save", "restore", "create", "row"}
           /\ x[1] = "create" => x[2] \in Tables /\ x = Table(x[2])
           /\ x[1] = "row" => x[2] \in Tables
           /\ IsRow(x) <=> x[1] = "row"
BY DEF Dumped, Tabled, Table, IsRow

LEMMA InContent ==
    ASSUME NEW d \in Seq(Dumped), NEW x
    PROVE  x \in Content(d) <=> \E k \in 1..Len(d) : d[k] = x /\ x[1] \in {"create", "row"}
BY DEF Content

(* What moves from the queue to the file stays in place. *)
LEMMA MoveOne ==
    ASSUME NEW g \in Seq(Dumped), NEW d \in Seq(Dumped), d # <<>>
    PROVE  /\ Head(d) \in Dumped /\ Tail(d) \in Seq(Dumped)
           /\ Append(g, Head(d)) \in Seq(Dumped)
           /\ Append(g, Head(d)) \o Tail(d) = g \o d
           /\ Content(g) \cup Content(d) \subseteq Content(Append(g, Head(d))) \cup Content(Tail(d))
           /\ RowsLast(d) => RowsLast(Tail(d))
<1>1. /\ Head(d) \in Dumped /\ Tail(d) \in Seq(Dumped) /\ Append(g, Head(d)) \in Seq(Dumped)
      /\ Len(Tail(d)) = Len(d) - 1 /\ Len(d) > 0 /\ Head(d) = d[1]
      /\ \A k \in 1..Len(Tail(d)) : Tail(d)[k] = d[k + 1]
      /\ Len(Append(g, Head(d))) = Len(g) + 1
      /\ \A k \in 1..Len(g) : Append(g, Head(d))[k] = g[k]
      /\ Append(g, Head(d))[Len(g) + 1] = d[1]
  OBVIOUS
<1> DEFINE h == Append(g, Head(d))
           r == Tail(d)
<1> HIDE DEF h, r
<1>2. /\ h \in Seq(Dumped) /\ r \in Seq(Dumped) /\ Len(r) = Len(d) - 1 /\ Len(d) > 0
      /\ \A k \in 1..Len(r) : r[k] = d[k + 1]
      /\ Len(h) = Len(g) + 1 /\ h[Len(g) + 1] = d[1]
      /\ \A k \in 1..Len(g) : h[k] = g[k]
  BY <1>1 DEF h, r
<1>3. h \o r = g \o d
  <2>1. h \o r \in Seq(Dumped) /\ g \o d \in Seq(Dumped) /\ Len(h \o r) = Len(g \o d)
    <3>1. h \o r \in Seq(Dumped) /\ Len(h \o r) = Len(h) + Len(r)
      BY <1>2, ConcatProperties
    <3>2. g \o d \in Seq(Dumped) /\ Len(g \o d) = Len(g) + Len(d)
      BY ConcatProperties
    <3> QED  BY <1>2, <3>1, <3>2
  <2>2. ASSUME NEW k \in 1..Len(h \o r) PROVE (h \o r)[k] = (g \o d)[k]
    <3>1. CASE k <= Len(g)  BY <1>2, <3>1
    <3>2. CASE k = Len(g) + 1  BY <1>2, <3>2
    <3>3. CASE k > Len(g) + 1  BY <1>2, <3>3, SMTT(30)
    <3> QED  BY <1>2, <2>1, <3>1, <3>2, <3>3
  <2> QED  BY <2>1, <2>2, SeqEqual
<1>4. ASSUME NEW x \in Content(g) \cup Content(d) PROVE x \in Content(h) \cup Content(r)
  <2>1. CASE x \in Content(g)
    <3>1. PICK k \in 1..Len(g) : g[k] = x /\ x[1] \in {"create", "row"}  BY <2>1, InContent
    <3>2. k \in 1..Len(h) /\ h[k] = x  BY <1>2, <3>1
    <3> QED  BY <1>2, <3>1, <3>2, InContent
  <2>2. CASE x \in Content(d)
    <3>1. PICK k \in 1..Len(d) : d[k] = x /\ x[1] \in {"create", "row"}  BY <2>2, InContent
    <3>2. CASE k = 1
      <4>1. Len(g) + 1 \in 1..Len(h) /\ h[Len(g) + 1] = x  BY <1>2, <3>1, <3>2
      <4> QED  BY <1>2, <3>1, <4>1, InContent
    <3>3. CASE k > 1
      <4>1. k - 1 \in 1..Len(r) /\ r[k - 1] = x  BY <1>2, <3>1, <3>3
      <4> QED  BY <1>2, <3>1, <4>1, InContent
    <3> QED  BY <3>2, <3>3
  <2> QED  BY <2>1, <2>2
<1>5. ASSUME RowsLast(d) PROVE RowsLast(r)
  <2> SUFFICES ASSUME NEW k \in 1..Len(r), IsRow(r[k]), NEW l \in k..Len(r)
               PROVE  IsRow(r[l]) /\ r[l][2] = r[k][2]
    BY <1>2 DEF RowsLast
  <2>1. k + 1 \in DOMAIN d /\ l + 1 \in (k + 1)..Len(d) /\ r[k] = d[k + 1] /\ r[l] = d[l + 1]
    BY <1>2
  <2> QED  BY <1>5, <2>1 DEF RowsLast
<1> QED  BY <1>1, <1>3, <1>4, <1>5 DEF h, r

LEMMA PrefixDefinesFirst ==
    ASSUME NEW g \in Seq(Dumped), NEW d \in Seq(Dumped), DefinesFirst(g \o d)
    PROVE  DefinesFirst(g)
<1>1. /\ DOMAIN g = 1..Len(g) /\ DOMAIN (g \o d) = 1..(Len(g) + Len(d))
      /\ \A k \in 1..Len(g) : (g \o d)[k] = g[k]
  OBVIOUS
<1>2. Len(g) \in Nat /\ Len(d) \in Nat  OBVIOUS
<1> QED  BY <1>1, <1>2 DEF DefinesFirst

LEMMA PrefixContent ==
    ASSUME NEW g \in Seq(Dumped), NEW d \in Seq(Dumped)
    PROVE  Content(g) \subseteq Content(g \o d)
<1> SUFFICES ASSUME NEW x \in Content(g) PROVE x \in Content(g \o d)  OBVIOUS
<1>1. PICK k \in 1..Len(g) : g[k] = x /\ x[1] \in {"create", "row"}  BY InContent
<1>2. g \o d \in Seq(Dumped) /\ k \in 1..Len(g \o d) /\ (g \o d)[k] = x  BY <1>1
<1> QED  BY <1>1, <1>2, InContent

(* A SELECT gives each row once, in some order. *)
LEMMA SelectFacts ==
    ASSUME NEW R, IsFiniteSet(R), NEW rows \in SetToSeqs(R)
    PROVE  /\ rows \in Seq(R)
           /\ \A x \in R : \E k \in 1..Len(rows) : rows[k] = x
<1> DEFINE n == Cardinality(R)
<1>1. n \in Nat  BY FS_CardinalityType
<1>2. rows \in [1..n -> R] /\ \A k, l \in 1..n : k # l => rows[k] # rows[l]
  BY DEF SetToSeqs
<1>3. rows \in Injection(1..n, R)
  BY <1>2 DEF Injection, IsInjective
<1>4. Cardinality(1..n) = n
  <2>1. 1 \in Int /\ n \in Int  BY <1>1
  <2> HIDE DEF n
  <2>2. Cardinality(1..n) = IF 1 > n THEN 0 ELSE n - 1 + 1  BY <2>1, FS_Interval
  <2> QED  BY <1>1, <2>2
<1>5. rows \in Surjection(1..n, R)  BY <1>3, <1>4, FS_Injection
<1> HIDE DEF n
<1>6. \A x \in R : \E k \in 1..n : rows[k] = x
  BY <1>5 DEF Surjection
<1>7. rows \in Seq(R) /\ Len(rows) = n  BY <1>1, <1>2
<1> QED  BY <1>6, <1>7

(* What the plugin queues for table t: its definition, then its rows. *)
Queue(t, R, d) ==
    /\ d \in Seq(Dumped)
    /\ RowsLast(d)
    /\ {Table(t)} \cup R \subseteq Content(d)
    /\ \E p \in 1..2 : /\ p <= Len(d) /\ d[p] = Table(t)
                       /\ \A k \in 1..Len(d) :
                             /\ d[k][1] = "create" => k = p
                             /\ d[k][1] = "row" => k > p
    /\ \A x \in Content(d) : x[2] = t

LEMMA QueueFacts ==
    ASSUME NEW t \in Tables, NEW R \in SUBSET ({"row"} \X {t} \X Int \X Batches),
           IsFiniteSet(R), NEW rows \in SetToSeqs(R)
    PROVE  Queue(t, R, Definition(t) \o rows)
<1> DEFINE D == Definition(t)
           p == IF driver = "pdo" THEN 2 ELSE 1
           n == IF driver = "pdo" THEN 3 ELSE 1
           d == D \o rows
<1>1. \A x \in R : x \in Dumped /\ x[1] = "row" /\ x[2] = t /\ IsRow(x)
  BY DEF Dumped, Tabled, IsRow
<1>2. rows \in Seq(R) /\ \A x \in R : \E k \in 1..Len(rows) : rows[k] = x
  BY SelectFacts
<1>3. rows \in Seq(Dumped)  BY <1>1, <1>2, SeqMonotonic
<1>4. /\ D \in Seq(Dumped) /\ Len(D) = n /\ D[p] = Table(t)
      /\ \A k \in 1..n : k = p \/ D[k] \in {<<"save">>, <<"restore">>}
  <2>1. Table(t) \in Dumped /\ <<"save">> \in Dumped /\ <<"restore">> \in Dumped
    BY DEF Dumped, Tabled, Table
  <2>2. CASE driver = "pdo"  BY <2>1, <2>2 DEF Definition
  <2>3. CASE driver # "pdo"  BY <2>1, <2>3 DEF Definition
  <2> QED  BY <2>2, <2>3
<1>5. p \in 1..2 /\ n \in {1, 3} /\ p <= n  OBVIOUS
<1> HIDE DEF D, p, n
<1>6. /\ d \in Seq(Dumped) /\ Len(d) = n + Len(rows) /\ Len(rows) \in Nat
      /\ \A k \in 1..n : d[k] = D[k]
      /\ \A k \in 1..Len(rows) : d[n + k] = rows[k]
  BY <1>3, <1>4, <1>5, ConcatProperties
<1> HIDE DEF d
<1>7. \A k \in 1..Len(d) : k > n => d[k] \in R
  <2> SUFFICES ASSUME NEW k \in 1..Len(d), k > n PROVE d[k] \in R  OBVIOUS
  <2>1. k - n \in 1..Len(rows) /\ n + (k - n) = k  BY <1>5, <1>6
  <2>2. d[k] = rows[k - n]  BY <1>6, <2>1
  <2> QED  BY <1>2, <2>1, <2>2
<1>8. Table(t)[1] = "create" /\ Table(t)[2] = t /\ ~IsRow(Table(t))  BY DEF Table, IsRow
<1>9. \A x \in {<<"save">>, <<"restore">>} : x[1] \notin {"create", "row"} /\ ~IsRow(x)
  BY DEF IsRow
<1>10. \A k \in 1..n : d[k] = Table(t) \/ d[k] \in {<<"save">>, <<"restore">>}
  BY <1>4, <1>5, <1>6
<1>11. p \in 1..Len(d) /\ d[p] = Table(t)  BY <1>4, <1>5, <1>6
<1>12. RowsLast(d)
  <2> SUFFICES ASSUME NEW k \in 1..Len(d), IsRow(d[k]), NEW l \in k..Len(d)
               PROVE  IsRow(d[l]) /\ d[l][2] = d[k][2]
    BY <1>6 DEF RowsLast
  <2>1. k > n  BY <1>5, <1>8, <1>9, <1>10
  <2>2. l \in 1..Len(d) /\ l > n  BY <1>5, <2>1
  <2> QED  BY <1>1, <1>7, <2>1, <2>2
<1>13. ASSUME NEW x \in {Table(t)} \cup R PROVE x \in Content(d)
  <2>1. CASE x = Table(t)  BY <1>6, <1>8, <1>11, <2>1, InContent
  <2>2. CASE x \in R
    <3>1. PICK k \in 1..Len(rows) : rows[k] = x  BY <1>2, <2>2
    <3>2. n + k \in 1..Len(d) /\ d[n + k] = x  BY <1>5, <1>6, <3>1
    <3> QED  BY <1>1, <1>6, <2>2, <3>2, InContent
  <2> QED  BY <1>13, <2>1, <2>2
<1>14. ASSUME NEW k \in 1..Len(d)
       PROVE  /\ d[k][1] = "create" => k = p
              /\ d[k][1] = "row" => k > p
              /\ d[k][1] \in {"create", "row"} => d[k][2] = t
  <2>1. CASE k > n  BY <1>1, <1>5, <1>7, <2>1
  <2>2. CASE k = p  BY <1>8, <1>11, <2>2
  <2>3. CASE k <= n /\ k # p
    <3>1. d[k] \in {<<"save">>, <<"restore">>}  BY <1>4, <1>6, <1>5, <2>3
    <3> QED  BY <1>9, <3>1
  <2> QED  BY <1>5, <2>1, <2>2, <2>3
<1>15. \A x \in Content(d) : x[2] = t  BY <1>6, <1>14, InContent
<1>16. Queue(t, R, d)  BY <1>5, <1>6, <1>11, <1>12, <1>13, <1>14, <1>15 DEF Queue
<1> QED  BY <1>16 DEF d, D

(* The file stays in order when the next table is queued. *)
LEMMA QueueInOrder ==
    ASSUME NEW g \in Seq(Dumped), DefinesFirst(g), NEW t \in Tables,
           \A x \in Content(g) : x[2] < t,
           NEW R, NEW d, Queue(t, R, d)
    PROVE  /\ DefinesFirst(g \o d)
           /\ \A x \in Content(g \o d) : x[2] <= t
<1> DEFINE m == Len(g)
           e == g \o d
<1>1. d \in Seq(Dumped)  BY DEF Queue
<1>2. /\ e \in Seq(Dumped) /\ Len(e) = m + Len(d) /\ m \in Nat /\ Len(d) \in Nat
      /\ \A k \in 1..m : e[k] = g[k]
      /\ \A k \in 1..Len(d) : e[m + k] = d[k]
  BY <1>1, ConcatProperties
<1>3. PICK p \in 1..2 : /\ p <= Len(d) /\ d[p] = Table(t)
                        /\ \A k \in 1..Len(d) : d[k][1] = "create" => k = p
                        /\ \A k \in 1..Len(d) : d[k][1] = "row" => k > p
  BY DEF Queue
<1>4. \A k \in 1..Len(d) : d[k][1] \in {"create", "row"} => d[k][2] = t
  BY <1>1, InContent DEF Queue
<1>5. \A k \in 1..m : g[k][1] \in {"create", "row"} => g[k][2] < t
  BY InContent
<1>6. t \in Int  BY SizeAssumption DEF Tables
<1>7. DOMAIN g = 1..m /\ DOMAIN e = 1..Len(e)  BY <1>2
<1> HIDE DEF m, e
<1>8. ASSUME NEW k \in 1..Len(e)
      PROVE  \/ k \in 1..m /\ e[k] = g[k]
             \/ k - m \in 1..Len(d) /\ e[k] = d[k - m]
  <2>1. CASE k <= m  BY <1>2, <2>1
  <2>2. CASE k > m
    <3>1. k - m \in 1..Len(d) /\ m + (k - m) = k  BY <1>2, <2>2
    <3> QED  BY <1>2, <3>1
  <2> QED  BY <1>2, <2>1, <2>2
<1>9. ASSUME NEW k \in 1..Len(e), NEW l \in 1..Len(e), e[k][1] = "create", e[l] = e[k]
      PROVE  k = l
  <2>1. CASE k \in 1..m /\ e[k] = g[k] /\ l \in 1..m /\ e[l] = g[l]
    BY <1>7, <1>9, <2>1 DEF DefinesFirst
  <2>2. CASE k \in 1..m /\ e[k] = g[k] /\ l - m \in 1..Len(d) /\ e[l] = d[l - m]
    <3>1. e[k][2] < t /\ e[l][2] = t  BY <1>4, <1>5, <1>9, <2>2
    <3> QED  BY <1>6, <1>9, <3>1
  <2>3. CASE l \in 1..m /\ e[l] = g[l] /\ k - m \in 1..Len(d) /\ e[k] = d[k - m]
    <3>1. e[l][2] < t /\ e[k][2] = t  BY <1>4, <1>5, <1>9, <2>3
    <3> QED  BY <1>6, <1>9, <3>1
  <2>4. CASE /\ k - m \in 1..Len(d) /\ e[k] = d[k - m]
             /\ l - m \in 1..Len(d) /\ e[l] = d[l - m]
    <3>1. d[k - m][1] = "create" /\ d[l - m][1] = "create"  BY <1>9, <2>4
    <3>2. k - m = p /\ l - m = p  BY <1>3, <2>4, <3>1
    <3> QED  BY <1>2, <3>2
  <2> QED  BY <1>8, <2>1, <2>2, <2>3, <2>4
<1>10. ASSUME NEW k \in 1..Len(e), e[k][1] = "row"
       PROVE  \E l \in 1..(k - 1) : e[l] = Table(e[k][2])
  <2>1. CASE k \in 1..m /\ e[k] = g[k]
    <3>1. PICK l \in 1..(k - 1) : g[l] = Table(g[k][2])
      BY <1>7, <1>10, <2>1 DEF DefinesFirst
    <3>2. l \in 1..m  BY <1>2, <2>1
    <3> QED  BY <1>2, <2>1, <3>1, <3>2
  <2>2. CASE k - m \in 1..Len(d) /\ e[k] = d[k - m]
    <3>1. e[k][2] = t /\ k - m > p  BY <1>3, <1>4, <1>10, <2>2
    <3>2. p \in 1..Len(d) /\ m + p \in 1..(k - 1)  BY <1>2, <1>3, <3>1
    <3>3. e[m + p] = Table(t)  BY <1>2, <1>3, <3>2
    <3> QED  BY <3>1, <3>2, <3>3
  <2> QED  BY <1>8, <2>1, <2>2
<1>11. ASSUME NEW x \in Content(e) PROVE x[2] <= t
  <2>1. PICK k \in 1..Len(e) : e[k] = x /\ x[1] \in {"create", "row"}
    BY <1>2, InContent
  <2>2. CASE k \in 1..m /\ e[k] = g[k]
    <3>1. x[2] \in Tables
      <4>1. x \in Dumped  BY <1>2, <2>1
      <4> QED  BY <2>1, <4>1, DumpedShape
    <3>2. x[2] < t  BY <1>5, <2>1, <2>2
    <3> QED  BY <1>6, <3>1, <3>2, SizeAssumption DEF Tables
  <2>3. CASE k - m \in 1..Len(d) /\ e[k] = d[k - m]
    <3>1. x[2] = t  BY <1>4, <2>1, <2>3
    <3> QED  BY <1>6, <3>1
  <2> QED  BY <1>8, <2>2, <2>3
<1>12. DefinesFirst(e)  BY <1>7, <1>9, <1>10 DEF DefinesFirst
<1> QED  BY <1>11, <1>12 DEF e

LEMMA WorkOnly ==
    ASSUME Inv, NEW i \in Calls, NEW w \in WorkStates, Serve(i, w),
           UNCHANGED <<db, call, file>>,
           SidesOK(call[i], w, file[i]), BackupOK(call[i], w, file[i]),
           RestoreOK(call[i], w, db[call[i].target])
    PROVE  Inv'
<1>1. /\ call[i] \in CallStates /\ file[i] \in Files
      /\ Step(i, call[i]) /\ Puts(i, file[i]) /\ UNCHANGED db
  BY NothingChanges DEF Inv, Type
<1> QED  BY <1>1, SidesChange

LEMMA ExportingFacts ==
    ASSUME Inv, NEW i \in Calls, work[i].at \in {"connect", "export"}
    PROVE  /\ call[i] \in CallStates /\ work[i] \in WorkStates /\ file[i] \in Files
           /\ SidesOK(call[i], work[i], file[i]) /\ BackupOK(call[i], work[i], file[i])
           /\ call[i].kind = "backup" /\ file[i].tail = "open" /\ call[i].result # "ok"
           /\ work[i].reply = "none" \/ call[i].kind = "backup"
           /\ work[i].todo \in Seq(Dumped) /\ work[i].left \in Seq(Tables)
           /\ work[i].view \in SUBSET Facts /\ file[i].got \in Seq(Dumped)
<1>1. /\ call[i] \in CallStates /\ work[i] \in WorkStates /\ file[i] \in Files
      /\ SidesOK(call[i], work[i], file[i]) /\ BackupOK(call[i], work[i], file[i])
  BY DEF Inv, Type, Local
<1>2. call[i].kind = "backup"  BY <1>1 DEF SidesOK
<1>3. file[i].tail = "open"  BY <1>1, <1>2 DEF BackupOK
<1>4. call[i].result # "ok"  BY <1>1, <1>2, <1>3 DEF BackupOK
<1>5. work[i].todo \in Seq(Dumped)  BY <1>1 DEF SidesOK
<1>6. /\ work[i].left \in Seq(Tables) /\ work[i].view \in SUBSET Facts
      /\ file[i].got \in Seq(Dumped)
  BY <1>1 DEF WorkStates, Files
<1> QED  BY <1>1, <1>2, <1>3, <1>4, <1>5, <1>6

LEMMA ConnectInv == ASSUME Inv, NEW i \in Calls, Connect(i) PROVE Inv'
<1> DEFINE X == IF driver = "pdo" THEN db["wp"] ELSE {}
           q == <<Settings>>
           w == [work[i] EXCEPT !.at = "export", !.todo = q, !.snapshot = X]
<1>1. work[i].at = "connect" /\ Serve(i, w) /\ UNCHANGED <<db, call, file>>
  BY DEF Connect, Serving
<1>2. X \in SUBSET Facts /\ Rooted(X) /\ IsFiniteSet(X)
  BY FS_EmptySet DEF Inv, Type, Databases, Rooted
<1> HIDE DEF X
<1>3. /\ SidesOK(call[i], work[i], file[i]) /\ BackupOK(call[i], work[i], file[i])
      /\ call[i].kind = "backup" /\ file[i].tail = "open" /\ work[i] \in WorkStates
      /\ file[i].got = <<>> /\ work[i].view = {}
  BY <1>1, ExportingFacts DEF BackupOK
<1>4. /\ q \in Seq(Dumped) /\ <<>> \o q = q /\ RowsLast(q) /\ DefinesFirst(q)
      /\ Content(q) = {}
  <2>1. /\ Settings \in Dumped /\ Settings[1] = "set" /\ ~IsRow(Settings)
    BY DEF Settings, Dumped, IsRow
  <2>2. q \in Seq(Dumped) /\ DOMAIN q = {1} /\ q[1] = Settings  BY <2>1
  <2> HIDE DEF q
  <2>3. RowsLast(q)  BY <2>1, <2>2 DEF RowsLast
  <2>4. DefinesFirst(q)  BY <2>1, <2>2 DEF DefinesFirst
  <2>5. Content(q) = {}  BY <2>1, <2>2 DEF Content
  <2> QED  BY <2>2, <2>3, <2>4, <2>5
<1> HIDE DEF q
<1>5. /\ w \in WorkStates /\ w.at = "export" /\ w.snapshot = X /\ w.left = work[i].left
      /\ w.todo = q /\ w.view = {} /\ w.cut = work[i].cut /\ w.reply = work[i].reply
  BY <1>2, <1>3, <1>4 DEF WorkStates
<1> HIDE DEF w
<1>6. SidesOK(call[i], w, file[i])  BY <1>1, <1>3, <1>4, <1>5 DEF SidesOK
<1>7. BackupOK(call[i], w, file[i])
  <2>1. ASSUME call[i].at = "copy", ~call[i].broken PROVE Kept(w, file[i]) /\ Ordered(w, file[i])
    <3>1. Ordered(work[i], file[i])  BY <1>1, <1>3, <2>1 DEF BackupOK
    <3>2. Ordered(w, file[i])  BY <1>3, <1>4, <1>5, <3>1 DEF Ordered
    <3>3. Kept(w, file[i])  BY <1>5 DEF Kept
    <3> QED  BY <3>2, <3>3
  <2> QED  BY <1>1, <1>2, <1>3, <1>5, <2>1 DEF BackupOK
<1>8. RestoreOK(call[i], w, db[call[i].target])  BY <1>3 DEF RestoreOK
<1> QED  BY <1>1, <1>5, <1>6, <1>7, <1>8, WorkOnly

(* The request is over, and nobody gets an answer. *)
LEMMA GoneInv ==
    ASSUME Inv, NEW i \in Calls, work[i].at \in {"connect", "export"},
           Serve(i, [NoWork EXCEPT !.at = "gone"]), UNCHANGED <<db, call>>,
           NEW f \in Files, Puts(i, f),
           f = file[i] \/ (Listening(i) /\ f = [file[i] EXCEPT !.tail = "json"])
                       \/ (Listening(i) /\ f = [file[i] EXCEPT !.tail = "cut"])
    PROVE  Inv'
<1> DEFINE w == [NoWork EXCEPT !.at = "gone"]
<1>1. w \in WorkStates /\ w.at = "gone" /\ w.reply = "none"
  BY Beginnings DEF WorkStates, NoWork
<1> HIDE DEF w
<1>2. /\ SidesOK(call[i], work[i], file[i]) /\ BackupOK(call[i], work[i], file[i])
      /\ call[i].kind = "backup" /\ file[i].tail = "open" /\ call[i].result # "ok"
      /\ call[i] \in CallStates /\ file[i] \in Files
  BY ExportingFacts
<1>3. /\ f.tail # "trailer" /\ f.got = file[i].got /\ f.there = file[i].there
      /\ f.stuck = file[i].stuck
      /\ f = file[i] \/ call[i].at = "copy"
  <2>1. Listening(i) => call[i].at = "copy"  BY <1>2 DEF Listening, SidesOK
  <2> QED  BY <1>2, <2>1 DEF Files
<1>4. SidesOK(call[i], w, f)  BY <1>1, <1>2, <1>3 DEF SidesOK
<1>5. BackupOK(call[i], w, f)
  BY <1>1, <1>2, <1>3 DEF BackupOK, SidesOK
<1>6. RestoreOK(call[i], w, db[call[i].target])  BY <1>2 DEF RestoreOK
<1>7. Step(i, call[i]) /\ Serve(i, w)  BY NothingChanges DEF w, Inv
<1> QED  BY <1>1, <1>2, <1>4, <1>5, <1>6, <1>7, SidesChange

LEMMA ExportFailsInv == ASSUME Inv, NEW i \in Calls, ExportFails(i) PROVE Inv'
<1>1. PICK tail \in {"json", "cut"} : EndsWith(i, tail)  BY DEF ExportFails
<1>2. work[i].at \in {"connect", "export"} /\ UNCHANGED <<db, call>>  BY DEF ExportFails
<1>3. Serve(i, [NoWork EXCEPT !.at = "gone"])  BY <1>1 DEF EndsWith
<1>4. file[i] \in Files  BY <1>2, ExportingFacts
<1>5. CASE Listening(i)
  <2> DEFINE f == [file[i] EXCEPT !.tail = tail]
  <2>1. f \in Files  BY <1>4 DEF Files
  <2>2. Puts(i, f)  BY <1>1, <1>5 DEF EndsWith, Puts, Inv, Type
  <2> QED  BY <1>2, <1>3, <1>5, <2>1, <2>2, GoneInv
<1>6. CASE ~Listening(i)
  <2>1. UNCHANGED file  BY <1>1, <1>6 DEF EndsWith
  <2> QED  BY <1>2, <1>3, <1>4, <2>1, GoneInv, NothingChanges DEF Inv
<1> QED  BY <1>5, <1>6

LEMMA ExportEndsInv == ASSUME Inv, NEW i \in Calls, ExportEnds(i) PROVE Inv'
<1>1. /\ work[i].at = "export" /\ work[i].todo = <<>> /\ work[i].left = <<>>
      /\ EndsWith(i, "trailer") /\ UNCHANGED <<db, call>>
  BY DEF ExportEnds, Serving
<1>2. /\ SidesOK(call[i], work[i], file[i]) /\ BackupOK(call[i], work[i], file[i])
      /\ call[i].kind = "backup" /\ file[i].tail = "open" /\ call[i].result # "ok"
      /\ call[i] \in CallStates /\ file[i] \in Files /\ work[i] \in WorkStates
      /\ work[i].left \in Seq(Tables)
  BY <1>1, ExportingFacts
<1>3. CASE Listening(i)
  <2> DEFINE f == [file[i] EXCEPT !.tail = "trailer"]
             w == [work[i] EXCEPT !.at = "gone"]
  <2>1. Serve(i, w) /\ Puts(i, f)  BY <1>1, <1>3 DEF EndsWith, Puts, Inv, Type
  <2>2. /\ f \in Files /\ f.tail = "trailer" /\ f.got = file[i].got
        /\ f.there = file[i].there /\ f.stuck = file[i].stuck
    BY <1>2 DEF Files
  <2>3. /\ w \in WorkStates /\ w.at = "gone" /\ w.left = <<>> /\ w.view = work[i].view
        /\ w.cut = work[i].cut /\ w.reply = work[i].reply
    BY <1>1, <1>2 DEF WorkStates
  <2> HIDE DEF f, w
  <2>4. call[i].at = "copy" /\ ~call[i].broken  BY <1>2, <1>3 DEF Listening, SidesOK
  <2>5. w.view \ RowsCut(w) \subseteq Content(f.got)
    <3>1. Kept(work[i], file[i])  BY <1>1, <1>2, <2>4 DEF BackupOK
    <3>2. Content(<<>>) = {}  BY DEF Content
    <3> QED  BY <1>1, <2>2, <2>3, <3>1, <3>2 DEF Kept, RowsCut
  <2>6. SidesOK(call[i], w, f)  BY <1>2, <2>3, <2>4 DEF SidesOK
  <2>7. BackupOK(call[i], w, f)
    BY <1>2, <2>2, <2>3, <2>4, <2>5 DEF BackupOK, SidesOK
  <2>8. RestoreOK(call[i], w, db[call[i].target])  BY <1>2 DEF RestoreOK
  <2>9. Step(i, call[i])  BY <1>1, NothingChanges DEF Inv
  <2> QED  BY <1>1, <1>2, <2>1, <2>2, <2>3, <2>6, <2>7, <2>8, <2>9, SidesChange
<1>4. CASE ~Listening(i)
  <2>1. UNCHANGED file /\ Serve(i, [NoWork EXCEPT !.at = "gone"])
    BY <1>1, <1>4 DEF EndsWith
  <2>2. Puts(i, file[i])  BY <2>1, NothingChanges DEF Inv
  <2> QED  BY <1>1, <1>2, <2>1, <2>2, GoneInv
<1> QED  BY <1>3, <1>4

LEMMA EmitInv == ASSUME Inv, NEW i \in Calls, Emit(i) PROVE Inv'
<1> DEFINE g == file[i].got
           d == work[i].todo
<1>1. work[i].at = "export" /\ d # <<>> /\ UNCHANGED <<db, call>>
  BY DEF Emit, Serving
<1>2. /\ SidesOK(call[i], work[i], file[i]) /\ BackupOK(call[i], work[i], file[i])
      /\ call[i].kind = "backup" /\ file[i].tail = "open" /\ call[i].result # "ok"
      /\ call[i] \in CallStates /\ file[i] \in Files /\ work[i] \in WorkStates
      /\ work[i].left \in Seq(Tables) /\ g \in Seq(Dumped) /\ d \in Seq(Dumped)
  BY <1>1, ExportingFacts
<1>3. CASE Listening(i)
  <2> DEFINE f == [file[i] EXCEPT !.got = Append(g, Head(d))]
             w == [work[i] EXCEPT !.todo = Tail(d)]
  <2>1. Serve(i, w) /\ Puts(i, f)  BY <1>1, <1>3 DEF Emit, Puts, Serve, Inv, Type
  <2>2. /\ Tail(d) \in Seq(Dumped) /\ Append(g, Head(d)) \in Seq(Dumped)
        /\ Append(g, Head(d)) \o Tail(d) = g \o d
        /\ Content(g) \cup Content(d) \subseteq Content(Append(g, Head(d))) \cup Content(Tail(d))
        /\ RowsLast(d) => RowsLast(Tail(d))
    BY <1>1, <1>2, MoveOne
  <2>3. /\ f \in Files /\ f.tail = "open" /\ f.got = Append(g, Head(d))
        /\ f.there = file[i].there /\ f.stuck = file[i].stuck
    BY <1>2, <2>2 DEF Files
  <2>4. /\ w \in WorkStates /\ w.at = "export" /\ w.left = work[i].left /\ w.view = work[i].view
        /\ w.cut = work[i].cut /\ w.reply = work[i].reply /\ w.todo = Tail(d)
        /\ w.snapshot = work[i].snapshot
    BY <1>1, <1>2, <2>2 DEF WorkStates
  <2> HIDE DEF f, w
  <2>5. call[i].at = "copy" /\ ~call[i].broken  BY <1>2, <1>3 DEF Listening, SidesOK
  <2>6. Kept(work[i], file[i]) /\ Ordered(work[i], file[i])
    BY <1>1, <1>2, <2>5 DEF BackupOK
  <2>7. Kept(w, f)
    BY <2>2, <2>3, <2>4, <2>6 DEF Kept, RowsCut
  <2>8. Ordered(w, f)  BY <2>2, <2>3, <2>4, <2>6 DEF Ordered
  <2>9. DefinesFirst(f.got)
    <3>1. DefinesFirst(g \o d)  BY <2>6 DEF Ordered
    <3>2. DefinesFirst(f.got \o Tail(d))  BY <2>2, <2>3, <3>1
    <3> QED  BY <2>2, <2>3, <3>2, PrefixDefinesFirst
  <2>10. SidesOK(call[i], w, f)
    BY <1>2, <2>2, <2>4, <2>5 DEF SidesOK
  <2>11. BackupOK(call[i], w, f)
    <3>1. /\ call[i].result = "none" /\ file[i].there /\ ~file[i].stuck
          /\ Rooted(work[i].snapshot) /\ IsFiniteSet(work[i].snapshot)
      BY <1>1, <1>2, <2>5 DEF BackupOK, SidesOK
    <3> QED  BY <2>3, <2>4, <2>7, <2>8, <2>9, <3>1 DEF BackupOK
  <2>12. RestoreOK(call[i], w, db[call[i].target])  BY <1>2 DEF RestoreOK
  <2>13. Step(i, call[i])  BY <1>1, NothingChanges DEF Inv
  <2> QED
    BY <1>1, <1>2, <2>1, <2>3, <2>4, <2>10, <2>11, <2>12, <2>13, SidesChange
<1>4. CASE ~Listening(i)
  <2>1. UNCHANGED file /\ Serve(i, [NoWork EXCEPT !.at = "gone"])
    BY <1>4 DEF Emit
  <2>2. Puts(i, file[i])  BY <2>1, NothingChanges DEF Inv
  <2> QED  BY <1>1, <1>2, <2>1, <2>2, GoneInv
<1> QED  BY <1>3, <1>4

(* The queue is given up at a row: the rows behind it are of the same table. *)
LEMMA RowsEndEarlyInv == ASSUME Inv, NEW i \in Calls, RowsEndEarly(i) PROVE Inv'
<1> DEFINE g == file[i].got
           d == work[i].todo
           t == Head(d)[2]
           w == [work[i] EXCEPT !.todo = <<>>, !.cut = @ \cup {t}]
<1>1. /\ work[i].at = "export" /\ d # <<>> /\ IsRow(Head(d)) /\ Serve(i, w)
      /\ UNCHANGED <<db, call, file>>
  BY DEF RowsEndEarly, Serving
<1>2. /\ SidesOK(call[i], work[i], file[i]) /\ BackupOK(call[i], work[i], file[i])
      /\ call[i].kind = "backup" /\ file[i].tail = "open" /\ call[i].result # "ok"
      /\ work[i] \in WorkStates /\ g \in Seq(Dumped) /\ d \in Seq(Dumped)
  BY <1>1, ExportingFacts
<1>3. Head(d) = d[1] /\ 1 \in 1..Len(d) /\ d[1] \in Dumped  BY <1>1, <1>2
<1>4. t \in Tables  BY <1>1, <1>3, DumpedShape
<1>5. /\ w \in WorkStates /\ w.at = "export" /\ w.left = work[i].left /\ w.view = work[i].view
      /\ w.cut = work[i].cut \cup {t} /\ w.reply = work[i].reply /\ w.todo = <<>>
      /\ w.snapshot = work[i].snapshot
  <2>1. <<>> \in Seq(Dumped)  OBVIOUS
  <2> HIDE DEF t
  <2> QED  BY <1>1, <1>2, <1>4, <2>1 DEF WorkStates
<1> HIDE DEF w
<1>6. ASSUME call[i].at = "copy", ~call[i].broken PROVE Kept(w, file[i]) /\ Ordered(w, file[i])
  <2>1. Kept(work[i], file[i]) /\ Ordered(work[i], file[i])
    BY <1>1, <1>2, <1>6 DEF BackupOK
  <2>2. ASSUME NEW x \in w.view \ RowsCut(w) PROVE x \in Content(g)
    <3>1. x \in Content(g) \cup Content(d)
      BY <1>5, <2>1, <2>2 DEF Kept, RowsCut
    <3>2. CASE x \in Content(d)
      <4>1. PICK k \in 1..Len(d) : d[k] = x  BY <1>2, <3>2, InContent
      <4>2. k \in 1..Len(d) /\ 1 \in DOMAIN d /\ RowsLast(d)  BY <1>2, <1>3, <2>1 DEF Ordered
      <4>3. IsRow(x) /\ x[2] = t  BY <1>1, <1>3, <4>1, <4>2 DEF RowsLast
      <4>4. x \in RowsCut(w)  BY <1>5, <2>2, <4>3 DEF RowsCut
      <4> QED  BY <2>2, <4>4
    <3> QED  BY <3>1, <3>2
  <2>3. Kept(w, file[i])  BY <2>2 DEF Kept
  <2>4. g \o <<>> = g  BY <1>2
  <2>5. DefinesFirst(g)  BY <1>2 DEF BackupOK
  <2>6. Content(g) \subseteq Content(g \o d)  BY <1>2, PrefixContent
  <2>7. RowsLast(<<>>)  BY DEF RowsLast
  <2>8. Ordered(w, file[i])  BY <1>5, <2>1, <2>4, <2>5, <2>6, <2>7 DEF Ordered
  <2> QED  BY <2>3, <2>8
<1>7. SidesOK(call[i], w, file[i])
  <2>1. <<>> \in Seq(Dumped)  OBVIOUS
  <2> QED  BY <1>1, <1>2, <1>5, <2>1 DEF SidesOK
<1>8. BackupOK(call[i], w, file[i])
  BY <1>1, <1>2, <1>5, <1>6 DEF BackupOK
<1>9. RestoreOK(call[i], w, db[call[i].target])  BY <1>2 DEF RestoreOK
<1> QED  BY <1>1, <1>5, <1>7, <1>8, <1>9, WorkOnly

(* The tables that are left are the last ones, also without the first of them. *)
LastTables(l) == \A k \in 1..Len(l) : l[k] = NumTables - Len(l) + k

LEMMA LastTablesFacts ==
    ASSUME NEW l \in Seq(Tables), l # <<>>, LastTables(l)
    PROVE  /\ Head(l) = NumTables - Len(Tail(l))
           /\ Head(l) = NumTables - Len(l) + 1
           /\ LastTables(Tail(l))
<1>1. /\ Len(l) \in Nat /\ Len(l) >= 1 /\ NumTables \in Nat /\ Len(Tail(l)) = Len(l) - 1
      /\ Head(l) = l[1] /\ \A k \in 1..(Len(l) - 1) : Tail(l)[k] = l[k + 1]
  BY SizeAssumption
<1> DEFINE n == Len(l)
           r == Tail(l)
<1>2. l[1] = NumTables - n + 1  BY <1>1 DEF LastTables
<1>3. Head(l) = NumTables - Len(r)  BY <1>1, <1>2
<1>4. ASSUME NEW k \in 1..Len(r) PROVE r[k] = NumTables - Len(r) + k
  <2>1. k + 1 \in 1..n /\ r[k] = l[k + 1]  BY <1>1
  <2>2. l[k + 1] = NumTables - n + (k + 1)  BY <2>1 DEF LastTables
  <2> HIDE DEF r, n
  <2>3. n \in Nat /\ Len(r) = n - 1 /\ k \in Int /\ NumTables \in Int
    BY <1>1 DEF r, n
  <2>4. NumTables - n + (k + 1) = NumTables - (n - 1) + k  BY <2>3
  <2> QED  BY <2>1, <2>2, <2>3, <2>4
<1>5. LastTables(r)  BY <1>4 DEF LastTables
<1> QED  BY <1>1, <1>2, <1>3, <1>5

LEMMA ReadTableInv == ASSUME Inv, NEW i \in Calls, ReadTable(i) PROVE Inv'
<1> DEFINE g == file[i].got
           l == work[i].left
           t == Head(l)
           X == IF driver = "pdo" THEN work[i].snapshot ELSE db["wp"]
           seen == About(X, t)
           R == {f \in seen : IsRow(f)}
<1>1. /\ work[i].at = "export" /\ work[i].todo = <<>> /\ l # <<>>
      /\ UNCHANGED <<db, call, file>>
  BY DEF ReadTable, Serving
<1>2. PICK rows \in SetToSeqs(R) :
         Serve(i, [work[i] EXCEPT
                      !.left = Tail(l),
                      !.todo = IF Table(t) \in seen THEN Definition(t) \o rows ELSE <<>>,
                      !.view = @ \cup seen])
  BY DEF ReadTable, RowsOf
<1>3. /\ SidesOK(call[i], work[i], file[i]) /\ BackupOK(call[i], work[i], file[i])
      /\ call[i].kind = "backup" /\ file[i].tail = "open" /\ call[i].result # "ok"
      /\ work[i] \in WorkStates /\ g \in Seq(Dumped) /\ l \in Seq(Tables)
      /\ work[i].view \in SUBSET Facts
  BY <1>1, ExportingFacts
<1>4. X \in SUBSET Facts /\ Rooted(X) /\ IsFiniteSet(X)
  BY <1>1, <1>3 DEF Inv, Type, Databases, BackupOK, WorkStates
<1>5. /\ t \in Tables /\ Tail(l) \in Seq(Tables) /\ Len(Tail(l)) = Len(l) - 1 /\ Len(l) >= 1
      /\ t = l[1] /\ \A k \in 1..(Len(l) - 1) : Tail(l)[k] = l[k + 1]
  BY <1>1, <1>3
<1> HIDE DEF X, t
<1>6. /\ seen \in SUBSET Facts /\ IsFiniteSet(R)
      /\ R \in SUBSET ({"row"} \X {t} \X Int \X Batches)
      /\ seen \subseteq {Table(t)} \cup R
      /\ Table(t) \notin seen => seen = {}
  <2>1. \A f \in X : IsAbout(f, t) => f \in {"create"} \X Tables \/ f \in {"row"} \X Tables \X Int \X Batches
    BY <1>4 DEF Facts, Tabled, IsAbout, Exists
  <2>2. R \in SUBSET X  BY DEF About
  <2>3. IsFiniteSet(R)  BY <1>4, <2>2, FS_Subset
  <2>4. ASSUME NEW f \in seen PROVE \/ f = Table(t)
                                     \/ (f \in R /\ f \in {"row"} \X {t} \X Int \X Batches)
    <3>1. f \in X /\ IsAbout(f, t)  BY DEF About
    <3>2. CASE f \in {"create"} \X Tables  BY <3>1, <3>2 DEF IsAbout, Table
    <3>3. CASE f \in {"row"} \X Tables \X Int \X Batches  BY <3>1, <3>3 DEF IsAbout, IsRow
    <3> QED  BY <2>1, <3>1, <3>2, <3>3
  <2>5. ~IsRow(Table(t))  BY DEF Table, IsRow
  <2>6. ASSUME NEW f \in R PROVE Table(t) \in seen
    <3>1. f \in X /\ f[2] = t /\ IsRow(f)  BY DEF About, IsAbout
    <3>2. Table(t) \in X  BY <1>4, <3>1 DEF Rooted
    <3> QED  BY <3>2 DEF About, IsAbout, Table
  <2>7. seen \in SUBSET Facts  BY <1>4 DEF About
  <2>8. R \in SUBSET ({"row"} \X {t} \X Int \X Batches)
    <3> SUFFICES ASSUME NEW f \in R PROVE f \in {"row"} \X {t} \X Int \X Batches
      OBVIOUS
    <3>1. f \in seen /\ IsRow(f)  OBVIOUS
    <3> HIDE DEF seen, R
    <3> QED  BY <2>4, <2>5, <3>1
  <2>9. Table(t) \notin seen => seen = {}
    <3> HIDE DEF seen, R
    <3> QED  BY <2>4, <2>6
  <2> HIDE DEF seen, R
  <2> QED  BY <2>3, <2>4, <2>7, <2>8, <2>9
<1> HIDE DEF seen, R
<1> DEFINE d == IF Table(t) \in seen THEN Definition(t) \o rows ELSE <<>>
           w == [work[i] EXCEPT !.left = Tail(l), !.todo = d, !.view = @ \cup seen]
<1>7. Table(t) \in seen => Queue(t, R, d)
  BY <1>5, <1>6, QueueFacts
<1>8. Table(t) \notin seen => d = <<>>  OBVIOUS
<1>9. Serve(i, w)  BY <1>2
<1> HIDE DEF d
<1>10. d \in Seq(Dumped)
  <2>1. <<>> \in Seq(Dumped)  OBVIOUS
  <2> QED  BY <1>7, <1>8, <2>1 DEF Queue
<1>11. /\ w \in WorkStates /\ w.at = "export" /\ w.left = Tail(l)
       /\ w.view = work[i].view \cup seen /\ w.cut = work[i].cut /\ w.reply = work[i].reply
       /\ w.todo = d /\ w.snapshot = work[i].snapshot
  BY <1>1, <1>3, <1>5, <1>6, <1>10 DEF WorkStates
<1> HIDE DEF w
<1>12. ASSUME call[i].at = "copy", ~call[i].broken PROVE Kept(w, file[i]) /\ Ordered(w, file[i])
  <2>1. Kept(work[i], file[i]) /\ Ordered(work[i], file[i])
    BY <1>1, <1>3, <1>12 DEF BackupOK
  <2>2. g \o <<>> = g /\ Content(<<>>) = {}  BY <1>3 DEF Content
  <2>3. Kept(w, file[i])
    <3>1. seen \subseteq Content(d)  BY <1>6, <1>7 DEF Queue
    <3>2. work[i].view \ RowsCut(work[i]) \subseteq Content(g)
      BY <1>1, <2>1, <2>2 DEF Kept
    <3> QED  BY <1>11, <3>1, <3>2 DEF Kept, RowsCut
  <2>4. LastTables(l)  BY <2>1 DEF Ordered, LastTables
  <2>5. /\ t = NumTables - Len(w.left) /\ t = NumTables - Len(l) + 1
        /\ LastTables(w.left)
    BY <1>1, <1>3, <1>11, <2>4, LastTablesFacts DEF t
  <2>6. Len(l) \in Int /\ NumTables \in Int /\ t \in Int
    BY <1>3, <1>5, SizeAssumption DEF Tables
  <2>7. \A x \in Content(g) : x[2] \in Tables /\ x[2] < t
    <3> SUFFICES ASSUME NEW x \in Content(g) PROVE x[2] \in Tables /\ x[2] < t  OBVIOUS
    <3>1. x \in Dumped /\ x[1] \in {"create", "row"}  BY <1>3, InContent
    <3>2. x[2] \in Tables  BY <3>1, DumpedShape
    <3>3. x[2] <= NumTables - Len(l)  BY <1>1, <2>1, <2>2 DEF Ordered
    <3>4. x[2] \in Int  BY <3>2 DEF Tables
    <3>5. NumTables - Len(l) < t  BY <2>5, <2>6
    <3> QED  BY <2>6, <3>2, <3>3, <3>4, <3>5
  <2>8. DefinesFirst(g)  BY <1>3 DEF BackupOK
  <2>9. DefinesFirst(g \o d) /\ \A x \in Content(g \o d) : x[2] <= t
    <3>1. CASE Table(t) \in seen
      BY <1>3, <1>5, <1>7, <2>7, <2>8, <3>1, QueueInOrder
    <3>2. CASE Table(t) \notin seen
      BY <1>8, <2>2, <2>6, <2>7, <2>8, <3>2 DEF Tables
    <3> QED  BY <3>1, <3>2
  <2>10. RowsLast(d)
    <3>1. RowsLast(<<>>)  BY DEF RowsLast
    <3> QED  BY <1>7, <1>8, <3>1 DEF Queue
  <2>11. Ordered(w, file[i])  BY <1>11, <2>5, <2>9, <2>10 DEF Ordered, LastTables
  <2> QED  BY <2>3, <2>11
<1>13. SidesOK(call[i], w, file[i])
  BY <1>1, <1>3, <1>10, <1>11 DEF SidesOK
<1>14. BackupOK(call[i], w, file[i])
  BY <1>1, <1>3, <1>11, <1>12 DEF BackupOK
<1>15. RestoreOK(call[i], w, db[call[i].target])  BY <1>3 DEF RestoreOK
<1> QED  BY <1>1, <1>9, <1>11, <1>13, <1>14, <1>15, WorkOnly

----------------------------------------------------------------------------
(* The plugin executes statements. *)

Sound(new) == /\ new \in [Databases -> SUBSET Facts]
              /\ \A d \in Databases : IsFiniteSet(new[d]) /\ Rooted(new[d])

LEMMA ChangeSpares ==
    ASSUME Inv, NEW j \in Calls, NEW new, db' = new,
           work'[j] = [work[j] EXCEPT !.alone = @ /\ new[call[j].target] = db[call[j].target]],
           call'[j] = call[j], file'[j] = file[j]
    PROVE  Spared(j) /\ work'[j] \in WorkStates
<1>1. work[j] \in WorkStates  BY DEF Inv, Type
<1>2. CASE work[j].alone /\ new[call[j].target] = db[call[j].target]
  <2>1. work'[j] = work[j]  BY <1>1, <1>2 DEF WorkStates
  <2> QED  BY <1>1, <1>2, <2>1 DEF Spared
<1>3. CASE ~(work[j].alone /\ new[call[j].target] = db[call[j].target])
  <2>1. work'[j] = [work[j] EXCEPT !.alone = FALSE]  BY <1>1, <1>3 DEF WorkStates
  <2>2. work'[j] \in WorkStates /\ work'[j].alone = FALSE
    BY <1>1, <2>1 DEF WorkStates
  <2> QED  BY <2>1, <2>2 DEF Spared
<1> QED  BY <1>2, <1>3

LEMMA ChangeInv ==
    ASSUME Inv, NEW i \in Calls, NEW new, Sound(new), NEW w \in WorkStates,
           Change(new, i, w), UNCHANGED <<call, file>>,
           SidesOK(call[i], w, file[i]), BackupOK(call[i], w, file[i]),
           RestoreOK(call[i], w, new[call[i].target])
    PROVE  Inv'
<1>1. /\ db' = new /\ DOMAIN work' = Calls /\ work'[i] = w
      /\ \A j \in Calls \ {i} :
            work'[j] = [work[j] EXCEPT !.alone = @ /\ new[call[j].target] = db[call[j].target]]
      /\ work' = [j \in Calls |-> work'[j]]
  BY DEF Change
<1>2. \A j \in Calls \ {i} : Spared(j) /\ work'[j] \in WorkStates
  BY <1>1, ChangeSpares
<1>3. Elsewhere(i)  BY <1>2 DEF Elsewhere
<1>4. work' \in [Calls -> WorkStates]  BY <1>1, <1>2
<1>5. Type'  BY <1>1, <1>4 DEF Sound, Inv, Type
<1>6. Local(i)'  BY <1>1, NextLocal
<1> QED  BY <1>3, <1>5, <1>6, StepInv

LEMMA ExistsFacts ==
    /\ Exists \in Facts /\ Exists[1] = "db" /\ ~IsRow(Exists)
    /\ \A t : ~IsAbout(Exists, t)
    /\ IsFiniteSet({Exists}) /\ Rooted({Exists})
<1>1. Exists[1] = "db"  BY DEF Exists
<1>2. Exists \in Facts /\ ~IsRow(Exists) /\ \A t : ~IsAbout(Exists, t)
  BY <1>1 DEF Facts, IsRow, IsAbout
<1>3. IsFiniteSet({Exists})  BY FS_Singleton
<1>4. Rooted({Exists})  BY <1>2 DEF Rooted
<1> QED  BY <1>1, <1>2, <1>3, <1>4

LEMMA StatementShape ==
    ASSUME NEW x \in Statements
    PROVE  /\ x[1] \in {"set", "save", "restore", "garbage", "create", "row", "use", "createdb", "dropdb"}
           /\ x[1] = "create" => x[2] \in Tables /\ x = Table(x[2]) /\ x \in Facts
           /\ x[1] = "row" => x[2] \in Tables /\ x \in Facts
           /\ x[1] = "use" => x[2] \in Databases /\ x = <<"use", x[2]>>
           /\ x[1] = "createdb" => x[2] \in Databases
           /\ x[1] = "dropdb" => x[2] \in Databases /\ x = <<"dropdb", x[2]>>
           /\ IsRow(x) <=> x[1] = "row"
           /\ \A t : IsAbout(x, t) <=> x[1] \in {"create", "row"} /\ x[2] = t
BY DEF Statements, Facts, Tabled, Table, IsRow, IsAbout

(* A row that becomes another one is still a row of its table, and is refused
   when the row is. *)
LEMMA BecomesFacts ==
    ASSUME NEW s \in Statements, NEW se, NEW x \in Becomes(s, se)
    PROVE  /\ x \in Statements /\ Place(x) = Place(s) /\ x[1] = s[1]
           /\ s[1] # "row" \/ se.set => x = s
           /\ Refused(x, se) <=> Refused(s, se)
<1>1. CASE x = s  BY <1>1
<1>2. CASE IsRow(s) /\ ~se.set /\ x = Row(s[2], s[3] - 1, s[4])
  <2>1. s[1] = "row" /\ s[2] \in Tables /\ s[3] \in Int /\ s[4] \in Batches
    BY <1>2 DEF IsRow, Statements
  <2>2. x[1] = "row" /\ x[2] = s[2] /\ x[4] = s[4] /\ IsRow(x) /\ x = <<"row", x[2], x[3], x[4]>>
    BY <1>2 DEF Row, IsRow
  <2>3. x \in Statements  BY <1>2, <2>1 DEF Row, Statements
  <2>4. Place(x) = Place(s)  BY <1>2, <2>2 DEF Place
  <2>5. Refused(x, se) <=> Refused(s, se)  BY <2>1, <2>2 DEF Refused
  <2> QED  BY <1>2, <2>1, <2>2, <2>3, <2>4, <2>5
<1> QED  BY <1>1, <1>2 DEF Becomes, Unsettled

(* A statement that is not refused writes to one database, and leaves each in a
   state that a server can be in. *)
LEMMA WrittenFacts ==
    ASSUME Type, NEW s \in Statements, NEW se \in Sessions, ~Refused(s, se)
    PROVE  /\ Sound(Written(s, se.db))
           /\ \A d \in Databases :
                 d # (IF s[1] \in {"createdb", "dropdb"} THEN s[2] ELSE se.db)
                 => Written(s, se.db)[d] = db[d]
<1> DEFINE d == se.db
<1>1. d \in Databases /\ Sound(db)  BY DEF Type, Sound, Sessions
<1>2. ASSUME NEW e \in Databases, NEW S \in SUBSET Facts, IsFiniteSet(S), Rooted(S)
      PROVE  Sound([db EXCEPT ![e] = S])
    BY <1>1, <1>2 DEF Sound
<1> HIDE DEF d
<1>3. CASE s[1] = "create"
  <2> DEFINE S == (db[d] \ About(db[d], s[2])) \cup {s}
  <2>1. Written(s, d) = [db EXCEPT ![d] = S]  BY <1>3 DEF Written
  <2>2. IsFiniteSet(db[d] \ About(db[d], s[2]))  BY <1>1, FS_Difference DEF Sound
  <2>3. IsFiniteSet(S)  BY <2>2, FS_AddElement
  <2>4. S \in SUBSET Facts  BY <1>1, <1>3, StatementShape DEF Sound
  <2>5. Rooted(S)
    <3> SUFFICES ASSUME NEW f \in S, IsRow(f) PROVE Table(f[2]) \in S  BY DEF Rooted
    <3>1. f \in db[d] /\ f \notin About(db[d], s[2])  BY <1>3, StatementShape
    <3>2. f[2] # s[2]  BY <3>1 DEF About, IsAbout, IsRow
    <3>3. Table(f[2]) \in db[d]  BY <1>1, <3>1 DEF Sound, Rooted
    <3>4. Table(f[2]) \notin About(db[d], s[2])  BY <3>2 DEF About, IsAbout, Table
    <3> QED  BY <3>3, <3>4
  <2> HIDE DEF S
  <2> QED  BY <1>1, <1>2, <1>3, <2>1, <2>3, <2>4, <2>5 DEF d, Sound
<1>4. CASE s[1] = "row"
  <2> DEFINE S == db[d] \cup {s}
  <2>1. Written(s, d) = [db EXCEPT ![d] = S]  BY <1>4 DEF Written
  <2>2. IsFiniteSet(S)  BY <1>1, FS_AddElement DEF Sound
  <2>3. S \in SUBSET Facts  BY <1>1, <1>4, StatementShape DEF Sound
  <2>4. Rooted(S)  BY <1>1, <1>4 DEF d, Refused, Rooted, Sound
  <2> HIDE DEF S
  <2> QED  BY <1>1, <1>2, <1>4, <2>1, <2>2, <2>3, <2>4 DEF d, Sound
<1>5. CASE s[1] = "createdb"
  <2>1. Written(s, d) = [db EXCEPT ![s[2]] = {Exists}] /\ s[2] \in Databases
    BY <1>5, StatementShape DEF Written
  <2>2. {Exists} \in SUBSET Facts /\ IsFiniteSet({Exists}) /\ Rooted({Exists})
    BY ExistsFacts
  <2> QED  BY <1>1, <1>2, <1>5, <2>1, <2>2 DEF d, Sound
<1>6. CASE s[1] = "dropdb"
  <2>1. Written(s, d) = [db EXCEPT ![s[2]] = {}] /\ s[2] \in Databases
    BY <1>6, StatementShape DEF Written
  <2>2. {} \in SUBSET Facts /\ IsFiniteSet({}) /\ Rooted({})
    BY FS_EmptySet DEF Rooted
  <2> QED  BY <1>1, <1>2, <1>6, <2>1, <2>2 DEF d, Sound
<1>7. CASE s[1] \notin {"create", "row", "createdb", "dropdb"}
  <2>1. Written(s, d) = db  BY <1>7 DEF Written
  <2> QED  BY <1>1, <1>7, <2>1 DEF d
<1> QED  BY <1>3, <1>4, <1>5, <1>6, <1>7

(* A request for an import or a query fails. *)
LEMMA FailsInv ==
    ASSUME Inv, NEW i \in Calls, work[i].at \in {"prepare", "exec"},
           Change(db, i, Replies(work[i], "failed")), UNCHANGED <<call, file>>
    PROVE  Inv'
<1> DEFINE v == Replies(work[i], "failed")
<1>1. /\ work[i] \in WorkStates /\ Sound(db)
      /\ SidesOK(call[i], work[i], file[i]) /\ BackupOK(call[i], work[i], file[i])
      /\ RestoreOK(call[i], work[i], db[call[i].target])
  BY DEF Inv, Type, Local, Sound
<1>2. v \in WorkStates /\ v.at = "gone" /\ v.reply = "failed"
  BY <1>1, Beginnings DEF Replies, WorkStates, NoWork
<1> HIDE DEF v
<1>3. call[i].kind # "backup"  BY <1>1 DEF SidesOK
<1>4. SidesOK(call[i], v, file[i])  BY <1>1, <1>2, <1>3 DEF SidesOK
<1>5. BackupOK(call[i], v, file[i])  BY <1>3 DEF BackupOK
<1>6. RestoreOK(call[i], v, db[call[i].target])
  BY <1>1, <1>2 DEF RestoreOK, SidesOK
<1>7. Change(db, i, v)  BY DEF v
<1> QED  BY <1>1, <1>2, <1>4, <1>5, <1>6, <1>7, ChangeInv

LEMMA PrepareInv == ASSUME Inv, NEW i \in Calls, Prepare(i) PROVE Inv'
<1> DEFINE c   == call[i]
           S   == db[c.target] \cup {Exists}
           new == [db EXCEPT ![c.target] = S]
           v   == [work[i] EXCEPT !.at = "exec", !.session.db = c.target]
<1>1. /\ work[i].at = "prepare" /\ UNCHANGED <<call, file>>
      /\ c \in CallStates /\ work[i] \in WorkStates /\ Sound(db)
      /\ SidesOK(c, work[i], file[i]) /\ BackupOK(c, work[i], file[i])
      /\ RestoreOK(c, work[i], db[c.target])
  BY DEF Prepare, Serving, Inv, Type, Local, Sound
<1>2. CASE Change(db, i, Replies(work[i], "failed"))  BY <1>1, <1>2, FailsInv
<1>3. CASE Change(new, i, v)
  <2>1. c.target \in Databases /\ c.kind # "backup"  BY <1>1 DEF CallStates, SidesOK
  <2>2. /\ v \in WorkStates /\ v.at = "exec" /\ v.session.db = c.target
        /\ v.todo = work[i].todo /\ v.reply = work[i].reply /\ v.alone = work[i].alone
    BY <1>1, <2>1 DEF WorkStates, Sessions
  <2>3. IsFiniteSet(S)  BY <1>1, <2>1, FS_AddElement DEF Sound
  <2>4. S \in SUBSET Facts  BY <1>1, <2>1, ExistsFacts DEF Sound
  <2>5. Rooted(S)  BY <1>1, <2>1, ExistsFacts DEF Sound, Rooted
  <2>6. Exists \in S  OBVIOUS
  <2> HIDE DEF S
  <2>7. Sound(new) /\ new[c.target] = S  BY <1>1, <2>1, <2>3, <2>4, <2>5 DEF Sound
  <2> HIDE DEF new, v
  <2>8. SidesOK(c, v, file[i])  BY <1>1, <2>1, <2>2 DEF SidesOK
  <2>9. BackupOK(c, v, file[i])  BY <2>1 DEF BackupOK
  <2>10. RestoreOK(c, v, new[c.target])
    <3> SUFFICES ASSUME c.kind = "restore" PROVE RestoreOK(c, v, S)
      BY <2>7 DEF RestoreOK
    <3>1. /\ c.sends \in Seq(Statements) /\ DefinesFirst(c.sends) /\ Stays(c.sends)
          /\ \A k \in 1..Len(v.todo) : Len(v.todo[k]) = 1
          /\ CutOff(v) \/ (Len(v.todo) <= Len(c.sends) /\ Rest(c, v))
          /\ CutOff(v) \/ Len(v.todo) = Len(c.sends)
      <4>1. CutOff(v) <=> CutOff(work[i])  BY <2>2 DEF CutOff
      <4>2. Rest(c, v) <=> Rest(c, work[i])  BY <2>2 DEF Rest
      <4> HIDE DEF c
      <4> QED  BY <1>1, <2>2, <4>1, <4>2 DEF RestoreOK
    <3>2. v.reply = "none" /\ c.result # "ok"  BY <1>1, <2>2 DEF SidesOK, RestoreOK
    <3>3. Arrived(c, v, 0, S)
      <4>1. Loaded(c.sends, 0, S)  BY <2>6 DEF Loaded
      <4>2. Reads(c.sends, c.sends)  BY <3>1 DEF Reads
      <4> QED  BY <4>1, <4>2 DEF Arrived
    <3>4. Len(c.sends) - Len(c.sends) = 0 /\ ~(Len(c.sends) < Len(c.sends))  BY <3>1
    <3> HIDE DEF c
    <3> QED  BY <2>2, <3>1, <3>2, <3>3, <3>4 DEF RestoreOK
  <2> QED  BY <1>1, <1>3, <2>2, <2>7, <2>8, <2>9, <2>10, ChangeInv
<1> QED  BY <1>2, <1>3 DEF Prepare

(* Taking the first statement from the queue. *)
LEMMA RestOfFacts ==
    ASSUME NEW d \in Seq(Lines1), d # <<>>
    PROVE  /\ Head(d) \in Lines1 /\ Head(Head(d)) \in Statements
           /\ RestOf(d) \in Seq(Lines1)
           /\ Len(Head(d)) = 1 => RestOf(d) = Tail(d)
<1>1. /\ Head(d) \in Seq(Statements) /\ Head(d) # <<>> /\ Tail(d) \in Seq(Lines1)
      /\ Head(d) \in Lines1
  BY DEF Lines1
<1>2. Head(Head(d)) \in Statements  BY <1>1
<1>3. CASE Len(Head(d)) = 1  BY <1>1, <1>2, <1>3 DEF RestOf
<1>4. CASE Len(Head(d)) # 1
  <2> DEFINE e == Tail(Head(d))
  <2>1. e \in Seq(Statements) /\ Len(e) # 0
    <3> DEFINE l == Head(d)
    <3>1. l \in Seq(Statements) /\ l # <<>> /\ Len(l) # 1  BY <1>1, <1>4
    <3> HIDE DEF l
    <3>2. Tail(l) \in Seq(Statements) /\ Len(Tail(l)) = Len(l) - 1 /\ Len(l) \in Nat
      BY <3>1
    <3>3. Len(Tail(l)) # 0  BY <3>1, <3>2
    <3> QED  BY <3>2, <3>3 DEF l
  <2>2. RestOf(d) = <<e>> \o Tail(d)  BY <1>4 DEF RestOf
  <2> HIDE DEF e
  <2>3. e \in Lines1
    <3>1. e # <<>>  BY <2>1
    <3> QED  BY <2>1, <3>1 DEF Lines1
  <2>4. <<e>> \in Seq(Lines1)  BY <2>3
  <2>5. <<e>> \o Tail(d) \in Seq(Lines1)  BY <1>1, <2>4
  <2> QED  BY <1>1, <1>2, <1>4, <2>2, <2>5
<1> QED  BY <1>3, <1>4

(* An import takes the statements of its file one after the other. *)
OneLess(c, w, v) ==
    LET s == Head(Head(w.todo))
        n == Len(c.sends) - Len(w.todo) IN
    /\ Len(Head(w.todo)) = 1
    /\ \A k \in 1..Len(v.todo) : Len(v.todo[k]) = 1
    /\ CutOff(w) => CutOff(v) \/ s = <<"garbage">>
    /\ CutOff(v) \/ v.todo = <<>> \/ ~CutOff(w)
    /\ ~CutOff(w) => /\ n \in 0..(Len(c.sends) - 1) /\ s = c.sends[n + 1]
                     /\ Len(v.todo) <= Len(c.sends) /\ Rest(c, v)
                     /\ Len(c.sends) - Len(v.todo) = n + 1

LEMMA NextOfFile ==
    ASSUME NEW c \in CallStates, NEW w, NEW v, NEW S, c.kind = "restore", w.at = "exec",
           RestoreOK(c, w, S), w.todo \in Seq(Lines1), w.todo # <<>>, v.todo = RestOf(w.todo)
    PROVE  OneLess(c, w, v)
<1> DEFINE d == w.todo
           e == v.todo
           s == Head(Head(d))
           n == Len(c.sends) - Len(d)
<1>1. /\ d \in Seq(Lines1) /\ d # <<>> /\ c.sends \in Seq(Statements)
      /\ \A k \in 1..Len(d) : Len(d[k]) = 1
      /\ CutOff(w) \/ (Len(d) <= Len(c.sends) /\ Rest(c, w))
  BY DEF RestoreOK
<1>2. Head(d) = d[1] /\ 1 \in 1..Len(d) /\ d[1] \in Lines1 /\ Len(d) > 0 /\ Len(d) \in Nat
  BY <1>1
<1>3. Len(d[1]) = 1 /\ d[1] = <<s>>
  <2>1. Len(d[1]) = 1 /\ d[1] \in Seq(Statements)  BY <1>1, <1>2 DEF Lines1
  <2>2. s = d[1][1]  BY <1>2, <2>1
  <2> HIDE DEF d, s
  <2> QED  BY <2>1, <2>2
<1>4. e = Tail(d)  BY <1>1, <1>2, <1>3, RestOfFacts
<1>5. /\ Len(e) = Len(d) - 1 /\ e \in Seq(Lines1)
      /\ \A k \in 1..Len(e) : e[k] = d[k + 1] /\ k + 1 \in 1..Len(d)
  BY <1>1, <1>2, <1>4
<1>6. \A k \in 1..Len(e) : Len(e[k]) = 1  BY <1>1, <1>5
<1>7. ASSUME CutOff(w), d[1] # << <<"garbage">> >> PROVE CutOff(v)
  <2>1. d[Len(d)] = << <<"garbage">> >> /\ Len(d) # 1  BY <1>7 DEF CutOff
  <2>2. Len(e) \in 1..Len(e) /\ Len(e) + 1 = Len(d)  BY <1>2, <1>5, <2>1
  <2>3. e[Len(e)] = << <<"garbage">> >> /\ e # <<>>  BY <1>5, <2>1, <2>2
  <2> QED  BY <2>3 DEF CutOff
<1>8. CutOff(w) /\ d[1] = << <<"garbage">> >> => s = <<"garbage">>
  BY <1>2
<1>9. ASSUME CutOff(w), e # <<>> PROVE CutOff(v)
  <2>1. d[Len(d)] = << <<"garbage">> >>  BY <1>9 DEF CutOff
  <2>2. Len(e) \in 1..Len(e) /\ Len(e) + 1 = Len(d)  BY <1>2, <1>5, <1>9
  <2>3. e[Len(e)] = << <<"garbage">> >>  BY <1>5, <2>1, <2>2
  <2> QED  BY <1>9, <2>3 DEF CutOff
<1>10. ASSUME ~CutOff(w)
       PROVE  /\ n \in 0..(Len(c.sends) - 1) /\ s = c.sends[n + 1]
              /\ Len(e) <= Len(c.sends) /\ Rest(c, v) /\ Len(c.sends) - Len(e) = n + 1
  <2>1. /\ Len(d) <= Len(c.sends) /\ Len(c.sends) \in Nat /\ Rest(c, w)
        /\ Len(d) \in Nat /\ Len(e) \in Nat /\ Len(d) > 0 /\ Len(e) = Len(d) - 1
        /\ n = Len(c.sends) - Len(d)
    BY <1>1, <1>2, <1>5, <1>10
  <2> HIDE DEF d, e, s, n
  <2>2. /\ n \in 0..(Len(c.sends) - 1) /\ Len(e) <= Len(c.sends)
        /\ Len(c.sends) - Len(e) = n + 1
    BY <2>1
  <2>3. \A k \in 1..Len(d) : d[k] = <<c.sends[n + k]>>  BY <2>1 DEF Rest, d
  <2>4. s = c.sends[n + 1]
    <3>1. d[1] = <<c.sends[n + 1]>>  BY <1>2, <2>3
    <3> QED  BY <1>3, <3>1
  <2>5. \A k \in 1..Len(e) : e[k] = <<c.sends[Len(c.sends) - Len(e) + k]>>
    <3> SUFFICES ASSUME NEW k \in 1..Len(e)
                 PROVE  e[k] = <<c.sends[Len(c.sends) - Len(e) + k]>>  OBVIOUS
    <3>1. e[k] = <<c.sends[n + (k + 1)]>>  BY <1>5, <2>3
    <3>2. k \in Int /\ n \in Int /\ Len(c.sends) - Len(e) = n + 1  BY <2>1, <2>2
    <3>3. \A a \in Int, b \in Int : a + (b + 1) = (a + 1) + b  OBVIOUS
    <3>4. n + (k + 1) = Len(c.sends) - Len(e) + k  BY <3>2, <3>3
    <3> QED  BY <3>1, <3>4
  <2>6. e = [k \in 1..Len(e) |-> e[k]]  BY <1>5
  <2>7. Rest(c, v)  BY <2>5, <2>6 DEF Rest, e
  <2> QED  BY <2>2, <2>4, <2>7
<1> QED  BY <1>2, <1>3, <1>6, <1>7, <1>8, <1>9, <1>10 DEF OneLess

(* One more statement of the file: what has to change in the target. *)
LEMMA LoadedNext ==
    ASSUME NEW d \in Seq(Statements), DefinesFirst(d), NEW n \in 0..(Len(d) - 1),
           NEW S, Loaded(d, n, S)
    PROVE  LET s == d[n + 1] IN
           /\ s[1] \notin {"create", "row"} => Loaded(d, n + 1, S)
           /\ s[1] = "create" => Loaded(d, n + 1, (S \ About(S, s[2])) \cup {s})
           /\ s[1] = "row" => Loaded(d, n + 1, S \cup {s})
<1> DEFINE s == d[n + 1]
<1>1. /\ n \in Nat /\ n + 1 \in DOMAIN d /\ DOMAIN d = 1..Len(d) /\ s \in Statements
      /\ \A k : k \in 1..(n + 1) <=> k \in 1..n \/ k = n + 1
      /\ \A k \in 1..n : k \in DOMAIN d /\ d[k] \in Statements /\ k # n + 1
  OBVIOUS
<1>2. \A t : First(d, n + 1, t) = First(d, n, t) \cup (IF IsAbout(s, t) THEN {s} ELSE {})
  BY <1>1 DEF First
<1>3. Exists \in S /\ \A t \in Tables : (\E k \in 1..n : d[k] = Table(t)) => About(S, t) = First(d, n, t)
  BY DEF Loaded
<1>4. \A t \in Tables : ~IsAbout(s, t) /\ (\E k \in 1..(n + 1) : d[k] = Table(t))
                        => \E k \in 1..n : d[k] = Table(t)
  BY <1>1 DEF IsAbout, Table
<1>5. CASE s[1] \notin {"create", "row"}
  <2>1. \A t : ~IsAbout(s, t)  BY <1>5 DEF IsAbout
  <2>2. Loaded(d, n + 1, S)  BY <1>2, <1>3, <1>4, <2>1 DEF Loaded
  <2> QED  BY <1>5, <2>2
<1>6. CASE s[1] = "create"
  <2> DEFINE T == (S \ About(S, s[2])) \cup {s}
  <2>1. s = Table(s[2]) /\ s[2] \in Tables /\ \A t : IsAbout(s, t) <=> t = s[2]
    BY <1>1, <1>6, StatementShape
  <2>2. Exists \in T  BY <1>3, ExistsFacts DEF About
  <2>3. ASSUME NEW t \in Tables, t # s[2] PROVE About(T, t) = About(S, t)
    BY <2>1, <2>3 DEF About, IsAbout
  <2>4. About(T, s[2]) = {s}  BY <2>1 DEF About
  <2>5. First(d, n, s[2]) = {}
    <3> SUFFICES ASSUME NEW k \in 1..n, IsAbout(d[k], s[2]) PROVE FALSE  BY DEF First
    <3>1. \A l \in 1..n : d[l] # Table(s[2])
      BY <1>1, <1>6, <2>1 DEF DefinesFirst
    <3>2. d[k][1] # "create"
      BY <1>1, <3>1, StatementShape
    <3>3. d[k][1] = "row" /\ d[k][2] = s[2]  BY <3>2 DEF IsAbout
    <3>4. PICK l \in 1..(k - 1) : d[l] = Table(s[2])  BY <1>1, <3>3 DEF DefinesFirst
    <3>5. l \in 1..n  OBVIOUS
    <3> QED  BY <3>1, <3>4, <3>5
  <2> HIDE DEF T, s
  <2>6. Loaded(d, n + 1, T)
    <3> SUFFICES ASSUME NEW t \in Tables, \E k \in 1..(n + 1) : d[k] = Table(t)
                 PROVE  About(T, t) = First(d, n + 1, t)
      BY <2>2 DEF Loaded
    <3>1. CASE t = s[2]  BY <1>2, <2>1, <2>4, <2>5, <3>1
    <3>2. CASE t # s[2]  BY <1>2, <1>3, <1>4, <2>1, <2>3, <3>2
    <3> QED  BY <3>1, <3>2
  <2> QED  BY <1>6, <2>6 DEF T, s
<1>7. CASE s[1] = "row"
  <2> DEFINE T == S \cup {s}
  <2>1. s[2] \in Tables /\ \A t : IsAbout(s, t) <=> t = s[2]
    BY <1>1, <1>7, StatementShape
  <2>2. \A t : About(T, t) = About(S, t) \cup (IF IsAbout(s, t) THEN {s} ELSE {})
    BY DEF About
  <2>3. \E l \in 1..n : d[l] = Table(s[2])
    <3>1. PICK l \in 1..(n + 1 - 1) : d[l] = Table(s[2])  BY <1>1, <1>7 DEF DefinesFirst
    <3> QED  BY <1>1, <3>1
  <2> HIDE DEF s
  <2>4. Loaded(d, n + 1, T)
    <3> SUFFICES ASSUME NEW t \in Tables, \E k \in 1..(n + 1) : d[k] = Table(t)
                 PROVE  About(T, t) = First(d, n + 1, t)
      BY <1>3 DEF Loaded
    <3>1. \E k \in 1..n : d[k] = Table(t)  BY <1>4, <2>1, <2>3
    <3> QED  BY <1>2, <1>3, <2>2, <3>1
  <2> QED  BY <1>7, <2>4 DEF s
<1> QED  BY <1>5, <1>6, <1>7

(* Where an import writes, and what it leaves there. *)
LEMMA SessionFacts ==
    ASSUME Inv, NEW i \in Calls, work[i].at = "exec", work[i].todo # <<>>
    PROVE  LET s == Head(Head(work[i].todo)) IN
           /\ s \in Statements
           /\ NextSession(i, s) \in Sessions
           /\ NextSession(i, s).db \in {call[i].target, work[i].session.db, s[2]}
           /\ s[1] # "use" => NextSession(i, s).db \in {call[i].target, work[i].session.db}
           /\ ~Disconnects(i) /\ (work[i].session.set \/ s = Settings)
                 => NextSession(i, s).set
<1> DEFINE s  == Head(Head(work[i].todo))
           se == work[i].session
<1>1. work[i].todo \in Seq(Lines1)  BY DEF Inv, Local, SidesOK
<1>2. s \in Statements  BY <1>1, RestOfFacts
<1>3. /\ se \in Sessions /\ call[i].target \in Databases
  BY DEF Inv, Type, WorkStates, CallStates
<1> HIDE DEF s, se
<1>4. /\ Fresh(i) \in Sessions /\ Fresh(i).db = call[i].target
  BY <1>3 DEF Fresh, NewSession, Sessions
<1>5. /\ SessionAfter(s, se) \in Sessions
      /\ SessionAfter(s, se).db = IF s[1] = "use" THEN s[2] ELSE se.db
      /\ SessionAfter(s, se).set = (se.set \/ s = Settings)
  <2>1. (IF s[1] = "use" THEN s[2] ELSE se.db) \in Databases
    BY <1>2, <1>3, StatementShape DEF Sessions
  <2>2. (se.saved \/ s[1] = "save") \in BOOLEAN /\ (se.set \/ s = Settings) \in BOOLEAN  OBVIOUS
  <2> QED  BY <2>1, <2>2 DEF SessionAfter, Sessions
<1>6. /\ NextSession(i, s) \in {Fresh(i), SessionAfter(s, se)}
      /\ ~Disconnects(i) => NextSession(i, s) = SessionAfter(s, se)
  BY DEF NextSession, se
<1>7. /\ NextSession(i, s) \in Sessions
      /\ NextSession(i, s).db \in {call[i].target, se.db, s[2]}
      /\ s[1] # "use" => NextSession(i, s).db \in {call[i].target, se.db}
      /\ ~Disconnects(i) /\ (se.set \/ s = Settings) => NextSession(i, s).set
  BY <1>4, <1>5, <1>6
<1> QED  BY <1>2, <1>7 DEF s, se

(* A statement of an import into a database that nobody else changes. *)
LEMMA ExecLoads ==
    ASSUME Type, NEW d \in Seq(Statements), DefinesFirst(d), Stays(d), NEW n \in 0..(Len(d) - 1),
           NEW e \in Databases, NEW se, se.db = e,
           Loaded(d, n, db[e]), ~Refused(d[n + 1], se),
           e = "verify" => d[n + 1][1] \notin {"use", "createdb", "dropdb"}
    PROVE  Loaded(d, n + 1, Written(d[n + 1], e)[e])
<1> DEFINE s == d[n + 1]
<1>1. s \in Statements /\ n + 1 \in DOMAIN d  OBVIOUS
<1>2. /\ s[1] \notin {"create", "row"} => Loaded(d, n + 1, db[e])
      /\ s[1] = "create" => Loaded(d, n + 1, (db[e] \ About(db[e], s[2])) \cup {s})
      /\ s[1] = "row" => Loaded(d, n + 1, db[e] \cup {s})
  BY LoadedNext
<1>3. db \in [Databases -> SUBSET Facts] /\ Exists \in db[e]  BY DEF Type, Loaded
<1>4. s # <<"dropdb", "wp">>  BY <1>1 DEF Stays
<1> HIDE DEF s
<1>5. CASE s[1] = "create"  BY <1>2, <1>3, <1>5 DEF Written, s
<1>6. CASE s[1] = "row"  BY <1>2, <1>3, <1>6 DEF Written, s
<1>7. CASE s[1] = "createdb"
  <2>1. s[2] \in Databases /\ s[2] # e  BY <1>1, <1>3, <1>7, StatementShape DEF Refused, s
  <2>2. Written(s, e)[e] = db[e]  BY <1>3, <1>7, <2>1 DEF Written
  <2> QED  BY <1>2, <1>7, <2>2 DEF s
<1>8. CASE s[1] = "dropdb"
  <2>1. e = "wp" /\ s[2] \in Databases /\ s = <<"dropdb", s[2]>>
    BY <1>1, <1>8, StatementShape DEF Databases, s
  <2>2. s[2] # e  BY <1>4, <2>1
  <2>3. Written(s, e)[e] = db[e]  BY <1>3, <1>8, <2>1, <2>2 DEF Written
  <2> QED  BY <1>2, <1>8, <2>3 DEF s
<1>9. CASE s[1] \notin {"create", "row", "createdb", "dropdb"}
  <2>1. Written(s, e)[e] = db[e]  BY <1>9 DEF Written
  <2> QED  BY <1>2, <1>9, <2>1 DEF s
<1> QED  BY <1>5, <1>6, <1>7, <1>8, <1>9

(* Statements that differ in a value only. *)
LEMMA SamePlace ==
    ASSUME NEW x \in Statements, NEW s \in Statements, Place(x) = Place(s)
    PROVE  /\ x[1] = s[1] /\ (IsRow(x) <=> IsRow(s))
           /\ ~IsRow(s) => x = s
           /\ IsRow(s) => x[2] = s[2] /\ x[4] = s[4]
<1>1. \A a, b : Row(a, 0, b)[1] = "row" /\ Row(a, 0, b)[2] = a /\ Row(a, 0, b)[4] = b
  BY DEF Row
<1>2. IsRow(x) <=> IsRow(s)  BY <1>1 DEF Place, IsRow
<1>3. CASE ~IsRow(s)  BY <1>2, <1>3 DEF Place
<1>4. CASE IsRow(s)
  <2>1. Row(x[2], 0, x[4]) = Row(s[2], 0, s[4])  BY <1>2, <1>4 DEF Place
  <2>2. x[2] = s[2] /\ x[4] = s[4]  BY <1>1, <2>1
  <2> QED  BY <1>2, <1>4, <2>2 DEF IsRow
<1> QED  BY <1>2, <1>3, <1>4

Same(x, s) == /\ x[1] = s[1] /\ (IsRow(x) <=> IsRow(s))
              /\ ~IsRow(s) => x = s
              /\ IsRow(s) => x[2] = s[2]

(* What a file becomes is in order if the file is. *)
LEMMA ReadsFacts ==
    ASSUME NEW d \in Seq(Statements), DefinesFirst(d), Stays(d), NEW e, Reads(e, d)
    PROVE  /\ e \in Seq(Statements) /\ Len(e) = Len(d) /\ DefinesFirst(e) /\ Stays(e)
           /\ \A k \in 1..Len(d) : Same(e[k], d[k])
<1>1. /\ e \in Seq(Statements) /\ Len(e) = Len(d) /\ DOMAIN e = 1..Len(d) /\ DOMAIN d = 1..Len(d)
      /\ Len(d) \in Nat
      /\ \A k \in 1..Len(d) : /\ e[k] \in Statements /\ d[k] \in Statements
                              /\ Place(e[k]) = Place(d[k])
  BY DEF Reads
<1>2. \A k \in 1..Len(d) : Same(e[k], d[k])
  <2> SUFFICES ASSUME NEW k \in 1..Len(d) PROVE Same(e[k], d[k])  OBVIOUS
  <2>1. e[k] \in Statements /\ d[k] \in Statements /\ Place(e[k]) = Place(d[k])  BY <1>1
  <2> QED  BY <2>1, SamePlace DEF Same
<1>3. Stays(e)
  <2> SUFFICES ASSUME NEW k \in 1..Len(d), e[k] \in {<<"use", "verify">>, <<"dropdb", "wp">>}
               PROVE  FALSE
    BY <1>1 DEF Stays
  <2>1. ~IsRow(e[k]) /\ Same(e[k], d[k])  BY <1>2 DEF IsRow
  <2>2. e[k] = d[k]  BY <2>1 DEF Same
  <2> QED  BY <1>1, <2>2 DEF Stays
<1>4. ASSUME NEW k \in 1..Len(d), NEW l \in 1..Len(d), e[k][1] = "create", e[l] = e[k]
      PROVE  k = l
  <2>1. ~IsRow(e[k]) /\ ~IsRow(e[l])  BY <1>4 DEF IsRow
  <2>2. Same(e[k], d[k]) /\ Same(e[l], d[l])  BY <1>2
  <2>3. e[k] = d[k] /\ e[l] = d[l]  BY <2>1, <2>2 DEF Same
  <2>4. d[k][1] = "create" /\ d[l] = d[k]  BY <1>4, <2>3
  <2> QED  BY <1>1, <2>4 DEF DefinesFirst
<1>5. ASSUME NEW k \in 1..Len(d), e[k][1] = "row"
      PROVE  \E l \in 1..(k - 1) : e[l] = Table(e[k][2])
  <2>1. Same(e[k], d[k])  BY <1>2
  <2>2. d[k][1] = "row" /\ e[k][2] = d[k][2]  BY <1>5, <2>1 DEF Same, IsRow
  <2>3. PICK l \in 1..(k - 1) : d[l] = Table(d[k][2])  BY <1>1, <2>2 DEF DefinesFirst
  <2>4. l \in 1..Len(d)  BY <1>1, <2>3
  <2>5. Same(e[l], d[l]) /\ ~IsRow(d[l])  BY <1>2, <2>3, <2>4 DEF IsRow, Table
  <2>6. e[l] = d[l]  BY <2>5 DEF Same
  <2> QED  BY <2>2, <2>3, <2>6
<1>6. DefinesFirst(e)  BY <1>1, <1>4, <1>5 DEF DefinesFirst
<1> QED  BY <1>1, <1>2, <1>3, <1>6

(* One more statement of the file becomes x. *)
LEMMA ReadsNext ==
    ASSUME NEW d \in Seq(Statements), NEW e, Reads(e, d), NEW n \in 0..(Len(d) - 1),
           NEW x \in Statements, Place(x) = Place(d[n + 1]), NEW S, Loaded(e, n, S)
    PROVE  LET f == [e EXCEPT ![n + 1] = x] IN
           /\ Reads(f, d) /\ Loaded(f, n, S) /\ f[n + 1] = x
           /\ e = d /\ x = d[n + 1] => f = d
<1> DEFINE f == [e EXCEPT ![n + 1] = x]
<1>1. /\ e \in Seq(Statements) /\ Len(e) = Len(d) /\ n + 1 \in 1..Len(d) /\ Len(d) \in Nat
      /\ \A k \in 1..Len(d) : Place(e[k]) = Place(d[k])
  BY DEF Reads
<1>2. /\ f \in Seq(Statements) /\ Len(f) = Len(d) /\ f[n + 1] = x
      /\ \A k \in 1..Len(d) : k # n + 1 => f[k] = e[k]
  BY <1>1
<1>3. e = d /\ x = d[n + 1] => f = d
  <2> SUFFICES ASSUME e = d, x = d[n + 1] PROVE f = d  OBVIOUS
  <2>1. \A k \in 1..Len(d) : f[k] = d[k]  BY <1>2
  <2> HIDE DEF f
  <2> QED  BY <1>2, <2>1, SeqEqual
<1> HIDE DEF f
<1>4. Reads(f, d)  BY <1>1, <1>2 DEF Reads
<1>5. \A k \in 1..n : f[k] = e[k]  BY <1>1, <1>2
<1>6. \A t : First(f, n, t) = First(e, n, t)  BY <1>5 DEF First
<1>7. Loaded(f, n, S)  BY <1>5, <1>6 DEF Loaded
<1> QED  BY <1>2, <1>3, <1>4, <1>7 DEF f

(* A statement of an import, or what it becomes, is carried out. *)
LEMMA ExecArrives ==
    ASSUME Type, NEW c, NEW w, NEW v, c.sends \in Seq(Statements), DefinesFirst(c.sends), Stays(c.sends),
           NEW n \in 0..(Len(c.sends) - 1), NEW b \in Databases, NEW se, se.db = b,
           Arrived(c, w, n, db[b]), NEW x \in Becomes(c.sends[n + 1], se),
           ~Refused(c.sends[n + 1], se), Steady(c, v) => Steady(c, w) /\ x = c.sends[n + 1],
           b = "verify" => c.sends[n + 1][1] \notin {"use", "createdb", "dropdb"}
    PROVE  Arrived(c, v, n + 1, Written(x, b)[b])
<1> DEFINE d == c.sends
<1>1. PICK e : Reads(e, d) /\ Loaded(e, n, db[b]) /\ (Steady(c, w) => e = d)
  BY DEF Arrived
<1>2. d[n + 1] \in Statements  OBVIOUS
<1>3. x \in Statements /\ Place(x) = Place(d[n + 1]) /\ x[1] = d[n + 1][1] /\ ~Refused(x, se)
  BY <1>2, BecomesFacts
<1> DEFINE f == [e EXCEPT ![n + 1] = x]
<1> HIDE DEF d
<1>4. /\ Reads(f, d) /\ Loaded(f, n, db[b]) /\ f[n + 1] = x
      /\ e = d /\ x = d[n + 1] => f = d
  BY <1>1, <1>3, ReadsNext DEF d
<1> HIDE DEF f
<1>5. f \in Seq(Statements) /\ Len(f) = Len(d) /\ DefinesFirst(f) /\ Stays(f)
  BY <1>4, ReadsFacts DEF d
<1>6. n \in 0..(Len(f) - 1)  BY <1>5 DEF d
<1>7. Loaded(f, n + 1, Written(f[n + 1], b)[b])
  BY <1>3, <1>4, <1>5, <1>6, ExecLoads DEF d
<1> QED  BY <1>1, <1>4, <1>7 DEF Arrived, d

(* A statement that is skipped changes nothing. *)
LEMMA SkipArrives ==
    ASSUME NEW c, NEW w, NEW v, c.sends \in Seq(Statements), DefinesFirst(c.sends), Stays(c.sends),
           NEW n \in 0..(Len(c.sends) - 1), NEW S, Arrived(c, w, n, S),
           c.sends[n + 1][1] \notin {"create", "row"}, Steady(c, v) => Steady(c, w)
    PROVE  Arrived(c, v, n + 1, S)
<1>1. PICK e : Reads(e, c.sends) /\ Loaded(e, n, S) /\ (Steady(c, w) => e = c.sends)
  BY DEF Arrived
<1>2. /\ e \in Seq(Statements) /\ Len(e) = Len(c.sends) /\ DefinesFirst(e)
      /\ \A k \in 1..Len(c.sends) : e[k][1] = c.sends[k][1]
  BY <1>1, ReadsFacts DEF Same
<1>3. n \in 0..(Len(e) - 1) /\ e[n + 1][1] \notin {"create", "row"}  BY <1>2
<1>4. Loaded(e, n + 1, S)  BY <1>1, <1>2, <1>3, LoadedNext
<1> QED  BY <1>1, <1>4 DEF Arrived

(* What an import that goes on with its next statement has to keep. *)
LoadsOn(c, w, v, S, T) ==
    /\ (c.target = "verify" \/ ~CutOff(v)) => v.session.db = c.target
    /\ Head(Head(w.todo)) # <<"garbage">>
    /\ Steady(c, v) => Steady(c, w)
    /\ \A n \in 0..(Len(c.sends) - 1) :
          /\ ~CutOff(v) /\ Head(Head(w.todo)) = c.sends[n + 1]
          /\ Steady(c, w) /\ n > 0 => w.session.set
          => /\ v.alone /\ Arrived(c, w, n, S) => Arrived(c, v, n + 1, T)
             /\ Steady(c, v) => v.session.set

LEMMA GoesOnWith ==
    ASSUME NEW c \in CallStates, NEW w \in WorkStates, NEW v \in WorkStates, NEW f, NEW S, NEW T,
           SidesOK(c, w, f), RestoreOK(c, w, S), w.at = "exec", w.todo # <<>>,
           v.at = "exec", v.todo = RestOf(w.todo), v.reply = "none", v.alone = w.alone,
           c.kind = "restore" => LoadsOn(c, w, v, S, T)
    PROVE  SidesOK(c, v, f) /\ BackupOK(c, v, f) /\ RestoreOK(c, v, T)
<1> DEFINE s == Head(Head(w.todo))
           n == Len(c.sends) - Len(w.todo)
<1>1. w.todo \in Seq(Lines1) /\ c.kind # "backup" /\ w.reply = "none"  BY DEF SidesOK
<1>2. RestOf(w.todo) \in Seq(Lines1)  BY <1>1, RestOfFacts
<1>3. SidesOK(c, v, f)  BY <1>1, <1>2 DEF SidesOK
<1>4. BackupOK(c, v, f)  BY <1>1 DEF BackupOK
<1>5. ASSUME c.kind = "restore" PROVE RestoreOK(c, v, T)
  <2>1. /\ \A k \in 1..Len(v.todo) : Len(v.todo[k]) = 1
        /\ CutOff(w) => CutOff(v) \/ s = <<"garbage">>
        /\ ~CutOff(w) => /\ n \in 0..(Len(c.sends) - 1) /\ s = c.sends[n + 1]
                         /\ Len(v.todo) <= Len(c.sends) /\ Rest(c, v)
                         /\ Len(c.sends) - Len(v.todo) = n + 1
    <3>1. OneLess(c, w, v)  BY <1>1, <1>5, NextOfFile
    <3> QED  BY <3>1 DEF OneLess
  <2>2. /\ c.sends \in Seq(Statements) /\ DefinesFirst(c.sends) /\ Stays(c.sends)
        /\ w.alone => CutOff(w) \/ Arrived(c, w, n, S)
        /\ Steady(c, w) /\ ~CutOff(w) /\ Len(w.todo) < Len(c.sends) => w.session.set
        /\ c.result = "ok" => w.reply = "ok"
    BY <1>5 DEF RestoreOK
  <2>3. CutOff(w) => CutOff(v)  BY <1>5, <2>1 DEF LoadsOn
  <2>5. ASSUME ~CutOff(w) PROVE Steady(c, w) /\ n > 0 => w.session.set
    <3>1. Len(w.todo) \in Nat /\ Len(c.sends) \in Nat  BY <1>1, <2>2
    <3>2. Len(c.sends) - Len(w.todo) > 0 => Len(w.todo) < Len(c.sends)
      <4> DEFINE a == Len(c.sends)
                 b == Len(w.todo)
      <4>1. a \in Nat /\ b \in Nat  BY <3>1
      <4> HIDE DEF a, b
      <4>2. a - b > 0 => b < a  BY <4>1
      <4> QED  BY <4>2 DEF a, b
    <3> QED  BY <2>2, <2>5, <3>2
  <2>4. ~CutOff(v) => /\ v.alone => Arrived(c, v, Len(c.sends) - Len(v.todo), T)
                      /\ Steady(c, v) => v.session.set
    BY <1>5, <2>1, <2>2, <2>3, <2>5 DEF LoadsOn
  <2> HIDE DEF n, s
  <2> QED  BY <1>1, <1>5, <2>1, <2>2, <2>3, <2>4 DEF RestoreOK, LoadsOn
<1>6. c.kind # "restore" => RestoreOK(c, v, T)  BY DEF RestoreOK
<1> QED  BY <1>3, <1>4, <1>5, <1>6

LEMMA ExecInv == ASSUME Inv, NEW i \in Calls, Exec(i) PROVE Inv'
<1> DEFINE c  == call[i]
           w  == work[i]
           d  == w.todo
           s  == Head(Head(d))
           se == w.session
           v1 == [w EXCEPT !.todo = RestOf(d)]
           v2 == [w EXCEPT !.todo = RestOf(d), !.ran = 1, !.session = NextSession(i, s),
                           !.lost = @ \/ Disconnects(i)]
<1>1. /\ w.at = "exec" /\ d # <<>> /\ UNCHANGED <<call, file>>
      /\ c \in CallStates /\ w \in WorkStates /\ Sound(db) /\ Type
      /\ SidesOK(c, w, file[i]) /\ BackupOK(c, w, file[i]) /\ RestoreOK(c, w, db[c.target])
  BY DEF Exec, Serving, Inv, Type, Local, Sound
<1>2. \/ Change(db, i, Replies(w, "failed"))
      \/ (Skips(i, s) /\ Change(db, i, v1))
      \/ /\ ~Skips(i, s) /\ ~Refused(s, se)
         /\ \E x \in Becomes(s, se) : Change(Written(x, se.db), i, v2)
  BY DEF Exec
<1>3. d \in Seq(Lines1) /\ RestOf(d) \in Seq(Lines1) /\ s \in Statements
  BY <1>1, RestOfFacts DEF SidesOK
<1>4. w.reply = "none" /\ c.kind # "backup"  BY <1>1 DEF SidesOK
<1>5. /\ se \in Sessions /\ c.target \in Databases
      /\ NextSession(i, s) \in Sessions
      /\ NextSession(i, s).db \in {c.target, se.db, s[2]}
      /\ s[1] # "use" => NextSession(i, s).db \in {c.target, se.db}
      /\ ~Disconnects(i) /\ (se.set \/ s = Settings) => NextSession(i, s).set
  BY <1>1, SessionFacts DEF WorkStates, CallStates
<1>6. /\ v1 \in WorkStates /\ v1.at = "exec" /\ v1.todo = RestOf(d) /\ v1.session = se
      /\ v1.reply = "none" /\ v1.alone = w.alone /\ v1.lost = w.lost
  BY <1>1, <1>3, <1>4 DEF WorkStates
<1>7. /\ v2 \in WorkStates /\ v2.at = "exec" /\ v2.todo = RestOf(d)
      /\ v2.session = NextSession(i, s) /\ v2.reply = "none" /\ v2.alone = w.alone
      /\ v2.lost = (w.lost \/ Disconnects(i))
  <2> DEFINE l == w.lost \/ Disconnects(i)
  <2>1. l \in BOOLEAN  OBVIOUS
  <2> HIDE DEF l
  <2>2. /\ v2 \in WorkStates /\ v2.at = "exec" /\ v2.todo = RestOf(d)
        /\ v2.session = NextSession(i, s) /\ v2.reply = "none" /\ v2.alone = w.alone
        /\ v2.lost = l
    BY <1>1, <1>3, <1>4, <1>5, <2>1 DEF WorkStates, l
  <2> QED  BY <2>2 DEF l
<1> HIDE DEF v1, v2
<1>8. CASE Change(db, i, Replies(w, "failed"))  BY <1>1, <1>8, FailsInv
<1>9. CASE Skips(i, s) /\ Change(db, i, v1)
  <2>1. c.target = "verify" /\ s[1] \in {"use", "createdb", "dropdb"}
    BY <1>9 DEF Skips
  <2>2. c.kind = "restore" => se.db = c.target  BY <1>1, <2>1 DEF RestoreOK
  <2>3. ASSUME c.kind = "restore" PROVE LoadsOn(c, w, v1, db[c.target], db[c.target])
    <3>1. c.sends \in Seq(Statements) /\ DefinesFirst(c.sends) /\ Stays(c.sends)
      BY <1>1, <2>3 DEF RestoreOK
    <3>2. Steady(c, v1) <=> Steady(c, w)  BY <1>6 DEF Steady
    <3>3. ASSUME NEW n \in 0..(Len(c.sends) - 1), s = c.sends[n + 1],
                 Steady(c, w) /\ n > 0 => se.set
          PROVE  /\ Arrived(c, w, n, db[c.target]) => Arrived(c, v1, n + 1, db[c.target])
                 /\ Steady(c, v1) => se.set
      <4>1. Arrived(c, w, n, db[c.target]) => Arrived(c, v1, n + 1, db[c.target])
        <5>1. c.sends[n + 1][1] \notin {"create", "row"}  BY <2>1, <3>3
        <5> HIDE DEF c, w
        <5> QED  BY <3>1, <3>2, <3>3, <5>1, SkipArrives
      <4>2. Steady(c, w) => n # 0
        <5>1. Head(c.sends) = c.sends[1] \/ c.sends = <<>>  BY <3>1
        <5>2. s # Settings  BY <2>1 DEF Settings
        <5> QED  BY <3>3, <5>1, <5>2 DEF Steady
      <4> QED  BY <3>2, <3>3, <4>1, <4>2
    <3>4. s # <<"garbage">>  BY <2>1
    <3> QED  BY <1>6, <2>2, <2>3, <3>2, <3>3, <3>4 DEF LoadsOn
  <2>5. SidesOK(c, v1, file[i]) /\ BackupOK(c, v1, file[i]) /\ RestoreOK(c, v1, db[c.target])
    <3>1. c.kind = "restore" => LoadsOn(c, w, v1, db[c.target], db[c.target])
      BY <2>3
    <3>2. /\ w.at = "exec" /\ w.todo # <<>> /\ c \in CallStates /\ w \in WorkStates
          /\ SidesOK(c, w, file[i]) /\ RestoreOK(c, w, db[c.target])
          /\ v1 \in WorkStates /\ v1.at = "exec" /\ v1.todo = RestOf(w.todo)
          /\ v1.reply = "none" /\ v1.alone = w.alone
      BY <1>1, <1>6
    <3> HIDE DEF c, w
    <3> QED  BY <3>1, <3>2, GoesOnWith
  <2> QED  BY <1>1, <1>6, <1>9, <2>5, ChangeInv
<1>10. ASSUME ~Skips(i, s), ~Refused(s, se), NEW x \in Becomes(s, se),
              Change(Written(x, se.db), i, v2)
       PROVE  Inv'
  <2> DEFINE new == Written(x, se.db)
  <2>1. s # <<"garbage">>
    <3>1. ~Refused(s, se)  BY <1>10
    <3> HIDE DEF s, se
    <3>2. s[1] # "garbage"  BY <3>1 DEF Refused
    <3> QED  BY <3>2
  <2>2. Sound(new)
    <3>1. Type /\ s \in Statements /\ se \in Sessions /\ ~Refused(s, se)
      BY <1>1, <1>3, <1>5, <1>10
    <3> HIDE DEF s, se
    <3>2. x \in Statements /\ ~Refused(x, se)  BY <1>10, <3>1, BecomesFacts
    <3> QED  BY <3>1, <3>2, WrittenFacts
  <2>3. ASSUME c.kind = "restore" PROVE c.target = "verify" => s[1] \notin {"use", "createdb", "dropdb"}
    BY <1>10, <2>3 DEF Skips
  <2>4. ASSUME c.kind = "restore", c.target = "verify" \/ ~CutOff(v2)
        PROVE  se.db = c.target /\ v2.session.db = c.target
    <3>1. CutOff(w) => CutOff(v2)
      <4>1. OneLess(c, w, v2)  BY <1>1, <1>3, <1>7, <2>4, NextOfFile
      <4> QED  BY <2>1, <4>1 DEF OneLess
    <3>2. se.db = c.target  BY <1>1, <2>4, <3>1 DEF RestoreOK
    <3>3. CASE s[1] # "use"  BY <1>5, <1>7, <3>2, <3>3
    <3>4. CASE s[1] = "use"
      <4>1. c.target = "wp" /\ ~CutOff(w)
        BY <1>5, <2>3, <2>4, <3>1, <3>4 DEF Databases
      <4>2. PICK n \in 0..(Len(c.sends) - 1) : s = c.sends[n + 1]
        BY <1>1, <1>3, <1>7, <2>4, <4>1, NextOfFile DEF OneLess
      <4>3. c.sends \in Seq(Statements) /\ Stays(c.sends)  BY <1>1, <2>4 DEF RestoreOK
      <4>4. s # <<"use", "verify">>
        <5>1. n + 1 \in DOMAIN c.sends  BY <4>3
        <5> QED  BY <4>2, <4>3, <5>1 DEF Stays
      <4>5. s[2] = "wp"  BY <1>3, <3>4, <4>4, StatementShape DEF Databases
      <4> QED  BY <1>5, <1>7, <3>2, <4>1, <4>5
    <3> QED  BY <3>3, <3>4
  <2>5. ASSUME c.kind = "restore" PROVE LoadsOn(c, w, v2, db[c.target], new[c.target])
    <3>1. c.sends \in Seq(Statements) /\ DefinesFirst(c.sends) /\ Stays(c.sends)
      BY <1>1, <2>5 DEF RestoreOK
    <3>2. Steady(c, v2) => Steady(c, w) /\ ~Disconnects(i)  BY <1>7 DEF Steady
    <3>3. ASSUME NEW n \in 0..(Len(c.sends) - 1), ~CutOff(v2), s = c.sends[n + 1],
                 Steady(c, w) /\ n > 0 => se.set
          PROVE  /\ Arrived(c, w, n, db[c.target]) => Arrived(c, v2, n + 1, new[c.target])
                 /\ Steady(c, v2) => v2.session.set
      <4>1. Steady(c, w) => se.set \/ s = Settings
        <5>1. Head(c.sends) = c.sends[1] \/ c.sends = <<>>  BY <3>1
        <5> QED  BY <3>3, <5>1 DEF Steady
      <4>2. se.set \/ s = Settings => x = s
        <5>1. s = Settings => s[1] # "row"  BY DEF Settings
        <5> HIDE DEF s, se
        <5> QED  BY <1>3, <1>10, <5>1, BecomesFacts
      <4>3. se.db = c.target  BY <2>4, <2>5, <3>3
      <4>4. ASSUME Arrived(c, w, n, db[c.target]) PROVE Arrived(c, v2, n + 1, new[c.target])
        <5>1. /\ x \in Becomes(c.sends[n + 1], se) /\ ~Refused(c.sends[n + 1], se)
              /\ Steady(c, v2) => Steady(c, w) /\ x = c.sends[n + 1]
              /\ c.target = "verify" => c.sends[n + 1][1] \notin {"use", "createdb", "dropdb"}
          BY <1>10, <2>3, <2>5, <3>2, <3>3, <4>1, <4>2
        <5>2. Type /\ c.target \in Databases  BY <1>1, <1>5
        <5> HIDE DEF c, w, se, s, new
        <5>3. Arrived(c, v2, n + 1, Written(x, c.target)[c.target])
          BY <3>1, <3>3, <4>3, <4>4, <5>1, <5>2, ExecArrives
        <5> QED  BY <4>3, <5>3 DEF new
      <4> QED  BY <1>5, <1>7, <3>2, <4>1, <4>4
    <3> QED  BY <2>1, <2>4, <2>5, <3>2, <3>3 DEF LoadsOn
  <2> HIDE DEF new
  <2>6. SidesOK(c, v2, file[i]) /\ BackupOK(c, v2, file[i]) /\ RestoreOK(c, v2, new[c.target])
    <3>1. c.kind = "restore" => LoadsOn(c, w, v2, db[c.target], new[c.target])
      BY <2>5
    <3>2. /\ w.at = "exec" /\ w.todo # <<>> /\ c \in CallStates /\ w \in WorkStates
          /\ SidesOK(c, w, file[i]) /\ RestoreOK(c, w, db[c.target])
          /\ v2 \in WorkStates /\ v2.at = "exec" /\ v2.todo = RestOf(w.todo)
          /\ v2.reply = "none" /\ v2.alone = w.alone
      BY <1>1, <1>7
    <3> HIDE DEF c, w
    <3> QED  BY <3>1, <3>2, GoesOnWith
  <2> QED  BY <1>1, <1>7, <1>10, <2>2, <2>6, ChangeInv DEF new
<1> QED  BY <1>2, <1>8, <1>9, <1>10

LEMMA ExecFailsInv == ASSUME Inv, NEW i \in Calls, ExecFails(i) PROVE Inv'
BY FailsInv DEF ExecFails, Serving

(* When all of a file is loaded, the target has its tables as the file has them. *)
Holds(d, S) == LET c == Content(d) IN \A f \in c : About(S, f[2]) = About(c, f[2])

LEMMA AllLoaded ==
    ASSUME NEW d \in Seq(Statements), DefinesFirst(d), NEW S, Loaded(d, Len(d), S)
    PROVE  Holds(d, S)
<1> SUFFICES ASSUME NEW f \in Content(d)
             PROVE  About(S, f[2]) = About(Content(d), f[2])
  BY DEF Holds
<1>1. PICK k \in DOMAIN d : d[k] = f /\ f[1] \in {"create", "row"}  BY DEF Content
<1>2. DOMAIN d = 1..Len(d) /\ f \in Statements /\ Len(d) \in Nat  BY <1>1
<1>3. f[2] \in Tables  BY <1>1, <1>2, StatementShape
<1>4. \E l \in 1..Len(d) : d[l] = Table(f[2])
  <2>1. CASE f[1] = "create"  BY <1>1, <1>2, <2>1, StatementShape
  <2>2. CASE f[1] = "row"
    <3>1. PICK l \in 1..(k - 1) : d[l] = Table(f[2])  BY <1>1, <2>2 DEF DefinesFirst
    <3>2. l \in 1..Len(d)  BY <1>2, <3>1
    <3> QED  BY <3>1, <3>2
  <2> QED  BY <1>1, <2>1, <2>2
<1>5. About(S, f[2]) = First(d, Len(d), f[2])  BY <1>3, <1>4 DEF Loaded
<1>6. First(d, Len(d), f[2]) = About(Content(d), f[2])
  BY <1>2 DEF First, About, Content, IsAbout
<1> QED  BY <1>5, <1>6

(* And row for row, if what the statements became differs in values only. *)
HoldsRows(d, S) == LET c == Content(d) IN
                   \A f \in c : Places(About(S, f[2])) = Places(About(c, f[2]))

LEMMA RowsLoaded ==
    ASSUME NEW d \in Seq(Statements), DefinesFirst(d), Stays(d), NEW e, Reads(e, d),
           NEW S, Loaded(e, Len(d), S)
    PROVE  HoldsRows(d, S)
<1>1. /\ e \in Seq(Statements) /\ Len(e) = Len(d) /\ DefinesFirst(e)
      /\ DOMAIN e = 1..Len(d) /\ DOMAIN d = 1..Len(d)
      /\ \A k \in 1..Len(d) : /\ e[k] \in Statements /\ d[k] \in Statements
                              /\ Place(e[k]) = Place(d[k])
  BY ReadsFacts DEF Reads
<1>2. Holds(e, S)  BY <1>1, AllLoaded
<1>3. \A k \in 1..Len(d) :
         /\ e[k][1] = d[k][1]
         /\ d[k][1] \in {"create", "row"} => e[k][2] = d[k][2]
  <2> SUFFICES ASSUME NEW k \in 1..Len(d)
               PROVE  /\ e[k][1] = d[k][1]
                      /\ d[k][1] \in {"create", "row"} => e[k][2] = d[k][2]
    OBVIOUS
  <2>1. e[k] \in Statements /\ d[k] \in Statements /\ Place(e[k]) = Place(d[k])  BY <1>1
  <2> DEFINE a == e[k]
             b == d[k]
  <2> HIDE DEF a, b
  <2>2. a[1] = b[1] /\ (b[1] \in {"create", "row"} => a[2] = b[2])
    BY <2>1, SamePlace DEF a, b
  <2> QED  BY <2>2 DEF a, b
<1>4. \A k \in 1..Len(d) : d[k] \in Content(d) <=> e[k] \in Content(e)
  BY <1>1, <1>3 DEF Content
<1>5. \A k \in 1..Len(d) : \A t : IsAbout(d[k], t) <=> IsAbout(e[k], t)
  BY <1>3 DEF IsAbout
<1>6. ASSUME NEW t PROVE Places(About(Content(e), t)) = Places(About(Content(d), t))
  <2>1. About(Content(d), t) = {d[k] : k \in {l \in 1..Len(d) : IsAbout(d[l], t)}}
    BY <1>1 DEF About, Content, IsAbout
  <2>2. About(Content(e), t) = {e[k] : k \in {l \in 1..Len(d) : IsAbout(e[l], t)}}
    BY <1>1 DEF About, Content, IsAbout
  <2>3. Places(About(Content(d), t)) = {Place(d[k]) : k \in {l \in 1..Len(d) : IsAbout(d[l], t)}}
    BY <2>1 DEF Places
  <2>4. Places(About(Content(e), t)) = {Place(e[k]) : k \in {l \in 1..Len(d) : IsAbout(e[l], t)}}
    BY <2>2 DEF Places
  <2> QED  BY <1>1, <1>5, <2>3, <2>4
<1>7. ASSUME NEW f \in Content(d)
      PROVE  Places(About(S, f[2])) = Places(About(Content(d), f[2]))
  <2>1. PICK k \in 1..Len(d) : d[k] = f /\ f[1] \in {"create", "row"}
    BY <1>1 DEF Content
  <2>2. e[k] \in Content(e) /\ e[k][2] = f[2]  BY <1>3, <1>4, <2>1
  <2>3. About(S, f[2]) = About(Content(e), f[2])  BY <1>2, <2>2 DEF Holds
  <2> QED  BY <1>6, <2>3
<1> QED  BY <1>7 DEF HoldsRows

LEMMA ExecEndsInv == ASSUME Inv, NEW i \in Calls, ExecEnds(i) PROVE Inv'
<1> DEFINE c == call[i]
           w == work[i]
           S == db[c.target]
           r == IF w.ran > 0 THEN "ok" ELSE "failed"
           y == c.kind = "restore" /\ ImportedRows(i)
           x == c.kind = "restore" /\ Imported(i)
           u == Replies(w, r)
           v == [u EXCEPT !.rows = y, !.whole = x]
<1>1. /\ w.at = "exec" /\ w.todo = <<>> /\ UNCHANGED <<call, file>> /\ Change(db, i, v)
      /\ c \in CallStates /\ w \in WorkStates /\ Sound(db)
      /\ SidesOK(c, w, file[i]) /\ RestoreOK(c, w, S)
  BY DEF ExecEnds, Serving, Inv, Type, Local, Sound
<1>2. /\ v \in WorkStates /\ v.at = "gone" /\ v.reply \in {"ok", "failed"}
      /\ v.alone = w.alone /\ v.lost = w.lost
      /\ v.rows = y /\ v.whole = x
  <2>1. /\ r \in {"ok", "failed"} /\ x \in BOOLEAN /\ y \in BOOLEAN
        /\ w.alone \in BOOLEAN /\ w.lost \in BOOLEAN
    BY <1>1 DEF WorkStates
  <2> HIDE DEF r
  <2>2. u \in WorkStates /\ u.at = "gone" /\ u.reply = r /\ u.alone = w.alone /\ u.lost = w.lost
    BY <2>1, Beginnings DEF Replies, WorkStates, NoWork
  <2> HIDE DEF u, x, y
  <2>3. /\ v \in WorkStates /\ v.at = u.at /\ v.reply = u.reply /\ v.alone = u.alone
        /\ v.lost = u.lost /\ v.rows = y /\ v.whole = x
    BY <2>1, <2>2 DEF WorkStates
  <2> QED  BY <2>1, <2>2, <2>3
<1>3. c.kind # "backup" /\ w.reply = "none"  BY <1>1 DEF SidesOK
<1> HIDE DEF v
<1>4. SidesOK(c, v, file[i])  BY <1>1, <1>2, <1>3 DEF SidesOK
<1>5. BackupOK(c, v, file[i])  BY <1>3 DEF BackupOK
<1>6. RestoreOK(c, v, S)
  <2> SUFFICES ASSUME c.kind = "restore" PROVE RestoreOK(c, v, S)  BY DEF RestoreOK
  <2>1. /\ c.sends \in Seq(Statements) /\ DefinesFirst(c.sends) /\ Stays(c.sends)
        /\ c.result # "ok"
        /\ w.alone => CutOff(w) \/ Arrived(c, w, Len(c.sends) - Len(w.todo), S)
    BY <1>1, <1>3 DEF RestoreOK
  <2>2. ~CutOff(w) /\ Len(c.sends) - Len(w.todo) = Len(c.sends)  BY <1>1, <2>1 DEF CutOff
  <2>3. ASSUME w.alone
        PROVE  HoldsRows(c.sends, S) /\ (Steady(c, w) => Holds(c.sends, S))
    <3>1. Arrived(c, w, Len(c.sends), S)  BY <2>1, <2>2, <2>3
    <3>2. PICK e : /\ Reads(e, c.sends) /\ Loaded(e, Len(c.sends), S)
                   /\ Steady(c, w) => e = c.sends
      BY <3>1 DEF Arrived
    <3> HIDE DEF c, w, S
    <3>3. HoldsRows(c.sends, S)  BY <2>1, <3>2, RowsLoaded
    <3>4. Steady(c, w) => Holds(c.sends, S)  BY <2>1, <3>2, AllLoaded
    <3> QED  BY <3>3, <3>4
  <2>4. (x <=> Holds(c.sends, S)) /\ (y <=> HoldsRows(c.sends, S))
    BY DEF Imported, ImportedRows, Holds, HoldsRows
  <2>5. Steady(c, v) <=> Steady(c, w)  BY <1>2 DEF Steady
  <2> HIDE DEF c, w, x, y, S
  <2> QED  BY <1>2, <2>1, <2>3, <2>4, <2>5 DEF RestoreOK
<1> QED  BY <1>1, <1>2, <1>4, <1>5, <1>6, ChangeInv

LEMMA ReconnectInv == ASSUME Inv, NEW i \in Calls, Reconnect(i) PROVE Inv'
<1> DEFINE c == call[i]
           v == [work[i] EXCEPT !.session = Reconnected(i), !.lost = TRUE]
<1>1. /\ work[i].at = "exec" /\ UNCHANGED <<db, call, file>> /\ Serve(i, v)
      /\ c \in CallStates /\ work[i] \in WorkStates
      /\ SidesOK(c, work[i], file[i]) /\ BackupOK(c, work[i], file[i])
      /\ RestoreOK(c, work[i], db[c.target])
  BY DEF Reconnect, Serving, Inv, Type, Local
<1>2. /\ Reconnected(i) \in Sessions
      /\ Reconnected(i).db = c.target
  BY <1>1 DEF Reconnected, Fresh, NewSession, Sessions, CallStates
<1>3. /\ v \in WorkStates /\ v.at = "exec" /\ v.todo = work[i].todo
      /\ v.session = Reconnected(i) /\ v.reply = work[i].reply
      /\ v.alone = work[i].alone /\ v.whole = work[i].whole /\ v.rows = work[i].rows
      /\ v.lost
  BY <1>1, <1>2 DEF WorkStates
<1> HIDE DEF v
<1>4. SidesOK(c, v, file[i])  BY <1>1, <1>3 DEF SidesOK
<1>5. BackupOK(c, v, file[i])  BY <1>1 DEF BackupOK, SidesOK
<1>6. ~Steady(c, v) /\ \A n, S : Arrived(c, work[i], n, S) => Arrived(c, v, n, S)
  BY <1>3 DEF Arrived, Steady
<1>7. (Rest(c, v) <=> Rest(c, work[i])) /\ (CutOff(v) <=> CutOff(work[i]))
  BY <1>3 DEF Rest, CutOff
<1>8. RestoreOK(c, v, db[c.target])
  <2> HIDE DEF c
  <2> QED  BY <1>1, <1>2, <1>3, <1>6, <1>7 DEF RestoreOK
<1> QED  BY <1>1, <1>3, <1>4, <1>5, <1>8, WorkOnly

LEMMA WorkerKilledInv == ASSUME Inv, NEW i \in Calls, WorkerKilled(i) PROVE Inv'
<1> DEFINE c == call[i]
           e == [c EXCEPT !.broken = @ \/ At(i, "wait")]
           v == [NoWork EXCEPT !.at = "gone"]
<1>1. /\ work[i].at \in {"prepare", "exec"} /\ UNCHANGED <<db, file>>
      /\ Serve(i, v) /\ Step(i, e)
      /\ c \in CallStates /\ work[i] \in WorkStates /\ file[i] \in Files
      /\ SidesOK(c, work[i], file[i]) /\ RestoreOK(c, work[i], db[c.target])
  BY DEF WorkerKilled, Inv, Type, Local
<1>2. /\ e \in CallStates /\ e.at = c.at /\ e.kind = c.kind /\ e.target = c.target
      /\ e.sends = c.sends /\ e.result = c.result
  BY <1>1 DEF CallStates
<1>3. v \in WorkStates /\ v.at = "gone" /\ v.reply = "none"
  BY Beginnings DEF WorkStates, NoWork
<1> HIDE DEF e, v
<1>4. c.kind # "backup" /\ work[i].reply = "none"  BY <1>1 DEF SidesOK
<1>5. SidesOK(e, v, file[i])  BY <1>1, <1>2, <1>3, <1>4 DEF SidesOK
<1>6. BackupOK(e, v, file[i])  BY <1>2, <1>4 DEF BackupOK
<1>7. RestoreOK(e, v, db[e.target])
  BY <1>1, <1>2, <1>3, <1>4 DEF RestoreOK
<1>8. Puts(i, file[i])  BY <1>1, NothingChanges DEF Inv
<1> QED  BY <1>1, <1>2, <1>3, <1>5, <1>6, <1>7, <1>8, SidesChange

----------------------------------------------------------------------------
(* The site itself. *)

LEMMA EditSound ==
    ASSUME Type, NEW t \in Tables
    PROVE  LET rows == {f \in About(db["wp"], t) : IsRow(f)}
               next == {Row(t, f[3] + 1, f[4]) : f \in rows} IN
           rows # {} => Sound([db EXCEPT !["wp"] = (@ \ rows) \cup next])
<1> DEFINE rows == {f \in About(db["wp"], t) : IsRow(f)}
           next == {Row(t, f[3] + 1, f[4]) : f \in rows}
           S    == (db["wp"] \ rows) \cup next
<1>1. /\ "wp" \in Databases /\ Sound(db) /\ IsFiniteSet(db["wp"]) /\ Rooted(db["wp"])
      /\ db["wp"] \in SUBSET Facts
  BY DEF Type, Sound, Databases
<1>2. rows \subseteq db["wp"] /\ \A f \in rows : f \in Facts /\ IsRow(f) /\ f[2] = t
  BY <1>1 DEF About, IsAbout
<1>3. IsFiniteSet(rows) /\ IsFiniteSet(db["wp"] \ rows)
  BY <1>1, <1>2, FS_Subset, FS_Difference
<1>4. IsFiniteSet(next)
  <2> DEFINE g == [f \in rows |-> Row(t, f[3] + 1, f[4])]
  <2>1. g \in Surjection(rows, next)  BY DEF Surjection
  <2> QED  BY <1>3, <2>1, FS_Surjection
<1>5. IsFiniteSet(S)  BY <1>3, <1>4, FS_Union
<1>6. \A f \in rows : f[3] \in Int /\ f[4] \in Batches
  BY <1>2 DEF Facts, Exists, Tabled, IsRow
<1>7. \A x \in next : x \in Facts /\ IsRow(x) /\ x[2] = t
  BY <1>6 DEF Row, Facts, Tabled, IsRow
<1>8. ASSUME rows # {} PROVE Rooted(S)
  <2>1. PICK f \in rows : TRUE  BY <1>8
  <2>2. Table(t) \in db["wp"]  BY <1>1, <1>2, <2>1 DEF Rooted
  <2>3. \A u : ~IsRow(Table(u))  BY DEF IsRow, Table
  <2>4. \A u : Table(u) \in db["wp"] => Table(u) \in S  BY <1>2, <2>3
  <2>5. ASSUME NEW x \in S, IsRow(x) PROVE Table(x[2]) \in S
    <3>1. CASE x \in next  BY <1>7, <2>2, <2>4, <3>1
    <3>2. CASE x \in db["wp"]  BY <1>1, <2>4, <2>5, <3>2 DEF Rooted
    <3> QED  BY <3>1, <3>2
  <2> QED  BY <2>5 DEF Rooted
<1>9. S \in SUBSET Facts  BY <1>1, <1>7
<1> HIDE DEF S
<1>10. rows # {} => Sound([db EXCEPT !["wp"] = S])
  BY <1>1, <1>5, <1>8, <1>9 DEF Sound
<1> QED  BY <1>10 DEF S

LEMMA EditInv == ASSUME Inv, NEW t \in Tables, Edit(t) PROVE Inv'
<1> DEFINE rows == {f \in About(db["wp"], t) : IsRow(f)}
           new  == [db EXCEPT !["wp"] = (@ \ rows) \cup {Row(t, f[3] + 1, f[4]) : f \in rows}]
<1>1. /\ rows # {} /\ db' = new /\ UNCHANGED <<call, file>>
      /\ work' = [j \in Calls |-> [work[j] EXCEPT !.alone = @ /\ call[j].target # "wp"]]
  BY DEF Edit
<1>2. Sound(new)  BY <1>1, EditSound DEF Inv
<1>3. \A d \in Databases : d # "wp" => new[d] = db[d]  BY DEF Inv, Type
<1> HIDE DEF new
<1>4. ASSUME NEW j \in Calls PROVE Spared(j) /\ work'[j] \in WorkStates
  <2>1. /\ work[j] \in WorkStates /\ call[j].target \in Databases
        /\ work'[j] = [work[j] EXCEPT !.alone = @ /\ call[j].target # "wp"]
    BY <1>1 DEF Inv, Type, CallStates
  <2>2. CASE work[j].alone /\ call[j].target # "wp"
    <3>1. work'[j] = work[j]  BY <2>1, <2>2 DEF WorkStates
    <3> QED  BY <1>1, <1>3, <2>1, <2>2, <3>1 DEF Spared
  <2>3. CASE ~(work[j].alone /\ call[j].target # "wp")
    <3>1. work'[j] = [work[j] EXCEPT !.alone = FALSE]  BY <2>1, <2>3 DEF WorkStates
    <3>2. work'[j] \in WorkStates /\ work'[j].alone = FALSE
      BY <2>1, <3>1 DEF WorkStates
    <3> QED  BY <1>1, <3>1, <3>2 DEF Spared
  <2> QED  BY <2>2, <2>3
<1>5. work' \in [Calls -> WorkStates]  BY <1>1, <1>4
<1>6. Type'  BY <1>1, <1>2, <1>5 DEF Sound, Inv, Type
<1>7. \A j \in Calls : Local(j)'  BY <1>4, SparedLocal
<1> QED  BY <1>6, <1>7 DEF Inv

LEMMA FirstContentSound ==
    /\ FirstContent \in SUBSET Facts /\ IsFiniteSet(FirstContent) /\ Rooted(FirstContent)
<1> DEFINE tables == {Table(t) : t \in Tables}
           rows   == {Row(t, 0, b) : t \in Tables, b \in Batches}
<1>1. FirstContent = {Exists} \cup tables \cup rows  BY DEF FirstContent
<1>2. IsFiniteSet(Tables) /\ IsFiniteSet(Batches)
  BY SizeAssumption, FS_Interval DEF Tables, Batches
<1>3. IsFiniteSet(tables)
  <2> DEFINE g == [t \in Tables |-> Table(t)]
  <2>1. g \in Surjection(Tables, tables)  BY DEF Surjection
  <2> QED  BY <1>2, <2>1, FS_Surjection
<1>4. IsFiniteSet(rows)
  <2> DEFINE g == [x \in Tables \X Batches |-> Row(x[1], 0, x[2])]
  <2>1. g \in [Tables \X Batches -> rows]
    <3> SUFFICES ASSUME NEW x \in Tables \X Batches PROVE Row(x[1], 0, x[2]) \in rows
      OBVIOUS
    <3> QED  OBVIOUS
  <2>2. ASSUME NEW y \in rows PROVE \E x \in Tables \X Batches : g[x] = y
    <3>1. PICK t \in Tables, b \in Batches : y = Row(t, 0, b)  OBVIOUS
    <3>2. <<t, b>> \in Tables \X Batches /\ g[<<t, b>>] = y  BY <3>1
    <3> QED  BY <3>2
  <2>3. g \in Surjection(Tables \X Batches, rows)  BY <2>1, <2>2 DEF Surjection
  <2>4. IsFiniteSet(Tables \X Batches)  BY <1>2, FS_Product
  <2> QED  BY <2>3, <2>4, FS_Surjection
<1>5. \A x \in tables : x \in Facts /\ ~IsRow(x)
  BY DEF Table, Facts, Tabled, IsRow
<1>6. \A x \in rows : x \in Facts /\ IsRow(x) /\ x[2] \in Tables
  BY DEF Row, Facts, Tabled, IsRow
<1>7. IsFiniteSet(FirstContent)
  <2> HIDE DEF tables, rows
  <2>1. IsFiniteSet({Exists} \cup tables)  BY <1>3, ExistsFacts, FS_Union
  <2>2. IsFiniteSet(({Exists} \cup tables) \cup rows)  BY <1>4, <2>1, FS_Union
  <2> QED  BY <1>1, <2>2
<1>8. FirstContent \in SUBSET Facts  BY <1>1, <1>5, <1>6, ExistsFacts
<1>9. Rooted(FirstContent)
  <2> SUFFICES ASSUME NEW f \in FirstContent, IsRow(f) PROVE Table(f[2]) \in FirstContent
    BY DEF Rooted
  <2>1. f \in rows  BY <1>1, <1>5, ExistsFacts
  <2>2. f[2] \in Tables  BY <1>6, <2>1
  <2> QED  BY <1>1, <2>2
<1> QED  BY <1>7, <1>8, <1>9

LEMMA InitInv == Init => Inv
<1> SUFFICES ASSUME Init PROVE Inv  OBVIOUS
<1>1. /\ db \in [Databases -> SUBSET Facts]
      /\ \A d \in Databases : IsFiniteSet(db[d]) /\ Rooted(db[d])
  <2>1. {} \in SUBSET Facts /\ IsFiniteSet({}) /\ Rooted({})
    BY FS_EmptySet DEF Rooted
  <2> QED  BY <2>1, FirstContentSound DEF Init
<1>2. Type  BY <1>1, Beginnings DEF Init, Type
<1>3. ASSUME NEW i \in Calls PROVE Local(i)
  <2>1. call[i] = NoCall /\ work[i] = NoWork /\ file[i] = NoFile  BY DEF Init
  <2>2. SidesOK(NoCall, NoWork, NoFile)  BY DEF SidesOK, NoCall, NoWork
  <2>3. BackupOK(NoCall, NoWork, NoFile)  BY DEF BackupOK, NoCall
  <2>4. \A S : RestoreOK(NoCall, NoWork, S)  BY DEF RestoreOK, NoCall
  <2> QED  BY <2>1, <2>2, <2>3, <2>4 DEF Local
<1> QED  BY <1>2, <1>3 DEF Inv

LEMMA NextInv == Inv /\ [Next]_vars => Inv'
<1> SUFFICES ASSUME Inv, [Next]_vars PROVE Inv'  OBVIOUS
<1>1. ASSUME NEW i \in Calls, Program(i) PROVE Inv'
  BY <1>1, BeginInv, PreflightInv, RequestExportInv, RequestImportInv, UploadBreaksInv,
     CopyEndsInv, CheckInv, AnswerInv, LeavesInv DEF Program
<1>2. ASSUME NEW i \in Calls, Plugin(i) PROVE Inv'
  BY <1>2, ConnectInv, ReadTableInv, EmitInv, ExportEndsInv, ExportFailsInv, RowsEndEarlyInv,
     PrepareInv, ExecInv, ExecFailsInv, ReconnectInv, ExecEndsInv, WorkerKilledInv DEF Plugin
<1>3. ASSUME NEW i \in Calls, Cancel(i) \/ NetworkLost(i) PROVE Inv'
  BY <1>3, CancelInv, NetworkLostInv
<1>4. ASSUME NEW t \in Tables, Edit(t) PROVE Inv'  BY <1>4, EditInv
<1>5. CASE UNCHANGED vars
  <2>1. UNCHANGED <<db, call, work, file>>  BY <1>5 DEF vars
  <2>2. Type'  BY <2>1 DEF Inv, Type
  <2>3. \A j \in Calls : Spared(j)  BY <2>1 DEF Spared
  <2> QED  BY <2>2, <2>3, SparedLocal DEF Inv
<1> QED  BY <1>1, <1>2, <1>3, <1>4, <1>5 DEF Next

(* Every reachable state has the types above, and every call keeps its part of
   the invariant, whatever the other requests and the site do beside it. *)
THEOREM Invariance == Spec => []Inv
BY InitInv, NextInv, PTL DEF Spec

(* A restore that was alone and reports success has put every table of the
   file into the target, row for row; and with the values of the file, if one
   connection took all of it and the file begins with its settings. *)
THEOREM RestoresAreWhole == Spec => []RestoredIsWhole
<1>1. Inv => RestoredIsWhole
  <2> SUFFICES ASSUME Inv, NEW i \in Calls, call[i].kind = "restore",
                      call[i].result = "ok", work[i].alone
               PROVE  work[i].rows /\ (OneSession(i) => work[i].whole)
    BY DEF RestoredIsWhole
  <2>1. RestoreOK(call[i], work[i], db[call[i].target])  BY DEF Inv, Local
  <2> QED  BY <2>1 DEF RestoreOK, OneSession, Steady
<1> QED  BY <1>1, Invariance, PTL

----------------------------------------------------------------------------
(* The site beside a deep verification. *)
IntoVerify(i) == call[i].kind = "restore" /\ call[i].target = "verify"

(* A step of request i writes to at most one database, and touches no other
   request unless it changes what that one writes to. *)
OneDatabase(i) ==
    /\ \E e \in Databases : /\ \A d \in Databases \ {e} : db'[d] = db[d]
                            /\ IntoVerify(i) => e = "verify"
    /\ \A j \in Calls \ {i} : work'[j] # work[j] => db'[call[j].target] # db[call[j].target]

LEMMA ChangeTouches ==
    ASSUME Inv, NEW i \in Calls, NEW new, NEW w, Change(new, i, w), NEW e \in Databases,
           \A d \in Databases \ {e} : new[d] = db[d], IntoVerify(i) => e = "verify"
    PROVE  OneDatabase(i)
<1>1. db' = new  BY DEF Change
<1>2. ASSUME NEW j \in Calls \ {i}, new[call[j].target] = db[call[j].target]
      PROVE  work'[j] = work[j]
  <2>1. work[j] \in WorkStates  BY DEF Inv, Type
  <2>2. work'[j] = [work[j] EXCEPT !.alone = @ /\ new[call[j].target] = db[call[j].target]]
    BY DEF Change
  <2> QED  BY <1>2, <2>1, <2>2 DEF WorkStates
<1> QED  BY <1>1, <1>2 DEF OneDatabase

LEMMA NothingTouches ==
    ASSUME Inv, NEW i \in Calls, NEW w, Change(db, i, w)
    PROVE  OneDatabase(i)
<1>1. "verify" \in Databases  BY DEF Databases
<1> QED  BY <1>1, ChangeTouches

LEMMA PrepareTouches ==
    ASSUME Inv, NEW i \in Calls, Prepare(i)
    PROVE  OneDatabase(i)
<1>1. CASE Change(db, i, Replies(work[i], "failed"))  BY <1>1, NothingTouches
<1>2. ASSUME NEW w, Change([db EXCEPT ![call[i].target] = @ \cup {Exists}], i, w)
      PROVE  OneDatabase(i)
  <2> DEFINE e   == call[i].target
             new == [db EXCEPT ![e] = @ \cup {Exists}]
  <2>1. e \in Databases /\ (IntoVerify(i) => e = "verify")
    BY DEF Inv, Type, CallStates, IntoVerify
  <2>2. \A d \in Databases \ {e} : new[d] = db[d]  BY DEF Inv, Type
  <2>3. Change(new, i, w)  BY <1>2
  <2> HIDE DEF new, e
  <2> QED  BY <2>1, <2>2, <2>3, ChangeTouches
<1> QED  BY <1>1, <1>2 DEF Prepare

LEMMA ExecTouches ==
    ASSUME Inv, NEW i \in Calls, Exec(i)
    PROVE  OneDatabase(i)
<1> DEFINE s  == Head(Head(work[i].todo))
           se == work[i].session
<1>1. ASSUME NEW w, Change(db, i, w) PROVE OneDatabase(i)  BY <1>1, NothingTouches
<1>2. ASSUME ~Skips(i, s), ~Refused(s, se), NEW x \in Becomes(s, se),
             NEW w, Change(Written(x, se.db), i, w)
      PROVE  OneDatabase(i)
  <2> DEFINE new == Written(x, se.db)
             e   == IF x[1] \in {"createdb", "dropdb"} THEN x[2] ELSE se.db
  <2>1. /\ Type /\ s \in Statements /\ se \in Sessions /\ se.db \in Databases
        /\ work[i].at = "exec" /\ RestoreOK(call[i], work[i], db[call[i].target])
    BY SessionFacts DEF Exec, Serving, Inv, Type, Local, WorkStates, Sessions
  <2> HIDE DEF s, se
  <2>6. x \in Statements /\ x[1] = s[1] /\ ~Refused(x, se)
    BY <1>2, <2>1, BecomesFacts
  <2>2. e \in Databases  BY <2>1, <2>6, StatementShape
  <2>3. \A d \in Databases \ {e} : new[d] = db[d]  BY <2>1, <2>6, WrittenFacts
  <2>4. ASSUME IntoVerify(i) PROVE e = "verify"
    <3>1. se.db = "verify"  BY <2>1, <2>4 DEF RestoreOK, IntoVerify, se
    <3>2. s[1] \notin {"createdb", "dropdb"}  BY <1>2, <2>4 DEF Skips, IntoVerify
    <3> QED  BY <2>6, <3>1, <3>2
  <2>5. Change(new, i, w)  BY <1>2
  <2> HIDE DEF e, new
  <2> QED  BY <2>2, <2>3, <2>4, <2>5, ChangeTouches
<1>3. \/ \E w : Change(db, i, w)
      \/ /\ ~Skips(i, s) /\ ~Refused(s, se)
         /\ \E x \in Becomes(s, se) : \E w : Change(Written(x, se.db), i, w)
  BY DEF Exec
<1> HIDE DEF s, se
<1> QED  BY <1>1, <1>2, <1>3

LEMMA EditTouches ==
    ASSUME Inv, NEW t \in Tables, Edit(t), NEW i \in Calls, IntoVerify(i)
    PROVE  work'[i] = work[i]
<1>1. work[i] \in WorkStates  BY DEF Inv, Type
<1>2. work'[i] = [work[i] EXCEPT !.alone = @ /\ call[i].target # "wp"]  BY DEF Edit
<1> QED  BY <1>1, <1>2 DEF WorkStates, IntoVerify

LEMMA ElseNothing ==
    ASSUME Inv, [Next]_vars
    PROVE  \/ db' = db
           \/ \E i \in Calls : OneDatabase(i)
           \/ \E t \in Tables : Edit(t)
<1>1. ASSUME NEW i \in Calls, Program(i) PROVE db' = db
  BY <1>1 DEF Program, Begin, Preflight, RequestExport, RequestImport, UploadBreaks, CopyEnds,
              Check, Answer, Broken, Abort
<1>2. ASSUME NEW i \in Calls, Plugin(i) PROVE db' = db \/ OneDatabase(i)
  <2>1. CASE Prepare(i) \/ Exec(i)  BY <2>1, PrepareTouches, ExecTouches
  <2>2. CASE ExecFails(i) \/ ExecEnds(i)  BY <2>2 DEF ExecFails, ExecEnds, Change
  <2>3. CASE \/ Connect(i) \/ ReadTable(i) \/ Emit(i) \/ ExportEnds(i) \/ ExportFails(i)
             \/ RowsEndEarly(i) \/ Reconnect(i) \/ WorkerKilled(i)
    BY <2>3 DEF Connect, ReadTable, Emit, ExportEnds, ExportFails, RowsEndEarly, Reconnect,
                WorkerKilled
  <2> QED  BY <1>2, <2>1, <2>2, <2>3 DEF Plugin
<1>3. ASSUME NEW i \in Calls, Cancel(i) \/ NetworkLost(i) PROVE db' = db
  BY <1>3 DEF Cancel, NetworkLost
<1>4. UNCHANGED vars => db' = db  BY DEF vars
<1> QED  BY <1>1, <1>2, <1>3, <1>4 DEF Next

(* An import into the database of a deep verification never changes the one
   the site works with: neither its own statements, nor one after wpdb has
   reconnected, and what other requests write at the same step is not "wp". *)
THEOREM VerifyIsolated == Spec => VerifyLeavesSiteAlone
<1> DEFINE A == \A i \in Calls :
                   call[i].kind = "restore" /\ call[i].target = "verify" /\ work'[i] # work[i]
                      => db'["wp"] = db["wp"]
<1>1. Inv /\ [Next]_vars => A
  <2> SUFFICES ASSUME Inv, [Next]_vars, NEW i \in Calls, IntoVerify(i), work'[i] # work[i]
               PROVE  db'["wp"] = db["wp"]
    BY DEF IntoVerify
  <2>1. CASE \E t \in Tables : Edit(t)  BY <2>1, EditTouches
  <2>2. ASSUME NEW j \in Calls, OneDatabase(j) PROVE db'["wp"] = db["wp"]
    <3>1. PICK e \in Databases : /\ \A d \in Databases \ {e} : db'[d] = db[d]
                                 /\ IntoVerify(j) => e = "verify"
      BY <2>2 DEF OneDatabase
    <3>2. CASE i = j  BY <3>1, <3>2 DEF Databases
    <3>3. CASE i # j
      <4>1. db'["verify"] # db["verify"]  BY <2>2, <3>3 DEF OneDatabase, IntoVerify
      <4> QED  BY <3>1, <4>1 DEF Databases
    <3> QED  BY <3>2, <3>3
  <2> QED  BY <2>1, <2>2, ElseNothing
<1>2. Inv /\ [Next]_vars => [A]_vars  BY <1>1
<1> QED  BY <1>2, Invariance, PTL DEF Spec, VerifyLeavesSiteAlone

----------------------------------------------------------------------------
(* What App.Backup relies on. *)

(* Of what a backup has read and left to read, nothing changes. *)
Keeps(j) == /\ work'[j].left = work[j].left /\ work'[j].view = work[j].view
            /\ work'[j].cut = work[j].cut

(* A step of call i leaves the other backups alone, and this one if it has
   returned; a success is no more than the answer. *)
OneBackup(i) ==
    /\ \A j \in Calls \ {i} : call'[j] = call[j] /\ file'[j] = file[j] /\ Keeps(j)
    /\ call[i].kind = "backup" /\ call[i].result # "none" =>
          /\ call'[i] = call[i] /\ file'[i] = file[i]
          /\ call[i].result = "ok" => Keeps(i)
    /\ /\ call[i].kind # "backup" \/ call[i].result = "none"
       /\ call'[i].kind = "backup" /\ call'[i].result = "ok"
       => work'[i] = work[i] /\ file'[i] = file[i]

LEMMA OthersStay ==
    ASSUME Inv, NEW i \in Calls,
           \/ UNCHANGED call
           \/ \E c : Step(i, c),
           \/ UNCHANGED work
           \/ \E w : Serve(i, w)
           \/ \E new, w : Change(new, i, w),
           \/ UNCHANGED file
           \/ \E f : Puts(i, f)
    PROVE  \A j \in Calls \ {i} : call'[j] = call[j] /\ file'[j] = file[j] /\ Keeps(j)
<1> SUFFICES ASSUME NEW j \in Calls, j # i
             PROVE  call'[j] = call[j] /\ file'[j] = file[j] /\ Keeps(j)
  OBVIOUS
<1>1. call'[j] = call[j]  BY DEF Step, Inv, Type
<1>2. file'[j] = file[j]  BY DEF Puts, Inv, Type
<1>3. UNCHANGED work => Keeps(j)  BY DEF Keeps
<1>4. ASSUME NEW w, Serve(i, w) PROVE Keeps(j)
  BY <1>4 DEF Serve, Keeps, Inv, Type
<1>5. ASSUME NEW new, NEW w, Change(new, i, w) PROVE Keeps(j)
  <2>1. work[j] \in WorkStates  BY DEF Inv, Type
  <2>2. work'[j] = [work[j] EXCEPT !.alone = @ /\ new[call[j].target] = db[call[j].target]]
    BY <1>5 DEF Change
  <2> QED  BY <2>1, <2>2 DEF WorkStates, Keeps
<1> QED  BY <1>1, <1>2, <1>3, <1>4, <1>5

LEMMA CallSteps ==
    ASSUME Inv, NEW i \in Calls,
           \/ Begin(i) \/ Preflight(i) \/ CopyEnds(i) \/ Answer(i) \/ Broken(i) \/ Abort(i)
           \/ Cancel(i) \/ NetworkLost(i)
    PROVE  OneBackup(i)
<1>1. UNCHANGED <<work, file>> /\ \E c : Step(i, c)
  BY DEF Begin, Preflight, CopyEnds, Answer, Broken, Abort, Cancel, NetworkLost
<1>2. call[i].at # "done"
  BY DEF Begin, Preflight, CopyEnds, Answer, Broken, Abort, Cancel, NetworkLost, Listening, At
<1>3. call[i].result = "none"  BY <1>2 DEF Inv, Local, SidesOK
<1>4. \A j \in Calls \ {i} : call'[j] = call[j] /\ file'[j] = file[j] /\ Keeps(j)
  BY <1>1, OthersStay
<1> QED  BY <1>1, <1>3, <1>4 DEF OneBackup

LEMMA CheckStep == ASSUME Inv, NEW i \in Calls, Check(i) PROVE OneBackup(i)
<1> DEFINE ok == ~call[i].canceled /\ ~call[i].broken /\ Acceptable(i)
           e == Ended(call[i], IF ok THEN "ok" ELSE "failed")
<1>1. PICK f \in IF ok THEN {file[i]} ELSE Removed(file[i]) : Puts(i, f)
  BY DEF Check, Puts
<1>2. call[i].at = "check" /\ Step(i, e) /\ UNCHANGED work
  BY DEF Check, At
<1>3. call[i] \in CallStates /\ call[i].result = "none"
  BY <1>2 DEF Inv, Type, Local, SidesOK
<1>4. e.result = IF ok THEN "ok" ELSE "failed"  BY <1>3, EndedFacts
<1>5. \A j \in Calls \ {i} : call'[j] = call[j] /\ file'[j] = file[j] /\ Keeps(j)
  BY <1>1, <1>2, OthersStay
<1>6. call'[i] = e /\ file'[i] = f /\ (ok => f = file[i])
  BY <1>1, <1>2 DEF Step, Puts, Inv, Type
<1> HIDE DEF ok, e
<1> QED  BY <1>2, <1>3, <1>4, <1>5, <1>6 DEF OneBackup

LEMMA RequestExportStep == ASSUME Inv, NEW i \in Calls, RequestExport(i) PROVE OneBackup(i)
<1>1. /\ call[i].at = "request" /\ \E c : Step(i, c)
      /\ UNCHANGED work \/ \E w : Serve(i, w)
      /\ UNCHANGED file \/ \E f : Puts(i, f)
  BY DEF RequestExport, At, Puts
<1>2. call[i] \in CallStates /\ call[i].result = "none"
  BY <1>1 DEF Inv, Type, Local, SidesOK
<1>3. \A j \in Calls \ {i} : call'[j] = call[j] /\ file'[j] = file[j] /\ Keeps(j)
  BY <1>1, OthersStay
<1>4. call'[i].result # "ok"
  <2>1. CASE Step(i, Ended(call[i], "failed"))
    BY <1>2, <2>1, EndedFacts DEF Step, Inv, Type
  <2>2. CASE Step(i, [call[i] EXCEPT !.at = "copy"])
    BY <1>2, <2>2 DEF Step, Inv, Type, CallStates
  <2> QED  BY <2>1, <2>2 DEF RequestExport
<1> QED  BY <1>2, <1>3, <1>4 DEF OneBackup

(* Imports and queries are no backups. *)
LEMMA ImportSteps ==
    ASSUME Inv, NEW i \in Calls,
           \/ RequestImport(i) \/ UploadBreaks(i) \/ Prepare(i) \/ Exec(i) \/ ExecFails(i)
           \/ Reconnect(i) \/ ExecEnds(i) \/ WorkerKilled(i)
    PROVE  OneBackup(i)
<1>1. call[i] \in CallStates /\ SidesOK(call[i], work[i], file[i])
  BY DEF Inv, Type, Local
<1>2. call[i].kind # "backup"
  BY <1>1 DEF SidesOK, RequestImport, UploadBreaks, Prepare, Exec, ExecFails, Reconnect,
              ExecEnds, WorkerKilled, Serving
<1>3. UNCHANGED file
  BY DEF RequestImport, UploadBreaks, Prepare, Exec, ExecFails, Reconnect, ExecEnds, WorkerKilled
<1>4. UNCHANGED call \/ \E c \in CallStates : c.kind = call[i].kind /\ Step(i, c)
  <2>1. CASE RequestImport(i)
    BY <1>1, <2>1 DEF RequestImport, CallStates
  <2>2. CASE UploadBreaks(i)
    BY <1>1, <2>2 DEF UploadBreaks, CallStates
  <2>3. CASE WorkerKilled(i)
    <3> DEFINE b == call[i].broken \/ At(i, "wait")
    <3>1. Step(i, [call[i] EXCEPT !.broken = b])  BY <2>3 DEF WorkerKilled
    <3>2. b \in BOOLEAN  OBVIOUS
    <3> HIDE DEF b
    <3> QED  BY <1>1, <3>1, <3>2 DEF CallStates
  <2> QED  BY <2>1, <2>2, <2>3 DEF Prepare, Exec, ExecFails, Reconnect, ExecEnds
<1>5. UNCHANGED work \/ (\E w : Serve(i, w)) \/ (\E new, w : Change(new, i, w))
  BY DEF RequestImport, UploadBreaks, Prepare, Exec, ExecFails, Reconnect, ExecEnds, WorkerKilled
<1>6. \A j \in Calls \ {i} : call'[j] = call[j] /\ file'[j] = file[j] /\ Keeps(j)
  BY <1>3, <1>4, <1>5, OthersStay
<1>7. call'[i].kind = call[i].kind  BY <1>4 DEF Step, Inv, Type
<1> QED  BY <1>2, <1>6, <1>7 DEF OneBackup

LEMMA ExportSteps ==
    ASSUME Inv, NEW i \in Calls,
           \/ Connect(i) \/ ReadTable(i) \/ Emit(i) \/ ExportEnds(i) \/ ExportFails(i)
           \/ RowsEndEarly(i)
    PROVE  OneBackup(i)
<1>1. work[i].at \in {"connect", "export"} /\ UNCHANGED call /\ \E w : Serve(i, w)
  BY DEF Connect, ReadTable, Emit, ExportEnds, ExportFails, RowsEndEarly, EndsWith, Serving
<1>2. call[i].kind = "backup" /\ SidesOK(call[i], work[i], file[i]) /\ call[i].result # "ok"
  BY <1>1, ExportingFacts
<1>3. UNCHANGED file \/ (Listening(i) /\ \E f : Puts(i, f))
  <2>1. CASE Emit(i)  BY <2>1 DEF Emit, Puts
  <2>2. CASE ExportEnds(i)  BY <2>2 DEF ExportEnds, EndsWith, Puts
  <2>3. CASE ExportFails(i)  BY <2>3 DEF ExportFails, EndsWith, Puts
  <2> QED  BY <2>1, <2>2, <2>3 DEF Connect, ReadTable, RowsEndEarly
<1>4. \A j \in Calls \ {i} : call'[j] = call[j] /\ file'[j] = file[j] /\ Keeps(j)
  BY <1>1, <1>3, OthersStay
<1>5. Listening(i) => call[i].result = "none"  BY <1>2 DEF Listening, SidesOK
<1> QED  BY <1>1, <1>2, <1>3, <1>4, <1>5 DEF OneBackup

LEMMA EditKeeps ==
    ASSUME Inv, NEW t \in Tables, Edit(t), NEW j \in Calls
    PROVE  call'[j] = call[j] /\ file'[j] = file[j] /\ Keeps(j)
<1>1. work[j] \in WorkStates  BY DEF Inv, Type
<1>2. work'[j] = [work[j] EXCEPT !.alone = @ /\ call[j].target # "wp"]  BY DEF Edit
<1> QED  BY <1>1, <1>2 DEF Edit, WorkStates, Keeps

LEMMA EachStep ==
    ASSUME Inv, [Next]_vars
    PROVE  \/ \E i \in Calls : OneBackup(i)
           \/ \A j \in Calls : call'[j] = call[j] /\ file'[j] = file[j] /\ Keeps(j)
<1>1. ASSUME NEW i \in Calls, Program(i) PROVE OneBackup(i)
  BY <1>1, CallSteps, CheckStep, RequestExportStep, ImportSteps DEF Program
<1>2. ASSUME NEW i \in Calls, Plugin(i) PROVE OneBackup(i)
  BY <1>2, ExportSteps, ImportSteps DEF Plugin
<1>3. ASSUME NEW i \in Calls, Cancel(i) \/ NetworkLost(i) PROVE OneBackup(i)
  BY <1>3, CallSteps
<1>4. ASSUME UNCHANGED vars, NEW j \in Calls
      PROVE  call'[j] = call[j] /\ file'[j] = file[j] /\ Keeps(j)
  BY <1>4 DEF vars, Keeps
<1> QED  BY <1>1, <1>2, <1>3, <1>4, EditKeeps DEF Next

(* The mapping, as in the specification: what the calls of App.Backup have
   returned, and what lies under their paths. *)
Outcomes == [i \in Calls |-> IF call[i].kind = "backup" THEN call[i].result ELSE "none"]
Copied   == [i \in Calls |-> IF ~file[i].there THEN "none"
                             ELSE IF file[i].stuck THEN "stuck"
                             ELSE IF WholeFile(i) THEN "whole" ELSE "partial"]

OutcomeOf(c) == IF c.kind = "backup" THEN c.result ELSE "none"
Whole(w, f)  == /\ f.tail = "trailer"
                /\ w.left = <<>>
                /\ w.view \ RowsCut(w) \subseteq Content(f.got)
CopyOf(w, f) == IF ~f.there THEN "none" ELSE IF f.stuck THEN "stuck"
                ELSE IF Whole(w, f) THEN "whole" ELSE "partial"

LEMMA Mapped ==
    /\ Outcomes = [i \in Calls |-> OutcomeOf(call[i])]
    /\ Copied = [i \in Calls |-> CopyOf(work[i], file[i])]
    /\ Outcomes' = [i \in Calls |-> OutcomeOf(call'[i])]
    /\ Copied' = [i \in Calls |-> CopyOf(work'[i], file'[i])]
<1>1. \A i \in Calls : WholeFile(i) <=> Whole(work[i], file[i])
  BY DEF WholeFile, Whole, RowsCut
<1>2. \A i \in Calls : WholeFile(i)' <=> Whole(work'[i], file'[i])
  BY DEF WholeFile, Whole, RowsCut
<1>3. Copied = [i \in Calls |-> CopyOf(work[i], file[i])]  BY <1>1 DEF Copied, CopyOf
<1>4. Copied' = [i \in Calls |-> CopyOf(work'[i], file'[i])]  BY <1>2 DEF Copied, CopyOf
<1> QED  BY <1>3, <1>4 DEF Outcomes, OutcomeOf

(* A success is whole, and a failure leaves nothing that could be removed. *)
LEMMA EndsOfBackups ==
    ASSUME NEW c, NEW w, NEW f, SidesOK(c, w, f), BackupOK(c, w, f)
    PROVE  /\ OutcomeOf(c) = "ok" => CopyOf(w, f) = "whole"
           /\ OutcomeOf(c) = "failed" => CopyOf(w, f) \in {"none", "stuck"}
           /\ OutcomeOf(c) # "failed" => CopyOf(w, f) \in {"none", "partial", "whole"}
<1>1. CASE c.kind = "backup"
  BY <1>1, Beginnings DEF BackupOK, OutcomeOf, CopyOf, Whole
<1>2. CASE c.kind # "backup"
  <2>1. f = NoFile /\ OutcomeOf(c) = "none"  BY <1>2 DEF SidesOK, OutcomeOf
  <2> QED  BY <2>1, Beginnings DEF CopyOf
<1> QED  BY <1>1, <1>2

LEMMA KeptCopy ==
    ASSUME NEW j \in Calls, file'[j] = file[j], Keeps(j)
    PROVE  CopyOf(work'[j], file'[j]) = CopyOf(work[j], file[j])
BY DEF Keeps, CopyOf, Whole, RowsCut

LEMMA InitPromise == Init => Promise!Init
<1> SUFFICES ASSUME Init PROVE Promise!Init  OBVIOUS
<1>1. ASSUME NEW i \in Calls
      PROVE  OutcomeOf(call[i]) = "none" /\ CopyOf(work[i], file[i]) = "none"
  BY Beginnings DEF Init, NoCall, OutcomeOf, CopyOf
<1>2. Outcomes = [i \in Calls |-> "none"] /\ Copied = [i \in Calls |-> "none"]
  BY <1>1, Mapped
<1>3. Copied \in [Calls -> {"none", "partial"}]  BY <1>2
<1> QED  BY <1>2, <1>3 DEF Promise!Init, Outcomes, Copied

LEMMA NextPromise ==
    ASSUME Inv, Inv', [Next]_vars
    PROVE  [Promise!Next]_<<Outcomes, Copied>>
<1>1. ASSUME \A j \in Calls : call'[j] = call[j] /\ file'[j] = file[j] /\ Keeps(j)
      PROVE  UNCHANGED <<Outcomes, Copied>>
  BY <1>1, Mapped, KeptCopy
<1>2. ASSUME NEW i \in Calls, OneBackup(i)
      PROVE  [Promise!Next]_<<Outcomes, Copied>>
  <2> DEFINE o == OutcomeOf(call'[i])
             p == CopyOf(work'[i], file'[i])
  <2>1. /\ BackupOK(call[i], work[i], file[i]) /\ BackupOK(call'[i], work'[i], file'[i])
        /\ SidesOK(call[i], work[i], file[i]) /\ SidesOK(call'[i], work'[i], file'[i])
        /\ call[i] \in CallStates /\ call'[i] \in CallStates
    <3>1. SidesOK(call'[i], work'[i], file'[i])  BY DEF Inv, Local, SidesOK
    <3> QED  BY <3>1 DEF Inv, Type, Local, BackupOK, RowsCut, Kept, Ordered
  <2>2. /\ o = "ok" => p = "whole"
        /\ o = "failed" => p \in {"none", "stuck"}
        /\ o # "failed" => p \in {"none", "partial", "whole"}
    BY <2>1, EndsOfBackups
  <2>3. o \in {"none", "ok", "failed"}  BY <2>1 DEF OutcomeOf, CallStates
  <2>4. \A j \in Calls \ {i} : /\ OutcomeOf(call'[j]) = OutcomeOf(call[j])
                                /\ CopyOf(work'[j], file'[j]) = CopyOf(work[j], file[j])
    BY <1>2, KeptCopy DEF OneBackup
  <2>5. /\ Outcomes' = [Outcomes EXCEPT ![i] = o] /\ Outcomes[i] = OutcomeOf(call[i])
        /\ Copied' = [Copied EXCEPT ![i] = p] /\ Copied[i] = CopyOf(work[i], file[i])
    BY <2>4, Mapped
  <2>6. CASE OutcomeOf(call[i]) # "none"
    <3>1. call'[i] = call[i] /\ file'[i] = file[i] /\ (call[i].result = "ok" => Keeps(i))
      BY <1>2, <2>6 DEF OneBackup, OutcomeOf
    <3>2. p = CopyOf(work[i], file[i])
      <4>1. CASE call[i].result = "ok"  BY <3>1, <4>1, KeptCopy
      <4>2. CASE call[i].result # "ok"
        <5>1. OutcomeOf(call[i]) = "failed"
          BY <2>1, <2>6, <4>2 DEF OutcomeOf, CallStates
        <5>2. CopyOf(work[i], file[i]) \in {"none", "stuck"}  BY <2>1, <5>1, EndsOfBackups
        <5>3. p \in {"none", "stuck"} /\ file'[i] = file[i]  BY <2>2, <3>1, <5>1
        <5> QED  BY <5>2, <5>3 DEF CopyOf, Whole
      <4> QED  BY <4>1, <4>2
    <3> QED  BY <2>4, <3>1, <3>2, Mapped
  <2>7. CASE OutcomeOf(call[i]) = "none"
    <3> HIDE DEF o, p
    <3>1. CASE o = "none"
      <4>1. UNCHANGED Outcomes
        <5>1. Outcomes = [Outcomes EXCEPT ![i] = "none"]  BY <2>5, <2>7 DEF Outcomes
        <5> QED  BY <2>5, <3>1, <5>1
      <4>2. Promise!Write(i)
        BY <2>2, <2>5, <2>7, <3>1, <4>1
           DEF Promise!Write, Promise!Puts, Promise!Copies, Outcomes, Copied
      <4> QED  BY <4>2 DEF Promise!Next
    <3>2. CASE o = "failed"
      <4>1. Promise!Fail(i)
        BY <2>2, <2>5, <2>7, <3>2 DEF Promise!Fail, Promise!Ends, Promise!Puts, Outcomes, Copied
      <4> QED  BY <4>1 DEF Promise!Next
    <3>3. CASE o = "ok"
      <4>1. work'[i] = work[i] /\ file'[i] = file[i]
        BY <1>2, <2>1, <2>7, <3>3 DEF OneBackup, OutcomeOf, o
      <4>2. p = Copied[i] /\ p = "whole"  BY <2>2, <2>5, <3>3, <4>1 DEF p
      <4>3. UNCHANGED Copied
        <5>1. Copied = [Copied EXCEPT ![i] = p]  BY <4>2 DEF Copied
        <5> QED  BY <2>5, <5>1
      <4>4. Promise!Succeed(i)
        BY <2>5, <2>7, <3>3, <4>2, <4>3 DEF Promise!Succeed, Promise!Ends, Outcomes, Copied
      <4> QED  BY <4>4 DEF Promise!Next
    <3> QED  BY <2>3, <3>1, <3>2, <3>3 DEF o
  <2> QED  BY <2>6, <2>7
<1> QED  BY <1>1, <1>2, EachStep

(* A backup through the plugin keeps the promise of BackupCall, for any number
   of calls, tables and rows and with either driver: success only with all that
   was read, nothing left behind by a failure, and a path that neither the
   plugin nor a later call touches once the call has returned. *)
THEOREM ImplementsBackupCall == Spec => BackupKeepsPromise
<1>1. Inv /\ Inv' /\ [Next]_vars => [Promise!Next]_<<Outcomes, Copied>>
  BY NextPromise
<1> QED  BY InitPromise, <1>1, Invariance, PTL
         DEF Spec, BackupKeepsPromise, Promise!Spec, Outcomes, Copied
================================================================================
