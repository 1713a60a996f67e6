-------------------------- MODULE DeepVerify_proofs --------------------------
(***************************************************************************)
(* Proofs about DeepVerify, for any verifications, records and tables, any  *)
(* split between SSH and the plugin, any damage and any number of seconds.  *)
(***************************************************************************)
EXTENDS DeepVerify, FiniteSetTheorems, TLAPS

Imports == {"idle", "name", "connect", "create", "prepare", "import"}   \* nothing is counted yet
Counts  == {"count", "drop"}
Works   == {"connect", "create", "prepare", "import", "count", "drop"}
Acts    == Works \cup {"deferred"}

(* v has the database to itself and its file is as it was written. *)
Clean(v) == Alone(v) /\ Whole(v)

Type == /\ TypeOK
        /\ dbs \in [Databases -> SUBSET (Rows \cup Absent)]
        /\ DOMAIN counted = Verifs

(* A verification has a name once it acts, and a record that keeps its
   checksum and its fingerprint. *)
Named(v) ==
    /\ pc[v] \in {"idle", "name"} => name[v] = Unnamed
    /\ pc[v] \in Acts => name[v] \in Seconds
    /\ pc[v] \notin {"idle", "done"} => record[rec[v]].sha /\ record[rec[v]].prints # {}
    /\ pc[v] = "deferred" => result[v] = "error"

(* The database holds exactly what this attempt has imported so far ... *)
ImportOK(v) ==
    pc[v] = "import" /\ Clean(v) =>
        \A t \in Tables :
            RowsOf(v, t) = IF t \in todo[v] \/ Escapes(v) THEN {} ELSE {<<v, attempt[v], t>>}

(* ... then the rows of one attempt, one of each table, or none if the dump went
   elsewhere ... *)
CountOK(v) ==
    pc[v] = "count" /\ Clean(v) =>
        \E n \in 1..2 : \A t \in Tables : RowsOf(v, t) \subseteq {<<v, n, t>>}

(* ... and the counts are those of the tables that are done. *)
CountedOK(v) ==
    /\ pc[v] \in Imports => counted[v] = NoTables
    /\ pc[v] \in Counts => todo[v] \subseteq DOMAIN PrintsOf(rec[v])
    /\ pc[v] = "drop" => todo[v] = {}
    /\ pc[v] \in Counts /\ Clean(v) =>
          counted[v] = [t \in DOMAIN PrintsOf(rec[v]) \ todo[v] |-> 1]

(* What may be left of a verification that is over. *)
LeftOK(v) ==
    pc[v] = "done" /\ name[v] # Unnamed /\ Alone(v) /\ dbs[name[v]] # Absent
    => cut[v] /\ result[v] = "error"

Local(v) == Named(v) /\ ImportOK(v) /\ CountOK(v) /\ CountedOK(v) /\ LeftOK(v)

(* A command that comes late belongs to a verification that has failed. *)
LateOK ==
    \A c \in late : /\ c[1] \in Verifs
                    /\ pc[c[1]] \in {"deferred", "done"}
                    /\ name[c[1]] \in Seconds
                    /\ cut[c[1]] /\ result[c[1]] = "error"

(* A database of a second nobody is named after is not there. *)
DbsNamed == \A s \in Seconds : dbs[s] # Absent => \E w \in Verifs : name[w] = s

Inv == Type /\ (\A v \in Verifs : Local(v)) /\ LateOK /\ DbsNamed

----------------------------------------------------------------------------
(* What a step of v does to the rest: it leaves the others, the records' files
   and fingerprints, and every database but production and the one it
   is named after. *)
Elsewhere(v) ==
    /\ \A w \in Verifs \ {v} :
          /\ pc'[w] = pc[w] /\ name'[w] = name[w] /\ attempt'[w] = attempt[w]
          /\ todo'[w] = todo[w] /\ counted'[w] = counted[w]
          /\ result'[w] = result[w] /\ cut'[w] = cut[w]
    /\ rec' = rec
    /\ file' = file /\ names' = names
    /\ \A r \in Records : /\ record'[r].sha = record[r].sha
                          /\ record'[r].prints = record[r].prints
    /\ name'[v] = name[v] \/ name[v] = Unnamed
    /\ \A d \in Databases : d \in {name[v], Production} \/ dbs'[d] = dbs[d]

(* ... and adds commands to late only when it has failed. *)
LateStep(v) ==
    \A c \in late' :
        \/ c \in late /\ c[1] # v
        \/ /\ c[1] = v
           /\ pc'[v] \in {"deferred", "done"} /\ name'[v] \in Seconds
           /\ cut'[v] /\ result'[v] = "error"

LEMMA SecondsFacts ==
    Unnamed \notin Seconds /\ Production \notin Seconds /\ Seconds \subseteq Databases
BY VerifyAssumption DEF Unnamed, Production, Seconds, Databases

(* What of the invariant survives when nothing of w changes. *)
LEMMA SameLocal ==
    ASSUME Inv, NEW w \in Verifs,
           pc'[w] = pc[w], name'[w] = name[w], attempt'[w] = attempt[w],
           todo'[w] = todo[w], counted'[w] = counted[w], result'[w] = result[w],
           cut'[w] = cut[w], rec'[w] = rec[w], names' = names,
           name[w] # Unnamed /\ Alone(w)' => Alone(w) /\ dbs'[name[w]] = dbs[name[w]],
           Whole(w)' => Whole(w),
           pc[w] \notin {"idle", "done"} =>
              /\ record'[rec[w]].sha = record[rec[w]].sha
              /\ record'[rec[w]].prints = record[rec[w]].prints
    PROVE  Local(w)'
<1> USE SecondsFacts
<1>1. Local(w)  BY DEF Inv
<1>2. Named(w)'  BY <1>1 DEF Local, Named
<1>3. pc[w] \in {"import", "count", "drop"} => name[w] # Unnamed
  BY <1>1 DEF Local, Named, Acts, Works
<1>4. ImportOK(w)'
  BY <1>1, <1>3 DEF Local, ImportOK, Clean, RowsOf, Escapes, Caught
<1>5. CountOK(w)'
  BY <1>1, <1>3 DEF Local, CountOK, Clean, RowsOf
<1>6. CountedOK(w)'
  <2>1. pc[w] \in Counts => PrintsOf(rec[w])' = PrintsOf(rec[w])
    BY DEF PrintsOf, Counts
  <2> QED  BY <1>1, <1>3, <2>1 DEF Local, CountedOK, Clean, Counts
<1>7. LeftOK(w)'  BY <1>1 DEF Local, LeftOK
<1> QED  BY <1>2, <1>4, <1>5, <1>6, <1>7 DEF Local

LEMMA StepInv ==
    ASSUME Inv, Type', NEW v \in Verifs, Elsewhere(v), Local(v)', LateStep(v)
    PROVE  Inv'
<1> USE SecondsFacts
<1>1. ASSUME NEW w \in Verifs \ {v} PROVE Local(w)'
  <2>1. rec[w] \in Records  BY DEF Inv, Type, TypeOK
  <2>2. ASSUME name[w] # Unnamed, Alone(w)'
        PROVE  Alone(w) /\ dbs'[name[w]] = dbs[name[w]]
    <3>1. \A u \in Verifs \ {w} : name'[u] # name[w]
      BY <2>2 DEF Alone, Elsewhere
    <3>2. name[v] # name[w]
      BY <2>2, <3>1 DEF Elsewhere
    <3>3. Alone(w)  BY <3>1, <3>2 DEF Alone, Elsewhere
    <3>4. name[w] \in Databases \ {Production}  BY <2>2 DEF Inv, Type, TypeOK
    <3> QED  BY <3>2, <3>3, <3>4 DEF Elsewhere
  <2>3. Whole(w)' => Whole(w)  BY DEF Whole, Elsewhere
  <2> QED  BY <2>1, <2>2, <2>3, SameLocal DEF Elsewhere
<1>2. LateOK'
  <2> SUFFICES ASSUME NEW c \in late'
               PROVE  /\ c[1] \in Verifs
                      /\ pc'[c[1]] \in {"deferred", "done"}
                      /\ name'[c[1]] \in Seconds
                      /\ cut'[c[1]] /\ result'[c[1]] = "error"
    BY DEF LateOK
  <2>1. CASE c[1] = v  BY <2>1 DEF LateStep
  <2>2. CASE c[1] # v
    <3>1. c \in late  BY <2>2 DEF LateStep
    <3> QED  BY <2>2, <3>1 DEF Inv, LateOK, Elsewhere
  <2> QED  BY <2>1, <2>2
<1>3. DbsNamed'
  <2> SUFFICES ASSUME NEW s \in Seconds, dbs'[s] # Absent
               PROVE  \E w \in Verifs : name'[w] = s
    BY DEF DbsNamed
  <2>1. CASE name[v] = s  BY <2>1 DEF Elsewhere
  <2>2. CASE name[v] # s
    <3>1. PICK w \in Verifs : name[w] = s
      BY <2>2 DEF Elsewhere, Inv, DbsNamed
    <3> QED  BY <2>2, <3>1 DEF Elsewhere
  <2> QED  BY <2>1, <2>2
<1> QED  BY <1>1, <1>2, <1>3 DEF Inv

----------------------------------------------------------------------------
LEMMA InitInv == Init => Inv
<1> SUFFICES ASSUME Init PROVE Inv  OBVIOUS
<1> USE SecondsFacts
<1>1. TypeOK
  BY VerifyAssumption DEF Init, TypeOK, Seconds, Verdicts, Places, NoTables
<1>2. dbs \in [Databases -> SUBSET (Rows \cup Absent)]
  BY DEF Init
<1>3. DOMAIN counted = Verifs  BY DEF Init
<1>4. ASSUME NEW v \in Verifs PROVE Local(v)
  BY DEF Init, Local, Named, ImportOK, CountOK, CountedOK, LeftOK, Acts, Works, Imports, Counts
<1>5. LateOK  BY DEF Init, LateOK
<1>6. DbsNamed  BY DEF Init, DbsNamed
<1> QED  BY <1>1, <1>2, <1>3, <1>4, <1>5, <1>6 DEF Inv, Type

----------------------------------------------------------------------------
(* The ways out. *)
LEMMA LeaveFacts ==
    ASSUME Inv, NEW v \in Verifs, Leave(v)
    PROVE  /\ pc' = [pc EXCEPT ![v] = "deferred"] /\ pc'[v] = "deferred"
           /\ result' = [result EXCEPT ![v] = "error"] /\ result'[v] = "error"
           /\ pc' \in [Verifs -> Places]
           /\ result' \in [Verifs -> {"none", "error", "verdict"}]
           /\ up' \in [Verifs -> BOOLEAN]
           /\ todo' \in [Verifs -> SUBSET Tables]
           /\ attempt' \in [Verifs -> 1..2]
           /\ \A w \in Verifs \ {v} :
                 /\ pc'[w] = pc[w] /\ result'[w] = result[w] /\ up'[w] = up[w]
                 /\ todo'[w] = todo[w] /\ attempt'[w] = attempt[w]
<1>1. /\ pc \in [Verifs -> Places]
      /\ result \in [Verifs -> {"none", "error", "verdict"}]
      /\ up \in [Verifs -> BOOLEAN]
      /\ todo \in [Verifs -> SUBSET Tables]
      /\ attempt \in [Verifs -> 1..2]
  BY DEF Inv, Type, TypeOK
<1> QED  BY <1>1 DEF Leave, Goto, Places

LEMMA OverFacts ==
    ASSUME Inv, NEW v \in Verifs, Over(v)
    PROVE  /\ pc'[v] = "done" /\ counted'[v] = NoTables
           /\ pc' \in [Verifs -> Places]
           /\ canceled' \in [Verifs -> BOOLEAN]
           /\ watched' \in [Verifs -> BOOLEAN]
           /\ DOMAIN counted' = Verifs
           /\ \A w \in Verifs : DOMAIN counted'[w] \subseteq Tables
           /\ \A w \in Verifs \ {v} : pc'[w] = pc[w] /\ counted'[w] = counted[w]
<1>1. /\ pc \in [Verifs -> Places]
      /\ canceled \in [Verifs -> BOOLEAN] /\ watched \in [Verifs -> BOOLEAN]
      /\ DOMAIN counted = Verifs
      /\ \A w \in Verifs : DOMAIN counted[w] \subseteq Tables
  BY DEF Inv, Type, TypeOK
<1>2. /\ pc'[v] = "done" /\ pc' \in [Verifs -> Places]
      /\ canceled' \in [Verifs -> BOOLEAN] /\ watched' \in [Verifs -> BOOLEAN]
      /\ \A w \in Verifs \ {v} : pc'[w] = pc[w]
  BY <1>1 DEF Over, Goto, Places
<1>3. DOMAIN NoTables = {}  BY DEF NoTables
<1>4. counted' = [counted EXCEPT ![v] = NoTables]  BY DEF Over
<1> HIDE DEF NoTables
<1>5. /\ DOMAIN counted' = Verifs /\ counted'[v] = NoTables
      /\ \A w \in Verifs \ {v} : counted'[w] = counted[w]
  BY <1>1, <1>4
<1> QED  BY <1>1, <1>2, <1>3, <1>5

(* A verification that has left through Leave. *)
LEMMA LeftLocal ==
    ASSUME Inv, NEW v \in Verifs, Leave(v), rec' = rec, name' = name,
           pc[v] \in Works,
           record'[rec[v]].sha = record[rec[v]].sha,
           record'[rec[v]].prints = record[rec[v]].prints
    PROVE  Local(v)'
<1>1. pc'[v] = "deferred" /\ result'[v] = "error"  BY LeaveFacts
<1>2. Named(v)  BY DEF Inv, Local
<1>3. Named(v)'  BY <1>1, <1>2 DEF Named, Acts, Works
<1> QED  BY <1>1, <1>3 DEF Local, ImportOK, CountOK, CountedOK, LeftOK, Imports, Counts

(* The databases are well typed, and only that of v and production differ. *)
Touches(v, new) ==
    /\ new \in [Databases -> SUBSET (Rows \cup Absent)]
    /\ \A d \in Databases : new[d] = Absent \/ new[d] \subseteq Rows
    /\ \A d \in Databases : d \in {name[v], Production} \/ new[d] = dbs[d]

LEMMA TouchesFacts ==
    ASSUME Inv, NEW v \in Verifs, name[v] \in Seconds
    PROVE  /\ Touches(v, dbs)
           /\ Touches(v, Dropped(v)) /\ Dropped(v)[name[v]] = Absent
           /\ Touches(v, Prepared(v)) /\ Prepared(v)[name[v]] = {}
           /\ Dropped(v)[Production] = dbs[Production]
           /\ Prepared(v)[Production] = dbs[Production]
<1>1. /\ dbs \in [Databases -> SUBSET (Rows \cup Absent)]
      /\ \A d \in Databases : dbs[d] = Absent \/ dbs[d] \subseteq Rows
      /\ name[v] \in Databases
  BY SecondsFacts DEF Inv, Type, TypeOK
<1> QED  BY <1>1, SecondsFacts DEF Touches, Dropped, Prepared, Databases

LEMMA ImportedRowFacts ==
    ASSUME Inv, NEW v \in Verifs, name[v] \in Seconds, NEW n \in 0..2, NEW t \in Tables
    PROVE  /\ Touches(v, ImportedRow(v, n, t))
           /\ ImportedRow(v, n, t)[name[v]] =
                 IF Escapes(v) THEN dbs[name[v]]
                               ELSE (dbs[name[v]] \ Absent) \cup {<<v, n, t>>}
           /\ ~Escapes(v) => /\ ImportedRow(v, n, t)[name[v]] \subseteq Rows
                             /\ ImportedRow(v, n, t)[Production] = dbs[Production]
<1>1. /\ dbs \in [Databases -> SUBSET (Rows \cup Absent)]
      /\ \A d \in Databases : dbs[d] = Absent \/ dbs[d] \subseteq Rows
      /\ name[v] \in Databases /\ Production \in Databases /\ name[v] # Production
  BY SecondsFacts DEF Inv, Type, TypeOK, Databases
<1>2. <<v, n, t>> \in Rows  BY DEF Rows
<1>3. \A d \in Databases : (dbs[d] \ Absent) \cup {<<v, n, t>>} \subseteq Rows
  BY <1>1, <1>2
<1>4. CASE Escapes(v)
  <2>1. ImportedRow(v, n, t) =
           [dbs EXCEPT ![Production] = (dbs[Production] \ Absent) \cup {<<v, n, t>>}]
    BY <1>1, <1>4 DEF ImportedRow, Target
  <2> QED  BY <1>1, <1>3, <1>4, <2>1 DEF Touches
<1>5. CASE ~Escapes(v)
  <2>1. ImportedRow(v, n, t) =
           [dbs EXCEPT ![name[v]] = (dbs[name[v]] \ Absent) \cup {<<v, n, t>>}]
    BY <1>1, <1>5 DEF ImportedRow, Target
  <2> QED  BY <1>1, <1>3, <1>5, <2>1 DEF Touches
<1> QED  BY <1>4, <1>5

(* A step through Leave. *)
LEMMA LeaveInv ==
    ASSUME Inv, NEW v \in Verifs, Leave(v), pc[v] \in Works,
           UNCHANGED <<world, choice, name, counted, watched>>,
           record' \in [Records -> [sha : BOOLEAN, prints : SUBSET Fingerprints,
                                    deep : Verdicts]],
           \A r \in Records : /\ record'[r].sha = record[r].sha
                              /\ record'[r].prints = record[r].prints,
           Touches(v, dbs'),
           \/ UNCHANGED <<cut, late>>
           \/ \E c \in {"prepare", "import"} : Unanswered(v, {<<v, c>>})
    PROVE  Inv'
<1>1. name[v] \in Seconds  BY DEF Inv, Local, Named, Acts, Works
<1>2. /\ UNCHANGED <<now, file, names, rec, canceled, name, counted, watched>>
      /\ rec[v] \in Records
  BY DEF world, choice, Inv, Type, TypeOK
<1>3. /\ cut' \in [Verifs -> BOOLEAN]
      /\ \A w \in Verifs \ {v} : cut'[w] = cut[w]
      /\ late' \subseteq Verifs \X {"prepare", "import"}
      /\ \A c \in late' : c \in late \/ (c[1] = v /\ cut'[v])
  <2>1. cut \in [Verifs -> BOOLEAN] /\ late \subseteq Verifs \X {"prepare", "import"}
    BY DEF Inv, Type, TypeOK
  <2>2. CASE UNCHANGED <<cut, late>>  BY <2>1, <2>2
  <2>3. CASE \E c \in {"prepare", "import"} : Unanswered(v, {<<v, c>>})
    BY <2>1, <2>3 DEF Unanswered
  <2> QED  BY <2>2, <2>3
<1>4. Type'
  BY <1>2, <1>3, LeaveFacts DEF Touches, Inv, Type, TypeOK
<1>5. Elsewhere(v)
  BY <1>2, <1>3, LeaveFacts DEF Touches, Elsewhere
<1>6. Local(v)'  BY <1>2, LeftLocal
<1>7. LateStep(v)
  <2>1. \A c \in late : c[1] # v  BY DEF Inv, LateOK, Works
  <2> QED  BY <1>1, <1>2, <1>3, <2>1, LeaveFacts DEF LateStep
<1> QED  BY <1>4, <1>5, <1>6, <1>7, StepInv

LEMMA BeginInv == ASSUME Inv, NEW v \in Verifs, Begin(v) PROVE Inv'
<1>1. /\ pc[v] = "idle" /\ name' = name /\ rec' = rec /\ record' = record
      /\ names' = names /\ file' = file /\ dbs' = dbs /\ late' = late /\ cut' = cut
      /\ attempt' = attempt /\ todo' = todo /\ up' = up /\ now' = now
      /\ record[rec[v]].sha /\ record[rec[v]].prints # {}
  BY DEF Begin, At, world, server
<1>2. /\ pc' \in [Verifs -> Places] /\ pc'[v] \in {"name", "done"}
      /\ result' \in [Verifs -> {"none", "error", "verdict"}]
      /\ canceled' \in [Verifs -> BOOLEAN] /\ watched' \in [Verifs -> BOOLEAN]
      /\ DOMAIN counted' = Verifs
      /\ \A w \in Verifs : DOMAIN counted'[w] \subseteq Tables
      /\ counted'[v] = NoTables
      /\ \A w \in Verifs \ {v} : /\ pc'[w] = pc[w] /\ counted'[w] = counted[w]
                                 /\ result'[w] = result[w]
  <2>1. counted[v] = NoTables  BY <1>1 DEF Inv, Local, CountedOK, Imports
  <2>2. CASE Whole(v)
    BY <2>1, <2>2 DEF Begin, Goto, run, Inv, Type, TypeOK, Places
  <2>3. CASE ~Whole(v)
    <3>1. Over(v) /\ result' = [result EXCEPT ![v] = "error"]
      BY <2>3 DEF Begin, Return
    <3> QED  BY <3>1, OverFacts DEF Inv, Type, TypeOK
  <2> QED  BY <2>2, <2>3
<1>3. Type'  BY <1>1, <1>2 DEF Inv, Type, TypeOK
<1>4. Elsewhere(v)  BY <1>1, <1>2 DEF Elsewhere
<1>5. Local(v)'
  <2>1. name[v] = Unnamed  BY <1>1 DEF Inv, Local, Named
  <2>2. Named(v)'  BY <1>1, <1>2, <2>1 DEF Named, Acts, Works
  <2> QED
    BY <1>1, <1>2, <2>1, <2>2 DEF Local, ImportOK, CountOK, CountedOK, LeftOK, Imports, Counts
<1>6. LateStep(v)  BY <1>1 DEF LateStep, Inv, LateOK
<1> QED  BY <1>3, <1>4, <1>5, <1>6, StepInv

(* A query has its client; nothing else is different. *)
LEMMA QueryDialedInv == ASSUME Inv, NEW v \in Verifs, QueryDialed(v) PROVE Inv'
<1>1. /\ up' = [up EXCEPT ![v] = TRUE]
      /\ UNCHANGED <<now, file, names, record, pc, rec, canceled, name, attempt, todo,
                     counted, result, watched, cut, dbs, late>>
  BY DEF QueryDialed, world, choice, server
<1>2. up' \in [Verifs -> BOOLEAN]  BY <1>1 DEF Inv, Type, TypeOK
<1>3. Type'  BY <1>1, <1>2 DEF Inv, Type, TypeOK
<1>4. Elsewhere(v)  BY <1>1 DEF Elsewhere
<1>5. Local(v)'  BY <1>1, SameLocal DEF Alone, Whole
<1>6. LateStep(v)  BY <1>1 DEF LateStep, Inv, LateOK
<1> QED  BY <1>3, <1>4, <1>5, <1>6, StepInv

(* A step to a place where nothing is said of the database yet. *)
LEMMA MoveInv ==
    ASSUME Inv, NEW v \in Verifs, Goto(v, "connect") \/ Goto(v, "create") \/ Goto(v, "prepare"),
           pc[v] \in Imports \ {"idle"}, name'[v] \in Seconds, Type',
           Elsewhere(v), counted' = counted, late' = late
    PROVE  Inv'
<1>1. pc'[v] \in {"connect", "create", "prepare"} /\ rec[v] \in Records
  BY DEF Goto, Inv, Type, TypeOK
<1>2. Named(v)'
  <2>1. record[rec[v]].sha /\ record[rec[v]].prints # {}
    BY DEF Inv, Local, Named, Imports
  <2> QED  BY <1>1, <2>1 DEF Elsewhere, Named
<1>3. Local(v)'
  BY <1>1, <1>2 DEF Inv, Local, ImportOK, CountOK, CountedOK, LeftOK, Imports, Counts
<1>4. LateStep(v)
  BY DEF LateStep, Inv, LateOK, Imports
<1> QED  BY <1>3, <1>4, StepInv

LEMMA NameInv == ASSUME Inv, NEW v \in Verifs, Name(v) PROVE Inv'
<1>1. /\ pc[v] = "name" /\ UNCHANGED <<now, file, names, record, rec, canceled, attempt, todo,
                                       counted, result, watched, up, cut, dbs, late>>
      /\ name' = [name EXCEPT ![v] = now]
  BY DEF Name, At, world, choice, server
<1>2. Goto(v, "connect") \/ Goto(v, "create")  BY DEF Name
<1>3. now \in Seconds /\ name[v] = Unnamed
  BY <1>1 DEF Inv, Type, TypeOK, Local, Named
<1>4. /\ name' \in [Verifs -> Seconds \cup {Unnamed}] /\ name'[v] = now
      /\ pc' \in [Verifs -> Places]
      /\ \A w \in Verifs \ {v} : name'[w] = name[w] /\ pc'[w] = pc[w]
  BY <1>1, <1>2, <1>3 DEF Goto, Places, Inv, Type, TypeOK
<1>5. Type'  BY <1>1, <1>4 DEF Inv, Type, TypeOK
<1>6. Elsewhere(v)  BY <1>1, <1>3, <1>4 DEF Elsewhere
<1> QED  BY <1>1, <1>2, <1>3, <1>4, <1>5, <1>6, MoveInv DEF Imports

LEMMA ConnectInv == ASSUME Inv, NEW v \in Verifs, Connect(v) PROVE Inv'
<1>1. /\ pc[v] = "connect"
      /\ UNCHANGED <<world, record, choice, name, counted, watched, cut, server>>
      /\ name[v] \in Seconds
  BY DEF Connect, At, Inv, Local, Named, Acts, Works
<1>2. CASE Leave(v)
  BY <1>1, <1>2, LeaveInv, TouchesFacts DEF server, Works, Inv, Type, TypeOK
<1>3. CASE /\ up' = [up EXCEPT ![v] = TRUE]
           /\ Goto(v, "prepare")
           /\ UNCHANGED <<attempt, todo, result>>
  <2>1. UNCHANGED <<now, file, names, record, rec, canceled, name, counted, watched, cut, dbs, late>>
    BY <1>1 DEF world, choice, server
  <2>2. /\ pc' \in [Verifs -> Places] /\ up' \in [Verifs -> BOOLEAN]
        /\ \A w \in Verifs \ {v} : pc'[w] = pc[w]
    BY <1>3 DEF Goto, Places, Inv, Type, TypeOK
  <2>3. Type'  BY <1>3, <2>1, <2>2 DEF Inv, Type, TypeOK
  <2>4. Elsewhere(v)  BY <1>3, <2>1, <2>2 DEF Elsewhere
  <2> QED  BY <1>1, <1>3, <2>1, <2>3, <2>4, MoveInv DEF Imports
<1> QED  BY <1>2, <1>3 DEF Connect

(* The end of a turn of the loop, of which a new attempt has been begun. *)
LEMMA RetryInv ==
    ASSUME Inv, NEW v \in Verifs, AttemptFails(v), pc[v] \in {"prepare", "import"},
           UNCHANGED <<world, record, choice, name, counted, watched, cut, late>>,
           Touches(v, dbs')
    PROVE  Inv'
<1>1. name[v] \in Seconds  BY DEF Inv, Local, Named, Acts, Works
<1>2. CASE Leave(v)
  BY <1>2, LeaveInv DEF Works, Inv, Type, TypeOK
<1>3. CASE /\ attempt' = [attempt EXCEPT ![v] = 2]
           /\ Goto(v, "prepare")
           /\ UNCHANGED <<todo, result, up>>
  <2>1. UNCHANGED <<now, file, names, record, rec, canceled, name, counted, watched, cut, late>>
    BY DEF world, choice
  <2>2. /\ pc' \in [Verifs -> Places] /\ attempt' \in [Verifs -> 1..2]
        /\ \A w \in Verifs \ {v} : pc'[w] = pc[w] /\ attempt'[w] = attempt[w]
    BY <1>3 DEF Goto, Places, Inv, Type, TypeOK
  <2>3. Type'  BY <1>3, <2>1, <2>2 DEF Touches, Inv, Type, TypeOK
  <2>4. Elsewhere(v)  BY <1>3, <2>1, <2>2 DEF Touches, Elsewhere
  <2> QED  BY <1>1, <1>3, <2>1, <2>3, <2>4, MoveInv DEF Imports
<1> QED  BY <1>2, <1>3 DEF AttemptFails

(* A database that was created for the import that begins. *)
LEMMA ImportBegins ==
    ASSUME Inv, NEW v \in Verifs, pc[v] \in {"prepare", "create"}, Goto(v, "import"),
           UNCHANGED <<world, record, choice, name, attempt, counted, result, up, cut, late>>,
           watched' \in [Verifs -> BOOLEAN],
           dbs' = Prepared(v), todo' = [todo EXCEPT ![v] = FileTables(v)]
    PROVE  Inv'
<1>1. UNCHANGED <<now, file, names, record, rec, canceled, name, attempt, counted, result, up, cut, late>>
  BY DEF world, choice
<1>2. /\ name[v] \in Seconds /\ counted[v] = NoTables
      /\ record[rec[v]].sha /\ record[rec[v]].prints # {}
  BY DEF Inv, Local, Named, CountedOK, Acts, Works, Imports
<1>3. FileTables(v) \in SUBSET Tables /\ (Whole(v) => FileTables(v) = Tables)
  BY TablesAssumption DEF FileTables
<1>4. /\ pc' \in [Verifs -> Places] /\ pc'[v] = "import"
      /\ todo' \in [Verifs -> SUBSET Tables] /\ todo'[v] = FileTables(v)
      /\ \A w \in Verifs \ {v} : pc'[w] = pc[w] /\ todo'[w] = todo[w]
  BY <1>3 DEF Goto, Places, Inv, Type, TypeOK
<1>5. Touches(v, dbs') /\ dbs'[name[v]] = {}
  BY <1>2, TouchesFacts
<1>6. Type'  BY <1>1, <1>4, <1>5 DEF Touches, Inv, Type, TypeOK
<1>7. Elsewhere(v)  BY <1>1, <1>4, <1>5 DEF Touches, Elsewhere
<1>8. Local(v)'
  <2>1. Named(v)'  BY <1>1, <1>2, <1>4 DEF Named
  <2>2. ImportOK(v)'
    <3>1. \A t \in Tables : RowsOf(v, t)' = {}  BY <1>1, <1>5 DEF RowsOf
    <3>2. Whole(v)' = Whole(v)  BY <1>1 DEF Whole
    <3> QED  BY <1>3, <1>4, <3>1, <3>2 DEF ImportOK, Clean
  <2> QED  BY <1>1, <1>2, <1>4, <2>1, <2>2 DEF Local, CountOK, CountedOK, LeftOK, Imports, Counts
<1>9. LateStep(v)  BY <1>1 DEF LateStep, Inv, LateOK
<1> QED  BY <1>6, <1>7, <1>8, <1>9, StepInv

LEMMA PrepareInv == ASSUME Inv, NEW v \in Verifs, Prepare(v) PROVE Inv'
<1>1. /\ pc[v] = "prepare"
      /\ UNCHANGED <<world, record, choice, name, counted>>
      /\ name[v] \in Seconds
      /\ watched \in [Verifs -> BOOLEAN] /\ up \in [Verifs -> BOOLEAN]
  BY DEF Prepare, At, Inv, Local, Named, Acts, Works, Type, TypeOK
<1>2. CASE /\ dbs' = Prepared(v)
           /\ todo' = [todo EXCEPT ![v] = FileTables(v)]
           /\ watched' = [watched EXCEPT ![v] = @ \/ attempt[v] = 1]
           /\ Goto(v, "import")
           /\ UNCHANGED <<attempt, result, up, cut, late>>
  <2>1. watched' \in [Verifs -> BOOLEAN]  BY <1>1, <1>2
  <2> QED  BY <1>1, <1>2, <2>1, ImportBegins
<1>3. CASE /\ dbs' \in {dbs, Dropped(v)}
           /\ AttemptFails(v)
           /\ UNCHANGED <<watched, cut, late>>
  BY <1>1, <1>3, RetryInv, TouchesFacts
<1>4. CASE /\ Unanswered(v, {<<v, "prepare">>})
           /\ Leave(v)
           /\ UNCHANGED <<watched, dbs>>
  BY <1>1, <1>4, LeaveInv, TouchesFacts DEF Works, Inv, Type, TypeOK
<1> QED  BY <1>2, <1>3, <1>4 DEF Prepare

LEMMA CreateInv == ASSUME Inv, NEW v \in Verifs, Create(v) PROVE Inv'
<1>1. /\ pc[v] = "create"
      /\ UNCHANGED <<world, record, choice, name, counted, watched>>
      /\ name[v] \in Seconds /\ watched \in [Verifs -> BOOLEAN]
  BY DEF Create, At, Inv, Local, Named, Acts, Works, Type, TypeOK
<1>2. CASE /\ dbs' = Prepared(v)
           /\ todo' = [todo EXCEPT ![v] = FileTables(v)]
           /\ Goto(v, "import")
           /\ UNCHANGED <<attempt, result, up, cut, late>>
  BY <1>1, <1>2, ImportBegins
<1>3. CASE /\ dbs' \in {dbs, Dropped(v)}
           /\ Leave(v)
           /\ UNCHANGED <<cut, late>>
  BY <1>1, <1>3, LeaveInv, TouchesFacts DEF Works, Inv, Type, TypeOK
<1>4. CASE /\ Leave(v)
           /\ Unanswered(v, {<<v, "prepare">>})
           /\ UNCHANGED dbs
  BY <1>1, <1>4, LeaveInv, TouchesFacts DEF Works, Inv, Type, TypeOK
<1> QED  BY <1>2, <1>3, <1>4 DEF Create

LEMMA ImportRowInv ==
    ASSUME Inv, NEW v \in Verifs, NEW t \in Tables, ImportRow(v, t)
    PROVE  Inv'
<1>1. /\ pc[v] = "import" /\ t \in todo[v]
      /\ dbs' = ImportedRow(v, attempt[v], t)
      /\ todo' = [todo EXCEPT ![v] = @ \ {t}]
      /\ UNCHANGED <<now, file, names, record, pc, rec, canceled, name, attempt, counted,
                     result, watched, up, cut, late>>
  BY DEF ImportRow, At, world, choice
<1>2. /\ name[v] \in Seconds /\ attempt[v] \in 0..2
      /\ todo \in [Verifs -> SUBSET Tables]
  BY <1>1 DEF Inv, Local, Named, Acts, Works, Type, TypeOK
<1>3. /\ Touches(v, dbs')
      /\ dbs'[name[v]] = IF Escapes(v) THEN dbs[name[v]]
                         ELSE (dbs[name[v]] \ Absent) \cup {<<v, attempt[v], t>>}
      /\ ~Escapes(v) => dbs'[name[v]] \subseteq Rows
  BY <1>1, <1>2, ImportedRowFacts
<1>4. /\ todo' \in [Verifs -> SUBSET Tables] /\ todo'[v] = todo[v] \ {t}
      /\ \A w \in Verifs \ {v} : todo'[w] = todo[w]
  BY <1>1, <1>2
<1>5. Type'  BY <1>1, <1>3, <1>4 DEF Touches, Inv, Type, TypeOK
<1>6. Elsewhere(v)  BY <1>1, <1>3, <1>4 DEF Touches, Elsewhere
<1>7. Local(v)'
  <2>1. Named(v)'  BY <1>1 DEF Inv, Local, Named
  <2>2. CountedOK(v)'  BY <1>1 DEF Inv, Local, CountedOK, Imports, Counts
  <2>3. ImportOK(v)'
    <3>1. Escapes(v)' = Escapes(v)  BY <1>1 DEF Escapes, Caught
    <3> SUFFICES ASSUME Clean(v)', NEW u \in Tables
                 PROVE  RowsOf(v, u)' = IF u \in todo'[v] \/ Escapes(v) THEN {}
                                        ELSE {<<v, attempt[v], u>>}
      BY <1>1, <3>1 DEF ImportOK
    <3>2. Clean(v)  BY <1>1 DEF Clean, Alone, Whole
    <3>3. RowsOf(v, u) = IF u \in todo[v] \/ Escapes(v) THEN {} ELSE {<<v, attempt[v], u>>}
      BY <1>1, <3>2 DEF Inv, Local, ImportOK
    <3>4. CASE Escapes(v)
      <4>1. RowsOf(v, u)' = RowsOf(v, u)  BY <1>1, <1>3, <3>4 DEF RowsOf
      <4> QED  BY <3>3, <3>4, <4>1
    <3>5. CASE ~Escapes(v)
      <4>1. <<>> \notin dbs'[name[v]]  BY <1>3, <3>5 DEF Rows
      <4>2. RowsOf(v, u)' = RowsOf(v, u) \cup (IF u = t THEN {<<v, attempt[v], t>>} ELSE {})
        BY <1>1, <1>3, <3>5, <4>1 DEF RowsOf, Absent
      <4> QED  BY <1>1, <1>4, <3>3, <3>5, <4>2
    <3> QED  BY <3>4, <3>5
  <2> QED  BY <1>1, <2>1, <2>2, <2>3 DEF Local, CountOK, LeftOK
<1>8. LateStep(v)  BY <1>1 DEF LateStep, Inv, LateOK
<1> QED  BY <1>5, <1>6, <1>7, <1>8, StepInv

(* The tables of a fingerprint are tables of the dump. *)
LEMMA PrintTables ==
    ASSUME Inv, NEW r \in Records, record[r].prints # {}
    PROVE  PrintsOf(r) \in record[r].prints /\ DOMAIN PrintsOf(r) \in SUBSET Tables
<1>1. record[r].prints \subseteq Fingerprints  BY DEF Inv, Type, TypeOK
<1>2. PrintsOf(r) \in record[r].prints  BY DEF PrintsOf
<1> QED  BY <1>1, <1>2 DEF Fingerprints

LEMMA ImportDoneInv == ASSUME Inv, NEW v \in Verifs, ImportDone(v) PROVE Inv'
<1>1. /\ pc[v] = "import" /\ todo[v] = {}
      /\ Goto(v, "count")
      /\ todo' = [todo EXCEPT ![v] = DOMAIN PrintsOf(rec[v])]
      /\ up' = [up EXCEPT ![v] = FALSE]
      /\ attempt' = [attempt EXCEPT ![v] = 1]
      /\ UNCHANGED <<now, file, names, record, rec, canceled, name, counted, result, watched,
                     cut, dbs, late>>
  BY DEF ImportDone, At, world, choice, server
<1>2. /\ name[v] \in Seconds /\ counted[v] = NoTables /\ rec[v] \in Records
      /\ record[rec[v]].sha /\ record[rec[v]].prints # {}
      /\ attempt[v] \in 1..2
  BY <1>1 DEF Inv, Local, Named, CountedOK, Acts, Works, Imports, Type, TypeOK
<1>3. DOMAIN PrintsOf(rec[v]) \in SUBSET Tables  BY <1>2, PrintTables
<1>4. /\ pc' \in [Verifs -> Places] /\ pc'[v] = "count"
      /\ todo' \in [Verifs -> SUBSET Tables] /\ todo'[v] = DOMAIN PrintsOf(rec[v])
      /\ up' \in [Verifs -> BOOLEAN] /\ attempt' \in [Verifs -> 1..2]
      /\ \A w \in Verifs \ {v} : /\ pc'[w] = pc[w] /\ todo'[w] = todo[w]
                                 /\ attempt'[w] = attempt[w]
  BY <1>1, <1>3 DEF Goto, Places, Inv, Type, TypeOK
<1>5. Type'  BY <1>1, <1>4 DEF Inv, Type, TypeOK
<1>6. Elsewhere(v)  BY <1>1, <1>4 DEF Elsewhere
<1>7. Local(v)'
  <2>1. Named(v)'  BY <1>1, <1>2, <1>4 DEF Named
  <2>2. Clean(v)' => Clean(v)  BY <1>1 DEF Clean, Alone, Whole
  <2>3. CountOK(v)'
    <3>1. \A t \in Tables : RowsOf(v, t)' = RowsOf(v, t)  BY <1>1 DEF RowsOf
    <3>2. Clean(v) => \A t \in Tables : RowsOf(v, t) \subseteq {<<v, attempt[v], t>>}
      BY <1>1 DEF Inv, Local, ImportOK
    <3> QED  BY <1>2, <2>2, <3>1, <3>2 DEF CountOK
  <2>4. CountedOK(v)'
    <3>1. PrintsOf(rec[v])' = PrintsOf(rec[v])  BY <1>1 DEF PrintsOf
    <3>2. counted'[v] = [t \in DOMAIN PrintsOf(rec[v]) \ DOMAIN PrintsOf(rec[v]) |-> 1]
      BY <1>1, <1>2 DEF NoTables
    <3> QED  BY <1>1, <1>4, <3>1, <3>2 DEF CountedOK, Imports
  <2> QED  BY <1>4, <2>1, <2>3, <2>4 DEF Local, ImportOK, LeftOK
<1>8. LateStep(v)  BY <1>1 DEF LateStep, Inv, LateOK
<1> QED  BY <1>5, <1>6, <1>7, <1>8, StepInv

LEMMA ImportFailsInv ==
    ASSUME Inv, NEW v \in Verifs, ImportFails(v) \/ ImportLost(v)
    PROVE  Inv'
<1>1. /\ pc[v] = "import"
      /\ UNCHANGED <<world, record, choice, name, counted, watched, dbs>>
      /\ name[v] \in Seconds
  BY DEF ImportFails, ImportLost, At, server, Inv, Local, Named, Acts, Works
<1>2. Touches(v, dbs')  BY <1>1, TouchesFacts
<1>3. CASE ImportFails(v)
  <2>1. UNCHANGED <<cut, late>>  BY <1>3 DEF ImportFails, server
  <2>2. CASE AttemptFails(v)  BY <1>1, <1>2, <2>1, <2>2, RetryInv
  <2>3. CASE Leave(v)
    BY <1>1, <1>2, <2>1, <2>3, LeaveInv DEF Works, Inv, Type, TypeOK
  <2> QED  BY <1>3, <2>2, <2>3 DEF ImportFails
<1>4. CASE ImportLost(v)
  <2>1. Leave(v) /\ Unanswered(v, {<<v, "import">>})  BY <1>4 DEF ImportLost
  <2> QED  BY <1>1, <1>2, <2>1, LeaveInv DEF Works, Inv, Type, TypeOK
<1> QED  BY <1>3, <1>4

LEMMA CountTableInv ==
    ASSUME Inv, NEW v \in Verifs, NEW t \in Tables, CountTable(v, t)
    PROVE  Inv'
<1> DEFINE done == [s \in DOMAIN counted[v] \cup {t} |->
                       IF s = t THEN Cardinality(RowsOf(v, t)) ELSE counted[v][s]]
<1>1. /\ pc[v] = "count" /\ t \in todo[v]
      /\ todo' = [todo EXCEPT ![v] = @ \ {t}]
      /\ counted' = [counted EXCEPT ![v] = done]
      /\ up' = [up EXCEPT ![v] = FALSE]
      /\ RowsOf(v, t) # {}
      /\ UNCHANGED <<now, file, names, record, pc, rec, canceled, name, attempt, result,
                     watched, cut, dbs, late>>
  BY DEF CountTable, At, world, choice, server
<1>2. /\ name[v] \in Seconds /\ rec[v] \in Records
      /\ record[rec[v]].sha /\ record[rec[v]].prints # {}
      /\ todo \in [Verifs -> SUBSET Tables] /\ todo[v] \subseteq DOMAIN PrintsOf(rec[v])
      /\ DOMAIN counted = Verifs /\ DOMAIN counted[v] \subseteq Tables
  BY <1>1 DEF Inv, Local, Named, CountedOK, Acts, Works, Counts, Type, TypeOK
<1>3. DOMAIN done = DOMAIN counted[v] \cup {t}  OBVIOUS
<1> HIDE DEF done
<1>4. /\ todo' \in [Verifs -> SUBSET Tables] /\ todo'[v] = todo[v] \ {t}
      /\ DOMAIN counted' = Verifs /\ counted'[v] = done
      /\ \A w \in Verifs \ {v} : todo'[w] = todo[w] /\ counted'[w] = counted[w]
  BY <1>1, <1>2
<1>5. \A w \in Verifs : DOMAIN counted'[w] \subseteq Tables
  <2>1. \A w \in Verifs : DOMAIN counted[w] \subseteq Tables
    BY DEF Inv, Type, TypeOK
  <2>2. DOMAIN counted'[v] \subseteq Tables  BY <1>2, <1>3, <1>4
  <2>3. \A w \in Verifs \ {v} : DOMAIN counted'[w] \subseteq Tables
    BY <1>4, <2>1
  <2> QED  BY <2>2, <2>3
<1>6. Type'
  <2>1. up' \in [Verifs -> BOOLEAN]  BY <1>1 DEF Inv, Type, TypeOK
  <2> QED  BY <1>1, <1>4, <1>5, <2>1 DEF Inv, Type, TypeOK
<1>7. Elsewhere(v)  BY <1>1, <1>4 DEF Elsewhere
<1>8. Local(v)'
  <2>1. Named(v)'  BY <1>1 DEF Inv, Local, Named
  <2>2. Clean(v)' => Clean(v)  BY <1>1 DEF Clean, Alone, Whole
  <2>3. \A u \in Tables : RowsOf(v, u)' = RowsOf(v, u)  BY <1>1 DEF RowsOf
  <2>4. CountOK(v)'
    BY <1>1, <2>2, <2>3 DEF Inv, Local, CountOK
  <2>5. PrintsOf(rec[v])' = PrintsOf(rec[v])  BY <1>1 DEF PrintsOf
  <2>6. ASSUME Clean(v)
        PROVE  done = [s \in DOMAIN PrintsOf(rec[v]) \ todo'[v] |-> 1]
    <3>1. counted[v] = [s \in DOMAIN PrintsOf(rec[v]) \ todo[v] |-> 1]
      BY <1>1, <2>6 DEF Inv, Local, CountedOK, Counts
    <3>2. PICK n \in 1..2 : RowsOf(v, t) = {<<v, n, t>>}
      BY <1>1, <1>2, <2>6 DEF Inv, Local, CountOK
    <3>3. Cardinality(RowsOf(v, t)) = 1  BY <3>2, FS_Singleton
    <3>4. DOMAIN counted[v] \cup {t} = DOMAIN PrintsOf(rec[v]) \ todo'[v]
      BY <1>1, <1>2, <1>4, <3>1
    <3> QED  BY <3>1, <3>3, <3>4 DEF done
  <2>7. CountedOK(v)'
    BY <1>1, <1>2, <1>4, <2>2, <2>5, <2>6 DEF CountedOK, Imports, Counts
  <2> QED  BY <1>1, <2>1, <2>4, <2>7 DEF Local, ImportOK, LeftOK
<1>9. LateStep(v)  BY <1>1 DEF LateStep, Inv, LateOK
<1> QED  BY <1>6, <1>7, <1>8, <1>9, StepInv

LEMMA CountFailsInv == ASSUME Inv, NEW v \in Verifs, CountFails(v) PROVE Inv'
<1>1. /\ pc[v] = "count" /\ Leave(v)
      /\ UNCHANGED <<world, record, choice, name, counted, watched, cut, dbs, late>>
      /\ name[v] \in Seconds
  BY DEF CountFails, At, server, Inv, Local, Named, Acts, Works
<1> QED  BY <1>1, TouchesFacts, LeaveInv DEF Works, Inv, Type, TypeOK

LEMMA RecordInv == ASSUME Inv, NEW v \in Verifs, Record(v) PROVE Inv'
<1>1. /\ pc[v] = "count" /\ todo[v] = {}
      /\ record' = [record EXCEPT ![rec[v]].deep = Verdict(v)]
      /\ UNCHANGED <<world, choice, name, counted, watched, cut, dbs, late>>
      /\ name[v] \in Seconds /\ rec[v] \in Records
      /\ record[rec[v]].sha /\ record[rec[v]].prints # {}
  BY DEF Record, At, server, Inv, Local, Named, Acts, Works, Type, TypeOK
<1>2. /\ record' \in [Records -> [sha : BOOLEAN, prints : SUBSET Fingerprints,
                                  deep : Verdicts]]
      /\ \A r \in Records : /\ record'[r].sha = record[r].sha
                            /\ record'[r].prints = record[r].prints
  <2> DEFINE Kept == [sha : BOOLEAN, prints : SUBSET Fingerprints, deep : Verdicts]
             new  == [record[rec[v]] EXCEPT !.deep = Verdict(v)]
  <2>1. record \in [Records -> Kept] /\ record[rec[v]] \in Kept
    BY <1>1 DEF Inv, Type, TypeOK
  <2>2. Verdict(v) \in Verdicts  BY DEF Verdict, Verdicts
  <2>3. /\ new \in Kept
        /\ new.sha = record[rec[v]].sha /\ new.prints = record[rec[v]].prints
    BY <2>1, <2>2
  <2>4. record' = [record EXCEPT ![rec[v]] = new]  BY <1>1, <2>1
  <2> HIDE DEF Kept, new
  <2>5. /\ record' \in [Records -> Kept]
        /\ record'[rec[v]] = new
        /\ \A r \in Records \ {rec[v]} : record'[r] = record[r]
    BY <1>1, <2>1, <2>3, <2>4
  <2> QED  BY <2>3, <2>5 DEF Kept
<1>3. CASE Leave(v)
  BY <1>1, <1>2, <1>3, TouchesFacts, LeaveInv DEF Works
<1>4. CASE Goto(v, "drop") /\ UNCHANGED <<attempt, todo, result, up>>
  <2>1. UNCHANGED <<now, file, names, rec, canceled, name, attempt, todo, counted, result,
                    watched, up, cut, dbs, late>>
    BY <1>1, <1>4 DEF world, choice
  <2>2. /\ pc' \in [Verifs -> Places] /\ pc'[v] = "drop"
        /\ \A w \in Verifs \ {v} : pc'[w] = pc[w]
    BY <1>4 DEF Goto, Places, Inv, Type, TypeOK
  <2>3. Type'  BY <1>2, <2>1, <2>2 DEF Inv, Type, TypeOK
  <2>4. Elsewhere(v)  BY <1>2, <2>1, <2>2 DEF Elsewhere
  <2>5. Local(v)'
    <3>1. Named(v)'  BY <1>1, <1>2, <2>1, <2>2 DEF Named
    <3>2. PrintsOf(rec[v])' = PrintsOf(rec[v])  BY <1>1, <1>2, <2>1 DEF PrintsOf
    <3>3. Clean(v)' => Clean(v)  BY <2>1 DEF Clean, Alone, Whole
    <3>4. CountedOK(v)'
      BY <1>1, <2>1, <2>2, <3>2, <3>3 DEF Inv, Local, CountedOK, Imports, Counts
    <3> QED  BY <2>2, <3>1, <3>4 DEF Local, ImportOK, CountOK, LeftOK
  <2>6. LateStep(v)  BY <1>1, <2>1 DEF LateStep, Inv, LateOK
  <2> QED  BY <2>3, <2>4, <2>5, <2>6, StepInv
<1> QED  BY <1>3, <1>4 DEF Record

(* The end of a verification that has a name. *)
LEMMA OverInv ==
    ASSUME Inv, NEW v \in Verifs, Over(v), pc[v] \in {"drop", "deferred"},
           UNCHANGED <<world, record, rec, name, late>>,
           /\ attempt' \in [Verifs -> 1..2] /\ todo' \in [Verifs -> SUBSET Tables]
           /\ up' \in [Verifs -> BOOLEAN] /\ cut' \in [Verifs -> BOOLEAN]
           /\ result' \in [Verifs -> {"none", "error", "verdict"}],
           \A w \in Verifs \ {v} : /\ attempt'[w] = attempt[w] /\ todo'[w] = todo[w]
                                   /\ cut'[w] = cut[w] /\ result'[w] = result[w],
           Touches(v, dbs'),
           dbs'[name[v]] = Absent \/ (cut'[v] /\ result'[v] = "error"),
           pc[v] = "deferred" => result' = result /\ (cut[v] => cut'[v])
    PROVE  Inv'
<1>1. UNCHANGED <<now, file, names, record, rec, name, late>>  BY DEF world
<1>2. Type'  BY <1>1, OverFacts DEF Touches, Inv, Type, TypeOK
<1>3. Elsewhere(v)  BY <1>1, OverFacts DEF Touches, Elsewhere
<1>4. Local(v)'
  <2>1. pc'[v] = "done"  BY OverFacts
  <2>2. Named(v)'  BY <2>1 DEF Named, Acts, Works
  <2>3. LeftOK(v)'  BY <1>1 DEF LeftOK
  <2> QED  BY <2>1, <2>2, <2>3 DEF Local, ImportOK, CountOK, CountedOK, Imports, Counts
<1>5. LateStep(v)
  <2> SUFFICES ASSUME NEW c \in late, c[1] = v
               PROVE  /\ pc'[v] \in {"deferred", "done"} /\ name'[v] \in Seconds
                      /\ cut'[v] /\ result'[v] = "error"
    BY <1>1 DEF LateStep
  <2>1. pc[v] = "deferred" /\ name[v] \in Seconds /\ cut[v] /\ result[v] = "error"
    BY DEF Inv, LateOK
  <2> QED  BY <1>1, <2>1, OverFacts
<1> QED  BY <1>2, <1>3, <1>4, <1>5, StepInv

LEMMA DropInv == ASSUME Inv, NEW v \in Verifs, Drop(v) PROVE Inv'
<1>1. /\ pc[v] = "drop" /\ name[v] \in Seconds
      /\ UNCHANGED <<world, record, rec, name, cut, late>>
  BY DEF Drop, At, Inv, Local, Named, Acts, Works
<1>2. CASE /\ dbs' = Dropped(v)
           /\ Return(v, "verdict")
           /\ up' = [up EXCEPT ![v] = FALSE]
           /\ UNCHANGED <<attempt, todo>>
  <2>1. Over(v) /\ result' = [result EXCEPT ![v] = "verdict"]  BY <1>2 DEF Return
  <2>2. Touches(v, dbs') /\ dbs'[name[v]] = Absent  BY <1>1, <1>2, TouchesFacts
  <2>3. /\ result' \in [Verifs -> {"none", "error", "verdict"}]
        /\ \A w \in Verifs \ {v} : result'[w] = result[w]
    BY <2>1 DEF Inv, Type, TypeOK
  <2>4. /\ attempt' \in [Verifs -> 1..2] /\ todo' \in [Verifs -> SUBSET Tables]
        /\ up' \in [Verifs -> BOOLEAN] /\ cut' \in [Verifs -> BOOLEAN]
    BY <1>1, <1>2 DEF Inv, Type, TypeOK
  <2>5. UNCHANGED <<attempt, todo, cut>>  BY <1>1, <1>2
  <2> QED  BY <1>1, <2>1, <2>2, <2>3, <2>4, <2>5, OverInv
<1>3. CASE /\ UNCHANGED dbs \/ (Asks(v) /\ dbs' = Dropped(v))
           /\ Leave(v)
           /\ UNCHANGED run
  <2>1. Touches(v, dbs')  BY <1>1, <1>3, TouchesFacts
  <2>2. UNCHANGED <<world, choice, name, counted, watched>> /\ UNCHANGED <<cut, late>>
    BY <1>1, <1>3 DEF run, choice
  <2> QED  BY <1>1, <1>3, <2>1, <2>2, LeaveInv DEF Works, Inv, Type, TypeOK
<1> QED  BY <1>2, <1>3 DEF Drop

LEMMA DeferredDropInv == ASSUME Inv, NEW v \in Verifs, DeferredDrop(v) PROVE Inv'
<1>1. /\ pc[v] = "deferred" /\ name[v] \in Seconds /\ result[v] = "error"
      /\ Over(v)
      /\ up' = [up EXCEPT ![v] = FALSE]
      /\ UNCHANGED <<world, record, rec, name, attempt, todo, result, late>>
      /\ cut \in [Verifs -> BOOLEAN]
  BY DEF DeferredDrop, At, Inv, Local, Named, Acts, Works, Type, TypeOK
<1>2. /\ Touches(v, dbs')
      /\ cut' \in [Verifs -> BOOLEAN] /\ (cut[v] => cut'[v])
      /\ \A w \in Verifs \ {v} : cut'[w] = cut[w]
      /\ dbs'[name[v]] = Absent \/ cut'[v]
  <2>1. CASE dbs' = Dropped(v) /\ UNCHANGED cut
    BY <1>1, <2>1, TouchesFacts
  <2>2. CASE UNCHANGED dbs /\ cut' = [cut EXCEPT ![v] = TRUE]
    BY <1>1, <2>2, TouchesFacts
  <2> QED  BY <2>1, <2>2 DEF DeferredDrop
<1>3. /\ attempt' \in [Verifs -> 1..2] /\ todo' \in [Verifs -> SUBSET Tables]
      /\ up' \in [Verifs -> BOOLEAN]
      /\ result' \in [Verifs -> {"none", "error", "verdict"}]
  BY <1>1 DEF Inv, Type, TypeOK
<1>4. UNCHANGED <<attempt, todo, result>>  BY <1>1
<1> QED  BY <1>1, <1>2, <1>3, <1>4, OverInv

----------------------------------------------------------------------------
(* The environment, as far as no command is carried out. *)
LEMMA AroundInv ==
    ASSUME Inv, Type',
           UNCHANGED <<names, pc, rec, name, attempt, todo, counted, result, cut, dbs, late>>,
           \A r \in Records : file'[r] = "whole" => file[r] = "whole",
           \A r \in Records : record[r].sha => /\ record'[r].sha = record[r].sha
                                               /\ record'[r].prints = record[r].prints
    PROVE  Inv'
<1>1. ASSUME NEW w \in Verifs PROVE Local(w)'
  <2>1. rec[w] \in Records  BY DEF Inv, Type, TypeOK
  <2>2. Alone(w)' => Alone(w)  BY DEF Alone
  <2>3. Whole(w)' => Whole(w)  BY <2>1 DEF Whole
  <2>4. pc[w] \notin {"idle", "done"} => record[rec[w]].sha
    BY DEF Inv, Local, Named
  <2> QED  BY <2>1, <2>2, <2>3, <2>4, SameLocal
<1>2. LateOK'  BY DEF Inv, LateOK
<1>3. DbsNamed'  BY DEF Inv, DbsNamed
<1> QED  BY <1>1, <1>2, <1>3 DEF Inv

LEMMA AroundStep ==
    ASSUME Inv,
           \/ \E r \in Records : Capture(r) \/ Damage(r)
           \/ \E v \in Verifs : Cancel(v) \/ ConnectionLost(v) \/ CancelOnContext(v)
           \/ Tick
    PROVE  Inv'
<1>1. ASSUME NEW r \in Records, Capture(r) PROVE Inv'
  <2>1. /\ ~record[r].sha
        /\ UNCHANGED <<now, file, names, pc, rec, canceled, name, attempt, todo, counted,
                       result, watched, up, cut, dbs, late>>
    BY <1>1 DEF Capture, world, choice, server
  <2>2. PICK f \in {{}} \cup {{g} : g \in Fingerprints} :
           record' = [record EXCEPT ![r].sha = TRUE, ![r].prints = f]
    BY <1>1 DEF Capture
  <2>3. f \in SUBSET Fingerprints  OBVIOUS
  <2>4. /\ record' \in [Records -> [sha : BOOLEAN, prints : SUBSET Fingerprints,
                                    deep : Verdicts]]
        /\ \A q \in Records \ {r} : record'[q] = record[q]
    <3> DEFINE Kept == [sha : BOOLEAN, prints : SUBSET Fingerprints, deep : Verdicts]
    <3>1. record \in [Records -> Kept]  BY DEF Inv, Type, TypeOK
    <3>2. [record[r] EXCEPT !.sha = TRUE, !.prints = f] \in Kept
      <4>1. record[r] \in Kept  BY <3>1
      <4> QED  BY <2>3, <4>1, Zenon
    <3>3. record' = [record EXCEPT ![r] = [record[r] EXCEPT !.sha = TRUE, !.prints = f]]
      BY <2>2, <3>1, Zenon
    <3> HIDE DEF Kept
    <3>4. /\ record' \in [Records -> Kept]
          /\ \A q \in Records \ {r} : record'[q] = record[q]
      BY <3>1, <3>2, <3>3
    <3> QED  BY <3>4 DEF Kept
  <2>5. Type'  BY <2>1, <2>4 DEF Inv, Type, TypeOK
  <2> QED  BY <2>1, <2>4, <2>5, AroundInv
<1>2. ASSUME NEW r \in Records, Damage(r) PROVE Inv'
  <2>1. /\ file' = [file EXCEPT ![r] = "cut"]
        /\ UNCHANGED <<now, names, record, pc, rec, canceled, name, attempt, todo, counted,
                       result, watched, up, cut, dbs, late>>
    BY <1>2 DEF Damage, choice, server
  <2>2. /\ file' \in [Records -> {"whole", "cut"}]
        /\ \A q \in Records : file'[q] = "whole" => file[q] = "whole"
    BY <2>1 DEF Inv, Type, TypeOK
  <2>3. Type'  BY <2>1, <2>2 DEF Inv, Type, TypeOK
  <2> QED  BY <2>1, <2>2, <2>3, AroundInv
<1>3. ASSUME NEW v \in Verifs, Cancel(v) PROVE Inv'
  <2>1. /\ canceled' = [canceled EXCEPT ![v] = TRUE]
        /\ UNCHANGED <<now, file, names, record, pc, rec, name, attempt, todo, counted,
                       result, watched, up, cut, dbs, late>>
    BY <1>3 DEF Cancel, world, server
  <2>2. canceled' \in [Verifs -> BOOLEAN]  BY <2>1 DEF Inv, Type, TypeOK
  <2>3. Type'  BY <2>1, <2>2 DEF Inv, Type, TypeOK
  <2> QED  BY <2>1, <2>3, AroundInv
<1>4. ASSUME NEW v \in Verifs, ConnectionLost(v) PROVE Inv'
  <2>1. /\ up' = [up EXCEPT ![v] = FALSE]
        /\ UNCHANGED <<now, file, names, record, pc, rec, canceled, name, attempt, todo,
                       counted, result, watched, cut, dbs, late>>
    BY <1>4 DEF ConnectionLost, world, choice, server
  <2>2. up' \in [Verifs -> BOOLEAN]  BY <2>1 DEF Inv, Type, TypeOK
  <2>3. Type'  BY <2>1, <2>2 DEF Inv, Type, TypeOK
  <2> QED  BY <2>1, <2>3, AroundInv
<1>5. CASE Tick
  <2>1. /\ now' = now + 1 /\ now < MaxSecond
        /\ UNCHANGED <<file, names, record, pc, rec, canceled, name, attempt, todo, counted,
                       result, watched, up, cut, dbs, late>>
    BY <1>5 DEF Tick, choice, server
  <2>2. now' \in Seconds
    BY <2>1, VerifyAssumption DEF Inv, Type, TypeOK, Seconds
  <2>3. Type'  BY <2>1, <2>2 DEF Inv, Type, TypeOK
  <2> QED  BY <2>1, <2>3, AroundInv
<1> QED  BY <1>1, <1>2, <1>3, <1>4, <1>5 DEF CancelOnContext

LEMMA LateInv == ASSUME Inv, NEW c \in late, Late(c) PROVE Inv'
<1> DEFINE v == c[1]
<1>1. /\ late' = late \ {c}
      /\ UNCHANGED <<now, file, names, record, pc, rec, canceled, name, attempt, todo,
                     counted, result, watched, up, cut>>
  BY DEF Late, world, choice
<1>2. /\ v \in Verifs /\ pc[v] \in {"deferred", "done"} /\ name[v] \in Seconds
      /\ cut[v] /\ result[v] = "error"
  BY DEF Inv, LateOK
<1>3. Touches(v, dbs')
  <2>1. CASE UNCHANGED dbs  BY <1>2, <2>1, TouchesFacts
  <2>2. CASE dbs' = Prepared(v)  BY <1>2, <2>2, TouchesFacts
  <2>3. CASE \E t \in Tables : dbs' = ImportedRow(v, 0, t)
    <3>1. PICK t \in Tables : dbs' = ImportedRow(v, 0, t)  BY <2>3
    <3>2. 0 \in 0..2  OBVIOUS
    <3>3. Touches(v, ImportedRow(v, 0, t))  BY <1>2, <3>2, ImportedRowFacts
    <3> QED  BY <3>1, <3>3
  <2> QED  BY <2>1, <2>2, <2>3 DEF Late
<1> HIDE DEF v
<1>4. Type'  BY <1>1, <1>3 DEF Touches, Inv, Type, TypeOK
<1>5. Elsewhere(v)  BY <1>1, <1>3 DEF Touches, Elsewhere
<1>6. Local(v)'
  <2>1. Named(v)'  BY <1>1, <1>2 DEF Inv, Local, Named
  <2> QED
    BY <1>1, <1>2, <2>1 DEF Local, ImportOK, CountOK, CountedOK, LeftOK, Imports, Counts
<1>7. LateStep(v)  BY <1>1, <1>2 DEF LateStep
<1> QED  BY <1>2, <1>4, <1>5, <1>6, <1>7, StepInv

----------------------------------------------------------------------------
LEMMA NextInv == Inv /\ [Next]_vars => Inv'
<1> SUFFICES ASSUME Inv, [Next]_vars PROVE Inv'  OBVIOUS
<1>1. CASE UNCHANGED vars
  <2>1. Type'  BY <1>1 DEF vars, Inv, Type, TypeOK
  <2> QED  BY <1>1, <2>1, AroundInv DEF vars
<1>2. ASSUME NEW v \in Verifs, Remote(v) PROVE Inv'
  BY <1>2, ConnectInv, PrepareInv, CreateInv, ImportRowInv, CountTableInv,
     ImportDoneInv, ImportFailsInv, QueryDialedInv, CountFailsInv, DropInv DEF Remote
<1>3. ASSUME NEW v \in Verifs, Begin(v) \/ Name(v) \/ Record(v) \/ DeferredDrop(v)
      PROVE  Inv'
  BY <1>3, BeginInv, NameInv, RecordInv, DeferredDropInv
<1>4. ASSUME NEW c \in late, Late(c) PROVE Inv'  BY <1>4, LateInv
<1> QED  BY <1>1, <1>2, <1>3, <1>4, AroundStep DEF Next

LEMMA Invariance == Spec => []Inv
<1> QED  BY InitInv, NextInv, PTL DEF Spec

(* Every reachable state is well typed. *)
THEOREM TypeCorrect == Spec => []TypeOK
<1>1. Inv => TypeOK  BY DEF Inv, Type
<1> QED  BY <1>1, Invariance, PTL

(* What a verification compares with the fingerprint is one complete import of
   an undamaged file, whatever failed before and whatever came late, unless
   another verification was named after the same second. *)
THEOREM VerdictsAreOfTheFile == Spec => []VerdictIsOfTheFile
<1>1. Inv => VerdictIsOfTheFile
  <2> SUFFICES ASSUME Inv, NEW v \in Verifs, pc[v] = "drop", Alone(v), Whole(v)
               PROVE  counted[v] = [t \in DOMAIN PrintsOf(rec[v]) |-> 1]
    BY DEF VerdictIsOfTheFile
  <2>1. /\ todo[v] = {}
        /\ counted[v] = [t \in DOMAIN PrintsOf(rec[v]) \ todo[v] |-> 1]
    BY DEF Inv, Local, CountedOK, Counts, Clean
  <2>2. DOMAIN PrintsOf(rec[v]) \ todo[v] = DOMAIN PrintsOf(rec[v])  BY <2>1
  <2> QED  BY <2>1, <2>2
<1> QED  BY <1>1, Invariance, PTL

(* A temporary database is left behind only by a verification that failed and
   one of whose commands the server did not answer. *)
THEOREM LeftoversAreExplained == Spec => []LeftoverIsExplained
<1>1. Inv => LeftoverIsExplained
  BY DEF Inv, Local, LeftOK, LeftoverIsExplained
<1> QED  BY <1>1, Invariance, PTL

(* The production database changes only through the import of a dump that names a
   database in a way its importer lets through: nothing a verification prepares,
   imports, repeats or drops, in time or late, reaches it otherwise. *)
THEOREM ProductionIsSafe == Spec => ProductionUntouched
<1> DEFINE Safe == dbs'[Production] # dbs[Production]
                   => \E v \in Verifs : Importing(v) /\ Escapes(v)
<1>1. ASSUME Inv, NEW v \in Verifs, Remote(v) PROVE Safe
  <2>1. name[v] \in Seconds
    <3>1. pc[v] \in Acts
      BY <1>1 DEF Remote, Connect, Prepare, Create, ImportRow, QueryDialed, CountTable,
         ImportDone, ImportFails, ImportLost, CountFails, Drop, At, Works, Acts
    <3> QED  BY <1>1, <3>1 DEF Inv, Local, Named
  <2>2. CASE Prepare(v)  BY <1>1, <2>1, <2>2, TouchesFacts DEF Prepare
  <2>3. CASE Create(v)  BY <1>1, <2>1, <2>3, TouchesFacts DEF Create
  <2>4. CASE \E t \in Tables : ImportRow(v, t)
    <3>1. PICK t \in Tables : ImportRow(v, t)  BY <2>4
    <3>2. Importing(v) /\ dbs' = ImportedRow(v, attempt[v], t)
      BY <3>1 DEF ImportRow, Importing
    <3>3. attempt[v] \in 0..2  BY <1>1 DEF Inv, Type, TypeOK
    <3> QED  BY <1>1, <2>1, <3>2, <3>3, ImportedRowFacts
  <2>5. CASE Drop(v)  BY <1>1, <2>1, <2>5, TouchesFacts DEF Drop
  <2>6. CASE \/ Connect(v) \/ ImportDone(v) \/ ImportFails(v) \/ ImportLost(v)
             \/ QueryDialed(v) \/ CountFails(v) \/ \E t \in Tables : CountTable(v, t)
    BY <2>6 DEF Connect, ImportDone, ImportFails, ImportLost, QueryDialed, CountFails,
       CountTable, server
  <2> QED  BY <1>1, <2>2, <2>3, <2>4, <2>5, <2>6 DEF Remote
<1>2. ASSUME Inv, NEW v \in Verifs, DeferredDrop(v) PROVE Safe
  <2>1. name[v] \in Seconds /\ dbs' \in {dbs, Dropped(v)}
    BY <1>2 DEF DeferredDrop, At, Inv, Local, Named, Acts
  <2> QED  BY <2>1, <1>2, TouchesFacts
<1>3. ASSUME Inv, NEW c \in late, Late(c) PROVE Safe
  <2>1. c[1] \in Verifs /\ name[c[1]] \in Seconds  BY <1>3 DEF Inv, LateOK
  <2>2. CASE dbs' \in {dbs, Prepared(c[1])}  BY <1>3, <2>1, <2>2, TouchesFacts
  <2>3. CASE c[2] = "import" /\ \E t \in Tables : dbs' = ImportedRow(c[1], 0, t)
    <3>1. c = <<c[1], c[2]>>  BY <1>3 DEF Inv, Type, TypeOK
    <3>2. Importing(c[1])  BY <2>3, <3>1 DEF Importing
    <3>3. PICK t \in Tables : dbs' = ImportedRow(c[1], 0, t)  BY <2>3
    <3>4. 0 \in 0..2  OBVIOUS
    <3>5. ~Escapes(c[1]) => ImportedRow(c[1], 0, t)[Production] = dbs[Production]
      BY <1>3, <2>1, <3>4, ImportedRowFacts
    <3> QED  BY <2>1, <3>2, <3>3, <3>5
  <2> QED  BY <1>3, <2>2, <2>3 DEF Late
<1>4. ASSUME \/ \E r \in Records : Capture(r) \/ Damage(r)
             \/ \E v \in Verifs : \/ Begin(v) \/ Name(v) \/ Record(v) \/ Cancel(v)
                                  \/ ConnectionLost(v) \/ CancelOnContext(v)
             \/ Tick
      PROVE  dbs' = dbs
  BY <1>4 DEF Capture, Damage, Begin, Name, Record, Cancel, ConnectionLost,
     CancelOnContext, Tick, server
<1>5. Inv /\ [Next]_vars => [Safe]_vars
  BY <1>1, <1>2, <1>3, <1>4 DEF Next
<1> QED  BY <1>5, Invariance, PTL DEF Spec, ProductionUntouched
============================================================================
