------------------------- MODULE RestoreSSH_proofs -------------------------
(***************************************************************************)
(* Proofs about RestoreSSH, for any number of restores of files of any size: *)
(* a complete restore has imported its file exactly once, and the imports of *)
(* one restore never overlap.                                                *)
(***************************************************************************)
EXTENDS RestoreSSH, TLAPS

(* The file as far as it has been imported by the attempt under way. *)
Prefix(n) == [k \in 1..n |-> <<call, attempt, k>>]

(* Where nothing of this call can be running on the server: before its first
   import, and between two attempts over a client that still works. *)
Quiet == \/ pc \in {"prequery", "connect", "stream", "mkdir", "upload", "import"}
         \/ pc \in {"attempt", "prepare"} /\ up

(* Where an import of this call may be running for the call. *)
Importing == pc \in {"copy", "wait", "run"}

Imported == pc \in {"imported", "postquery"}

OfPast == /\ \A i \in live : i.call <= call
          /\ pc # "idle" => call \in 1..Calls

QuietServer == Quiet => Mine = {}

(* Since the database was created nothing but this call has been at work. *)
Alone == alone /\ (pc \in {"stream", "mkdir", "upload", "import"} \/ Importing \/ Imported)
            => live \subseteq Mine /\ drops = {}

(* What the database holds meanwhile. *)
Empty == alone /\ pc \in {"stream", "mkdir", "upload", "import"} => db = <<>>

Underway ==
    Importing =>
        /\ \A i \in Mine : /\ exit = "none"
                           /\ i.attempt = attempt
                           /\ pc = "copy" => i.avail = sent
                           /\ alone => db = Prefix(i.done)
        /\ exit = "ok" => /\ Pipefail => intact
                          /\ alone => db = Prefix(Size)

Over == Imported => /\ Mine = {}
                    /\ Pipefail => intact
                    /\ alone => db = Prefix(Size)

State == OneImport /\ OfPast /\ QuietServer /\ Alone /\ Empty /\ Underway /\ Over

Inv == TypeOK /\ State

-----------------------------------------------------------------------------
LEMMA InitInv == Init => Inv
<1> SUFFICES ASSUME Init PROVE Inv  OBVIOUS
<1>1. db \in Seq(Chunks)
  <2>1. Before \in Chunks  BY CallsAssumption, SizeAssumption DEF Before, Chunks
  <2> QED  BY <2>1 DEF Init
<1>2. TypeOK
  <2>1. intact \in BOOLEAN /\ canceled \in BOOLEAN /\ up \in BOOLEAN
        /\ watched \in BOOLEAN /\ alone \in BOOLEAN  BY DEF Init
  <2>2. call \in 0..Calls /\ sent \in 0..Size  BY CallsAssumption, SizeAssumption DEF Init
  <2>3. attempt \in 1..2 /\ pc = "idle" /\ query = "none" /\ exit = "none" /\ live = {}
        /\ drops = {}  BY DEF Init
  <2>4. result \in [1..Calls -> {"none", "complete", "failed", "canceled", "queryfailed"}]
    BY DEF Init
  <2> QED  BY <1>1, <2>1, <2>2, <2>3, <2>4 DEF TypeOK
<1>3. State
  BY DEF Init, State, OneImport, OfPast, QuietServer, Quiet, Mine, Alone, Empty, Underway,
         Importing, Over, Imported
<1> QED  BY <1>2, <1>3 DEF Inv

(* Between two attempts and at the end of a call only the past matters. *)
LEMMA SettledState ==
  ASSUME State, pc # "idle", call' = call, live' = live,
         pc' \in {"attempt", "prepare", "idle"},
         pc' # "idle" /\ up' => Mine = {}
  PROVE  State'
BY DEF State, OneImport, OfPast, QuietServer, Quiet, Mine, Alone, Empty, Underway,
       Importing, Over, Imported

LEMMA EndInv ==
  ASSUME Inv, NEW retryable \in BOOLEAN, EndAttempt(retryable),
         UNCHANGED <<call, intact, canceled, live>>, query' \in {"none", "dial", "run"},
         watched' \in BOOLEAN, alone' \in BOOLEAN, sent' \in 0..Size,
         exit' \in {"none", "ok", "bad"},
         db' \in Seq(Chunks), drops' \subseteq 1..Calls,
         pc # "idle", up => Mine = {}
  PROVE  Inv'
<1>1. TypeOK'
  <2>1. CASE retryable /\ attempt = 1
    BY <2>1 DEF EndAttempt, Inv, TypeOK
  <2>2. CASE ~(retryable /\ attempt = 1)
    <3>1. up' \in BOOLEAN  BY <2>2 DEF EndAttempt, Return
    <3>2. result' \in [1..Calls -> {"none", "complete", "failed", "canceled", "queryfailed"}]
      BY <2>2 DEF EndAttempt, Return, Inv, TypeOK
    <3>3. pc' = "idle" /\ attempt' = attempt  BY <2>2 DEF EndAttempt, Return
    <3> QED  BY <3>1, <3>2, <3>3 DEF Inv, TypeOK
  <2> QED  BY <2>1, <2>2
<1>2. State'
  BY SettledState DEF EndAttempt, Return, Inv
<1> QED  BY <1>1, <1>2 DEF Inv

LEMMA FailsInv ==
  ASSUME Inv, Fails,
         UNCHANGED <<call, intact, canceled, live>>, query' \in {"none", "dial", "run"},
         watched' \in BOOLEAN, alone' \in BOOLEAN, sent' \in 0..Size,
         exit' \in {"none", "ok", "bad"},
         db' \in Seq(Chunks), drops' \subseteq 1..Calls,
         pc # "idle", up => Mine = {}
  PROVE  Inv'
<1>1. PICK retryable \in BOOLEAN : EndAttempt(retryable)  BY DEF Fails
<1> QED  BY <1>1, EndInv

(* Steps that leave the server alone and lead on. *)
LEMMA OnwardInv ==
  ASSUME Inv, Goes(pc'), pc # "idle", UNCHANGED <<client, exit, alone, server>>,
         sent' \in 0..Size,
         pc' \in {"connect", "prepare", "upload", "import", "wait", "imported"},
         pc' \in {"connect", "prepare", "upload", "import"} => Quiet /\ pc # "connect",
         pc' \in {"upload", "import"} => pc \in {"mkdir", "upload"},
         pc' = "wait" => pc = "copy",
         pc' = "imported" => up /\ exit = "ok" /\ pc \in {"wait", "run"}
  PROVE  Inv'
<1>1. TypeOK'  BY DEF Goes, client, request, server, Inv, TypeOK
<1>2. UNCHANGED <<call, attempt, up, intact, live, db, drops, alone, exit>>
  BY DEF Goes, client, request, server
<1>3. OneImport' /\ OfPast'  BY <1>2 DEF Inv, State, OneImport, OfPast
<1>4. QuietServer'  BY <1>2 DEF Inv, State, QuietServer, Quiet, Mine
<1>5. Alone'
  BY <1>2 DEF Inv, State, Alone, Importing, Imported, Mine
<1>6. Empty'  BY <1>2 DEF Inv, State, Empty
<1>7. Underway'  BY <1>2 DEF Inv, State, Underway, Importing, Mine, Prefix
<1>8. Over'
  <2>1. SUFFICES ASSUME pc' = "imported" PROVE Over'
    BY DEF Over, Imported
  <2>2. Mine = {} /\ (Pipefail => intact) /\ (alone => db = Prefix(Size))
    BY <2>1 DEF Inv, State, Underway, Importing
  <2> QED  BY <1>2, <2>2 DEF Over, Mine, Prefix
<1> QED  BY <1>1, <1>3, <1>4, <1>5, <1>6, <1>7, <1>8 DEF Inv, State

(* A new import starts where nothing of the call is running. *)
LEMMA ImportStarts ==
  ASSUME Inv, NEW n \in 0..Size, up, pc \in {"stream", "import"},
         live' = live \cup {Import(n)}, exit' = "none",
         pc' \in {"copy", "run"}, pc' = "copy" => sent' = n,
         UNCHANGED <<call, query, attempt, result, up, intact, canceled, alone, db,
                     drops>>,
         sent' \in 0..Size, watched' \in BOOLEAN
  PROVE  Inv'
<1>1. Import(n) \in Imports /\ Import(n).call = call /\ Import(n).attempt = attempt
      /\ Import(n).done = 0 /\ Import(n).avail = n
  BY SizeAssumption DEF Import, Imports, Inv, State, OfPast, TypeOK
<1>2. TypeOK'  BY <1>1 DEF Inv, TypeOK
<1>3. Mine = {}  BY DEF Inv, State, QuietServer, Quiet
<1>4. Mine' = {Import(n)}  BY <1>1, <1>3 DEF Mine
<1>5. \A i \in live : i.call # call  BY <1>3 DEF Mine
<1>6. OneImport'  BY <1>1, <1>5 DEF Inv, State, OneImport
<1>7. OfPast'
  <2>1. call \in 0..Calls  BY DEF Inv, TypeOK
  <2> QED  BY <1>1, <2>1, CallsAssumption DEF Inv, State, OfPast
<1>8. QuietServer'  BY DEF QuietServer, Quiet
<1>9. Alone'  BY <1>1 DEF Inv, State, Alone, Mine, Importing, Imported
<1>10. Empty' /\ Over'  BY DEF Empty, Over, Imported
<1>11. Underway'
  <2>1. Prefix(0) = <<>>  BY DEF Prefix
  <2>2. alone => db = Prefix(0)  BY <2>1 DEF Inv, State, Empty
  <2> QED  BY <1>1, <1>4, <2>2 DEF Underway, Prefix
<1> QED  BY <1>2, <1>6, <1>7, <1>8, <1>9, <1>10, <1>11 DEF Inv, State

(* The end of a query ends the call or leads to RestoreSSH. *)
LEMMA QueryEndsInv ==
  ASSUME Inv, pc \in Queries, NEW ok \in BOOLEAN, QueryEnds(ok),
         UNCHANGED <<request, sent, exit, alone, server>>
  PROVE  Inv'
<1> USE DEF request, server
<1>1. CASE pc = "prequery" /\ ok
  <2>1. pc' = "connect" /\ query' = "none" /\ UNCHANGED <<attempt, result, up>>
    BY <1>1 DEF QueryEnds, Goes
  <2>2. TypeOK'  BY <2>1 DEF Inv, TypeOK
  <2>3. State'
    BY <1>1, <2>1 DEF Inv, State, OneImport, OfPast, QuietServer, Quiet, Mine,
       Alone, Empty, Underway, Importing, Over, Imported
  <2> QED  BY <2>2, <2>3 DEF Inv
<1>2. CASE ~(pc = "prequery" /\ ok)
  <2>1. pc' = "idle" /\ query' = "none" /\ attempt' = attempt /\ up' \in BOOLEAN
    BY <1>2 DEF QueryEnds, Return, Queries, Inv, TypeOK
  <2>2. result' \in [1..Calls -> {"none", "complete", "failed", "canceled", "queryfailed"}]
    BY <1>2 DEF QueryEnds, Return, Inv, TypeOK
  <2>3. TypeOK'  BY <2>1, <2>2 DEF Inv, TypeOK
  <2>4. State'  BY <2>1, SettledState DEF Queries, Inv
  <2> QED  BY <2>3, <2>4 DEF Inv
<1> QED  BY <1>1, <1>2

LEMMA QueryInv == ASSUME Inv, Query PROVE Inv'
<1>1. /\ pc \in Queries
      /\ UNCHANGED <<request, sent, exit, alone, server>>
      /\ \/ \E ok \in BOOLEAN : QueryEnds(ok)
         \/ Goes(pc) /\ query' \in {"dial", "run"}
  BY DEF Query, NoQuery, DialQuery, QueryDialed, RunQuery
<1>2. CASE \E ok \in BOOLEAN : QueryEnds(ok)  BY <1>1, <1>2, QueryEndsInv
<1>3. CASE Goes(pc) /\ query' \in {"dial", "run"}
  <2>1. TypeOK'  BY <1>1, <1>3 DEF Goes, request, server, Inv, TypeOK
  <2>2. State'
    BY <1>1, <1>3 DEF Goes, request, server, Inv, State, OneImport, OfPast,
       QuietServer, Quiet, Mine, Alone, Empty, Underway, Importing, Over,
       Imported, Prefix
  <2> QED  BY <2>1, <2>2 DEF Inv
<1> QED  BY <1>1, <1>2, <1>3

-----------------------------------------------------------------------------
LEMMA NextInv == Inv /\ [Next]_vars => Inv'
<1> SUFFICES ASSUME Inv, [Next]_vars PROVE Inv'  OBVIOUS
<1> USE DEF client, request, server
<1>1. CASE Start
  <2>1. TypeOK'
    <3>1. call' \in 0..Calls  BY <1>1, CallsAssumption DEF Start, Inv, TypeOK
    <3> QED  BY <1>1, <3>1 DEF Start, Inv, TypeOK
  <2>2. \A i \in live : i.call # call' /\ i.call <= call'
    <3>1. SUFFICES ASSUME NEW i \in live PROVE i.call # call' /\ i.call <= call'  OBVIOUS
    <3>2. i.call \in Nat /\ call \in Nat /\ i.call <= call
      BY CallsAssumption DEF Inv, TypeOK, Imports, State, OfPast
    <3> QED  BY <1>1, <3>2 DEF Start
  <2>3. OfPast'
    BY <1>1, <2>2, CallsAssumption DEF Start, OfPast, Inv, TypeOK
  <2>4. State'
    BY <1>1, <2>2, <2>3 DEF Start, Inv, State, OneImport, QuietServer, Mine, Alone, Empty,
       Underway, Importing, Over, Imported
  <2> QED  BY <2>1, <2>4 DEF Inv
<1>2. CASE Query  BY <1>2, QueryInv
<1>3. CASE Connect
  <2>1. Mine = {}  BY <1>3 DEF Connect, Inv, State, QuietServer, Quiet
  <2>2. State'  BY <1>3, <2>1, SettledState DEF Connect, Return, Inv
  <2>3. up' \in BOOLEAN /\ attempt' \in 1..2
    <3>1. up' \in BOOLEAN  BY <1>3 DEF Connect, Return
    <3> QED  BY <1>3, <3>1 DEF Connect, Inv, TypeOK
  <2>4. pc' \in {"attempt", "idle"}
        /\ result' \in [1..Calls -> {"none", "complete", "failed", "canceled", "queryfailed"}]
    BY <1>3 DEF Connect, Return, Inv, TypeOK
  <2>5. TypeOK'  BY <1>3, <2>3, <2>4 DEF Connect, Inv, TypeOK
  <2> QED  BY <2>2, <2>5 DEF Inv
<1>4. CASE Attempt
  <2>1. up => Mine = {}  BY <1>4 DEF Attempt, Inv, State, QuietServer, Quiet
  <2>2. State'  BY <1>4, <2>1, SettledState DEF Attempt, Goes, Return, Inv
  <2>3. TypeOK'  BY <1>4 DEF Attempt, Goes, Return, Inv, TypeOK
  <2> QED  BY <2>2, <2>3 DEF Inv
<1>5. CASE Prepare
  <2>1. up => Mine = {}  BY <1>5 DEF Prepare, Inv, State, QuietServer, Quiet
  <2>0. <<>> \in Seq(Chunks)  OBVIOUS
  <2>2. CASE /\ up
             /\ db' = <<>>
             /\ alone' = (drops = {} /\ live \subseteq Mine)
             /\ Goes(IF attempt = 1 THEN "stream" ELSE "mkdir")
             /\ UNCHANGED drops
    <3>1. TypeOK'
      <4>1. alone' \in BOOLEAN  BY <2>2
      <4> QED  BY <1>5, <2>0, <2>2, <4>1 DEF Prepare, Goes, Inv, TypeOK
    <3>2. pc' \in {"stream", "mkdir"} /\ Mine' = {}
      BY <1>5, <2>1, <2>2 DEF Prepare, Goes, Mine
    <3>3. Alone'  BY <1>5, <2>2 DEF Prepare, Goes, Alone, Mine
    <3>4. OneImport' /\ OfPast'
      BY <1>5, <2>2 DEF Prepare, Goes, Inv, State, OneImport, OfPast
    <3>5. QuietServer' /\ Empty' /\ Underway' /\ Over'
      BY <2>2, <3>2 DEF QuietServer, Empty, Underway, Importing, Over, Imported
    <3> QED  BY <3>1, <3>3, <3>4, <3>5 DEF Inv, State
  <2>3. CASE up /\ db' \in {db, <<>>} /\ Fails /\ UNCHANGED <<alone, drops>>
    BY <1>5, <2>0, <2>1, <2>3, FailsInv DEF Prepare, Inv, TypeOK
  <2>4. CASE ~up /\ drops' \in {drops, drops \cup {call}} /\ Fails /\ UNCHANGED <<alone, db>>
    <3>1. call \in 1..Calls  BY <1>5 DEF Prepare, Inv, State, OfPast
    <3>2. drops' \subseteq 1..Calls  BY <2>4, <3>1 DEF Inv, TypeOK
    <3> QED  BY <1>5, <2>4, <3>2, FailsInv DEF Prepare, Inv, TypeOK
  <2> QED  BY <1>5, <2>2, <2>3, <2>4 DEF Prepare
<1>6. CASE OpenStream
  <2>1. Mine = {}  BY <1>6 DEF OpenStream, Inv, State, QuietServer, Quiet
  <2>2. CASE /\ up /\ live' = live \cup {Import(0)} /\ watched' = TRUE /\ sent' = 0
             /\ exit' = "none" /\ Goes("copy")
    BY <1>6, <2>2, ImportStarts, SizeAssumption DEF OpenStream, Goes
  <2>3. CASE Fails /\ UNCHANGED <<live, watched, sent, exit>>
    BY <1>6, <2>1, <2>3, FailsInv DEF OpenStream, Inv, TypeOK
  <2> QED  BY <1>6, <2>2, <2>3 DEF OpenStream
<1>7. CASE Copy
  <2>1. PICK i \in Mine : live' = (live \ {i}) \cup {[i EXCEPT !.avail = @ + 1]}
    BY <1>7 DEF Copy
  <2> DEFINE j == [i EXCEPT !.avail = @ + 1]
  <2>2. i \in live /\ i \in Imports /\ i.call = call /\ i.avail = sent
    BY <1>7, <2>1 DEF Copy, Mine, Inv, TypeOK, State, Underway, Importing
  <2>3. /\ j \in Imports /\ j.call = call /\ j.attempt = i.attempt /\ j.done = i.done
        /\ j.avail = sent + 1
    BY <1>7, <2>2, SizeAssumption DEF Copy, Imports, Inv, TypeOK
  <2>4. Mine = {i}  BY <2>2 DEF Mine, Inv, State, OneImport
  <2>5. live' = (live \ {i}) \cup {j}  BY <2>1
  <2> HIDE DEF j
  <2>6. Mine' = {j}  BY <1>7, <2>3, <2>4, <2>5 DEF Copy, Mine
  <2>7. TypeOK'
    <3>1. live' \subseteq Imports  BY <2>3, <2>5 DEF Inv, TypeOK
    <3>2. sent' \in 0..Size  BY <1>7, SizeAssumption DEF Copy, Inv, TypeOK
    <3> QED  BY <1>7, <3>1, <3>2 DEF Copy, Goes, Inv, TypeOK
  <2>8. OneImport'  BY <2>2, <2>3, <2>5 DEF Inv, State, OneImport
  <2>9. OfPast'  BY <1>7, <2>2, <2>3, <2>5 DEF Copy, Inv, State, OfPast
  <2>10. Alone'
    BY <1>7, <2>3, <2>4, <2>5, <2>6 DEF Copy, Goes, Inv, State, Alone, Importing
  <2>11. Underway'
    BY <1>7, <2>3, <2>4, <2>6 DEF Copy, Goes, Inv, State, Underway, Importing, Prefix
  <2>12. QuietServer' /\ Empty' /\ Over'
    BY <1>7 DEF Copy, Goes, QuietServer, Quiet, Empty, Over, Imported
  <2> QED  BY <2>7, <2>8, <2>9, <2>10, <2>11, <2>12 DEF Inv, State
<1>8. CASE CopyEnds
  <2>1. CASE Return("canceled") /\ UNCHANGED attempt
    <3>1. State'  BY <1>8, <2>1, SettledState DEF CopyEnds, Return, Inv
    <3>2. TypeOK'  BY <1>8, <2>1 DEF CopyEnds, Return, Inv, TypeOK
    <3> QED  BY <3>1, <3>2 DEF Inv
  <2>2. CASE up /\ Mine = {} /\ EndAttempt(TRUE)
    BY <1>8, <2>2, EndInv DEF CopyEnds, Inv, TypeOK
  <2>3. CASE ~up /\ Fails
    BY <1>8, <2>3, FailsInv DEF CopyEnds, Inv, TypeOK
  <2>4. CASE sent = Size /\ Goes("wait")
    BY <1>8, <2>4, OnwardInv DEF CopyEnds, Goes, Inv, TypeOK
  <2> QED  BY <1>8, <2>1, <2>2, <2>3, <2>4 DEF CopyEnds
<1>9. CASE Wait \/ ImportReturns
  <2>1. exit = "bad" => Mine = {}
    BY <1>9 DEF Wait, ImportReturns, Inv, State, Underway, Importing
  <2>2. CASE (~up \/ (up /\ exit = "bad")) /\ Fails
    BY <1>9, <2>1, <2>2, FailsInv DEF Wait, ImportReturns, Inv, TypeOK
  <2>3. CASE up /\ exit = "ok" /\ Goes("imported")
    BY <1>9, <2>3, OnwardInv DEF Wait, ImportReturns, Goes, Inv, TypeOK
  <2> QED  BY <1>9, <2>2, <2>3 DEF Wait, ImportReturns
<1>10. CASE MakeTmpDir \/ Upload
  <2>1. Quiet /\ Mine = {}
    BY <1>10 DEF MakeTmpDir, Upload, Inv, State, QuietServer, Quiet
  <2>2. CASE Fails /\ UNCHANGED sent
    BY <1>10, <2>1, <2>2, FailsInv DEF MakeTmpDir, Upload, Inv, TypeOK
  <2>3. CASE up /\ sent' \in 0..Size /\ pc' \in {"upload", "import"} /\ Goes(pc')
    BY <1>10, <2>1, <2>3, OnwardInv DEF MakeTmpDir, Upload
  <2>4. CASE MakeTmpDir /\ up /\ Goes("upload") /\ sent' = 0
    <3>1. pc' = "upload" /\ Goes(pc') /\ sent' \in 0..Size
      BY <2>4, SizeAssumption DEF Goes
    <3> QED  BY <2>3, <2>4, <3>1
  <2>5. CASE Upload /\ up /\ sent < Size /\ sent' = sent + 1 /\ Goes("upload")
    <3>1. pc' = "upload" /\ Goes(pc')  BY <2>5 DEF Goes
    <3>2. sent' \in 0..Size  BY <2>5, SizeAssumption DEF Inv, TypeOK
    <3> QED  BY <2>3, <2>5, <3>1, <3>2
  <2>6. CASE Upload /\ up /\ sent = Size /\ Goes("import") /\ UNCHANGED sent
    <3>1. pc' = "import" /\ Goes(pc')  BY <2>6 DEF Goes
    <3>2. sent' \in 0..Size  BY <2>6 DEF Inv, TypeOK
    <3> QED  BY <2>3, <2>6, <3>1, <3>2
  <2> QED  BY <1>10, <2>2, <2>4, <2>5, <2>6 DEF MakeTmpDir, Upload
<1>11. CASE StartImport
  <2>1. Mine = {}  BY <1>11 DEF StartImport, Inv, State, QuietServer, Quiet
  <2>2. CASE up /\ live' = live \cup {Import(Size)} /\ exit' = "none" /\ Goes("run")
    BY <1>11, <2>2, ImportStarts, SizeAssumption DEF StartImport, Goes, Inv, TypeOK
  <2>3. CASE Fails /\ UNCHANGED <<live, exit>>
    BY <1>11, <2>1, <2>3, FailsInv DEF StartImport, Inv, TypeOK
  <2> QED  BY <1>11, <2>2, <2>3 DEF StartImport
<1>12. CASE Complete
  <2>1. TypeOK'  BY <1>12 DEF Complete, Inv, TypeOK
  <2>2. State'
    BY <1>12 DEF Complete, Inv, State, OneImport, OfPast, QuietServer, Quiet, Alone, Mine,
       Empty, Underway, Importing, Over, Imported, Prefix
  <2> QED  BY <2>1, <2>2 DEF Inv
<1>14. ASSUME NEW i \in live, Apply(i) PROVE Inv'
  <2> DEFINE j == [i EXCEPT !.done = @ + 1]
  <2>1. i \in Imports  BY DEF Inv, TypeOK
  <2>2. /\ j \in Imports /\ j.call = i.call /\ j.attempt = i.attempt /\ j.avail = i.avail
        /\ j.done = i.done + 1 /\ i.done + 1 \in 1..Size
    <3>1. i.done \in Nat /\ i.avail \in Nat /\ i.done < i.avail /\ i.avail <= Size
      BY <1>14, <2>1, SizeAssumption DEF Apply, Imports
    <3>2. i.done + 1 \in 1..Size /\ i.done + 1 \in 0..Size  BY <3>1, SizeAssumption
    <3>3. j = [i EXCEPT !.done = i.done + 1]  OBVIOUS
    <3> HIDE DEF j
    <3> QED  BY <2>1, <3>2, <3>3 DEF Imports
  <2>3. live' = (live \ {i}) \cup {j}  BY <1>14 DEF Apply
  <2> HIDE DEF j
  <2>4. db' \in Seq(Chunks)
    <3>1. <<i.call, i.attempt, i.done + 1>> \in Chunks
      <4>1. i.call \in 0..Calls  BY <2>1, CallsAssumption DEF Imports
      <4>2. i.attempt \in 0..2  BY <2>1 DEF Imports
      <4>3. i.done + 1 \in 0..Size  BY <2>2, SizeAssumption
      <4> QED  BY <4>1, <4>2, <4>3 DEF Chunks
    <3> QED  BY <1>14, <3>1 DEF Apply, Inv, TypeOK
  <2>5. TypeOK'
    <3>1. live' \subseteq Imports  BY <2>2, <2>3 DEF Inv, TypeOK
    <3> QED  BY <1>14, <2>4, <3>1 DEF Apply, Inv, TypeOK
  <2>6. OneImport'  BY <2>2, <2>3 DEF Inv, State, OneImport
  <2>7. OfPast'  BY <1>14, <2>2, <2>3 DEF Apply, Inv, State, OfPast
  <2>8. i \notin Mine => Mine' = Mine
    BY <1>14, <2>2, <2>3 DEF Apply, Mine
  <2>9. i \in Mine => Mine = {i} /\ Mine' = {j}
    BY <1>14, <2>2, <2>3 DEF Apply, Mine, Inv, State, OneImport
  <2>10. QuietServer'
    BY <1>14, <2>8, <2>9 DEF Apply, Inv, State, QuietServer, Quiet
  <2>11. Alone'
    BY <1>14, <2>2, <2>3 DEF Apply, Inv, State, Alone, Importing, Imported, Mine
  <2>12. Empty'
    <3>1. SUFFICES ASSUME alone, pc \in {"stream", "mkdir", "upload", "import"} PROVE FALSE
      BY <1>14 DEF Apply, Empty
    <3> QED  BY <3>1 DEF Inv, State, Alone, QuietServer, Quiet
  <2>13. Over'
    <3>1. SUFFICES ASSUME Imported PROVE Over'
      BY <1>14 DEF Apply, Over, Imported
    <3>2. ~alone  BY <3>1 DEF Inv, State, Alone, Over
    <3> QED  BY <1>14, <2>8, <3>1, <3>2 DEF Apply, Inv, State, Over
  <2>14. Underway'
    <3>1. SUFFICES ASSUME Importing PROVE Underway'
      BY <1>14 DEF Apply, Underway, Importing
    <3>2. CASE i \notin Mine
      <4>1. ~alone  BY <3>1, <3>2 DEF Inv, State, Alone
      <4> QED  BY <1>14, <2>8, <3>1, <3>2, <4>1 DEF Apply, Inv, State, Underway, Importing
    <3>3. CASE i \in Mine
      <4>1. exit = "none" /\ i.attempt = attempt /\ i.call = call
            /\ (alone => db = Prefix(i.done)) /\ (pc = "copy" => i.avail = sent)
        BY <3>1, <3>3 DEF Inv, State, Underway, Mine
      <4>2. Append(Prefix(i.done), <<i.call, i.attempt, i.done + 1>>) = Prefix(i.done + 1)
        <5>1. i.done \in Nat  BY <2>1, SizeAssumption DEF Imports
        <5> QED  BY <4>1, <5>1 DEF Prefix
      <4>3. alone => db' = Prefix(i.done + 1)  BY <1>14, <4>1, <4>2 DEF Apply
      <4>4. UNCHANGED <<call, pc, attempt, exit, alone, sent, intact>>  BY <1>14 DEF Apply, client, request
      <4>5. Mine' = {j}  BY <2>9, <3>3
      <4>6. \A n \in Nat : Prefix(n)' = Prefix(n)  BY <4>4 DEF Prefix
      <4>7. j.done \in Nat /\ j.attempt = attempt /\ j.avail = i.avail /\ j.done = i.done + 1
        BY <2>2, <4>1, SizeAssumption
      <4>8. alone' => db' = Prefix(j.done)'  BY <4>3, <4>4, <4>6, <4>7
      <4> QED  BY <4>1, <4>4, <4>5, <4>7, <4>8 DEF Underway
    <3> QED  BY <3>2, <3>3
  <2> QED  BY <2>5, <2>6, <2>7, <2>10, <2>11, <2>12, <2>13, <2>14 DEF Inv, State
<1>15. ASSUME NEW i \in live, Ends(i) PROVE Inv'
  <2>1. live' = live \ {i} /\ UNCHANGED <<call, pc, attempt, up, intact, alone, db, drops>>
    BY <1>15 DEF Ends
  <2>2. TypeOK'
    <3>1. exit' \in {"none", "ok", "bad"}  BY <1>15 DEF Ends, Inv, TypeOK
    <3> QED  BY <1>15, <3>1 DEF Ends, Inv, TypeOK
  <2>3. OneImport' /\ OfPast'  BY <2>1 DEF Inv, State, OneImport, OfPast
  <2>4. QuietServer' /\ Alone' /\ Empty' /\ Over'
    BY <2>1 DEF Inv, State, QuietServer, Quiet, Mine, Alone, Empty, Over, Importing, Imported, Prefix
  <2>5. Underway'
    <3>1. SUFFICES ASSUME Importing PROVE Underway'
      BY <2>1 DEF Underway, Importing
    <3>2. CASE i \in Mine
      <4>1. Mine' = {}  BY <2>1, <3>2 DEF Mine, Inv, State, OneImport
      <4>2. exit = "none" /\ i.attempt = attempt /\ (alone => db = Prefix(i.done))
        BY <3>1, <3>2 DEF Inv, State, Underway
      <4>3. exit' = "ok" => i.done = Size /\ (Pipefail => intact)
        BY <1>15, <4>2 DEF Ends
      <4> QED  BY <2>1, <4>1, <4>2, <4>3 DEF Underway, Prefix
    <3>3. CASE i \notin Mine
      <4>1. exit' = exit /\ Mine' = Mine /\ UNCHANGED sent
        BY <1>15, <2>1, <3>3 DEF Ends, Mine
      <4> QED  BY <2>1, <3>1, <4>1 DEF Inv, State, Underway, Importing, Prefix
    <3> QED  BY <3>2, <3>3
  <2> QED  BY <2>2, <2>3, <2>4, <2>5 DEF Inv, State
<1>16. ASSUME NEW c \in drops, LateDrop(c) PROVE Inv'
  <2>0. <<>> \in Seq(Chunks)  BY DEF Chunks
  <2>1. TypeOK'  BY <1>16, <2>0, ZenonT(60) DEF LateDrop, Inv, TypeOK
  <2>2. OneImport' /\ OfPast' /\ QuietServer'
    BY <1>16 DEF LateDrop, Inv, State, OneImport, OfPast, QuietServer, Quiet, Mine
  <2>3. ~(alone /\ (pc \in {"stream", "mkdir", "upload", "import"} \/ Importing \/ Imported))
    BY DEF Inv, State, Alone
  <2>4. Alone' /\ Empty' /\ Underway' /\ Over'
    BY <1>16, <2>3 DEF LateDrop, Inv, State, Alone, Empty, Underway, Over, Importing, Imported, Mine
  <2> QED  BY <2>1, <2>2, <2>4 DEF Inv, State
<1>17. CASE Cancel \/ ConnectionLost \/ CancelOnContext
  <2>1. /\ UNCHANGED <<call, pc, attempt, result, intact, watched, sent, exit, alone, server>>
        /\ up' => up
    BY <1>17 DEF Cancel, ConnectionLost, CancelOnContext
  <2>2. TypeOK'  BY <1>17, ZenonT(60) DEF Cancel, ConnectionLost, CancelOnContext, Inv, TypeOK
  <2>3. State'
    BY <2>1 DEF Inv, State, OneImport, OfPast, QuietServer, Quiet, Mine, Alone, Empty,
       Underway, Importing, Over, Imported, Prefix
  <2> QED  BY <2>2, <2>3 DEF Inv
<1>18. CASE UNCHANGED vars
  <2>1. TypeOK'  BY <1>18 DEF vars, Inv, TypeOK
  <2>2. State'
    BY <1>18 DEF vars, Inv, State, OneImport, OfPast, QuietServer, Quiet, Mine, Alone, Empty,
       Underway, Importing, Over, Imported, Prefix
  <2> QED  BY <2>1, <2>2 DEF Inv
<1> QED  BY <1>1, <1>2, <1>3, <1>4, <1>5, <1>6, <1>7, <1>8, <1>9, <1>10, <1>11, <1>12,
            <1>14, <1>15, <1>16, <1>17, <1>18 DEF Next, Transfer, Local, Query

-----------------------------------------------------------------------------
LEMMA Invariance == Spec => []Inv
<1> QED  BY InitInv, NextInv, PTL DEF Spec

(* For any number of restores of files of any size: what a complete restore
   leaves is its file, imported once and by one attempt. *)
THEOREM CompleteIsWhole == Spec => []ImportIsWhole
<1>1. Inv => ImportIsWhole
  BY DEF Inv, State, Over, Imported, ImportIsWhole, Restored, Prefix
<1> QED  BY <1>1, Invariance, PTL

(* The imports of one restore never overlap. *)
THEOREM ImportsDoNotOverlap == Spec => []OneImport
<1>1. Inv => OneImport  BY DEF Inv, State
<1> QED  BY <1>1, Invariance, PTL

(* Every variable keeps its type. *)
THEOREM TypeCorrect == Spec => []TypeOK
<1>1. Inv => TypeOK  BY DEF Inv
<1> QED  BY <1>1, Invariance, PTL

-----------------------------------------------------------------------------
(* The calls implement RestoreCall. *)

(* Nothing is left on the server of a complete restore that was alone; its
   result is known before the post-import query. *)
Rested == /\ pc = "idle" /\ Reported = "complete" /\ alone => live = {} /\ drops = {}
          /\ pc = "postquery" => result[call] = "complete"

LEMMA ReturnFailed ==
  ASSUME Inv, pc # "idle", UNCHANGED call, NEW r \in {"failed", "canceled"}, Return(r)
  PROVE  pc' = "idle" /\ Reported' = "failed"
<1>1. call \in 1..Calls /\ result \in [1..Calls -> {"none", "complete", "failed", "canceled", "queryfailed"}]
  BY DEF Inv, State, OfPast, TypeOK
<1> QED  BY <1>1 DEF Return, Reported

(* How a step of a running call leaves it. *)
StaysRunning == pc' \notin {"idle", "postquery"} \/ (pc' = "idle" /\ Reported' = "failed")

LEMMA FailsStaysRunning ==
  ASSUME Inv, pc # "idle", UNCHANGED call, Fails
  PROVE  StaysRunning
<1>1. PICK retryable \in BOOLEAN : EndAttempt(retryable)  BY DEF Fails
<1>2. CASE retryable /\ attempt = 1  BY <1>1, <1>2 DEF EndAttempt, StaysRunning
<1>3. CASE ~(retryable /\ attempt = 1)
  BY <1>1, <1>3, ReturnFailed DEF EndAttempt, StaysRunning
<1> QED  BY <1>2, <1>3

LEMMA TransferStaysRunning ==
  ASSUME Inv, Transfer
  PROVE  pc \notin {"idle", "postquery"} /\ UNCHANGED call /\ StaysRunning
<1> USE DEF client, request, server
<1>1. pc \notin {"idle", "postquery"} /\ UNCHANGED call
  BY DEF Transfer, Prepare, OpenStream, Copy, CopyEnds, Wait, MakeTmpDir, Upload,
         StartImport, ImportReturns
<1>2. \A to \in {"stream", "mkdir", "copy", "wait", "imported", "upload", "import", "run"} :
        Goes(to) => StaysRunning
  BY DEF Goes, StaysRunning
<1>3. Fails => StaysRunning  BY <1>1, FailsStaysRunning
<1>4. CASE Prepare
  <2>1. Goes(IF attempt = 1 THEN "stream" ELSE "mkdir") => StaysRunning
    BY DEF Goes, StaysRunning
  <2> QED  BY <1>3, <1>4, <2>1 DEF Prepare
<1>5. CASE OpenStream \/ Copy  BY <1>2, <1>3, <1>5 DEF OpenStream, Copy
<1>6. CASE CopyEnds
  <2>1. Return("canceled") => StaysRunning  BY <1>1, ReturnFailed DEF StaysRunning
  <2>2. EndAttempt(TRUE) => StaysRunning
    <3>1. EndAttempt(TRUE) => Fails  BY DEF Fails
    <3> QED  BY <1>3, <3>1
  <2> QED  BY <1>2, <1>3, <1>6, <2>1, <2>2 DEF CopyEnds
<1>7. CASE Wait \/ ImportReturns  BY <1>2, <1>3, <1>7 DEF Wait, ImportReturns
<1>8. CASE MakeTmpDir \/ Upload \/ StartImport
  BY <1>2, <1>3, <1>8 DEF MakeTmpDir, Upload, StartImport
<1> QED  BY <1>1, <1>4, <1>5, <1>6, <1>7, <1>8 DEF Transfer

(* Every other step of a call that runs, up to the end of the import. *)
LEMMA LocalStaysRunning ==
  ASSUME Inv, (Query /\ pc = "prequery") \/ Connect \/ Attempt
  PROVE  pc \notin {"idle", "postquery"} /\ UNCHANGED call /\ StaysRunning
<1> USE DEF client, request, server
<1>1. pc \notin {"idle", "postquery"} /\ UNCHANGED call
  BY DEF Query, NoQuery, DialQuery, QueryDialed, RunQuery, Connect, Attempt
<1>2. \A r \in {"failed", "canceled"} : Return(r) => StaysRunning
  BY <1>1, ReturnFailed DEF StaysRunning
<1>3. CASE Query /\ pc = "prequery"
  <2>1. \/ \E ok \in BOOLEAN : QueryEnds(ok)
        \/ Goes(pc)
    BY <1>3 DEF Query, NoQuery, DialQuery, QueryDialed, RunQuery
  <2>2. ASSUME NEW ok \in BOOLEAN, QueryEnds(ok)
        PROVE  Goes("connect") \/ Return("failed")
    BY <1>3, <2>2 DEF QueryEnds
  <2>3. Goes("connect") => StaysRunning  BY DEF Goes, StaysRunning
  <2>4. Goes(pc) => StaysRunning  BY <1>3 DEF Goes, StaysRunning
  <2>5. Return("failed") => StaysRunning  BY <1>2
  <2>6. CASE \E ok \in BOOLEAN : QueryEnds(ok)  BY <1>1, <2>2, <2>3, <2>5, <2>6
  <2>7. CASE Goes(pc)  BY <1>1, <2>4, <2>7
  <2> QED  BY <2>1, <2>6, <2>7
<1> QED  BY <1>1, <1>2, <1>3 DEF Connect, Attempt, Goes, StaysRunning

(* The post-import query leaves the call complete, and the server alone. *)
LEMMA PostQueryStaysComplete ==
  ASSUME Inv, Rested, Query, pc = "postquery"
  PROVE  /\ Reported = "complete" /\ Reported' = "complete"
         /\ UNCHANGED <<call, attempt, alone, server>>
         /\ pc' = "postquery" => result' = result
         /\ pc' \in {"postquery", "idle"}
<1> USE DEF request, server
<1>1. call \in 1..Calls  BY DEF Inv, State, OfPast
<1>2. /\ UNCHANGED <<call, attempt, alone, server>>
      /\ \/ \E ok \in BOOLEAN : QueryEnds(ok)
         \/ Goes(pc)
  BY DEF Query, NoQuery, DialQuery, QueryDialed, RunQuery, QueryEnds, Goes
<1>3. result[call] = "complete"  BY DEF Rested
<1>4. CASE \E ok \in BOOLEAN : QueryEnds(ok)
  <2>1. pc' = "idle" /\ result'[call] \in {"complete", "queryfailed"}
    BY <1>1, <1>3, <1>4 DEF QueryEnds, Inv, TypeOK
  <2>2. call > 0  BY <1>1, CallsAssumption
  <2> QED  BY <1>2, <2>1, <2>2 DEF Reported
<1>5. CASE Goes(pc)  BY <1>2, <1>5 DEF Goes, Reported
<1> QED  BY <1>2, <1>4, <1>5

LEMMA InitRested == Init => Rested
<1> QED  BY DEF Init, Rested

(* A complete restore that was alone, whether its post-import query still runs or
   not, has nothing left on the server. *)
LEMMA CompleteIsAtRest ==
  ASSUME Inv, Rested, Reported = "complete", alone
  PROVE  live = {} /\ drops = {} /\ pc \in {"idle", "postquery"}
<1>1. pc \in {"idle", "postquery"}  BY DEF Reported
<1>2. CASE pc = "postquery"
  BY <1>2 DEF Inv, State, Over, Alone, Imported, Mine
<1> QED  BY <1>1, <1>2 DEF Rested

LEMMA NextRested == Inv /\ Rested /\ [Next]_vars => Rested'
<1> SUFFICES ASSUME Inv, Rested, [Next]_vars PROVE Rested'  OBVIOUS
<1> USE DEF client, request, server
<1>1. CASE Start \/ Complete
  <2>1. CASE Start  BY <2>1 DEF Start, Rested
  <2>2. CASE Complete
    <3>1. call \in 1..Calls /\ result \in [1..Calls -> {"none", "complete", "failed", "canceled", "queryfailed"}]
      BY <2>2 DEF Complete, Inv, State, OfPast, TypeOK
    <3> QED  BY <2>2, <3>1 DEF Complete, Rested
  <2> QED  BY <1>1, <2>1, <2>2
<1>2. CASE (Query /\ pc = "prequery") \/ Connect \/ Attempt \/ Transfer
  <2>1. StaysRunning  BY <1>2, LocalStaysRunning, TransferStaysRunning
  <2> QED  BY <2>1 DEF StaysRunning, Rested
<1>3. CASE Query /\ pc = "postquery"
  <2>1. Reported = "complete"  BY <1>3 DEF Reported
  <2>2. alone => live = {} /\ drops = {}
    BY <2>1, CompleteIsAtRest
  <2> QED  BY <1>3, <2>2, PostQueryStaysComplete DEF Rested
<1>4. ASSUME NEW i \in live, Apply(i) \/ Ends(i) PROVE Rested'
  <2>1. UNCHANGED <<pc, call, result, alone, drops>>  BY <1>4 DEF Apply, Ends
  <2> QED  BY <2>1 DEF Rested, Reported
<1>5. ASSUME NEW c \in drops, LateDrop(c) PROVE Rested'
  <2>1. UNCHANGED <<pc, call, result, alone, live>>  BY <1>5 DEF LateDrop
  <2> QED  BY <2>1 DEF Rested, Reported
<1>6. CASE Cancel \/ ConnectionLost \/ CancelOnContext \/ UNCHANGED vars
  <2>1. UNCHANGED <<pc, call, result, alone, live, drops>>
    BY <1>6 DEF Cancel, ConnectionLost, CancelOnContext, vars
  <2> QED  BY <2>1 DEF Rested, Reported
<1>7. Query => pc \in {"prequery", "postquery"}
  BY DEF Query, NoQuery, DialQuery, QueryDialed, RunQuery, Queries
<1> QED  BY <1>1, <1>2, <1>3, <1>4, <1>5, <1>6, <1>7 DEF Next, Local, Query

LEMMA AtRest == Spec => [](Inv /\ Rested)
<1> QED  BY InitInv, NextInv, InitRested, NextRested, PTL DEF Spec

(* No restore has been made yet. *)
LEMMA InitPromise == Init => Promise!Init
<1> SUFFICES ASSUME Init PROVE Promise!Init  OBVIOUS
<1>1. Reported = "failed"  BY DEF Init, Reported
<1>2. ~Restored
  <2>1. SUFFICES ASSUME Restored PROVE FALSE  OBVIOUS
  <2>2. db[1] = Before  BY DEF Init
  <2>3. db[1] = <<call, attempt, 1>>  BY <2>1, SizeAssumption DEF Restored
  <2> QED  BY <2>2, <2>3 DEF Init, Before
<1>3. Restored = FALSE  BY <1>2 DEF Restored
<1> QED  BY <1>1, <1>3 DEF Promise!Init, Init

(* A step of a running call works on, or fails. *)
LEMMA RunningPromise ==
  ASSUME Inv, Inv', pc \notin {"idle", "postquery"}, StaysRunning,
         pc' = "idle" => UNCHANGED alone
  PROVE  Promise!Work \/ Promise!Fail
<1>1. Reported = "running"  BY DEF Reported
<1>2. Restored' \in BOOLEAN /\ alone' \in BOOLEAN  BY DEF Restored, Inv, TypeOK
<1>3. CASE pc' \notin {"idle", "postquery"}
  <2>1. Reported' = "running"  BY <1>3 DEF Reported
  <2> QED  BY <1>1, <1>2, <2>1 DEF Promise!Work
<1>4. CASE pc' = "idle" /\ Reported' = "failed"
  BY <1>1, <1>2, <1>4 DEF Promise!Fail
<1> QED  BY <1>3, <1>4 DEF StaysRunning

(* What goes on when no call runs goes on only after a call that failed or was
   not alone. *)
LEMMA ServerPromise ==
  ASSUME Inv, Inv', Rested, live # {} \/ drops # {},
         UNCHANGED <<call, pc, attempt, result, alone>>
  PROVE  Promise!Work \/ Promise!Late
<1>1. UNCHANGED Reported  BY DEF Reported
<1>2. Restored' \in BOOLEAN /\ alone' \in BOOLEAN  BY DEF Restored, Inv, TypeOK
<1>3. CASE Reported = "running"  BY <1>1, <1>2, <1>3 DEF Promise!Work
<1>4. CASE Reported # "running"
  <2>1. ~(Reported = "complete" /\ alone)  BY CompleteIsAtRest
  <2> QED  BY <1>1, <1>2, <1>4, <2>1 DEF Promise!Late
<1> QED  BY <1>3, <1>4

LEMMA NextPromise ==
  ASSUME Inv, Inv', Rested, [Next]_vars
  PROVE  [Promise!Next]_<<Reported, alone, Restored>>
<1> USE DEF client, request, server
<1>1. CASE Start
  <2>1. Reported # "running" /\ Reported' = "running"  BY <1>1 DEF Start, Reported
  <2>2. Promise!Begin  BY <1>1, <2>1 DEF Start, Promise!Begin, Restored
  <2> QED  BY <2>2 DEF Promise!Next
<1>2. CASE (Query /\ pc = "prequery") \/ Connect \/ Attempt
  <2>1. pc \notin {"idle", "postquery"} /\ StaysRunning  BY <1>2, LocalStaysRunning
  <2>2. UNCHANGED alone
    BY <1>2 DEF Query, NoQuery, DialQuery, QueryDialed, RunQuery, Connect, Attempt
  <2> QED  BY <2>1, <2>2, RunningPromise DEF Promise!Next
<1>3. CASE Transfer
  <2>1. pc \notin {"idle", "postquery"} /\ StaysRunning  BY <1>3, TransferStaysRunning
  <2>2. pc' = "idle" => UNCHANGED alone
    BY <1>3 DEF Transfer, Prepare, Goes, OpenStream, Copy, CopyEnds, Wait, MakeTmpDir,
                Upload, StartImport, ImportReturns
  <2> QED  BY <2>1, <2>2, RunningPromise DEF Promise!Next
<1>4. CASE Complete
  <2>1. Reported = "running" /\ Reported' = "complete"  BY <1>4 DEF Complete, Reported
  <2>2. alone => Restored
    BY <1>4 DEF Complete, Inv, State, Over, Imported, Restored, Prefix
  <2>3. UNCHANGED <<alone, Restored>>  BY <1>4 DEF Complete, Restored
  <2>4. Promise!Complete  BY <2>1, <2>2, <2>3 DEF Promise!Complete
  <2> QED  BY <2>4 DEF Promise!Next
<1>5. CASE Query /\ pc = "postquery"
  <2>1. Reported' = Reported /\ UNCHANGED <<call, attempt, alone, db>>
    BY <1>5, PostQueryStaysComplete
  <2> QED  BY <2>1 DEF Restored
<1>6. ASSUME NEW i \in live, Apply(i) \/ Ends(i)
      PROVE  [Promise!Next]_<<Reported, alone, Restored>>
  <2>1. UNCHANGED <<call, pc, attempt, result, alone>>  BY <1>6 DEF Apply, Ends
  <2> QED  BY <1>6, <2>1, ServerPromise DEF Promise!Next
<1>7. ASSUME NEW c \in drops, LateDrop(c)
      PROVE  [Promise!Next]_<<Reported, alone, Restored>>
  <2>1. UNCHANGED <<call, pc, attempt, result, alone>>  BY <1>7 DEF LateDrop
  <2> QED  BY <1>7, <2>1, ServerPromise DEF Promise!Next
<1>8. CASE Cancel \/ ConnectionLost \/ CancelOnContext \/ UNCHANGED vars
  <2>1. UNCHANGED <<call, pc, attempt, result, alone, db>>
    BY <1>8 DEF Cancel, ConnectionLost, CancelOnContext, vars
  <2> QED  BY <2>1 DEF Reported, Restored
<1>9. Query => pc \in {"prequery", "postquery"}
  BY DEF Query, NoQuery, DialQuery, QueryDialed, RunQuery, Queries
<1> QED  BY <1>1, <1>2, <1>3, <1>4, <1>5, <1>6, <1>7, <1>8, <1>9 DEF Next, Local, Query

(* Restores keep the promise of RestoreCall, for any number of them and files of
   any size: complete is reported of a database that is the file, and neither an
   import, a DROP nor a retry of that call touches it before the next begins. *)
THEOREM ImplementsRestoreCall == Spec => KeepsPromise
<1> QED  BY InitPromise, NextPromise, AtRest, PTL
         DEF Spec, KeepsPromise, Promise!Spec
============================================================================
