-------------------------- MODULE BackupSSH_proofs --------------------------
(***************************************************************************)
(* Proofs about BackupSSH, for dumps of any length and blocks of any size:  *)
(* a reported backup is the whole dump, and a retry starts clean.           *)
(***************************************************************************)
EXTENDS BackupSSH, TLAPS

(* A dump nobody has reported as cut, and one long enough to be accepted. *)
Trusted == Pipefail => dump.whole
LongEnough == dump.len >= 2

(* The metadata of this call is there only once its download is due, or when it
   could not be removed before a second attempt that streams: the call never
   resumes a download of its own. *)
Early == {"begin", "attempt", "open", "mkdir", "dump", "inspect"}
NoOwnMeta ==
    /\ meta = "own" => order[1] = "tmp" \/ attempt = 2
    /\ pc \in Early =>
         meta # "own" \/ (order[1] = "tmp" /\ attempt = 2)

(* What the checks passed so far have shown about the dump. *)
Shown ==
    /\ pc = "inspect" => Trusted
    /\ pc = "copied" /\ exit = "ok" => Trusted
    /\ pc \in {"copy", "copied"} /\ strategy = "tmp" => Trusted /\ LongEnough
    /\ pc \in {"download", "cleanup", "verify"} => Trusted /\ LongEnough

Reports == outcome = "ok" => pc = "done" /\ Trusted /\ LongEnough /\ ValidGzip(file)

(* Each strategy takes its own steps. *)
StreamTurn == /\ pc = "open" => strategy = "stream"
              /\ pc \in {"mkdir", "dump", "inspect"} => strategy = "tmp"

Inv == TypeOK /\ RetryStartsClean /\ StreamTurn /\ NoOwnMeta /\ Shown /\ Reports

-----------------------------------------------------------------------------
(* dd starts at or before the offset it is asked for. *)
LEMMA WholeBlocks ==
  ASSUME NEW n \in Nat, NEW b \in Nat \ {0}
  PROVE  (n \div b) * b \in 0..n
<1> DEFINE q == n \div b
<1>1. q \in Int /\ q >= 0  OBVIOUS
<1>2. n = b * q + (n % b)  OBVIOUS
<1>3. n % b \in 0..(b - 1)  OBVIOUS
<1>4. q * b \in Nat /\ b * q = q * b
  <2> HIDE DEF q
  <2> QED  BY <1>1
<1> QED  BY <1>2, <1>3, <1>4

LEMMA InitInv == Init => Inv
<1> SUFFICES ASSUME Init PROVE Inv  OBVIOUS
<1>1. file \in Seq(Chunks)
  <2>1. <<>> \in Seq(Chunks)  OBVIOUS
  <2>2. \A n \in 1..(MaxLen - 1) : Leftover(n) \in Seq(Chunks)
    BY LenAssumption DEF Leftover, Part, Chunks
  <2> QED  BY <2>1, <2>2 DEF Init
<1>2. TypeOK
  <2>1. dump \in Dumps  BY LenAssumption DEF Init, Dumps
  <2>2. sent \in 0..MaxLen /\ offset \in 0..MaxLen  BY LenAssumption DEF Init
  <2>3. meta \in {"none", "own", "other"}  BY DEF Init
  <2>4. canceled \in BOOLEAN /\ up \in BOOLEAN /\ watched \in BOOLEAN
        /\ sumKnown \in BOOLEAN /\ stuck \in BOOLEAN  BY DEF Init
  <2>5. attempt \in Attempts /\ outcome \in {"none", "ok", "failed"}
        /\ exit \in {"none", "ok", "bad"}  BY DEF Init, Attempts
  <2>6. order \in {<<"stream", "tmp">>, <<"tmp", "stream">>} /\ pc = "begin"
    BY DEF Init
  <2> QED  BY <1>1, <2>1, <2>2, <2>3, <2>4, <2>5, <2>6 DEF TypeOK
<1>3. RetryStartsClean /\ StreamTurn /\ NoOwnMeta /\ Shown /\ Reports
  BY DEF Init, RetryStartsClean, StreamTurn, NoOwnMeta, Early, Shown, Reports
<1> QED  BY <1>2, <1>3 DEF Inv

(* The end of an attempt keeps what holds of the file and its metadata. *)
LEMMA EndKeeps ==
  ASSUME TypeOK, RetryStartsClean, outcome # "ok",
         NEW retryable \in BOOLEAN, NEW left \in {<<>>, file},
         EndAttempt(retryable, left)
  PROVE  /\ attempt' \in Attempts /\ outcome' \in {"none", "ok", "failed"} \ {"ok"}
         /\ pc' \in {"attempt", "done"}
         /\ file' \in Seq(Chunks) /\ meta' \in {"none", "own", "other"}
         /\ stuck' \in BOOLEAN
         /\ pc' = "attempt" =>
              attempt = 1 /\ attempt' = 2 /\ meta' \in {"none", meta}
         /\ pc' = "done" => UNCHANGED <<attempt, meta>>
         /\ RetryStartsClean'
<1>1. <<>> \in Seq(Chunks) /\ DOMAIN <<>> = {}  OBVIOUS
<1>2. CASE retryable /\ attempt = 1
  <2>1. /\ attempt' = 2 /\ pc' = "attempt" /\ outcome' = outcome
        /\ file' \in {<<>>, file} /\ meta' \in {"none", meta}
        /\ stuck' = (file' # <<>>)
    BY <1>2 DEF EndAttempt, Removed
  <2>2. RetryStartsClean'
    <3> SUFFICES ASSUME ~stuck' PROVE \A k \in DOMAIN file' : file'[k][1] = 2
      BY DEF RetryStartsClean
    <3>1. file' = <<>>  BY <2>1
    <3> QED  BY <1>1, <3>1
  <2>3. stuck' \in BOOLEAN  BY <2>1
  <2>4. file' \in Seq(Chunks)  BY <1>1, <2>1 DEF TypeOK
  <2>5. meta' \in {"none", "own", "other"} /\ attempt' \in Attempts
    BY <2>1 DEF TypeOK, Attempts
  <2>6. outcome' \in {"none", "ok", "failed"} \ {"ok"}  BY <2>1 DEF TypeOK
  <2> QED  BY <1>2, <2>1, <2>2, <2>3, <2>4, <2>5, <2>6
<1>3. CASE ~(retryable /\ attempt = 1)
  BY <1>1, <1>3 DEF EndAttempt, Return, TypeOK, Attempts, RetryStartsClean
<1> QED  BY <1>2, <1>3

(* The part of the type invariant an end of an attempt has no say in. *)
RestOK == /\ order \in {<<"stream", "tmp">>, <<"tmp", "stream">>}
          /\ canceled \in BOOLEAN /\ up \in BOOLEAN /\ watched \in BOOLEAN
          /\ dump \in Dumps
          /\ sent \in 0..MaxLen /\ offset \in 0..MaxLen
          /\ exit \in {"none", "ok", "bad"}
          /\ sumKnown \in BOOLEAN

LEMMA EndInv ==
  ASSUME Inv, outcome # "ok", RestOK',
         NEW retryable \in BOOLEAN, NEW left \in {<<>>, file},
         EndAttempt(retryable, left), UNCHANGED order
  PROVE  Inv'
<1>1. /\ attempt' \in Attempts /\ outcome' \in {"none", "ok", "failed"} \ {"ok"}
      /\ pc' \in {"attempt", "done"}
      /\ file' \in Seq(Chunks) /\ meta' \in {"none", "own", "other"}
      /\ stuck' \in BOOLEAN
      /\ pc' = "attempt" =>
           attempt = 1 /\ attempt' = 2 /\ meta' \in {"none", meta}
      /\ pc' = "done" => UNCHANGED <<attempt, meta>>
      /\ RetryStartsClean'
  BY EndKeeps DEF Inv
<1>2. TypeOK'  BY <1>1 DEF TypeOK, RestOK
<1>3. StreamTurn' /\ Shown' /\ Reports'  BY <1>1 DEF StreamTurn, Shown, Reports
<1>4. NoOwnMeta'  BY <1>1 DEF Inv, TypeOK, Attempts, NoOwnMeta, Early
<1> QED  BY <1>1, <1>2, <1>3, <1>4 DEF Inv

LEMMA FailsInv ==
  ASSUME Inv, outcome # "ok", RestOK', NEW left \in {<<>>, file}, Fails(left),
         UNCHANGED order
  PROVE  Inv'
<1>1. PICK retryable \in BOOLEAN : EndAttempt(retryable, left)  BY DEF Fails
<1> QED  BY <1>1, EndInv

LEMMA ChunkType ==
  ASSUME TypeOK, sent < dump.len
  PROVE  /\ sent + 1 \in 0..MaxLen
         /\ Append(file, <<attempt, sent + 1>>) \in Seq(Chunks)
<1>1. sent + 1 \in 1..MaxLen  BY LenAssumption DEF TypeOK, Dumps
<1>2. <<attempt, sent + 1>> \in Chunks  BY <1>1 DEF TypeOK, Attempts, Chunks
<1> QED  BY <1>1, <1>2 DEF TypeOK

(* A step within an attempt that leaves the metadata alone. *)
LEMMA GoesOn ==
  ASSUME Inv, UNCHANGED <<order, turn, meta>>, file' \in {file, <<>>},
         pc' \in Early => pc \in Early
  PROVE  NoOwnMeta' /\ RetryStartsClean' /\ strategy' = strategy
<1>1. NoOwnMeta'  BY DEF Inv, NoOwnMeta, turn
<1>2. DOMAIN <<>> = {}  OBVIOUS
<1>3. RetryStartsClean'
  <2>1. CASE file' = file  BY <2>1 DEF Inv, RetryStartsClean, turn
  <2>2. CASE file' = <<>>
    <3>1. \A k \in DOMAIN file' : file'[k][1] = 2  BY <1>2, <2>2
    <3> QED  BY <3>1 DEF RetryStartsClean
  <2> QED  BY <2>1, <2>2
<1> QED  BY <1>1, <1>3 DEF strategy, turn

-----------------------------------------------------------------------------
LEMMA NextInv == Inv /\ [Next]_vars => Inv'
<1> SUFFICES ASSUME Inv, [Next]_vars PROVE Inv'  OBVIOUS
<1> USE DEF Inv, env, turn
<1>1. CASE Begin
  <2>1. TypeOK'  BY <1>1 DEF Begin, Return, env, transfer, TypeOK
  <2>2. RetryStartsClean' /\ StreamTurn' /\ NoOwnMeta' /\ Shown' /\ Reports'
    BY <1>1 DEF Begin, Return, env, transfer, RetryStartsClean, StreamTurn, NoOwnMeta, Early, Shown, Reports
  <2> QED  BY <2>1, <2>2
<1>2. CASE Attempt
  <2>1. TypeOK'  BY <1>2 DEF Attempt, Return, env, transfer, TypeOK
  <2>2. RetryStartsClean' /\ NoOwnMeta' /\ Shown' /\ Reports'
    BY <1>2 DEF Attempt, Return, env, transfer, RetryStartsClean, NoOwnMeta, Early, Shown, Reports
  <2>3. StreamTurn'
    BY <1>2 DEF Attempt, Return, env, StreamTurn, strategy, TypeOK, Attempts
  <2> QED  BY <2>1, <2>2, <2>3
<1>0. RestOK  BY DEF RestOK, TypeOK
<1>3. CASE OpenStream
  <2>1. outcome # "ok"  BY <1>3 DEF OpenStream, Reports
  <2>2. CASE /\ dump' \in PossibleDumps /\ pc' = "copy" /\ watched' = TRUE
             /\ file' = <<>> /\ sent' = 0 /\ exit' = "none" /\ offset' = 0
             /\ UNCHANGED <<turn, outcome, meta>>
    <3>1. <<>> \in Seq(Chunks) /\ DOMAIN <<>> = {}  OBVIOUS
    <3>2. TypeOK'
      BY <1>3, <2>2, <3>1, LenAssumption DEF OpenStream, env, TypeOK, PossibleDumps
    <3>3. strategy' # "tmp"
      BY <1>3, <2>2 DEF OpenStream, env, strategy, TypeOK, Attempts, StreamTurn
    <3>4. NoOwnMeta' /\ RetryStartsClean'
      BY <1>3, <2>2, GoesOn DEF OpenStream, Early
    <3>5. StreamTurn' /\ Shown' /\ Reports'
      BY <2>1, <2>2, <3>3 DEF StreamTurn, Shown, Reports
    <3> QED  BY <3>2, <3>4, <3>5
  <2>3. CASE Fails(file) /\ UNCHANGED <<watched, dump, sent, exit, offset>>
    <3>1. RestOK' /\ UNCHANGED order  BY <1>0, <1>3, <2>3 DEF OpenStream, env, RestOK
    <3> QED  BY <2>1, <2>3, <3>1, FailsInv
  <2> QED  BY <1>3, <2>2, <2>3 DEF OpenStream
<1>4. CASE CopyChunk
  <2>1. TypeOK'
    BY <1>4, ChunkType DEF CopyChunk, env, TypeOK
  <2>2. RetryStartsClean'
    <3>1. SUFFICES ASSUME attempt = 2, ~stuck, NEW k \in DOMAIN file'
                   PROVE  file'[k][1] = 2
      BY <1>4 DEF CopyChunk, RetryStartsClean
    <3>2. file' = Append(file, <<2, sent + 1>>) /\ file \in Seq(Chunks)
      BY <1>4, <3>1 DEF CopyChunk, TypeOK
    <3>3. k \in 1..(Len(file) + 1)  BY <3>2
    <3>4. CASE k = Len(file) + 1  BY <3>2, <3>4
    <3>5. CASE k \in 1..Len(file)
      BY <3>1, <3>2, <3>5 DEF RetryStartsClean
    <3> QED  BY <3>3, <3>4, <3>5
  <2>3. StreamTurn' /\ NoOwnMeta' /\ Shown' /\ Reports'
    BY <1>4 DEF CopyChunk, env, StreamTurn, NoOwnMeta, Early, Shown, Reports, strategy, TypeOK, Attempts, Trusted, LongEnough
  <2> QED  BY <2>1, <2>2, <2>3
<1>5. CASE CopyEnds
  <2>1. TypeOK'  BY <1>5 DEF CopyEnds, env, TypeOK
  <2>2. RetryStartsClean' /\ StreamTurn' /\ NoOwnMeta' /\ Reports'
    BY <1>5 DEF CopyEnds, RetryStartsClean, StreamTurn, NoOwnMeta, Early, Reports
  <2>3. Shown'
    BY <1>5 DEF CopyEnds, env, Shown, Reported, strategy, Trusted, LongEnough, TypeOK, Attempts
  <2> QED  BY <2>1, <2>2, <2>3
<1>6. CASE StreamChecks
  <2>1. outcome # "ok"  BY <1>6 DEF StreamChecks, Reports
  <2>2. RestOK' /\ UNCHANGED order  BY <1>0, <1>6 DEF StreamChecks, env, transfer, RestOK
  <2>3. ASSUME NEW left \in Removed(file), Fails(left)  PROVE Inv'
    BY <2>1, <2>2, <2>3, FailsInv DEF Removed
  <2>4. ASSUME NEW left \in Removed(file), EndAttempt(FALSE, left)  PROVE Inv'
    BY <2>1, <2>2, <2>4, EndInv DEF Removed
  <2>5. CASE /\ exit = "ok" /\ ValidGzip(file) /\ Len(file) >= 2
             /\ pc' = "verify" /\ UNCHANGED <<turn, outcome, file, meta>>
    <3>1. TypeOK'  BY <1>6, <2>5 DEF StreamChecks, env, transfer, TypeOK
    <3>2. Len(Part(attempt, 1, dump.len)) = dump.len
      BY LenAssumption DEF Part, TypeOK, Dumps
    <3>3. LongEnough /\ Trusted  BY <1>6, <2>5, <3>2 DEF StreamChecks, Shown, LongEnough, ValidGzip
    <3>4. LongEnough' /\ Trusted'
      BY <1>6, <3>3 DEF StreamChecks, transfer, LongEnough, Trusted
    <3>5. NoOwnMeta' /\ RetryStartsClean'
      BY <1>6, <2>5, GoesOn DEF StreamChecks, Early
    <3>6. StreamTurn' /\ Shown' /\ Reports'
      BY <2>1, <2>5, <3>4 DEF StreamTurn, Shown, Reports
    <3> QED  BY <3>1, <3>5, <3>6
  <2> QED  BY <1>6, <2>3, <2>4, <2>5 DEF StreamChecks
<1>7. CASE MakeTmpDir
  <2>1. outcome # "ok"  BY <1>7 DEF MakeTmpDir, Reports
  <2>2. CASE pc' = "dump" /\ UNCHANGED <<turn, outcome, file, meta>>
    <3>1. TypeOK'  BY <1>7, <2>2 DEF MakeTmpDir, env, transfer, TypeOK
    <3>2. NoOwnMeta' /\ RetryStartsClean' /\ strategy' = strategy
      BY <1>7, <2>2, GoesOn DEF MakeTmpDir, Early
    <3>3. StreamTurn' /\ Shown' /\ Reports'
      BY <1>7, <2>1, <2>2, <3>2 DEF MakeTmpDir, StreamTurn, Shown, Reports
    <3> QED  BY <3>1, <3>2, <3>3
  <2>3. CASE Fails(file)
    <3>1. RestOK' /\ UNCHANGED order  BY <1>0, <1>7 DEF MakeTmpDir, env, transfer, RestOK
    <3> QED  BY <2>1, <2>3, <3>1, FailsInv
  <2> QED  BY <1>7, <2>2, <2>3 DEF MakeTmpDir
<1>8. CASE RemoteDump
  <2>1. outcome # "ok" /\ meta # "own"
    <3>1. strategy = "tmp" /\ ~(order[1] = "tmp" /\ attempt = 2)
      BY <1>8 DEF RemoteDump, StreamTurn, strategy, TypeOK, Attempts
    <3> QED  BY <1>8, <3>1 DEF RemoteDump, Reports, NoOwnMeta, Early
  <2>2. CASE /\ pc' = "inspect" /\ UNCHANGED <<turn, outcome, file, meta>>
             /\ \E d \in PossibleDumps :
                   ~Reported(d) /\ dump' = IF meta = "own" THEN dump ELSE d
    <3>1. dump' \in Dumps /\ Trusted'
      BY <2>1, <2>2, PipefailAssumption DEF PossibleDumps, Reported, Trusted
    <3>2. TypeOK'  BY <1>8, <2>2, <3>1 DEF RemoteDump, env, TypeOK
    <3>3. NoOwnMeta' /\ RetryStartsClean' /\ strategy' = strategy
      BY <1>8, <2>2, GoesOn DEF RemoteDump, Early
    <3>4. StreamTurn' /\ Shown' /\ Reports'
      BY <1>8, <2>1, <2>2, <3>1, <3>3 DEF RemoteDump, StreamTurn, Shown, Reports
    <3> QED  BY <3>2, <3>3, <3>4
  <2>3. CASE Fails(file) /\ UNCHANGED dump
    <3>1. RestOK' /\ UNCHANGED order  BY <1>0, <1>8, <2>3 DEF RemoteDump, env, RestOK
    <3> QED  BY <2>1, <2>3, <3>1, FailsInv
  <2> QED  BY <1>8, <2>2, <2>3 DEF RemoteDump
<1>9. CASE Inspect
  <2>1. outcome # "ok"  BY <1>9 DEF Inspect, Reports
  <2>2. CASE /\ dump.len >= 2 /\ pc' = "download" /\ offset' = ResumeOffset
             /\ meta' = "own" /\ sumKnown' \in BOOLEAN
             /\ UNCHANGED <<turn, outcome, file>>
    <3>1. offset' \in 0..MaxLen
      BY <2>2, LenAssumption DEF ResumeOffset, TypeOK, Dumps
    <3>2. TypeOK'  BY <1>9, <2>2, <3>1 DEF Inspect, env, TypeOK
    <3>3. Trusted' /\ LongEnough'
      BY <1>9, <2>2 DEF Inspect, Shown, Trusted, LongEnough
    <3>4. strategy = "tmp" /\ ~(order[1] = "stream" /\ attempt = 1)
      BY <1>9 DEF Inspect, StreamTurn, strategy, TypeOK, Attempts
    <3>5. NoOwnMeta'
      BY <1>9, <2>2, <3>4 DEF Inspect, NoOwnMeta, Early, TypeOK, Attempts
    <3>6. RetryStartsClean'  BY <2>2 DEF RetryStartsClean
    <3>7. StreamTurn' /\ Shown' /\ Reports'
      BY <2>1, <2>2, <3>3 DEF StreamTurn, Shown, Reports
    <3> QED  BY <3>2, <3>5, <3>6, <3>7
  <2>3. CASE UNCHANGED <<offset, sumKnown>> /\ (EndAttempt(FALSE, file) \/ Fails(file))
    <3>1. RestOK' /\ UNCHANGED order  BY <1>0, <1>9, <2>3 DEF Inspect, env, RestOK
    <3> QED  BY <2>1, <2>3, <3>1, EndInv, FailsInv
  <2> QED  BY <1>9, <2>2, <2>3 DEF Inspect
<1>10. CASE OpenDownload
  <2>1. outcome # "ok"  BY <1>10 DEF OpenDownload, Reports
  <2>2. CASE /\ pc' = "copy" /\ watched' = TRUE
             /\ sent' = (offset \div MiB) * MiB /\ exit' = "none"
             /\ file' = IF offset > 0 /\ Len(file) = offset THEN file ELSE <<>>
             /\ UNCHANGED <<turn, outcome, meta>>
    <3>1. <<>> \in Seq(Chunks) /\ DOMAIN <<>> = {}  OBVIOUS
    <3>2. sent' \in 0..MaxLen
      <4>1. offset \in Nat /\ offset <= MaxLen /\ MaxLen \in Nat
        BY LenAssumption DEF TypeOK
      <4>2. (offset \div MiB) * MiB \in 0..offset
        BY <4>1, WholeBlocks, MiBAssumption
      <4> QED  BY <2>2, <4>1, <4>2
    <3>3. file' \in Seq(Chunks) /\ file' \in {file, <<>>}
      BY <2>2, <3>1 DEF TypeOK
    <3>4. TypeOK'  BY <1>10, <2>2, <3>2, <3>3 DEF OpenDownload, env, TypeOK
    <3>5. Trusted' /\ LongEnough'
      BY <1>10 DEF OpenDownload, Shown, Trusted, LongEnough
    <3>6. NoOwnMeta' /\ RetryStartsClean'
      BY <1>10, <2>2, <3>3, GoesOn DEF OpenDownload, Early
    <3>7. StreamTurn' /\ Shown' /\ Reports'
      BY <2>1, <2>2, <3>5 DEF StreamTurn, Shown, Reports
    <3> QED  BY <3>4, <3>6, <3>7
  <2>3. CASE Fails(file) /\ UNCHANGED <<watched, sent, exit>>
    <3>1. RestOK' /\ UNCHANGED order  BY <1>0, <1>10, <2>3 DEF OpenDownload, env, RestOK
    <3> QED  BY <2>1, <2>3, <3>1, FailsInv
  <2> QED  BY <1>10, <2>2, <2>3 DEF OpenDownload
<1>11. CASE DownloadChecks
  <2>1. outcome # "ok"  BY <1>11 DEF DownloadChecks, Reports
  <2>2. RestOK' /\ UNCHANGED order  BY <1>0, <1>11 DEF DownloadChecks, env, transfer, RestOK
  <2>3. CASE pc' = "cleanup" /\ UNCHANGED <<turn, outcome, file, meta>>
    <3>1. TypeOK'  BY <1>11, <2>3 DEF DownloadChecks, env, transfer, TypeOK
    <3>2. Trusted' /\ LongEnough'
      BY <1>11 DEF DownloadChecks, transfer, Shown, Trusted, LongEnough
    <3>3. NoOwnMeta' /\ RetryStartsClean'
      BY <1>11, <2>3, GoesOn DEF DownloadChecks, Early
    <3>4. StreamTurn' /\ Shown' /\ Reports'
      BY <2>1, <2>3, <3>2 DEF StreamTurn, Shown, Reports
    <3> QED  BY <3>1, <3>3, <3>4
  <2>4. CASE Fails(file)  BY <2>1, <2>2, <2>4, FailsInv
  <2>5. CASE \E retryable \in BOOLEAN : EndAttempt(retryable, file)
    BY <2>1, <2>2, <2>5, EndInv
  <2> QED  BY <1>11, <2>3, <2>4, <2>5 DEF DownloadChecks
<1>12. CASE RemoveTmpDir
  <2>1. TypeOK'  BY <1>12 DEF RemoveTmpDir, env, transfer, TypeOK
  <2>2. RetryStartsClean' /\ StreamTurn' /\ NoOwnMeta' /\ Shown' /\ Reports'
    BY <1>12 DEF RemoveTmpDir, transfer, RetryStartsClean, StreamTurn, NoOwnMeta, Early,
                 Shown, Reports, Trusted, LongEnough
  <2> QED  BY <2>1, <2>2
<1>13. CASE Verify
  <2>1. outcome # "ok"  BY <1>13 DEF Verify, Reports
  <2>2. CASE /\ ValidGzip(file) /\ Return("ok")
             /\ meta' \in {"none", meta} /\ UNCHANGED <<turn, file>>
    <3>1. TypeOK'  BY <1>13, <2>2 DEF Verify, Return, env, transfer, TypeOK
    <3>2. Trusted' /\ LongEnough' /\ ValidGzip(file)'
      BY <1>13, <2>2 DEF Verify, transfer, Shown, Trusted, LongEnough, ValidGzip, Part
    <3>3. RetryStartsClean'  BY <2>2 DEF RetryStartsClean
    <3>4. NoOwnMeta'
      BY <1>13, <2>2 DEF Verify, Return, NoOwnMeta, Early
    <3>5. StreamTurn' /\ Shown' /\ Reports'
      BY <2>2, <3>2 DEF Return, StreamTurn, Shown, Reports
    <3> QED  BY <3>1, <3>3, <3>4, <3>5
  <2>3. CASE Fails(file)
    <3>1. RestOK' /\ UNCHANGED order  BY <1>0, <1>13 DEF Verify, env, transfer, RestOK
    <3> QED  BY <2>1, <2>3, <3>1, FailsInv
  <2> QED  BY <1>13, <2>2, <2>3 DEF Verify
<1>14. CASE Cancel \/ ConnectionLost \/ CancelOnContext
  <2>1. /\ TypeOK' /\ UNCHANGED <<order, turn, pc, outcome, watched, transfer, file, meta>>
    BY <1>14 DEF Cancel, ConnectionLost, CancelOnContext, transfer, TypeOK
  <2> QED  BY <2>1 DEF RetryStartsClean, StreamTurn, NoOwnMeta, Early, Shown, Reports, strategy, transfer,
                       TypeOK, Attempts, Trusted, LongEnough, ValidGzip, Part
<1>15. CASE UNCHANGED vars
  BY <1>15 DEF vars, TypeOK, RetryStartsClean, StreamTurn, NoOwnMeta, Early, Shown, Reports,
               strategy, Trusted, LongEnough, ValidGzip, Part
<1> QED  BY <1>1, <1>2, <1>3, <1>4, <1>5, <1>6, <1>7, <1>8, <1>9, <1>10, <1>11,
            <1>12, <1>13, <1>14, <1>15 DEF Next, Remote, Local

-----------------------------------------------------------------------------
LEMMA Invariance == Spec => []Inv
<1> QED  BY InitInv, NextInv, PTL DEF Spec

(* A reported backup is the whole dump, for dumps of any length, any block
   size of dd, and with or without pipefail in the remote shell. *)
THEOREM ReportedIsWhole == Spec => []BackupIsWhole
<1>1. Inv => BackupIsWhole
  <2>1. ASSUME Inv, outcome = "ok" PROVE Len(file) = dump.len
    BY <2>1, LenAssumption DEF Inv, Reports, ValidGzip, Part, TypeOK, Dumps
  <2> QED  BY <2>1 DEF Inv, Reports, BackupIsWhole, Trusted, LongEnough
<1> QED  BY <1>1, Invariance, PTL

(* Whatever a first attempt or an older file left is gone in the second, unless
   the removal failed. *)
THEOREM RetryIsClean == Spec => []RetryStartsClean
<1>1. Inv => RetryStartsClean  BY DEF Inv
<1> QED  BY <1>1, Invariance, PTL

(* Every variable keeps its type. *)
THEOREM TypeCorrect == Spec => []TypeOK
<1>1. Inv => TypeOK  BY DEF Inv
<1> QED  BY <1>1, Invariance, PTL

-----------------------------------------------------------------------------
(* The call implements BackupCall. *)

(* The call has returned when it is done, and only then. *)
Returned == (outcome = "none") <=> (pc # "done")

(* A step of a running call goes on, fails, or reports success of what it
   leaves as it is. *)
RunningStep ==
    \/ outcome' = "none" /\ pc' # "done"
    \/ outcome' = "failed" /\ pc' = "done"
    \/ outcome' = "ok" /\ pc' = "done" /\ UNCHANGED <<attempt, dump, file>>

LEMMA EndStep ==
  ASSUME outcome = "none", NEW retryable \in BOOLEAN, NEW left,
         EndAttempt(retryable, left)
  PROVE  RunningStep
<1>1. CASE retryable /\ attempt = 1  BY <1>1 DEF EndAttempt, RunningStep
<1>2. CASE ~(retryable /\ attempt = 1)  BY <1>2 DEF EndAttempt, Return, RunningStep
<1> QED  BY <1>1, <1>2

LEMMA FailsStep ==
  ASSUME outcome = "none", NEW left, Fails(left)
  PROVE  RunningStep
<1>1. PICK retryable \in BOOLEAN : EndAttempt(retryable, left)  BY DEF Fails
<1> QED  BY <1>1, EndStep

(* Only a call that has not returned takes a step. *)
LEMMA NextStep ==
  ASSUME Returned, Next
  PROVE  outcome = "none" /\ pc # "done" /\ RunningStep
<1>1. CASE Remote
  <2>1. pc # "done" /\ outcome = "none"
    BY <1>1 DEF Remote, Begin, OpenStream, CopyChunk, CopyEnds, MakeTmpDir, RemoteDump,
                Inspect, OpenDownload, RemoveTmpDir, Returned
  <2>2. CASE Begin  BY <2>1, <2>2 DEF Begin, Return, RunningStep
  <2>3. CASE OpenStream
    BY <2>1, <2>3, FailsStep DEF OpenStream, RunningStep
  <2>4. CASE CopyChunk \/ CopyEnds \/ RemoveTmpDir
    BY <2>1, <2>4 DEF CopyChunk, CopyEnds, RemoveTmpDir, RunningStep
  <2>5. CASE MakeTmpDir  BY <2>1, <2>5, FailsStep DEF MakeTmpDir, RunningStep
  <2>6. CASE RemoteDump  BY <2>1, <2>6, FailsStep DEF RemoteDump, RunningStep
  <2>7. CASE Inspect  BY <2>1, <2>7, FailsStep, EndStep DEF Inspect, RunningStep
  <2>8. CASE OpenDownload  BY <2>1, <2>8, FailsStep DEF OpenDownload, RunningStep
  <2> QED  BY <1>1, <2>1, <2>2, <2>3, <2>4, <2>5, <2>6, <2>7, <2>8 DEF Remote
<1>2. CASE Local
  <2>1. pc # "done" /\ outcome = "none"
    BY <1>2 DEF Local, Attempt, StreamChecks, DownloadChecks, Verify, Returned
  <2>2. CASE Attempt
    <3>1. CASE canceled  BY <2>1, <2>2, <3>1 DEF Attempt, Return, RunningStep
    <3>2. CASE ~canceled  BY <2>1, <2>2, <3>2 DEF Attempt, RunningStep
    <3> QED  BY <3>1, <3>2
  <2>3. CASE StreamChecks
    BY <2>1, <2>3, FailsStep, EndStep DEF StreamChecks, RunningStep
  <2>4. CASE DownloadChecks
    BY <2>1, <2>4, FailsStep, EndStep DEF DownloadChecks, RunningStep
  <2>5. CASE Verify
    <3>1. CASE ValidGzip(file)
      BY <2>1, <2>5, <3>1 DEF Verify, Return, transfer, turn, RunningStep
    <3>2. CASE ~ValidGzip(file)  BY <2>1, <2>5, <3>2, FailsStep DEF Verify
    <3> QED  BY <3>1, <3>2
  <2> QED  BY <1>2, <2>1, <2>2, <2>3, <2>4, <2>5 DEF Local
<1>3. CASE Cancel \/ ConnectionLost \/ CancelOnContext
  BY <1>3 DEF Cancel, ConnectionLost, CancelOnContext, Returned, RunningStep
<1> QED  BY <1>1, <1>2, <1>3 DEF Next

LEMMA ReturnedAlways == Spec => []Returned
<1>1. Init => Returned  BY DEF Init, Returned
<1>2. Returned /\ [Next]_vars => Returned'
  <2>1. ASSUME Returned, Next PROVE Returned'
    BY <2>1, NextStep DEF RunningStep, Returned
  <2>2. ASSUME Returned, UNCHANGED vars PROVE Returned'  BY <2>2 DEF vars, Returned
  <2> QED  BY <2>1, <2>2
<1> QED  BY <1>1, <1>2, PTL DEF Spec

(* The mapping gives the one call of the promise what this one has returned
   and what lies under its path. *)
Result == [i \in {1} |-> outcome]
Path == [i \in {1} |-> CopyState]

LEMMA StateType == CopyState \in {"none", "partial", "whole"}
<1> QED  BY DEF CopyState

(* Nobody has dumped anything yet: what lies there is not this dump. *)
LEMMA InitPromise == Init => Promise!Init
<1> SUFFICES ASSUME Init PROVE Promise!Init  OBVIOUS
<1>1. CopyState \in {"none", "partial"}
  <2>1. CASE file = <<>>  BY <2>1 DEF CopyState
  <2>2. CASE \E n \in 1..(MaxLen - 1) : file = Leftover(n)
    <3>1. PICK n \in 1..(MaxLen - 1) : file = Leftover(n)  BY <2>2
    <3>2. n \in Nat /\ n >= 1  BY <3>1, LenAssumption
    <3>3. Part(0, 1, n)[1][1] = 0  BY <3>2 DEF Part
    <3>4. Part(1, 1, 1)[1][1] = 1  BY DEF Part
    <3>5. ~ValidGzip(file)  BY <3>1, <3>3, <3>4 DEF ValidGzip, Init, Leftover
    <3> QED  BY <3>5 DEF CopyState
  <2> QED  BY <2>1, <2>2 DEF Init
<1> QED  BY <1>1 DEF Init, Promise!Init

(* Success is reported of a whole dump that stays as it is. *)
LEMMA OkIsWhole ==
  ASSUME Inv', outcome' = "ok", UNCHANGED <<attempt, dump, file>>
  PROVE  CopyState = "whole" /\ CopyState' = "whole"
<1>1. ValidGzip(file') /\ Trusted /\ LongEnough /\ dump \in Dumps
  BY DEF Inv, Reports, TypeOK, Trusted, LongEnough, ValidGzip, Part
<1>2. Len(file) = dump.len /\ Len(file) >= 2 /\ ValidGzip(file)
  BY <1>1, LenAssumption DEF ValidGzip, Part, Dumps, LongEnough
<1>3. file # <<>>  BY <1>2
<1> QED  BY <1>1, <1>2, <1>3 DEF CopyState, Trusted, ValidGzip, Part

LEMMA NextPromise ==
  ASSUME Inv', Returned, [Next]_vars
  PROVE  [Promise!Next]_<<Result, Path>>
<1>1. CASE Next
  <2>1. outcome = "none" /\ RunningStep  BY <1>1, NextStep
  <2>2. /\ Result' = [Result EXCEPT ![1] = outcome']
        /\ Path' = [Path EXCEPT ![1] = CopyState']
        /\ Result[1] = outcome /\ Path[1] = CopyState
    BY DEF Result, Path
  <2>3. CopyState' \in {"none", "partial", "whole"}  BY DEF CopyState
  <2>4. CASE outcome' = "none"
    <3>1. Promise!Write(1)
      BY <2>1, <2>2, <2>3, <2>4
         DEF Promise!Write, Promise!Puts, Promise!Copies, Result, Path
    <3> QED  BY <3>1 DEF Promise!Next
  <2>5. CASE outcome' = "failed"
    <3>1. Promise!Fail(1)
      BY <2>1, <2>2, <2>3, <2>5 DEF Promise!Fail, Promise!Ends, Promise!Puts, Result, Path
    <3> QED  BY <3>1 DEF Promise!Next
  <2>6. CASE outcome' = "ok"
    <3>1. UNCHANGED <<attempt, dump, file>>  BY <2>1, <2>6 DEF RunningStep
    <3>2. CopyState = "whole" /\ CopyState' = "whole"  BY <2>6, <3>1, OkIsWhole
    <3>3. Promise!Succeed(1)
      BY <2>1, <2>2, <2>6, <3>2 DEF Promise!Succeed, Promise!Ends, Result, Path
    <3> QED  BY <3>3 DEF Promise!Next
  <2> QED  BY <2>1, <2>4, <2>5, <2>6 DEF RunningStep
<1>2. CASE UNCHANGED vars
  BY <1>2 DEF vars, Result, Path, CopyState, ValidGzip, Part
<1> QED  BY <1>1, <1>2

(* BackupSSH keeps the promise of BackupCall, for dumps of any length and with
   any block size: it reports success only of a whole dump, and after its return
   neither a late answer nor a goroutine it started changes the file. *)
THEOREM ImplementsBackupCall == Spec => KeepsPromise
<1>1. Inv' /\ Returned /\ [Next]_vars => [Promise!Next]_<<Result, Path>>
  BY NextPromise
<1> QED  BY InitPromise, <1>1, Invariance, ReturnedAlways, PTL
         DEF Spec, KeepsPromise, Promise!Spec, Result, Path
============================================================================
