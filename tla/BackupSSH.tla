----------------------------- MODULE BackupSSH -----------------------------
(***************************************************************************)
(* One call of transfer.BackupSSH: the dump of a remote database is brought *)
(* to a local file, first by one strategy and, when that fails in a way     *)
(* worth a retry, by the other.  The environment cancels the context, breaks *)
(* the SSH connection and lets the remote commands fail or hang.  A profile  *)
(* of this machine takes the same path with a client of local processes.    *)
(*                                                                          *)
(* A dump is a sequence of chunks; the last one carries the gzip trailer.   *)
(* A file is the sequence of chunks in it, each named by the attempt it     *)
(* comes from: 0 stands for a file an earlier backup of the same database   *)
(* left under the same name, whose time stamp counts whole seconds.  No      *)
(* file and an empty file are both the empty sequence: the code makes no     *)
(* difference between them.                                                  *)
(***************************************************************************)
EXTENDS Integers, Sequences

CONSTANTS
    MaxLen,     \* chunks of the longest dump
    MiB,        \* chunks in the block size of dd
    Pipefail,   \* the remote shell has pipefail: bash is installed
    Localhost   \* the profile runs its commands here, through LocalClient

ASSUME LenAssumption == MaxLen \in Nat /\ MaxLen >= 2
ASSUME MiBAssumption == MiB \in Nat \ {0}
ASSUME PipefailAssumption == Pipefail \in BOOLEAN
ASSUME LocalhostAssumption == Localhost \in BOOLEAN

VARIABLES
    order,      \* backupStrategies: what attempt 1 and 2 do
    attempt,    \* the attempt under way
    stuck,      \* auxiliary: the file of the first could not be removed
    pc,         \* where the call is; most names are the command it waits for
    outcome,    \* what the call returned
    canceled,   \* ctx is done
    up,         \* the SSH client can still run commands
    watched,    \* a cancelOnContext goroutine holds the client
    dump,       \* the dump of this attempt
    sent,       \* how far the remote has sent it
    exit,       \* the exit status the remote command reported
    offset,     \* where the download started
    sumKnown,   \* the remote has sha256sum
    file,       \* what the local path holds
    meta        \* whose transfer the .dback-meta.json beside it describes

vars == <<order, attempt, stuck, pc, outcome, canceled, up, watched, dump, sent,
          exit, offset, sumKnown, file, meta>>

Attempts == 1..2
Chunks == (0..2) \X (1..MaxLen)
Dumps == [len: 1..MaxLen, whole: BOOLEAN]

(* The chunks i to j of the dump of attempt a. *)
Part(a, i, j) == [k \in 1..(j - i + 1) |-> <<a, i + k - 1>>]

(* validateBackupIntegrity: every chunk up to the trailer is there and all
   belong to one stream, or the checksum in the trailer fails. *)
ValidGzip(f) == f = Part(attempt, 1, dump.len)

strategy == order[attempt]

----------------------------------------------------------------------------
(* A dump the database server completes is never tiny. *)
PossibleDumps == {d \in Dumps : d.whole => d.len >= 2}

(* The pipeline of mysqldump and gzip reports a dump that was cut short only
   where the shell has pipefail. *)
Reported(d) == Pipefail /\ ~d.whole

Leftover(n) == Part(0, 1, n)

Init == /\ order \in {<<"stream", "tmp">>, <<"tmp", "stream">>}
        /\ Localhost => order[1] = "stream"
        /\ attempt = 1
        /\ stuck = FALSE
        /\ pc = "begin"
        /\ outcome = "none"
        /\ canceled = FALSE
        /\ up = TRUE
        /\ watched = FALSE
        /\ dump = [len |-> 1, whole |-> FALSE]
        /\ sent = 0
        /\ exit = "none"
        /\ offset = 0
        /\ sumKnown = FALSE
        /\ \/ file = <<>> /\ meta = "none"
           \/ /\ file \in {Leftover(n) : n \in 1..(MaxLen - 1)}
              /\ meta = "other"

Return(result) == pc' = "done" /\ outcome' = result

(* What os.Remove leaves of f: nothing, or f if it fails, as on a file still open
   on Windows.  Every caller drops the error. *)
Removed(f) == {<<>>, f}

(* A plausible mistake: the partial file stays when the call retries. *)
EndAttemptKeepsFile(retryable, left) ==
    IF retryable /\ attempt = 1
    THEN /\ attempt' = 2 /\ pc' = "attempt" /\ file' = left
         /\ UNCHANGED <<outcome, meta, stuck>>
    ELSE Return("failed") /\ file' = left /\ UNCHANGED <<attempt, stuck, meta>>

(* The end of one turn of the loop after an error: another turn only for a
   retryable error, with the file and its metadata removed, if they can be;
   left is what the attempt itself leaves under the path. *)
EndAttempt(retryable, left) ==
    IF retryable /\ attempt = 1
    THEN /\ attempt' = 2
         /\ pc' = "attempt"
         /\ file' \in Removed(left)
         /\ stuck' = (file' # <<>>)
         /\ meta' \in {"none", meta}
         /\ UNCHANGED outcome
    ELSE /\ Return("failed")
         /\ file' = left
         /\ UNCHANGED <<attempt, stuck, meta>>

(* An error whose text the remote decides may or may not be retryable. *)
Fails(left) == \E retryable \in BOOLEAN : EndAttempt(retryable, left)

env == <<order, canceled, up>>
turn == <<attempt, stuck>>
transfer == <<dump, sent, exit, offset, sumKnown>>

----------------------------------------------------------------------------
(* Before the loop: dial, preflight, size estimate, host folder, file name.
   No goroutine watches the context yet. *)
Begin == /\ pc = "begin"
         /\ \/ up /\ pc' = "attempt" /\ UNCHANGED outcome
            \/ Return("failed")
         /\ UNCHANGED <<env, transfer, turn, watched, file, meta>>

(* The head of the loop. *)
Attempt == /\ pc = "attempt"
           /\ IF canceled
              THEN Return("failed")
              ELSE /\ pc' = IF strategy = "stream" THEN "open" ELSE "mkdir"
                   /\ UNCHANGED outcome
           /\ UNCHANGED <<env, transfer, turn, watched, file, meta>>

----------------------------------------------------------------------------
(* backupStream. *)

(* The dump command starts and the local file is created, or truncated. *)
OpenStream ==
    /\ pc = "open"
    /\ \/ /\ up
          /\ \E d \in PossibleDumps : dump' = d
          /\ pc' = "copy"
          /\ watched' = TRUE
          /\ file' = <<>>
          /\ sent' = 0
          /\ exit' = "none"
          /\ offset' = 0
          /\ UNCHANGED <<turn, outcome, meta>>
       \/ Fails(file) /\ UNCHANGED <<watched, dump, sent, exit, offset>>
    /\ UNCHANGED <<env, sumKnown>>

(* fastCopy: one chunk arrives; a download records its progress. *)
CopyChunk ==
    /\ pc = "copy"
    /\ up
    /\ sent < dump.len
    /\ sent' = sent + 1
    /\ file' = Append(file, <<attempt, sent + 1>>)
    /\ meta' = IF strategy = "tmp" THEN "own" ELSE meta
    /\ UNCHANGED <<env, turn, pc, outcome, watched, dump, exit, offset, sumKnown>>

(* The output ends: all of it has arrived and the command reports its status,
   or the remote command dies, or the connection is gone. *)
CopyEnds ==
    /\ pc = "copy"
    /\ pc' = "copied"
    /\ \/ up /\ sent = dump.len /\ exit' = IF strategy = "stream" /\ Reported(dump) THEN "bad" ELSE "ok"
       \/ exit' = "bad"
    /\ UNCHANGED <<env, turn, outcome, watched, dump, sent, offset, sumKnown, file, meta>>

(* After the copy: ctx, the read error, the exit status, what the command
   wrote to stderr (anything may look fatal, and a cut dump may be silent),
   the gzip check and the minimum size.  Whatever is wrong, the file is
   removed, while it is still open. *)
StreamChecks ==
    /\ pc = "copied"
    /\ strategy = "stream"
    /\ \/ \E left \in Removed(file) :
            \/ canceled /\ EndAttempt(FALSE, left)
            \/ ~canceled /\ Fails(left)
       \/ /\ ~canceled
          /\ exit = "ok"
          /\ ValidGzip(file)
          /\ Len(file) >= 2
          /\ pc' = "verify"
          /\ UNCHANGED <<turn, outcome, file, meta>>
    /\ UNCHANGED <<env, transfer, watched>>

----------------------------------------------------------------------------
(* backupTmpFile. *)

MakeTmpDir ==
    /\ pc = "mkdir"
    /\ \/ up /\ pc' = "dump" /\ UNCHANGED <<turn, outcome, file, meta>>
       \/ Fails(file)
    /\ UNCHANGED <<env, transfer, watched>>

(* The dump is written to a remote file, unless the metadata says it is there
   already.  Nothing watches the context while RunCommand waits. *)
RemoteDump ==
    /\ pc = "dump"
    /\ \/ /\ up
          /\ pc' = "inspect"
          /\ \E d \in PossibleDumps :
                ~Reported(d) /\ dump' = IF meta = "own" THEN dump ELSE d
          /\ UNCHANGED <<turn, outcome, file, meta>>
       \/ Fails(file) /\ UNCHANGED dump
    /\ UNCHANGED <<env, watched, sent, exit, offset, sumKnown>>

(* localResumeOffset: any shorter local file is taken for the beginning of
   this one.  (The offset in the metadata is still zero when it is asked.) *)
ResumeOffset == IF Len(file) < dump.len THEN Len(file) ELSE 0

(* Size, gzip -t and checksum of the remote file, and the metadata. *)
Inspect ==
    /\ pc = "inspect"
    /\ \/ /\ up
          /\ dump.len >= 2
          /\ pc' = "download"
          /\ offset' = ResumeOffset
          /\ meta' = "own"
          /\ sumKnown' \in BOOLEAN
          /\ UNCHANGED <<turn, outcome, file>>
       \/ up /\ dump.len < 2 /\ EndAttempt(FALSE, file) /\ UNCHANGED <<offset, sumKnown>>
       \/ Fails(file) /\ UNCHANGED <<offset, sumKnown>>
    /\ UNCHANGED <<env, watched, dump, sent, exit>>

(* BuildDownloadChunkCommand skips whole blocks of dd only; openLocalAppend
   keeps what is there when it is as long as the offset. *)
OpenDownload ==
    /\ pc = "download"
    /\ \/ /\ up
          /\ pc' = "copy"
          /\ watched' = TRUE
          /\ sent' = (offset \div MiB) * MiB
          /\ exit' = "none"
          /\ file' = IF offset > 0 /\ Len(file) = offset THEN file ELSE <<>>
          /\ UNCHANGED <<turn, outcome, meta>>
       \/ Fails(file) /\ UNCHANGED <<watched, sent, exit>>
    /\ UNCHANGED <<env, dump, offset, sumKnown>>

(* What was written in this download, and where that ends. *)
FinalSize == offset + (sent - (offset \div MiB) * MiB)

(* After the copy: ctx, the exit status, the size and, if it is known, the
   checksum.  The file and its metadata stay. *)
DownloadChecks ==
    /\ pc = "copied"
    /\ strategy = "tmp"
    /\ \/ canceled /\ EndAttempt(FALSE, file)
       \/ ~canceled /\ exit = "bad" /\ Fails(file)
       \/ ~canceled /\ exit = "ok" /\ FinalSize # dump.len /\ EndAttempt(TRUE, file)
       \/ /\ ~canceled
          /\ exit = "ok"
          /\ FinalSize = dump.len
          /\ IF sumKnown /\ ~ValidGzip(file)
             THEN EndAttempt(FALSE, file)
             ELSE pc' = "cleanup" /\ UNCHANGED <<turn, outcome, file, meta>>
    /\ UNCHANGED <<env, transfer, watched>>

(* The remote directory is removed; an error of the command is ignored. *)
RemoveTmpDir ==
    /\ pc = "cleanup"
    /\ pc' = "verify"
    /\ UNCHANGED <<env, transfer, turn, outcome, watched, file, meta>>

----------------------------------------------------------------------------
(* A plausible mistake: BackupSSH trusts the strategies. *)
VerifyNothing == /\ pc = "verify"
                 /\ Return("ok") /\ meta' \in {"none", meta} /\ UNCHANGED <<turn, file>>
                 /\ UNCHANGED <<env, transfer, watched>>

(* Back in BackupSSH: the file is checked once more and its metadata goes. *)
Verify ==
    /\ pc = "verify"
    /\ IF ValidGzip(file)
       THEN Return("ok") /\ meta' \in {"none", meta} /\ UNCHANGED <<turn, file>>
       ELSE Fails(file)
    /\ UNCHANGED <<env, transfer, watched>>

----------------------------------------------------------------------------
(* The environment: Cancel in the job center, and the network. *)

(* A plausible mistake: the call returns at once and the copy goes on. *)
CancelReturns == /\ pc # "done"
                 /\ ~canceled
                 /\ canceled' = TRUE
                 /\ outcome' = IF pc = "copy" THEN "failed" ELSE outcome
                 /\ UNCHANGED <<order, up, turn, pc, watched, transfer, file, meta>>

Cancel == /\ pc # "done"
          /\ ~canceled
          /\ canceled' = TRUE
          /\ UNCHANGED <<order, up, turn, pc, outcome, watched, transfer, file, meta>>

ConnectionLost == /\ ~Localhost
                  /\ pc # "done"
                  /\ up
                  /\ up' = FALSE
                  /\ UNCHANGED <<order, canceled, turn, pc, outcome, watched, transfer, file, meta>>

(* A plausible mistake: cancelOnContext closes its session and not the client. *)
CloseSessionOnly == /\ watched /\ canceled /\ pc = "copy" /\ up
                    /\ up' = FALSE
                    /\ UNCHANGED <<order, canceled, turn, pc, outcome, watched,
                                   transfer, file, meta>>

(* cancelOnContext closes the session and the client, long after the session
   it was started for has ended too.  Closing a LocalClient does nothing, and
   its session kills the outer shell only: the pipeline goes on. *)
CancelOnContext == /\ ~Localhost
                   /\ watched
                   /\ canceled
                   /\ pc # "done"
                   /\ up
                   /\ up' = FALSE
                   /\ UNCHANGED <<order, canceled, turn, pc, outcome, watched, transfer, file, meta>>

----------------------------------------------------------------------------
(* Steps that wait for an answer of the remote machine... *)
Remote == \/ Begin \/ OpenStream \/ CopyChunk \/ CopyEnds
          \/ MakeTmpDir \/ RemoteDump \/ Inspect \/ OpenDownload \/ RemoveTmpDir

(* ... and steps that do not. *)
Local == Attempt \/ StreamChecks \/ DownloadChecks \/ Verify

Next == Remote \/ Local \/ Cancel \/ ConnectionLost \/ CancelOnContext

Spec == Init /\ [][Next]_vars

(* A remote command may hang for ever, until the connection is closed: then
   whatever waits for it returns. *)
FairSpec == /\ Spec
            /\ WF_vars(Local)
            /\ WF_vars(~up /\ Remote)
            /\ WF_vars(CancelOnContext)

----------------------------------------------------------------------------
TypeOK ==
    /\ order \in {<<"stream", "tmp">>, <<"tmp", "stream">>}
    /\ attempt \in Attempts /\ stuck \in BOOLEAN
    /\ pc \in {"begin", "attempt", "open", "copy", "copied", "mkdir", "dump",
               "inspect", "download", "cleanup", "verify", "done"}
    /\ outcome \in {"none", "ok", "failed"}
    /\ canceled \in BOOLEAN /\ up \in BOOLEAN /\ watched \in BOOLEAN
    /\ dump \in Dumps
    /\ sent \in 0..MaxLen /\ offset \in 0..MaxLen
    /\ exit \in {"none", "ok", "bad"}
    /\ sumKnown \in BOOLEAN
    /\ file \in Seq(Chunks)
    /\ meta \in {"none", "own", "other"}

(* A backup that reports success has on disk exactly the compressed dump the
   remote command made, and where the remote shell has pipefail that is a dump
   mysqldump completed: whichever strategies were tried, however they failed,
   whatever lay under the file name before, and whatever could not be removed
   between two attempts (transfer.go:79-107, 117). *)
BackupIsWhole ==
    outcome = "ok" => /\ ValidGzip(file)
                      /\ Len(file) >= 2
                      /\ Pipefail => dump.whole

(* The second strategy builds on nothing of the first, nor of an older file
   under the same name, unless the partial file could not be removed before the
   retry: a download then resumes from it (transfer.go:117, metadata.go:87), and
   it is for BackupIsWhole that no mixture of two dumps is reported. *)
RetryStartsClean ==
    attempt = 2 /\ ~stuck => \A k \in DOMAIN file : file[k][1] = 2

(* Once a transfer has begun, a cancel ends the call even if the remote
   command hangs for ever, during either strategy; so does a lost connection,
   at any time (transfer.go:139, 266, 603).  The job center offers the cancel
   for every profile (README.md:92). *)
CallEnds == (~up \/ (canceled /\ watched)) ~> pc = "done"

(* What lies under the path of the call. *)
CopyState == IF file = <<>> THEN "none"
             ELSE IF ValidGzip(file) /\ Len(file) >= 2 /\ (Pipefail => dump.whole) THEN "whole"
             ELSE "partial"

(* The call keeps the promise App.Backup relies on: it reports success only with
   the whole dump in place, and once it has returned, neither a late answer nor
   a goroutine it started touches the file (app.go:338-380).  A failed download
   may leave what it has. *)
Promise == INSTANCE BackupCall
    WITH Calls   <- {1},
         Leaves  <- {"none", "partial", "whole"},
         outcome <- [i \in {1} |-> outcome],
         copy    <- [i \in {1} |-> CopyState]

KeepsPromise == Promise!Spec
============================================================================
