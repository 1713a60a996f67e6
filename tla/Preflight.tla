------------------------------ MODULE Preflight ------------------------------
(***************************************************************************)
(* The check of a server before a transfer over SSH, and the temporary      *)
(* directory it chooses: preflight.Run, its shell script, and what the      *)
(* strategies with a remote file do with the directory.  Several calls run  *)
(* on one server, maybe of several SSH users; the script tries whether a    *)
(* directory is writable with a file that has the same name for all of them. *)
(*                                                                          *)
(* Room is counted in units of the smallest requirement.                    *)
(***************************************************************************)
EXTENDS Integers, Sequences, FiniteSets

CONSTANTS
    Calls,    \* calls of BackupSSH and RestoreSSH
    Users,    \* SSH users
    Servers,  \* [docker, linux, host, box, container], see ToolsPass
    MaxRoom   \* bound on the room of a file system

ASSUME UsersAssumption == Users \cap {"none", "everyone", "system"} = {}
ASSUME RoomAssumption == MaxRoom \in Nat

VARIABLES
    server,  \* what is installed on it
    owner,   \* who owns a directory, "none" if it is not there
    probe,   \* who owns the file .dback-write-test in it
    free,    \* room of the two file systems
    call     \* per call

preflightVars == <<server, owner, probe, free, call>>

(* In the order of selectTmpDir: /tmp/dback, /tmp, $HOME/dback-tmp. *)
Candidates == <<"dback", "tmp", "home">>
Dirs       == {"dback", "tmp", "home"}

Place(d, u) == IF d = "home" THEN <<d, u>> ELSE <<d, "all">>
Places      == {Place(d, u) : d \in Dirs, u \in Users}
Disk(d)     == IF d = "home" THEN "home" ELSE "tmp"

NoCall == [at |-> "idle", user |-> "none", need |-> 0, measured |-> {}, next |-> 1,
           touched |-> FALSE, writable |-> {}, base |-> "none", size |-> 0]

(* /tmp belongs to everyone; a home may be closed to its user, and then the
   directory in it was made by someone else. *)
PreflightInit ==
    /\ server \in Servers
    /\ owner \in {o \in [Places -> Users \cup {"none", "everyone", "system"}] :
                    \A p \in Places :
                       CASE p[1] = "tmp"   -> o[p] = "everyone"
                         [] p[1] = "dback" -> o[p] \in Users \cup {"none"}
                         [] p[1] = "home"  -> o[p] \in {p[2], "none", "system"}}
    /\ probe = [p \in Places |-> "none"]
    /\ free \in [{"tmp", "home"} -> 0..MaxRoom]
    /\ call = [i \in Calls |-> NoCall]

CallStep(i, c) == call' = [call EXCEPT ![i] = c]
CallAt(i, l)   == call[i].at = l

----------------------------------------------------------------------------
(* The script. *)

BeginScript(i) ==
    /\ CallAt(i, "idle")
    /\ \E u \in Users, need \in 1..MaxRoom :
          CallStep(i, [NoCall EXCEPT !.at = "measure", !.user = u, !.need = need])
    /\ UNCHANGED <<server, owner, probe, free>>

(* df of each candidate: one that is not there yet has no line. *)
Measure(i) ==
    /\ CallAt(i, "measure")
    /\ CallStep(i, [call[i] EXCEPT
           !.at = "probe",
           !.measured = {d \in Dirs : /\ owner[Place(d, call[i].user)] # "none"
                                      /\ free[Disk(d)] >= call[i].need}])
    /\ UNCHANGED <<server, owner, probe, free>>

Probed(i)  == Candidates[call[i].next]
ProbedAt(i) == Place(Probed(i), call[i].user)

(* mkdir -p: a directory that is there is no error. *)
Made(o, p, u) == [o EXCEPT ![p] = IF @ = "none" THEN u ELSE @]

MayWrite(o, p, u) == o[p] \in {u, "everyone"}

ToNext(c) == [c EXCEPT !.touched = FALSE, !.next = @ + 1,
                       !.at = IF c.next = Len(Candidates) THEN "validate" ELSE "probe"]

(* mkdir -p and touch; on an error the script goes to the next candidate. *)
Touch(i) ==
    /\ CallAt(i, "probe") /\ ~call[i].touched
    /\ LET u == call[i].user
           p == ProbedAt(i)
           o == Made(owner, p, u)
           touches == MayWrite(o, p, u) /\ probe[p] \in {u, "none"} IN
       /\ owner' = o
       /\ probe' = [probe EXCEPT ![p] = IF touches THEN u ELSE @]
       /\ CallStep(i, IF touches THEN [call[i] EXCEPT !.touched = TRUE]
                      ELSE ToNext(call[i]))
    /\ UNCHANGED <<server, free>>

(* A plausible mistake: rm without -f. *)
RemovesExisting(i) == probe[ProbedAt(i)] = call[i].user

(* rm -f: it is no error that the file is not there any more; in /tmp, a file
   of someone else stays. *)
Removes(i) == probe[ProbedAt(i)] \in {call[i].user, "none"}

Remove(i) ==
    /\ CallAt(i, "probe") /\ call[i].touched
    /\ CallStep(i, ToNext(IF Removes(i)
                          THEN [call[i] EXCEPT !.writable = @ \cup {Probed(i)}]
                          ELSE call[i]))
    /\ probe' = [probe EXCEPT ![ProbedAt(i)] = IF @ = call[i].user THEN "none" ELSE @]
    /\ UNCHANGED <<server, owner, free>>

----------------------------------------------------------------------------
(* What Run makes of the output. *)

(* The verdict of the script and of validateParsedOutput on the programs.  A
   dump and its compression run in the container, which the check of the
   compression does not look into. *)
ToolsPass ==
    /\ server.linux
    /\ {"gzip", "zstd"} \cap server.host # {}
    /\ IF server.docker
       THEN server.container = "running" /\ {"dump", "client"} \subseteq server.box
       ELSE {"dump", "client"} \subseteq server.host

(* selectTmpDir: the first that has the room. *)
Selected(roomy) == IF "dback" \in roomy THEN "dback"
                   ELSE IF "tmp" \in roomy THEN "tmp" ELSE "home"

(* A plausible mistake: one writable candidate is enough. *)
PlacePassesIfAny(c) == c.measured # {} /\ c.writable # {}

(* The end of validateParsedOutput: another candidate with the room may be
   writable instead. *)
PlacePasses(c) ==
    /\ c.measured # {}
    /\ c.writable # {}
    /\ Selected(c.measured) \in c.writable \/ c.measured \cap c.writable # {}

(* Run: the directory of the call is made below the selected one, and below
   /tmp/dback when that is /tmp. *)
Validate(i) ==
    /\ CallAt(i, "validate")
    /\ CallStep(i, IF ToolsPass /\ PlacePasses(call[i])
                   THEN [call[i] EXCEPT !.at = "passed",
                            !.base = IF Selected(call[i].measured) = "home"
                                     THEN "home" ELSE "dback"]
                   ELSE [call[i] EXCEPT !.at = "failed"])
    /\ UNCHANGED <<server, owner, probe, free>>

----------------------------------------------------------------------------
(* backupTmpFile and restoreTmpFile. *)

BasePlace(i) == Place(call[i].base, call[i].user)

(* The streaming strategy was enough. *)
NotNeeded(i) ==
    /\ CallAt(i, "passed")
    /\ CallStep(i, [call[i] EXCEPT !.at = "done"])
    /\ UNCHANGED <<server, owner, probe, free>>

(* shellMkdir. *)
MakeDir(i) ==
    /\ CallAt(i, "passed")
    /\ LET o == Made(owner, BasePlace(i), call[i].user) IN
       IF MayWrite(o, BasePlace(i), call[i].user)
       THEN CallStep(i, [call[i] EXCEPT !.at = "made"]) /\ owner' = o
       ELSE CallStep(i, [call[i] EXCEPT !.at = "denied"]) /\ UNCHANGED owner
    /\ UNCHANGED <<server, probe, free>>

(* The dump, or the upload, of any size a compressed dump may have; when the
   disk is full what was written stays. *)
Fill(i) ==
    /\ CallAt(i, "made")
    /\ LET disk == Disk(call[i].base) IN
       \E n \in 1..MaxRoom :
          LET fits == n <= free[disk] IN
          /\ CallStep(i, [call[i] EXCEPT !.at = IF fits THEN "stored" ELSE "failed",
                                         !.size = IF fits THEN n ELSE free[disk]])
          /\ free' = [free EXCEPT ![disk] = IF fits THEN @ - n ELSE 0]
    /\ UNCHANGED <<server, owner, probe>>

(* shellCleanup; its error is ignored. *)
CleanUp(i) ==
    /\ CallAt(i, "stored")
    /\ \/ /\ free' = [free EXCEPT ![Disk(call[i].base)] = @ + call[i].size]
          /\ CallStep(i, [call[i] EXCEPT !.at = "done", !.size = 0])
       \/ CallStep(i, [call[i] EXCEPT !.at = "done"]) /\ UNCHANGED free
    /\ UNCHANGED <<server, owner, probe>>

(* Any other error of the strategies, or a cancel: the remote file is kept. *)
Fails(i) ==
    /\ call[i].at \in {"made", "stored"}
    /\ CallStep(i, [call[i] EXCEPT !.at = "failed"])
    /\ UNCHANGED <<server, owner, probe, free>>

----------------------------------------------------------------------------
Script(i)    == BeginScript(i) \/ Measure(i) \/ Touch(i) \/ Remove(i)
Strategy(i) == NotNeeded(i) \/ MakeDir(i) \/ Fill(i) \/ CleanUp(i) \/ Fails(i)

PreflightNext == \E i \in Calls : Script(i) \/ Validate(i) \/ Strategy(i)

PreflightSpec == PreflightInit /\ [][PreflightNext]_preflightVars

----------------------------------------------------------------------------
Probing == {"idle", "measure", "probe"}

(* The test file is shared, yet calls of one user never disturb each other: a
   directory is reported writable exactly when it is, also when another call
   removes the file between this one's touch and rm (commands.go:483-486).
   With several users a directory may be reported as not writable that is. *)
ProbeIsTrue ==
    \A i \in Calls :
        LET u == call[i].user
            able == {d \in Dirs : MayWrite(owner, Place(d, u), u)} IN
        CallAt(i, "idle") \/
        /\ call[i].writable \subseteq able
        /\ /\ call[i].at \notin Probing
           /\ \A j \in Calls : call[j].user \in {u, "none"}
           => able \subseteq call[i].writable

(* After the preflight has passed, the temporary directory cannot be made only
   when another user has made /tmp/dback, before or after the check: never
   because the selected one was not writable in the first place
   (validate.go:216-233, preflight.go:60-72). *)
DeniedByAnotherUser ==
    \A i \in Calls :
        CallAt(i, "denied") =>
            /\ call[i].base = "dback"
            /\ owner[BasePlace(i)] \in Users \ {call[i].user}
============================================================================
