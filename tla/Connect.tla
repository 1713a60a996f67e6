------------------------------ MODULE Connect ------------------------------
(***************************************************************************)
(* Connections: a client is dialled, directly or through a jump host, with  *)
(* three attempts at each of its layers; a host key is looked up in the     *)
(* known-hosts file as it was when the client was configured, and saved     *)
(* there when the host has none.  The user of a client that is modelled     *)
(* here is the connection test of the host editor, a goroutine per test     *)
(* that reports into one record of the window.                              *)
(*                                                                          *)
(* A dial does not look at the context; a watcher closes the client under a *)
(* command when the context ends.  A peer need not answer, ever.            *)
(***************************************************************************)
EXTENDS Integers

CONSTANTS
    Tests,       \* goroutines of connection tests
    Paths,       \* the types of hosts tested
    MaxAttempts, \* attempts at each layer of a dial, 3 in the code
    KnownFiles   \* the known-hosts files there may be at first

ASSUME PathsAssumption == Paths \subseteq {"direct", "jump", "local", "wordpress"}
ASSUME AttemptsAssumption == MaxAttempts \in Nat \ {0}

VARIABLES
    known,   \* the known-hosts file: <<host, key>>, or Absent
    test,    \* the goroutines
    report,  \* UI.hostConnTest
    dialog   \* the window shows it

vars == <<known, test, report, dialog>>

Absent == {<<"no", "file">>}
Hosts  == {"jump", "target"}
Key    == "key"   \* what every host presents

ASSUME KnownAssumption ==
    KnownFiles \subseteq (SUBSET (Hosts \X {Key, "old"})) \cup {Absent}

Idle == [at |-> "idle", path |-> "local", stage |-> "server", ctx |-> "live",
         attempt |-> 1, hop |-> "target", open |-> {},
         trusted |-> [h \in Hosts |-> {}], err |-> "none"]

Init == /\ known \in KnownFiles
        /\ test = [t \in Tests |-> Idle]
        /\ report = [running |-> FALSE, owner |-> "none",
                     server |-> "pending", database |-> "pending"]
        /\ dialog = FALSE

At(t, l)    == test[t].at = l
Step(t, x)  == test' = [test EXCEPT ![t] = x]
Jumps(t)    == test[t].path = "jump"
Dials(t)    == test[t].path \in {"direct", "jump"}
InTunnel(t) == Jumps(t) /\ test[t].hop = "target"
screen      == <<report, dialog>>

Closed(r, conns) == [r EXCEPT !.open = @ \ conns]

(* An error, or none, is returned; what is open stays so. *)
Outcome(r, err) == [Idle EXCEPT !.at = "write", !.path = r.path, !.stage = r.stage,
                                !.ctx = r.ctx, !.open = r.open, !.err = err]

Failed(r) == Outcome(r, "failed")

(* A plausible mistake: the jump host is forgotten when there is no tunnel. *)
TunnelForgotten(r) == Failed(r)

(* newJumpClient has no connection to the target: it closes the client of the
   jump host ... *)
NoTunnel(r) == Failed(Closed(r, {"jump"}))

(* ... or has one without a handshake, and closes both. *)
NoTarget(r) == Failed(Closed(Closed(r, {"target"}), {"jump"}))

(* Client.Close; the second time it does nothing. *)
ClientClosed(r) ==
    LET own == Closed(r, {"target"}) IN
    IF r.path = "jump" THEN Closed(own, {"jump"}) ELSE own

(* withExecutor returns: the context's error first, the client closed after. *)
Returned(r, err) ==
    Outcome(ClientClosed(r), IF r.ctx = "live" THEN err ELSE r.ctx)

----------------------------------------------------------------------------
(* The window. *)

StartTest(t) ==
    /\ At(t, "idle") /\ ~dialog
    /\ \E p \in Paths : Step(t, [Idle EXCEPT !.at = "begin", !.path = p])
    /\ report' = [running |-> TRUE, owner |-> t,
                  server |-> "running", database |-> "pending"]
    /\ dialog' = TRUE
    /\ UNCHANGED known

(* Cancel does not wait for the goroutine. *)
Cancel ==
    /\ dialog /\ report.running
    /\ LET r == test[report.owner] IN
       Step(report.owner, [r EXCEPT !.ctx = IF @ = "live" THEN "canceled" ELSE @])
    /\ report' = [report EXCEPT !.running = FALSE]
    /\ dialog' = FALSE
    /\ UNCHANGED known

CloseReport ==
    /\ dialog /\ ~report.running
    /\ dialog' = FALSE
    /\ UNCHANGED <<known, test, report>>

(* The 30 seconds of the context are over. *)
Deadline(t) ==
    /\ test[t].at \notin {"idle", "ended"} /\ test[t].ctx = "live"
    /\ Step(t, [test[t] EXCEPT !.ctx = "deadline"])
    /\ UNCHANGED <<known, screen>>

----------------------------------------------------------------------------
(* withExecutor, NewExecutor and sshConfig. *)

(* The test of the database first checks the profile; a WordPress client is
   made without a connection, a client for this machine does nothing. *)
Begin(t) ==
    /\ At(t, "begin")
    /\ LET r == test[t] IN
       \/ /\ r.stage = "database" \/ r.path = "wordpress" \/ (Dials(t) /\ r.ctx = "live")
          /\ Step(t, Failed(r))
       \/ r.ctx # "live" /\ Step(t, Outcome(r, r.ctx))
       \/ r.ctx = "live"
          /\ Step(t, [r EXCEPT !.at = IF Dials(t) THEN "stat" ELSE "command"])
    /\ UNCHANGED <<known, screen>>

(* hostKeyCallback: is there a file? *)
Stat(t) ==
    /\ At(t, "stat")
    /\ Step(t, [test[t] EXCEPT !.at = IF known = Absent THEN "create" ELSE "load"])
    /\ UNCHANGED <<known, screen>>

(* ... if not, write an empty one over whatever is there by now. *)
Create(t) ==
    /\ At(t, "create")
    /\ known' = {}
    /\ Step(t, [test[t] EXCEPT !.at = "load"])
    /\ UNCHANGED screen

KeysOf(h) == {e[2] : e \in {f \in known : f[1] = h}}

(* The configuration of the target, then that of the jump host. *)
Load(t) ==
    /\ At(t, "load")
    /\ LET r == test[t]
           loaded == [r EXCEPT !.trusted[r.hop] = KeysOf(r.hop)] IN
       Step(t, IF Jumps(t) /\ r.hop = "target" THEN [loaded EXCEPT !.hop = "jump"]
               ELSE [loaded EXCEPT !.at = "dial"])
    /\ UNCHANGED <<known, screen>>

----------------------------------------------------------------------------
(* dialSSH, dialThroughJump and handshakeTarget, one attempt at a time. *)

(* A plausible mistake: the attempts are counted from zero. *)
RetryOnceMore(t, again, failed) ==
    \/ test[t].attempt <= MaxAttempts
       /\ Step(t, [again EXCEPT !.attempt = @ + 1])
    \/ Step(t, failed)

(* An attempt fails: another one, or the end of the dial. *)
Retry(t, again, failed) ==
    \/ test[t].attempt < MaxAttempts
       /\ Step(t, [again EXCEPT !.attempt = @ + 1])
    \/ Step(t, failed)

(* dialTCP. *)
DialTCP(t) ==
    /\ At(t, "dial")
    /\ LET r == test[t] IN
       \/ Step(t, [r EXCEPT !.at = "hostkey", !.open = @ \cup {r.hop}])
       \/ Retry(t, r, Failed(r))
    /\ UNCHANGED <<known, screen>>

(* jumpClient.Dial. *)
DialTunnel(t) ==
    /\ At(t, "tunnel")
    /\ LET r == test[t] IN
       \/ Step(t, [r EXCEPT !.at = "hostkey", !.attempt = 1,
                            !.open = @ \cup {"target"}])
       \/ Retry(t, r, NoTunnel(r))
    /\ UNCHANGED <<known, screen>>

(* NewClientConn closes the connection whose handshake fails. *)
Broken(r) == Closed(r, {r.hop})

(* A plausible mistake: each attempt at the target is over a connection that
   works, and its end closes that. *)
HandshakeFailsSoftly(t) ==
    LET r == test[t]
        c == Closed(r, {r.hop}) IN
    \/ InTunnel(t) /\ Retry(t, [r EXCEPT !.at = "hostkey"], NoTarget(r))
    \/ ~InTunnel(t) /\ Retry(t, [c EXCEPT !.at = "dial"], Failed(c))

(* dialSSH closes it once more, and dials again; handshakeTarget shakes hands on
   the same connection. *)
HandshakeFails(t) ==
    LET r == Broken(test[t]) IN
    \/ InTunnel(t) /\ Retry(t, [r EXCEPT !.at = "hostkey"], NoTarget(r))
    \/ /\ ~InTunnel(t)
       /\ LET c == Closed(r, {r.hop}) IN
          Retry(t, [c EXCEPT !.at = "dial"], Failed(c))

(* The host key callback: a key that was on file is checked, the first key of a
   host appended; a save that fails fails the handshake, a key that differs
   from those on file too, without a retry. *)
HostKey(t) ==
    /\ At(t, "hostkey")
    /\ LET r == test[t] IN
       \/ HandshakeFails(t) /\ UNCHANGED known
       \/ /\ r.hop \in r.open
          /\ \/ Key \in r.trusted[r.hop] /\ UNCHANGED known
             \/ r.trusted[r.hop] = {} /\ known' = known \cup {<<r.hop, Key>>}
          /\ Step(t, [r EXCEPT !.at = "auth"])
    /\ UNCHANGED screen

(* The client of the jump host is there, or that of the target. *)
Auth(t) ==
    /\ At(t, "auth")
    /\ \/ HandshakeFails(t)
       \/ Step(t, IF test[t].hop = "jump"
                  THEN [test[t] EXCEPT !.at = "tunnel", !.hop = "target", !.attempt = 1]
                  ELSE [test[t] EXCEPT !.at = "command",
                                       !.trusted = Idle.trusted])
    /\ UNCHANGED <<known, screen>>

----------------------------------------------------------------------------
(* The command runs: an echo, a query, or a request to the plugin.  It may
   never answer. *)
Answered(t) ==
    /\ At(t, "command")
    /\ Dials(t) => test[t].open # {}
    /\ \E err \in {"none", "failed"} : Step(t, Returned(test[t], err))
    /\ UNCHANGED <<known, screen>>

(* A plausible mistake: only the deadline closes the client. *)
WatchDeadline(t) ==
    /\ At(t, "command") /\ test[t].ctx = "deadline"
    /\ Dials(t) /\ test[t].open # {}
    /\ Step(t, ClientClosed(test[t]))
    /\ UNCHANGED <<known, screen>>

(* The watcher of withExecutor. *)
Watch(t) ==
    /\ At(t, "command") /\ test[t].ctx # "live"
    /\ Dials(t) /\ test[t].open # {}
    /\ Step(t, ClientClosed(test[t]))
    /\ UNCHANGED <<known, screen>>

(* A command whose client is closed fails, a request ends with its context. *)
Interrupted(t) ==
    /\ At(t, "command") /\ test[t].ctx # "live"
    /\ \/ Dials(t) /\ test[t].open = {}
       \/ test[t].path = "wordpress"
    /\ Step(t, Returned(test[t], "failed"))
    /\ UNCHANGED <<known, screen>>

----------------------------------------------------------------------------
(* runHostConnectionTest takes the error of a stage. *)

Stops(t) == [Idle EXCEPT !.at = "ended", !.open = test[t].open]

Written(t, silent) ==
    LET r == test[t]
        s == r.stage IN
    \/ /\ r.err \in silent
       /\ Step(t, Stops(t)) /\ UNCHANGED report
    \/ /\ r.err \notin silent \cup {"none"}
       /\ Step(t, Stops(t))
       /\ report' = [report EXCEPT ![s] = "failed", !.running = FALSE]
    \/ /\ r.err = "none" /\ s = "server"
       /\ Step(t, [Idle EXCEPT !.at = "begin", !.path = r.path, !.ctx = r.ctx,
                               !.stage = "database", !.open = r.open])
       /\ report' = [report EXCEPT !.server = "ok", !.database = "running"]
    \/ /\ r.err = "none" /\ s = "database"
       /\ Step(t, Stops(t))
       /\ report' = [report EXCEPT !.database = "ok", !.running = FALSE]

(* A plausible mistake: any end of the context is taken for the Cancel button. *)
WriteUnlessDone(t) ==
    /\ At(t, "write")
    /\ Written(t, {"canceled", "deadline"})
    /\ UNCHANGED <<known, dialog>>

(* After the Cancel button nothing is written, unless the error was that of the
   dial; the record may be that of a later test. *)
Write(t) ==
    /\ At(t, "write")
    /\ Written(t, {"canceled"})
    /\ UNCHANGED <<known, dialog>>

----------------------------------------------------------------------------
Dial(t) == \/ Begin(t) \/ Stat(t) \/ Create(t) \/ Load(t)
           \/ DialTCP(t) \/ DialTunnel(t) \/ HostKey(t) \/ Auth(t)

Next == \/ Cancel \/ CloseReport
        \/ \E t \in Tests : \/ StartTest(t) \/ Deadline(t)
                            \/ Dial(t)
                            \/ Answered(t) \/ Watch(t) \/ Interrupted(t)
                            \/ Write(t)

Spec == Init /\ [][Next]_vars

(* This machine goes on; a peer owes no answer, and a dial need not end. *)
FairSpec == /\ Spec
            /\ \A t \in Tests : WF_vars(Watch(t)) /\ WF_vars(Interrupted(t))

----------------------------------------------------------------------------
Statuses == {"pending", "running", "ok", "failed"}

TypeOK ==
    /\ known \in (SUBSET (Hosts \X {Key, "old"})) \cup {Absent}
    /\ \A t \in Tests :
          /\ test[t].at \in {"idle", "begin", "stat", "create", "load", "dial",
                             "tunnel", "hostkey", "auth", "command", "write",
                             "ended"}
          /\ test[t].attempt \in 1..MaxAttempts
          /\ test[t].open \subseteq Hosts
          /\ test[t].trusted \in [Hosts -> SUBSET {Key, "old"}]
    /\ report \in [running : BOOLEAN, owner : Tests \cup {"none"},
                   server : Statuses, database : Statuses]
    /\ dialog \in BOOLEAN

(* No way out of a dial or of a command leaves a connection open
   (client.go:180-220, connectiontest.go:114-132). *)
NothingLeftOpen ==
    \A t \in Tests : test[t].at \in {"begin", "write", "ended"} => test[t].open = {}

(* The retries of the handshake behind a jump host are in vain: a client that
   is there was there at the first attempt (client.go:246-272). *)
RetriedHandshakeFails ==
    \A t \in Tests : Jumps(t) /\ At(t, "command") => test[t].attempt = 1

(* A report that says a test is running has a goroutine that will say how it
   ended, whatever earlier tests still do (host_connection.go:39-91). *)
RunningIsAlive ==
    report.running => test[report.owner].at # "ended"

(* A command whose context has ended ends, however long the server takes to
   answer (connectiontest.go:117-125). *)
CancelEndsCommand ==
    \A t \in Tests :
        At(t, "command") /\ test[t].ctx # "live" /\ test[t].path # "local"
        ~> ~At(t, "command")
============================================================================
