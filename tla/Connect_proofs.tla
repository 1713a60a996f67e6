--------------------------- MODULE Connect_proofs ---------------------------
(***************************************************************************)
(* Proofs about Connect, for any tests, types of hosts, numbers of attempts *)
(* and first known-hosts files; and about Preflight, which runs over a      *)
(* connection that has been made, for any calls, users and servers.         *)
(***************************************************************************)
EXTENDS Connect, Preflight, TLAPS

Points == {"idle", "begin", "stat", "create", "load", "dial", "tunnel",
           "hostkey", "auth", "command", "write", "ended"}
Ends   == {"live", "canceled", "deadline"}

Records == [at : Points, path : {"direct", "jump", "local", "wordpress"},
            stage : {"server", "database"}, ctx : Ends,
            attempt : 1..MaxAttempts, hop : Hosts, open : SUBSET Hosts,
            trusted : [Hosts -> SUBSET {Key, "old"}],
            err : {"none", "failed", "canceled", "deadline"}]

(* Behind a jump host, only the first handshake is over a connection that
   works. *)
FirstShake(r) ==
    r.path = "jump" =>
        /\ r.at = "dial" => r.hop = "jump"
        /\ r.at = "tunnel" => r.hop = "target"
        /\ r.at = "hostkey" /\ r.hop = "target" =>
             "target" \notin r.open \/ r.attempt = 1
        /\ r.at = "auth" /\ r.hop = "target" => r.attempt = 1
        /\ r.at = "command" => r.attempt = 1

(* What is open at most, so that what each way out closes is all of it. *)
Unclosed(r) ==
    /\ r.at \notin {"tunnel", "hostkey", "auth", "command"} => r.open = {}
    /\ r.at = "tunnel" => r.open \subseteq {"jump"}
    /\ r.at \in {"hostkey", "auth"} /\ ~(r.path = "jump" /\ r.hop = "target") =>
          r.open \subseteq {r.hop}
    /\ r.path # "jump" => r.hop = "target" /\ r.open \subseteq {"target"}

(* A goroutine whose record is r. *)
Good(r) ==
    /\ r \in Records
    /\ Unclosed(r)
    /\ r.at = "write" /\ r.err = "canceled" => r.ctx = "canceled"
    /\ FirstShake(r)

Files  == (SUBSET (Hosts \X {Key, "old"})) \cup {Absent}
Loaded == {"load", "dial", "tunnel", "hostkey", "auth"}

(* A report that is running has an owner, whose context the Cancel button has
   not ended. *)
Owned ==
    /\ report \in [running : BOOLEAN, owner : Tests \cup {"none"},
                   server : Statuses, database : Statuses]
    /\ report.running => /\ report.owner \in Tests
                         /\ test[report.owner].at # "ended"
                         /\ test[report.owner].ctx # "canceled"

Inv == /\ known \in Files
       /\ test \in [Tests -> Records]
       /\ \A t \in Tests : Good(test[t])
       /\ \A t \in Tests : test[t].at \in Loaded => known # Absent
       /\ Owned
       /\ dialog \in BOOLEAN

----------------------------------------------------------------------------
LEMMA IdleGood == Good(Idle) /\ Idle.at \notin Loaded
BY AttemptsAssumption
   DEF Good, Idle, Records, Points, Ends, Hosts, FirstShake, Unclosed, Loaded

LEMMA InitInv == Init => Inv
<1> SUFFICES ASSUME Init PROVE Inv  OBVIOUS
<1>1. known \in Files  BY KnownAssumption DEF Init, Files
<1>2. \A t \in Tests : test[t] = Idle  BY DEF Init
<1>3. test \in [Tests -> Records]  BY IdleGood DEF Init, Good
<1>4. Owned  BY DEF Init, Owned, Statuses
<1> QED  BY <1>1, <1>2, <1>3, <1>4, IdleGood DEF Init, Inv

(* What a step of one goroutine does to the others. *)
LEMMA StepFacts ==
    ASSUME Inv, NEW t \in Tests, NEW x, Good(x), Step(t, x)
    PROVE  /\ test' \in [Tests -> Records]
           /\ test'[t] = x
           /\ \A s \in Tests \ {t} : test'[s] = test[s]
           /\ \A s \in Tests : Good(test'[s])
<1>1. test' = [test EXCEPT ![t] = x]  BY DEF Step
<1>2. x \in Records /\ test \in [Tests -> Records]  BY DEF Inv, Good
<1>3. test' \in [Tests -> Records] /\ test'[t] = x
  BY <1>1, <1>2
<1>4. \A s \in Tests \ {t} : test'[s] = test[s]  BY <1>1, <1>2
<1> QED  BY <1>3, <1>4 DEF Inv

(* A step that does not end the goroutine and leaves the window alone. *)
LEMMA GoesOn ==
    ASSUME Inv, NEW t \in Tests, NEW x, Good(x), Step(t, x), UNCHANGED screen,
           x.at # "ended",
           x.ctx = "canceled" => test[t].ctx = "canceled",
           known' \in Files, known # Absent => known' # Absent,
           x.at \in Loaded => known' # Absent
    PROVE  Inv'
<1>1. /\ test' \in [Tests -> Records]
      /\ test'[t] = x
      /\ \A s \in Tests \ {t} : test'[s] = test[s]
      /\ \A s \in Tests : Good(test'[s])
  BY StepFacts
<1>2. \A s \in Tests : test'[s].at \in Loaded => known' # Absent
  BY <1>1 DEF Inv
<1>3. report' = report /\ dialog' = dialog  BY DEF screen
<1>4. Owned'  BY <1>1, <1>3 DEF Inv, Owned
<1> QED  BY <1>1, <1>2, <1>3, <1>4 DEF Inv

(* What a close leaves. *)
LEMMA ClosedFacts ==
    ASSUME NEW r \in Records, NEW conns
    PROVE  /\ Closed(r, conns) \in Records
           /\ Closed(r, conns).open = r.open \ conns
           /\ Closed(r, conns).at = r.at /\ Closed(r, conns).ctx = r.ctx
           /\ Closed(r, conns).path = r.path /\ Closed(r, conns).hop = r.hop
           /\ Closed(r, conns).attempt = r.attempt
           /\ Closed(r, conns).stage = r.stage /\ Closed(r, conns).err = r.err
BY DEF Closed, Records

(* The outcome of a dial or a command that has closed everything. *)
LEMMA OutcomeGood ==
    ASSUME NEW r \in Records, r.open = {},
           r.path # "jump" => r.hop = "target",
           NEW e \in {"none", "failed", "canceled", "deadline"},
           e = "canceled" => r.ctx = "canceled"
    PROVE  /\ Good(Outcome(r, e))
           /\ Outcome(r, e).at = "write"
           /\ Outcome(r, e).ctx = r.ctx
<1>1. /\ Outcome(r, e).at = "write" /\ Outcome(r, e).open = {}
      /\ Outcome(r, e).ctx = r.ctx /\ Outcome(r, e).err = e
      /\ Outcome(r, e).path = r.path /\ Outcome(r, e).hop = "target"
  BY DEF Outcome, Idle
<1>2. Outcome(r, e) \in Records
  <2>1. /\ Idle \in Records
        /\ r.path \in {"direct", "jump", "local", "wordpress"}
        /\ r.stage \in {"server", "database"}
        /\ r.ctx \in Ends /\ r.open \in SUBSET Hosts
    BY IdleGood DEF Good, Records
  <2>2. Outcome(r, e) = [Idle EXCEPT !.at = "write", !.path = r.path,
                                     !.stage = r.stage, !.ctx = r.ctx,
                                     !.open = r.open, !.err = e]
    BY DEF Outcome
  <2> HIDE DEF Idle
  <2> QED  BY <2>1, <2>2, ZenonT(60) DEF Records, Points
<1> QED  BY <1>1, <1>2 DEF Good, FirstShake, Unclosed

LEMMA FailedGood ==
    ASSUME NEW r \in Records, r.open = {}, r.path # "jump" => r.hop = "target"
    PROVE  Good(Failed(r)) /\ Failed(r).at = "write" /\ Failed(r).ctx = r.ctx
BY OutcomeGood DEF Failed

(* The ways out of newJumpClient. *)
LEMMA NoTunnelGood ==
    ASSUME NEW r, Good(r), r.at = "tunnel"
    PROVE  /\ Good(NoTunnel(r)) /\ NoTunnel(r).at = "write"
           /\ NoTunnel(r).ctx = r.ctx
<1>1. r \in Records /\ r.open \subseteq {"jump"}  BY DEF Good, Unclosed
<1>2. PICK c : c = Closed(r, {"jump"})  OBVIOUS
<1>3. c \in Records /\ c.open = {} /\ c.ctx = r.ctx /\ c.path = r.path /\ c.hop = r.hop
  BY <1>1, <1>2, ClosedFacts
<1> QED  BY <1>2, <1>3, FailedGood DEF NoTunnel, Good, Unclosed

LEMMA NoTargetGood ==
    ASSUME NEW r \in Records, r.path = "jump"
    PROVE  /\ Good(NoTarget(r)) /\ NoTarget(r).at = "write"
           /\ NoTarget(r).ctx = r.ctx
<1>1. PICK b : b = Closed(r, {"target"})  OBVIOUS
<1>2. PICK c : c = Closed(b, {"jump"})  OBVIOUS
<1>3. b \in Records /\ b.open \subseteq {"jump"} /\ b.ctx = r.ctx /\ b.path = r.path
  BY <1>1, ClosedFacts DEF Records, Hosts
<1>4. c \in Records /\ c.open = {} /\ c.ctx = r.ctx /\ c.path = r.path
  BY <1>2, <1>3, ClosedFacts
<1> QED  BY <1>1, <1>2, <1>4, FailedGood DEF NoTarget

(* Client.Close is the end of all a client has opened. *)
LEMMA ClientClosedFacts ==
    ASSUME NEW r, Good(r)
    PROVE  /\ ClientClosed(r) \in Records /\ ClientClosed(r).open = {}
           /\ ClientClosed(r).at = r.at /\ ClientClosed(r).ctx = r.ctx
           /\ ClientClosed(r).path = r.path /\ ClientClosed(r).hop = r.hop
           /\ ClientClosed(r).attempt = r.attempt
           /\ ClientClosed(r).err = r.err
<1>1. r \in Records /\ r.open \in SUBSET {"jump", "target"}
  BY DEF Good, Records, Hosts
<1>2. PICK b : b = Closed(r, {"target"})  OBVIOUS
<1>3. /\ b \in Records /\ b.open = r.open \ {"target"}
      /\ b.at = r.at /\ b.ctx = r.ctx /\ b.path = r.path /\ b.hop = r.hop
      /\ b.attempt = r.attempt /\ b.err = r.err
  BY <1>1, <1>2, ClosedFacts
<1>4. CASE r.path = "jump"
  <2>1. ClientClosed(r) = Closed(b, {"jump"})  BY <1>2, <1>4 DEF ClientClosed
  <2>2. b.open \ {"jump"} = {}  BY <1>1, <1>3
  <2> QED  BY <1>3, <2>1, <2>2, ClosedFacts
<1>5. CASE r.path # "jump"
  <2>1. ClientClosed(r) = b  BY <1>2, <1>5 DEF ClientClosed
  <2>2. r.open \subseteq {"target"}  BY <1>5 DEF Good, Unclosed
  <2> QED  BY <1>3, <2>1, <2>2
<1> QED  BY <1>4, <1>5

LEMMA ReturnedGood ==
    ASSUME NEW r, Good(r), NEW e \in {"none", "failed"}
    PROVE  Good(Returned(r, e)) /\ Returned(r, e).at = "write" /\ Returned(r, e).ctx = r.ctx
<1>1. PICK f : f = IF r.ctx = "live" THEN e ELSE r.ctx  OBVIOUS
<1>2. PICK c : c = ClientClosed(r)  OBVIOUS
<1>3. /\ c \in Records /\ c.open = {} /\ c.ctx = r.ctx
      /\ c.path = r.path /\ c.hop = r.hop
  BY <1>2, ClientClosedFacts
<1>4. f \in {"none", "failed", "canceled", "deadline"}
  BY <1>1 DEF Good, Records, Ends
<1>5. f = "canceled" => c.ctx = "canceled"  BY <1>1, <1>3
<1>6. c.path # "jump" => c.hop = "target"  BY <1>3 DEF Good, Unclosed
<1>7. Returned(r, e) = Outcome(c, f)  BY <1>1, <1>2 DEF Returned
<1> QED  BY <1>3, <1>4, <1>5, <1>6, <1>7, OutcomeGood

----------------------------------------------------------------------------
(* One lemma per action. *)

LEMMA BeginInv == ASSUME Inv, NEW t \in Tests, Begin(t) PROVE Inv'
<1> DEFINE r == test[t]
<1>1. Good(r) /\ r.at = "begin" /\ UNCHANGED <<known, screen>>
  BY DEF Begin, At, Inv
<1>0. /\ r \in Records /\ r.open = {}
      /\ r.path # "jump" => r.hop = "target"
  BY <1>1 DEF Good, Unclosed
<1>2. CASE Step(t, Failed(r))
  BY <1>0, <1>1, <1>2, FailedGood, GoesOn DEF Inv, Loaded
<1>3. CASE Step(t, Outcome(r, r.ctx)) /\ r.ctx # "live"
  <2>1. r.ctx \in {"none", "failed", "canceled", "deadline"}
    BY <1>0, <1>3 DEF Records, Ends
  <2> QED  BY <1>0, <1>1, <1>3, <2>1, OutcomeGood, GoesOn DEF Inv, Loaded
<1>4. ASSUME Step(t, [r EXCEPT !.at = IF Dials(t) THEN "stat" ELSE "command"])
      PROVE  Inv'
  <2> DEFINE x == [r EXCEPT !.at = IF Dials(t) THEN "stat" ELSE "command"]
  <2>1. /\ x \in Records /\ x.at \in {"stat", "command"} /\ x.ctx = r.ctx
        /\ x.open = {} /\ x.path = r.path /\ x.hop = r.hop
    BY <1>0, <1>1 DEF Records, Points
  <2>2. x.path = "jump" => x.at = "stat"
    BY <1>1 DEF Dials, Good, Records
  <2>3. Good(x)
    <3> HIDE DEF x
    <3> QED  BY <1>0, <2>1, <2>2 DEF Good, FirstShake, Unclosed
  <2> QED  BY <1>1, <1>4, <2>1, <2>3, GoesOn DEF Inv, Loaded
<1> QED  BY <1>2, <1>3, <1>4 DEF Begin

LEMMA StatInv == ASSUME Inv, NEW t \in Tests, Stat(t) PROVE Inv'
<1> DEFINE r == test[t]
           x == [r EXCEPT !.at = IF known = Absent THEN "create" ELSE "load"]
<1>1. Good(r) /\ r.at = "stat" /\ Step(t, x) /\ UNCHANGED <<known, screen>>
  BY DEF Stat, At, Inv
<1>2. /\ x \in Records /\ x.ctx = r.ctx
      /\ x.open = r.open /\ x.path = r.path /\ x.hop = r.hop
      /\ x.at = IF known = Absent THEN "create" ELSE "load"
  BY <1>1 DEF Good, Records, Points
<1>3. Good(x)
  <2> HIDE DEF x
  <2> QED  BY <1>1, <1>2 DEF Good, FirstShake, Unclosed
<1>4. known \in Files  BY DEF Inv
<1> HIDE DEF x
<1> QED  BY <1>1, <1>2, <1>3, <1>4, GoesOn DEF Loaded

LEMMA CreateInv == ASSUME Inv, NEW t \in Tests, Create(t) PROVE Inv'
<1> DEFINE r == test[t]
           x == [r EXCEPT !.at = "load"]
<1>1. Good(r) /\ r.at = "create" /\ Step(t, x) /\ known' = {} /\ UNCHANGED screen
  BY DEF Create, At, Inv
<1>2. /\ x \in Records /\ x.ctx = r.ctx /\ x.at = "load"
      /\ x.open = r.open /\ x.path = r.path /\ x.hop = r.hop
  BY <1>1 DEF Good, Records, Points
<1>3. Good(x)
  <2> HIDE DEF x
  <2> QED  BY <1>1, <1>2 DEF Good, FirstShake, Unclosed
<1>4. known' \in Files /\ known' # Absent  BY <1>1 DEF Files, Absent
<1> QED  BY <1>1, <1>2, <1>3, <1>4, GoesOn

LEMMA LoadInv == ASSUME Inv, NEW t \in Tests, Load(t) PROVE Inv'
<1> DEFINE r == test[t]
           loaded == [r EXCEPT !.trusted[r.hop] = KeysOf(r.hop)]
           x == IF Jumps(t) /\ r.hop = "target" THEN [loaded EXCEPT !.hop = "jump"]
                ELSE [loaded EXCEPT !.at = "dial"]
<1>1. Good(r) /\ r.at = "load" /\ Step(t, x) /\ UNCHANGED <<known, screen>> /\ known # Absent
  BY DEF Load, At, Inv, Loaded
<1>2. KeysOf(r.hop) \in SUBSET {Key, "old"}
  <2>1. known \in SUBSET (Hosts \X {Key, "old"})  BY <1>1 DEF Inv, Files
  <2>2. \A f \in known : f[2] \in {Key, "old"}  BY <2>1
  <2> QED  BY <2>2 DEF KeysOf
<1>3. loaded \in Records /\ loaded.ctx = r.ctx /\ loaded.at = "load"
      /\ loaded.hop = r.hop /\ loaded.path = r.path /\ loaded.open = r.open
  <2>1. r.trusted \in [Hosts -> SUBSET {Key, "old"}]  BY <1>1 DEF Good, Records
  <2>2. [r.trusted EXCEPT ![r.hop] = KeysOf(r.hop)] \in [Hosts -> SUBSET {Key, "old"}]
    BY <2>1, <1>2
  <2>3. loaded = [r EXCEPT !.trusted = [r.trusted EXCEPT ![r.hop] = KeysOf(r.hop)]]
    BY <1>1 DEF Good, Records
  <2> HIDE DEF loaded
  <2> QED  BY <1>1, <2>2, <2>3 DEF Good, Records, Points
<1>4. /\ x \in Records /\ x.ctx = r.ctx /\ x.path = r.path /\ x.open = r.open
      /\ \/ x.at = "load" /\ Jumps(t)
         \/ x.at = "dial" /\ x.hop = r.hop /\ ~(Jumps(t) /\ r.hop = "target")
  <2> HIDE DEF loaded
  <2> QED  BY <1>3 DEF Records, Points, Hosts
<1>5. Good(x)
  <2>1. r.hop \in Hosts /\ (Jumps(t) <=> r.path = "jump")  BY <1>1 DEF Good, Records, Jumps
  <2> HIDE DEF x
  <2> QED  BY <1>1, <1>4, <2>1 DEF Good, FirstShake, Unclosed, Hosts
<1> HIDE DEF x
<1> QED  BY <1>1, <1>4, <1>5, GoesOn DEF Inv, Loaded

(* Another attempt, or the end of the dial. *)
LEMMA RetryInv ==
    ASSUME Inv, NEW t \in Tests, test[t].at \in Loaded,
           NEW again \in Records, NEW failed, Retry(t, again, failed),
           again.at \in {"dial", "tunnel", "hostkey"},
           again.ctx = test[t].ctx, again.attempt = test[t].attempt,
           again.path = "jump" =>
               /\ again.at = "dial" => again.hop = "jump"
               /\ again.at = "tunnel" => again.hop = "target"
               /\ again.at = "hostkey" /\ again.hop = "target" =>
                    "target" \notin again.open,
           Unclosed(again),
           Good(failed), failed.at = "write", failed.ctx = test[t].ctx,
           UNCHANGED <<known, screen>>
    PROVE  Inv'
<1> DEFINE r == test[t]
           x == [again EXCEPT !.attempt = @ + 1]
<1>1. Good(r) /\ known # Absent /\ known \in Files  BY DEF Inv
<1>2. CASE Step(t, failed)
  BY <1>1, <1>2, GoesOn DEF Loaded
<1>3. CASE r.attempt < MaxAttempts /\ Step(t, x)
  <2>1. r.attempt \in 1..MaxAttempts  BY <1>1 DEF Good, Records
  <2>2. again.attempt + 1 \in 1..MaxAttempts  BY <2>1, <1>3, AttemptsAssumption
  <2>3. /\ x \in Records /\ x.at = again.at /\ x.ctx = again.ctx /\ x.path = again.path
        /\ x.hop = again.hop /\ x.open = again.open
    BY <2>2 DEF Records
  <2>4. Good(x)
    <3> HIDE DEF x
    <3> QED  BY <2>3 DEF Good, FirstShake, Unclosed
  <2> HIDE DEF x
  <2> QED  BY <1>1, <1>3, <2>3, <2>4, GoesOn
<1> QED  BY <1>2, <1>3 DEF Retry

LEMMA HandshakeFailsInv ==
    ASSUME Inv, NEW t \in Tests, test[t].at \in {"hostkey", "auth"},
           HandshakeFails(t), UNCHANGED <<known, screen>>
    PROVE  Inv'
<1>1. PICK r : r = test[t]  OBVIOUS
<1>2. Good(r) /\ r \in Records /\ r.at \in {"hostkey", "auth"} /\ r.at \in Loaded
  BY <1>1 DEF Inv, Good, Loaded
<1>3. PICK b : b = Broken(r)  OBVIOUS
<1>4. /\ b \in Records /\ b.open = r.open \ {r.hop} /\ b.ctx = r.ctx
      /\ b.path = r.path /\ b.hop = r.hop /\ b.attempt = r.attempt
  BY <1>2, <1>3, ClosedFacts DEF Broken
<1>5. InTunnel(t) <=> r.path = "jump" /\ r.hop = "target"
  BY <1>1 DEF InTunnel, Jumps
<1>6. CASE InTunnel(t)
  <2>1. PICK a : a = [b EXCEPT !.at = "hostkey"]  OBVIOUS
  <2>2. /\ a \in Records /\ a.at = "hostkey" /\ a.open = b.open /\ a.ctx = r.ctx
        /\ a.path = r.path /\ a.hop = r.hop /\ a.attempt = r.attempt
    BY <1>4, <2>1 DEF Records, Points
  <2>3. Unclosed(a) /\ "target" \notin a.open
    BY <1>4, <1>5, <1>6, <2>2 DEF Unclosed
  <2>4. Good(NoTarget(b)) /\ NoTarget(b).at = "write" /\ NoTarget(b).ctx = r.ctx
    BY <1>4, <1>5, <1>6, NoTargetGood
  <2>5. Retry(t, a, NoTarget(b))
    BY <1>1, <1>3, <1>6, <2>1 DEF HandshakeFails
  <2> QED  BY <1>1, <1>2, <2>2, <2>3, <2>4, <2>5, RetryInv
<1>7. CASE ~InTunnel(t)
  <2>1. PICK c : c = Closed(b, {b.hop})  OBVIOUS
  <2>2. PICK a : a = [c EXCEPT !.at = "dial"]  OBVIOUS
  <2>3. r.open \subseteq {r.hop} /\ (r.path # "jump" => r.hop = "target")
    BY <1>2, <1>5, <1>7 DEF Good, Unclosed
  <2>4. /\ c \in Records /\ c.open = {} /\ c.ctx = r.ctx
        /\ c.path = r.path /\ c.hop = r.hop /\ c.attempt = r.attempt
    BY <1>4, <2>1, <2>3, ClosedFacts
  <2>5. /\ a \in Records /\ a.at = "dial" /\ a.open = {} /\ a.ctx = r.ctx
        /\ a.path = r.path /\ a.hop = r.hop /\ a.attempt = r.attempt
    BY <2>2, <2>4 DEF Records, Points
  <2>6. Unclosed(a)  BY <2>3, <2>5 DEF Unclosed
  <2>7. r.path = "jump" => r.hop = "jump"
    BY <1>2, <1>5, <1>7 DEF Records, Hosts
  <2>8. Good(Failed(c)) /\ Failed(c).at = "write" /\ Failed(c).ctx = r.ctx
    BY <2>3, <2>4, FailedGood
  <2>9. Retry(t, a, Failed(c))
    BY <1>1, <1>3, <1>7, <2>1, <2>2 DEF HandshakeFails
  <2> QED  BY <1>1, <1>2, <2>5, <2>6, <2>7, <2>8, <2>9, RetryInv
<1> QED  BY <1>6, <1>7

LEMMA DialTCPInv == ASSUME Inv, NEW t \in Tests, DialTCP(t) PROVE Inv'
<1>0. PICK r : r = test[t]  OBVIOUS
<1> DEFINE x == [r EXCEPT !.at = "hostkey", !.open = @ \cup {r.hop}]
<1>1. /\ Good(r) /\ r.at = "dial" /\ UNCHANGED <<known, screen>>
      /\ known # Absent /\ known \in Files /\ r.at \in Loaded
  BY <1>0 DEF DialTCP, At, Inv, Loaded
<1>2. /\ r \in Records /\ r.open = {} /\ Unclosed(r)
      /\ r.path # "jump" => r.hop = "target"
  BY <1>1 DEF Good, Unclosed
<1>3. CASE Step(t, x)
  <2>1. /\ x \in Records /\ x.at = "hostkey" /\ x.ctx = r.ctx
        /\ x.path = r.path /\ x.hop = r.hop /\ x.open = {r.hop}
    BY <1>2 DEF Records, Points
  <2>2. Good(x)
    <3> HIDE DEF x
    <3> QED  BY <1>1, <1>2, <2>1 DEF Good, FirstShake, Unclosed
  <2> HIDE DEF x
  <2> QED  BY <1>0, <1>1, <1>3, <2>1, <2>2, GoesOn
<1>4. CASE Retry(t, r, Failed(r))
  <2>1. Good(Failed(r)) /\ Failed(r).at = "write" /\ Failed(r).ctx = r.ctx
    BY <1>2, FailedGood
  <2>2. r.path = "jump" => r.hop = "jump"  BY <1>1 DEF Good, FirstShake
  <2> QED  BY <1>0, <1>1, <1>2, <1>4, <2>1, <2>2, RetryInv
<1> QED  BY <1>0, <1>3, <1>4 DEF DialTCP

LEMMA DialTunnelInv == ASSUME Inv, NEW t \in Tests, DialTunnel(t) PROVE Inv'
<1>0. PICK r : r = test[t]  OBVIOUS
<1> DEFINE x == [r EXCEPT !.at = "hostkey", !.attempt = 1, !.open = @ \cup {"target"}]
<1>1. /\ Good(r) /\ r.at = "tunnel" /\ UNCHANGED <<known, screen>>
      /\ known # Absent /\ known \in Files /\ r.at \in Loaded
  BY <1>0 DEF DialTunnel, At, Inv, Loaded
<1>2. r \in Records /\ Unclosed(r) /\ r.hop = "target" /\ r.open \subseteq {"jump"}
  BY <1>1 DEF Good, Unclosed, FirstShake
<1>3. CASE Step(t, x)
  <2>1. /\ x \in Records /\ x.at = "hostkey" /\ x.ctx = r.ctx /\ x.attempt = 1
        /\ x.hop = "target" /\ x.path = r.path
        /\ x.open = r.open \cup {"target"}
    <3>1. 1 \in 1..MaxAttempts  BY AttemptsAssumption
    <3>2. r.open \cup {"target"} \in SUBSET Hosts
      BY <1>2 DEF Hosts
    <3> QED  BY <1>2, <3>1, <3>2 DEF Records, Points
  <2>2. Good(x)
    <3> HIDE DEF x
    <3> QED  BY <1>2, <2>1 DEF Good, FirstShake, Unclosed
  <2> HIDE DEF x
  <2> QED  BY <1>0, <1>1, <1>3, <2>1, <2>2, GoesOn
<1>4. CASE Retry(t, r, NoTunnel(r))
  <2>1. /\ Good(NoTunnel(r)) /\ NoTunnel(r).at = "write"
        /\ NoTunnel(r).ctx = r.ctx
    BY <1>1, NoTunnelGood
  <2> QED  BY <1>0, <1>1, <1>2, <1>4, <2>1, RetryInv
<1> QED  BY <1>0, <1>3, <1>4 DEF DialTunnel

LEMMA HostKeyInv == ASSUME Inv, NEW t \in Tests, HostKey(t) PROVE Inv'
<1> DEFINE r == test[t]
           x == [r EXCEPT !.at = "auth"]
<1>1. /\ Good(r) /\ r.at = "hostkey" /\ UNCHANGED screen
      /\ known # Absent /\ known \in Files
  BY DEF HostKey, At, Inv, Loaded
<1>2. CASE HandshakeFails(t) /\ UNCHANGED known
  BY <1>1, <1>2, HandshakeFailsInv
<1>3. ASSUME r.hop \in r.open, Step(t, x), known' \in {known, known \cup {<<r.hop, Key>>}}
      PROVE  Inv'
  <2>1. r.hop \in {"jump", "target"}  BY <1>1 DEF Good, Records, Hosts
  <2>2. known' \in Files /\ known' # Absent
    BY <1>1, <1>3, <2>1 DEF Files, Absent, Hosts
  <2>3. /\ x \in Records /\ x.at = "auth" /\ x.ctx = r.ctx /\ x.path = r.path
        /\ x.hop = r.hop /\ x.attempt = r.attempt /\ x.open = r.open
    BY <1>1 DEF Good, Records, Points
  <2>4. Good(x)
    <3> HIDE DEF x
    <3> QED  BY <1>1, <1>3, <2>3 DEF Good, FirstShake, Unclosed
  <2> QED  BY <1>1, <1>3, <2>2, <2>3, <2>4, GoesOn
<1> QED  BY <1>2, <1>3 DEF HostKey

LEMMA AuthInv == ASSUME Inv, NEW t \in Tests, Auth(t) PROVE Inv'
<1> DEFINE r == test[t]
           there == [r EXCEPT !.at = "tunnel", !.hop = "target", !.attempt = 1]
           up    == [r EXCEPT !.at = "command", !.trusted = Idle.trusted]
<1>1. /\ Good(r) /\ r.at = "auth" /\ UNCHANGED <<known, screen>>
      /\ known # Absent /\ known \in Files
  BY DEF Auth, At, Inv, Loaded
<1>2. CASE HandshakeFails(t)
  BY <1>1, <1>2, HandshakeFailsInv
<1>3. CASE r.hop = "jump" /\ Step(t, there)
  <2>1. /\ there \in Records /\ there.at = "tunnel" /\ there.ctx = r.ctx
        /\ there.hop = "target" /\ there.open = r.open /\ there.path = r.path
    <3>1. 1 \in 1..MaxAttempts  BY AttemptsAssumption
    <3> QED  BY <1>1, <3>1 DEF Good, Records, Points, Hosts
  <2>2. Good(there)
    <3> HIDE DEF there
    <3> QED  BY <1>1, <1>3, <2>1 DEF Good, FirstShake, Unclosed
  <2> QED  BY <1>1, <1>3, <2>1, <2>2, GoesOn
<1>4. CASE r.hop # "jump" /\ Step(t, up)
  <2>1. Idle.trusted \in [Hosts -> SUBSET {Key, "old"}]  BY IdleGood DEF Good, Records
  <2>2. /\ up \in Records /\ up.at = "command" /\ up.ctx = r.ctx /\ up.path = r.path
        /\ up.attempt = r.attempt /\ up.hop = r.hop /\ up.open = r.open
    <3> HIDE DEF Idle
    <3> QED  BY <1>1, <2>1 DEF Good, Records, Points
  <2>3. r.hop = "target"  BY <1>1, <1>4 DEF Good, Records, Hosts
  <2>4. Good(up)
    <3> HIDE DEF up
    <3> QED  BY <1>1, <2>2, <2>3 DEF Good, FirstShake, Unclosed
  <2> QED  BY <1>1, <1>4, <2>2, <2>4, GoesOn DEF Loaded
<1> QED  BY <1>2, <1>3, <1>4 DEF Auth

LEMMA CommandInv ==
    ASSUME Inv, NEW t \in Tests, Answered(t) \/ Interrupted(t) PROVE Inv'
<1> DEFINE r == test[t]
<1>1. Good(r) /\ known \in Files /\ UNCHANGED <<known, screen>>
  BY DEF Answered, Interrupted, Inv
<1>2. \E e \in {"none", "failed"} : Step(t, Returned(r, e))
  BY DEF Answered, Interrupted
<1>3. PICK e \in {"none", "failed"} : Step(t, Returned(r, e))  BY <1>2
<1> QED  BY <1>1, <1>3, ReturnedGood, GoesOn DEF Loaded

LEMMA WatchInv == ASSUME Inv, NEW t \in Tests, Watch(t) PROVE Inv'
<1>1. PICK r : r = test[t]  OBVIOUS
<1>2. PICK x : x = ClientClosed(r)  OBVIOUS
<1>3. /\ Good(r) /\ r.at = "command" /\ Step(t, x)
      /\ known \in Files /\ UNCHANGED <<known, screen>>
  BY <1>1, <1>2 DEF Watch, At, Inv
<1>4. /\ x \in Records /\ x.at = "command" /\ x.ctx = r.ctx /\ x.path = r.path
      /\ x.attempt = r.attempt /\ x.hop = r.hop /\ x.open = {}
  BY <1>2, <1>3, ClientClosedFacts
<1>5. Good(x)  BY <1>3, <1>4 DEF Good, FirstShake, Unclosed
<1> QED  BY <1>1, <1>3, <1>4, <1>5, GoesOn DEF Loaded

LEMMA DeadlineInv == ASSUME Inv, NEW t \in Tests, Deadline(t) PROVE Inv'
<1> DEFINE r == test[t]
           x == [r EXCEPT !.ctx = "deadline"]
<1>1. /\ Good(r) /\ r.at # "ended" /\ r.ctx = "live" /\ Step(t, x)
      /\ known \in Files /\ UNCHANGED <<known, screen>>
      /\ r.at \in Loaded => known # Absent
  BY DEF Deadline, Inv
<1>2. /\ x \in Records /\ x.at = r.at /\ x.ctx = "deadline" /\ x.path = r.path
      /\ x.attempt = r.attempt /\ x.hop = r.hop /\ x.open = r.open /\ x.err = r.err
  BY <1>1 DEF Good, Records, Ends
<1>3. Good(x)
  <2> HIDE DEF x
  <2> QED  BY <1>1, <1>2 DEF Good, FirstShake, Unclosed
<1> HIDE DEF x
<1> QED  BY <1>1, <1>2, <1>3, GoesOn

LEMMA StartTestInv == ASSUME Inv, NEW t \in Tests, StartTest(t) PROVE Inv'
<1>1. PICK p \in Paths : Step(t, [Idle EXCEPT !.at = "begin", !.path = p])
  BY DEF StartTest
<1> DEFINE x == [Idle EXCEPT !.at = "begin", !.path = p]
<1>2. /\ x \in Records /\ x.at = "begin" /\ x.ctx = "live" /\ x.open = {}
      /\ x.hop = "target"
  <2>1. p \in {"direct", "jump", "local", "wordpress"}  BY PathsAssumption
  <2>2. Idle \in Records /\ Idle.ctx = "live" /\ Idle.open = {} /\ Idle.hop = "target"
    BY IdleGood DEF Good, Idle
  <2> HIDE DEF Idle
  <2> QED  BY <2>1, <2>2 DEF Records, Points
<1>3. Good(x)
  <2> HIDE DEF x
  <2> QED  BY <1>2 DEF Good, FirstShake, Unclosed
<1> HIDE DEF x
<1>4. /\ test' \in [Tests -> Records] /\ test'[t] = x
      /\ \A s \in Tests \ {t} : test'[s] = test[s]
      /\ \A s \in Tests : Good(test'[s])
  BY <1>1, <1>3, StepFacts DEF x
<1>5. /\ report' = [running |-> TRUE, owner |-> t,
                    server |-> "running", database |-> "pending"]
      /\ dialog' = TRUE /\ known' = known
  BY DEF StartTest
<1>6. Owned'  BY <1>2, <1>4, <1>5 DEF Owned, Statuses
<1>7. \A s \in Tests : test'[s].at \in Loaded => known' # Absent
  BY <1>2, <1>4, <1>5 DEF Inv, Loaded
<1> QED  BY <1>4, <1>5, <1>6, <1>7 DEF Inv

LEMMA CancelInv == ASSUME Inv, Cancel PROVE Inv'
<1> DEFINE t == report.owner
           r == test[t]
           x == [r EXCEPT !.ctx = IF @ = "live" THEN "canceled" ELSE @]
<1>1. /\ t \in Tests /\ Good(r) /\ r.ctx # "canceled" /\ Step(t, x)
      /\ report' = [report EXCEPT !.running = FALSE]
      /\ dialog' = FALSE /\ known' = known
  BY DEF Cancel, Inv, Owned
<1>2. /\ x \in Records /\ x.at = r.at /\ x.path = r.path
      /\ x.attempt = r.attempt /\ x.hop = r.hop /\ x.open = r.open /\ x.err = r.err
  BY <1>1 DEF Good, Records, Ends
<1>3. Good(x)
  <2> HIDE DEF x
  <2> QED  BY <1>1, <1>2 DEF Good, FirstShake, Unclosed
<1>4. /\ test' \in [Tests -> Records] /\ test'[t] = x
      /\ \A s \in Tests \ {t} : test'[s] = test[s]
      /\ \A s \in Tests : Good(test'[s])
  <2> HIDE DEF t, x
  <2> QED  BY <1>1, <1>3, StepFacts
<1>5. Owned'  BY <1>1 DEF Inv, Owned
<1>6. \A s \in Tests : test'[s].at \in Loaded => known' # Absent
  <2> HIDE DEF t, x
  <2> QED  BY <1>1, <1>2, <1>4 DEF Inv
<1> QED  BY <1>1, <1>4, <1>5, <1>6 DEF Inv

LEMMA WriteInv == ASSUME Inv, NEW t \in Tests, Write(t) PROVE Inv'
<1> DEFINE r == test[t]
           stop == [Idle EXCEPT !.at = "ended", !.open = r.open]
           goes == [Idle EXCEPT !.at = "begin", !.path = r.path, !.ctx = r.ctx,
                                !.stage = "database", !.open = r.open]
<1>1. /\ Good(r) /\ r.at = "write" /\ r.open = {} /\ known' = known /\ dialog' = dialog
      /\ r.err = "canceled" => r.ctx = "canceled"
  BY DEF Write, At, Inv, Good, Unclosed
<1>2. \/ /\ r.err = "canceled" /\ Step(t, stop) /\ report' = report
      \/ /\ Step(t, stop)
         /\ \E s \in {"server", "database"} :
               report' = [report EXCEPT ![s] = "failed", !.running = FALSE]
      \/ /\ Step(t, goes)
         /\ report' = [report EXCEPT !.server = "ok", !.database = "running"]
      \/ /\ Step(t, stop)
         /\ report' = [report EXCEPT !.database = "ok", !.running = FALSE]
  BY <1>1 DEF Write, Written, Stops, Good, Records
<1>3. /\ stop \in Records /\ stop.at = "ended" /\ stop.open = {} /\ stop.hop = "target"
      /\ goes \in Records /\ goes.at = "begin" /\ goes.open = {} /\ goes.ctx = r.ctx
      /\ goes.hop = "target"
  <2>1. Idle \in Records /\ Idle.hop = "target"  BY IdleGood DEF Good, Idle
  <2>2. r \in Records  BY <1>1 DEF Good
  <2> HIDE DEF Idle
  <2>3. stop \in Records /\ stop.at = "ended" /\ stop.open = {} /\ stop.hop = "target"
    BY <1>1, <2>1, <2>2, ZenonT(60) DEF Records, Points
  <2>4. /\ goes \in Records /\ goes.at = "begin" /\ goes.open = {}
        /\ goes.ctx = r.ctx /\ goes.hop = "target"
    BY <1>1, <2>1, <2>2, ZenonT(60) DEF Records, Points
  <2> QED  BY <2>3, <2>4
<1>4. Good(stop) /\ Good(goes)
  <2> HIDE DEF stop, goes
  <2> QED  BY <1>3 DEF Good, FirstShake, Unclosed
<1>5. PICK x \in {stop, goes} :
         /\ Step(t, x)
         /\ \/ x = stop /\ r.err = "canceled" /\ report' = report
            \/ x = stop /\ \E s \in {"server", "database"} :
                  report' = [report EXCEPT ![s] = "failed", !.running = FALSE]
            \/ /\ x = goes
               /\ report' = [report EXCEPT !.server = "ok", !.database = "running"]
            \/ x = stop /\ report' = [report EXCEPT !.database = "ok", !.running = FALSE]
  <2> HIDE DEF stop, goes
  <2> QED  BY <1>2
<1> HIDE DEF stop, goes
<1>6. /\ test' \in [Tests -> Records] /\ test'[t] = x
      /\ \A s \in Tests \ {t} : test'[s] = test[s]
      /\ \A s \in Tests : Good(test'[s])
  BY <1>4, <1>5, StepFacts
<1>7. Owned'
  <2>1. Owned  BY DEF Inv
  <2>2. CASE x = stop /\ r.err = "canceled" /\ report' = report
    <3>1. report.running => report.owner # t  BY <1>1, <2>1, <2>2 DEF Owned
    <3> QED  BY <1>6, <2>1, <2>2, <3>1 DEF Owned
  <2>3. CASE \E s \in {"server", "database"} :
               report' = [report EXCEPT ![s] = "failed", !.running = FALSE]
    BY <2>1, <2>3 DEF Owned, Statuses
  <2>4. CASE report' = [report EXCEPT !.database = "ok", !.running = FALSE]
    BY <2>1, <2>4 DEF Owned, Statuses
  <2>5. CASE /\ x = goes
             /\ report' = [report EXCEPT !.server = "ok", !.database = "running"]
    <3>1. /\ report' \in [running : BOOLEAN, owner : Tests \cup {"none"},
                          server : Statuses, database : Statuses]
          /\ report'.running = report.running /\ report'.owner = report.owner
      BY <2>1, <2>5 DEF Owned, Statuses
    <3>2. ASSUME report.running
          PROVE  /\ test'[report.owner].at # "ended"
                 /\ test'[report.owner].ctx # "canceled"
      <4>1. CASE report.owner = t
        <5>1. test'[t].at = "begin" /\ test'[t].ctx = r.ctx
          BY <1>3, <1>6, <2>5
        <5> QED  BY <3>2, <4>1, <5>1, <2>1 DEF Owned
      <4>2. CASE report.owner # t
        BY <1>6, <2>1, <3>2, <4>2 DEF Owned
      <4> QED  BY <4>1, <4>2
    <3> QED  BY <2>1, <3>1, <3>2 DEF Owned
  <2> QED  BY <1>5, <2>2, <2>3, <2>4, <2>5
<1>8. \A s \in Tests : test'[s].at \in Loaded => known' # Absent
  BY <1>1, <1>3, <1>5, <1>6 DEF Inv, Loaded
<1> QED  BY <1>1, <1>6, <1>7, <1>8 DEF Inv

----------------------------------------------------------------------------
LEMMA NextInv == Inv /\ [Next]_vars => Inv'
<1> SUFFICES ASSUME Inv, [Next]_vars PROVE Inv'  OBVIOUS
<1>1. CASE UNCHANGED vars
  BY <1>1 DEF vars, Inv, Owned
<1>2. CASE Cancel  BY <1>2, CancelInv
<1>3. CASE CloseReport
  BY <1>3 DEF CloseReport, Inv, Owned
<1>4. ASSUME NEW t \in Tests, Dial(t) PROVE Inv'
  BY <1>4, BeginInv, StatInv, CreateInv, LoadInv, DialTCPInv, DialTunnelInv,
     HostKeyInv, AuthInv DEF Dial
<1>5. ASSUME NEW t \in Tests, StartTest(t) \/ Deadline(t) PROVE Inv'
  BY <1>5, StartTestInv, DeadlineInv
<1>6. ASSUME NEW t \in Tests,
             Answered(t) \/ Watch(t) \/ Interrupted(t) \/ Write(t)
      PROVE  Inv'
  BY <1>6, CommandInv, WatchInv, WriteInv
<1> QED  BY <1>1, <1>2, <1>3, <1>4, <1>5, <1>6 DEF Next

LEMMA Invariance == Spec => []Inv
<1> QED  BY InitInv, NextInv, PTL DEF Spec

(* Every reachable state is well typed, with any number of attempts. *)
THEOREM TypeCorrect == Spec => []TypeOK
<1>1. Inv => TypeOK
  BY DEF Inv, Files, Records, Points, Owned, TypeOK
<1> QED  BY <1>1, Invariance, PTL

(* No way out of a dial or of a command leaves a connection open. *)
THEOREM EverythingIsClosed == Spec => []NothingLeftOpen
<1>1. Inv => NothingLeftOpen
  BY DEF Inv, Good, Unclosed, NothingLeftOpen
<1> QED  BY <1>1, Invariance, PTL

(* However many attempts there are, the retries of the handshake behind a jump
   host never help. *)
THEOREM RetriesAreVain == Spec => []RetriedHandshakeFails
<1>1. Inv => RetriedHandshakeFails
  BY DEF Inv, Good, FirstShake, RetriedHandshakeFails, Jumps, At
<1> QED  BY <1>1, Invariance, PTL

(* A report that says a test is running has a goroutine that will say how it
   ended. *)
THEOREM ReportsEnd == Spec => []RunningIsAlive
<1>1. Inv => RunningIsAlive
  BY DEF Inv, Owned, RunningIsAlive
<1> QED  BY <1>1, Invariance, PTL

----------------------------------------------------------------------------
(* The check of a server before a transfer (Preflight).                     *)

Owners == Users \cup {"none", "everyone", "system"}
Labels == {"idle", "measure", "probe", "validate", "passed", "failed", "done",
           "made", "denied", "stored"}
CallRecords ==
    [at : Labels, user : Users \cup {"none"}, need : Int,
     measured : SUBSET Dirs, next : 1..4, touched : BOOLEAN,
     writable : SUBSET Dirs, base : {"none", "home", "dback"}, size : Int]

(* The directory d of the user of call i. *)
PlaceOf(d, i) == Place(d, call[i].user)
Able(i) ==
    {d \in Dirs : MayWrite(owner, PlaceOf(d, i), call[i].user)}
(* No user but that of i is at work. *)
Sole(i) == \A j \in Calls : call[j].user \in {call[i].user, "none"}
Tried(i, k) ==
    \/ call[i].at \notin Probing
    \/ call[i].at = "probe" /\ k < call[i].next

CheckTypes ==
    /\ owner \in [Places -> Owners]
    /\ \A u \in Users : owner[Place("dback", u)] \in Users \cup {"none"}
    /\ probe \in [Places -> Users \cup {"none"}]
    /\ free \in [{"tmp", "home"} -> Int]
    /\ call \in [Calls -> CallRecords]

(* A test file belongs to the user of some call. *)
ProbeOwned ==
    \A p \in Places :
        probe[p] = "none" \/ \E j \in Calls : call[j].user = probe[p]

(* What call i knows of the directories. *)
Searched(i) ==
    /\ CallAt(i, "idle") <=> call[i].user = "none"
    /\ CallAt(i, "measure") => call[i].next = 1
    /\ CallAt(i, "probe") => call[i].next \in 1..3
    /\ call[i].user # "none" => call[i].writable \subseteq Able(i)
    /\ call[i].touched => /\ CallAt(i, "probe")
                          /\ Probed(i) \in Able(i)
    /\ call[i].user # "none" =>
         \A k \in 1..3 : Tried(i, k) =>
           LET d == Candidates[k] IN
           /\ owner[PlaceOf(d, i)] # "none"
           /\ Sole(i) /\ d \in Able(i) => d \in call[i].writable

(* What it knows of the directory it has chosen. *)
Chosen(i) ==
    /\ call[i].base = "home" => "home" \in call[i].writable
    /\ CallAt(i, "passed") => call[i].base # "none"
    /\ CallAt(i, "denied") =>
         /\ call[i].base = "dback"
         /\ owner[BasePlace(i)] \in Users \ {call[i].user}

CheckInv ==
    /\ CheckTypes /\ ProbeOwned
    /\ \A i \in Calls : Searched(i) /\ Chosen(i)


(* A directory that is there keeps its owner. *)
OwnerStays ==
    \A p \in Places : owner[p] # "none" => owner'[p] = owner[p]

(* A call keeps its user. *)
UsersStay ==
    \A j \in Calls : call[j].user \in {"none", call'[j].user}

LEMMA InPlaces ==
  ASSUME NEW d \in Dirs, NEW u \in Users
  PROVE  Place(d, u) \in Places
  BY DEF Places

LEMMA CandidateDirs ==
  /\ Len(Candidates) = 3
  /\ \A k \in 1..3 : Candidates[k] \in Dirs
  /\ \A d \in Dirs : \E k \in 1..3 : Candidates[k] = d
  BY DEF Candidates, Dirs

(* A directory its user may write into is there and stays writable. *)
LEMMA AbleStays ==
  ASSUME CheckTypes, OwnerStays, NEW i \in Calls,
         call[i].user \in Users, call'[i].user = call[i].user
  PROVE  /\ Able(i) \subseteq Able(i)'
         /\ \A d \in Dirs :
               owner[PlaceOf(d, i)] # "none" =>
                  /\ owner'[PlaceOf(d, i)] # "none"
                  /\ d \in Able(i)' => d \in Able(i)
<1>1. \A d \in Dirs : PlaceOf(d, i) \in Places
  BY InPlaces DEF PlaceOf
<1>2. \A d \in Dirs : PlaceOf(d, i)' = PlaceOf(d, i)
  BY DEF PlaceOf
<1>3. ASSUME NEW d \in Dirs, owner[PlaceOf(d, i)] # "none"
      PROVE  /\ owner'[PlaceOf(d, i)] = owner[PlaceOf(d, i)]
             /\ d \in Able(i)' <=> d \in Able(i)
  <2>1. owner'[PlaceOf(d, i)] = owner[PlaceOf(d, i)]
    BY <1>1, <1>3 DEF OwnerStays
  <2> QED  BY <1>2, <2>1 DEF Able, MayWrite
<1>4. ASSUME NEW d \in Able(i) PROVE owner[PlaceOf(d, i)] # "none"
  BY UsersAssumption DEF Able, MayWrite
<1>5. Able(i) \subseteq Dirs  BY DEF Able
<1> QED  BY <1>3, <1>4, <1>5

LEMMA SoleStays ==
  ASSUME UsersStay, NEW i \in Calls, call'[i].user = call[i].user, Sole(i)'
  PROVE  Sole(i)
  BY DEF UsersStay, Sole

(* What a step leaves to a call that has tried no directory in it. *)
LEMMA SearchStays ==
  ASSUME CheckTypes, OwnerStays, UsersStay,
         NEW i \in Calls, Searched(i),
         call[i].user \in Users, call'[i].user = call[i].user,
         call'[i].writable = call[i].writable,
         call'[i].at \notin {"idle", "measure"} \/ call'[i] = call[i],
         CallAt(i, "probe")' => call'[i].next \in 1..3,
         call'[i].touched => /\ call[i].touched /\ CallAt(i, "probe")'
                             /\ call'[i].next = call[i].next,
         \A k \in 1..3 : Tried(i, k)' => Tried(i, k)
  PROVE  Searched(i)'
<1>1. call[i].user # "none"  BY UsersAssumption
<1>2. call'[i].writable \subseteq Able(i)'
  BY <1>1, AbleStays DEF Searched
<1>3. call'[i].touched => Probed(i)' \in Able(i)'
  <2> SUFFICES ASSUME call'[i].touched PROVE Probed(i)' \in Able(i)'
    OBVIOUS
  <2>1. Probed(i) \in Able(i)  BY DEF Searched
  <2>2. Probed(i)' = Probed(i)  BY DEF Probed
  <2> QED  BY <2>1, <2>2, AbleStays
<1>4. ASSUME NEW k \in 1..3, Tried(i, k)', NEW d, d = Candidates[k]
      PROVE  /\ owner'[PlaceOf(d, i)'] # "none"
             /\ Sole(i)' /\ d \in Able(i)' => d \in call'[i].writable
  <2>1. /\ d \in Dirs /\ owner[PlaceOf(d, i)] # "none"
        /\ Sole(i) /\ d \in Able(i) => d \in call[i].writable
    BY <1>1, <1>4, CandidateDirs DEF Searched
  <2>2. PlaceOf(d, i)' = PlaceOf(d, i)  BY DEF PlaceOf
  <2> QED  BY <2>1, <2>2, AbleStays, SoleStays
<1>5. /\ ~CallAt(i, "idle")' /\ call'[i].user # "none"
      /\ CallAt(i, "measure")' => call'[i].next = 1
      /\ call'[i].touched => CallAt(i, "probe")'
  BY <1>1 DEF Searched, CallAt
<1> QED  BY <1>2, <1>3, <1>4, <1>5 DEF Searched

(* The calls that do not take the step. *)
LEMMA OthersStay ==
  ASSUME CheckTypes, OwnerStays, UsersStay,
         NEW j \in Calls, Searched(j), Chosen(j), call'[j] = call[j]
  PROVE  Searched(j)' /\ Chosen(j)'
<1>0. call[j].user \in Users \cup {"none"}
  BY DEF CheckTypes, CallRecords
<1>1. Searched(j)'
  <2>1. CASE call[j].user = "none"
    BY <2>1 DEF Searched, CallAt
  <2>2. CASE call[j].user \in Users
    <3>1. /\ ~CallAt(j, "idle") /\ (CallAt(j, "probe") => call[j].next \in 1..3)
          /\ call[j].touched => CallAt(j, "probe")
      BY <2>2, UsersAssumption DEF Searched
    <3> QED  BY <2>2, <3>1, SearchStays DEF CallAt, Tried
  <2> QED  BY <1>0, <2>1, <2>2
<1>2. Chosen(j)'
  <2> SUFFICES ASSUME CallAt(j, "denied")
               PROVE  owner'[BasePlace(j)] = owner[BasePlace(j)]
    BY DEF Chosen, CallAt, BasePlace
  <2>1. /\ call[j].base = "dback"
        /\ owner[BasePlace(j)] \in Users \ {call[j].user}
    BY DEF Chosen
  <2>2. call[j].user \in Users  BY <1>0 DEF Searched, CallAt
  <2>3. BasePlace(j) \in Places
    BY <2>1, <2>2, InPlaces DEF BasePlace, Dirs
  <2> QED  BY <2>1, <2>3, UsersAssumption DEF OwnerStays
<1> QED  BY <1>1, <1>2


(* A step of call i that gives it the record c. *)
LEMMA CallSteps ==
  ASSUME CheckInv, NEW i \in Calls,
         NEW c \in CallRecords, CallStep(i, c),
         call[i].user \in {"none", c.user}, OwnerStays,
         owner' \in [Places -> Owners],
         \A u \in Users : owner'[Place("dback", u)] \in Users \cup {"none"},
         free' \in [{"tmp", "home"} -> Int],
         probe' \in [Places -> Users \cup {"none"}],
         \A p \in Places : probe'[p] \in {probe[p], "none", c.user},
         Searched(i)', Chosen(i)'
  PROVE  CheckInv'
<1>1. /\ call' \in [Calls -> CallRecords] /\ call'[i] = c
      /\ \A j \in Calls \ {i} : call'[j] = call[j]
  BY DEF CheckInv, CheckTypes, CallStep
<1>2. UsersStay  BY <1>1 DEF UsersStay
<1>3. ProbeOwned'
  <2> SUFFICES ASSUME NEW p \in Places, probe'[p] # "none"
               PROVE  \E j \in Calls : call'[j].user = probe'[p]
    BY DEF ProbeOwned
  <2>1. CASE probe'[p] = c.user  BY <1>1, <2>1
  <2>2. CASE probe'[p] = probe[p]
    <3>1. PICK j \in Calls : call[j].user = probe[p]
      BY <2>2 DEF CheckInv, ProbeOwned
    <3> QED  BY <1>2, <2>2, <3>1 DEF UsersStay
  <2> QED  BY <2>1, <2>2
<1>4. ASSUME NEW j \in Calls PROVE Searched(j)' /\ Chosen(j)'
  <2>1. CASE j = i  BY <2>1
  <2>2. CASE j # i  BY <1>1, <1>2, <2>2, OthersStay DEF CheckInv
  <2> QED  BY <2>1, <2>2
<1> QED  BY <1>1, <1>3, <1>4 DEF CheckInv, CheckTypes

(* ... and touches neither the directories nor the test files. *)
LEMMA QuietSteps ==
  ASSUME CheckInv, NEW i \in Calls,
         NEW c \in CallRecords, CallStep(i, c),
         call[i].user \in {"none", c.user}, UNCHANGED <<owner, probe>>,
         free' \in [{"tmp", "home"} -> Int],
         Searched(i)', Chosen(i)'
  PROVE  CheckInv'
<1>1. OwnerStays  BY DEF OwnerStays
<1> QED  BY <1>1, CallSteps DEF CheckInv, CheckTypes

(* ... after the script. *)
LEMMA LaterSteps ==
  ASSUME CheckInv, NEW i \in Calls,
         NEW c \in CallRecords, CallStep(i, c),
         call[i].at \notin Probing, c.at \notin Probing,
         c.user = call[i].user, c.writable = call[i].writable,
         c.touched = call[i].touched, OwnerStays,
         owner' \in [Places -> Owners],
         \A u \in Users : owner'[Place("dback", u)] \in Users \cup {"none"},
         free' \in [{"tmp", "home"} -> Int], probe' = probe, Chosen(i)'
  PROVE  CheckInv'
<1>1. /\ call' \in [Calls -> CallRecords] /\ call'[i] = c
      /\ \A j \in Calls \ {i} : call'[j] = call[j]
  BY DEF CheckInv, CheckTypes, CallStep
<1>2. UsersStay  BY <1>1 DEF UsersStay
<1>3. Searched(i) /\ CheckTypes  BY DEF CheckInv
<1>4. call[i].user \in Users
  BY <1>3 DEF Searched, CallAt, Probing, CheckTypes, CallRecords
<1>5. ~call'[i].touched
  BY <1>1, <1>3 DEF Searched, CallAt, Probing
<1>6. \A k \in 1..3 : Tried(i, k)  BY DEF Tried
<1>7. Searched(i)'
  <2>1. call'[i].at \notin {"idle", "measure", "probe"}
    BY <1>1 DEF Probing
  <2> QED  BY <1>1, <1>2, <1>3, <1>4, <1>5, <1>6, <2>1, SearchStays DEF CallAt
<1> QED  BY <1>3, <1>7, CallSteps DEF CheckInv, CheckTypes

LEMMA CheckInit == PreflightInit => CheckInv
<1> SUFFICES ASSUME PreflightInit
             PROVE  CheckInv
  OBVIOUS
<1>1. NoCall \in CallRecords
  BY DEF NoCall, CallRecords, Labels
<1>2. call \in [Calls -> CallRecords] /\ \A i \in Calls : call[i] = NoCall
  BY <1>1 DEF PreflightInit
<1>3. owner \in [Places -> Owners]  BY DEF PreflightInit, Owners
<1>4. ASSUME NEW u \in Users
      PROVE  owner[Place("dback", u)] \in Users \cup {"none"}
  <2> DEFINE p == Place("dback", u)
  <2>1. p \in Places /\ p[1] = "dback"
    BY InPlaces DEF Dirs, Place
  <2>2. (CASE p[1] = "tmp"   -> owner[p] = "everyone"
           [] p[1] = "dback" -> owner[p] \in Users \cup {"none"}
           [] p[1] = "home"  -> owner[p] \in {p[2], "none", "system"})
    BY <2>1 DEF PreflightInit
  <2> HIDE DEF p
  <2>3. p[1] # "tmp" /\ p[1] # "home"  BY <2>1
  <2>4. owner[p] \in Users \cup {"none"}  BY <2>1, <2>2, <2>3, Zenon
  <2> QED  BY <2>4 DEF p
<1>5. probe \in [Places -> Users \cup {"none"}] /\ ProbeOwned
  BY DEF PreflightInit, ProbeOwned
<1>6. free \in [{"tmp", "home"} -> Int]
  BY RoomAssumption DEF PreflightInit
<1>7. ASSUME NEW i \in Calls PROVE Searched(i) /\ Chosen(i)
  BY <1>2 DEF Searched, Chosen, CallAt, NoCall, Tried, Probing
<1> QED  BY <1>2, <1>3, <1>4, <1>5, <1>6, <1>7 DEF CheckInv, CheckTypes

LEMMA BeginKeeps ==
  ASSUME CheckInv,
         NEW i \in Calls, BeginScript(i)
  PROVE  CheckInv'
<1>1. PICK u \in Users, need \in 1..MaxRoom :
         CallStep(i, [NoCall EXCEPT !.at = "measure", !.user = u,
                                            !.need = need])
  BY DEF BeginScript
<1> DEFINE c == [NoCall EXCEPT !.at = "measure", !.user = u,
                                     !.need = need]
<1>2. need \in Int  BY RoomAssumption
<1>3. NoCall \in CallRecords
  BY DEF NoCall, CallRecords, Labels
<1>4. /\ c \in CallRecords /\ c.at = "measure" /\ c.user = u
      /\ c.next = NoCall.next /\ c.touched = NoCall.touched
      /\ c.writable = NoCall.writable /\ c.base = NoCall.base
  BY <1>2, <1>3 DEF CallRecords, Labels
<1> HIDE DEF c
<1>5. call[i].user = "none"  BY DEF CheckInv, Searched, BeginScript
<1>6. call'[i] = c
  BY <1>1 DEF CheckInv, CheckTypes, CallStep, c
<1>7. Searched(i)' /\ Chosen(i)'
  BY <1>4, <1>6, UsersAssumption DEF NoCall, Searched, Chosen, CallAt, Tried, Probing
<1>8. UNCHANGED <<owner, probe>> /\ free' \in [{"tmp", "home"} -> Int]
  BY DEF BeginScript, CheckInv, CheckTypes
<1> QED  BY <1>1, <1>4, <1>5, <1>7, <1>8, QuietSteps DEF c


LEMMA MeasureKeeps ==
  ASSUME CheckInv, NEW i \in Calls, Measure(i)
  PROVE  CheckInv'
<1> DEFINE m == {d \in Dirs :
                   /\ owner[Place(d, call[i].user)] # "none"
                   /\ free[Disk(d)] >= call[i].need}
           c == [call[i] EXCEPT !.at = "probe", !.measured = m]
<1>1. CallStep(i, c) /\ CallAt(i, "measure") /\ UNCHANGED <<owner, probe, free>>
  BY DEF Measure
<1>2. call[i] \in CallRecords /\ m \in SUBSET Dirs
  BY DEF CheckInv, CheckTypes
<1> HIDE DEF m
<1>3. /\ c \in CallRecords /\ c.at = "probe" /\ c.user = call[i].user
      /\ c.next = call[i].next /\ c.touched = call[i].touched
      /\ c.writable = call[i].writable /\ c.base = call[i].base
  BY <1>2 DEF CallRecords, Labels
<1>4. call'[i] = c  BY <1>1 DEF CheckInv, CheckTypes, CallStep
<1> HIDE DEF c
<1>5. /\ call[i].user \in Users /\ call[i].next = 1 /\ ~call[i].touched
      /\ Searched(i) /\ Chosen(i) /\ CheckTypes
  BY <1>1, <1>2 DEF CheckInv, Searched, CallAt, CallRecords
<1>6. OwnerStays  BY <1>1 DEF OwnerStays
<1>7. UsersStay
  BY <1>1, <1>3 DEF UsersStay, CheckInv, CheckTypes, CallStep
<1>8. \A k \in 1..3 : ~Tried(i, k)'
  BY <1>3, <1>4, <1>5 DEF Tried, Probing
<1>9. Searched(i)'
  BY <1>3, <1>4, <1>5, <1>6, <1>7, <1>8, SearchStays DEF CallAt
<1>10. Chosen(i)'  BY <1>3, <1>4, <1>5 DEF Chosen, CallAt
<1> QED
  BY <1>1, <1>3, <1>5, <1>9, <1>10, QuietSteps DEF CheckTypes

(* mkdir -p. *)
LEMMA MadeStays ==
  ASSUME CheckTypes, NEW d \in Dirs,
         NEW u \in Users,
         owner' = Made(owner, Place(d, u), u)
  PROVE  /\ OwnerStays
         /\ owner' \in [Places -> Owners]
         /\ owner'[Place(d, u)] # "none"
         /\ \A v \in Users :
               owner'[Place("dback", v)] \in Users \cup {"none"}
<1> DEFINE p == Place(d, u)
<1>1. p \in Places  BY InPlaces
<1>2. owner' = [owner EXCEPT ![p] = IF @ = "none" THEN u ELSE @]
  BY DEF Made
<1> HIDE DEF p
<1>3. /\ owner' \in [Places -> Owners] /\ OwnerStays
      /\ owner'[p] = IF owner[p] = "none" THEN u ELSE owner[p]
      /\ \A q \in Places : owner'[q] \in {owner[q], u}
  BY <1>1, <1>2 DEF CheckTypes, Owners, OwnerStays
<1>4. owner'[p] # "none"  BY <1>3, UsersAssumption
<1>5. ASSUME NEW v \in Users
      PROVE  owner'[Place("dback", v)] \in Users \cup {"none"}
  <2>1. Place("dback", v) \in Places
    BY InPlaces DEF Dirs
  <2> QED  BY <1>3, <2>1 DEF CheckTypes
<1> QED  BY <1>3, <1>4, <1>5 DEF p

(* The script goes on with the next directory. *)
LEMMA NextRecord ==
  ASSUME NEW r \in CallRecords, r.at = "probe", r.next \in 1..3
  PROVE  /\ ToNext(r) \in CallRecords
         /\ ToNext(r).at = IF r.next = 3 THEN "validate" ELSE "probe"
         /\ ToNext(r).next = r.next + 1
         /\ ~ToNext(r).touched
         /\ ToNext(r).user = r.user
         /\ ToNext(r).writable = r.writable
         /\ ToNext(r).base = r.base
<1> DEFINE a == IF r.next = 3 THEN "validate" ELSE "probe"
           n == r.next + 1
<1>1. ToNext(r) = [r EXCEPT !.touched = FALSE, !.next = n, !.at = a]
  BY CandidateDirs DEF ToNext
<1>2. n \in 1..4 /\ a \in Labels  BY DEF Labels
<1> HIDE DEF a, n
<1>3. /\ ToNext(r) \in CallRecords
      /\ ToNext(r).at = a /\ ToNext(r).next = n
      /\ ~ToNext(r).touched /\ ToNext(r).user = r.user
      /\ ToNext(r).writable = r.writable
      /\ ToNext(r).base = r.base
  BY <1>1, <1>2 DEF CallRecords
<1> QED  BY <1>3 DEF a, n

(* One more directory has been tried; w of them are known to be writable. *)
LEMMA TriedOneMore ==
  ASSUME CheckTypes, OwnerStays, UsersStay,
         NEW i \in Calls, Searched(i), CallAt(i, "probe"),
         call'[i].user = call[i].user, ~call'[i].touched,
         call'[i].at = (IF call[i].next = 3 THEN "validate" ELSE "probe"),
         call'[i].next = call[i].next + 1,
         call[i].writable \subseteq call'[i].writable,
         call'[i].writable \subseteq Able(i)',
         NEW d, d = Probed(i),
         owner'[PlaceOf(d, i)] # "none",
         Sole(i)' /\ d \in Able(i)' => d \in call'[i].writable
  PROVE  Searched(i)'
<1>1. /\ call[i].user \in Users /\ call[i].user # "none"
      /\ call[i].next \in 1..3 /\ call[i].at = "probe"
  BY DEF Searched, CallAt, CheckTypes, CallRecords
<1>2. ASSUME NEW k \in 1..3, Tried(i, k)', NEW e, e = Candidates[k]
      PROVE  /\ owner'[PlaceOf(e, i)'] # "none"
             /\ Sole(i)' /\ e \in Able(i)' => e \in call'[i].writable
  <2>1. PlaceOf(e, i)' = PlaceOf(e, i)  BY DEF PlaceOf
  <2>2. CASE k = call[i].next
    <3>1. e = d  BY <1>2, <2>2 DEF Probed
    <3> QED  BY <2>1, <3>1
  <2>3. CASE k # call[i].next
    <3>1. k < call[i].next  BY <1>1, <1>2, <2>3 DEF Tried, Probing
    <3>2. Tried(i, k)  BY <1>1, <3>1 DEF Tried
    <3>3. /\ e \in Dirs /\ owner[PlaceOf(e, i)] # "none"
          /\ Sole(i) /\ e \in Able(i) => e \in call[i].writable
      BY <1>1, <1>2, <3>2, CandidateDirs DEF Searched
    <3> QED  BY <1>1, <2>1, <3>3, AbleStays, SoleStays
  <2> QED  BY <2>2, <2>3
<1>3. /\ ~CallAt(i, "idle")' /\ ~CallAt(i, "measure")'
      /\ CallAt(i, "probe")' => call'[i].next \in 1..3
  BY <1>1 DEF CallAt
<1> QED  BY <1>1, <1>2, <1>3 DEF Searched

LEMMA TouchKeeps ==
  ASSUME CheckInv, NEW i \in Calls, Touch(i)
  PROVE  CheckInv'
<1> DEFINE u == call[i].user
           d == Probed(i)
           p == ProbedAt(i)
           touches == MayWrite(owner', p, u) /\ probe[p] \in {u, "none"}
           c == IF touches THEN [call[i] EXCEPT !.touched = TRUE]
                           ELSE ToNext(call[i])
<1>1. /\ CheckTypes /\ Searched(i) /\ Chosen(i) /\ call[i] \in CallRecords
      /\ call[i].at = "probe" /\ CallAt(i, "probe") /\ ~call[i].touched
      /\ owner' = Made(owner, p, u)
      /\ probe' = [probe EXCEPT ![p] = IF touches THEN u ELSE @]
      /\ CallStep(i, c) /\ free' = free
  BY DEF CheckInv, CheckTypes, Touch, CallAt
<1>2. /\ u \in Users /\ u # "none" /\ call[i].next \in 1..3
      /\ d \in Dirs /\ p = Place(d, u) /\ p = PlaceOf(d, i)
      /\ p \in Places
  BY <1>1, CandidateDirs, InPlaces
     DEF Searched, CallAt, CallRecords, Probed, ProbedAt, PlaceOf
<1>3. /\ OwnerStays /\ owner' \in [Places -> Owners]
      /\ owner'[p] # "none"
      /\ \A v \in Users :
            owner'[Place("dback", v)] \in Users \cup {"none"}
  <2> HIDE DEF d, p, u
  <2> QED  BY <1>1, <1>2, MadeStays
<1>4. c \in CallRecords /\ c.user = u /\ c.writable = call[i].writable
      /\ c.base = call[i].base /\ c.at \notin {"passed", "denied"}
  <2>1. CASE touches
    <3>1. c = [call[i] EXCEPT !.touched = TRUE]  BY <2>1
    <3> QED  BY <1>1, <3>1 DEF CallRecords
  <2>2. CASE ~touches
    <3>1. c = ToNext(call[i])  BY <2>2
    <3> QED  BY <1>1, <1>2, <3>1, NextRecord
  <2> QED  BY <2>1, <2>2
<1>5. call'[i] = c /\ \A j \in Calls \ {i} : call'[j] = call[j]
  BY <1>1 DEF CheckTypes, CallStep
<1>6. UsersStay  BY <1>4, <1>5 DEF UsersStay
<1>7. /\ probe' \in [Places -> Users \cup {"none"}]
      /\ \A q \in Places : probe'[q] \in {probe[q], "none", u}
  <2> HIDE DEF u, p, touches
  <2> QED  BY <1>1, <1>2 DEF CheckTypes
<1>8. Chosen(i)'  BY <1>1, <1>4, <1>5 DEF Chosen, CallAt
<1>9. Searched(i)'
  <2>1. CASE touches
    <3>1. /\ c.touched /\ c.at = "probe" /\ c.next = call[i].next
      <4>1. c = [call[i] EXCEPT !.touched = TRUE]  BY <2>1
      <4> QED  BY <1>1, <4>1 DEF CallRecords
    <3>2. Probed(i)' = d
      BY <1>5, <3>1 DEF Probed
    <3>3. d \in Able(i)'
      BY <1>2, <1>4, <1>5, <2>1 DEF Able, PlaceOf, MayWrite
    <3>4. \A k \in 1..3 : Tried(i, k)' => Tried(i, k)
      BY <1>1, <1>5, <3>1 DEF Tried
    <3>5. c.writable \subseteq Able(i)'
      BY <1>1, <1>2, <1>3, <1>4, <1>5, AbleStays DEF Searched
    <3>6. ASSUME NEW k \in 1..3, Tried(i, k)', NEW e, e = Candidates[k]
          PROVE  /\ owner'[PlaceOf(e, i)'] # "none"
                 /\ Sole(i)' /\ e \in Able(i)' => e \in call'[i].writable
      <4>1. PlaceOf(e, i)' = PlaceOf(e, i)  BY <1>4, <1>5 DEF PlaceOf
      <4>2. /\ e \in Dirs /\ owner[PlaceOf(e, i)] # "none"
            /\ Sole(i) /\ e \in Able(i) => e \in call[i].writable
        BY <1>1, <1>2, <3>4, <3>6, CandidateDirs DEF Searched
      <4>3. call'[i].user = call[i].user /\ call'[i].writable = call[i].writable
        BY <1>4, <1>5
      <4>4. owner'[PlaceOf(e, i)] # "none" /\ (e \in Able(i)' => e \in Able(i))
        BY <1>1, <1>2, <1>3, <4>2, <4>3, AbleStays
      <4>5. Sole(i)' => Sole(i)  BY <1>6, <4>3, SoleStays
      <4> QED  BY <4>1, <4>2, <4>3, <4>4, <4>5
    <3> HIDE DEF c, d
    <3> QED
      BY <1>2, <1>4, <1>5, <3>1, <3>2, <3>3, <3>5, <3>6 DEF Searched, CallAt
  <2>2. CASE ~touches
    <3>1. /\ ~c.touched /\ c.next = call[i].next + 1
          /\ c.at = IF call[i].next = 3 THEN "validate" ELSE "probe"
      <4>1. c = ToNext(call[i])  BY <2>2
      <4> QED  BY <1>1, <1>2, <4>1, NextRecord
    <3>2. c.writable \subseteq Able(i)'
      BY <1>1, <1>2, <1>3, <1>4, <1>5, AbleStays DEF Searched
    <3>3. ~(Sole(i)' /\ d \in Able(i)')
      <4> SUFFICES ASSUME Sole(i)', d \in Able(i)' PROVE touches
        BY <2>2
      <4>1. MayWrite(owner', p, u)
        BY <1>2, <1>4, <1>5 DEF Able, PlaceOf, MayWrite
      <4>2. Sole(i)  BY <1>4, <1>5, <1>6, SoleStays
      <4>3. probe[p] = "none" \/ \E j \in Calls : call[j].user = probe[p]
        BY <1>2 DEF CheckInv, ProbeOwned
      <4> QED  BY <4>1, <4>2, <4>3 DEF Sole
    <3>4. owner'[PlaceOf(d, i)] # "none"  BY <1>2, <1>3
    <3> HIDE DEF c, d, p
    <3> QED
      BY <1>1, <1>3, <1>4, <1>5, <1>6, <3>1, <3>2, <3>3, <3>4, TriedOneMore DEF d
  <2> QED  BY <2>1, <2>2
<1> HIDE DEF c, p, d
<1>10. call[i].user \in {"none", c.user}  BY <1>4
<1>11. free' \in [{"tmp", "home"} -> Int]  BY <1>1 DEF CheckTypes
<1>12. \A q \in Places : probe'[q] \in {probe[q], "none", c.user}
  BY <1>4, <1>7
<1> QED
  BY <1>1, <1>3, <1>4, <1>7, <1>8, <1>9, <1>10, <1>11, <1>12, CallSteps


LEMMA RemoveKeeps ==
  ASSUME CheckInv, NEW i \in Calls, Remove(i)
  PROVE  CheckInv'
<1> DEFINE u == call[i].user
           d == Probed(i)
           p == ProbedAt(i)
           r == IF Removes(i) THEN [call[i] EXCEPT !.writable = @ \cup {d}]
                                    ELSE call[i]
           c == ToNext(r)
<1>1. /\ CheckTypes /\ Searched(i) /\ Chosen(i) /\ call[i] \in CallRecords
      /\ call[i].at = "probe" /\ CallAt(i, "probe") /\ call[i].touched
      /\ probe' = [probe EXCEPT ![p] = IF @ = u THEN "none" ELSE @]
      /\ CallStep(i, c) /\ free' = free /\ owner' = owner
  BY DEF CheckInv, CheckTypes, Remove, CallAt
<1>2. /\ u \in Users /\ u # "none" /\ call[i].next \in 1..3
      /\ d \in Dirs /\ p = PlaceOf(d, i) /\ p \in Places
      /\ d \in Able(i)
  BY <1>1, CandidateDirs, InPlaces
     DEF Searched, CallAt, CallRecords, Probed, ProbedAt, PlaceOf
<1>3. OwnerStays  BY <1>1 DEF OwnerStays
<1>4. /\ r \in CallRecords /\ r.at = "probe" /\ r.next = call[i].next
      /\ r.user = u /\ r.base = call[i].base
      /\ r.writable = IF Removes(i) THEN call[i].writable \cup {d}
                                          ELSE call[i].writable
  <2>1. CASE Removes(i)
    <3> DEFINE w == call[i].writable \cup {d}
    <3>1. w \in SUBSET Dirs  BY <1>1, <1>2 DEF CallRecords
    <3>2. r = [call[i] EXCEPT !.writable = w]  BY <2>1, <1>1 DEF CallRecords
    <3> HIDE DEF w, r, d
    <3>3. /\ r \in CallRecords /\ r.at = "probe" /\ r.next = call[i].next
          /\ r.user = u /\ r.base = call[i].base /\ r.writable = w
      BY <1>1, <3>1, <3>2 DEF CallRecords
    <3> QED  BY <2>1, <3>3 DEF w
  <2>2. CASE ~Removes(i)
    <3>1. r = call[i]  BY <2>2
    <3> HIDE DEF r
    <3> QED  BY <1>1, <2>2, <3>1
  <2> QED  BY <2>1, <2>2
<1> HIDE DEF r
<1>5. /\ c \in CallRecords /\ c.user = u /\ c.writable = r.writable
      /\ c.base = call[i].base /\ ~c.touched /\ c.next = call[i].next + 1
      /\ c.at = IF call[i].next = 3 THEN "validate" ELSE "probe"
  BY <1>2, <1>4, NextRecord
<1> HIDE DEF c
<1>6. call'[i] = c /\ \A j \in Calls \ {i} : call'[j] = call[j]
  BY <1>1 DEF CheckTypes, CallStep
<1>7. UsersStay  BY <1>5, <1>6 DEF UsersStay
<1>8. /\ probe' \in [Places -> Users \cup {"none"}]
      /\ \A q \in Places : probe'[q] \in {probe[q], "none", u}
  <2> HIDE DEF u, p
  <2> QED  BY <1>1, <1>2 DEF CheckTypes
<1>9. Chosen(i)'
  <2>1. c.at \notin {"passed", "denied"}  BY <1>5
  <2>2. call[i].writable \subseteq c.writable  BY <1>4, <1>5
  <2> QED  BY <1>1, <1>5, <1>6, <2>1, <2>2 DEF Chosen, CallAt
<1>10. Searched(i)'
  <2>1. Able(i) \subseteq Able(i)'  BY <1>1, <1>2, <1>3, <1>5, <1>6, AbleStays
  <2>2. c.writable \subseteq Able(i)'
    BY <1>1, <1>2, <1>4, <1>5, <2>1 DEF Searched
  <2>3. owner'[PlaceOf(d, i)] # "none"
    BY <1>1, <1>2, UsersAssumption DEF Able, MayWrite
  <2>4. ASSUME Sole(i)' PROVE d \in c.writable
    <3>1. Sole(i)  BY <1>5, <1>6, <1>7, <2>4, SoleStays
    <3>2. probe[p] = "none" \/ \E j \in Calls : call[j].user = probe[p]
      BY <1>2 DEF CheckInv, ProbeOwned
    <3>3. Removes(i)  BY <3>1, <3>2 DEF Sole, Removes
    <3> QED  BY <1>4, <1>5, <3>3
  <2>5. call[i].writable \subseteq call'[i].writable  BY <1>4, <1>5, <1>6
  <2> HIDE DEF d
  <2> QED
    BY <1>1, <1>3, <1>5, <1>6, <1>7, <2>2, <2>3, <2>4, <2>5, TriedOneMore DEF d
<1>11. call[i].user \in {"none", c.user}  BY <1>5
<1>12. \A q \in Places : probe'[q] \in {probe[q], "none", c.user}
  BY <1>5, <1>8
<1> QED
  BY <1>1, <1>3, <1>5, <1>8, <1>9, <1>10, <1>11, <1>12, CallSteps DEF CheckTypes

(* The directory selectTmpDir takes, when the check passes. *)
LEMMA PlaceChosen ==
  ASSUME NEW r \in CallRecords, PlacePasses(r),
         Selected(r.measured) = "home"
  PROVE  "home" \in r.writable
<1>1. r.measured \subseteq {"home"}
  BY DEF Selected, CallRecords, Dirs
<1> QED  BY <1>1 DEF PlacePasses, Selected

(* A step after the script that moves the call on: it keeps what it has     *)
(* chosen, or passes.                                                       *)
LEMMA MovesOn ==
  ASSUME CheckInv, NEW i \in Calls,
         NEW c \in CallRecords, CallStep(i, c),
         call[i].at \notin Probing, c.at \notin Probing,
         c.user = call[i].user, c.writable = call[i].writable,
         c.touched = call[i].touched, c.at # "denied",
         c.base = "home" => "home" \in c.writable,
         c.at = "passed" => c.base # "none",
         UNCHANGED <<owner, probe>>, free' \in [{"tmp", "home"} -> Int]
  PROVE  CheckInv'
<1>1. call'[i] = c  BY DEF CheckInv, CheckTypes, CallStep
<1>2. Chosen(i)'  BY <1>1 DEF Chosen, CallAt
<1>3. OwnerStays  BY DEF OwnerStays
<1> QED  BY <1>2, <1>3, LaterSteps DEF CheckInv, CheckTypes

LEMMA ValidateKeeps ==
  ASSUME CheckInv, NEW i \in Calls, Validate(i)
  PROVE  CheckInv'
<1>1. /\ CheckTypes /\ call[i] \in CallRecords /\ call[i].at = "validate"
      /\ Chosen(i) /\ UNCHANGED <<owner, probe>> /\ free' = free
  BY DEF CheckInv, CheckTypes, Validate, CallAt
<1>2. CASE ToolsPass /\ PlacePasses(call[i])
  <2> DEFINE b == IF Selected(call[i].measured) = "home" THEN "home"
                                                               ELSE "dback"
             c == [call[i] EXCEPT !.at = "passed", !.base = b]
  <2>1. CallStep(i, c)  BY <1>2 DEF Validate
  <2>2. b \in {"home", "dback"}  OBVIOUS
  <2>3. b = "home" => "home" \in call[i].writable
    BY <1>1, <1>2, PlaceChosen
  <2> HIDE DEF b
  <2>4. /\ c \in CallRecords /\ c.at = "passed" /\ c.base = b
        /\ c.user = call[i].user /\ c.writable = call[i].writable
        /\ c.touched = call[i].touched
    BY <1>1, <2>2 DEF CallRecords, Labels
  <2> HIDE DEF c
  <2> QED  BY <1>1, <2>1, <2>2, <2>3, <2>4, MovesOn DEF Probing, CheckTypes
<1>3. CASE ~(ToolsPass /\ PlacePasses(call[i]))
  <2> DEFINE c == [call[i] EXCEPT !.at = "failed"]
  <2>1. CallStep(i, c)  BY <1>3 DEF Validate
  <2>2. /\ c \in CallRecords /\ c.at = "failed" /\ c.base = call[i].base
        /\ c.user = call[i].user /\ c.writable = call[i].writable
        /\ c.touched = call[i].touched
    BY <1>1 DEF CallRecords, Labels
  <2> HIDE DEF c
  <2> QED
    BY <1>1, <2>1, <2>2, MovesOn DEF Probing, CheckTypes, Chosen
<1> QED  BY <1>2, <1>3


LEMMA EndKeeps ==
  ASSUME CheckInv, NEW i \in Calls,
         NotNeeded(i) \/ Fails(i)
  PROVE  CheckInv'
<1>1. PICK l \in {"done", "failed"} :
         CallStep(i, [call[i] EXCEPT !.at = l])
  BY DEF NotNeeded, Fails
<1> DEFINE c == [call[i] EXCEPT !.at = l]
<1>2. /\ CheckTypes /\ call[i] \in CallRecords /\ Chosen(i)
      /\ call[i].at \notin Probing
      /\ UNCHANGED <<owner, probe>> /\ free' = free
  BY DEF CheckInv, CheckTypes, NotNeeded, Fails, CallAt,
         Probing
<1>3. /\ c \in CallRecords /\ c.at = l /\ c.base = call[i].base
      /\ c.user = call[i].user /\ c.writable = call[i].writable
      /\ c.touched = call[i].touched
  BY <1>2 DEF CallRecords, Labels
<1>4. CallStep(i, c)  BY <1>1
<1> HIDE DEF c
<1> QED  BY <1>2, <1>3, <1>4, MovesOn DEF Probing, CheckTypes, Chosen

LEMMA FillKeeps ==
  ASSUME CheckInv,
         NEW i \in Calls, Fill(i)
  PROVE  CheckInv'
<1> DEFINE disk == Disk(call[i].base)
<1>1. PICK n \in 1..MaxRoom :
        /\ CallStep(i, [call[i] EXCEPT
                            !.at = IF n <= free[disk] THEN "stored" ELSE "failed",
                            !.size = IF n <= free[disk] THEN n ELSE free[disk]])
        /\ free' = [free EXCEPT ![disk] = IF n <= free[disk] THEN @ - n ELSE 0]
  BY DEF Fill
<1> DEFINE a == IF n <= free[disk] THEN "stored" ELSE "failed"
           s == IF n <= free[disk] THEN n ELSE free[disk]
           c == [call[i] EXCEPT !.at = a, !.size = s]
<1>2. /\ CheckTypes /\ call[i] \in CallRecords /\ Chosen(i)
      /\ call[i].at = "made" /\ UNCHANGED <<owner, probe>>
  BY DEF CheckInv, CheckTypes, Fill, CallAt
<1>3. /\ disk \in {"tmp", "home"} /\ n \in Int /\ free[disk] \in Int
  BY <1>2, RoomAssumption DEF CheckTypes, Disk
<1>4. a \in {"stored", "failed"} /\ s \in Int /\ CallStep(i, c)
  BY <1>1, <1>3
<1>5. free' \in [{"tmp", "home"} -> Int]
  <2> HIDE DEF disk
  <2> QED  BY <1>1, <1>2, <1>3 DEF CheckTypes
<1> HIDE DEF a, s
<1>6. /\ c \in CallRecords /\ c.at = a /\ c.base = call[i].base
      /\ c.user = call[i].user /\ c.writable = call[i].writable
      /\ c.touched = call[i].touched
  BY <1>2, <1>4 DEF CallRecords, Labels
<1> HIDE DEF c
<1> QED
  BY <1>2, <1>4, <1>5, <1>6, MovesOn DEF Probing, CheckTypes, Chosen

LEMMA CleanUpKeeps ==
  ASSUME CheckInv, NEW i \in Calls, CleanUp(i)
  PROVE  CheckInv'
<1>1. PICK s \in {0, call[i].size} :
        CallStep(i, [call[i] EXCEPT !.at = "done", !.size = s])
  <2>1. call[i] \in CallRecords  BY DEF CheckInv, CheckTypes
  <2>2. [call[i] EXCEPT !.at = "done"]
          = [call[i] EXCEPT !.at = "done", !.size = call[i].size]
    BY <2>1 DEF CallRecords
  <2>3. \/ CallStep(i, [call[i] EXCEPT !.at = "done", !.size = 0])
        \/ CallStep(i, [call[i] EXCEPT !.at = "done"])
    BY DEF CleanUp
  <2> QED  BY <2>2, <2>3
<1> DEFINE disk == Disk(call[i].base)
           c == [call[i] EXCEPT !.at = "done", !.size = s]
<1>2. /\ CheckTypes /\ call[i] \in CallRecords /\ Chosen(i)
      /\ call[i].at = "stored" /\ UNCHANGED <<owner, probe>>
      /\ free' \in {free, [free EXCEPT ![disk] = @ + call[i].size]}
  BY DEF CheckInv, CheckTypes, CleanUp, CallAt
<1>3. /\ disk \in {"tmp", "home"} /\ free[disk] \in Int
      /\ call[i].size \in Int /\ s \in Int
  BY <1>2 DEF CheckTypes, Disk, CallRecords
<1>4. free' \in [{"tmp", "home"} -> Int]
  <2> HIDE DEF disk
  <2> QED  BY <1>2, <1>3 DEF CheckTypes
<1>5. /\ c \in CallRecords /\ c.at = "done" /\ c.base = call[i].base
      /\ c.user = call[i].user /\ c.writable = call[i].writable
      /\ c.touched = call[i].touched
  BY <1>2, <1>3 DEF CallRecords, Labels
<1>6. CallStep(i, c)  BY <1>1
<1> HIDE DEF c
<1> QED
  BY <1>2, <1>4, <1>5, <1>6, MovesOn DEF Probing, CheckTypes, Chosen

LEMMA MakeDirKeeps ==
  ASSUME CheckInv, NEW i \in Calls, MakeDir(i)
  PROVE  CheckInv'
<1> DEFINE u == call[i].user
           p == BasePlace(i)
           o == Made(owner, p, u)
           l == IF MayWrite(o, p, u) THEN "made" ELSE "denied"
           c == [call[i] EXCEPT !.at = l]
<1>1. /\ CheckTypes /\ call[i] \in CallRecords /\ call[i].at = "passed"
      /\ CallAt(i, "passed") /\ Searched(i) /\ Chosen(i)
      /\ CallStep(i, c) /\ probe' = probe /\ free' = free
      /\ owner' = IF MayWrite(o, p, u) THEN o ELSE owner
  BY DEF CheckInv, CheckTypes, MakeDir, CallAt
<1>2. /\ u \in Users /\ u # "none" /\ call[i].base \in {"home", "dback"}
      /\ call[i].base \in Dirs
      /\ p = Place(call[i].base, u) /\ p = PlaceOf(call[i].base, i)
      /\ p \in Places
  BY <1>1, InPlaces
     DEF Searched, Chosen, CallAt, CallRecords, BasePlace, PlaceOf,
         Dirs
<1>3. /\ c \in CallRecords /\ c.at = l /\ c.base = call[i].base /\ c.user = u
      /\ c.writable = call[i].writable /\ c.touched = call[i].touched
  <2>1. l \in Labels  BY DEF Labels
  <2> HIDE DEF l
  <2> QED  BY <1>1, <2>1 DEF CallRecords
<1>4. l \in {"made", "denied"}  OBVIOUS
<1>5. /\ OwnerStays /\ owner' \in [Places -> Owners]
      /\ \A v \in Users :
            owner'[Place("dback", v)] \in Users \cup {"none"}
  <2>1. CASE owner' = o
    <3> HIDE DEF u, p
    <3> QED  BY <1>1, <1>2, <2>1, MadeStays
  <2>2. CASE owner' = owner  BY <1>1, <2>2 DEF OwnerStays, CheckTypes
  <2> QED  BY <1>1, <2>1, <2>2
<1>6. call'[i] = c  BY <1>1 DEF CheckTypes, CallStep
<1>7. ASSUME l = "denied"
      PROVE  call[i].base = "dback" /\ owner'[p] \in Users \ {u}
  <2>1. owner' = owner /\ ~MayWrite(o, p, u)  BY <1>1, <1>7
  <2>2. o[p] = IF owner[p] = "none" THEN u ELSE owner[p]
    BY <1>1, <1>2 DEF Made, CheckTypes
  <2>3. owner[p] \notin {"none", u, "everyone"}
    BY <2>1, <2>2 DEF MayWrite
  <2>4. call[i].base = "dback"
    <3> SUFFICES ASSUME call[i].base = "home" PROVE FALSE  BY <1>2
    <3>1. "home" \in Able(i)  BY <1>1, <1>2 DEF Chosen, Searched
    <3> QED  BY <1>2, <2>3, <3>1 DEF Able, MayWrite
  <2>5. owner[p] \in Users \cup {"none"}  BY <1>1, <1>2, <2>4 DEF CheckTypes
  <2> QED  BY <2>1, <2>3, <2>4, <2>5
<1>8. Chosen(i)'
  <2>1. BasePlace(i)' = p
    BY <1>3, <1>6 DEF BasePlace
  <2>2. call'[i].base = "home" => "home" \in call'[i].writable
    BY <1>1, <1>3, <1>6 DEF Chosen
  <2> HIDE DEF c, p, o
  <2> QED  BY <1>3, <1>6, <1>7, <2>1, <2>2 DEF Chosen, CallAt
<1> HIDE DEF c, l
<1>9. /\ call[i].at \notin Probing /\ c.at \notin Probing
      /\ free' \in [{"tmp", "home"} -> Int]
  BY <1>1, <1>3, <1>4 DEF Probing, CheckTypes
<1> QED  BY <1>1, <1>3, <1>5, <1>8, <1>9, LaterSteps

LEMMA CheckSteps ==
  ASSUME CheckInv,
         [PreflightNext]_preflightVars
  PROVE  CheckInv'
<1>1. ASSUME NEW i \in Calls, Script(i) PROVE CheckInv'
  BY <1>1, BeginKeeps, MeasureKeeps, TouchKeeps, RemoveKeeps DEF Script
<1>2. ASSUME NEW i \in Calls, Validate(i) PROVE CheckInv'
  BY <1>2, ValidateKeeps
<1>3. ASSUME NEW i \in Calls, Strategy(i) PROVE CheckInv'
  BY <1>3, EndKeeps, MakeDirKeeps, FillKeeps, CleanUpKeeps DEF Strategy
<1>4. CASE UNCHANGED preflightVars
  BY <1>4 DEF preflightVars, CheckInv, CheckTypes, ProbeOwned, Searched, Chosen,
              Tried, Sole, Able, PlaceOf, CallAt, Probed,
              BasePlace
<1> QED  BY <1>1, <1>2, <1>3, <1>4 DEF PreflightNext

LEMMA CheckInvariant == PreflightSpec => []CheckInv
<1>1. PreflightInit => CheckInv  BY CheckInit
<1>2. CheckInv /\ [PreflightNext]_preflightVars => CheckInv'  BY CheckSteps
<1> QED  BY <1>1, <1>2, PTL DEF PreflightSpec

(* The test files of concurrent checks do not deceive them: a directory is  *)
(* reported writable only when the user may write into it, and, while one   *)
(* user is at work, always then.                                            *)
THEOREM ProbesAreTrue == PreflightSpec => []ProbeIsTrue
<1>1. CheckInv => ProbeIsTrue
  <2> SUFFICES ASSUME CheckInv, NEW i \in Calls, ~CallAt(i, "idle")
               PROVE  /\ call[i].writable \subseteq Able(i)
                      /\ call[i].at \notin Probing /\ Sole(i)
                           => Able(i) \subseteq call[i].writable
    BY DEF ProbeIsTrue, Able, PlaceOf, Sole
  <2>1. Searched(i) /\ call[i].user # "none"  BY DEF CheckInv, Searched
  <2>2. ASSUME call[i].at \notin Probing, Sole(i), NEW d \in Able(i)
        PROVE  d \in call[i].writable
    <3>1. PICK k \in 1..3 : Candidates[k] = d
      BY CandidateDirs DEF Able
    <3> QED  BY <2>1, <2>2, <3>1 DEF Searched, Tried
  <2> QED  BY <2>1, <2>2 DEF Searched
<1> QED  BY <1>1, CheckInvariant, PTL

(* Once the check has passed, only another user's /tmp/dback keeps a call   *)
(* from making its temporary directory.                                     *)
THEOREM DenialsAreExplained == PreflightSpec => []DeniedByAnotherUser
<1>1. CheckInv => DeniedByAnotherUser
  BY DEF CheckInv, Chosen, DeniedByAnotherUser
<1> QED  BY <1>1, CheckInvariant, PTL
=============================================================================
