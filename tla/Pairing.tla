------------------------------ MODULE Pairing ------------------------------
(***************************************************************************)
(* Pairing the handset with a BigFred server.                              *)
(*                                                                         *)
(* Three tasks take part.  The domain keeps the flags of the flow and      *)
(* decides (crates/firmware/src/domain/task.rs), the HTTP task obtains a   *)
(* code, or the state of the last pairing (net/pairing_http.rs), and the   *)
(* adapter of the session types the code in, digit by digit, with the      *)
(* function keys of a sentinel loco on throttle 0                          *)
(* (crates/proto/src/bigfred/adapter.rs).                                  *)
(*                                                                         *)
(* The locos of throttle 0 are the slot that pairing disturbs, and the     *)
(* only one here; a command that drives it is one command, whatever it     *)
(* says.  The selected server is always the same BigFred.  Channels do not *)
(* fill up: ThrottleControl has what happens when they do.  The server is  *)
(* external, as docs/plans/loco_sources_and_bigfred_pairing says it is: a  *)
(* wrong code is not answered, a right one releases the sentinel.          *)
(***************************************************************************)
EXTENDS Naturals, SequencesExt

CONSTANTS
  Locos,       \* locos the operator drives
  Sentinel,    \* the loco "Pair with BigFred"
  Codes,       \* pairing codes
  None,        \* Option::None, and the `*` of a report
  CodeLength,  \* PAIRING_CODE_LEN
  MaxTroubles  \* bound on the operator's inputs, lost connections, failed
               \* requests, expired codes and pairings together

ASSUME PairingAssumption ==
  /\ Sentinel \notin Locos /\ None \notin Locos \cup {Sentinel} \cup Codes
  /\ CodeLength \in Nat \ {0}
  /\ MaxTroubles \in Nat

VARIABLES
  domain,   \* the flags of the domain task, its slot, `out`, PAIRING_HTTP_CTRL
  conn,     \* the CONN watch
  cmds,     \* PROTO_COMMANDS
  events,   \* PROTO_EVENTS and the bytes on their way to it
  adapter,  \* BigFredAdapter.pairing
  http,     \* the request the HTTP task works on
  result,   \* PAIRING_HTTP_RESULT
  server,   \* external: the BigFred server
  troubles

vars == <<domain, conn, cmds, events, adapter, http, result, server, troubles>>

ConnState == {"Connecting", "Connected"}
Loco == Locos \cup {Sentinel}
Op == {"Pair", "Session"}

Command ==
  [op : {"Pair"}, code : Codes] \cup [op : {"AddLoco"}, loco : Loco]
    \cup [op : {"Release", "Drive"}]

Report ==
  [op : {"Added"}, loco : Loco] \cup [op : {"Removed"}, loco : Loco \cup {None}]
    \cup [op : {"NotPaired"}]

Event == Report \cup [op : {"RosterEntry", "PairingRequired", "PairingSucceeded", "PairingFailed"}]

Result ==
  [op : {"Code"}, code : Codes] \cup [op : {"Session"}, paired : BOOLEAN]
    \cup [op : {"Failed"}]

DomainTask ==
  [uiConn : ConnState, active : BOOLEAN, tried : BOOLEAN, byUser : BOOLEAN,
   paired : BOOLEAN, restored : BOOLEAN, creds : BOOLEAN,
   code : Codes \cup {None}, screen : {"throttle", "pairing", "wait"},
   consist : Seq(Loco), request : Op \cup {None}, out : Seq(Command)]

Adapter ==
  [st : {"idle", "sending", "awaiting", "release"},
   code : Codes \cup {None}, step : 0..2 * CodeLength - 1]

Server ==
  [paired : BOOLEAN, valid : Codes \cup {None}, holds : SUBSET Loco,
   typed : Seq([code : Codes, digit : 1..CodeLength]), owes : BOOLEAN]

TypeOK ==
  /\ domain \in DomainTask /\ domain.out = <<>>
  /\ conn \in ConnState
  /\ cmds \in Seq(Command) /\ events \in Seq(Event)
  /\ adapter \in Adapter
  /\ http \in Op \cup {None} /\ result \in Result \cup {None}
  /\ server \in Server
  /\ troubles \in 0..MaxTroubles

Idle == [st |-> "idle", code |-> None, step |-> 0]

Init ==
  /\ domain \in [uiConn : {"Connecting"}, active : {FALSE}, tried : {FALSE},
                 byUser : {FALSE}, paired : {FALSE}, restored : {FALSE},
                 creds : BOOLEAN, code : Codes \cup {None},
                 screen : {"throttle"}, consist : {<<>>} \cup {<<l>> : l \in Locos},
                 request : {None}, out : {<<>>}]
  /\ conn = "Connecting"
  /\ cmds = <<>> /\ events = <<>>
  /\ adapter = Idle
  /\ http = None /\ result = None
  /\ server \in [paired : BOOLEAN, valid : Codes \cup {None}, holds : {{}}, typed : {<<>>},
                 owes : {FALSE}]
  /\ troubles = 0

-----------------------------------------------------------------------------
(* The domain.  An operator maps the domain before to the domain after;    *)
(* what is sent collects in `out`.                                         *)

Push(d, c) == [d EXCEPT !.out = Append(@, c)]

\* reacquire_session_locos, for throttle 0: its locos, then its speed.
Reacquire(d) ==
  [d EXCEPT
     !.out = @ \o [i \in DOMAIN d.consist |-> [op |-> "AddLoco", loco |-> d.consist[i]]]
               \o (IF d.consist = <<>> THEN <<>> ELSE <<[op |-> "Drive"]>>),
     !.restored = TRUE]

\* start_handset_http: one request may wait while the HTTP task works on one.
CanStart(d) == d.creds /\ d.request = None

Start(d, op) == [d EXCEPT !.request = op]

\* begin_pairing_flow, with what its callers show.
BeginPairing(d) ==
  IF d.active THEN d
  ELSE LET b == [d EXCEPT !.active = TRUE, !.byUser = FALSE]
       IN  IF b.code # None
             THEN Push(b, [op |-> "Pair", code |-> b.code])
           ELSE IF ~b.tried /\ CanStart(b)
             THEN Start([b EXCEPT !.tried = TRUE], "Pair")
           ELSE [b EXCEPT !.screen = "pairing"]

OnPairingRequired(d) == IF d.paired THEN d ELSE BeginPairing(d)

OnNotPaired(d) == BeginPairing([d EXCEPT !.paired = FALSE])

OnPairingSucceeded(d) ==
  [Reacquire(d) EXCEPT
     !.active = FALSE, !.tried = FALSE, !.byUser = FALSE, !.paired = TRUE,
     !.screen = IF d.byUser THEN "throttle" ELSE @]

\* Mutant of OnPairingFailed: the flags stay when pairing is given up.
OnPairingFailedStaysActive(d) ==
  LET f == [d EXCEPT !.paired = FALSE, !.code = None]
  IN  IF ~f.creds
        THEN [f EXCEPT !.active = TRUE, !.byUser = FALSE, !.screen = "pairing"]
      ELSE IF ~f.tried /\ CanStart(f)
        THEN Start([f EXCEPT !.active = TRUE, !.tried = TRUE], "Pair")
      ELSE f

\* Mutant of OnPairingFailed: a code is asked for once and never again.
OnPairingFailedStaysTried(d) ==
  LET f == [d EXCEPT !.paired = FALSE, !.code = None]
  IN  IF ~f.creds
        THEN [f EXCEPT !.active = TRUE, !.byUser = FALSE, !.screen = "pairing"]
      ELSE IF ~f.tried /\ CanStart(f)
        THEN Start([f EXCEPT !.active = TRUE, !.tried = TRUE], "Pair")
      ELSE [f EXCEPT !.active = FALSE, !.byUser = FALSE]

OnPairingFailed(d) ==
  LET f == [d EXCEPT !.paired = FALSE, !.code = None]
  IN  IF ~f.creds
        THEN [f EXCEPT !.active = TRUE, !.byUser = FALSE, !.screen = "pairing"]
      ELSE IF ~f.tried /\ CanStart(f)
        THEN Start([f EXCEPT !.active = TRUE, !.tried = TRUE], "Pair")
      ELSE [f EXCEPT !.active = FALSE, !.tried = FALSE, !.byUser = FALSE]

OnAdded(d, l) ==
  IF \E i \in DOMAIN d.consist : d.consist[i] = l THEN d
  ELSE [d EXCEPT !.consist = Append(@, l)]

OnRemoved(d, l) ==
  LET pos == CHOOSE i \in DOMAIN d.consist : d.consist[i] = l
  IN  IF l = None THEN [d EXCEPT !.consist = <<>>]
      ELSE IF \A i \in DOMAIN d.consist : d.consist[i] # l THEN d
      ELSE [d EXCEPT !.consist = RemoveAt(@, pos)]

OnEvent(d, ev) ==
  CASE ev.op = "NotPaired"        -> OnNotPaired(d)
    [] ev.op = "PairingRequired"  -> OnPairingRequired(d)
    [] ev.op = "PairingSucceeded" -> OnPairingSucceeded(d)
    [] ev.op = "PairingFailed"    -> OnPairingFailed(d)
    [] ev.op = "RosterEntry"      -> d
    [] ev.op = "Added"            -> OnAdded(d, ev.loco)
    [] ev.op = "Removed"          -> OnRemoved(d, ev.loco)

(* The CONN watch: with credentials, a new session first asks the server   *)
(* whether the last pairing still holds; otherwise it reacquires at once.  *)
SeeConn(d) ==
  LET u == [d EXCEPT !.uiConn = conn]
  IN  IF d.uiConn = conn THEN d
      ELSE IF conn = "Connecting"
        THEN [u EXCEPT !.active = FALSE, !.tried = FALSE, !.byUser = FALSE,
                       !.paired = FALSE, !.restored = FALSE]
      ELSE IF CanStart(u) THEN Start([u EXCEPT !.active = TRUE], "Session")
      ELSE IF ~u.restored THEN Reacquire([u EXCEPT !.out = <<>>])
      ELSE u

OnCode(d, c) == Push([d EXCEPT !.code = c], [op |-> "Pair", code |-> c])

OnSessionPaired(d) ==
  LET p == [d EXCEPT !.active = FALSE, !.tried = FALSE, !.paired = TRUE]
  IN  IF p.restored THEN p ELSE Reacquire(p)

OnSessionUnpaired(d) ==
  LET u == [d EXCEPT !.paired = FALSE]
  IN  IF CanStart(u)
        THEN Start([u EXCEPT !.active = TRUE, !.tried = TRUE], "Pair")
      ELSE [u EXCEPT !.active = FALSE, !.tried = FALSE]

\* The error is shown, over whatever was.
OnHttpFailed(d) ==
  [d EXCEPT !.active = FALSE, !.tried = FALSE,
            !.screen = IF d.creds THEN @ ELSE "pairing"]

\* The result of a request counts when the server it went to is connected.
SeeResult(d) ==
  IF result = None \/ conn # "Connected" THEN d
  ELSE IF result.op = "Code" THEN OnCode(d, result.code)
  ELSE IF result.op = "Failed" THEN OnHttpFailed(d)
  ELSE IF result.paired THEN OnSessionPaired(d)
  ELSE OnSessionUnpaired(d)

Trouble == troubles < MaxTroubles /\ troubles' = troubles + 1

\* One iteration of the loop whose branch has made d of the domain.
Iteration(d) ==
  LET u == SeeResult(SeeConn(d))
  IN  /\ domain' = [u EXCEPT !.out = <<>>]
      /\ cmds' = cmds \o u.out
      /\ result' = None
      /\ UNCHANGED <<conn, adapter, http, server>>

DomainTick == Iteration(domain) /\ UNCHANGED <<events, troubles>>

DomainEvent ==
  /\ events # <<>>
  /\ Iteration(OnEvent(domain, Head(events)))
  /\ events' = Tail(events)
  /\ UNCHANGED troubles

-----------------------------------------------------------------------------
(* The operator.  The overlay of a pairing delays inputs for a while,      *)
(* which is one of the orders in which they may come.                      *)

Input ==
  /\ Trouble
  /\ UNCHANGED events

UserAcquire(l) ==
  /\ Input /\ domain.screen = "throttle"
  /\ LET d == IF domain.consist = <<>> THEN domain ELSE Push(domain, [op |-> "Release"])
     IN  Iteration(Push([d EXCEPT !.consist = <<l>>], [op |-> "AddLoco", loco |-> l]))

UserRelease ==
  /\ Input /\ domain.screen = "throttle" /\ domain.consist # <<>>
  /\ Iteration(Push([domain EXCEPT !.consist = <<>>], [op |-> "Release"]))

\* Typed into the editor, which the menu opens at any time.
UserPairs(c) ==
  /\ Input
  /\ Iteration(Push([domain EXCEPT !.active = TRUE, !.byUser = TRUE, !.code = c, !.screen = "wait"],
                    [op |-> "Pair", code |-> c]))

\* Not counted: a screen can always be left.
UserCancels ==
  /\ domain.screen # "throttle"
  /\ Iteration([domain EXCEPT !.screen = "throttle"])
  /\ UNCHANGED <<events, troubles>>

(* Nor is driving.  It matters here when the server refuses it; more of it *)
(* while a command is on its way brings nothing new.                       *)
UserDrives ==
  /\ domain.screen = "throttle" /\ domain.consist # <<>>
  /\ cmds = <<>> /\ events = <<>> /\ ~server.paired
  /\ Iteration(Push(domain, [op |-> "Drive"]))
  /\ UNCHANGED <<events, troubles>>

User ==
  \/ \E l \in Locos : UserAcquire(l)
  \/ UserRelease
  \/ \E c \in Codes : UserPairs(c)
  \/ UserCancels

-----------------------------------------------------------------------------
(* The HTTP task: one request at a time, each answered into a channel that *)
(* holds one result.                                                       *)

HttpTakes ==
  /\ http = None /\ domain.request # None
  /\ http' = domain.request
  /\ domain' = [domain EXCEPT !.request = None]
  /\ UNCHANGED <<conn, cmds, events, adapter, result, server, troubles>>

Answer(op, r) ==
  /\ http = op /\ http' = None
  /\ result = None /\ result' = r
  /\ UNCHANGED <<domain, conn, cmds, events, adapter>>

\* The server makes up a code, which replaces the one before.
HttpPair(c) ==
  /\ Answer("Pair", [op |-> "Code", code |-> c])
  /\ server' = [server EXCEPT !.valid = c]
  /\ UNCHANGED troubles

HttpSession ==
  /\ Answer("Session", [op |-> "Session", paired |-> server.paired])
  /\ UNCHANGED <<server, troubles>>

HttpFails ==
  /\ \E op \in Op : Answer(op, [op |-> "Failed"])
  /\ Trouble
  /\ UNCHANGED server

-----------------------------------------------------------------------------
(* The session task and its adapter, and how the server answers.           *)

(* The server holds the sentinel for a handset that is not paired, and     *)
(* starts the code anew: the one assumption here that no document makes.   *)
ServerAdds(l) ==
  IF l = Sentinel \/ server.paired
    THEN /\ server' = [server EXCEPT !.holds = @ \cup {l},
                                     !.typed = IF l = Sentinel THEN <<>> ELSE @]
         /\ events' = Append(events, [op |-> "Added", loco |-> l])
    ELSE /\ events' = Append(events, [op |-> "NotPaired"])
         /\ UNCHANGED server

ServerReleases ==
  /\ server' = [server EXCEPT !.holds = {}, !.typed = <<>>]
  /\ events' = IF server.holds = {} THEN events
               ELSE Append(events, [op |-> "Removed", loco |-> None])

\* The sentinel collects the digits; a wrong code is forgotten, unanswered.
ServerHears(digit) ==
  LET typed == Append(server.typed, digit)
      right == server.valid # None
                 /\ typed = [i \in 1..CodeLength |-> [code |-> server.valid, digit |-> i]]
  IN  server' =
        IF server.paired \/ Sentinel \notin server.holds THEN server
        ELSE IF right THEN [server EXCEPT !.paired = TRUE, !.valid = None, !.typed = <<>>, !.owes = TRUE]
        ELSE [server EXCEPT !.typed = IF Len(typed) = CodeLength THEN <<>> ELSE typed]

\* encode: a command for a loco goes through, a code starts the typing.
Encode(c) ==
  CASE c.op = "Pair"    -> adapter' = [st |-> "sending", code |-> c.code, step |-> 0]
                             /\ ServerAdds(Sentinel)
    [] c.op = "AddLoco" -> ServerAdds(c.loco) /\ UNCHANGED adapter
    [] c.op = "Release" -> ServerReleases /\ UNCHANGED adapter
    [] c.op = "Drive"   ->
         /\ events' = IF server.paired THEN events ELSE Append(events, [op |-> "NotPaired"])
         /\ UNCHANGED <<adapter, server>>

Forward ==
  /\ conn = "Connected" /\ cmds # <<>>
  /\ Encode(Head(cmds))
  /\ cmds' = Tail(cmds)
  /\ UNCHANGED <<domain, conn, http, result, troubles>>

(* The server lets go of the sentinel and says that the handset is paired; *)
(* decode makes an event of that, and the adapter has a sentinel to        *)
(* release.                                                                *)
PairedAs ==
  /\ conn = "Connected" /\ server.owes
  /\ server' = [server EXCEPT !.owes = FALSE, !.holds = @ \ {Sentinel}]
  /\ adapter' = [Idle EXCEPT !.st = "release"]
  /\ events' = events \o <<[op |-> "Removed", loco |-> Sentinel], [op |-> "PairingSucceeded"]>>
  /\ UNCHANGED <<domain, conn, cmds, http, result, troubles>>

(* SESSION_TICK and RECONNECT_MIN_MS are ages for the other tasks: the     *)
(* domain has worked off its events, the HTTP task has taken its request.  *)
OthersHaveRun ==
  /\ events = <<>> /\ domain.uiConn = conn
  /\ domain.request = None \/ http # None

\* Mutant of PollSending: one step too many.
PollSendingLate ==
  /\ adapter.st = "sending"
  /\ adapter' = IF adapter.step = 2 * CodeLength THEN [Idle EXCEPT !.st = "awaiting"]
                ELSE [adapter EXCEPT !.step = @ + 1]
  /\ IF adapter.step % 2 = 0
       THEN ServerHears([code |-> adapter.code, digit |-> adapter.step \div 2 + 1])
       ELSE UNCHANGED server
  /\ UNCHANGED events

(* poll, after SESSION_TICK without traffic: a digit goes on at an even    *)
(* step and off at an odd one.                                             *)
PollSending ==
  /\ adapter.st = "sending"
  /\ adapter' = IF adapter.step + 1 = 2 * CodeLength THEN [Idle EXCEPT !.st = "awaiting"]
                ELSE [adapter EXCEPT !.step = @ + 1]
  /\ IF adapter.step % 2 = 0
       THEN ServerHears([code |-> adapter.code, digit |-> adapter.step \div 2 + 1])
       ELSE UNCHANGED server
  /\ UNCHANGED events

\* PAIRING_TIMEOUT_TICKS have passed.
PollTimeout ==
  /\ adapter.st = "awaiting"
  /\ adapter' = Idle
  /\ events' = Append(events, [op |-> "PairingFailed"])
  /\ UNCHANGED server

PollRelease ==
  /\ adapter.st = "release"
  /\ adapter' = Idle
  /\ ServerReleases

Poll ==
  /\ conn = "Connected" /\ cmds = <<>> /\ OthersHaveRun
  /\ PollSending \/ PollTimeout \/ PollRelease
  /\ UNCHANGED <<domain, conn, cmds, http, result, troubles>>

(* A new adapter.  The roster of a handset that is not paired lists the    *)
(* sentinel.                                                               *)
Connect ==
  /\ conn = "Connecting" /\ OthersHaveRun
  /\ conn' = "Connected"
  /\ adapter' = Idle
  /\ events' = IF server.paired THEN <<>>
               ELSE <<[op |-> "RosterEntry"], [op |-> "PairingRequired"]>>
  /\ UNCHANGED <<domain, cmds, http, result, server, troubles>>

(* What is still on its way is lost.  A connection lasts longer than a     *)
(* tick of the domain.                                                     *)
Lose ==
  /\ conn = "Connected" /\ domain.uiConn = conn
  /\ Trouble
  /\ conn' = "Connecting"
  /\ adapter' = Idle
  /\ \E n \in 0..Len(events) : events' = SubSeq(events, 1, n)
  /\ server' = [server EXCEPT !.holds = {}, !.typed = <<>>, !.owes = FALSE]
  /\ UNCHANGED <<domain, cmds, http, result>>

(* A code lives for minutes; a pairing for days without a connection, in   *)
(* which every request comes to an end.                                    *)
ExpireCode ==
  /\ server.valid # None
  /\ server' = [server EXCEPT !.valid = None]

ExpirePairing ==
  /\ server.paired /\ conn = "Connecting"
  /\ domain.request = None /\ http = None /\ result = None
  /\ server' = [server EXCEPT !.paired = FALSE]

Expire ==
  /\ Trouble
  /\ ExpireCode \/ ExpirePairing
  /\ UNCHANGED <<domain, conn, cmds, events, adapter, http, result>>

-----------------------------------------------------------------------------

Domain == DomainTick \/ DomainEvent

Http == HttpTakes \/ (\E c \in Codes : HttpPair(c)) \/ HttpSession

Session == Forward \/ PairedAs \/ Poll \/ Connect

Next == Domain \/ User \/ UserDrives \/ Http \/ HttpFails \/ Session \/ Lose \/ Expire

(* Every task is polled and every wait of theirs has a timeout; traffic    *)
(* leaves a quiet tick now and then, if not always; the operator leaves    *)
(* the screens of a pairing and drives.                                    *)
Fairness ==
  /\ WF_vars(DomainTick) /\ WF_vars(DomainEvent)
  /\ WF_vars(Http)
  /\ WF_vars(Forward) /\ WF_vars(PairedAs) /\ SF_vars(Poll) /\ WF_vars(Connect)
  /\ WF_vars(UserCancels) /\ WF_vars(UserDrives)

Spec == Init /\ [][Next]_vars

FairSpec == Spec /\ Fairness

-----------------------------------------------------------------------------
(* Properties.                                                             *)

(* A pairing that needs no operator comes to an end.  While pairing_active *)
(* is set, the handset ignores the server's word that it is not paired, so *)
(* that a code that expired, a failed request or a lost connection must    *)
(* not leave it set.                                                       *)
PairingIsResolved ==
  domain.active /\ domain.creds ~> ~domain.active \/ domain.screen # "throttle"

(* With login and PIN the handset gets paired: whatever failed before, once *)
(* the connection lasts and a loco is driven, the server ends up with the  *)
(* pairing.                                                                *)
PairsInTheEnd ==
  domain.creds /\ <>[](conn = "Connected" /\ domain.consist # <<>>) => <>[](server.paired)

Held == {domain.consist[i] : i \in DOMAIN domain.consist}

(* Pairing does not cost the operator a loco: only acquire and release     *)
(* take a loco from the slot.                                              *)
LocosStay ==
  [][(\E l \in Locos : UserAcquire(l)) \/ UserRelease \/ Held \cap Locos \subseteq Held']_vars
=============================================================================
