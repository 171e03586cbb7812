----------------------------- MODULE Reconnect -----------------------------
(***************************************************************************)
(* What becomes of the driving state when the transport goes away and      *)
(* comes back.                                                             *)
(*                                                                         *)
(* The session task (crates/firmware/src/net/session.rs) tells the domain  *)
(* through the CONN watch, of which the domain sees the latest value once  *)
(* per iteration (crates/firmware/src/domain/task.rs:983).  On Connected   *)
(* it drops what the iteration has buffered and acquires its locos again;  *)
(* PROTO_COMMANDS and PROTO_EVENTS survive from one session to the next.   *)
(*                                                                         *)
(* The selected server does not pair here, so nothing defers the           *)
(* reacquire.  The station is external: it forgets its throttles when the  *)
(* connection goes, and either keeps the speed of a loco or stops it.      *)
(***************************************************************************)
EXTENDS DomainState

CONSTANTS
  Depth,          \* PROTO_COMMANDS_DEPTH
  EventsDepth,    \* PROTO_EVENTS_DEPTH
  Saved,          \* persist.locos, in order
  Inputs,         \* the controls the operator uses
  Reports,        \* what the station reports: "slot", "speed"
  MaxOps,         \* bound on operator inputs
  MaxDrops,       \* bound on lost connections
  MaxTroubles     \* bound on both together

ASSUME ReconnectAssumption ==
  /\ Depth \in Nat \ {0} /\ EventsDepth \in Nat \ {0}
  /\ MaxOps \in Nat /\ MaxDrops \in Nat /\ MaxTroubles \in Nat
  /\ Saved \in Seq([throttle : Throttle, loco : Locos]) /\ Len(Saved) <= CmdBuf
  /\ IsFiniteSet(Locos)

VARIABLES
  state,      \* DomainState
  seen,       \* ui.conn
  restored,   \* restored_this_session
  conn,       \* the CONN watch
  phase,      \* session task: "backoff", "connecting", "running"
  link,       \* the connection itself: "down", "up", "dead" (half-open)
  cmds,       \* PROTO_COMMANDS
  events,     \* PROTO_EVENTS and the bytes on their way to it
  served,     \* station: locos each throttle controls
  locoSpeed,  \* station: speed of each loco
  wanted,     \* history: the speed the operator asked of the loco in a slot
  intact,     \* history: nothing was dropped since the session came up
  ops, drops  \* inputs given, connections lost

session == <<conn, phase, link, drops>>
station == <<served, locoSpeed>>
vars == <<state, seen, restored, session, cmds, events, station, wanted, intact, ops>>

ConnState == {"Disconnected", "Connecting", "Connected"}

TypeOK ==
  /\ state \in Domain
  /\ conn \in ConnState /\ seen \in ConnState /\ restored \in BOOLEAN
  /\ phase \in {"backoff", "connecting", "running"}
  /\ link \in {"down", "up", "dead"}
  /\ cmds \in Seq(Command) /\ Len(cmds) <= Depth
  /\ events \in Seq(Event) /\ Len(events) <= EventsDepth
  /\ served \in [Throttle -> SUBSET Locos]
  /\ locoSpeed \in [Locos -> Speed]
  /\ wanted \in [Throttle -> Speed \cup {None}]
  /\ intact \in BOOLEAN
  /\ ops \in 0..MaxOps /\ drops \in 0..MaxDrops

Init ==
  /\ state = New
  /\ seen = "Disconnected" /\ restored = FALSE
  /\ conn = "Disconnected" /\ phase = "backoff" /\ link = "down" /\ drops = 0
  /\ cmds = <<>> /\ events = <<>>
  /\ served = [t \in Throttle |-> {}]
  /\ locoSpeed = [l \in Locos |-> 0]
  /\ wanted = [t \in Throttle |-> None]
  /\ intact = TRUE
  /\ ops = 0

-----------------------------------------------------------------------------
(* reacquire_session_locos: every slot in use, or what was saved when no   *)
(* slot holds a loco.                                                      *)

\* Slot by slot; a command that does not fit into the buffer is lost.
ReacquireSlots(d) ==
  LET after[n \in 0..d.max_throttles] ==
        IF n = 0 THEN d ELSE PushAll(after[n - 1], ReacquireSlot(d, n - 1))
  IN  after[d.max_throttles]

RestoreLocos(d) ==
  [PushAll(d, [i \in DOMAIN Saved |-> AddLoco(Saved[i].throttle, Saved[i].loco)])
     EXCEPT !.current = 0]

\* Mutant of Reacquire: speeds are left to the station.
ReacquireWithoutSpeed(d) ==
  [ReacquireSlots(d) EXCEPT !.out = SelectSeq(@, LAMBDA c : c.op # "SetSpeed")]

\* Mutant of Reacquire: the saved locos alone.
ReacquireSaved(d) == RestoreLocos(d)

Reacquire(d) ==
  IF \E t \in InUse(d) : HasLoco(d, t) THEN ReacquireSlots(d) ELSE RestoreLocos(d)

\* The slots whose commands, of which the speed is the last, do not all fit.
CutShort(d) ==
  LET out == ReacquireSlots(d).out
  IN  {t \in InUse(d) : HasLoco(d, t) /\ SetSpeed(t, d.throttles[t].speed) \notin
                          {out[i] : i \in DOMAIN out}}

Reconnected == conn = "Connected" /\ seen # conn

\* Mutant of Lapsed: only a lost server ends the session.
LapsedByServer == conn # seen /\ conn = "Disconnected"

Lapsed == conn # seen /\ (conn = "Disconnected" \/ (conn = "Connecting" /\ seen = "Connected"))

(* One iteration: the branch taken has made d of the state and left asked  *)
(* as what is wanted of the locos, taken tells whether it had room for all *)
(* it was given; then the connection is looked at and a coalesced speed    *)
(* let out.  A coalesced speed that gave way to another throttle's speed   *)
(* or stop is no longer wanted, nor is one that a reacquire has no room    *)
(* for.                                                                    *)
Iteration(d, asked, taken) ==
  LET again == Reconnected /\ ~restored
      d0 == [d EXCEPT !.out = <<>>]
      cut == IF again THEN CutShort(d0) ELSE {}
      gone == {t \in Throttle : /\ state.pending_speed # None /\ t # state.current
                               /\ state.pending_speed.throttle = t
                               /\ d.pending_speed # state.pending_speed}
  IN  /\ state.out = <<>>
      /\ state' = FlushPendingSpeed(IF again THEN Reacquire(d0) ELSE d)
      /\ restored' = IF Reconnected THEN TRUE ELSE restored /\ ~Lapsed
      /\ seen' = conn
      /\ intact' = (intact /\ taken /\ cut = {})
      /\ wanted' = [t \in Throttle |->
           IF HasLoco(d, t) /\ t \notin cut \cup gone THEN asked[t] ELSE None]
      /\ UNCHANGED <<session, cmds, station>>

-----------------------------------------------------------------------------
(* The operator.                                                           *)

Input(name) ==
  /\ name \in Inputs
  /\ ops < MaxOps /\ ops + drops < MaxTroubles
  /\ ops' = ops + 1
  /\ UNCHANGED events

cur == state.current

Asked(s) == IF HasLoco(state, cur) THEN [wanted EXCEPT ![cur] = s] ELSE wanted

UserSpeedSet(s) ==
  /\ Input("speed")
  /\ Iteration(SpeedSet(state, s), Asked(s), TRUE)

UserEStopCurrent ==
  /\ Input("estopCurrent")
  /\ Iteration(EStopCurrent(state), Asked(0), TRUE)

UserAcquire(l) ==
  /\ Input("acquire")
  /\ Iteration(AcquireFromUi(state, l, "Forward"), [wanted EXCEPT ![cur] = None], TRUE)

UserRelease ==
  /\ Input("release")
  /\ Iteration(ReleaseAll(state), [wanted EXCEPT ![cur] = None], TRUE)

UserNextThrottle ==
  /\ Input("throttle")
  /\ Iteration(NextThrottle(state), wanted, TRUE)

User ==
  \/ \E s \in Speed : UserSpeedSet(s)
  \/ UserEStopCurrent
  \/ \E l \in Locos : UserAcquire(l)
  \/ UserRelease
  \/ UserNextThrottle

\* The report of a loco for which the consist has no place left.
Refused(ev) ==
  /\ ev.op = "AddressAdded"
  /\ LET slot == state.throttles[ev.throttle]
     IN  ~Holds(slot, ev.loco) /\ Len(slot.consist) >= MaxLocos

DomainEvent ==
  /\ events # <<>>
  /\ events' = Tail(events)
  /\ Iteration(ApplyEvent(state, Head(events)), wanted, ~Refused(Head(events)))
  /\ UNCHANGED ops

DomainTick ==
  /\ Iteration(state, wanted, TRUE)
  /\ UNCHANGED <<events, ops>>

-----------------------------------------------------------------------------
(* flush_cmds, as in ThrottleControl.  While the link is down nobody takes *)
(* from the channel, and what does not fit is lost.                        *)

Forgotten(S) == [t \in Throttle |-> IF t \in S THEN None ELSE wanted[t]]

Room == Len(cmds) < Depth

Speeds(d) == {i \in DOMAIN d.out : d.out[i].op = "SetSpeed"}

\* Mutant of FlushSend: the depth of the channel is not looked at.
FlushSendUnbounded ==
  /\ state.out # <<>>
  /\ cmds' = Append(cmds, Head(state.out))
  /\ state' = [state EXCEPT !.out = Tail(@)]
  /\ UNCHANGED <<seen, restored, session, events, station, wanted, intact, ops>>

FlushSend ==
  /\ state.out # <<>> /\ Room
  /\ cmds' = Append(cmds, Head(state.out))
  /\ state' = [state EXCEPT !.out = Tail(@)]
  /\ UNCHANGED <<seen, restored, session, events, station, wanted, intact, ops>>

FlushDrop ==
  /\ state.out # <<>> /\ ~Room
  /\ \E i \in DOMAIN state.out :
       /\ IF Speeds(state) = {} THEN i = 1
          ELSE i \in Speeds(state) /\ \A j \in Speeds(state) : j <= i
       /\ state' = [state EXCEPT !.out = WithoutIndex(@, i)]
       /\ wanted' = IF IsSpeed(state.out[i]) THEN Forgotten({state.out[i].throttle}) ELSE wanted
  /\ intact' = FALSE
  /\ UNCHANGED <<seen, restored, session, cmds, events, station, ops>>

Flush == FlushSend \/ FlushDrop

-----------------------------------------------------------------------------
(* The session task.  A server stays selected, so CONN is Connecting       *)
(* whenever the task does not run a session.                               *)

SessionRetry ==
  /\ phase = "backoff"
  /\ phase' = "connecting" /\ conn' = "Connecting"
  /\ UNCHANGED <<state, seen, restored, link, drops, cmds, events, station, wanted, intact, ops>>

(* At least RECONNECT_MIN_MS pass before a session is up again, ten times  *)
(* DOMAIN_TICK_MS: the domain has seen the connection go and has worked    *)
(* off its backlog of events and commands.                                 *)
SessionUp ==
  /\ phase = "connecting"
  /\ seen = conn /\ events = <<>> /\ state.out = <<>>
  /\ phase' = "running" /\ conn' = "Connected" /\ link' = "up"
  /\ intact' = TRUE
  /\ UNCHANGED <<state, seen, restored, drops, cmds, events, station, wanted, ops>>

SessionRefused ==
  /\ phase = "connecting"
  /\ phase' = "backoff"
  /\ UNCHANGED <<state, seen, restored, conn, link, drops, cmds, events, station, wanted, intact, ops>>

\* The connection breaks, and what was on the wire with it.
LinkDrop ==
  /\ link = "up" /\ drops < MaxDrops /\ ops + drops < MaxTroubles
  /\ link' = "dead" /\ drops' = drops + 1
  /\ served' = [t \in Throttle |-> {}]
  /\ \E stops \in BOOLEAN : locoSpeed' = [l \in Locos |-> IF stops THEN 0 ELSE locoSpeed[l]]
  /\ \E n \in 0..Len(events) : events' = SubSeq(events, 1, n)
  /\ UNCHANGED <<state, seen, restored, conn, phase, cmds, wanted, intact, ops>>

\* The socket fails or the receive watchdog fires.
SessionLost ==
  /\ phase = "running" /\ link = "dead"
  /\ phase' = "backoff" /\ conn' = "Connecting" /\ link' = "down"
  /\ UNCHANGED <<state, seen, restored, drops, cmds, events, station, wanted, intact, ops>>

Report(kind, evs) == IF kind \in Reports THEN evs ELSE <<>>

\* The station's answer to a command; a full event channel drops the rest.
Answer(evs) ==
  /\ events' = SubSeq(events \o evs, 1, AtMost(Len(events) + Len(evs), EventsDepth))
  /\ intact' = (intact /\ Len(events) + Len(evs) <= EventsDepth)

StationAdd(c) ==
  /\ c.op = "AddLoco"
  /\ served' = [served EXCEPT ![c.throttle] = @ \cup {c.loco}]
  /\ Answer(Report("slot", <<[op |-> "AddressAdded", throttle |-> c.throttle,
                               loco |-> c.loco]>>)
             \o Report("speed", <<[op |-> "Speed", throttle |-> c.throttle,
                                   speed |-> locoSpeed[c.loco]]>>))
  /\ UNCHANGED locoSpeed

\* One report for each loco of S, in some order.
EachRemoved(t, S) ==
  {q \in [1..Cardinality(S) -> [op : {"AddressRemoved"}, throttle : {t}, loco : S]] :
     \A l \in S : \E i \in DOMAIN q : q[i].loco = l}

StationRelease(c) ==
  /\ c.op = "ReleaseThrottle"
  /\ served' = [served EXCEPT ![c.throttle] = {}]
  /\ \E q \in EachRemoved(c.throttle, served[c.throttle]) : Answer(Report("slot", q))
  /\ UNCHANGED locoSpeed

StationSpeed(c) ==
  /\ c.op \in {"SetSpeed", "EStop"}
  /\ LET s == IF c.op = "EStop" THEN 0 ELSE c.speed
     IN  /\ locoSpeed' = [l \in Locos |->
              IF l \in served[c.throttle] THEN s ELSE locoSpeed[l]]
         /\ Answer(IF served[c.throttle] = {} THEN <<>> ELSE Report("speed",
              <<[op |-> "Speed", throttle |-> c.throttle, speed |-> s]>>))
  /\ UNCHANGED served

StationOther(c) ==
  /\ c.op \notin {"AddLoco", "ReleaseThrottle", "SetSpeed", "EStop"}
  /\ UNCHANGED <<station, events, intact>>

(* Throttles that have nothing more to say themselves, when command c of   *)
(* another throttle moves or stops a loco of theirs.                       *)
Overruled(c) ==
  LET still == Tail(cmds) \o state.out
  IN  {t \in Throttle : /\ IsSpeed(c) /\ t # c.throttle
                        /\ served[t] \cap served[c.throttle] # {}
                        /\ \A i \in DOMAIN still : ~(IsSpeed(still[i]) /\ still[i].throttle = t)}

\* A dead link still takes what the session writes.
SessionForward ==
  /\ phase = "running" /\ cmds # <<>>
  /\ cmds' = Tail(cmds)
  /\ LET c == Head(cmds)
     IN  IF link = "up"
           THEN /\ StationAdd(c) \/ StationRelease(c) \/ StationSpeed(c) \/ StationOther(c)
                /\ wanted' = Forgotten(Overruled(c))
           ELSE /\ intact' = FALSE
                /\ UNCHANGED <<station, events, wanted>>
  /\ UNCHANGED <<state, seen, restored, session, ops>>

TimePasses ==
  /\ state.sentAge # "old"
  /\ state' = [state EXCEPT !.sentAge = IF @ = "window" THEN "echo" ELSE "old"]
  /\ UNCHANGED <<seen, restored, session, cmds, events, station, wanted, intact, ops>>

-----------------------------------------------------------------------------

Next ==
  \/ User \/ DomainEvent \/ DomainTick
  \/ Flush
  \/ SessionRetry \/ SessionUp \/ SessionRefused \/ SessionLost \/ SessionForward
  \/ LinkDrop
  \/ TimePasses

(* Every task is polled.  A connection attempt need not succeed, but one   *)
(* that is possible again and again succeeds some time.                    *)
Fairness ==
  /\ WF_vars(DomainTick) /\ WF_vars(DomainEvent) /\ WF_vars(Flush)
  /\ WF_vars(SessionForward) /\ WF_vars(SessionLost) /\ WF_vars(SessionRetry)
  /\ SF_vars(SessionUp)
  /\ WF_vars(TimePasses)

Spec == Init /\ [][Next]_vars

FairSpec == Spec /\ Fairness

-----------------------------------------------------------------------------
(* Properties.                                                             *)

Pipeline == cmds \o state.out

Settled ==
  /\ phase = "running" /\ link = "up" /\ seen = "Connected"
  /\ Pipeline = <<>> /\ events = <<>> /\ state.pending_speed = None

Held(t) == {state.throttles[t].consist[i] : i \in DOMAIN state.throttles[t].consist}

Agree == \A t \in InUse(state) : Held(t) = served[t]

(* A reconnect heals what went wrong before it: once the commands and      *)
(* reports that follow it are through, none of them dropped, the handset   *)
(* and the station agree on every slot in use, whatever was lost on the    *)
(* dead link or on the full channel while the handset was offline.         *)
ReconnectHeals == Settled /\ intact => Agree

(* The speed the operator last asked of a loco, offline or not, is the     *)
(* speed it runs at once the connection is back, unless another throttle   *)
(* has driven it since: "speed/functions resume without a roster pick"     *)
(* (ARCHITECTURE.md).                                                      *)
SpeedResumes ==
  Settled =>
    \A t \in Throttle : wanted[t] # None =>
      \A l \in served[t] : locoSpeed[l] = wanted[t]

(* Connections that break only so often, and no command dropped since the  *)
(* last reacquire: the handset ends up online, in agreement, for good.     *)
Recovers == <>[]intact => <>[](Settled /\ Agree)

(* A coalesced speed does not stay behind, online or offline: it is sent,   *)
(* overwritten by a newer one that is sent, or cancelled by a stop.        *)
CoalescedIsResolved ==
  state.pending_speed # None ~> state.pending_speed = None

(* A throttle the operator stopped is not set in motion again: no command  *)
(* to move is left without a stop behind it, through any reconnect.        *)
StopSurvivesReconnect ==
  \A t \in Throttle : wanted[t] = 0 =>
    \A i \in DOMAIN Pipeline : Moves(t, Pipeline[i]) =>
      \E j \in DOMAIN Pipeline : j > i /\ Stops(t, Pipeline[j])
=============================================================================
