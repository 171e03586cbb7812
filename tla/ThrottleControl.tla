-------------------------- MODULE ThrottleControl --------------------------
(***************************************************************************)
(* The driving path of the handset while a session is up:                  *)
(*                                                                         *)
(*   operator -> domain task -> out -> PROTO_COMMANDS -> session task      *)
(*            -> command station -> events -> domain task                  *)
(*                                                                         *)
(* The domain task (crates/firmware/src/domain/task.rs) takes one input,   *)
(* one server event or one tick, applies it to DomainState, lets the       *)
(* coalesced speed out when its window has passed, and then flushes `out`  *)
(* command by command.  The flush awaits, so the session task, the station *)
(* and time move between two commands; the domain itself takes no input    *)
(* before `out` is empty.                                                  *)
(*                                                                         *)
(* The station is external: it holds which locos each throttle controls    *)
(* and the speed of each loco, answers as crates/proto decodes it, and     *)
(* may be driven by somebody else as well.                                 *)
(***************************************************************************)
EXTENDS DomainState

CONSTANTS
  Depth,          \* PROTO_COMMANDS_DEPTH
  EventsDepth,    \* PROTO_EVENTS_DEPTH
  Inputs,         \* the controls the operator uses
  Reports,        \* what the station reports: "slot", "star", "speed", "other"
  MaxOps          \* bound on operator inputs and foreign changes

ASSUME ControlAssumption ==
  /\ Depth \in Nat \ {0}
  /\ EventsDepth \in Nat \ {0}
  /\ MaxOps \in Nat
  /\ IsFiniteSet(Locos)

VARIABLES
  state,      \* DomainState
  cmds,       \* PROTO_COMMANDS
  events,     \* PROTO_EVENTS and the bytes on their way to it
  served,     \* station: locos each throttle controls
  locoSpeed,  \* station: speed of each loco
  intent,     \* history: what the operator last asked for
  ops         \* inputs and foreign changes so far

vars == <<state, cmds, events, served, locoSpeed, intent, ops>>

(* halted: throttles the operator stopped and has not moved since.         *)
(* wanted: the speed last asked of a throttle for the loco it holds.       *)
(* touched: the throttle of the last speed request still in force.         *)
(* lossless: no queue and no consist had to drop what was too much for it. *)
Intent ==
  [halted : SUBSET Throttle,
   wanted : [Throttle -> Speed \cup {None}],
   touched : Throttle \cup {None},
   lossless : BOOLEAN]

TypeOK ==
  /\ state \in Domain
  /\ cmds \in Seq(Command) /\ Len(cmds) <= Depth
  /\ events \in Seq(Event)
  /\ served \in [Throttle -> SUBSET Locos]
  /\ locoSpeed \in [Locos -> Speed]
  /\ intent \in Intent
  /\ ops \in Nat

Init ==
  /\ state = New
  /\ cmds = <<>>
  /\ events = <<>>
  /\ served = [t \in Throttle |-> {}]
  /\ locoSpeed = [l \in Locos |-> 0]
  /\ intent = [halted |-> {}, wanted |-> [t \in Throttle |-> None],
               touched |-> None, lossless |-> TRUE]
  /\ ops = 0

-----------------------------------------------------------------------------
(* History.                                                                *)

\* The operator asked throttle t for speed s.
Asked(t, s) ==
  [intent EXCEPT
     !.halted = IF s = 0 THEN @ \cup {t} ELSE @ \ {t},
     !.wanted[t] = s, !.touched = t]

\* What was asked of the throttles in S no longer binds the locos on them.
Forgotten(S) ==
  [intent EXCEPT
     !.wanted = [t \in Throttle |-> IF t \in S THEN None ELSE @[t]],
     !.touched = IF @ \in S THEN None ELSE @]

-----------------------------------------------------------------------------
(* One iteration of the domain loop: it starts with an empty buffer, and   *)
(* every branch falls through to flush_pending_speed.                      *)

Iteration(d) ==
  /\ state.out = <<>>
  /\ state' = FlushPendingSpeed(d)
  /\ UNCHANGED <<cmds, served, locoSpeed>>

\* An input the operator gives, at most MaxOps of them.
Input(name) ==
  /\ name \in Inputs
  /\ ops < MaxOps
  /\ ops' = ops + 1
  /\ UNCHANGED events

cur == state.current

UserSpeedSet(s) ==
  /\ Input("speed")
  /\ Iteration(SpeedSet(state, s))
  /\ intent' = IF HasLoco(state, cur) THEN Asked(cur, s) ELSE intent

UserSpeedUp(fast) ==
  /\ Input("encoder")
  /\ Iteration(SpeedUp(state, fast))
  /\ intent' = IF HasLoco(state, cur)
                 THEN Asked(cur, SpeedUp(state, fast).throttles[cur].speed) ELSE intent

UserSpeedDown(fast) ==
  /\ Input("encoder")
  /\ Iteration(SpeedDown(state, fast))
  /\ intent' = IF HasLoco(state, cur)
                 THEN Asked(cur, SpeedDown(state, fast).throttles[cur].speed) ELSE intent

UserMultiplier ==
  /\ Input("encoder")
  /\ Iteration(CycleSpeedMultiplier(state))
  /\ UNCHANGED intent

UserStopThenToggle ==
  /\ Input("direction")
  /\ Iteration(StopThenToggleDirection(state))
  /\ intent' = IF HasLoco(state, cur) /\ state.throttles[cur].speed # 0
                 THEN Asked(cur, 0) ELSE intent

UserDirection(dir) ==
  /\ Input("direction")
  /\ Iteration(ChangeDirection(state, cur, dir))
  /\ UNCHANGED intent

UserFunction(f) ==
  /\ Input("function")
  /\ Iteration(ToggleFunction(state, f))
  /\ UNCHANGED intent

UserPower ==
  /\ Input("power")
  /\ Iteration(PowerToggle(state))
  /\ UNCHANGED intent

UserEStop ==
  /\ Input("estop")
  /\ \E order \in Orders :
       /\ EStopOrder(state, order)
       /\ Iteration(EStopAll(state, order))
  /\ intent' = [intent EXCEPT
       !.halted = @ \cup Stopped(state),
       !.wanted = [t \in Throttle |-> IF t \in Stopped(state) THEN 0 ELSE @[t]],
       !.touched = IF @ \in Stopped(state) THEN @ ELSE None]

UserEStopCurrent ==
  /\ Input("estopCurrent")
  /\ Iteration(EStopCurrent(state))
  /\ intent' = IF HasLoco(state, cur) THEN Asked(cur, 0) ELSE intent

UserNextThrottle ==
  /\ Input("throttle")
  /\ Iteration(NextThrottle(state))
  /\ UNCHANGED intent

UserThrottle(t) ==
  /\ Input("throttle")
  /\ Iteration(SelectThrottle(state, t))
  /\ UNCHANGED intent

UserMaxThrottles(n) ==
  /\ Input("maxThrottles")
  /\ \E order \in Orders :
       /\ TrimOrder(state, n, order)
       /\ Iteration(SetMaxThrottles(state, n, order))
  /\ intent' = Forgotten({t \in Throttle : t >= n})

UserAcquire(l, spdt) ==
  /\ Input("acquire")
  /\ Iteration(AcquireFromUi(state, l, spdt))
  /\ intent' = Forgotten({cur})

UserRelease ==
  /\ Input("release")
  /\ Iteration(ReleaseAll(state))
  /\ intent' = Forgotten({cur})

User ==
  \/ \E s \in Speed : UserSpeedSet(s)
  \/ \E fast \in BOOLEAN : UserSpeedUp(fast) \/ UserSpeedDown(fast)
  \/ UserMultiplier
  \/ UserStopThenToggle
  \/ \E dir \in Direction : UserDirection(dir)
  \/ \E f \in Functions : UserFunction(f)
  \/ UserPower
  \/ UserEStop
  \/ UserEStopCurrent
  \/ UserNextThrottle
  \/ \E t \in Throttle : UserThrottle(t)
  \/ \E n \in 1..MaxThrottles : UserMaxThrottles(n)
  \/ \E l \in Locos, spdt \in Direction : UserAcquire(l, spdt)
  \/ UserRelease

\* The report of a loco for which the consist has no place left.
Refused(ev) ==
  /\ ev.op = "AddressAdded"
  /\ LET slot == state.throttles[ev.throttle]
     IN  ~Holds(slot, ev.loco) /\ Len(slot.consist) >= MaxLocos

DomainEvent ==
  /\ events # <<>>
  /\ Iteration(ApplyEvent(state, Head(events)))
  /\ events' = Tail(events)
  /\ intent' = [intent EXCEPT !.lossless = @ /\ ~Refused(Head(events))]
  /\ UNCHANGED ops

DomainTick ==
  /\ Iteration(state)
  /\ UNCHANGED <<events, intent, ops>>

-----------------------------------------------------------------------------
(* flush_cmds: the head of `out` goes to the channel when it has room.  On *)
(* a full channel the last SetSpeed of `out` is evicted; then an EStop     *)
(* waits, and is given up at its deadline, and any other head is dropped.  *)

Room == Len(cmds) < Depth

Speeds(d) == {i \in DOMAIN d.out : d.out[i].op = "SetSpeed"}

LastSpeed(d, i) == i \in Speeds(d) /\ \A j \in Speeds(d) : j <= i

FlushSend ==
  /\ state.out # <<>>
  /\ Room
  /\ cmds' = Append(cmds, Head(state.out))
  /\ state' = [state EXCEPT !.out = Tail(@)]
  /\ UNCHANGED <<events, served, locoSpeed, intent, ops>>

\* The command at index i of `out` is lost, and with it what it would have done.
Lost(i) ==
  LET c == state.out[i]
      S == IF c.op \in {"SetSpeed", "EStop"} THEN {c.throttle} ELSE {}
  IN  /\ state' = [state EXCEPT !.out = WithoutIndex(@, i)]
      /\ intent' = [Forgotten(S) EXCEPT !.halted = @ \ S, !.lossless = FALSE]
      /\ UNCHANGED <<cmds, events, served, locoSpeed, ops>>

DropStaleSpeed ==
  /\ state.out # <<>>
  /\ ~Room
  /\ \E i \in DOMAIN state.out : LastSpeed(state, i) /\ Lost(i)

\* Reached by an EStop only after ESTOP_FLUSH_DEADLINE_MS of a full channel.
DropHead ==
  /\ state.out # <<>>
  /\ ~Room
  /\ Speeds(state) = {}
  /\ Lost(1)

-----------------------------------------------------------------------------
(* The session task forwards one command; the station applies it and       *)
(* answers.  A full event channel drops what does not fit (emit_event).    *)

\* wish is what the command leaves of the operator's intent.
Emit(evs, wish) ==
  /\ events' = SubSeq(events \o evs, 1, AtMost(Len(events) + Len(evs), EventsDepth))
  /\ intent' = [wish EXCEPT !.lossless = @ /\ Len(events) + Len(evs) <= EventsDepth]

Report(kind, evs) == IF kind \in Reports THEN evs ELSE <<>>

StarRemoved(t) == <<[op |-> "AddressRemoved", throttle |-> t, loco |-> None]>>

\* One report for each loco of S, in some order.
EachRemoved(t, S) ==
  {q \in [1..Cardinality(S) -> [op : {"AddressRemoved"}, throttle : {t}, loco : S]] :
     \A l \in S : \E i \in DOMAIN q : q[i].loco = l}

\* A release is reported for the throttle, or for each of its locos.
RemovedOrders(t, S) ==
  {q \in {StarRemoved(t)} : "star" \in Reports}
    \cup {q \in EachRemoved(t, S) : "slot" \in Reports}
    \cup {q \in {<<>>} : {"star", "slot"} \cap Reports = {}}

StationAdd(c) ==
  /\ c.op = "AddLoco"
  /\ served' = [served EXCEPT ![c.throttle] = @ \cup {c.loco}]
  /\ Emit(
       Report("slot", <<[op |-> "AddressAdded", throttle |-> c.throttle, loco |-> c.loco]>>)
         \o Report("speed", <<[op |-> "Speed", throttle |-> c.throttle,
                               speed |-> locoSpeed[c.loco]]>>),
       intent)
  /\ UNCHANGED locoSpeed

StationRelease(c) ==
  /\ c.op = "ReleaseThrottle"
  /\ served' = [served EXCEPT ![c.throttle] = {}]
  /\ \E q \in RemovedOrders(c.throttle, served[c.throttle]) : Emit(q, intent)
  /\ UNCHANGED locoSpeed

(* Throttles the operator has stopped, and that have nothing more to say   *)
(* themselves, when throttle u moves a loco of theirs at speed s.          *)
Overruled(u, s) ==
  LET still == Tail(cmds) \o state.out
  IN  {t \in Throttle \ {u} :
         /\ s > 0 /\ intent.wanted[t] = 0
         /\ served[t] \cap served[u] # {}
         /\ \A i \in DOMAIN still : ~Stops(t, still[i])}

StationSpeed(c) ==
  /\ c.op \in {"SetSpeed", "EStop"}
  /\ LET s == IF c.op = "EStop" THEN 0 ELSE c.speed
     IN  /\ locoSpeed' = [l \in Locos |->
              IF l \in served[c.throttle] THEN s ELSE locoSpeed[l]]
         /\ Emit(IF served[c.throttle] = {} THEN <<>> ELSE Report("speed",
                   <<[op |-> "Speed", throttle |-> c.throttle, speed |-> s]>>),
                 Forgotten(Overruled(c.throttle, s)))
  /\ UNCHANGED served

StationOther(c) ==
  /\ c.op \notin {"AddLoco", "ReleaseThrottle", "SetSpeed", "EStop"}
  /\ UNCHANGED <<served, locoSpeed, events, intent>>

SessionForward ==
  /\ cmds # <<>>
  /\ cmds' = Tail(cmds)
  /\ LET c == Head(cmds)
     IN  StationAdd(c) \/ StationRelease(c) \/ StationSpeed(c) \/ StationOther(c)
  /\ UNCHANGED <<state, ops>>

\* Another throttle drives one of our locos; the station tells us.
ForeignSpeed(t, l, s) ==
  /\ "other" \in Reports
  /\ ops < MaxOps
  /\ l \in served[t]
  /\ locoSpeed' = [locoSpeed EXCEPT ![l] = s]
  /\ Len(events) < EventsDepth
  /\ events' = Append(events, [op |-> "Speed", throttle |-> t, speed |-> s])
  /\ intent' = Forgotten({u \in Throttle : l \in served[u]})
  /\ ops' = ops + 1
  /\ UNCHANGED <<state, cmds, served>>

TimePasses ==
  /\ state.sentAge # "old"
  /\ state' = [state EXCEPT !.sentAge = IF @ = "window" THEN "echo" ELSE "old"]
  /\ UNCHANGED <<cmds, events, served, locoSpeed, intent, ops>>

-----------------------------------------------------------------------------

Domain_ == User \/ DomainEvent \/ DomainTick

Flush == FlushSend \/ DropStaleSpeed \/ DropHead

Next ==
  \/ Domain_
  \/ Flush
  \/ SessionForward
  \/ \E t \in Throttle, l \in Locos, s \in Speed : ForeignSpeed(t, l, s)
  \/ TimePasses

Spec == Init /\ [][Next]_vars

-----------------------------------------------------------------------------
(* Properties.                                                             *)

\* Everything said to the station that it has not yet applied.
Pipeline == cmds \o state.out

Settled == cmds = <<>> /\ state.out = <<>> /\ state.pending_speed = None

(* Once the operator has stopped a throttle (Stop, E-Stop, stop before a   *)
(* direction change), no speed asked for earlier can overtake the stop:    *)
(* none is left coalesced in pending_speed, and every one still queued is  *)
(* followed by a stop, whatever throttle is selected, acquired, released   *)
(* or trimmed meanwhile.                                                   *)
StopIsFinal ==
  \A t \in intent.halted :
    /\ state.pending_speed # None => state.pending_speed.throttle # t
    /\ \A i \in DOMAIN Pipeline : Moves(t, Pipeline[i]) =>
         \E j \in DOMAIN Pipeline : j > i /\ Stops(t, Pipeline[j])

(* When nothing is on its way, the locos of a throttle the operator stopped *)
(* stand still, for every throttle and not just the last one touched, also *)
(* when throttles share a loco, unless another throttle of the same loco   *)
(* has set it in motion since, or the stop itself was evicted.             *)
StopIsDelivered ==
  Settled =>
    \A t \in Throttle : intent.wanted[t] = 0 =>
      \A l \in served[t] : locoSpeed[l] = 0

(* When nothing is on its way, the locos of the throttle touched last run  *)
(* at the speed the operator asked of it: coalescing may skip values but   *)
(* not the last one.                                                       *)
LastCommandWins ==
  Settled /\ intent.touched # None =>
    \A l \in served[intent.touched] :
      locoSpeed[l] = intent.wanted[intent.touched]

(* When nothing is on its way and nothing overflowed, the handset and the  *)
(* station agree on which locos each throttle holds: the optimistic        *)
(* consist of acquire and release and the late reports of both end alike.  *)
SlotsConverge ==
  Settled /\ events = <<>> /\ intent.lossless =>
    \A t \in Throttle :
      {state.throttles[t].consist[i] : i \in DOMAIN state.throttles[t].consist}
        = served[t]
=============================================================================
