---------------------------- MODULE DomainState ----------------------------
(***************************************************************************)
(* The driving state of the handset and every operation on it: struct      *)
(* DomainState of crates/firmware/src/domain/state.rs.                     *)
(*                                                                         *)
(* The domain task owns this state alone, so each method is an operator    *)
(* from the record before the call to the record after it; the machines    *)
(* that interleave the task with the session and the server apply them.    *)
(* `out` is the command buffer every method is handed (&mut out).          *)
(*                                                                         *)
(* Abstractions: a locomotive is a value of Locos (its parsed LocoId), so  *)
(* addresses are always well formed; names and labels are display data;    *)
(* the roster, the overlays and the dead-man switch are other components.  *)
(* Speeds 0..MaxSpeed are speed steps the wire carries unchanged.          *)
(***************************************************************************)
EXTENDS Integers, Sequences, FiniteSets

CONSTANTS
  MaxThrottles,      \* sizes::MAX_THROTTLES: slots that exist
  DefaultThrottles,  \* buttons::DEFAULT_THROTTLES: slots in use at boot
  MaxLocos,          \* sizes::MAX_LOCOS: capacity of a consist
  MaxSpeed,          \* model::MAX_SPEED
  SpeedStep,         \* buttons::SPEED_STEP
  FastMultiplier,    \* buttons::SPEED_STEP_MULTIPLIER
  AddMultiplier,     \* buttons::SPEED_STEP_ADDITIONAL_MULTIPLIER
  CmdBuf,            \* CMD_BUF: capacity of `out`
  Locos,             \* locomotives
  Functions,         \* function numbers below MAX_FUNCTIONS
  None               \* Option::None

ASSUME DomainAssumption ==
  /\ MaxThrottles \in Nat \ {0}
  /\ DefaultThrottles \in 1..MaxThrottles
  /\ MaxLocos \in Nat \ {0}
  /\ MaxSpeed \in Nat \ {0}
  /\ SpeedStep \in Nat /\ FastMultiplier \in Nat /\ AddMultiplier \in Nat
  /\ CmdBuf \in Nat \ {0}

\* CMD_BUF is 3 * MAX_THROTTLES + 4: what one operation pushes fits, but for a
\* reacquire of slots that hold several locos.
ASSUME BufferAssumption ==
  MaxThrottles < CmdBuf /\ MaxLocos < CmdBuf /\ 3 < CmdBuf

Throttle  == 0..(MaxThrottles - 1)
Speed     == 0..MaxSpeed
Direction == {"Forward", "Reverse"}

\* None is no reservation of the coalescing slot, and none of the values
\* that are optional.
ASSUME NoneAssumption ==
  /\ None \notin [throttle : Throttle, speed : Speed]
  /\ None \notin Locos \cup Throttle \cup Speed

Opposite(dir) == IF dir = "Forward" THEN "Reverse" ELSE "Forward"

AtMost(a, b) == IF a <= b THEN a ELSE b

-----------------------------------------------------------------------------
(* ClientCommand: what the domain asks the protocol adapter to send.       *)

AddLoco(t, l)          == [op |-> "AddLoco", throttle |-> t, loco |-> l]
ReleaseThrottle(t)     == [op |-> "ReleaseThrottle", throttle |-> t]
SetSpeed(t, s)         == [op |-> "SetSpeed", throttle |-> t, speed |-> s]
SetDirection(t, l, dir) ==
  [op |-> "SetDirection", throttle |-> t, loco |-> l, dir |-> dir]
EStop(t)               == [op |-> "EStop", throttle |-> t]
SetFunction(t, f, on)  ==
  [op |-> "SetFunction", throttle |-> t, func |-> f, on |-> on]
TrackPower(on)         == [op |-> "TrackPower", on |-> on]
Steal(t, l)            == [op |-> "Steal", throttle |-> t, loco |-> l]

Command ==
  [op : {"AddLoco", "Steal"}, throttle : Throttle, loco : Locos]
    \cup [op : {"ReleaseThrottle", "EStop"}, throttle : Throttle]
    \cup [op : {"SetSpeed"}, throttle : Throttle, speed : Speed]
    \cup [op : {"SetDirection"}, throttle : Throttle,
          loco : Locos \cup {None}, dir : Direction]
    \cup [op : {"SetFunction"}, throttle : Throttle, func : Functions,
          on : BOOLEAN]
    \cup [op : {"TrackPower"}, on : BOOLEAN]

IsSpeed(c) == c.op \in {"SetSpeed", "EStop"}

\* What a command means to the locos of throttle t.
Moves(t, c) == c.op = "SetSpeed" /\ c.throttle = t /\ c.speed > 0

Stops(t, c) ==
  \/ c.op = "EStop" /\ c.throttle = t
  \/ c.op = "SetSpeed" /\ c.throttle = t /\ c.speed = 0

-----------------------------------------------------------------------------
(* ServerEvent: what the adapter tells of the station; None is the loco "*". *)

Event ==
  [op : {"AddressAdded"}, throttle : Throttle, loco : Locos]
    \cup [op : {"AddressRemoved"}, throttle : Throttle, loco : Locos \cup {None}]
    \cup [op : {"Speed"}, throttle : Throttle, speed : Speed]

-----------------------------------------------------------------------------
(* The record.  sentAge abstracts last_speed_sent_at.elapsed(): "window"   *)
(* is below SPEED_COALESCE_WINDOW_MS, "echo" below SPEED_ECHO_DEBOUNCE_MS, *)
(* "old" is anything later, or no speed sent yet.                          *)

SentAge == {"window", "echo", "old"}

Slot ==
  [speed : Speed, direction : Direction, functions : SUBSET Functions,
   consist : Seq(Locos), facing : Seq(Direction)]

Domain ==
  [throttles : [Throttle -> Slot],
   current : Throttle,
   max_throttles : 1..MaxThrottles,
   track_power : {"Unknown", "On", "Off"},
   speed_multiplier : Nat,
   pending_speed : [throttle : Throttle, speed : Speed] \cup {None},
   last_speed_sent : Speed,
   last_speed_throttle : Throttle,
   sentAge : SentAge,
   out : Seq(Command)]

NewSlot ==
  [speed |-> 0, direction |-> "Forward", functions |-> {},
   consist |-> <<>>, facing |-> <<>>]

New ==
  [throttles |-> [t \in Throttle |-> NewSlot],
   current |-> 0,
   max_throttles |-> DefaultThrottles,
   track_power |-> "Unknown",
   speed_multiplier |-> 1,
   pending_speed |-> None,
   last_speed_sent |-> 0,
   last_speed_throttle |-> 0,
   sentAge |-> "old",
   out |-> <<>>]

HasLoco(d, t) == d.throttles[t].consist # <<>>

\* The slots estop_all, any_loco_moving and reacquire look at.
InUse(d) == 0..(d.max_throttles - 1)

AnyLocoMoving(d) == \E t \in InUse(d) : HasLoco(d, t) /\ d.throttles[t].speed > 0

-----------------------------------------------------------------------------
(* push_cmd: a full buffer drops what does not fit.                        *)

PushAll(d, cmds) ==
  [d EXCEPT !.out = SubSeq(@ \o cmds, 1, AtMost(Len(@) + Len(cmds), CmdBuf))]

PushCmd(d, cmd) == PushAll(d, <<cmd>>)

-----------------------------------------------------------------------------
(* Speed: immediate when stopping or when the window has passed, coalesced *)
(* into pending_speed otherwise.                                           *)

Due(d) == d.sentAge # "window"

\* Mutant of EmitSpeed: the coalescing slot is not emptied.
EmitSpeedKeepsPending(d, t, s) ==
  [PushCmd(d, SetSpeed(t, s)) EXCEPT
     !.last_speed_sent = s, !.last_speed_throttle = t, !.sentAge = "window"]

EmitSpeed(d, t, s) ==
  [PushCmd(d, SetSpeed(t, s)) EXCEPT
     !.last_speed_sent = s, !.last_speed_throttle = t,
     !.sentAge = "window", !.pending_speed = None]

\* Mutant of SpeedSet: the speed is not clamped to MAX_SPEED.
SpeedSetUnclamped(d, s) ==
  LET d1 == [d EXCEPT !.throttles[d.current].speed = s]
  IN  IF ~HasLoco(d, d.current) THEN d
      ELSE IF s = 0 \/ Due(d) THEN EmitSpeed(d1, d.current, s)
      ELSE [d1 EXCEPT !.pending_speed = [throttle |-> d.current, speed |-> s]]

SpeedSet(d, s) ==
  LET v  == AtMost(s, MaxSpeed)
      d1 == [d EXCEPT !.throttles[d.current].speed = v]
  IN  IF ~HasLoco(d, d.current) THEN d
      ELSE IF v = 0 \/ Due(d) THEN EmitSpeed(d1, d.current, v)
      ELSE [d1 EXCEPT !.pending_speed = [throttle |-> d.current, speed |-> v]]

\* Mutant of FlushPendingSpeed: the window ends and the value is forgotten.
FlushPendingSpeedForgets(d) ==
  IF Due(d) THEN [d EXCEPT !.pending_speed = None] ELSE d

FlushPendingSpeed(d) ==
  IF d.pending_speed # None /\ Due(d)
    THEN EmitSpeed(d, d.pending_speed.throttle, d.pending_speed.speed)
    ELSE d

EffectiveSpeedStep(d, fast) ==
  SpeedStep * (IF fast THEN FastMultiplier ELSE 1) * d.speed_multiplier

SpeedUp(d, fast) ==
  SpeedSet(d, d.throttles[d.current].speed + EffectiveSpeedStep(d, fast))

SpeedDown(d, fast) ==
  LET v    == d.throttles[d.current].speed
      step == EffectiveSpeedStep(d, fast)
  IN  SpeedSet(d, IF step >= v THEN 0 ELSE v - step)

CycleSpeedMultiplier(d) ==
  [d EXCEPT !.speed_multiplier =
     IF @ = 1 THEN AddMultiplier
     ELSE IF @ = AddMultiplier THEN 2 * AddMultiplier ELSE 1]

\* The slots estop_all stops, and the orders it or a trim may list slots in.
Stopped(d) == {t \in InUse(d) : HasLoco(d, t)}

Orders == UNION {[1..n -> Throttle] : n \in 0..MaxThrottles}

(* order lists the acquired slots in use by index: the loop of estop_all.  *)
EStopOrder(d, order) ==
  /\ \A t \in InUse(d) : HasLoco(d, t) => \E i \in DOMAIN order : order[i] = t
  /\ \A i \in DOMAIN order : HasLoco(d, order[i]) /\ order[i] \in InUse(d)
  /\ \A i, j \in DOMAIN order : i < j => order[i] < order[j]

\* Mutant of EStopAll: slots that show speed 0 are taken to stand still.
EStopAllSkipsShownStopped(d, order) ==
  LET Shown(t) == d.throttles[t].speed > 0
      moving   == SelectSeq(order, Shown)
  IN  [PushAll(d, [i \in 1..Len(moving) |-> EStop(moving[i])]) EXCEPT
         !.pending_speed = None,
         !.throttles = [t \in Throttle |->
            IF t \in InUse(d) /\ HasLoco(d, t) THEN [@[t] EXCEPT !.speed = 0] ELSE @[t]]]

EStopAll(d, order) ==
  [PushAll(d, [i \in 1..Len(order) |-> EStop(order[i])]) EXCEPT
     !.pending_speed = None,
     !.throttles = [t \in Throttle |->
        IF t \in InUse(d) /\ HasLoco(d, t) THEN [@[t] EXCEPT !.speed = 0] ELSE @[t]]]

\* Mutant of EStopCurrent: the coalesced speed outlives the stop.
EStopCurrentKeepsPending(d) ==
  IF ~HasLoco(d, d.current) THEN d
  ELSE [PushCmd(d, EStop(d.current)) EXCEPT !.throttles[d.current].speed = 0]

EStopCurrent(d) ==
  IF ~HasLoco(d, d.current) THEN d
  ELSE [PushCmd(d, EStop(d.current)) EXCEPT
          !.pending_speed = None, !.throttles[d.current].speed = 0]

-----------------------------------------------------------------------------
(* Direction.  In a consist the lead is turned last, and every other loco  *)
(* keeps its facing relative to the lead's.                                *)

FacingOf(slot, i, default) ==
  IF i \in DOMAIN slot.facing THEN slot.facing[i] ELSE default

DirectionCommands(t, slot, dir) ==
  LET n    == Len(slot.consist)
      lead == FacingOf(slot, 1, slot.direction)
      Target(i) == IF FacingOf(slot, i, lead) = lead THEN dir ELSE Opposite(dir)
  IN  IF n = 1 THEN <<SetDirection(t, None, dir)>>
      ELSE [i \in 1..n |-> IF i < n
              THEN SetDirection(t, slot.consist[i + 1], Target(i + 1))
              ELSE SetDirection(t, slot.consist[1], dir)]

TurnSlot(slot, dir) ==
  [slot EXCEPT !.direction = dir,
     !.facing = IF @ = <<>> THEN @ ELSE [@ EXCEPT ![1] = dir]]

ChangeDirection(d, t, dir) ==
  IF ~HasLoco(d, t) THEN d
  ELSE [PushAll(d, DirectionCommands(t, d.throttles[t], dir)) EXCEPT
          !.throttles[t] = TurnSlot(@, dir)]

StopThenToggleDirection(d) ==
  IF d.throttles[d.current].speed # 0 THEN SpeedSet(d, 0)
  ELSE ChangeDirection(d, d.current, Opposite(d.throttles[d.current].direction))

-----------------------------------------------------------------------------
(* Functions and track power.                                              *)

ToggleFunction(d, f) ==
  LET latched == d.throttles[d.current].functions
      on      == f \notin latched
  IN  IF ~HasLoco(d, d.current) THEN d
      ELSE [PushCmd(d, SetFunction(d.current, f, on)) EXCEPT
              !.throttles[d.current].functions =
                 IF on THEN latched \cup {f} ELSE latched \ {f}]

SetTrackPower(d, on) ==
  [PushCmd(d, TrackPower(on)) EXCEPT !.track_power = IF on THEN "On" ELSE "Off"]

PowerToggle(d) == SetTrackPower(d, d.track_power # "On")

-----------------------------------------------------------------------------
(* Acquiring and releasing.  Neither touches pending_speed.                *)

ClearConsist(d, t) ==
  [d EXCEPT !.throttles[t].consist = <<>>, !.throttles[t].facing = <<>>,
            !.throttles[t].functions = {}]

\* Mutant of Release: the server is not told.
ReleaseSilently(d, t) ==
  IF ~HasLoco(d, t) THEN d
  ELSE [ClearConsist(d, t) EXCEPT !.throttles[t].speed = 0]

\* release_throttle, and release_all with t the current slot.
Release(d, t) ==
  IF ~HasLoco(d, t) THEN d
  ELSE [ClearConsist(PushCmd(d, ReleaseThrottle(t)), t) EXCEPT
          !.throttles[t].speed = 0]

ReleaseAll(d) == Release(d, d.current)

Holds(slot, l) == \E i \in DOMAIN slot.consist : slot.consist[i] = l

\* The consist and its facing vector grow together, or not at all.
JoinConsist(slot, l) ==
  IF Holds(slot, l) \/ Len(slot.consist) >= MaxLocos THEN slot
  ELSE [slot EXCEPT !.consist = Append(@, l), !.facing = Append(@, "Forward")]

AcquireLoco(d, l) ==
  LET t    == d.current
      slot == JoinConsist(d.throttles[t], l)
  IN  IF ~Holds(slot, l) THEN d
      ELSE PushCmd([d EXCEPT !.throttles[t] = slot], AddLoco(t, l))

\* acquire_addr, acquire_roster: release first, so one loco per slot.
Acquire(d, l) == AcquireLoco(ReleaseAll(d), l)

\* Intents AcquireAddr, AcquireRoster, SelectLoco: the direction switch is
\* applied to whatever the slot then holds.
AcquireFromUi(d, l, spdt) ==
  LET d1 == Acquire(d, l) IN ChangeDirection(d1, d1.current, spdt)

NextThrottle(d) == [d EXCEPT !.current = (@ + 1) % d.max_throttles]

SelectThrottle(d, t) == IF t \in InUse(d) THEN [d EXCEPT !.current = t] ELSE d

(* order lists the acquired slots that n trims, from the highest down.     *)
TrimOrder(d, n, order) ==
  /\ \A t \in InUse(d) : t >= n /\ HasLoco(d, t) => \E i \in DOMAIN order : order[i] = t
  /\ \A i \in DOMAIN order :
       HasLoco(d, order[i]) /\ order[i] \in InUse(d) /\ order[i] >= n
  /\ \A i, j \in DOMAIN order : i < j => order[i] > order[j]

ReleasedSlot(slot) ==
  IF slot.consist = <<>> THEN slot
  ELSE [slot EXCEPT !.consist = <<>>, !.facing = <<>>, !.functions = {}, !.speed = 0]

SetMaxThrottles(d, n, order) ==
  [PushAll(d, [i \in 1..Len(order) |-> ReleaseThrottle(order[i])]) EXCEPT
     !.max_throttles = n,
     !.current = IF @ >= n THEN n - 1 ELSE @,
     !.throttles = [t \in Throttle |->
        IF t \in InUse(d) /\ t >= n THEN ReleasedSlot(@[t]) ELSE @[t]]]

-----------------------------------------------------------------------------
(* apply_event: what the server reports.                                   *)

\* Mutant of OnAddressAdded: a report for an empty slot is taken for stale.
OnAddressAddedToTrain(d, t, l) ==
  IF HasLoco(d, t) THEN [d EXCEPT !.throttles[t] = JoinConsist(@, l)] ELSE d

OnAddressAdded(d, t, l) == [d EXCEPT !.throttles[t] = JoinConsist(@, l)]

WithoutIndex(seq, i) == SubSeq(seq, 1, i - 1) \o SubSeq(seq, i + 1, Len(seq))

\* l = None stands for the address "*".
OnAddressRemoved(d, t, l) ==
  LET slot   == d.throttles[t]
      pos    == CHOOSE i \in DOMAIN slot.consist : slot.consist[i] = l
      gone   == IF Len(slot.consist) = 1 THEN 0 ELSE slot.speed
      facing == IF pos \in DOMAIN slot.facing
                  THEN WithoutIndex(slot.facing, pos) ELSE slot.facing
  IN  IF l = None THEN [ClearConsist(d, t) EXCEPT !.throttles[t].speed = 0]
      ELSE IF ~Holds(slot, l) THEN d
      ELSE [d EXCEPT !.throttles[t] =
              [slot EXCEPT !.consist = WithoutIndex(@, pos), !.facing = facing,
                           !.speed = gone]]

OnSpeedEcho(d, t, s) ==
  IF t = d.last_speed_throttle /\ s = d.last_speed_sent /\ d.sentAge # "old"
    THEN d
    ELSE [d EXCEPT !.throttles[t].speed = s]

OnDirectionLead(d, t, dir) == [d EXCEPT !.throttles[t] = TurnSlot(@, dir)]

OnDirectionLoco(d, t, l, dir) ==
  [d EXCEPT !.throttles[t].facing =
     [i \in DOMAIN @ |->
        IF i \in DOMAIN d.throttles[t].consist /\ d.throttles[t].consist[i] = l
          THEN dir ELSE @[i]]]

OnFunctionState(d, t, f, on) ==
  [d EXCEPT !.throttles[t].functions = IF on THEN @ \cup {f} ELSE @ \ {f}]

OnTrackPower(d, tp) == [d EXCEPT !.track_power = tp]

OnStealNeeded(d, t, l, supported) ==
  IF supported THEN PushCmd(d, Steal(t, l)) ELSE d

ApplyEvent(d, ev) ==
  CASE ev.op = "AddressAdded"   -> OnAddressAdded(d, ev.throttle, ev.loco)
    [] ev.op = "AddressRemoved" -> OnAddressRemoved(d, ev.throttle, ev.loco)
    [] ev.op = "Speed"          -> OnSpeedEcho(d, ev.throttle, ev.speed)

-----------------------------------------------------------------------------
(* reacquire_session_locos: what a reconnect sends again, slot by slot.    *)

\* Mutant of ReacquireSlot: the speed is the last one sent, not the slot's.
ReacquireSlotLastSent(d, t) ==
  LET slot == d.throttles[t]
  IN  IF slot.consist = <<>> THEN <<>>
      ELSE [i \in 1..Len(slot.consist) |-> AddLoco(t, slot.consist[i])]
             \o <<SetDirection(t, None, slot.direction), SetSpeed(t, d.last_speed_sent)>>

ReacquireSlot(d, t) ==
  LET slot == d.throttles[t]
  IN  IF slot.consist = <<>> THEN <<>>
      ELSE [i \in 1..Len(slot.consist) |-> AddLoco(t, slot.consist[i])]
             \o <<SetDirection(t, None, slot.direction), SetSpeed(t, slot.speed)>>
=============================================================================
