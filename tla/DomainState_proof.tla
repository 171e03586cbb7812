------------------------- MODULE DomainState_proof -------------------------
(***************************************************************************)
(* Lemmas about the operations of DomainState: each takes a state of Domain *)
(* to a state of Domain; what it pushes; and what becomes of a property of *)
(* the commands when commands are appended, taken or lost.                 *)
(***************************************************************************)
EXTENDS DomainState, SequenceTheorems, TLAPS

LEMMA AtMostType ==
  ASSUME NEW a \in Nat, NEW b \in Nat PROVE AtMost(a, b) \in Nat /\ AtMost(a, b) <= a /\ AtMost(a,b) <= b
BY DEF AtMost

LEMMA PushAllType ==
  ASSUME NEW d \in Domain, NEW cs \in Seq(Command)
  PROVE  PushAll(d, cs) \in Domain
<1>1. d.out \o cs \in Seq(Command)
  BY DEF Domain
<1>2. AtMost(Len(d.out) + Len(cs), CmdBuf) \in Nat
  BY <1>1, DomainAssumption DEF Domain, AtMost
<1>3. AtMost(Len(d.out) + Len(cs), CmdBuf) <= Len(d.out \o cs)
  BY <1>1, DomainAssumption DEF Domain, AtMost
<1>4. SubSeq(d.out \o cs, 1, AtMost(Len(d.out) + Len(cs), CmdBuf)) \in Seq(Command)
  BY <1>1, <1>2, <1>3
<1> QED BY <1>4 DEF PushAll, Domain

LEMMA OneCommand ==
  ASSUME NEW c \in Command PROVE <<c>> \in Seq(Command)
OBVIOUS

LEMMA CommandSeq ==
  ASSUME NEW n \in Nat, NEW f \in [1..n -> Command] PROVE f \in Seq(Command)
OBVIOUS

LEMMA PushCmdType ==
  ASSUME NEW d \in Domain, NEW c \in Command
  PROVE  PushCmd(d, c) \in Domain
<1>1. <<c>> \in Seq(Command)
  BY OneCommand
<1> QED BY <1>1, PushAllType DEF PushCmd

LEMMA EmitSpeedType ==
  ASSUME NEW d \in Domain, NEW t \in Throttle, NEW s \in Speed
  PROVE  EmitSpeed(d, t, s) \in Domain
<1>1. SetSpeed(t, s) \in Command
  BY DEF SetSpeed, Command
<1>2. PushCmd(d, SetSpeed(t, s)) \in Domain
  BY <1>1, PushCmdType
<1> QED BY <1>2 DEF EmitSpeed, Domain, SentAge

LEMMA SlotUpdate ==
  ASSUME NEW d \in Domain, NEW t \in Throttle, NEW s \in Slot
  PROVE  [d EXCEPT !.throttles[t] = s] \in Domain
BY DEF Domain

LEMMA SpeedUpdate ==
  ASSUME NEW d \in Domain, NEW t \in Throttle, NEW v \in Speed
  PROVE  [d EXCEPT !.throttles[t].speed = v] \in Domain
<1>1. d.throttles[t] \in Slot
  BY DEF Domain
<1>2. [d.throttles[t] EXCEPT !.speed = v] \in Slot
  BY <1>1 DEF Slot
<1> QED BY <1>2 DEF Domain

LEMMA FunctionsUpdate ==
  ASSUME NEW s \in Slot, NEW fs \in SUBSET Functions
  PROVE  [s EXCEPT !.functions = fs] \in Slot
BY DEF Slot

LEMMA SpeedSetType ==
  ASSUME NEW d \in Domain, NEW s \in Nat
  PROVE  SpeedSet(d, s) \in Domain
<1> DEFINE v == AtMost(s, MaxSpeed)
           d1 == [d EXCEPT !.throttles[d.current].speed = v]
<1>1. v \in Speed
  BY DomainAssumption DEF AtMost, Speed
<1>2. d.current \in Throttle
  BY DEF Domain
<1>3. d1 \in Domain
  BY <1>1, <1>2, SpeedUpdate
<1>4. EmitSpeed(d1, d.current, v) \in Domain
  BY <1>1, <1>2, <1>3, EmitSpeedType
<1>5. [d1 EXCEPT !.pending_speed = [throttle |-> d.current, speed |-> v]] \in Domain
  <2> HIDE DEF v, d1
  <2> QED BY <1>1, <1>2, <1>3 DEF Domain
<1> QED BY <1>3, <1>4, <1>5 DEF SpeedSet

LEMMA FlushPendingSpeedType ==
  ASSUME NEW d \in Domain
  PROVE  FlushPendingSpeed(d) \in Domain
<1>1. CASE d.pending_speed # None /\ Due(d)
  <2>1. d.pending_speed.throttle \in Throttle /\ d.pending_speed.speed \in Speed
    BY <1>1 DEF Domain
  <2> QED BY <1>1, <2>1, EmitSpeedType DEF FlushPendingSpeed
<1>2. CASE ~(d.pending_speed # None /\ Due(d))
  BY <1>2 DEF FlushPendingSpeed
<1> QED BY <1>1, <1>2

LEMMA CurrentSlot ==
  ASSUME NEW d \in Domain
  PROVE  /\ d.current \in Throttle
         /\ d.throttles[d.current] \in Slot
BY DEF Domain

LEMMA StepType ==
  ASSUME NEW d \in Domain, NEW fast \in BOOLEAN
  PROVE  EffectiveSpeedStep(d, fast) \in Nat
BY DomainAssumption DEF EffectiveSpeedStep, Domain

LEMMA SpeedUpType ==
  ASSUME NEW d \in Domain, NEW fast \in BOOLEAN
  PROVE  SpeedUp(d, fast) \in Domain
<1>1. d.throttles[d.current].speed \in Nat
  BY CurrentSlot, DomainAssumption DEF Slot, Speed
<1>2. d.throttles[d.current].speed + EffectiveSpeedStep(d, fast) \in Nat
  BY <1>1, StepType
<1> QED BY <1>2, SpeedSetType DEF SpeedUp

LEMMA SpeedDownType ==
  ASSUME NEW d \in Domain, NEW fast \in BOOLEAN
  PROVE  SpeedDown(d, fast) \in Domain
<1> DEFINE v == d.throttles[d.current].speed
           step == EffectiveSpeedStep(d, fast)
<1>1. v \in Nat /\ step \in Nat
  BY CurrentSlot, DomainAssumption, StepType DEF Slot, Speed
<1>2. (IF step >= v THEN 0 ELSE v - step) \in Nat
  BY <1>1
<1> QED BY <1>2, SpeedSetType DEF SpeedDown

LEMMA CycleSpeedMultiplierType ==
  ASSUME NEW d \in Domain
  PROVE  CycleSpeedMultiplier(d) \in Domain
<1>1. (IF d.speed_multiplier = 1 THEN AddMultiplier
       ELSE IF d.speed_multiplier = AddMultiplier THEN 2 * AddMultiplier ELSE 1) \in Nat
  BY DomainAssumption
<1> QED BY <1>1 DEF CycleSpeedMultiplier, Domain

LEMMA EStopCurrentType ==
  ASSUME NEW d \in Domain
  PROVE  EStopCurrent(d) \in Domain
<1>1. EStop(d.current) \in Command
  BY CurrentSlot DEF EStop, Command
<1>2. PushCmd(d, EStop(d.current)) \in Domain
  BY <1>1, PushCmdType
<1>3. [PushCmd(d, EStop(d.current)) EXCEPT !.pending_speed = None] \in Domain
  BY <1>2 DEF Domain
<1>4. 0 \in Speed
  BY DomainAssumption DEF Speed
<1>5. [[PushCmd(d, EStop(d.current)) EXCEPT !.pending_speed = None]
         EXCEPT !.throttles[d.current].speed = 0] \in Domain
  BY <1>3, <1>4, CurrentSlot, SpeedUpdate
<1> QED BY <1>5 DEF EStopCurrent

LEMMA StoppedSlot ==
  ASSUME NEW s \in Slot
  PROVE  [s EXCEPT !.speed = 0] \in Slot
<1>1. 0 \in Speed
  BY DomainAssumption DEF Speed
<1> QED BY <1>1 DEF Slot

LEMMA EStopAllType ==
  ASSUME NEW d \in Domain, NEW order \in Seq(Throttle)
  PROVE  EStopAll(d, order) \in Domain
<1> DEFINE cs == [i \in 1..Len(order) |-> EStop(order[i])]
           ts == [t \in Throttle |->
                    IF t \in InUse(d) /\ HasLoco(d, t)
                      THEN [d.throttles[t] EXCEPT !.speed = 0] ELSE d.throttles[t]]
<1>1. \A i \in 1..Len(order) : EStop(order[i]) \in Command
  BY DEF EStop, Command
<1>2. cs \in Seq(Command)
  BY <1>1
<1>3. PushAll(d, cs) \in Domain /\ PushAll(d, cs).throttles = d.throttles
  <2>1. PushAll(d, cs).throttles = d.throttles
    BY DEF PushAll, Domain
  <2> QED BY <1>2, <2>1, PushAllType
<1>4. ts \in [Throttle -> Slot]
  <2>1. \A t \in Throttle : d.throttles[t] \in Slot
    BY DEF Domain
  <2>2. \A t \in Throttle : [d.throttles[t] EXCEPT !.speed = 0] \in Slot
    BY <2>1, StoppedSlot
  <2> QED BY <2>1, <2>2
<1>5. EStopAll(d, order) = [PushAll(d, cs) EXCEPT !.pending_speed = None, !.throttles = ts]
  BY <1>3 DEF EStopAll
<1> HIDE DEF cs, ts
<1> QED BY <1>3, <1>4, <1>5 DEF Domain

LEMMA FacingOfType ==
  ASSUME NEW s \in Slot, NEW i, NEW dir \in Direction
  PROVE  FacingOf(s, i, dir) \in Direction
BY DEF FacingOf, Slot

LEMMA DirectionCommandsType ==
  ASSUME NEW t \in Throttle, NEW s \in Slot, NEW dir \in Direction
  PROVE  DirectionCommands(t, s, dir) \in Seq(Command)
<1> DEFINE n == Len(s.consist)
           lead == FacingOf(s, 1, s.direction)
           Target(i) == IF FacingOf(s, i, lead) = lead THEN dir ELSE Opposite(dir)
           cs == [i \in 1..n |-> IF i < n
                    THEN SetDirection(t, s.consist[i + 1], Target(i + 1))
                    ELSE SetDirection(t, s.consist[1], dir)]
<1>1. \A l \in Locos \cup {None}, x \in Direction : SetDirection(t, l, x) \in Command
  BY DEF SetDirection, Command
<1>2. <<SetDirection(t, None, dir)>> \in Seq(Command)
  <2>1. SetDirection(t, None, dir) \in Command
    BY <1>1
  <2> QED BY <2>1, OneCommand
<1>3. \A i : Target(i) \in Direction
  BY DEF Opposite, Direction
<1>4. n \in Nat /\ \A i \in 1..n : s.consist[i] \in Locos
  BY DEF Slot
<1>5. ASSUME NEW i \in 1..n PROVE cs[i] \in Command
  <2> HIDE DEF Target, lead
  <2>1. CASE i < n
    <3>1. i + 1 \in 1..n
      BY <1>4, <2>1
    <3>2. s.consist[i + 1] \in Locos
      BY <1>4, <3>1
    <3> QED BY <1>1, <1>3, <2>1, <3>2
  <2>2. CASE ~(i < n)
    <3>1. s.consist[1] \in Locos
      BY <1>4
    <3> QED BY <1>1, <2>2, <3>1
  <2> QED BY <2>1, <2>2
<1>6. cs \in Seq(Command)
  <2>1. cs \in [1..n -> Command]
    BY <1>5
  <2> HIDE DEF cs
  <2> QED BY <1>4, <2>1, CommandSeq
<1> QED BY <1>2, <1>6 DEF DirectionCommands

LEMMA TurnSlotType ==
  ASSUME NEW s \in Slot, NEW dir \in Direction
  PROVE  TurnSlot(s, dir) \in Slot
<1>1. (IF s.facing = <<>> THEN s.facing ELSE [s.facing EXCEPT ![1] = dir]) \in Seq(Direction)
  BY DEF Slot
<1> QED BY <1>1 DEF TurnSlot, Slot

LEMMA ChangeDirectionType ==
  ASSUME NEW d \in Domain, NEW t \in Throttle, NEW dir \in Direction
  PROVE  ChangeDirection(d, t, dir) \in Domain
<1> DEFINE cs == DirectionCommands(t, d.throttles[t], dir)
<1>1. d.throttles[t] \in Slot
  BY DEF Domain
<1>2. PushAll(d, cs) \in Domain
  BY <1>1, DirectionCommandsType, PushAllType
<1>3. TurnSlot(PushAll(d, cs).throttles[t], dir) \in Slot
  <2>1. PushAll(d, cs).throttles[t] \in Slot
    BY <1>2 DEF Domain
  <2> QED BY <2>1, TurnSlotType
<1>4. [PushAll(d, cs) EXCEPT !.throttles[t] = TurnSlot(PushAll(d, cs).throttles[t], dir)] \in Domain
  BY <1>2, <1>3, SlotUpdate
<1> QED BY <1>4 DEF ChangeDirection

LEMMA OppositeType ==
  ASSUME NEW dir \in Direction PROVE Opposite(dir) \in Direction
BY DEF Opposite, Direction

LEMMA StopThenToggleDirectionType ==
  ASSUME NEW d \in Domain
  PROVE  StopThenToggleDirection(d) \in Domain
<1>1. SpeedSet(d, 0) \in Domain
  BY SpeedSetType
<1>2. Opposite(d.throttles[d.current].direction) \in Direction
  BY CurrentSlot, OppositeType DEF Slot
<1>3. ChangeDirection(d, d.current, Opposite(d.throttles[d.current].direction)) \in Domain
  BY SMTT(60), <1>2, CurrentSlot, ChangeDirectionType
<1> QED BY <1>1, <1>3 DEF StopThenToggleDirection

LEMMA ToggleFunctionType ==
  ASSUME NEW d \in Domain, NEW f \in Functions
  PROVE  ToggleFunction(d, f) \in Domain
<1> DEFINE t == d.current
           latched == d.throttles[t].functions
           on == f \notin latched
           fs == IF on THEN latched \cup {f} ELSE latched \ {f}
           d1 == PushCmd(d, SetFunction(t, f, on))
<1>1. t \in Throttle /\ latched \in SUBSET Functions
  BY CurrentSlot DEF Slot
<1>2. SetFunction(t, f, on) \in Command
  BY <1>1 DEF SetFunction, Command
<1>3. d1 \in Domain
  BY <1>2, PushCmdType
<1>4. fs \in SUBSET Functions
  BY <1>1
<1>5. [d1.throttles[t] EXCEPT !.functions = fs] \in Slot
  <2> HIDE DEF fs, d1, t
  <2>1. d1.throttles[t] \in Slot
    BY <1>1, <1>3 DEF Domain
  <2> QED BY SMTT(60), <1>4, <2>1, FunctionsUpdate
<1>6. [d1 EXCEPT !.throttles[t] = [d1.throttles[t] EXCEPT !.functions = fs]] \in Domain
  BY <1>1, <1>3, <1>5, SlotUpdate
<1> QED BY <1>6 DEF ToggleFunction

LEMMA SetTrackPowerType ==
  ASSUME NEW d \in Domain, NEW on \in BOOLEAN
  PROVE  SetTrackPower(d, on) \in Domain
<1>1. PushCmd(d, TrackPower(on)) \in Domain
  BY PushCmdType DEF TrackPower, Command
<1> QED BY <1>1 DEF SetTrackPower, Domain

LEMMA PowerToggleType ==
  ASSUME NEW d \in Domain
  PROVE  PowerToggle(d) \in Domain
BY SetTrackPowerType DEF PowerToggle

LEMMA ReleasedSlotType ==
  ASSUME NEW s \in Slot
  PROVE  [s EXCEPT !.consist = <<>>, !.facing = <<>>, !.functions = {}, !.speed = 0] \in Slot
<1>1. 0 \in Speed /\ <<>> \in Seq(Locos) /\ <<>> \in Seq(Direction)
  BY DomainAssumption DEF Speed
<1> QED BY <1>1 DEF Slot

LEMMA ClearConsistType ==
  ASSUME NEW d \in Domain, NEW t \in Throttle
  PROVE  ClearConsist(d, t) \in Domain
<1> DEFINE s == [d.throttles[t] EXCEPT !.consist = <<>>, !.facing = <<>>, !.functions = {}]
<1>1. d.throttles[t] \in Slot /\ <<>> \in Seq(Locos) /\ <<>> \in Seq(Direction)
  BY DEF Domain
<1>2. s \in Slot
  BY <1>1 DEF Slot
<1>3. ClearConsist(d, t) = [d EXCEPT !.throttles[t] = s]
  BY DEF ClearConsist, Domain
<1> QED BY <1>2, <1>3, SlotUpdate

LEMMA ReleaseType ==
  ASSUME NEW d \in Domain, NEW t \in Throttle
  PROVE  Release(d, t) \in Domain
<1>1. PushCmd(d, ReleaseThrottle(t)) \in Domain
  BY PushCmdType DEF ReleaseThrottle, Command
<1>2. ClearConsist(PushCmd(d, ReleaseThrottle(t)), t) \in Domain
  BY <1>1, ClearConsistType
<1>3. 0 \in Speed
  BY DomainAssumption DEF Speed
<1> QED BY <1>2, <1>3, SpeedUpdate DEF Release

LEMMA JoinConsistType ==
  ASSUME NEW s \in Slot, NEW l \in Locos
  PROVE  JoinConsist(s, l) \in Slot
<1>1. Append(s.consist, l) \in Seq(Locos) /\ Append(s.facing, "Forward") \in Seq(Direction)
  BY DEF Slot, Direction
<1> QED BY <1>1 DEF JoinConsist, Slot

LEMMA AcquireType ==
  ASSUME NEW d \in Domain, NEW l \in Locos
  PROVE  Acquire(d, l) \in Domain
<1> DEFINE d1 == ReleaseAll(d)
           slot == JoinConsist(d1.throttles[d1.current], l)
<1>1. d1 \in Domain
  BY CurrentSlot, ReleaseType DEF ReleaseAll
<1> HIDE DEF d1
<1>2. d1.current \in Throttle /\ slot \in Slot
  BY <1>1, CurrentSlot, JoinConsistType
<1> HIDE DEF slot
<1>3. [d1 EXCEPT !.throttles[d1.current] = slot] \in Domain
  BY <1>1, <1>2, SlotUpdate
<1>4. AddLoco(d1.current, l) \in Command
  BY <1>2 DEF AddLoco, Command
<1>5. PushCmd([d1 EXCEPT !.throttles[d1.current] = slot], AddLoco(d1.current, l)) \in Domain
  BY <1>3, <1>4, PushCmdType
<1>6. AcquireLoco(d1, l) \in Domain
  BY <1>1, <1>5 DEF AcquireLoco, slot
<1> QED BY <1>6 DEF Acquire, d1

LEMMA AcquireFromUiType ==
  ASSUME NEW d \in Domain, NEW l \in Locos, NEW spdt \in Direction
  PROVE  AcquireFromUi(d, l, spdt) \in Domain
<1>1. Acquire(d, l) \in Domain
  BY AcquireType
<1>2. Acquire(d, l).current \in Throttle
  BY <1>1, CurrentSlot
<1> QED BY <1>1, <1>2, ChangeDirectionType DEF AcquireFromUi

LEMMA NextThrottleType ==
  ASSUME NEW d \in Domain
  PROVE  NextThrottle(d) \in Domain
<1>1. d.current \in Nat /\ d.max_throttles \in 1..MaxThrottles /\ MaxThrottles \in Nat
  BY DomainAssumption DEF Domain, Throttle
<1>2. (d.current + 1) % d.max_throttles \in 0..(d.max_throttles - 1)
  BY <1>1
<1>3. (d.current + 1) % d.max_throttles \in Throttle
  BY <1>1, <1>2 DEF Throttle
<1> QED BY <1>3 DEF NextThrottle, Domain

LEMMA SelectThrottleType ==
  ASSUME NEW d \in Domain, NEW t \in Throttle
  PROVE  SelectThrottle(d, t) \in Domain
BY DEF SelectThrottle, Domain

LEMMA SetMaxThrottlesType ==
  ASSUME NEW d \in Domain, NEW n \in 1..MaxThrottles, NEW order \in Seq(Throttle)
  PROVE  SetMaxThrottles(d, n, order) \in Domain
<1> DEFINE cs == [i \in 1..Len(order) |-> ReleaseThrottle(order[i])]
           ts == [t \in Throttle |->
                    IF t \in InUse(d) /\ t >= n THEN ReleasedSlot(d.throttles[t])
                    ELSE d.throttles[t]]
           c == IF d.current >= n THEN n - 1 ELSE d.current
<1>1. cs \in Seq(Command)
  <2>1. \A i \in 1..Len(order) : ReleaseThrottle(order[i]) \in Command
    BY DEF ReleaseThrottle, Command
  <2> QED BY <2>1
<1>2. PushAll(d, cs) \in Domain
  BY <1>1, PushAllType
<1>3. PushAll(d, cs).throttles = d.throttles /\ PushAll(d, cs).current = d.current
  BY DEF PushAll, Domain
<1>4. ts \in [Throttle -> Slot]
  <2>1. \A t \in Throttle : d.throttles[t] \in Slot
    BY DEF Domain
  <2>2. \A t \in Throttle : ReleasedSlot(d.throttles[t]) \in Slot
    BY <2>1, ReleasedSlotType DEF ReleasedSlot
  <2> QED BY <2>1, <2>2
<1>5. c \in Throttle
  BY DomainAssumption DEF Domain, Throttle
<1>6. SetMaxThrottles(d, n, order)
        = [PushAll(d, cs) EXCEPT !.max_throttles = n, !.current = c, !.throttles = ts]
  BY <1>3 DEF SetMaxThrottles
<1> HIDE DEF cs, ts, c
<1> QED BY <1>2, <1>4, <1>5, <1>6 DEF Domain

LEMMA OnAddressAddedType ==
  ASSUME NEW d \in Domain, NEW t \in Throttle, NEW l \in Locos
  PROVE  OnAddressAdded(d, t, l) \in Domain
<1>1. JoinConsist(d.throttles[t], l) \in Slot
  BY JoinConsistType DEF Domain
<1> QED BY <1>1, SlotUpdate DEF OnAddressAdded

\* Taking one element out of a sequence leaves a shorter sequence.
LEMMA WithoutIndexType ==
  ASSUME NEW S, NEW q \in Seq(S), NEW i \in 1..Len(q)
  PROVE  /\ WithoutIndex(q, i) \in Seq(S)
         /\ Len(WithoutIndex(q, i)) = Len(q) - 1
         /\ \A j \in 1..(Len(q) - 1) :
              WithoutIndex(q, i)[j] = IF j < i THEN q[j] ELSE q[j + 1]
<1> DEFINE a == SubSeq(q, 1, i - 1)
           b == SubSeq(q, i + 1, Len(q))
<1>1. a \in Seq(S) /\ Len(a) = i - 1 /\ \A j \in 1..(i - 1) : a[j] = q[j]
  OBVIOUS
<1>2. b \in Seq(S) /\ Len(b) = Len(q) - i /\ \A j \in 1..(Len(q) - i) : b[j] = q[i + j]
  <2>1. b \in Seq(S) /\ Len(b) = Len(q) - i
    OBVIOUS
  <2>2. ASSUME NEW j \in 1..(Len(q) - i) PROVE b[j] = q[i + j]
    OBVIOUS
  <2> QED BY <2>1, <2>2
<1> HIDE DEF a, b
<1>3. a \o b \in Seq(S) /\ Len(a \o b) = Len(q) - 1
  <2>1. a \in Seq(S) /\ b \in Seq(S) /\ Len(q) \in Nat
    BY <1>1, <1>2
  <2>2. a \o b \in Seq(S) /\ Len(a \o b) = Len(a) + Len(b)
    BY <2>1, ConcatProperties
  <2> QED BY <1>1, <1>2, <2>1, <2>2
<1>4. ASSUME NEW j \in 1..(Len(q) - 1)
      PROVE  (a \o b)[j] = IF j < i THEN q[j] ELSE q[j + 1]
  <2>1. CASE j < i
    BY <1>1, <1>2, <2>1
  <2>2. CASE ~(j < i)
    <3>1. j - (i - 1) \in 1..(Len(q) - i) /\ i + (j - (i - 1)) = j + 1
      BY <2>2
    <3>2. (a \o b)[j] = b[j - (i - 1)]
      BY <1>1, <1>2, <2>2
    <3> QED BY <1>2, <2>2, <3>1, <3>2
  <2> QED BY <2>1, <2>2
<1> QED BY <1>3, <1>4 DEF WithoutIndex, a, b

LEMMA OnAddressRemovedType ==
  ASSUME NEW d \in Domain, NEW t \in Throttle, NEW l \in Locos \cup {None}
  PROVE  OnAddressRemoved(d, t, l) \in Domain
<1> DEFINE slot == d.throttles[t]
           pos == CHOOSE i \in DOMAIN slot.consist : slot.consist[i] = l
           gone == IF Len(slot.consist) = 1 THEN 0 ELSE slot.speed
           facing == IF pos \in DOMAIN slot.facing
                       THEN WithoutIndex(slot.facing, pos) ELSE slot.facing
<1>1. slot \in Slot
  BY DEF Domain
<1>2. 0 \in Speed
  BY DomainAssumption DEF Speed
<1>3. CASE l = None
  <2>1. [ClearConsist(d, t) EXCEPT !.throttles[t].speed = 0] \in Domain
    BY <1>2, ClearConsistType, SpeedUpdate
  <2> QED BY <1>3, <2>1 DEF OnAddressRemoved
<1>4. CASE l # None /\ ~Holds(slot, l)
  BY <1>4 DEF OnAddressRemoved
<1>5. CASE l # None /\ Holds(slot, l)
  <2>1. pos \in DOMAIN slot.consist
    BY <1>5 DEF Holds
  <2>2. slot.consist \in Seq(Locos) /\ slot.facing \in Seq(Direction) /\ slot.speed \in Speed
    BY <1>1 DEF Slot
  <2> HIDE DEF pos
  <2>3. WithoutIndex(slot.consist, pos) \in Seq(Locos)
    BY <2>1, <2>2, WithoutIndexType
  <2>4. facing \in Seq(Direction)
    BY <2>2, WithoutIndexType
  <2>5. gone \in Speed
    BY <1>2, <2>2
  <2> HIDE DEF gone, facing, slot
  <2>6. [slot EXCEPT !.consist = WithoutIndex(slot.consist, pos), !.facing = facing,
                     !.speed = gone] \in Slot
    BY <1>1, <2>3, <2>4, <2>5 DEF Slot
  <2>7. OnAddressRemoved(d, t, l)
          = [d EXCEPT !.throttles[t] =
               [slot EXCEPT !.consist = WithoutIndex(slot.consist, pos),
                            !.facing = facing, !.speed = gone]]
    BY <1>5 DEF OnAddressRemoved, slot, pos, gone, facing
  <2> QED BY <2>6, <2>7, SlotUpdate
<1> QED BY <1>3, <1>4, <1>5

LEMMA OnSpeedEchoType ==
  ASSUME NEW d \in Domain, NEW t \in Throttle, NEW s \in Speed
  PROVE  OnSpeedEcho(d, t, s) \in Domain
BY SpeedUpdate DEF OnSpeedEcho

LEMMA NewType == New \in Domain
<1>1. NewSlot \in Slot
  <2>1. 0 \in Speed /\ <<>> \in Seq(Locos) /\ <<>> \in Seq(Direction)
    BY DomainAssumption DEF Speed
  <2> QED BY <2>1 DEF NewSlot, Slot, Direction
<1>2. 0 \in Throttle /\ 0 \in Speed /\ <<>> \in Seq(Command)
  BY DomainAssumption DEF Throttle, Speed
<1>3. DefaultThrottles \in 1..MaxThrottles
  BY DomainAssumption
<1>4. [t \in Throttle |-> NewSlot] \in [Throttle -> Slot]
  BY <1>1
<1> HIDE DEF NewSlot
<1> QED BY <1>2, <1>3, <1>4 DEF New, Domain, SentAge

LEMMA OrdersType ==
  ASSUME NEW order \in Orders
  PROVE  order \in Seq(Throttle)
<1>1. PICK n \in 0..MaxThrottles : order \in [1..n -> Throttle]
  BY DEF Orders
<1> QED BY <1>1

LEMMA OneEvent ==
  ASSUME NEW e \in Event PROVE <<e>> \in Seq(Event)
OBVIOUS

LEMMA ReportsType ==
  /\ \A t \in Throttle, l \in Locos :
       <<[op |-> "AddressAdded", throttle |-> t, loco |-> l]>> \in Seq(Event)
  /\ \A t \in Throttle, s \in Speed :
       <<[op |-> "Speed", throttle |-> t, speed |-> s]>> \in Seq(Event)
  /\ <<>> \in Seq(Event)
<1>1. \A e \in Event : <<e>> \in Seq(Event)
  BY OneEvent
<1>2. \A t \in Throttle, l \in Locos : [op |-> "AddressAdded", throttle |-> t, loco |-> l] \in Event
  BY DEF Event
<1>3. \A t \in Throttle, s \in Speed : [op |-> "Speed", throttle |-> t, speed |-> s] \in Event
  BY DEF Event
<1> QED BY <1>1, <1>2, <1>3

LEMMA FewEvents ==
  /\ <<>> \in Seq(Event) /\ DOMAIN <<>> = {}
  /\ \A x \in Event : /\ <<x>> \in Seq(Event) /\ DOMAIN <<x>> = {1} /\ <<x>>[1] = x
                      /\ \A i \in DOMAIN <<x>> : <<x>>[i] = x
<1>1. <<>> \in Seq(Event) /\ DOMAIN <<>> = {}
  OBVIOUS
<1>2. ASSUME NEW x \in Event
      PROVE  /\ <<x>> \in Seq(Event) /\ DOMAIN <<x>> = {1} /\ <<x>>[1] = x
             /\ \A i \in DOMAIN <<x>> : <<x>>[i] = x
  <2>1. <<x>> \in Seq(Event) /\ DOMAIN <<x>> = 1..1 /\ <<x>>[1] = x
    BY OneEvent
  <2> QED BY <2>1
<1> QED BY <1>1, <1>2

LEMMA ApplyEventType ==
  ASSUME NEW d \in Domain, NEW ev \in Event
  PROVE  ApplyEvent(d, ev) \in Domain
<1>1. CASE ev.op = "AddressAdded"
  <2>1. ev.throttle \in Throttle /\ ev.loco \in Locos
    BY <1>1 DEF Event
  <2> QED BY <1>1, <2>1, OnAddressAddedType DEF ApplyEvent
<1>2. CASE ev.op = "AddressRemoved"
  <2>1. ev.throttle \in Throttle /\ ev.loco \in Locos \cup {None}
    BY <1>2 DEF Event
  <2> QED BY <1>2, <2>1, OnAddressRemovedType DEF ApplyEvent
<1>3. CASE ev.op = "Speed"
  <2>1. ev.throttle \in Throttle /\ ev.speed \in Speed
    BY <1>3 DEF Event
  <2> QED BY <1>3, <2>1, OnSpeedEchoType DEF ApplyEvent
<1> QED BY <1>1, <1>2, <1>3 DEF Event

-----------------------------------------------------------------------------
(* Speeds and stops among the commands: a speed that moves t is followed by *)
(* a stop (Safe), nothing moves the throttles in H (Quiet), nor will (Calm). *)

Safe(t, q) ==
  \A i \in DOMAIN q : Moves(t, q[i]) => \E j \in DOMAIN q : j > i /\ Stops(t, q[j])

Quiet(H, q) == \A i \in DOMAIN q : \A t \in H : ~Moves(t, q[i])

Calm(H, d) ==
  /\ d.pending_speed # None => d.pending_speed.throttle \notin H
  /\ Quiet(H, d.out)

HasStop(t, q) == \E i \in DOMAIN q : Stops(t, q[i])

-----------------------------------------------------------------------------
(* Sequences of commands.                                                  *)

\* Safe, said with the length of the sequence.
LEMMA SafeByLength ==
  ASSUME NEW q, NEW n \in Nat, q \in Seq(Command), Len(q) = n, NEW t,
         \A i \in 1..n : Moves(t, q[i]) => \E j \in 1..n : j > i /\ Stops(t, q[j])
  PROVE  Safe(t, q)
<1>1. DOMAIN q = 1..n
  OBVIOUS
<1> QED BY <1>1 DEF Safe

LEMMA SafeQuiet ==
  ASSUME NEW q \in Seq(Command), NEW r \in Seq(Command), NEW t,
         Safe(t, q), Quiet({t}, r)
  PROVE  Safe(t, q \o r)
<1>1. /\ q \o r \in Seq(Command) /\ Len(q \o r) = Len(q) + Len(r)
      /\ \A i \in 1..(Len(q) + Len(r)) :
           (q \o r)[i] = IF i <= Len(q) THEN q[i] ELSE r[i - Len(q)]
  BY ConcatProperties
<1>2. SUFFICES ASSUME NEW i \in 1..(Len(q) + Len(r)), Moves(t, (q \o r)[i])
               PROVE  \E j \in 1..(Len(q) + Len(r)) : j > i /\ Stops(t, (q \o r)[j])
  <2> DEFINE c == q \o r
             n == Len(q) + Len(r)
  <2>1. c \in Seq(Command) /\ Len(c) = n /\ n \in Nat
    BY <1>1
  <2> HIDE DEF c, n
  <2>2. (\A i \in 1..n : Moves(t, c[i]) => \E j \in 1..n : j > i /\ Stops(t, c[j]))
          => Safe(t, c)
    BY <2>1, SafeByLength
  <2> QED BY <2>2 DEF c, n
<1>3. i \in 1..Len(q)
  <2> SUFFICES ASSUME i > Len(q) PROVE FALSE
    OBVIOUS
  <2>1. i - Len(q) \in 1..Len(r) /\ (q \o r)[i] = r[i - Len(q)]
    BY <1>1
  <2> QED BY <1>2, <2>1 DEF Quiet
<1>4. Moves(t, q[i])
  BY <1>1, <1>2, <1>3
<1>5. PICK j \in 1..Len(q) : j > i /\ Stops(t, q[j])
  BY <1>3, <1>4 DEF Safe
<1>6. j \in 1..(Len(q) + Len(r)) /\ (q \o r)[j] = q[j]
  BY <1>1
<1> QED BY <1>5, <1>6

LEMMA SafeStop ==
  ASSUME NEW q \in Seq(Command), NEW r \in Seq(Command), NEW t,
         Quiet({t}, r), HasStop(t, r)
  PROVE  Safe(t, q \o r)
<1>1. /\ q \o r \in Seq(Command) /\ Len(q \o r) = Len(q) + Len(r)
      /\ \A i \in 1..(Len(q) + Len(r)) :
           (q \o r)[i] = IF i <= Len(q) THEN q[i] ELSE r[i - Len(q)]
  BY ConcatProperties
<1>2. SUFFICES ASSUME NEW i \in 1..(Len(q) + Len(r)), Moves(t, (q \o r)[i])
               PROVE  \E j \in 1..(Len(q) + Len(r)) : j > i /\ Stops(t, (q \o r)[j])
  <2> DEFINE c == q \o r
             n == Len(q) + Len(r)
  <2>1. c \in Seq(Command) /\ Len(c) = n /\ n \in Nat
    BY <1>1
  <2> HIDE DEF c, n
  <2>2. (\A i \in 1..n : Moves(t, c[i]) => \E j \in 1..n : j > i /\ Stops(t, c[j]))
          => Safe(t, c)
    BY <2>1, SafeByLength
  <2> QED BY <2>2 DEF c, n
<1>3. i \in 1..Len(q)
  <2> SUFFICES ASSUME i > Len(q) PROVE FALSE
    OBVIOUS
  <2>1. i - Len(q) \in 1..Len(r) /\ (q \o r)[i] = r[i - Len(q)]
    BY <1>1
  <2> QED BY <1>2, <2>1 DEF Quiet
<1>4. PICK k \in 1..Len(r) : Stops(t, r[k])
  BY DEF HasStop
<1>5. Len(q) + k \in 1..(Len(q) + Len(r)) /\ Len(q) + k > i
  BY <1>3
<1>6. (q \o r)[Len(q) + k] = r[k]
  <2>1. ~(Len(q) + k <= Len(q)) /\ (Len(q) + k) - Len(q) = k
    BY <1>4
  <2> QED BY <1>1, <1>5, <2>1
<1> QED BY <1>4, <1>5, <1>6

LEMMA SafeTail ==
  ASSUME NEW q \in Seq(Command), q # <<>>, NEW t, Safe(t, q)
  PROVE  Safe(t, Tail(q))
<1>1. /\ Tail(q) \in Seq(Command) /\ Len(Tail(q)) = Len(q) - 1
      /\ \A i \in 1..(Len(q) - 1) : Tail(q)[i] = q[i + 1]
  OBVIOUS
<1>2. SUFFICES ASSUME NEW i \in 1..(Len(q) - 1), Moves(t, Tail(q)[i])
               PROVE  \E j \in 1..(Len(q) - 1) : j > i /\ Stops(t, Tail(q)[j])
  <2> DEFINE c == Tail(q)
             n == Len(q) - 1
  <2>1. c \in Seq(Command) /\ Len(c) = n /\ n \in Nat
    BY <1>1
  <2> HIDE DEF c, n
  <2>2. (\A i \in 1..n : Moves(t, c[i]) => \E j \in 1..n : j > i /\ Stops(t, c[j]))
          => Safe(t, c)
    BY <2>1, SafeByLength
  <2> QED BY <2>2 DEF c, n
<1>3. i + 1 \in 1..Len(q) /\ Moves(t, q[i + 1])
  BY <1>1, <1>2
<1>4. PICK k \in 1..Len(q) : k > i + 1 /\ Stops(t, q[k])
  BY <1>3 DEF Safe
<1>5. k - 1 \in 1..(Len(q) - 1) /\ k - 1 > i /\ (k - 1) + 1 = k
  BY <1>4
<1>6. Tail(q)[k - 1] = q[k]
  BY <1>1, <1>5
<1> QED BY <1>4, <1>5, <1>6

\* Losing a command that concerns another throttle.
LEMMA SafeWithout ==
  ASSUME NEW q \in Seq(Command), NEW n \in 1..Len(q), NEW t, Safe(t, q), ~Stops(t, q[n])
  PROVE  Safe(t, WithoutIndex(q, n))
<1>1. /\ WithoutIndex(q, n) \in Seq(Command) /\ Len(WithoutIndex(q, n)) = Len(q) - 1
      /\ \A j \in 1..(Len(q) - 1) :
           WithoutIndex(q, n)[j] = IF j < n THEN q[j] ELSE q[j + 1]
  BY WithoutIndexType
<1>2. SUFFICES ASSUME NEW i \in 1..(Len(q) - 1), Moves(t, WithoutIndex(q, n)[i])
               PROVE  \E j \in 1..(Len(q) - 1) : j > i /\ Stops(t, WithoutIndex(q, n)[j])
  BY SMTT(60), <1>1 DEF Safe
<1> DEFINE o == IF i < n THEN i ELSE i + 1
<1>3. o \in 1..Len(q) /\ Moves(t, q[o])
  BY <1>1, <1>2
<1>4. PICK k \in 1..Len(q) : k > o /\ Stops(t, q[k])
  BY <1>3 DEF Safe
<1>5. k # n
  BY <1>4
<1> DEFINE j == IF k < n THEN k ELSE k - 1
<1>6. j \in 1..(Len(q) - 1) /\ j > i
  BY <1>4, <1>5
<1>7. WithoutIndex(q, n)[j] = q[k]
  <2>1. (IF j < n THEN q[j] ELSE q[j + 1]) = q[k]
    BY <1>4, <1>5
  <2> QED BY <1>1, <1>6, <2>1
<1> QED BY <1>4, <1>6, <1>7

-----------------------------------------------------------------------------
(* Operations of the driving state.                                        *)

LEMMA PushAllCalm ==
  ASSUME NEW d \in Domain, NEW cs \in Seq(Command), NEW H, Calm(H, d), Quiet(H, cs)
  PROVE  Calm(H, PushAll(d, cs))
<1> DEFINE n == AtMost(Len(d.out) + Len(cs), CmdBuf)
<1>1. /\ d.out \in Seq(Command)
      /\ d.out \o cs \in Seq(Command) /\ Len(d.out \o cs) = Len(d.out) + Len(cs)
      /\ \A i \in 1..(Len(d.out) + Len(cs)) :
           (d.out \o cs)[i] = IF i <= Len(d.out) THEN d.out[i] ELSE cs[i - Len(d.out)]
  BY ConcatProperties DEF Domain
<1>2. n \in Nat /\ n <= Len(d.out) + Len(cs)
  BY <1>1, DomainAssumption DEF AtMost
<1>3. PushAll(d, cs).out = SubSeq(d.out \o cs, 1, n) /\ PushAll(d, cs).pending_speed = d.pending_speed
  BY DEF PushAll, Domain
<1> HIDE DEF n
<1>4. /\ DOMAIN SubSeq(d.out \o cs, 1, n) = 1..n
      /\ \A i \in 1..n : SubSeq(d.out \o cs, 1, n)[i] = (d.out \o cs)[i]
  BY <1>1, <1>2
<1>5. ASSUME NEW i \in 1..n, NEW t \in H
      PROVE  ~Moves(t, (d.out \o cs)[i])
  <2>1. CASE i <= Len(d.out)
    <3>1. i \in DOMAIN d.out /\ (d.out \o cs)[i] = d.out[i]
      BY <1>1, <1>2, <2>1
    <3> QED BY <3>1 DEF Calm, Quiet
  <2>2. CASE ~(i <= Len(d.out))
    <3>1. i - Len(d.out) \in DOMAIN cs /\ (d.out \o cs)[i] = cs[i - Len(d.out)]
      BY <1>1, <1>2, <2>2
    <3> QED BY <3>1 DEF Quiet
  <2> QED BY <1>1, <2>1, <2>2
<1>6. Quiet(H, PushAll(d, cs).out)
  BY <1>3, <1>4, <1>5 DEF Quiet
<1> QED BY <1>3, <1>6 DEF Calm

LEMMA PushCmdCalm ==
  ASSUME NEW d \in Domain, NEW c \in Command, NEW H, Calm(H, d), \A t \in H : ~Moves(t, c)
  PROVE  Calm(H, PushCmd(d, c))
<1>1. <<c>> \in Seq(Command) /\ Quiet(H, <<c>>)
  BY OneCommand DEF Quiet
<1> QED BY <1>1, PushAllCalm DEF PushCmd

\* The first command into an empty buffer is there afterwards.
LEMMA PushCmdFirst ==
  ASSUME NEW d \in Domain, d.out = <<>>, NEW c \in Command
  PROVE  PushCmd(d, c).out = <<c>>
<1>1. d.out \o <<c>> = <<c>> /\ Len(d.out) = 0 /\ Len(<<c>>) = 1
  BY OneCommand
<1>2. AtMost(0 + 1, CmdBuf) = 1
  BY DomainAssumption DEF AtMost
<1>3. SubSeq(<<c>>, 1, 1) = <<c>>
  <2>1. SubSeq(<<c>>, 1, Len(<<c>>)) = <<c>>
    BY OneCommand, SubSeqFull
  <2> QED BY <1>1, <2>1
<1>4. PushCmd(d, c).out = SubSeq(d.out \o <<c>>, 1, AtMost(Len(d.out) + Len(<<c>>), CmdBuf))
  BY DEF PushCmd, PushAll, Domain
<1> QED BY <1>1, <1>2, <1>3, <1>4

\* Calm depends on the coalesced speed and the buffer alone.
LEMMA CalmSame ==
  ASSUME NEW H, NEW d, NEW e, Calm(H, d), e.out = d.out, e.pending_speed = d.pending_speed
  PROVE  Calm(H, e)
BY DEF Calm

LEMMA CalmLess ==
  ASSUME NEW H, NEW G \in SUBSET H, NEW d, Calm(H, d)
  PROVE  Calm(G, d)
BY DEF Calm, Quiet

LEMMA EmitSpeedFields ==
  ASSUME NEW d \in Domain, NEW t \in Throttle, NEW s \in Speed
  PROVE  /\ EmitSpeed(d, t, s).out = PushCmd(d, SetSpeed(t, s)).out
         /\ EmitSpeed(d, t, s).pending_speed = None
<1>1. SetSpeed(t, s) \in Command
  BY DEF SetSpeed, Command
<1>2. PushCmd(d, SetSpeed(t, s)) \in Domain
  BY <1>1, PushCmdType
<1> QED BY <1>2 DEF EmitSpeed, Domain

LEMMA EmitSpeedCalm ==
  ASSUME NEW d \in Domain, NEW t \in Throttle, NEW s \in Speed, NEW H, Calm(H, d),
         t \notin H \/ s = 0
  PROVE  Calm(H, EmitSpeed(d, t, s))
<1>1. SetSpeed(t, s) \in Command /\ \A u \in H : ~Moves(u, SetSpeed(t, s))
  BY DomainAssumption DEF SetSpeed, Command, Moves, Speed
<1>2. Calm(H, PushCmd(d, SetSpeed(t, s)))
  BY <1>1, PushCmdCalm
<1> QED BY <1>2, EmitSpeedFields DEF Calm

LEMMA FlushPendingSpeedCalm ==
  ASSUME NEW d \in Domain, NEW H, Calm(H, d)
  PROVE  Calm(H, FlushPendingSpeed(d))
<1>1. CASE d.pending_speed # None /\ Due(d)
  <2>1. d.pending_speed.throttle \in Throttle /\ d.pending_speed.speed \in Speed
    BY <1>1 DEF Domain
  <2>2. d.pending_speed.throttle \notin H
    BY <1>1 DEF Calm
  <2> QED BY <1>1, <2>1, <2>2, EmitSpeedCalm DEF FlushPendingSpeed
<1>2. CASE ~(d.pending_speed # None /\ Due(d))
  BY <1>2 DEF FlushPendingSpeed
<1> QED BY <1>1, <1>2

\* Setting speed 0 stops the current throttle, and leaves nothing coalesced.
LEMMA SpeedSetStops ==
  ASSUME NEW d \in Domain, d.out = <<>>, HasLoco(d, d.current), NEW H
  PROVE  /\ Calm(H, SpeedSet(d, 0))
         /\ SpeedSet(d, 0).pending_speed = None
         /\ HasStop(d.current, SpeedSet(d, 0).out)
<1> DEFINE d1 == [d EXCEPT !.throttles[d.current].speed = 0]
           c == SetSpeed(d.current, 0)
<1>1. 0 \in Speed /\ d.current \in Throttle
  BY DomainAssumption, CurrentSlot DEF Speed
<1>2. d1 \in Domain /\ d1.out = <<>>
  <2>1. d1 \in Domain
    BY <1>1, SpeedUpdate
  <2>2. d1.out = <<>>
    BY DEF Domain
  <2> QED BY <2>1, <2>2
<1> HIDE DEF d1
<1>3. SpeedSet(d, 0) = EmitSpeed(d1, d.current, 0)
  <2>1. AtMost(0, MaxSpeed) = 0
    BY DomainAssumption DEF AtMost
  <2> QED BY <2>1 DEF SpeedSet, d1
<1>4. c \in Command /\ Stops(d.current, c) /\ \A t \in H : ~Moves(t, c)
  BY <1>1 DEF SetSpeed, Command, Stops, Moves
<1>5. SpeedSet(d, 0).pending_speed = None /\ SpeedSet(d, 0).out = <<c>>
  BY <1>1, <1>2, <1>3, <1>4, EmitSpeedFields, PushCmdFirst
<1>6. Quiet(H, <<c>>) /\ HasStop(d.current, <<c>>)
  BY <1>4 DEF Quiet, HasStop
<1> QED BY <1>5, <1>6 DEF Calm

\* A speed for the current throttle is no matter of the throttles in H.
LEMMA SpeedSetCalm ==
  ASSUME NEW d \in Domain, NEW s \in Nat, NEW H, Calm(H, d), d.current \notin H
  PROVE  Calm(H, SpeedSet(d, s))
<1> DEFINE v == AtMost(s, MaxSpeed)
           d1 == [d EXCEPT !.throttles[d.current].speed = v]
<1>1. v \in Speed /\ d.current \in Throttle
  BY DomainAssumption, CurrentSlot DEF AtMost, Speed
<1> HIDE DEF v
<1>2. d1 \in Domain /\ d1.out = d.out /\ d1.pending_speed = d.pending_speed
  <2>1. d1 \in Domain
    BY <1>1, SpeedUpdate
  <2>2. d1.out = d.out /\ d1.pending_speed = d.pending_speed
    BY DEF Domain
  <2> QED BY <2>1, <2>2
<1> HIDE DEF d1
<1>3. Calm(H, d1)
  BY <1>2, CalmSame
<1>4. Calm(H, EmitSpeed(d1, d.current, v))
  BY <1>1, <1>2, <1>3, EmitSpeedCalm
<1>5. Calm(H, [d1 EXCEPT !.pending_speed = [throttle |-> d.current, speed |-> v]])
  <2> DEFINE q == [throttle |-> d.current, speed |-> v]
  <2>1. q.throttle \notin H
    OBVIOUS
  <2> HIDE DEF q
  <2>2. [d1 EXCEPT !.pending_speed = q].out = d1.out
        /\ [d1 EXCEPT !.pending_speed = q].pending_speed = q
    BY <1>2 DEF Domain
  <2>3. Calm(H, [d1 EXCEPT !.pending_speed = q])
    BY <1>3, <2>1, <2>2 DEF Calm
  <2> QED BY <2>3 DEF q
<1> QED BY <1>4, <1>5 DEF SpeedSet, v, d1

LEMMA SpeedSetNothing ==
  ASSUME NEW d, NEW s, ~HasLoco(d, d.current)
  PROVE  SpeedSet(d, s) = d
BY DEF SpeedSet

\* The speed the current slot shows is the one that was asked for.
LEMMA SpeedSetShows ==
  ASSUME NEW d \in Domain, NEW s \in Nat, HasLoco(d, d.current)
  PROVE  SpeedSet(d, s).throttles[d.current].speed = AtMost(s, MaxSpeed)
<1> DEFINE v == AtMost(s, MaxSpeed)
           d1 == [d EXCEPT !.throttles[d.current].speed = v]
<1>1. v \in Speed /\ d.current \in Throttle
  BY DomainAssumption, CurrentSlot DEF AtMost, Speed
<1> HIDE DEF v
<1>2. d1 \in Domain /\ d1.throttles[d.current].speed = v
  <2>1. d1 \in Domain
    BY <1>1, SpeedUpdate
  <2>2. d1.throttles[d.current].speed = v
    BY <1>1 DEF Domain, Slot
  <2> QED BY <2>1, <2>2
<1> HIDE DEF d1
<1>3. EmitSpeed(d1, d.current, v).throttles = d1.throttles
  <2>1. PushCmd(d1, SetSpeed(d.current, v)).throttles = d1.throttles
    BY <1>2 DEF PushCmd, PushAll, Domain
  <2>2. PushCmd(d1, SetSpeed(d.current, v)) \in Domain
    BY <1>1, <1>2, PushCmdType DEF SetSpeed, Command
  <2> QED BY <2>1, <2>2 DEF EmitSpeed, Domain
<1>4. [d1 EXCEPT !.pending_speed = [throttle |-> d.current, speed |-> v]].throttles = d1.throttles
  BY <1>2 DEF Domain
<1> QED BY <1>2, <1>3, <1>4 DEF SpeedSet, v, d1

LEMMA EStopCurrentCalm ==
  ASSUME NEW d \in Domain, d.out = <<>>, NEW H, HasLoco(d, d.current)
  PROVE  /\ Calm(H, EStopCurrent(d))
         /\ EStopCurrent(d).pending_speed = None
         /\ HasStop(d.current, EStopCurrent(d).out)
<1> DEFINE c == EStop(d.current)
           p == PushCmd(d, c)
<1>1. c \in Command /\ Stops(d.current, c) /\ \A t \in H : ~Moves(t, c)
  BY CurrentSlot DEF EStop, Command, Stops, Moves
<1> HIDE DEF c
<1>2. p \in Domain /\ p.out = <<c>>
  BY <1>1, PushCmdType, PushCmdFirst
<1> HIDE DEF p
<1>3. EStopCurrent(d) = [p EXCEPT !.pending_speed = None, !.throttles[d.current].speed = 0]
  BY DEF EStopCurrent, p, c
<1>4. EStopCurrent(d).out = p.out /\ EStopCurrent(d).pending_speed = None
  BY <1>2, <1>3 DEF Domain
<1>5. HasStop(d.current, <<c>>) /\ Quiet(H, <<c>>)
  BY <1>1 DEF HasStop, Quiet
<1> QED BY <1>2, <1>4, <1>5 DEF Calm

LEMMA EStopAllCalm ==
  ASSUME NEW d \in Domain, d.out = <<>>, NEW H,
         NEW order \in Orders, EStopOrder(d, order)
  PROVE  /\ Calm(H, EStopAll(d, order))
         /\ EStopAll(d, order).pending_speed = None
         /\ \A t \in Stopped(d) : HasStop(t, EStopAll(d, order).out)
<1> DEFINE cs == [i \in 1..Len(order) |-> EStop(order[i])]
           p == PushAll(d, cs)
<1>1. order \in Seq(Throttle) /\ Len(order) \in Nat /\ Len(order) <= CmdBuf
  <2>1. PICK n \in 0..MaxThrottles : order \in [1..n -> Throttle]
    BY DEF Orders
  <2>2. Len(order) = n
    BY <2>1
  <2> QED BY <2>1, <2>2, OrdersType, BufferAssumption, DomainAssumption
<1>2. \A i \in 1..Len(order) : EStop(order[i]) \in Command
  BY <1>1 DEF EStop, Command
<1>3. /\ cs \in Seq(Command) /\ Len(cs) = Len(order) /\ DOMAIN cs = 1..Len(order)
      /\ \A i \in 1..Len(order) : cs[i] = EStop(order[i])
  <2>1. cs \in [1..Len(order) -> Command]
    BY <1>2
  <2>2. cs \in Seq(Command)
    BY <1>1, <2>1, CommandSeq
  <2> QED BY <1>1, <2>2
<1> HIDE DEF cs
<1>4. Quiet(H, cs)
  <2>1. \A i \in 1..Len(order) : cs[i].op = "EStop"
    BY <1>3 DEF EStop
  <2> QED BY <1>3, <2>1 DEF Quiet, Moves
<1>5. p \in Domain
  BY <1>3, PushAllType
<1>6. p.out = cs
  <2>1. d.out \o cs = cs /\ Len(d.out) = 0
    BY <1>3
  <2>2. AtMost(0 + Len(cs), CmdBuf) = Len(cs)
    BY <1>1, <1>3, DomainAssumption DEF AtMost
  <2>3. SubSeq(cs, 1, Len(cs)) = cs
    BY <1>3, SubSeqFull
  <2>4. p.out = SubSeq(d.out \o cs, 1, AtMost(Len(d.out) + Len(cs), CmdBuf))
    BY DEF PushAll, Domain
  <2> QED BY <2>1, <2>2, <2>3, <2>4
<1> HIDE DEF p
<1>7. EStopAll(d, order).out = p.out /\ EStopAll(d, order).pending_speed = None
  BY <1>5 DEF EStopAll, Domain, p, cs
<1>8. ASSUME NEW t \in Stopped(d) PROVE HasStop(t, cs)
  <2>1. PICK i \in 1..Len(order) : order[i] = t
    BY <1>1 DEF Stopped, EStopOrder, Domain, InUse, Throttle
  <2>2. i \in DOMAIN cs /\ cs[i] = EStop(t)
    BY <1>3, <2>1
  <2>3. Stops(t, EStop(t))
    BY DEF Stops, EStop
  <2> QED BY <2>2, <2>3 DEF HasStop
<1> QED BY <1>4, <1>6, <1>7, <1>8 DEF Calm

LEMMA ChangeDirectionCalm ==
  ASSUME NEW d \in Domain, NEW t \in Throttle, NEW dir \in Direction, NEW H, Calm(H, d)
  PROVE  Calm(H, ChangeDirection(d, t, dir))
<1> DEFINE slot == d.throttles[t]
           cs == DirectionCommands(t, slot, dir)
           p == PushAll(d, cs)
<1>1. slot \in Slot
  BY DEF Domain
<1>2. cs \in Seq(Command)
  BY <1>1, DirectionCommandsType
<1>3. \A i \in DOMAIN cs : cs[i].op = "SetDirection"
  <2>1. CASE Len(slot.consist) = 1
    <3>1. cs = <<SetDirection(t, None, dir)>>
      BY <2>1 DEF DirectionCommands
    <3> QED BY <3>1 DEF SetDirection
  <2>2. CASE Len(slot.consist) # 1
    BY <2>2 DEF DirectionCommands, SetDirection
  <2> QED BY <2>1, <2>2
<1> HIDE DEF cs
<1>4. Quiet(H, cs)
  BY <1>3 DEF Quiet, Moves
<1>5. p \in Domain /\ Calm(H, p)
  BY <1>2, <1>4, PushAllType, PushAllCalm
<1> HIDE DEF p
<1>6. CASE HasLoco(d, t)
  <2>1. ChangeDirection(d, t, dir) = [p EXCEPT !.throttles[t] = TurnSlot(p.throttles[t], dir)]
    BY <1>6 DEF ChangeDirection, p, cs
  <2>2. ChangeDirection(d, t, dir).out = p.out /\ ChangeDirection(d, t, dir).pending_speed = p.pending_speed
    BY <1>5, <2>1 DEF Domain
  <2> QED BY <1>5, <2>2, CalmSame
<1>7. CASE ~HasLoco(d, t)
  BY <1>7 DEF ChangeDirection
<1> QED BY <1>6, <1>7

LEMMA ToggleFunctionCalm ==
  ASSUME NEW d \in Domain, NEW f \in Functions, NEW H, Calm(H, d)
  PROVE  Calm(H, ToggleFunction(d, f))
<1> DEFINE on == f \notin d.throttles[d.current].functions
           c == SetFunction(d.current, f, on)
           p == PushCmd(d, c)
<1>1. c \in Command /\ \A t \in H : ~Moves(t, c)
  BY CurrentSlot DEF SetFunction, Command, Moves
<1>2. p \in Domain /\ Calm(H, p)
  BY <1>1, PushCmdType, PushCmdCalm
<1> HIDE DEF p
<1>3. CASE HasLoco(d, d.current)
  <2>1. ToggleFunction(d, f).out = p.out /\ ToggleFunction(d, f).pending_speed = p.pending_speed
    BY <1>2, <1>3 DEF ToggleFunction, Domain, p
  <2> QED BY <1>2, <2>1, CalmSame
<1>4. CASE ~HasLoco(d, d.current)
  BY <1>4 DEF ToggleFunction
<1> QED BY <1>3, <1>4

LEMMA PowerToggleCalm ==
  ASSUME NEW d \in Domain, NEW H, Calm(H, d)
  PROVE  Calm(H, PowerToggle(d))
<1> DEFINE on == d.track_power # "On"
           p == PushCmd(d, TrackPower(on))
<1>1. TrackPower(on) \in Command /\ \A t \in H : ~Moves(t, TrackPower(on))
  BY DEF TrackPower, Command, Moves
<1>2. p \in Domain /\ Calm(H, p)
  BY <1>1, PushCmdType, PushCmdCalm
<1> HIDE DEF p
<1>3. PowerToggle(d).out = p.out /\ PowerToggle(d).pending_speed = p.pending_speed
  BY <1>2 DEF PowerToggle, SetTrackPower, Domain, p
<1> QED BY <1>2, <1>3, CalmSame

LEMMA ReleaseCalm ==
  ASSUME NEW d \in Domain, NEW t \in Throttle, NEW H, Calm(H, d)
  PROVE  Calm(H, Release(d, t))
<1> DEFINE p == PushCmd(d, ReleaseThrottle(t))
<1>1. ReleaseThrottle(t) \in Command /\ \A u \in H : ~Moves(u, ReleaseThrottle(t))
  BY DEF ReleaseThrottle, Command, Moves
<1>2. p \in Domain /\ Calm(H, p)
  BY <1>1, PushCmdType, PushCmdCalm
<1> HIDE DEF p
<1>3. CASE HasLoco(d, t)
  <2>1. Release(d, t).out = p.out /\ Release(d, t).pending_speed = p.pending_speed
    BY <1>2, <1>3 DEF Release, ClearConsist, Domain, p
  <2> QED BY <1>2, <2>1, CalmSame
<1>4. CASE ~HasLoco(d, t)
  BY <1>4 DEF Release
<1> QED BY <1>3, <1>4

LEMMA AcquireCalm ==
  ASSUME NEW d \in Domain, NEW l \in Locos, NEW H, Calm(H, d)
  PROVE  Calm(H, Acquire(d, l))
<1> DEFINE d1 == ReleaseAll(d)
<1>1. d1 \in Domain /\ Calm(H, d1)
  BY CurrentSlot, ReleaseType, ReleaseCalm DEF ReleaseAll
<1> HIDE DEF d1
<1> DEFINE slot == JoinConsist(d1.throttles[d1.current], l)
           d2 == [d1 EXCEPT !.throttles[d1.current] = slot]
<1>2. d1.current \in Throttle /\ slot \in Slot
  BY <1>1, CurrentSlot, JoinConsistType
<1> HIDE DEF slot
<1>3. d2 \in Domain
  BY <1>1, <1>2, SlotUpdate
<1>4. d2.out = d1.out /\ d2.pending_speed = d1.pending_speed
  BY <1>1 DEF Domain
<1> HIDE DEF d2
<1>5. AddLoco(d1.current, l) \in Command /\ \A t \in H : ~Moves(t, AddLoco(d1.current, l))
  BY <1>2 DEF AddLoco, Command, Moves
<1>6. Calm(H, PushCmd(d2, AddLoco(d1.current, l)))
  BY <1>1, <1>3, <1>4, <1>5, CalmSame, PushCmdCalm
<1>7. Calm(H, AcquireLoco(d1, l))
  BY <1>1, <1>6 DEF AcquireLoco, slot, d2
<1> QED BY <1>7 DEF Acquire, d1

LEMMA SetMaxThrottlesCalm ==
  ASSUME NEW d \in Domain, NEW n \in 1..MaxThrottles, NEW order \in Seq(Throttle), NEW H, Calm(H, d)
  PROVE  Calm(H, SetMaxThrottles(d, n, order))
<1> DEFINE cs == [i \in 1..Len(order) |-> ReleaseThrottle(order[i])]
           p == PushAll(d, cs)
<1>1. cs \in Seq(Command)
  <2>1. \A i \in 1..Len(order) : ReleaseThrottle(order[i]) \in Command
    BY DEF ReleaseThrottle, Command
  <2> QED BY <2>1
<1>2. Quiet(H, cs)
  BY DEF Quiet, Moves, ReleaseThrottle
<1>3. p \in Domain /\ Calm(H, p)
  BY <1>1, <1>2, PushAllType, PushAllCalm
<1> HIDE DEF p
<1>4. SetMaxThrottles(d, n, order).out = p.out
      /\ SetMaxThrottles(d, n, order).pending_speed = p.pending_speed
  BY <1>3 DEF SetMaxThrottles, Domain, p
<1> QED BY <1>3, <1>4, CalmSame

LEMMA ApplyEventCalm ==
  ASSUME NEW d \in Domain, NEW ev \in Event, NEW H, Calm(H, d)
  PROVE  Calm(H, ApplyEvent(d, ev))
<1>1. ApplyEvent(d, ev).out = d.out /\ ApplyEvent(d, ev).pending_speed = d.pending_speed
  <2>1. CASE ev.op = "AddressAdded"
    BY <2>1 DEF ApplyEvent, OnAddressAdded, Domain
  <2>2. CASE ev.op = "AddressRemoved"
    BY <2>2 DEF ApplyEvent, OnAddressRemoved, ClearConsist, Domain
  <2>3. CASE ev.op = "Speed"
    BY <2>3 DEF ApplyEvent, OnSpeedEcho, Domain
  <2> QED BY <2>1, <2>2, <2>3 DEF Event
<1> QED BY <1>1, CalmSame

LEMMA WithoutLater ==
  ASSUME NEW q \in Seq(Command), NEW r \in Seq(Command), NEW i \in 1..Len(r)
  PROVE  q \o WithoutIndex(r, i) = WithoutIndex(q \o r, Len(q) + i)
<1> DEFINE w == WithoutIndex(r, i)
           c == q \o r
           v == WithoutIndex(c, Len(q) + i)
           x == q \o w
<1>1. /\ c \in Seq(Command) /\ Len(c) = Len(q) + Len(r)
      /\ \A j \in 1..(Len(q) + Len(r)) :
           c[j] = IF j <= Len(q) THEN q[j] ELSE r[j - Len(q)]
  BY ConcatProperties
<1> HIDE DEF c
<1>2. /\ w \in Seq(Command) /\ Len(w) = Len(r) - 1
      /\ \A j \in 1..(Len(r) - 1) : w[j] = IF j < i THEN r[j] ELSE r[j + 1]
  BY WithoutIndexType
<1>3. Len(q) + i \in 1..Len(c)
  BY <1>1
<1>4. /\ v \in Seq(Command) /\ Len(v) = Len(c) - 1
      /\ \A j \in 1..(Len(c) - 1) :
           v[j] = IF j < Len(q) + i THEN c[j] ELSE c[j + 1]
  BY <1>1, <1>3, WithoutIndexType
<1> HIDE DEF w, v
<1>5. /\ x \in Seq(Command) /\ Len(x) = Len(q) + Len(w)
      /\ \A j \in 1..(Len(q) + Len(w)) :
           x[j] = IF j <= Len(q) THEN q[j] ELSE w[j - Len(q)]
  BY <1>2, ConcatProperties
<1> HIDE DEF x
<1>6. Len(x) = Len(v)
  BY <1>1, <1>2, <1>4, <1>5
<1>7. ASSUME NEW j \in 1..Len(v) PROVE x[j] = v[j]
  <2>1. j \in 1..(Len(q) + Len(w)) /\ j \in 1..(Len(c) - 1)
    BY <1>4, <1>5, <1>6
  <2>2. CASE j <= Len(q)
    <3>1. x[j] = q[j] /\ v[j] = c[j] /\ j \in 1..(Len(q) + Len(r))
      BY <1>1, <1>4, <1>5, <2>1, <2>2
    <3> QED BY <1>1, <2>2, <3>1
  <2>3. CASE j > Len(q)
    <3> DEFINE k == j - Len(q)
    <3>1. k \in 1..(Len(r) - 1) /\ x[j] = w[k]
      BY <1>2, <1>5, <2>1, <2>3
    <3>2. CASE k < i
      <4>1. w[k] = r[k]
        BY <1>2, <3>1, <3>2
      <4>2. j < Len(q) + i
        BY <2>1, <3>2
      <4>3. v[j] = c[j]
        BY <1>4, <2>1, <4>2
      <4>4. c[j] = r[k]
        BY <1>1, <2>1, <2>3
      <4> QED BY <3>1, <4>1, <4>3, <4>4
    <3>3. CASE ~(k < i)
      <4>1. w[k] = r[k + 1]
        BY <1>2, <3>1, <3>3
      <4>2. ~(j < Len(q) + i)
        BY <2>1, <3>3
      <4>3. v[j] = c[j + 1]
        BY <1>4, <2>1, <4>2
      <4>4. j + 1 \in 1..(Len(q) + Len(r)) /\ ~(j + 1 <= Len(q)) /\ (j + 1) - Len(q) = k + 1
        BY <1>1, <2>1, <2>3
      <4>5. c[j + 1] = r[k + 1]
        BY <1>1, <4>4
      <4> QED BY <3>1, <4>1, <4>3, <4>5
    <3> QED BY <3>2, <3>3
  <2> QED BY <2>2, <2>3
<1>8. x = v
  <2>1. x \in Seq(Command) /\ v \in Seq(Command) /\ Len(x) = Len(v)
    BY <1>4, <1>5, <1>6
  <2>2. \A j \in 1..Len(x) : x[j] = v[j]
    BY <1>6, <1>7
  <2> QED BY <2>1, <2>2, SeqEqual
<1> QED BY <1>8 DEF x, w, v, c

-----------------------------------------------------------------------------
(* Sequences of commands: each of M is followed by one of Z (Followed), one *)
(* of Z is there (Has), none of M is (Avoids).                             *)

Followed(M, Z, q) ==
  \A i \in DOMAIN q : q[i] \in M => \E j \in DOMAIN q : j > i /\ q[j] \in Z

Has(Z, q) == \E i \in DOMAIN q : q[i] \in Z

Avoids(M, q) == \A i \in DOMAIN q : q[i] \notin M

LEMMA Joined ==
  ASSUME NEW V, NEW q \in Seq(V), NEW r \in Seq(V)
  PROVE  /\ q \o r \in Seq(V)
         /\ DOMAIN q = 1..Len(q) /\ DOMAIN r = 1..Len(r)
         /\ DOMAIN (q \o r) = 1..(Len(q) + Len(r))
         /\ Len(q) \in Nat /\ Len(r) \in Nat
         /\ \A i \in 1..Len(q) : (q \o r)[i] = q[i]
         /\ \A i \in 1..Len(r) : (q \o r)[Len(q) + i] = r[i]
<1>1. /\ q \o r \in Seq(V) /\ Len(q \o r) = Len(q) + Len(r)
      /\ \A i \in 1..(Len(q) + Len(r)) :
           (q \o r)[i] = IF i <= Len(q) THEN q[i] ELSE r[i - Len(q)]
  BY ConcatProperties
<1>2. Len(q) \in Nat /\ Len(r) \in Nat /\ DOMAIN q = 1..Len(q) /\ DOMAIN r = 1..Len(r)
  OBVIOUS
<1>3. DOMAIN (q \o r) = 1..(Len(q) + Len(r))
  BY <1>1
<1>4. ASSUME NEW i \in 1..Len(q) PROVE (q \o r)[i] = q[i]
  BY <1>1, <1>2
<1>5. ASSUME NEW i \in 1..Len(r) PROVE (q \o r)[Len(q) + i] = r[i]
  <2>1. Len(q) + i \in 1..(Len(q) + Len(r)) /\ ~(Len(q) + i <= Len(q))
        /\ (Len(q) + i) - Len(q) = i
    BY <1>2
  <2> QED BY <1>1, <2>1
<1> QED BY <1>1, <1>2, <1>3, <1>4, <1>5

\* Where an element of a concatenation comes from.
LEMMA JoinedFrom ==
  ASSUME NEW V, NEW q \in Seq(V), NEW r \in Seq(V), NEW i \in DOMAIN (q \o r)
  PROVE  \/ i \in DOMAIN q /\ (q \o r)[i] = q[i]
         \/ \E k \in DOMAIN r : i = Len(q) + k /\ (q \o r)[i] = r[k]
<1>1. i \in 1..(Len(q) + Len(r)) /\ Len(q) \in Nat /\ Len(r) \in Nat
  BY Joined
<1>2. CASE i <= Len(q)
  <2>1. i \in 1..Len(q)
    BY <1>1, <1>2
  <2> QED BY <2>1, Joined
<1>3. CASE i > Len(q)
  <2>1. i - Len(q) \in 1..Len(r) /\ i = Len(q) + (i - Len(q))
    BY <1>1, <1>3
  <2>2. (q \o r)[Len(q) + (i - Len(q))] = r[i - Len(q)]
    BY <2>1, Joined
  <2>3. i - Len(q) \in DOMAIN r
    BY <2>1, Joined
  <2> QED BY <2>1, <2>2, <2>3
<1> QED BY <1>1, <1>2, <1>3

LEMMA HasJoined ==
  ASSUME NEW q \in Seq(Command), NEW r \in Seq(Command), NEW Z
  PROVE  Has(Z, q \o r) <=> Has(Z, q) \/ Has(Z, r)
<1>1. ASSUME Has(Z, q \o r) PROVE Has(Z, q) \/ Has(Z, r)
  BY <1>1, JoinedFrom DEF Has
<1>2. ASSUME Has(Z, q) PROVE Has(Z, q \o r)
  <2>1. PICK i \in DOMAIN q : q[i] \in Z
    BY <1>2 DEF Has
  <2>2. i \in DOMAIN (q \o r) /\ (q \o r)[i] = q[i]
    BY Joined
  <2> QED BY <2>1, <2>2 DEF Has
<1>3. ASSUME Has(Z, r) PROVE Has(Z, q \o r)
  <2>1. PICK i \in DOMAIN r : r[i] \in Z
    BY <1>3 DEF Has
  <2>2. Len(q) + i \in DOMAIN (q \o r) /\ (q \o r)[Len(q) + i] = r[i]
    BY Joined
  <2> QED BY <2>1, <2>2 DEF Has
<1> QED BY <1>1, <1>2, <1>3

LEMMA AvoidsJoined ==
  ASSUME NEW q \in Seq(Command), NEW r \in Seq(Command), NEW M, Avoids(M, q), Avoids(M, r)
  PROVE  Avoids(M, q \o r)
BY JoinedFrom DEF Avoids

\* Commands that spoil nothing may follow, ...
LEMMA FollowedAvoids ==
  ASSUME NEW q \in Seq(Command), NEW r \in Seq(Command), NEW M, NEW Z,
         Followed(M, Z, q), Avoids(M, r)
  PROVE  Followed(M, Z, q \o r)
<1> SUFFICES ASSUME NEW i \in DOMAIN (q \o r), (q \o r)[i] \in M
             PROVE  \E j \in DOMAIN (q \o r) : j > i /\ (q \o r)[j] \in Z
  BY DEF Followed
<1>1. i \in DOMAIN q /\ q[i] \in M
  BY JoinedFrom DEF Avoids
<1>2. PICK j \in DOMAIN q : j > i /\ q[j] \in Z
  BY <1>1 DEF Followed
<1>3. j \in DOMAIN (q \o r) /\ (q \o r)[j] = q[j]
  BY Joined
<1> QED BY <1>2, <1>3

\* ... and one of them that settles makes good whatever came before.
LEMMA FollowedHas ==
  ASSUME NEW q \in Seq(Command), NEW r \in Seq(Command), NEW M, NEW Z,
         Avoids(M, r), Has(Z, r)
  PROVE  Followed(M, Z, q \o r)
<1> SUFFICES ASSUME NEW i \in DOMAIN (q \o r), (q \o r)[i] \in M
             PROVE  \E j \in DOMAIN (q \o r) : j > i /\ (q \o r)[j] \in Z
  BY DEF Followed
<1>1. i \in DOMAIN q
  BY JoinedFrom DEF Avoids
<1>2. PICK k \in DOMAIN r : r[k] \in Z
  BY DEF Has
<1>3. Len(q) + k \in DOMAIN (q \o r) /\ (q \o r)[Len(q) + k] = r[k]
  BY Joined
<1>4. Len(q) + k > i
  BY <1>1, Joined
<1> QED BY <1>2, <1>3, <1>4

LEMMA TailOf ==
  ASSUME NEW V, NEW q \in Seq(V), q # <<>>
  PROVE  /\ Tail(q) \in Seq(V)
         /\ \A i \in DOMAIN Tail(q) : i + 1 \in DOMAIN q /\ Tail(q)[i] = q[i + 1]
         /\ \A i \in DOMAIN q : i > 1 => i - 1 \in DOMAIN Tail(q) /\ Tail(q)[i - 1] = q[i]
         /\ DOMAIN q \subseteq Nat \ {0} /\ DOMAIN Tail(q) \subseteq Nat \ {0}
         /\ 1 \in DOMAIN q /\ Head(q) = q[1]
<1>1. /\ Tail(q) \in Seq(V) /\ Len(Tail(q)) = Len(q) - 1
      /\ \A i \in 1..(Len(q) - 1) : Tail(q)[i] = q[i + 1]
  OBVIOUS
<1>2. DOMAIN q = 1..Len(q) /\ DOMAIN Tail(q) = 1..(Len(q) - 1) /\ Len(q) \in Nat \ {0}
  BY <1>1
<1>3. ASSUME NEW i \in DOMAIN q, i > 1
      PROVE  i - 1 \in DOMAIN Tail(q) /\ Tail(q)[i - 1] = q[i]
  <2>1. i - 1 \in 1..(Len(q) - 1) /\ (i - 1) + 1 = i
    BY <1>2, <1>3
  <2> QED BY <1>1, <1>2, <2>1
<1>4. ASSUME NEW i \in DOMAIN Tail(q)
      PROVE  i + 1 \in DOMAIN q /\ Tail(q)[i] = q[i + 1]
  BY <1>1, <1>2
<1> QED BY <1>1, <1>2, <1>3, <1>4

LEMMA HasTail ==
  ASSUME NEW q \in Seq(Command), q # <<>>, NEW Z
  PROVE  /\ Has(Z, Tail(q)) => Has(Z, q)
         /\ Has(Z, q) => Head(q) \in Z \/ Has(Z, Tail(q))
<1>1. ASSUME Has(Z, Tail(q)) PROVE Has(Z, q)
  BY <1>1, TailOf DEF Has
<1>2. ASSUME Has(Z, q), Head(q) \notin Z PROVE Has(Z, Tail(q))
  <2>1. PICK i \in DOMAIN q : q[i] \in Z
    BY <1>2 DEF Has
  <2>2. i > 1
    BY <1>2, <2>1, TailOf
  <2> QED BY <2>1, <2>2, TailOf DEF Has
<1> QED BY <1>1, <1>2

LEMMA FollowedTail ==
  ASSUME NEW q \in Seq(Command), q # <<>>, NEW M, NEW Z, Followed(M, Z, q)
  PROVE  /\ Followed(M, Z, Tail(q))
         /\ Head(q) \in M => Has(Z, Tail(q))
<1>1. ASSUME NEW i \in DOMAIN Tail(q), Tail(q)[i] \in M
      PROVE  \E j \in DOMAIN Tail(q) : j > i /\ Tail(q)[j] \in Z
  <2>1. i \in Nat /\ i + 1 \in DOMAIN q /\ q[i + 1] \in M
    BY <1>1, TailOf
  <2>2. PICK j \in DOMAIN q : j > i + 1 /\ q[j] \in Z
    BY <2>1 DEF Followed
  <2>3. j \in Nat /\ j > 1 /\ j - 1 > i
    BY <2>1, <2>2, TailOf
  <2> QED BY <2>2, <2>3, TailOf
<1>2. ASSUME Head(q) \in M PROVE Has(Z, Tail(q))
  <2>1. 1 \in DOMAIN q /\ q[1] \in M
    BY <1>2, TailOf
  <2>2. PICK j \in DOMAIN q : j > 1 /\ q[j] \in Z
    BY <2>1 DEF Followed
  <2> QED BY <2>2, TailOf DEF Has
<1> QED BY <1>1, <1>2 DEF Followed

LEMMA WithoutOf ==
  ASSUME NEW V, NEW q \in Seq(V), NEW n \in 1..Len(q)
  PROVE  /\ WithoutIndex(q, n) \in Seq(V)
         /\ \A i \in DOMAIN WithoutIndex(q, n) :
              /\ i \in Nat
              /\ i < n => i \in DOMAIN q /\ WithoutIndex(q, n)[i] = q[i]
              /\ i >= n => i + 1 \in DOMAIN q /\ WithoutIndex(q, n)[i] = q[i + 1]
         /\ \A i \in DOMAIN q :
              /\ i \in Nat
              /\ i < n => i \in DOMAIN WithoutIndex(q, n) /\ WithoutIndex(q, n)[i] = q[i]
              /\ i > n => /\ i - 1 \in DOMAIN WithoutIndex(q, n)
                          /\ WithoutIndex(q, n)[i - 1] = q[i]
<1> DEFINE w == WithoutIndex(q, n)
<1>1. /\ w \in Seq(V) /\ Len(w) = Len(q) - 1
      /\ \A j \in 1..(Len(q) - 1) : w[j] = IF j < n THEN q[j] ELSE q[j + 1]
  BY WithoutIndexType
<1> HIDE DEF w
<1>2. DOMAIN q = 1..Len(q) /\ DOMAIN w = 1..(Len(q) - 1) /\ Len(q) \in Nat
  BY <1>1
<1>3. ASSUME NEW i \in DOMAIN w
      PROVE  /\ i \in Nat
             /\ i < n => i \in DOMAIN q /\ w[i] = q[i]
             /\ i >= n => i + 1 \in DOMAIN q /\ w[i] = q[i + 1]
  BY <1>1, <1>2
<1>4. ASSUME NEW i \in DOMAIN q
      PROVE  /\ i \in Nat
             /\ i < n => i \in DOMAIN w /\ w[i] = q[i]
             /\ i > n => i - 1 \in DOMAIN w /\ w[i - 1] = q[i]
  <2>1. i \in Nat /\ (i < n => i \in 1..(Len(q) - 1))
    BY <1>2
  <2>2. i > n => i - 1 \in 1..(Len(q) - 1) /\ ~(i - 1 < n) /\ (i - 1) + 1 = i
    BY <1>2
  <2> QED BY <1>1, <1>2, <2>1, <2>2
<1> QED BY <1>1, <1>3, <1>4 DEF w

LEMMA HasWithout ==
  ASSUME NEW q \in Seq(Command), NEW n \in 1..Len(q), NEW Z, Has(Z, q), q[n] \notin Z
  PROVE  Has(Z, WithoutIndex(q, n))
<1>1. PICK i \in DOMAIN q : q[i] \in Z
  BY DEF Has
<1>2. i \in Nat /\ i # n
  BY <1>1, WithoutOf
<1>3. CASE i < n
  BY <1>1, <1>3, WithoutOf DEF Has
<1>4. CASE i > n
  BY <1>1, <1>4, WithoutOf DEF Has
<1> QED BY <1>2, <1>3, <1>4

LEMMA FollowedWithout ==
  ASSUME NEW q \in Seq(Command), NEW n \in 1..Len(q), NEW M, NEW Z,
         Followed(M, Z, q), q[n] \notin Z
  PROVE  Followed(M, Z, WithoutIndex(q, n))
<1> DEFINE w == WithoutIndex(q, n)
<1> SUFFICES ASSUME NEW i \in DOMAIN w, w[i] \in M
             PROVE  \E j \in DOMAIN w : j > i /\ w[j] \in Z
  BY DEF Followed
<1> DEFINE o == IF i < n THEN i ELSE i + 1
<1>1. o \in DOMAIN q /\ q[o] = w[i] /\ i \in Nat /\ o \in Nat
  BY WithoutOf
<1>2. PICK k \in DOMAIN q : k > o /\ q[k] \in Z
  BY <1>1 DEF Followed
<1>3. k # n /\ k \in Nat
  BY <1>2, WithoutOf
<1> DEFINE j == IF k < n THEN k ELSE k - 1
<1>4. j \in DOMAIN w /\ w[j] = q[k] /\ j > i
  <2>1. CASE k < n
    BY <1>1, <1>2, <2>1, WithoutOf
  <2>2. CASE k > n
    <3>1. k - 1 \in DOMAIN w /\ w[k - 1] = q[k]
      BY <2>2, WithoutOf
    <3>2. k - 1 > i
      BY <1>1, <1>2, <1>3, <2>2
    <3> QED BY <2>2, <3>1, <3>2
  <2> QED BY <1>3, <2>1, <2>2
<1> QED BY <1>2, <1>4
-----------------------------------------------------------------------------
(* Operations of the driving state: what they push fits into the buffer,   *)
(* and leaves room for a coalesced speed.                                  *)

LEMMA AvoidsLess ==
  ASSUME NEW q, NEW M, NEW N, M \subseteq N, Avoids(N, q)
  PROVE  Avoids(M, q)
BY DEF Avoids

Value(c) == IF c.op = "EStop" THEN 0 ELSE c.speed

\* Commands that leave the locos of throttle t at speed v.
Settles(t, v) == {c \in Command : IsSpeed(c) /\ c.throttle = t /\ Value(c) = v}

\* A loco added to the throttle brings a speed of its own.
Adds(t) == {c \in Command : c.op = "AddLoco" /\ c.throttle = t}

\* Commands that bear on the speed of the locos of throttle t.
Speaks(t) ==
  {c \in Command : IsSpeed(c) \/ (c.op = "AddLoco" /\ c.throttle = t)}

\* e follows d without a word about the speed of the throttles in T.
Silent(T, d, e) ==
  /\ Len(e.out) < CmdBuf
  /\ e.pending_speed = d.pending_speed
  /\ \A t \in T : Avoids(Speaks(t), e.out)

Consist(d, t) == d.throttles[t].consist

SameTrains(d, e) == \A t \in Throttle : Consist(e, t) = Consist(d, t)

\* No consist holds more than its capacity, or a loco twice.
Proper(q) == Len(q) <= MaxLocos /\ \A i, j \in DOMAIN q : q[i] = q[j] => i = j

Trains(d) == \A t \in Throttle : Proper(Consist(d, t))

LEMMA PushAllFits ==
  ASSUME NEW d \in Domain, NEW cs \in Seq(Command), Len(d.out) + Len(cs) <= CmdBuf
  PROVE  PushAll(d, cs) = [d EXCEPT !.out = d.out \o cs]
<1> DEFINE q == d.out \o cs
<1>1. d.out \in Seq(Command)
  BY DEF Domain
<1>2. q \in Seq(Command) /\ Len(q) = Len(d.out) + Len(cs) /\ Len(q) \in Nat
  BY <1>1, ConcatProperties
<1>3. AtMost(Len(d.out) + Len(cs), CmdBuf) = Len(q)
  BY <1>2 DEF AtMost
<1> HIDE DEF q
<1>4. SubSeq(q, 1, Len(q)) = q
  BY <1>2, SubSeqFull
<1> QED BY <1>3, <1>4 DEF PushAll, q

\* PushAllFits, field by field.
LEMMA PushAllFields ==
  ASSUME NEW d \in Domain, NEW cs \in Seq(Command), Len(d.out) + Len(cs) <= CmdBuf
  PROVE  /\ PushAll(d, cs) \in Domain
         /\ PushAll(d, cs).out = d.out \o cs
         /\ PushAll(d, cs).pending_speed = d.pending_speed
         /\ PushAll(d, cs).throttles = d.throttles
         /\ PushAll(d, cs).current = d.current
         /\ PushAll(d, cs).max_throttles = d.max_throttles
         /\ PushAll(d, cs).sentAge = d.sentAge
<1> DEFINE q == d.out \o cs
<1>1. q \in Seq(Command)
  BY ConcatProperties DEF Domain
<1>2. PushAll(d, cs) = [d EXCEPT !.out = q]
  BY PushAllFits
<1>3. PushAll(d, cs) \in Domain
  BY PushAllType
<1> HIDE DEF q
<1>4. /\ PushAll(d, cs).out = q
      /\ PushAll(d, cs).pending_speed = d.pending_speed
      /\ PushAll(d, cs).throttles = d.throttles
      /\ PushAll(d, cs).current = d.current
      /\ PushAll(d, cs).max_throttles = d.max_throttles
      /\ PushAll(d, cs).sentAge = d.sentAge
  BY <1>2 DEF Domain
<1> QED BY <1>3, <1>4 DEF q

LEMMA PushCmdFields ==
  ASSUME NEW d \in Domain, NEW c \in Command, Len(d.out) < CmdBuf
  PROVE  /\ PushCmd(d, c) \in Domain
         /\ PushCmd(d, c).out = d.out \o <<c>>
         /\ Len(PushCmd(d, c).out) = Len(d.out) + 1
         /\ PushCmd(d, c).pending_speed = d.pending_speed
         /\ PushCmd(d, c).throttles = d.throttles
         /\ PushCmd(d, c).current = d.current
         /\ PushCmd(d, c).max_throttles = d.max_throttles
         /\ PushCmd(d, c).sentAge = d.sentAge
<1>1. <<c>> \in Seq(Command) /\ Len(<<c>>) = 1
  BY OneCommand
<1>2. d.out \in Seq(Command) /\ Len(d.out) \in Nat
  BY DEF Domain
<1>3. Len(d.out) + Len(<<c>>) <= CmdBuf
  BY <1>1, <1>2, DomainAssumption
<1>4. Len(d.out \o <<c>>) = Len(d.out) + 1
  BY <1>1, <1>2, ConcatProperties
<1> QED BY <1>1, <1>3, <1>4, PushAllFields DEF PushCmd

\* A command, or a list of them, that says nothing of speed.
LEMMA AvoidsOne ==
  ASSUME NEW c \in Command, NEW M, c \notin M
  PROVE  Avoids(M, <<c>>)
BY DEF Avoids

LEMMA EmptyFits == Len(<<>>) = 0 /\ 0 < CmdBuf /\ 1 < CmdBuf /\ 2 < CmdBuf /\ 3 < CmdBuf
BY BufferAssumption, DomainAssumption

LEMMA AvoidsEmpty == \A M : Avoids(M, <<>>)
BY DEF Avoids

LEMMA SpeedSetOut ==
  ASSUME NEW d \in Domain, d.out = <<>>, NEW s \in Nat, HasLoco(d, d.current)
  PROVE  LET v == AtMost(s, MaxSpeed)
             e == SpeedSet(d, s)
         IN  /\ SameTrains(d, e)
             /\ \/ e.out = <<SetSpeed(d.current, v)>> /\ e.pending_speed = None
                \/ /\ v # 0 /\ e.out = <<>>
                   /\ e.pending_speed = [throttle |-> d.current, speed |-> v]
<1> DEFINE v == AtMost(s, MaxSpeed)
           t == d.current
           d1 == [d EXCEPT !.throttles[t].speed = v]
           c == SetSpeed(t, v)
           p == PushCmd(d1, c)
<1>1. v \in Speed /\ t \in Throttle
  BY DomainAssumption, CurrentSlot DEF AtMost, Speed
<1>2. c \in Command
  BY <1>1 DEF SetSpeed, Command
<1> HIDE DEF v, c
<1>3. d1 \in Domain /\ d1.out = <<>> /\ SameTrains(d, d1)
  <2>1. d1 \in Domain
    BY <1>1, SpeedUpdate
  <2>2. d1.out = <<>>
    BY DEF Domain
  <2>3. SameTrains(d, d1)
    BY DEF Domain, Slot, SameTrains, Consist
  <2> QED BY <2>1, <2>2, <2>3
<1> HIDE DEF d1
<1>4. p \in Domain /\ p.out = <<c>> /\ p.throttles = d1.throttles
  <2>1. p.out = <<c>>
    BY <1>2, <1>3, PushCmdFirst
  <2>2. Len(d1.out) < CmdBuf
    BY <1>3, EmptyFits
  <2> QED BY <1>2, <1>3, <2>1, <2>2, PushCmdFields
<1> HIDE DEF p
<1> DEFINE e == EmitSpeed(d1, t, v)
           w == [throttle |-> t, speed |-> v]
           f == [d1 EXCEPT !.pending_speed = w]
<1>5. e.out = p.out /\ e.pending_speed = None /\ e.throttles = p.throttles
  BY <1>4 DEF EmitSpeed, p, c, Domain
<1> HIDE DEF w
<1>6. f.out = d1.out /\ f.pending_speed = w /\ f.throttles = d1.throttles
  BY <1>3 DEF Domain
<1>7. SpeedSet(d, s) = IF v = 0 \/ Due(d) THEN e ELSE f
  BY DEF SpeedSet, v, d1, w
<1>8. SameTrains(d, e) /\ SameTrains(d, f)
  BY <1>3, <1>4, <1>5, <1>6 DEF SameTrains, Consist
<1> HIDE DEF e, f
<1>9. CASE v = 0 \/ Due(d)
  BY <1>4, <1>5, <1>7, <1>8, <1>9 DEF c, v
<1>10. CASE ~(v = 0 \/ Due(d))
  BY <1>3, <1>6, <1>7, <1>8, <1>10 DEF w, v
<1> QED BY <1>9, <1>10

LEMMA EStopCurrentOut ==
  ASSUME NEW d \in Domain, d.out = <<>>, HasLoco(d, d.current)
  PROVE  LET e == EStopCurrent(d)
         IN  /\ SameTrains(d, e) /\ e.pending_speed = None
             /\ e.out = <<EStop(d.current)>>
<1> DEFINE t == d.current
           c == EStop(t)
           p == PushCmd(d, c)
           e == [p EXCEPT !.pending_speed = None, !.throttles[t].speed = 0]
<1>1. t \in Throttle /\ c \in Command
  BY CurrentSlot DEF EStop, Command
<1> HIDE DEF c
<1>2. p \in Domain /\ p.out = <<c>> /\ p.throttles = d.throttles
  BY <1>1, EmptyFits, PushCmdFirst, PushCmdFields
<1> HIDE DEF p
<1>3. e.out = p.out /\ e.pending_speed = None
  BY <1>2 DEF Domain
<1>4. SameTrains(p, e)
  BY <1>1, <1>2 DEF Domain, Slot, SameTrains, Consist
<1>5. SameTrains(d, e)
  BY <1>2, <1>4 DEF SameTrains, Consist
<1>6. EStopCurrent(d) = e
  BY DEF EStopCurrent, p, c
<1> HIDE DEF e
<1> QED BY <1>2, <1>3, <1>5, <1>6 DEF c

LEMMA OrdersFit ==
  ASSUME NEW order \in Orders
  PROVE  order \in Seq(Throttle) /\ Len(order) \in Nat /\ Len(order) < CmdBuf
<1>1. PICK n \in 0..MaxThrottles : order \in [1..n -> Throttle]
  BY DEF Orders
<1>2. Len(order) = n
  BY <1>1
<1> QED BY <1>1, <1>2, OrdersType, BufferAssumption, DomainAssumption

LEMMA EStopAllOut ==
  ASSUME NEW d \in Domain, d.out = <<>>, NEW order \in Orders
  PROVE  LET e == EStopAll(d, order)
         IN  /\ SameTrains(d, e) /\ e.pending_speed = None /\ Len(e.out) < CmdBuf
             /\ DOMAIN e.out = DOMAIN order
             /\ \A i \in DOMAIN e.out : e.out[i] = EStop(order[i])
<1> DEFINE cs == [i \in 1..Len(order) |-> EStop(order[i])]
           p == PushAll(d, cs)
           ts == [t \in Throttle |->
                    IF t \in InUse(d) /\ HasLoco(d, t)
                      THEN [d.throttles[t] EXCEPT !.speed = 0] ELSE d.throttles[t]]
           e == [p EXCEPT !.pending_speed = None, !.throttles = ts]
<1>1. order \in Seq(Throttle) /\ Len(order) \in Nat /\ Len(order) < CmdBuf
      /\ DOMAIN order = 1..Len(order)
  BY OrdersFit
<1>2. \A i \in 1..Len(order) : EStop(order[i]) \in Command
  BY <1>1 DEF EStop, Command
<1>3. /\ cs \in Seq(Command) /\ Len(cs) = Len(order) /\ DOMAIN cs = 1..Len(order)
      /\ \A i \in 1..Len(order) : cs[i] = EStop(order[i])
  <2>1. cs \in [1..Len(order) -> Command]
    BY <1>2
  <2>2. cs \in Seq(Command)
    BY <1>1, <2>1, CommandSeq
  <2> QED BY <1>1, <2>2
<1> HIDE DEF cs
<1>4. d.out \o cs = cs /\ Len(d.out) + Len(cs) <= CmdBuf
  BY <1>1, <1>3, DomainAssumption
<1>5. p \in Domain /\ p.out = cs /\ p.throttles = d.throttles
  BY <1>3, <1>4, PushAllFields
<1>6. EStopAll(d, order) = e
  BY <1>5 DEF EStopAll, cs
<1> HIDE DEF p
<1>7. \A t \in Throttle : ts[t].consist = d.throttles[t].consist
  BY DEF Domain, Slot
<1> HIDE DEF ts
<1>8. e.out = cs /\ e.pending_speed = None /\ e.throttles = ts
  BY <1>5 DEF Domain
<1> HIDE DEF e
<1> QED BY <1>1, <1>3, <1>6, <1>7, <1>8 DEF SameTrains, Consist

\* e adds to d commands of the kinds in K alone, and keeps to the buffer.
Appends(K, d, e) ==
  \E r \in Seq(Command) :
    /\ e.out = d.out \o r
    /\ Len(e.out) < CmdBuf
    /\ \A i \in DOMAIN r : r[i].op \in K

LEMMA AppendsNothing ==
  ASSUME NEW d \in Domain, NEW e, e.out = d.out, Len(d.out) < CmdBuf, NEW K
  PROVE  Appends(K, d, e)
<1>1. d.out \in Seq(Command) /\ <<>> \in Seq(Command) /\ DOMAIN <<>> = {}
  BY DEF Domain
<1>2. d.out \o <<>> = d.out
  BY <1>1
<1> QED BY <1>1, <1>2 DEF Appends

LEMMA AppendsOne ==
  ASSUME NEW d \in Domain, NEW c \in Command, NEW e, Len(d.out) + 1 < CmdBuf,
         e.out = d.out \o <<c>>, NEW K, c.op \in K
  PROVE  Appends(K, d, e)
<1>1. d.out \in Seq(Command) /\ <<c>> \in Seq(Command) /\ Len(<<c>>) = 1
      /\ \A i \in DOMAIN <<c>> : <<c>>[i] = c
  BY OneCommand DEF Domain
<1>2. Len(d.out \o <<c>>) = Len(d.out) + 1
  BY <1>1, ConcatProperties
<1> QED BY <1>1, <1>2 DEF Appends

\* What is not about speed is silent.
LEMMA AppendsSilent ==
  ASSUME NEW d \in Domain, d.out = <<>>, NEW e, NEW K, Appends(K, d, e),
         K \cap {"SetSpeed", "EStop", "AddLoco"} = {}, e.pending_speed = d.pending_speed
  PROVE  Silent(Throttle, d, e)
<1>1. PICK r \in Seq(Command) : /\ e.out = d.out \o r /\ Len(e.out) < CmdBuf
                                /\ \A i \in DOMAIN r : r[i].op \in K
  BY DEF Appends
<1>2. e.out = r
  BY <1>1
<1> QED BY <1>1, <1>2 DEF Silent, Avoids, Speaks, IsSpeed

LEMMA ChangeDirectionOut ==
  ASSUME NEW d \in Domain, NEW t \in Throttle, NEW dir \in Direction,
         Len(d.out) + Len(Consist(d, t)) < CmdBuf
  PROVE  LET e == ChangeDirection(d, t, dir)
         IN  /\ SameTrains(d, e) /\ e.pending_speed = d.pending_speed
             /\ Appends({"SetDirection"}, d, e)
<1> DEFINE slot == d.throttles[t]
           cs == DirectionCommands(t, slot, dir)
           p == PushAll(d, cs)
           e == [p EXCEPT !.throttles[t] = TurnSlot(p.throttles[t], dir)]
<1>1. slot \in Slot /\ slot.consist \in Seq(Locos) /\ Len(slot.consist) \in Nat
      /\ Len(d.out) \in Nat
      /\ Len(d.out) + Len(slot.consist) < CmdBuf /\ CmdBuf \in Nat
  BY DomainAssumption DEF Domain, Slot, Consist
<1>2. cs \in Seq(Command)
  BY <1>1, DirectionCommandsType
<1>3. Len(cs) = Len(slot.consist) /\ \A i \in DOMAIN cs : cs[i].op = "SetDirection"
  <2>1. CASE Len(slot.consist) = 1
    <3>1. cs = <<SetDirection(t, None, dir)>>
      BY <2>1 DEF DirectionCommands
    <3> QED BY <2>1, <3>1 DEF SetDirection
  <2>2. CASE Len(slot.consist) # 1
    BY <1>1, <2>2 DEF DirectionCommands, SetDirection
  <2> QED BY <2>1, <2>2
<1> HIDE DEF cs
<1>4. Len(d.out) + Len(cs) <= CmdBuf
  <2> DEFINE m == Len(d.out)
             n == Len(slot.consist)
  <2>1. m \in Nat /\ n \in Nat /\ CmdBuf \in Nat /\ m + n < CmdBuf /\ Len(cs) = n
    BY <1>1, <1>3
  <2> HIDE DEF m, n
  <2>2. m + Len(cs) <= CmdBuf
    BY <2>1
  <2> QED BY <2>2 DEF m
<1>5. /\ p \in Domain /\ p.out = d.out \o cs /\ p.throttles = d.throttles
      /\ p.pending_speed = d.pending_speed
  BY <1>2, <1>4, PushAllFields
<1>6. Len(p.out) < CmdBuf
  <2>1. Len(d.out \o cs) = Len(d.out) + Len(cs)
    BY <1>2, ConcatProperties DEF Domain
  <2> QED BY <1>1, <1>3, <1>5, <2>1
<1> HIDE DEF p
<1>7. e.out = p.out /\ e.pending_speed = p.pending_speed
  BY <1>5 DEF Domain
<1>8. SameTrains(p, e)
  BY <1>5 DEF SameTrains, Consist, TurnSlot, Domain, Slot
<1>9. HasLoco(d, t) => ChangeDirection(d, t, dir) = e
  BY DEF ChangeDirection, p, cs
<1> HIDE DEF e
<1>10. CASE HasLoco(d, t)
  <2>1. Appends({"SetDirection"}, d, e)
    BY <1>2, <1>3, <1>5, <1>6, <1>7 DEF Appends
  <2>2. SameTrains(d, e)
    BY <1>5, <1>8 DEF SameTrains, Consist
  <2> QED BY <1>5, <1>7, <1>9, <1>10, <2>1, <2>2
<1>11. CASE ~HasLoco(d, t)
  <2>1. ChangeDirection(d, t, dir) = d
    BY <1>11 DEF ChangeDirection
  <2>2. Len(d.out) < CmdBuf
    BY <1>1
  <2> QED BY <2>1, <2>2, AppendsNothing DEF SameTrains
<1> QED BY <1>10, <1>11

LEMMA ToggleFunctionOut ==
  ASSUME NEW d \in Domain, d.out = <<>>, NEW f \in Functions
  PROVE  LET e == ToggleFunction(d, f)
         IN  /\ SameTrains(d, e) /\ e.pending_speed = d.pending_speed
             /\ Appends({"SetFunction"}, d, e)
<1> DEFINE on == f \notin d.throttles[d.current].functions
           c == SetFunction(d.current, f, on)
           p == PushCmd(d, c)
           fs == IF on THEN d.throttles[d.current].functions \cup {f}
                 ELSE d.throttles[d.current].functions \ {f}
           e == [p EXCEPT !.throttles[d.current].functions = fs]
<1>1. d.current \in Throttle /\ c \in Command /\ c.op = "SetFunction"
  BY CurrentSlot DEF SetFunction, Command
<1> HIDE DEF c
<1>2. Len(d.out) = 0 /\ 0 + 1 < CmdBuf
  BY EmptyFits
<1>3. /\ p \in Domain /\ p.out = d.out \o <<c>> /\ p.throttles = d.throttles
      /\ p.pending_speed = d.pending_speed
  BY <1>1, <1>2, EmptyFits, PushCmdFields
<1>4. ToggleFunction(d, f) = IF HasLoco(d, d.current) THEN e ELSE d
  BY <1>3 DEF ToggleFunction, c
<1> HIDE DEF p, fs
<1>5. e.out = p.out /\ e.pending_speed = p.pending_speed
  BY <1>3 DEF Domain
<1>6. SameTrains(p, e)
  BY <1>1, <1>3 DEF SameTrains, Consist, Domain, Slot
<1> HIDE DEF e
<1>7. SameTrains(d, e) /\ SameTrains(d, d)
  BY <1>3, <1>6 DEF SameTrains, Consist
<1>8. Appends({"SetFunction"}, d, e)
  BY <1>1, <1>2, <1>3, <1>5, AppendsOne
<1>9. Appends({"SetFunction"}, d, d)
  BY <1>2, EmptyFits, AppendsNothing
<1> QED BY <1>3, <1>4, <1>5, <1>7, <1>8, <1>9

LEMMA PowerToggleOut ==
  ASSUME NEW d \in Domain, d.out = <<>>
  PROVE  LET e == PowerToggle(d)
         IN  /\ SameTrains(d, e) /\ e.pending_speed = d.pending_speed
             /\ Appends({"TrackPower"}, d, e)
<1> DEFINE on == d.track_power # "On"
           c == TrackPower(on)
           p == PushCmd(d, c)
           e == [p EXCEPT !.track_power = IF on THEN "On" ELSE "Off"]
<1>1. c \in Command /\ c.op = "TrackPower"
  BY DEF TrackPower, Command
<1> HIDE DEF c
<1>2. Len(d.out) = 0 /\ 0 + 1 < CmdBuf
  BY EmptyFits
<1>3. /\ p \in Domain /\ p.out = d.out \o <<c>> /\ p.throttles = d.throttles
      /\ p.pending_speed = d.pending_speed
  BY <1>1, <1>2, EmptyFits, PushCmdFields
<1>4. PowerToggle(d) = e
  BY DEF PowerToggle, SetTrackPower, c
<1> HIDE DEF p
<1>5. e.out = p.out /\ e.pending_speed = p.pending_speed /\ e.throttles = p.throttles
  BY <1>3 DEF Domain
<1> HIDE DEF e
<1>6. Appends({"TrackPower"}, d, e)
  BY <1>1, <1>2, <1>3, <1>5, AppendsOne
<1> QED BY <1>3, <1>4, <1>5, <1>6 DEF SameTrains, Consist

LEMMA SelectionOut ==
  ASSUME NEW d \in Domain, NEW t \in Throttle,
         NEW e \in {CycleSpeedMultiplier(d), NextThrottle(d), SelectThrottle(d, t)}
  PROVE  SameTrains(d, e) /\ e.pending_speed = d.pending_speed /\ e.out = d.out
<1>1. CASE e = CycleSpeedMultiplier(d)
  BY <1>1 DEF CycleSpeedMultiplier, Domain, SameTrains, Consist
<1>2. CASE e = NextThrottle(d)
  BY <1>2 DEF NextThrottle, Domain, SameTrains, Consist
<1>3. CASE e = SelectThrottle(d, t)
  BY <1>3 DEF SelectThrottle, Domain, SameTrains, Consist
<1> QED BY <1>1, <1>2, <1>3

LEMMA ReleaseOut ==
  ASSUME NEW d \in Domain, NEW t \in Throttle, d.out = <<>>, HasLoco(d, t)
  PROVE  LET e == Release(d, t)
         IN  /\ e.out = <<ReleaseThrottle(t)>> /\ e.pending_speed = d.pending_speed
             /\ e.current = d.current
             /\ \A u \in Throttle : Consist(e, u) = IF u = t THEN <<>> ELSE Consist(d, u)
<1> DEFINE c == ReleaseThrottle(t)
           p == PushCmd(d, c)
           k == ClearConsist(p, t)
           e == [k EXCEPT !.throttles[t].speed = 0]
<1>1. c \in Command
  BY DEF ReleaseThrottle, Command
<1> HIDE DEF c
<1>2. /\ p \in Domain /\ p.out = <<c>> /\ p.pending_speed = d.pending_speed
      /\ p.throttles = d.throttles /\ p.current = d.current
  BY <1>1, EmptyFits, PushCmdFirst, PushCmdFields
<1> HIDE DEF p
<1>3. /\ k \in Domain /\ k.out = p.out /\ k.pending_speed = p.pending_speed
      /\ k.current = p.current
  <2> DEFINE a == [p EXCEPT !.throttles[t].consist = <<>>]
             b == [a EXCEPT !.throttles[t].facing = <<>>]
  <2>1. k \in Domain
    BY <1>2, ClearConsistType
  <2>2. k = [b EXCEPT !.throttles[t].functions = {}]
    BY DEF ClearConsist
  <2> HIDE DEF k
  <2>3. a.out = p.out /\ a.pending_speed = p.pending_speed /\ a.current = p.current
    BY <1>2 DEF Domain
  <2>4. DOMAIN a = DOMAIN p
    OBVIOUS
  <2> HIDE DEF a
  <2>5. b.out = a.out /\ b.pending_speed = a.pending_speed /\ b.current = a.current
        /\ DOMAIN b = DOMAIN p
    BY <1>2, <2>4 DEF Domain
  <2> HIDE DEF b
  <2>6. k.out = b.out /\ k.pending_speed = b.pending_speed /\ k.current = b.current
    BY <1>2, <2>2, <2>5 DEF Domain
  <2> QED BY <2>1, <2>3, <2>5, <2>6
<1>4. \A u \in Throttle : Consist(k, u) = IF u = t THEN <<>> ELSE Consist(p, u)
  BY SMTT(60), <1>2 DEF ClearConsist, Domain, Slot, Consist
<1> HIDE DEF k
<1>5. /\ e.out = k.out /\ e.pending_speed = k.pending_speed /\ e.current = k.current
      /\ \A u \in Throttle : Consist(e, u) = Consist(k, u)
  BY <1>3 DEF Domain, Slot, Consist
<1>6. Release(d, t) = e
  BY DEF Release, c, p, k
<1> HIDE DEF e
<1> QED BY <1>2, <1>3, <1>4, <1>5, <1>6 DEF c, Consist

\* One loco is all the slot holds after an acquire: release comes first.
LEMMA AcquireOut ==
  ASSUME NEW d \in Domain, NEW l \in Locos, d.out = <<>>
  PROVE  LET e == Acquire(d, l)
             t == d.current
         IN  /\ e \in Domain /\ e.pending_speed = d.pending_speed /\ e.current = t
             /\ e.out = IF HasLoco(d, t) THEN <<ReleaseThrottle(t), AddLoco(t, l)>>
                        ELSE <<AddLoco(t, l)>>
             /\ Len(e.out) <= 2
             /\ \A u \in Throttle : Consist(e, u) = IF u = t THEN <<l>> ELSE Consist(d, u)
<1> DEFINE t == d.current
           r == ReleaseAll(d)
           c == AddLoco(t, l)
<1>1. t \in Throttle /\ r \in Domain /\ c \in Command /\ MaxLocos >= 1
  <2>1. t \in Throttle
    BY CurrentSlot
  <2> QED BY <2>1, ReleaseType, DomainAssumption DEF ReleaseAll, AddLoco, Command
<1>2. /\ r.pending_speed = d.pending_speed /\ r.current = t
      /\ r.out = IF HasLoco(d, t) THEN <<ReleaseThrottle(t)>> ELSE <<>>
      /\ \A u \in Throttle : Consist(r, u) = IF u = t THEN <<>> ELSE Consist(d, u)
  <2>1. CASE HasLoco(d, t)
    BY <1>1, <2>1, ReleaseOut DEF ReleaseAll
  <2>2. CASE ~HasLoco(d, t)
    BY <2>2 DEF ReleaseAll, Release, HasLoco, Consist
  <2> QED BY <2>1, <2>2
<1> HIDE DEF r, c
<1> DEFINE slot == JoinConsist(r.throttles[t], l)
           w == [r EXCEPT !.throttles[t] = slot]
           p == PushCmd(w, c)
<1>3. slot \in Slot /\ slot.consist = <<l>> /\ Holds(slot, l)
  <2> DEFINE o == r.throttles[t]
  <2>1. o \in Slot /\ o.consist = <<>>
    BY <1>1, <1>2 DEF Domain, Consist
  <2> HIDE DEF o
  <2>2. ~Holds(o, l) /\ ~(Len(o.consist) >= MaxLocos)
    <3>1. ~Holds(o, l)
      BY <2>1 DEF Holds
    <3>2. Len(o.consist) = 0
      BY <2>1, EmptyFits
    <3> QED BY <1>1, <3>1, <3>2, DomainAssumption
  <2>3. JoinConsist(o, l).consist = <<l>>
    BY <2>1, <2>2 DEF JoinConsist, Slot
  <2>4. JoinConsist(o, l) \in Slot /\ Holds(JoinConsist(o, l), l)
    BY <2>1, <2>3, JoinConsistType DEF Holds
  <2> QED BY <2>3, <2>4 DEF o
<1> HIDE DEF slot
<1>4. /\ w \in Domain /\ w.out = r.out /\ w.pending_speed = r.pending_speed
      /\ w.current = r.current
      /\ \A u \in Throttle : Consist(w, u) = IF u = t THEN <<l>> ELSE Consist(r, u)
  <2>1. w \in Domain
    BY <1>1, <1>3, SlotUpdate
  <2>2. w.out = r.out /\ w.pending_speed = r.pending_speed /\ w.current = r.current
    BY <1>1 DEF Domain
  <2>3. \A u \in Throttle : Consist(w, u) = IF u = t THEN <<l>> ELSE Consist(r, u)
    BY <1>1, <1>3 DEF Domain, Consist
  <2> QED BY <2>1, <2>2, <2>3
<1> HIDE DEF w
<1>5. Len(w.out) < CmdBuf /\ Len(w.out) <= 1
  <2>1. Len(<<ReleaseThrottle(t)>>) = 1 /\ Len(<<>>) = 0
    OBVIOUS
  <2> QED BY <1>2, <1>4, <2>1, EmptyFits
<1>6. /\ p \in Domain /\ p.out = w.out \o <<c>> /\ Len(p.out) = Len(w.out) + 1
      /\ p.pending_speed = w.pending_speed /\ p.throttles = w.throttles
      /\ p.current = w.current
  BY <1>1, <1>4, <1>5, PushCmdFields
<1>7. Acquire(d, l) = p
  BY <1>2, <1>3 DEF Acquire, AcquireLoco, r, slot, w, c
<1> HIDE DEF p
<1>8. Len(p.out) <= 2
  <2>1. Len(w.out) \in Nat
    BY <1>4 DEF Domain
  <2> QED BY <1>5, <1>6, <2>1
<1>9. w.out \o <<c>> = IF HasLoco(d, t) THEN <<ReleaseThrottle(t), c>> ELSE <<c>>
  <2>1. ASSUME NEW x \in Command, NEW y \in Command PROVE <<x>> \o <<y>> = <<x, y>>
    <3> DEFINE a == <<x>> \o <<y>>
               b == <<x, y>>
    <3>1. <<x>> \in Seq(Command) /\ <<y>> \in Seq(Command)
      BY OneCommand
    <3>2. a \in Seq(Command) /\ Len(a) = 2 /\ a[1] = x /\ a[2] = y
      BY <3>1, Joined
    <3>3. b \in Seq(Command) /\ Len(b) = 2 /\ b[1] = x /\ b[2] = y
      OBVIOUS
    <3> HIDE DEF a, b
    <3>4. \A i \in 1..2 : a[i] = b[i]
      BY <3>2, <3>3
    <3> QED BY <3>2, <3>3, <3>4, SeqEqual DEF a, b
  <2>2. <<>> \o <<c>> = <<c>>
    BY <1>1
  <2>3. ReleaseThrottle(t) \in Command
    BY <1>1 DEF ReleaseThrottle, Command
  <2> QED BY ZenonT(90), <1>1, <1>2, <1>4, <2>1, <2>2, <2>3
<1> QED BY <1>2, <1>4, <1>6, <1>7, <1>8, <1>9 DEF c, Consist

LEMMA AcquireFromUiOut ==
  ASSUME NEW d \in Domain, NEW l \in Locos, NEW dir \in Direction, d.out = <<>>
  PROVE  LET e == AcquireFromUi(d, l, dir)
             t == d.current
         IN  /\ e.pending_speed = d.pending_speed
             /\ \E r \in Seq(Command) :
                  /\ e.out = (IF HasLoco(d, t) THEN <<ReleaseThrottle(t), AddLoco(t, l)>>
                              ELSE <<AddLoco(t, l)>>) \o r
                  /\ \A i \in DOMAIN r : r[i].op = "SetDirection"
             /\ Len(e.out) < CmdBuf
             /\ \A u \in Throttle : Consist(e, u) = IF u = t THEN <<l>> ELSE Consist(d, u)
<1> DEFINE t == d.current
           a == Acquire(d, l)
           e == ChangeDirection(a, a.current, dir)
           x == IF HasLoco(d, t) THEN <<ReleaseThrottle(t), AddLoco(t, l)>>
                ELSE <<AddLoco(t, l)>>
<1>1. /\ a \in Domain /\ a.pending_speed = d.pending_speed /\ a.current = t
      /\ a.out = x /\ Len(a.out) <= 2
      /\ \A u \in Throttle : Consist(a, u) = IF u = t THEN <<l>> ELSE Consist(d, u)
  BY AcquireOut
<1>2. t \in Throttle
  BY CurrentSlot
<1> HIDE DEF a, x
<1>3. Len(a.out) + Len(Consist(a, t)) < CmdBuf
  <2>1. Consist(a, t) = <<l>> /\ Len(<<l>>) = 1
    BY <1>1, <1>2
  <2>2. Len(a.out) \in Nat /\ CmdBuf \in Nat
    BY <1>1, DomainAssumption DEF Domain
  <2> QED BY <1>1, <2>1, <2>2, EmptyFits
<1>4. /\ SameTrains(a, e) /\ e.pending_speed = a.pending_speed
      /\ Appends({"SetDirection"}, a, e)
  BY <1>1, <1>2, <1>3, ChangeDirectionOut
<1>5. AcquireFromUi(d, l, dir) = e
  BY DEF AcquireFromUi, a
<1> HIDE DEF e
<1>6. PICK r \in Seq(Command) : /\ e.out = a.out \o r /\ Len(e.out) < CmdBuf
                                /\ \A i \in DOMAIN r : r[i].op \in {"SetDirection"}
  BY <1>4 DEF Appends
<1>7. \A u \in Throttle : Consist(e, u) = IF u = t THEN <<l>> ELSE Consist(d, u)
  BY <1>1, <1>4 DEF SameTrains
<1>8. /\ e.out = x \o r /\ Len(e.out) < CmdBuf /\ e.pending_speed = d.pending_speed
      /\ \A i \in DOMAIN r : r[i].op = "SetDirection"
  BY <1>1, <1>4, <1>6
<1> QED BY <1>5, <1>7, <1>8 DEF x

LEMMA SetMaxThrottlesOut ==
  ASSUME NEW d \in Domain, d.out = <<>>, NEW n \in 1..MaxThrottles, NEW order \in Orders
  PROVE  LET e == SetMaxThrottles(d, n, order)
         IN  /\ e.pending_speed = d.pending_speed /\ Len(e.out) < CmdBuf
             /\ DOMAIN e.out = DOMAIN order
             /\ \A i \in DOMAIN e.out : e.out[i] = ReleaseThrottle(order[i])
             /\ \A t \in Throttle : Consist(e, t) =
                  IF t \in InUse(d) /\ t >= n THEN <<>> ELSE Consist(d, t)
<1> DEFINE cs == [i \in 1..Len(order) |-> ReleaseThrottle(order[i])]
           p == PushAll(d, cs)
           ts == [t \in Throttle |->
                    IF t \in InUse(d) /\ t >= n THEN ReleasedSlot(d.throttles[t])
                      ELSE d.throttles[t]]
           k == IF d.current >= n THEN n - 1 ELSE d.current
           e == [p EXCEPT !.max_throttles = n, !.current = k, !.throttles = ts]
<1>1. order \in Seq(Throttle) /\ Len(order) \in Nat /\ Len(order) < CmdBuf
      /\ DOMAIN order = 1..Len(order)
  BY OrdersFit
<1>2. \A i \in 1..Len(order) : ReleaseThrottle(order[i]) \in Command
  BY <1>1 DEF ReleaseThrottle, Command
<1>3. /\ cs \in Seq(Command) /\ Len(cs) = Len(order) /\ DOMAIN cs = 1..Len(order)
      /\ \A i \in 1..Len(order) : cs[i] = ReleaseThrottle(order[i])
  <2>1. cs \in [1..Len(order) -> Command]
    BY <1>2
  <2>2. cs \in Seq(Command)
    BY <1>1, <2>1, CommandSeq
  <2> QED BY <1>1, <2>2
<1> HIDE DEF cs
<1>4. d.out \o cs = cs /\ Len(d.out) + Len(cs) <= CmdBuf
  BY <1>1, <1>3, DomainAssumption
<1>5. /\ p \in Domain /\ p.out = cs /\ p.throttles = d.throttles /\ p.current = d.current
      /\ p.pending_speed = d.pending_speed
  BY <1>3, <1>4, PushAllFields
<1>6. SetMaxThrottles(d, n, order) = e
  BY <1>5 DEF SetMaxThrottles, cs
<1> HIDE DEF p
<1>7. \A t \in Throttle : ts[t].consist =
        IF t \in InUse(d) /\ t >= n THEN <<>> ELSE d.throttles[t].consist
  BY DEF Domain, Slot, ReleasedSlot
<1> HIDE DEF ts, k
<1>8. e.out = cs /\ e.pending_speed = d.pending_speed /\ e.throttles = ts
  BY <1>5 DEF Domain
<1> HIDE DEF e
<1> QED BY <1>1, <1>3, <1>6, <1>7, <1>8 DEF Consist

LEMMA ApplyEventOut ==
  ASSUME NEW d \in Domain, NEW ev \in Event
  PROVE  ApplyEvent(d, ev).out = d.out /\ ApplyEvent(d, ev).pending_speed = d.pending_speed
<1>1. CASE ev.op = "AddressAdded"
  BY <1>1 DEF ApplyEvent, OnAddressAdded, Domain
<1>2. CASE ev.op = "AddressRemoved"
  BY <1>2 DEF ApplyEvent, OnAddressRemoved, ClearConsist, Domain
<1>3. CASE ev.op = "Speed"
  BY <1>3 DEF ApplyEvent, OnSpeedEcho, Domain
<1> QED BY <1>1, <1>2, <1>3 DEF Event

LEMMA FlushPendingSpeedOut ==
  ASSUME NEW d \in Domain, Len(d.out) < CmdBuf
  PROVE  LET e == FlushPendingSpeed(d)
             p == d.pending_speed
         IN  /\ e \in Domain /\ SameTrains(d, e)
             /\ \/ e.out = d.out /\ e.pending_speed = p
                \/ /\ p # None /\ e.pending_speed = None
                   /\ e.out = d.out \o <<SetSpeed(p.throttle, p.speed)>>
<1> DEFINE p == d.pending_speed
           c == SetSpeed(p.throttle, p.speed)
           q == PushCmd(d, c)
           e == FlushPendingSpeed(d)
<1>1. e \in Domain
  BY FlushPendingSpeedType
<1>2. CASE p # None /\ Due(d)
  <2>1. p.throttle \in Throttle /\ p.speed \in Speed
    BY <1>2 DEF Domain
  <2>2. c \in Command
    BY <2>1 DEF SetSpeed, Command
  <2>3. q \in Domain /\ q.out = d.out \o <<c>> /\ q.throttles = d.throttles
    BY <2>2, PushCmdFields
  <2>4. e = EmitSpeed(d, p.throttle, p.speed)
    BY <1>2 DEF FlushPendingSpeed
  <2>5. e.out = q.out /\ e.pending_speed = None /\ e.throttles = q.throttles
    BY <2>3, <2>4 DEF EmitSpeed, Domain
  <2>6. SameTrains(d, e)
    BY <2>3, <2>5 DEF SameTrains, Consist
  <2> QED BY <1>1, <1>2, <2>3, <2>5, <2>6
<1>3. CASE ~(p # None /\ Due(d))
  <2>1. e = d
    BY <1>3 DEF FlushPendingSpeed
  <2> QED BY <2>1 DEF SameTrains
<1> QED BY <1>2, <1>3

-----------------------------------------------------------------------------
(* What the domain does to the consists: it keeps them, puts one loco in   *)
(* the place of a consist, or gives up those of the throttles in S.        *)

Slotted == {c \in Command : c.op \in {"AddLoco", "ReleaseThrottle"}}

KeepsTrains(d, e) == SameTrains(d, e) /\ Avoids(Slotted, e.out)

Takes(d, e, t, l) ==
  /\ \A u \in Throttle : Consist(e, u) = IF u = t THEN <<l>> ELSE Consist(d, u)
  /\ \E r \in Seq(Command) :
       /\ e.out = (IF HasLoco(d, t) THEN <<ReleaseThrottle(t), AddLoco(t, l)>>
                   ELSE <<AddLoco(t, l)>>) \o r
       /\ Avoids(Slotted, r)

Gives(d, e, S) ==
  /\ \A t \in Throttle : Consist(e, t) = IF t \in S THEN <<>> ELSE Consist(d, t)
  /\ \A i \in DOMAIN e.out : \E t \in S : e.out[i] = ReleaseThrottle(t)
  /\ \A t \in S : HasLoco(d, t) => Has({ReleaseThrottle(t)}, e.out)

Handles(d, e) ==
  /\ Len(e.out) < CmdBuf
  /\ \/ KeepsTrains(d, e)
     \/ \E t \in Throttle, l \in Locos : Takes(d, e, t, l)
     \/ \E S \in SUBSET Throttle : Gives(d, e, S)

LEMMA IdleHandles ==
  ASSUME NEW d \in Domain, d.out = <<>>, NEW e, SameTrains(d, e), e.out = <<>>
  PROVE  Handles(d, e)
BY EmptyFits, AvoidsEmpty DEF Handles, KeepsTrains

LEMMA HandlesTrains ==
  ASSUME NEW d \in Domain, NEW e, Handles(d, e), Trains(d)
  PROVE  Trains(e)
<1>1. Proper(<<>>) /\ \A l : Proper(<<l>>)
  BY DomainAssumption DEF Proper
<1>2. CASE KeepsTrains(d, e)
  BY <1>2 DEF KeepsTrains, SameTrains, Trains
<1>3. CASE \E t \in Throttle, l \in Locos : Takes(d, e, t, l)
  BY <1>1, <1>3 DEF Takes, Trains
<1>4. CASE \E S \in SUBSET Throttle : Gives(d, e, S)
  BY <1>1, <1>4 DEF Gives, Trains
<1> QED BY <1>2, <1>3, <1>4 DEF Handles

LEMMA AppendsHandles ==
  ASSUME NEW d \in Domain, d.out = <<>>, NEW e, NEW K, Appends(K, d, e),
         K \cap {"AddLoco", "ReleaseThrottle"} = {}, SameTrains(d, e)
  PROVE  Handles(d, e)
<1>1. PICK r \in Seq(Command) : /\ e.out = d.out \o r /\ Len(e.out) < CmdBuf
                                /\ \A i \in DOMAIN r : r[i].op \in K
  BY DEF Appends
<1>2. e.out = r
  BY <1>1
<1>3. Avoids(Slotted, e.out)
  BY <1>1, <1>2 DEF Avoids, Slotted
<1> QED BY <1>1, <1>3 DEF Handles, KeepsTrains

LEMMA SpeedSetHandles ==
  ASSUME NEW d \in Domain, d.out = <<>>, NEW s \in Nat
  PROVE  Handles(d, SpeedSet(d, s))
<1>1. CASE HasLoco(d, d.current)
  <2> DEFINE v == AtMost(s, MaxSpeed)
             e == SpeedSet(d, s)
  <2>1. SameTrains(d, e) /\ (e.out = <<SetSpeed(d.current, v)>> \/ e.out = <<>>)
    BY <1>1, SpeedSetOut
  <2> HIDE DEF e
  <2>2. Avoids(Slotted, e.out)
    BY <2>1 DEF Avoids, Slotted, SetSpeed
  <2>3. Len(e.out) < CmdBuf
    <3>1. Len(<<SetSpeed(d.current, v)>>) = 1
      OBVIOUS
    <3> HIDE DEF v
    <3> QED BY <2>1, <3>1, EmptyFits
  <2> QED BY <2>1, <2>2, <2>3 DEF Handles, KeepsTrains, e
<1>2. CASE ~HasLoco(d, d.current)
  <2>1. SpeedSet(d, s) = d
    BY <1>2, SpeedSetNothing
  <2> QED BY <2>1, IdleHandles DEF SameTrains
<1> QED BY <1>1, <1>2

LEMMA DirectionHandles ==
  ASSUME NEW d \in Domain, Trains(d), d.out = <<>>, NEW t \in Throttle, NEW dir \in Direction
  PROVE  Handles(d, ChangeDirection(d, t, dir))
<1>1. Len(Consist(d, t)) \in Nat
  BY DEF Domain, Slot, Consist
<1>2. Len(Consist(d, t)) <= MaxLocos /\ MaxLocos < CmdBuf /\ MaxLocos \in Nat /\ CmdBuf \in Nat
  BY DomainAssumption, BufferAssumption DEF Trains, Proper
<1>3. Len(d.out) + Len(Consist(d, t)) < CmdBuf
  BY <1>1, <1>2, EmptyFits
<1> QED BY <1>3, ChangeDirectionOut, AppendsHandles

LEMMA EStopHandles ==
  ASSUME NEW d \in Domain, d.out = <<>>
  PROVE  /\ Handles(d, EStopCurrent(d))
         /\ \A order \in Orders : Handles(d, EStopAll(d, order))
<1>1. Handles(d, EStopCurrent(d))
  <2>1. CASE HasLoco(d, d.current)
    <3>1. SameTrains(d, EStopCurrent(d)) /\ EStopCurrent(d).out = <<EStop(d.current)>>
      BY <2>1, EStopCurrentOut
    <3>2. Avoids(Slotted, EStopCurrent(d).out)
      BY <3>1 DEF Avoids, Slotted, EStop
    <3>3. Len(EStopCurrent(d).out) < CmdBuf
      BY <3>1, EmptyFits
    <3> QED BY <3>1, <3>2, <3>3 DEF Handles, KeepsTrains
  <2>2. CASE ~HasLoco(d, d.current)
    <3>1. EStopCurrent(d) = d
      BY <2>2 DEF EStopCurrent
    <3> QED BY <3>1, IdleHandles DEF SameTrains
  <2> QED BY <2>1, <2>2
<1>2. ASSUME NEW order \in Orders PROVE Handles(d, EStopAll(d, order))
  <2>1. /\ SameTrains(d, EStopAll(d, order)) /\ Len(EStopAll(d, order).out) < CmdBuf
        /\ \A i \in DOMAIN EStopAll(d, order).out : EStopAll(d, order).out[i] = EStop(order[i])
    BY EStopAllOut
  <2>2. Avoids(Slotted, EStopAll(d, order).out)
    <3>1. \A t : EStop(t) \notin Slotted
      BY DEF Slotted, EStop
    <3> QED BY <2>1, <3>1 DEF Avoids
  <2> QED BY <2>1, <2>2 DEF Handles, KeepsTrains
<1> QED BY <1>1, <1>2

LEMMA ReleaseHandles ==
  ASSUME NEW d \in Domain, d.out = <<>>
  PROVE  Handles(d, ReleaseAll(d))
<1> DEFINE t == d.current
           e == Release(d, t)
<1>1. t \in Throttle
  BY CurrentSlot
<1>2. CASE HasLoco(d, t)
  <2>1. /\ e.out = <<ReleaseThrottle(t)>>
        /\ \A u \in Throttle : Consist(e, u) = IF u = t THEN <<>> ELSE Consist(d, u)
    BY <1>1, <1>2, ReleaseOut
  <2> HIDE DEF e
  <2>2. Has({ReleaseThrottle(t)}, e.out)
    BY <2>1 DEF Has
  <2>3. Gives(d, e, {t})
    BY <2>1, <2>2 DEF Gives
  <2>4. Len(e.out) < CmdBuf
    BY <2>1, EmptyFits
  <2>5. Handles(d, e)
    BY <1>1, <2>3, <2>4 DEF Handles
  <2> QED BY <2>5 DEF e, ReleaseAll
<1>3. CASE ~HasLoco(d, t)
  <2>1. e = d
    BY <1>3 DEF Release
  <2> QED BY <2>1, IdleHandles DEF SameTrains, ReleaseAll
<1> QED BY <1>2, <1>3

LEMMA AcquireHandles ==
  ASSUME NEW d \in Domain, d.out = <<>>, NEW l \in Locos, NEW dir \in Direction
  PROVE  Handles(d, AcquireFromUi(d, l, dir))
<1> DEFINE t == d.current
           e == AcquireFromUi(d, l, dir)
           x == IF HasLoco(d, t) THEN <<ReleaseThrottle(t), AddLoco(t, l)>>
                ELSE <<AddLoco(t, l)>>
<1>1. /\ \A u \in Throttle : Consist(e, u) = IF u = t THEN <<l>> ELSE Consist(d, u)
      /\ Len(e.out) < CmdBuf
      /\ \E r \in Seq(Command) : /\ e.out = x \o r
                                 /\ \A i \in DOMAIN r : r[i].op = "SetDirection"
  BY AcquireFromUiOut
<1>2. PICK r \in Seq(Command) : e.out = x \o r /\ \A i \in DOMAIN r : r[i].op = "SetDirection"
  BY <1>1
<1>3. Avoids(Slotted, r)
  BY <1>2 DEF Avoids, Slotted
<1> HIDE DEF e
<1>4. Takes(d, e, t, l)
  BY <1>1, <1>2, <1>3 DEF Takes
<1>5. Handles(d, e)
  BY <1>1, <1>4, CurrentSlot DEF Handles
<1> QED BY <1>5 DEF e

LEMMA TrimHandles ==
  ASSUME NEW d \in Domain, d.out = <<>>, NEW n \in 1..MaxThrottles,
         NEW order \in Orders, TrimOrder(d, n, order)
  PROVE  Handles(d, SetMaxThrottles(d, n, order))
<1> DEFINE e == SetMaxThrottles(d, n, order)
           S == {t \in Throttle : t \in InUse(d) /\ t >= n}
<1>1. /\ DOMAIN e.out = DOMAIN order /\ Len(e.out) < CmdBuf
      /\ \A i \in DOMAIN e.out : e.out[i] = ReleaseThrottle(order[i])
      /\ \A t \in Throttle : Consist(e, t) =
           IF t \in InUse(d) /\ t >= n THEN <<>> ELSE Consist(d, t)
  BY SetMaxThrottlesOut
<1> HIDE DEF e
<1>2. order \in Seq(Throttle)
  BY OrdersFit
<1>3. \A i \in DOMAIN order : order[i] \in S
  BY <1>2 DEF TrimOrder
<1>4. ASSUME NEW t \in S, HasLoco(d, t) PROVE Has({ReleaseThrottle(t)}, e.out)
  <2>1. PICK i \in DOMAIN order : order[i] = t
    BY <1>4 DEF TrimOrder
  <2> QED BY <1>1, <2>1 DEF Has
<1>5. Gives(d, e, S)
  BY <1>1, <1>3, <1>4 DEF Gives
<1>6. Handles(d, e)
  BY <1>1, <1>5 DEF Handles
<1> QED BY <1>6 DEF e

\* An operation changes a consist only with the commands that say so.
LEMMA HandlesSlot ==
  ASSUME NEW d \in Domain, NEW e \in Domain, Handles(d, e), NEW t \in Throttle, NEW l \in Locos
  PROVE  \/ Holds(e.throttles[t], l) <=> Holds(d.throttles[t], l)
         \/ Has({AddLoco(t, l)}, e.out)
         \/ ~Holds(e.throttles[t], l) /\ Has({ReleaseThrottle(t)}, e.out)
<1> DEFINE On(s) == \E i \in DOMAIN s : s[i] = l
<1>1. /\ Holds(d.throttles[t], l) <=> On(Consist(d, t))
      /\ Holds(e.throttles[t], l) <=> On(Consist(e, t))
      /\ HasLoco(d, t) <=> Consist(d, t) # <<>>
  BY DEF Holds, HasLoco, Consist
<1>2. ~On(<<>>) /\ \A m : On(<<m>>) <=> m = l
  OBVIOUS
<1> HIDE DEF On
<1>3. CASE KeepsTrains(d, e)
  BY <1>1, <1>3 DEF KeepsTrains, SameTrains
<1>4. ASSUME NEW u \in Throttle, NEW m \in Locos, Takes(d, e, u, m)
      PROVE  \/ Holds(e.throttles[t], l) <=> Holds(d.throttles[t], l)
             \/ Has({AddLoco(t, l)}, e.out)
             \/ ~Holds(e.throttles[t], l) /\ Has({ReleaseThrottle(t)}, e.out)
  <2> DEFINE h == IF HasLoco(d, u) THEN <<ReleaseThrottle(u), AddLoco(u, m)>>
                  ELSE <<AddLoco(u, m)>>
  <2>1. PICK r \in Seq(Command) : e.out = h \o r
    BY <1>4 DEF Takes
  <2>2. Consist(e, t) = IF t = u THEN <<m>> ELSE Consist(d, t)
    BY <1>4 DEF Takes
  <2>3. ReleaseThrottle(u) \in Command /\ AddLoco(u, m) \in Command
    BY DEF ReleaseThrottle, AddLoco, Command
  <2>4. h \in Seq(Command) /\ Has({AddLoco(u, m)}, h)
        /\ (HasLoco(d, u) => Has({ReleaseThrottle(u)}, h))
    <3> DEFINE a == AddLoco(u, m)
               b == ReleaseThrottle(u)
    <3> HIDE DEF a, b
    <3>1. /\ a \in Command /\ b \in Command
          /\ h = IF HasLoco(d, u) THEN <<b, a>> ELSE <<a>>
      BY <2>3 DEF a, b
    <3> HIDE DEF h
    <3>2. CASE HasLoco(d, u)
      <4>1. h = <<b, a>> /\ DOMAIN <<b, a>> = 1..2
        BY <3>1, <3>2
      <4>2. h \in Seq(Command) /\ 1 \in DOMAIN h /\ 2 \in DOMAIN h /\ h[1] = b /\ h[2] = a
        BY <3>1, <4>1
      <4> QED BY <4>2 DEF Has, a, b
    <3>3. CASE ~HasLoco(d, u)
      <4>1. h = <<a>>
        BY <3>1, <3>3
      <4>2. h \in Seq(Command) /\ 1 \in DOMAIN h /\ h[1] = a
        BY <3>1, <4>1
      <4> QED BY <3>3, <4>2 DEF Has, a, b
    <3> QED BY <3>2, <3>3
  <2> HIDE DEF h
  <2>5. \A Z : Has(Z, h) => Has(Z, e.out)
    BY <2>1, <2>4, HasJoined
  <2>6. CASE t # u
    BY <1>1, <2>2, <2>6
  <2>7. CASE t = u /\ m = l
    BY <2>4, <2>5, <2>7
  <2>8. CASE t = u /\ m # l
    <3>1. ~Holds(e.throttles[t], l)
      BY <1>1, <1>2, <2>2, <2>8
    <3>2. CASE HasLoco(d, t)
      BY <2>4, <2>5, <2>8, <3>1, <3>2
    <3>3. CASE ~HasLoco(d, t)
      BY <1>1, <1>2, <3>1, <3>3
    <3> QED BY <3>2, <3>3
  <2> QED BY <2>6, <2>7, <2>8
<1>5. ASSUME NEW S \in SUBSET Throttle, Gives(d, e, S)
      PROVE  \/ Holds(e.throttles[t], l) <=> Holds(d.throttles[t], l)
             \/ ~Holds(e.throttles[t], l) /\ Has({ReleaseThrottle(t)}, e.out)
  <2>1. CASE t \notin S
    BY <1>1, <1>5, <2>1 DEF Gives
  <2>2. CASE t \in S
    BY <1>1, <1>2, <1>5, <2>2 DEF Gives
  <2> QED BY <2>1, <2>2
<1> QED BY <1>3, <1>4, <1>5 DEF Handles

-----------------------------------------------------------------------------
(* What the reports do to the consists.                                    *)

LEMMA AddedConsist ==
  ASSUME NEW d \in Domain, NEW t \in Throttle, NEW l \in Locos
  PROVE  LET e == OnAddressAdded(d, t, l)
             q == Consist(d, t)
         IN  \A u \in Throttle : Consist(e, u) =
               IF u = t /\ ~Holds(d.throttles[t], l) /\ Len(q) < MaxLocos
                 THEN Append(q, l) ELSE Consist(d, u)
<1> DEFINE slot == d.throttles[t]
           j == JoinConsist(slot, l)
           e == [d EXCEPT !.throttles[t] = j]
<1>1. slot \in Slot /\ j \in Slot /\ Len(slot.consist) \in Nat /\ MaxLocos \in Nat
  <2>1. slot \in Slot
    BY DEF Domain
  <2>2. j \in Slot
    BY <2>1, JoinConsistType
  <2> HIDE DEF slot, j
  <2>3. slot.consist \in Seq(Locos)
    BY <2>1 DEF Slot
  <2> QED BY <2>1, <2>2, <2>3, DomainAssumption
<1>2. j.consist = IF ~Holds(slot, l) /\ Len(slot.consist) < MaxLocos
                    THEN Append(slot.consist, l) ELSE slot.consist
  <2>1. Len(slot.consist) >= MaxLocos <=> ~(Len(slot.consist) < MaxLocos)
    BY <1>1
  <2> HIDE DEF slot
  <2> QED BY <1>1, <2>1 DEF JoinConsist, Slot
<1> HIDE DEF j
<1>3. \A u \in Throttle : Consist(e, u) = IF u = t THEN j.consist ELSE Consist(d, u)
  BY DEF Domain, Consist
<1>4. OnAddressAdded(d, t, l) = e
  BY DEF OnAddressAdded, j
<1> HIDE DEF e
<1> QED BY <1>2, <1>3, <1>4 DEF Consist

LEMMA RemovedConsist ==
  ASSUME NEW d \in Domain, NEW t \in Throttle, NEW l \in Locos \cup {None}
  PROVE  LET e == OnAddressRemoved(d, t, l)
             q == Consist(d, t)
         IN  /\ \A u \in Throttle \ {t} : Consist(e, u) = Consist(d, u)
             /\ \/ l = None /\ Consist(e, t) = <<>>
                \/ l # None /\ ~Holds(d.throttles[t], l) /\ Consist(e, t) = q
                \/ /\ l # None
                   /\ \E n \in 1..Len(q) : q[n] = l /\ Consist(e, t) = WithoutIndex(q, n)
<1> DEFINE slot == d.throttles[t]
           e == OnAddressRemoved(d, t, l)
           pos == CHOOSE i \in DOMAIN slot.consist : slot.consist[i] = l
           gone == IF Len(slot.consist) = 1 THEN 0 ELSE slot.speed
           facing == IF pos \in DOMAIN slot.facing
                       THEN WithoutIndex(slot.facing, pos) ELSE slot.facing
<1>1. CASE l = None
  <2> DEFINE k == ClearConsist(d, t)
             f == [k EXCEPT !.throttles[t].speed = 0]
  <2>1. k \in Domain
    BY ClearConsistType
  <2>2. \A u \in Throttle : Consist(k, u) = IF u = t THEN <<>> ELSE Consist(d, u)
    BY DEF ClearConsist, Domain, Slot, Consist
  <2> HIDE DEF k
  <2>3. \A u \in Throttle : Consist(f, u) = Consist(k, u)
    BY <2>1 DEF Domain, Slot, Consist
  <2>4. e = f
    BY <1>1 DEF OnAddressRemoved, k
  <2> HIDE DEF e, f
  <2> QED BY <1>1, <2>2, <2>3, <2>4 DEF e
<1>2. CASE l # None /\ ~Holds(slot, l)
  BY <1>2 DEF OnAddressRemoved
<1>3. CASE l # None /\ Holds(slot, l)
  <2>1. slot.consist \in Seq(Locos) /\ slot \in Slot
    BY DEF Domain, Slot
  <2>2. pos \in 1..Len(slot.consist) /\ slot.consist[pos] = l
    BY <1>3, <2>1 DEF Holds
  <2> HIDE DEF pos, gone, facing
  <2> DEFINE w == WithoutIndex(slot.consist, pos)
             s == [slot EXCEPT !.consist = w, !.facing = facing, !.speed = gone]
  <2>3. s.consist = w
    <3> HIDE DEF slot, w
    <3> QED BY <2>1 DEF Slot
  <2>4. e = [d EXCEPT !.throttles[t] = s]
    BY <1>3 DEF OnAddressRemoved, pos, gone, facing
  <2> HIDE DEF s, w
  <2>5. \A u \in Throttle : Consist(e, u) = IF u = t THEN s.consist ELSE Consist(d, u)
    <3> HIDE DEF e
    <3> QED BY <2>4 DEF Domain, Consist
  <2>6. \E n \in 1..Len(slot.consist) :
          slot.consist[n] = l /\ Consist(e, t) = WithoutIndex(slot.consist, n)
    BY <2>2, <2>3, <2>5 DEF w
  <2> HIDE DEF e
  <2> QED BY <1>3, <2>5, <2>6 DEF e, Consist
<1> QED BY <1>1, <1>2, <1>3

LEMMA EventTrains ==
  ASSUME NEW d \in Domain, Trains(d), NEW ev \in Event
  PROVE  Trains(ApplyEvent(d, ev))
<1> DEFINE e == ApplyEvent(d, ev)
<1>1. \A u \in Throttle : Consist(d, u) \in Seq(Locos) /\ Proper(Consist(d, u))
  BY DEF Domain, Slot, Consist, Trains
<1>2. CASE ev.op = "AddressAdded"
  <2> DEFINE t == ev.throttle
             q == Consist(d, t)
  <2>1. t \in Throttle /\ ev.loco \in Locos /\ e = OnAddressAdded(d, t, ev.loco)
    BY <1>2 DEF Event, ApplyEvent
  <2>2. \A u \in Throttle : Consist(e, u) =
          IF u = t /\ ~Holds(d.throttles[t], ev.loco) /\ Len(q) < MaxLocos
            THEN Append(q, ev.loco) ELSE Consist(d, u)
    <3> HIDE DEF e, t, q
    <3>1. \A u \in Throttle : Consist(OnAddressAdded(d, t, ev.loco), u) =
            IF u = t /\ ~Holds(d.throttles[t], ev.loco) /\ Len(Consist(d, t)) < MaxLocos
              THEN Append(Consist(d, t), ev.loco) ELSE Consist(d, u)
      BY <2>1, AddedConsist
    <3> QED BY <2>1, <3>1 DEF q
  <2>3. ASSUME ~Holds(d.throttles[t], ev.loco), Len(q) < MaxLocos
        PROVE  Proper(Append(q, ev.loco))
    <3> DEFINE a == Append(q, ev.loco)
    <3>1. q \in Seq(Locos) /\ Proper(q) /\ Len(q) \in Nat /\ DOMAIN q = 1..Len(q)
      BY <1>1, <2>1
    <3>2. /\ DOMAIN a = 1..(Len(q) + 1) /\ Len(a) = Len(q) + 1
          /\ \A i \in 1..Len(q) : a[i] = q[i]
          /\ a[Len(q) + 1] = ev.loco
      BY <2>1, <3>1, AppendProperties
    <3>3. \A i \in 1..Len(q) : q[i] # ev.loco
      BY <2>3, <3>1 DEF Holds, Consist
    <3>4. ASSUME NEW i \in DOMAIN a, NEW j \in DOMAIN a, a[i] = a[j] PROVE i = j
      <4> HIDE DEF a
      <4>1. CASE i \in 1..Len(q) /\ j \in 1..Len(q)
        BY <3>1, <3>2, <3>4, <4>1 DEF Proper
      <4>2. CASE i = Len(q) + 1 /\ j = Len(q) + 1
        BY <4>2
      <4>3. CASE i = Len(q) + 1 /\ j \in 1..Len(q)
        BY <3>2, <3>3, <3>4, <4>3
      <4>4. CASE i \in 1..Len(q) /\ j = Len(q) + 1
        BY <3>2, <3>3, <3>4, <4>4
      <4>5. i \in 1..(Len(q) + 1) /\ j \in 1..(Len(q) + 1) /\ Len(q) \in Nat
        BY <3>1, <3>2
      <4> DEFINE n == Len(q)
      <4> HIDE DEF n
      <4>6. (i \in 1..n \/ i = n + 1) /\ (j \in 1..n \/ j = n + 1)
        BY <4>5 DEF n
      <4> QED BY <4>1, <4>2, <4>3, <4>4, <4>6 DEF n
    <3>5. Len(a) <= MaxLocos
      BY <2>3, <3>1, <3>2, DomainAssumption
    <3> QED BY <3>4, <3>5 DEF Proper
  <2> HIDE DEF e
  <2> QED BY <1>1, <2>1, <2>2, <2>3 DEF Trains, e
<1>3. CASE ev.op = "AddressRemoved"
  <2> DEFINE t == ev.throttle
             l == ev.loco
             q == Consist(d, t)
  <2>1. t \in Throttle /\ l \in Locos \cup {None} /\ e = OnAddressRemoved(d, t, l)
    BY <1>3 DEF Event, ApplyEvent
  <2>2. /\ \A u \in Throttle \ {t} : Consist(e, u) = Consist(d, u)
        /\ \/ Consist(e, t) = <<>>
           \/ Consist(e, t) = q
           \/ \E n \in 1..Len(q) : q[n] = l /\ Consist(e, t) = WithoutIndex(q, n)
    BY <2>1, RemovedConsist
  <2>3. Proper(<<>>)
    BY DomainAssumption DEF Proper
  <2>4. ASSUME NEW n \in 1..Len(q) PROVE Proper(WithoutIndex(q, n))
    <3> DEFINE w == WithoutIndex(q, n)
    <3>1. q \in Seq(Locos) /\ Proper(q) /\ Len(q) \in Nat
      BY <1>1, <2>1
    <3>2. /\ Len(w) = Len(q) - 1
          /\ \A i \in DOMAIN w :
               /\ i \in Nat
               /\ i < n => i \in DOMAIN q /\ w[i] = q[i]
               /\ i >= n => i + 1 \in DOMAIN q /\ w[i] = q[i + 1]
      BY <3>1, WithoutOf, WithoutIndexType
    <3>3. ASSUME NEW i \in DOMAIN w, NEW j \in DOMAIN w, w[i] = w[j] PROVE i = j
      <4> HIDE DEF w
      <4>1. /\ i \in Nat /\ j \in Nat /\ n \in Nat
            /\ \A k, m \in DOMAIN q : q[k] = q[m] => k = m
        BY <3>1, <3>2 DEF Proper
      <4>2. CASE i < n /\ j < n
        BY <3>2, <3>3, <4>1, <4>2
      <4>3. CASE i >= n /\ j >= n
        <5>1. i + 1 = j + 1
          BY <3>2, <3>3, <4>1, <4>3
        <5> QED BY <4>1, <5>1
      <4>4. CASE i < n /\ j >= n
        <5>1. i = j + 1
          BY <3>2, <3>3, <4>1, <4>4
        <5> QED BY <4>1, <4>4, <5>1
      <4>5. CASE i >= n /\ j < n
        <5>1. i + 1 = j
          BY <3>2, <3>3, <4>1, <4>5
        <5> QED BY <4>1, <4>5, <5>1
      <4> QED BY <4>1, <4>2, <4>3, <4>4, <4>5
    <3>4. Len(w) <= MaxLocos
      BY <3>1, <3>2, DomainAssumption DEF Proper
    <3> QED BY <3>3, <3>4 DEF Proper
  <2> HIDE DEF e
  <2>5. Proper(Consist(e, t))
    BY <1>1, <2>1, <2>2, <2>3, <2>4
  <2>6. \A u \in Throttle \ {t} : Proper(Consist(e, u))
    BY <1>1, <2>2
  <2> QED BY <2>5, <2>6 DEF Trains, e
<1>4. CASE ev.op = "Speed"
  <2>1. SameTrains(d, e)
    BY <1>4 DEF ApplyEvent, OnSpeedEcho, SameTrains, Consist, Domain, Slot
  <2> QED BY <1>1, <2>1 DEF SameTrains, Trains
<1> QED BY <1>2, <1>3, <1>4 DEF Event

Came(t, l, ev) == ev.op = "AddressAdded" /\ ev.throttle = t /\ ev.loco = l

Gone(t, l, ev) == ev.op = "AddressRemoved" /\ ev.throttle = t /\ ev.loco \in {l, None}

\* Throttle t holds l after the events of q; held says whether it did before.
Will(t, l, held, q) ==
  \/ \E i \in DOMAIN q : /\ Came(t, l, q[i])
                         /\ \A j \in DOMAIN q : j > i => ~Gone(t, l, q[j])
  \/ held /\ \A j \in DOMAIN q : ~Gone(t, l, q[j])

LEMMA WillHead ==
  ASSUME NEW q \in Seq(Event), q # <<>>, NEW t, NEW l, NEW held \in BOOLEAN, NEW next \in BOOLEAN,
         next <=> (held \/ Came(t, l, Head(q))) /\ ~Gone(t, l, Head(q))
  PROVE  Will(t, l, next, Tail(q)) <=> Will(t, l, held, q)
<1> DEFINE r == Tail(q)
<1>1. /\ r \in Seq(Event) /\ 1 \in DOMAIN q /\ Head(q) = q[1]
      /\ \A i \in DOMAIN r : i + 1 \in DOMAIN q /\ r[i] = q[i + 1]
      /\ \A i \in DOMAIN q : i > 1 => i - 1 \in DOMAIN r /\ r[i - 1] = q[i]
      /\ DOMAIN q \subseteq Nat \ {0} /\ DOMAIN r \subseteq Nat \ {0}
  BY TailOf
<1> HIDE DEF r
<1>2. ~(Came(t, l, q[1]) /\ Gone(t, l, q[1]))
  BY DEF Came, Gone
<1>3. ASSUME Will(t, l, next, r) PROVE Will(t, l, held, q)
  <2>1. CASE next /\ \A j \in DOMAIN r : ~Gone(t, l, r[j])
    <3>1. \A j \in DOMAIN q : j > 1 => ~Gone(t, l, q[j])
      BY <1>1, <2>1
    <3>2. \A j \in DOMAIN q : j = 1 \/ j > 1
      BY <1>1
    <3>3. CASE Came(t, l, q[1])
      BY <1>1, <3>1, <3>3 DEF Will
    <3>4. CASE ~Came(t, l, q[1])
      <4>1. held /\ \A j \in DOMAIN q : ~Gone(t, l, q[j])
        BY <1>1, <2>1, <3>1, <3>2, <3>4
      <4> QED BY <4>1 DEF Will
    <3> QED BY <3>3, <3>4
  <2>2. ASSUME NEW i \in DOMAIN r, Came(t, l, r[i]),
               \A j \in DOMAIN r : j > i => ~Gone(t, l, r[j])
        PROVE  Will(t, l, held, q)
    <3>1. i + 1 \in DOMAIN q /\ Came(t, l, q[i + 1]) /\ i \in Nat \ {0}
      BY <1>1, <2>2
    <3>2. ASSUME NEW j \in DOMAIN q, j > i + 1 PROVE ~Gone(t, l, q[j])
      <4>1. j \in Nat /\ j > 1 /\ j - 1 > i
        BY <1>1, <3>1, <3>2
      <4> QED BY <1>1, <2>2, <4>1
    <3> QED BY <3>1, <3>2 DEF Will
  <2> QED BY <1>3, <2>1, <2>2 DEF Will
<1>4. ASSUME Will(t, l, held, q) PROVE Will(t, l, next, r)
  <2>1. CASE held /\ \A j \in DOMAIN q : ~Gone(t, l, q[j])
    <3>1. next
      BY <1>1, <2>1
    <3>2. \A j \in DOMAIN r : ~Gone(t, l, r[j])
      BY <1>1, <2>1
    <3> QED BY <3>1, <3>2 DEF Will
  <2>2. ASSUME NEW i \in DOMAIN q, Came(t, l, q[i]),
               \A j \in DOMAIN q : j > i => ~Gone(t, l, q[j])
        PROVE  Will(t, l, next, r)
    <3>1. ASSUME NEW j \in DOMAIN r, j + 1 > i PROVE ~Gone(t, l, r[j])
      BY <1>1, <2>2, <3>1
    <3>2. CASE i = 1
      <4>1. next
        BY <1>1, <1>2, <2>2, <3>2
      <4>2. \A j \in DOMAIN r : j + 1 > i
        BY <1>1, <3>2
      <4> QED BY <3>1, <4>1, <4>2 DEF Will
    <3>3. CASE i # 1
      <4>1. i \in Nat /\ i > 1 /\ i - 1 \in DOMAIN r /\ Came(t, l, r[i - 1])
        BY <1>1, <2>2, <3>3
      <4>2. \A j \in DOMAIN r : j > i - 1 => j + 1 > i
        BY <1>1, <4>1
      <4> QED BY <3>1, <4>1, <4>2 DEF Will
    <3> QED BY <3>2, <3>3
  <2> QED BY <1>4, <2>1, <2>2 DEF Will
<1> QED BY <1>3, <1>4 DEF r

\* More events: some loco comes or goes, or nothing is said of it.
LEMMA WillJoined ==
  ASSUME NEW q \in Seq(Event), NEW r \in Seq(Event), NEW t, NEW l, NEW held
  PROVE  /\ (\A i \in DOMAIN r : ~Gone(t, l, r[i])) /\ (\E i \in DOMAIN r : Came(t, l, r[i]))
              => Will(t, l, held, q \o r)
         /\ (\E i \in DOMAIN r : Gone(t, l, r[i])) /\ (\A i \in DOMAIN r : ~Came(t, l, r[i]))
              => ~Will(t, l, held, q \o r)
         /\ (\A i \in DOMAIN r : ~Gone(t, l, r[i]) /\ ~Came(t, l, r[i]))
              => (Will(t, l, held, q \o r) <=> Will(t, l, held, q))
<1> DEFINE s == q \o r
<1>1. /\ s \in Seq(Event) /\ Len(q) \in Nat /\ DOMAIN q = 1..Len(q) /\ DOMAIN r = 1..Len(r)
      /\ DOMAIN s = 1..(Len(q) + Len(r)) /\ Len(r) \in Nat
      /\ \A i \in DOMAIN q : i \in DOMAIN s /\ s[i] = q[i]
      /\ \A i \in DOMAIN r : Len(q) + i \in DOMAIN s /\ s[Len(q) + i] = r[i]
  BY Joined
<1>2. \A i \in DOMAIN s : \/ i \in DOMAIN q /\ s[i] = q[i]
                          \/ \E k \in DOMAIN r : i = Len(q) + k /\ s[i] = r[k]
  BY JoinedFrom
<1> DEFINE n == Len(q)
<1>3. n \in Nat /\ \A i \in DOMAIN q : i \in Nat /\ i <= n
  BY <1>1
<1>4. \A i \in DOMAIN r : i \in Nat /\ i > 0 /\ n + i \in DOMAIN s /\ s[n + i] = r[i]
  BY <1>1
<1>5. \A i \in DOMAIN s : \/ i \in DOMAIN q /\ s[i] = q[i]
                          \/ \E k \in DOMAIN r : i = n + k /\ s[i] = r[k]
  BY <1>2
<1>6. \A i \in DOMAIN q : i \in DOMAIN s /\ s[i] = q[i]
  BY <1>1
<1> HIDE DEF n, s
<1>7. ASSUME \A i \in DOMAIN r : ~Gone(t, l, r[i]), NEW k \in DOMAIN r, Came(t, l, r[k])
      PROVE  Will(t, l, held, s)
  <2>1. ASSUME NEW j \in DOMAIN s, j > n + k PROVE ~Gone(t, l, s[j])
    <3>1. j \notin DOMAIN q
      BY <1>3, <1>4, <2>1
    <3> QED BY <1>5, <1>7, <3>1
  <2> QED BY <1>4, <1>7, <2>1 DEF Will
<1>8. ASSUME \A i \in DOMAIN r : ~Came(t, l, r[i]), NEW k \in DOMAIN r, Gone(t, l, r[k])
      PROVE  ~Will(t, l, held, s)
  <2>1. n + k \in DOMAIN s /\ Gone(t, l, s[n + k])
    BY <1>4, <1>8
  <2>2. ASSUME NEW i \in DOMAIN s, Came(t, l, s[i]) PROVE n + k > i
    <3>1. i \in DOMAIN q
      BY <1>5, <1>8, <2>2
    <3> QED BY <1>3, <1>4, <3>1
  <2> QED BY <2>1, <2>2 DEF Will
<1>9. ASSUME \A i \in DOMAIN r : ~Gone(t, l, r[i]) /\ ~Came(t, l, r[i])
      PROVE  Will(t, l, held, s) <=> Will(t, l, held, q)
  <2>1. \A j \in DOMAIN s : Gone(t, l, s[j]) => j \in DOMAIN q /\ Gone(t, l, q[j])
    BY <1>5, <1>9
  <2>2. \A j \in DOMAIN s : Came(t, l, s[j]) => j \in DOMAIN q /\ Came(t, l, q[j])
    BY <1>5, <1>9
  <2> QED BY <1>6, <2>1, <2>2 DEF Will
<1> QED BY <1>7, <1>8, <1>9 DEF s

LEMMA WithoutHolds ==
  ASSUME NEW q \in Seq(Locos), Proper(q), NEW n \in 1..Len(q), NEW l
  PROVE  (\E i \in DOMAIN WithoutIndex(q, n) : WithoutIndex(q, n)[i] = l)
           <=> (\E i \in DOMAIN q : q[i] = l) /\ l # q[n]
<1> DEFINE w == WithoutIndex(q, n)
<1>1. /\ \A i \in DOMAIN w :
           /\ i \in Nat
           /\ i < n => i \in DOMAIN q /\ w[i] = q[i]
           /\ i >= n => i + 1 \in DOMAIN q /\ w[i] = q[i + 1]
      /\ \A i \in DOMAIN q :
           /\ i \in Nat
           /\ i < n => i \in DOMAIN w /\ w[i] = q[i]
           /\ i > n => i - 1 \in DOMAIN w /\ w[i - 1] = q[i]
  BY WithoutOf
<1>2. n \in DOMAIN q /\ n \in Nat /\ \A i, j \in DOMAIN q : q[i] = q[j] => i = j
  BY DEF Proper
<1> HIDE DEF w
<1>3. ASSUME NEW i \in DOMAIN w, w[i] = l PROVE (\E k \in DOMAIN q : q[k] = l) /\ l # q[n]
  <2>1. CASE i < n
    BY <1>1, <1>2, <1>3, <2>1
  <2>2. CASE i >= n
    <3>1. i + 1 # n /\ i + 1 \in DOMAIN q /\ q[i + 1] = l
      BY <1>1, <1>2, <1>3, <2>2
    <3> QED BY <1>2, <3>1
  <2> QED BY <1>1, <1>2, <2>1, <2>2
<1>4. ASSUME NEW i \in DOMAIN q, q[i] = l, l # q[n] PROVE \E k \in DOMAIN w : w[k] = l
  <2>1. i \in Nat /\ (i < n \/ i > n)
    BY <1>1, <1>2, <1>4
  <2> QED BY <1>1, <1>4, <2>1
<1> QED BY <1>3, <1>4 DEF w

\* The effect of a report on what the handset holds.
LEMMA EventHolds ==
  ASSUME NEW d \in Domain, Trains(d), NEW ev \in Event, NEW t \in Throttle, NEW l \in Locos,
         ev.op = "AddressAdded" =>
           Holds(d.throttles[ev.throttle], ev.loco) \/ Len(Consist(d, ev.throttle)) < MaxLocos
  PROVE  Holds(ApplyEvent(d, ev).throttles[t], l)
           <=> (Holds(d.throttles[t], l) \/ Came(t, l, ev)) /\ ~Gone(t, l, ev)
<1> DEFINE e == ApplyEvent(d, ev)
           q == Consist(d, t)
           On(s) == \E i \in DOMAIN s : s[i] = l
<1>1. q \in Seq(Locos) /\ Proper(q) /\ l # None
  BY NoneAssumption DEF Domain, Slot, Consist, Trains
<1>2. (Holds(d.throttles[t], l) <=> On(q)) /\ (Holds(e.throttles[t], l) <=> On(Consist(e, t)))
  <2> HIDE DEF e
  <2> QED BY DEF Holds, Consist
<1>3. ~(Came(t, l, ev) /\ Gone(t, l, ev))
  BY DEF Came, Gone
<1> SUFFICES On(Consist(e, t)) <=> (On(q) \/ Came(t, l, ev)) /\ ~Gone(t, l, ev)
  BY <1>2
<1>4. CASE ev.op = "AddressAdded"
  <2> DEFINE u == ev.throttle
             m == ev.loco
  <2>1. u \in Throttle /\ m \in Locos /\ e = OnAddressAdded(d, u, m)
    BY <1>4 DEF Event, ApplyEvent
  <2> HIDE DEF u, m, e
  <2>2. Consist(e, t) = IF t = u /\ ~Holds(d.throttles[u], m) /\ Len(Consist(d, u)) < MaxLocos
                          THEN Append(Consist(d, u), m) ELSE q
    BY <2>1, AddedConsist
  <2>3. ~Gone(t, l, ev) /\ (Came(t, l, ev) <=> t = u /\ l = m)
    BY <1>4 DEF Came, Gone, u, m
  <2>4. CASE t = u /\ ~Holds(d.throttles[u], m)
    <3>1. Consist(e, t) = Append(q, m)
      BY <1>4, <2>2, <2>4 DEF u, m
    <3>2. /\ DOMAIN Append(q, m) = 1..(Len(q) + 1) /\ DOMAIN q = 1..Len(q) /\ Len(q) \in Nat
          /\ \A i \in 1..Len(q) : Append(q, m)[i] = q[i]
          /\ Append(q, m)[Len(q) + 1] = m
      BY <1>1, <2>1, AppendProperties
    <3> DEFINE n == Len(q)
    <3> HIDE DEF n, q
    <3>3. n + 1 \in 1..(n + 1) /\ \A i \in 1..(n + 1) : i \in 1..n \/ i = n + 1
      BY <3>2 DEF n
    <3>4. \A i \in 1..n : i \in 1..(n + 1)
      BY <3>2 DEF n
    <3>5. On(Append(q, m)) <=> On(q) \/ l = m
      BY <3>2, <3>3, <3>4 DEF n
    <3> QED BY <2>3, <2>4, <3>1, <3>5
  <2>5. CASE t = u /\ Holds(d.throttles[u], m)
    <3>1. l = m => On(q)
      BY <1>2, <2>5
    <3> QED BY <2>2, <2>3, <2>5, <3>1
  <2>6. CASE t # u
    BY <2>2, <2>3, <2>6
  <2> QED BY <2>4, <2>5, <2>6
<1>5. CASE ev.op = "AddressRemoved"
  <2> DEFINE u == ev.throttle
             m == ev.loco
  <2>1. u \in Throttle /\ m \in Locos \cup {None} /\ e = OnAddressRemoved(d, u, m)
    BY <1>5 DEF Event, ApplyEvent
  <2> HIDE DEF u, m, e
  <2>2. ~Came(t, l, ev) /\ (Gone(t, l, ev) <=> t = u /\ m \in {l, None})
    BY <1>5 DEF Came, Gone, u, m
  <2>3. CASE t # u
    <3>1. Consist(e, t) = q
      BY <2>1, <2>3, RemovedConsist
    <3> QED BY <2>2, <2>3, <3>1
  <2>4. CASE t = u
    <3>1. \/ m = None /\ Consist(e, t) = <<>>
          \/ m # None /\ ~Holds(d.throttles[t], m) /\ Consist(e, t) = q
          \/ /\ m # None
             /\ \E n \in 1..Len(q) : q[n] = m /\ Consist(e, t) = WithoutIndex(q, n)
      BY <2>1, <2>4, RemovedConsist
    <3>2. CASE m = None /\ Consist(e, t) = <<>>
      BY <2>2, <2>4, <3>2
    <3>3. CASE m # None /\ ~Holds(d.throttles[t], m) /\ Consist(e, t) = q
      <4>1. l = m => ~On(q)
        BY <1>2, <3>3
      <4> QED BY <2>2, <2>4, <3>3, <4>1
    <3>4. CASE m # None /\ \E n \in 1..Len(q) : q[n] = m /\ Consist(e, t) = WithoutIndex(q, n)
      <4>1. PICK n \in 1..Len(q) : q[n] = m /\ Consist(e, t) = WithoutIndex(q, n)
        BY <3>4
      <4> HIDE DEF q
      <4>2. On(WithoutIndex(q, n)) <=> On(q) /\ l # m
        BY <1>1, <4>1, WithoutHolds
      <4> QED BY <2>2, <2>4, <3>4, <4>1, <4>2
    <3> QED BY <3>1, <3>2, <3>3, <3>4
  <2> QED BY <2>3, <2>4
<1>6. CASE ev.op = "Speed"
  <2>1. Consist(e, t) = q
    BY <1>6 DEF ApplyEvent, OnSpeedEcho, Consist, Domain, Slot
  <2>2. ~Came(t, l, ev) /\ ~Gone(t, l, ev)
    BY <1>6 DEF Came, Gone
  <2> QED BY <2>1, <2>2
<1> QED BY <1>4, <1>5, <1>6 DEF Event
=============================================================================
