----------------------- MODULE ThrottleControl_proof -----------------------
(***************************************************************************)
(* Proofs about ThrottleControl: its types, that a stop is final, that what *)
(* the operator asked for arrives, and that the handset and the station    *)
(* end up with the same consists, in this order and each from the ones     *)
(* before it.                                                              *)
(***************************************************************************)
EXTENDS ThrottleControl, DomainState_proof, FiniteSetTheorems

LEMMA IterationType ==
  ASSUME TypeOK, NEW d \in Domain, Iteration(d)
  PROVE  /\ state' \in Domain
         /\ cmds' \in Seq(Command) /\ Len(cmds') <= Depth
         /\ served' \in [Throttle -> SUBSET Locos]
         /\ locoSpeed' \in [Locos -> Speed]
BY FlushPendingSpeedType DEF Iteration, TypeOK

LEMMA AskedType ==
  ASSUME TypeOK, NEW t \in Throttle, NEW s \in Speed
  PROVE  Asked(t, s) \in Intent
<1>1. intent \in Intent
  BY DEF TypeOK
<1> QED BY <1>1 DEF Asked, Intent

LEMMA ForgottenType ==
  ASSUME TypeOK, NEW S
  PROVE  Forgotten(S) \in Intent
<1>1. intent \in Intent
  BY DEF TypeOK
<1> QED BY <1>1 DEF Forgotten, Intent

\* What is left to show of an input: the buffer's owner and the history.
LEMMA InputType ==
  ASSUME TypeOK, NEW name, Input(name), NEW d \in Domain, Iteration(d), intent' \in Intent
  PROVE  TypeOK'
<1>1. ops' \in Nat /\ events' \in Seq(Event)
  BY DEF Input, TypeOK
<1> QED BY <1>1, IterationType DEF TypeOK

LEMMA UserType ==
  ASSUME TypeOK, User
  PROVE  TypeOK'
<1>1. state \in Domain /\ cur \in Throttle /\ intent \in Intent
  BY CurrentSlot DEF TypeOK, cur
<1>2. 0 \in Speed /\ Speed \in SUBSET Nat
  BY DomainAssumption DEF Speed
<1>3. ASSUME NEW s \in Speed, UserSpeedSet(s) PROVE TypeOK'
  <2>1. SpeedSet(state, s) \in Domain
    BY <1>1, <1>2, SpeedSetType
  <2>2. intent' \in Intent
    BY <1>1, <1>3, AskedType DEF UserSpeedSet
  <2> QED BY <1>3, <2>1, <2>2, InputType DEF UserSpeedSet
<1>4. ASSUME NEW fast \in BOOLEAN, UserSpeedUp(fast) PROVE TypeOK'
  <2>1. SpeedUp(state, fast) \in Domain
    BY <1>1, SpeedUpType
  <2>2. SpeedUp(state, fast).throttles[cur].speed \in Speed
    BY <1>1, <2>1 DEF Domain, Slot
  <2>3. intent' \in Intent
    BY <1>1, <1>4, <2>2, AskedType DEF UserSpeedUp
  <2> QED BY <1>4, <2>1, <2>3, InputType DEF UserSpeedUp
<1>5. ASSUME NEW fast \in BOOLEAN, UserSpeedDown(fast) PROVE TypeOK'
  <2>1. SpeedDown(state, fast) \in Domain
    BY <1>1, SpeedDownType
  <2>2. SpeedDown(state, fast).throttles[cur].speed \in Speed
    BY <1>1, <2>1 DEF Domain, Slot
  <2>3. intent' \in Intent
    BY <1>1, <1>5, <2>2, AskedType DEF UserSpeedDown
  <2> QED BY <1>5, <2>1, <2>3, InputType DEF UserSpeedDown
<1>6. ASSUME UserMultiplier PROVE TypeOK'
  <2>1. CycleSpeedMultiplier(state) \in Domain
    BY <1>1, CycleSpeedMultiplierType
  <2> QED BY <1>1, <1>6, <2>1, InputType DEF UserMultiplier
<1>7. ASSUME UserStopThenToggle PROVE TypeOK'
  <2>1. StopThenToggleDirection(state) \in Domain
    BY <1>1, StopThenToggleDirectionType
  <2>2. intent' \in Intent
    BY <1>1, <1>2, <1>7, AskedType DEF UserStopThenToggle
  <2> QED BY <1>7, <2>1, <2>2, InputType DEF UserStopThenToggle
<1>8. ASSUME NEW dir \in Direction, UserDirection(dir) PROVE TypeOK'
  <2>1. ChangeDirection(state, cur, dir) \in Domain
    BY <1>1, ChangeDirectionType
  <2> QED BY <1>1, <1>8, <2>1, InputType DEF UserDirection
<1>9. ASSUME NEW f \in Functions, UserFunction(f) PROVE TypeOK'
  <2>1. ToggleFunction(state, f) \in Domain
    BY <1>1, ToggleFunctionType
  <2> QED BY <1>1, <1>9, <2>1, InputType DEF UserFunction
<1>10. ASSUME UserPower PROVE TypeOK'
  <2>1. PowerToggle(state) \in Domain
    BY <1>1, PowerToggleType
  <2> QED BY <1>1, <1>10, <2>1, InputType DEF UserPower
<1>11. ASSUME UserEStop PROVE TypeOK'
  <2>1. PICK order \in Orders : Iteration(EStopAll(state, order))
    BY <1>11 DEF UserEStop
  <2>2. EStopAll(state, order) \in Domain
    BY <1>1, OrdersType, EStopAllType
  <2>3. Stopped(state) \in SUBSET Throttle
    BY <1>1, DomainAssumption DEF Stopped, InUse, Throttle, Domain
  <2>4. intent' \in Intent
    BY <1>1, <1>2, <1>11, <2>3 DEF UserEStop, Intent
  <2> QED BY <1>11, <2>1, <2>2, <2>4, InputType DEF UserEStop
<1>12. ASSUME UserEStopCurrent PROVE TypeOK'
  <2>1. EStopCurrent(state) \in Domain
    BY <1>1, EStopCurrentType
  <2>2. intent' \in Intent
    BY <1>1, <1>2, <1>12, AskedType DEF UserEStopCurrent
  <2> QED BY <1>12, <2>1, <2>2, InputType DEF UserEStopCurrent
<1>13. ASSUME UserNextThrottle PROVE TypeOK'
  <2>1. NextThrottle(state) \in Domain
    BY <1>1, NextThrottleType
  <2> QED BY <1>1, <1>13, <2>1, InputType DEF UserNextThrottle
<1>14. ASSUME NEW t \in Throttle, UserThrottle(t) PROVE TypeOK'
  <2>1. SelectThrottle(state, t) \in Domain
    BY <1>1, SelectThrottleType
  <2> QED BY <1>1, <1>14, <2>1, InputType DEF UserThrottle
<1>15. ASSUME NEW n \in 1..MaxThrottles, UserMaxThrottles(n) PROVE TypeOK'
  <2>1. PICK order \in Orders : Iteration(SetMaxThrottles(state, n, order))
    BY <1>15 DEF UserMaxThrottles
  <2>2. SetMaxThrottles(state, n, order) \in Domain
    BY <1>1, OrdersType, SetMaxThrottlesType
  <2>3. intent' \in Intent
    BY <1>15, ForgottenType DEF UserMaxThrottles
  <2> QED BY <1>15, <2>1, <2>2, <2>3, InputType DEF UserMaxThrottles
<1>16. ASSUME NEW l \in Locos, NEW spdt \in Direction, UserAcquire(l, spdt) PROVE TypeOK'
  <2>1. AcquireFromUi(state, l, spdt) \in Domain
    BY <1>1, AcquireFromUiType
  <2>2. intent' \in Intent
    BY <1>16, ForgottenType DEF UserAcquire
  <2> QED BY <1>16, <2>1, <2>2, InputType DEF UserAcquire
<1>17. ASSUME UserRelease PROVE TypeOK'
  <2>1. ReleaseAll(state) \in Domain
    BY <1>1, ReleaseType DEF ReleaseAll, cur
  <2>2. intent' \in Intent
    BY <1>17, ForgottenType DEF UserRelease
  <2> QED BY <1>17, <2>1, <2>2, InputType DEF UserRelease
<1> QED
  BY <1>3, <1>4, <1>5, <1>6, <1>7, <1>8, <1>9, <1>10, <1>11, <1>12, <1>13,
     <1>14, <1>15, <1>16, <1>17 DEF User

LEMMA DomainEventType ==
  ASSUME TypeOK, DomainEvent
  PROVE  TypeOK'
<1>1. Head(events) \in Event /\ Tail(events) \in Seq(Event)
  BY DEF DomainEvent, TypeOK
<1>2. ApplyEvent(state, Head(events)) \in Domain
  BY <1>1, ApplyEventType DEF TypeOK
<1>3. intent' \in Intent
  BY DEF DomainEvent, TypeOK, Intent
<1> QED BY <1>1, <1>2, <1>3, IterationType DEF DomainEvent, TypeOK

LEMMA FlushType ==
  ASSUME TypeOK, Flush
  PROVE  TypeOK'
<1>1. state \in Domain /\ state.out \in Seq(Command) /\ intent \in Intent
  BY DEF TypeOK, Domain
<1>2. ASSUME FlushSend PROVE TypeOK'
  <2>1. Head(state.out) \in Command /\ Tail(state.out) \in Seq(Command)
    BY <1>1, <1>2 DEF FlushSend
  <2>2. state' \in Domain
    BY <1>1, <1>2, <2>1 DEF FlushSend, Domain
  <2>3. cmds' \in Seq(Command) /\ Len(cmds') <= Depth
    BY <1>2, <2>1, ControlAssumption DEF FlushSend, Room, TypeOK
  <2> QED BY <1>2, <2>2, <2>3 DEF FlushSend, TypeOK
<1>3. ASSUME NEW i \in 1..Len(state.out), Lost(i) PROVE TypeOK'
  <2>1. WithoutIndex(state.out, i) \in Seq(Command)
    BY <1>1, WithoutIndexType
  <2>2. state' \in Domain
    BY <1>1, <1>3, <2>1 DEF Lost, Domain
  <2>3. intent' \in Intent
    <3>1. ASSUME NEW S PROVE [Forgotten(S) EXCEPT !.halted = Forgotten(S).halted \ S,
                                                  !.lossless = FALSE] \in Intent
      <4>1. Forgotten(S) \in Intent
        BY ForgottenType
      <4> QED BY <4>1 DEF Intent
    <3> QED BY <1>3, <3>1 DEF Lost
  <2> QED BY <1>3, <2>2, <2>3 DEF Lost, TypeOK
<1>4. ASSUME DropStaleSpeed PROVE TypeOK'
  <2>1. PICK i \in DOMAIN state.out : Lost(i)
    BY <1>4 DEF DropStaleSpeed
  <2> QED BY <1>1, <1>3, <2>1
<1>5. ASSUME DropHead PROVE TypeOK'
  <2>1. 1 \in 1..Len(state.out)
    BY <1>1, <1>5 DEF DropHead
  <2> QED BY <1>3, <1>5, <2>1 DEF DropHead
<1> QED BY <1>2, <1>4, <1>5 DEF Flush

LEMMA EmitType ==
  ASSUME TypeOK, NEW evs \in Seq(Event), NEW wish \in Intent, Emit(evs, wish)
  PROVE  events' \in Seq(Event) /\ intent' \in Intent
<1>1. events \o evs \in Seq(Event) /\ Len(events \o evs) = Len(events) + Len(evs)
  BY ConcatProperties DEF TypeOK
<1>2. AtMost(Len(events) + Len(evs), EventsDepth) \in Nat
      /\ AtMost(Len(events) + Len(evs), EventsDepth) <= Len(events \o evs)
  BY <1>1, ControlAssumption DEF AtMost, TypeOK
<1>3. SubSeq(events \o evs, 1, AtMost(Len(events) + Len(evs), EventsDepth)) \in Seq(Event)
  BY <1>1, <1>2
<1>4. wish.lossless \in BOOLEAN
  BY DEF Intent
<1> QED BY <1>3, <1>4 DEF Emit, Intent

LEMMA RemovedOrdersType ==
  ASSUME NEW t \in Throttle, NEW S \in SUBSET Locos, NEW q \in RemovedOrders(t, S)
  PROVE  q \in Seq(Event)
<1>1. CASE q = StarRemoved(t)
  <2>1. [op |-> "AddressRemoved", throttle |-> t, loco |-> None] \in Event
    BY DEF Event
  <2>2. <<[op |-> "AddressRemoved", throttle |-> t, loco |-> None]>> \in Seq(Event)
    BY <2>1, OneEvent
  <2> QED BY <1>1, <2>2 DEF StarRemoved
<1>2. CASE q \in EachRemoved(t, S)
  <2>1. q \in [1..Cardinality(S) -> [op : {"AddressRemoved"}, throttle : {t}, loco : S]]
    BY <1>2 DEF EachRemoved
  <2>2. [op : {"AddressRemoved"}, throttle : {t}, loco : S] \in SUBSET Event
    BY DEF Event
  <2>3. Cardinality(S) \in Nat
    BY ControlAssumption, FS_Subset, FS_CardinalityType
  <2> QED BY <2>1, <2>2, <2>3
<1>3. CASE q = <<>>
  BY <1>3, ReportsType
<1> QED BY <1>1, <1>2, <1>3 DEF RemovedOrders

LEMMA SessionType ==
  ASSUME TypeOK, SessionForward
  PROVE  TypeOK'
<1> DEFINE c == Head(cmds)
<1>1. c \in Command /\ cmds' \in Seq(Command) /\ Len(cmds') <= Depth
  <2>1. cmds \in Seq(Command) /\ cmds # <<>> /\ Len(cmds) <= Depth
    BY DEF TypeOK, SessionForward
  <2>2. Head(cmds) \in Command /\ Tail(cmds) \in Seq(Command) /\ Len(Tail(cmds)) = Len(cmds) - 1
    BY <2>1
  <2>3. cmds' = Tail(cmds)
    BY DEF SessionForward
  <2> QED BY <2>1, <2>2, <2>3, ControlAssumption
<1>2. UNCHANGED <<state, ops>>
  BY DEF SessionForward
<1>3. served \in [Throttle -> SUBSET Locos] /\ locoSpeed \in [Locos -> Speed] /\ intent \in Intent
  BY DEF TypeOK
<1> HIDE DEF c
<1>4. ASSUME StationAdd(c) PROVE TypeOK'
  <2>1. c.throttle \in Throttle /\ c.loco \in Locos
    BY <1>1, <1>4 DEF StationAdd, Command
  <2> DEFINE a == Report("slot", <<[op |-> "AddressAdded", throttle |-> c.throttle,
                                    loco |-> c.loco]>>)
             b == Report("speed", <<[op |-> "Speed", throttle |-> c.throttle,
                                     speed |-> locoSpeed[c.loco]]>>)
  <2>2. a \in Seq(Event) /\ b \in Seq(Event)
    BY <1>3, <2>1, ReportsType DEF Report
  <2>3. a \o b \in Seq(Event)
    <3> HIDE DEF a, b
    <3> QED BY <2>2, ConcatProperties
  <2>4. events' \in Seq(Event) /\ intent' \in Intent
    BY <1>3, <1>4, <2>3, EmitType DEF StationAdd
  <2>5. served' \in [Throttle -> SUBSET Locos]
    BY <1>3, <1>4, <2>1 DEF StationAdd
  <2>6. locoSpeed' = locoSpeed
    BY <1>4 DEF StationAdd
  <2> QED BY <1>1, <1>2, <2>4, <2>5, <2>6 DEF TypeOK
<1>5. ASSUME StationRelease(c) PROVE TypeOK'
  <2>1. c.throttle \in Throttle
    BY <1>1, <1>5 DEF StationRelease, Command
  <2>2. PICK q \in RemovedOrders(c.throttle, served[c.throttle]) : Emit(q, intent)
    BY <1>5 DEF StationRelease
  <2>3. q \in Seq(Event)
    BY <1>3, <2>1, RemovedOrdersType
  <2>4. events' \in Seq(Event) /\ intent' \in Intent
    BY <1>3, <2>2, <2>3, EmitType
  <2>5. served' \in [Throttle -> SUBSET Locos] /\ locoSpeed' = locoSpeed
    BY <1>3, <1>5 DEF StationRelease
  <2> QED BY <1>1, <1>2, <2>4, <2>5 DEF TypeOK
<1>6. ASSUME StationSpeed(c) PROVE TypeOK'
  <2> DEFINE s == IF c.op = "EStop" THEN 0 ELSE c.speed
             a == IF served[c.throttle] = {} THEN <<>>
                  ELSE Report("speed", <<[op |-> "Speed", throttle |-> c.throttle, speed |-> s]>>)
  <2>1. c.throttle \in Throttle /\ s \in Speed
    <3>1. 0 \in Speed
      BY DomainAssumption DEF Speed
    <3> QED BY <1>1, <1>6, <3>1 DEF StationSpeed, Command
  <2> HIDE DEF s
  <2>2. a \in Seq(Event)
    BY <2>1, ReportsType DEF Report
  <2>3. events' \in Seq(Event) /\ intent' \in Intent
    BY <1>6, <2>2, EmitType, ForgottenType DEF StationSpeed, s
  <2>4. locoSpeed' \in [Locos -> Speed]
    BY <1>3, <1>6, <2>1 DEF StationSpeed, s
  <2>5. served' = served
    BY <1>6 DEF StationSpeed
  <2> QED BY <1>1, <1>2, <2>3, <2>4, <2>5 DEF TypeOK
<1>7. ASSUME StationOther(c) PROVE TypeOK'
  BY <1>1, <1>2, <1>7 DEF StationOther, TypeOK
<1> QED BY <1>4, <1>5, <1>6, <1>7 DEF SessionForward, c

LEMMA ForeignSpeedType ==
  ASSUME TypeOK, NEW t \in Throttle, NEW l \in Locos, NEW s \in Speed, ForeignSpeed(t, l, s)
  PROVE  TypeOK'
<1>1. [op |-> "Speed", throttle |-> t, speed |-> s] \in Event
  BY DEF Event
<1>2. events' \in Seq(Event)
  <2>1. events \in Seq(Event)
    BY DEF TypeOK
  <2> QED BY <1>1, <2>1, AppendProperties DEF ForeignSpeed
<1>3. intent' \in Intent
  BY ForgottenType DEF ForeignSpeed
<1>4. locoSpeed' \in [Locos -> Speed] /\ ops' \in Nat
  BY DEF ForeignSpeed, TypeOK
<1> QED BY <1>2, <1>3, <1>4 DEF ForeignSpeed, TypeOK

LEMMA TimePassesType ==
  ASSUME TypeOK, TimePasses
  PROVE  TypeOK'
<1>1. state' \in Domain
  BY DEF TimePasses, TypeOK, Domain, SentAge
<1> QED BY <1>1 DEF TimePasses, TypeOK

LEMMA InitType == Init => TypeOK
<1> SUFFICES ASSUME Init PROVE TypeOK
  OBVIOUS
<1>1. state \in Domain
  BY NewType DEF Init
<1>2. 0 \in Speed
  BY DomainAssumption DEF Speed
<1>3. cmds \in Seq(Command) /\ Len(cmds) <= Depth /\ events \in Seq(Event)
  BY ControlAssumption DEF Init
<1>4. intent \in Intent
  BY DEF Init, Intent
<1> QED BY <1>1, <1>2, <1>3, <1>4 DEF Init, TypeOK

(* Whatever the operator, the session, the station and time do, the driving *)
(* state stays a DomainState: speeds at most MAX_SPEED, the current         *)
(* throttle and the coalesced one existing slots, the channel within its    *)
(* depth, and only well-formed commands and reports are queued.             *)
THEOREM TypeCorrect == Spec => []TypeOK
<1>1. TypeOK /\ [Next]_vars => TypeOK'
  <2> SUFFICES ASSUME TypeOK, [Next]_vars PROVE TypeOK'
    OBVIOUS
  <2>1. CASE User
    BY <2>1, UserType
  <2>2. CASE DomainEvent
    BY <2>2, DomainEventType
  <2>3. CASE DomainTick
    <3>1. state \in Domain
      BY DEF TypeOK
    <3> QED BY <2>3, <3>1, IterationType DEF DomainTick, TypeOK
  <2>4. CASE Flush
    BY <2>4, FlushType
  <2>5. CASE SessionForward
    BY <2>5, SessionType
  <2>6. CASE \E t \in Throttle, l \in Locos, s \in Speed : ForeignSpeed(t, l, s)
    BY <2>6, ForeignSpeedType
  <2>7. CASE TimePasses
    BY <2>7, TimePassesType
  <2>8. CASE UNCHANGED vars
    BY <2>8 DEF vars, TypeOK
  <2> QED BY <2>1, <2>2, <2>3, <2>4, <2>5, <2>6, <2>7, <2>8 DEF Next, Domain_
<1> QED BY InitType, <1>1, PTL DEF Spec

-----------------------------------------------------------------------------
(* A stop is final.  Every operation of the domain starts from an empty    *)
(* buffer, so what has to be known of one is small: for the throttles H    *)
(* that are halted after it, it leaves no coalesced speed and pushes none  *)
(* (Calm), and a throttle it halts gets a stop while nothing stays coalesced *)
(* (HasStop).                                                              *)

\* StopIsFinal, in the vocabulary of this module.
Final ==
  /\ state.pending_speed # None => state.pending_speed.throttle \notin intent.halted
  /\ \A t \in intent.halted : Safe(t, Pipeline)

LEMMA FinalIsStopIsFinal == Final <=> StopIsFinal
BY DEF Final, StopIsFinal, Safe

\* What an iteration has to do for the throttles halted after it.
LEMMA IterationFinal ==
  ASSUME TypeOK, Final, NEW d \in Domain, Iteration(d),
         intent'.halted \in SUBSET Throttle, Calm(intent'.halted, d),
         \A t \in intent'.halted : \/ t \in intent.halted
                                   \/ d.pending_speed = None /\ HasStop(t, d.out)
  PROVE  Final'
<1> DEFINE H == intent'.halted
           e == FlushPendingSpeed(d)
<1>1. state.out = <<>> /\ state' = e /\ cmds' = cmds /\ cmds \in Seq(Command)
  BY DEF Iteration, TypeOK
<1>2. e \in Domain /\ Calm(H, e)
  BY FlushPendingSpeedType, FlushPendingSpeedCalm
<1>3. Pipeline = cmds
  BY <1>1 DEF Pipeline
<1>4. ASSUME NEW t \in H PROVE Safe(t, cmds \o e.out)
  <2>1. e.out \in Seq(Command) /\ Quiet({t}, e.out)
    BY <1>2 DEF Domain, Calm, Quiet
  <2>2. CASE t \in intent.halted
    <3>1. Safe(t, cmds)
      BY <1>3, <2>2 DEF Final
    <3> QED BY <1>1, <2>1, <3>1, SafeQuiet
  <2>3. CASE d.pending_speed = None /\ HasStop(t, d.out)
    <3>1. e = d
      BY <2>3 DEF FlushPendingSpeed
    <3> QED BY <1>1, <2>1, <2>3, <3>1, SafeStop
  <2> QED BY <2>2, <2>3
<1>5. Pipeline' = cmds \o e.out
  BY <1>1 DEF Pipeline
<1> HIDE DEF e
<1> QED BY <1>1, <1>2, <1>4, <1>5 DEF Final, Calm

\* An iteration that halts nothing new.
LEMMA IterationQuiet ==
  ASSUME TypeOK, Final, NEW d \in Domain, Iteration(d),
         intent'.halted \in SUBSET intent.halted, Calm(intent.halted, d)
  PROVE  Final'
<1>1. intent.halted \in SUBSET Throttle
  BY DEF TypeOK, Intent
<1> QED BY <1>1, CalmLess, IterationFinal

\* The operator asks the current throttle for speed s.
LEMMA AskFinal ==
  ASSUME TypeOK, Final, NEW s \in Nat, Iteration(SpeedSet(state, s)),
         HasLoco(state, cur) => intent' = Asked(cur, AtMost(s, MaxSpeed)),
         ~HasLoco(state, cur) => intent' = intent
  PROVE  Final'
<1>1. /\ state \in Domain /\ state.out = <<>> /\ cur = state.current /\ cur \in Throttle
      /\ intent.halted \in SUBSET Throttle
  BY CurrentSlot DEF TypeOK, Intent, Iteration, cur
<1>2. Calm(intent.halted, state)
  BY <1>1 DEF Final, Calm, Quiet
<1>3. SpeedSet(state, s) \in Domain
  BY <1>1, SpeedSetType
<1>4. CASE ~HasLoco(state, cur)
  BY <1>1, <1>2, <1>3, <1>4, SpeedSetNothing, IterationQuiet
<1>5. CASE HasLoco(state, cur)
  <2>1. intent'.halted = IF s = 0 THEN intent.halted \cup {cur} ELSE intent.halted \ {cur}
    <3>1. AtMost(s, MaxSpeed) = 0 <=> s = 0
      BY DomainAssumption DEF AtMost
    <3>2. intent \in Intent
      BY DEF TypeOK
    <3> QED BY <1>5, <3>1, <3>2 DEF Asked, Intent
  <2>2. CASE s = 0
    <3>1. /\ Calm(intent'.halted, SpeedSet(state, s))
          /\ SpeedSet(state, s).pending_speed = None
          /\ HasStop(cur, SpeedSet(state, s).out)
      BY <1>1, <1>5, <2>2, SpeedSetStops
    <3> QED BY <1>1, <1>3, <2>1, <2>2, <3>1, IterationFinal
  <2>3. CASE s # 0
    <3>1. Calm(intent'.halted, state)
      BY <1>2, <2>1, <2>3, CalmLess
    <3>2. Calm(intent'.halted, SpeedSet(state, s))
      BY <1>1, <1>5, <2>1, <2>3, <3>1, SpeedSetCalm
    <3> QED BY <1>1, <1>3, <2>1, <2>3, <3>2, IterationFinal
  <2> QED BY <2>2, <2>3
<1> QED BY <1>4, <1>5

LEMMA UserFinal ==
  ASSUME TypeOK, Final, User
  PROVE  Final'
<1>1. /\ state \in Domain /\ cur = state.current /\ cur \in Throttle
      /\ intent.halted \in SUBSET Throttle
  BY CurrentSlot DEF TypeOK, Intent, cur
<1>2. 0 \in Nat /\ Speed \in SUBSET Nat /\ \A s \in Speed : AtMost(s, MaxSpeed) = s
  BY DomainAssumption DEF Speed, AtMost
<1>3. Calm(intent.halted, state) \/ state.out # <<>>
  BY DEF Final, Calm, Quiet
<1>4. ASSUME NEW d, Iteration(d) PROVE state.out = <<>> /\ Calm(intent.halted, state)
  BY <1>3, <1>4 DEF Iteration
<1>5. ASSUME NEW s \in Speed, UserSpeedSet(s) PROVE Final'
  BY <1>2, <1>5, AskFinal DEF UserSpeedSet
<1>6. ASSUME NEW fast \in BOOLEAN, UserSpeedUp(fast) PROVE Final'
  <2> DEFINE n == state.throttles[state.current].speed + EffectiveSpeedStep(state, fast)
  <2>1. n \in Nat
    BY <1>1, CurrentSlot, StepType, DomainAssumption DEF Slot, Speed
  <2>2. SpeedUp(state, fast) = SpeedSet(state, n)
    BY DEF SpeedUp
  <2> HIDE DEF n
  <2>3. HasLoco(state, cur) => SpeedUp(state, fast).throttles[cur].speed = AtMost(n, MaxSpeed)
    BY <1>1, <2>1, <2>2, SpeedSetShows
  <2> QED BY <1>6, <2>1, <2>2, <2>3, AskFinal DEF UserSpeedUp
<1>7. ASSUME NEW fast \in BOOLEAN, UserSpeedDown(fast) PROVE Final'
  <2> DEFINE v == state.throttles[state.current].speed
             step == EffectiveSpeedStep(state, fast)
             n == IF step >= v THEN 0 ELSE v - step
  <2>1. n \in Nat
    <3>1. v \in Nat /\ step \in Nat
      BY <1>1, CurrentSlot, StepType, DomainAssumption DEF Slot, Speed
    <3> QED BY <3>1
  <2>2. SpeedDown(state, fast) = SpeedSet(state, n)
    BY DEF SpeedDown
  <2> HIDE DEF n
  <2>3. HasLoco(state, cur) => SpeedDown(state, fast).throttles[cur].speed = AtMost(n, MaxSpeed)
    BY <1>1, <2>1, <2>2, SpeedSetShows
  <2> QED BY <1>7, <2>1, <2>2, <2>3, AskFinal DEF UserSpeedDown
<1>8. ASSUME UserMultiplier PROVE Final'
  <2> DEFINE d == CycleSpeedMultiplier(state)
  <2>1. d \in Domain
    BY <1>1, CycleSpeedMultiplierType
  <2>2. d.out = state.out /\ d.pending_speed = state.pending_speed
    BY <1>1 DEF CycleSpeedMultiplier, Domain
  <2>3. Iteration(d) /\ intent' = intent
    BY <1>8 DEF UserMultiplier
  <2> HIDE DEF d
  <2> QED BY <1>4, <2>1, <2>2, <2>3, CalmSame, IterationQuiet
<1>9. ASSUME UserStopThenToggle PROVE Final'
  <2>1. CASE state.throttles[cur].speed # 0
    <3>1. StopThenToggleDirection(state) = SpeedSet(state, 0) /\ 0 \in Speed
      BY <1>1, <2>1, DomainAssumption DEF StopThenToggleDirection, Speed
    <3> QED BY <1>2, <1>9, <2>1, <3>1, AskFinal DEF UserStopThenToggle
  <2>2. CASE state.throttles[cur].speed = 0
    <3> DEFINE dir == Opposite(state.throttles[cur].direction)
               d == ChangeDirection(state, cur, dir)
    <3>1. dir \in Direction
      BY <1>1, CurrentSlot, OppositeType DEF Slot
    <3>2. d \in Domain
      BY <1>1, <3>1, ChangeDirectionType
    <3>3. Iteration(d) /\ intent' = intent
      BY <1>1, <1>9, <2>2 DEF UserStopThenToggle, StopThenToggleDirection
    <3>4. Calm(intent.halted, d)
      BY <1>1, <1>4, <3>1, <3>3, ChangeDirectionCalm
    <3> QED BY <3>2, <3>3, <3>4, IterationQuiet
  <2> QED BY <2>1, <2>2
<1>10. ASSUME NEW dir \in Direction, UserDirection(dir) PROVE Final'
  <2>1. ChangeDirection(state, cur, dir) \in Domain
    BY <1>1, ChangeDirectionType
  <2>2. Iteration(ChangeDirection(state, cur, dir)) /\ intent' = intent
    BY <1>10 DEF UserDirection
  <2> QED BY <1>1, <1>4, <2>1, <2>2, ChangeDirectionCalm, IterationQuiet
<1>11. ASSUME NEW f \in Functions, UserFunction(f) PROVE Final'
  <2>1. ToggleFunction(state, f) \in Domain
    BY <1>1, ToggleFunctionType
  <2>2. Iteration(ToggleFunction(state, f)) /\ intent' = intent
    BY <1>11 DEF UserFunction
  <2> QED BY <1>1, <1>4, <2>1, <2>2, ToggleFunctionCalm, IterationQuiet
<1>12. ASSUME UserPower PROVE Final'
  <2>1. PowerToggle(state) \in Domain
    BY <1>1, PowerToggleType
  <2>2. Iteration(PowerToggle(state)) /\ intent' = intent
    BY <1>12 DEF UserPower
  <2> QED BY <1>1, <1>4, <2>1, <2>2, PowerToggleCalm, IterationQuiet
<1>13. ASSUME UserEStop PROVE Final'
  <2>1. PICK order \in Orders : EStopOrder(state, order) /\ Iteration(EStopAll(state, order))
    BY <1>13 DEF UserEStop
  <2> DEFINE d == EStopAll(state, order)
  <2>2. d \in Domain
    BY <1>1, OrdersType, EStopAllType
  <2>3. /\ Calm(intent'.halted, d) /\ d.pending_speed = None
        /\ \A t \in Stopped(state) : HasStop(t, d.out)
    BY <1>1, <1>4, <2>1, EStopAllCalm
  <2>4. intent'.halted = intent.halted \cup Stopped(state)
    BY <1>13 DEF UserEStop, TypeOK, Intent
  <2>5. intent'.halted \in SUBSET Throttle
    BY <1>1, <2>4, DomainAssumption DEF Stopped, InUse, Throttle, Domain
  <2> HIDE DEF d
  <2>6. Iteration(d)
    BY <2>1 DEF d
  <2> QED BY <2>2, <2>3, <2>4, <2>5, <2>6, IterationFinal
<1>14. ASSUME UserEStopCurrent PROVE Final'
  <2> DEFINE d == EStopCurrent(state)
  <2>1. d \in Domain
    BY <1>1, EStopCurrentType
  <2>2. Iteration(d)
    BY <1>14 DEF UserEStopCurrent
  <2>3. CASE HasLoco(state, cur)
    <3>1. Calm(intent'.halted, d) /\ d.pending_speed = None /\ HasStop(cur, d.out)
      BY <1>1, <1>4, <2>2, <2>3, EStopCurrentCalm
    <3>2. intent'.halted = intent.halted \cup {cur}
      BY <1>14, <2>3 DEF UserEStopCurrent, Asked, TypeOK, Intent
    <3> QED BY <1>1, <2>1, <2>2, <3>1, <3>2, IterationFinal
  <2>4. CASE ~HasLoco(state, cur)
    <3>1. d = state /\ intent' = intent
      BY <1>1, <1>14, <2>4 DEF EStopCurrent, UserEStopCurrent
    <3> QED BY <1>4, <2>1, <2>2, <3>1, IterationQuiet
  <2> QED BY <2>3, <2>4
<1>15. ASSUME UserNextThrottle PROVE Final'
  <2>1. NextThrottle(state) \in Domain
    BY <1>1, NextThrottleType
  <2>2. NextThrottle(state).out = state.out
        /\ NextThrottle(state).pending_speed = state.pending_speed
    BY <1>1 DEF NextThrottle, Domain
  <2>3. Iteration(NextThrottle(state)) /\ intent' = intent
    BY <1>15 DEF UserNextThrottle
  <2> QED BY <1>4, <2>1, <2>2, <2>3, CalmSame, IterationQuiet
<1>16. ASSUME NEW t \in Throttle, UserThrottle(t) PROVE Final'
  <2>1. SelectThrottle(state, t) \in Domain
    BY <1>1, SelectThrottleType
  <2>2. SelectThrottle(state, t).out = state.out
        /\ SelectThrottle(state, t).pending_speed = state.pending_speed
    BY <1>1 DEF SelectThrottle, Domain
  <2>3. Iteration(SelectThrottle(state, t)) /\ intent' = intent
    BY <1>16 DEF UserThrottle
  <2> QED BY <1>4, <2>1, <2>2, <2>3, CalmSame, IterationQuiet
<1>17. ASSUME NEW S, intent' = Forgotten(S) PROVE intent'.halted = intent.halted
  BY <1>17 DEF Forgotten, TypeOK, Intent
<1>18. ASSUME NEW n \in 1..MaxThrottles, UserMaxThrottles(n) PROVE Final'
  <2>1. PICK order \in Orders : Iteration(SetMaxThrottles(state, n, order))
    BY <1>18 DEF UserMaxThrottles
  <2>2. SetMaxThrottles(state, n, order) \in Domain
    BY <1>1, OrdersType, SetMaxThrottlesType
  <2>3. Calm(intent.halted, SetMaxThrottles(state, n, order))
    BY <1>1, <1>4, <2>1, OrdersType, SetMaxThrottlesCalm
  <2>4. intent'.halted = intent.halted
    BY <1>17, <1>18 DEF UserMaxThrottles
  <2> QED BY <2>1, <2>2, <2>3, <2>4, IterationQuiet
<1>19. ASSUME NEW l \in Locos, NEW spdt \in Direction, UserAcquire(l, spdt) PROVE Final'
  <2> DEFINE d1 == Acquire(state, l)
  <2>1. d1 \in Domain /\ d1.current \in Throttle
    BY <1>1, AcquireType, CurrentSlot
  <2>2. Iteration(AcquireFromUi(state, l, spdt)) /\ intent'.halted = intent.halted
    BY <1>17, <1>19 DEF UserAcquire
  <2>3. Calm(intent.halted, d1)
    BY <1>1, <1>4, <2>2, AcquireCalm
  <2>4. AcquireFromUi(state, l, spdt) \in Domain
    BY <1>1, AcquireFromUiType
  <2>5. Calm(intent.halted, AcquireFromUi(state, l, spdt))
    BY <2>1, <2>3, ChangeDirectionCalm DEF AcquireFromUi
  <2> QED BY <2>2, <2>4, <2>5, IterationQuiet
<1>20. ASSUME UserRelease PROVE Final'
  <2>1. ReleaseAll(state) \in Domain
    BY <1>1, ReleaseType DEF ReleaseAll
  <2>2. Iteration(ReleaseAll(state)) /\ intent'.halted = intent.halted
    BY <1>17, <1>20 DEF UserRelease
  <2>3. Calm(intent.halted, ReleaseAll(state))
    BY <1>1, <1>4, <2>2, ReleaseCalm DEF ReleaseAll
  <2> QED BY <2>1, <2>2, <2>3, IterationQuiet
<1> QED
  BY <1>5, <1>6, <1>7, <1>8, <1>9, <1>10, <1>11, <1>12, <1>13, <1>14, <1>15,
     <1>16, <1>18, <1>19, <1>20 DEF User

LEMMA DomainEventFinal ==
  ASSUME TypeOK, Final, DomainEvent
  PROVE  Final'
<1> DEFINE ev == Head(events)
<1>1. state \in Domain /\ ev \in Event
  BY DEF TypeOK, DomainEvent
<1>2. Iteration(ApplyEvent(state, ev)) /\ intent'.halted = intent.halted
  BY DEF DomainEvent, TypeOK, Intent
<1> HIDE DEF ev
<1>3. Calm(intent.halted, state)
  BY <1>2 DEF Final, Calm, Quiet, Iteration
<1> QED BY <1>1, <1>2, <1>3, ApplyEventType, ApplyEventCalm, IterationQuiet

LEMMA DomainTickFinal ==
  ASSUME TypeOK, Final, DomainTick
  PROVE  Final'
<1>1. state \in Domain /\ Iteration(state) /\ intent' = intent
  BY DEF TypeOK, DomainTick
<1>2. Calm(intent.halted, state)
  BY <1>1 DEF Final, Calm, Quiet, Iteration
<1> QED BY <1>1, <1>2, IterationQuiet

LEMMA FlushSendFinal ==
  ASSUME TypeOK, Final, FlushSend
  PROVE  Final'
<1> DEFINE o == state.out
<1>1. /\ state \in Domain /\ cmds \in Seq(Command) /\ o \in Seq(Command) /\ o # <<>>
      /\ intent' = intent
  BY DEF TypeOK, Domain, FlushSend
<1>2. state'.out = Tail(o) /\ state'.pending_speed = state.pending_speed
  BY <1>1 DEF FlushSend, Domain
<1>3. cmds' = Append(cmds, Head(o))
  BY DEF FlushSend
<1> HIDE DEF o
<1>4. Append(cmds, Head(o)) \o Tail(o) = cmds \o o
  BY SMTT(60), <1>1
<1>5. Pipeline' = Pipeline
  BY <1>2, <1>3, <1>4 DEF Pipeline, o
<1> QED BY <1>1, <1>2, <1>5 DEF Final

\* A stop that is lost is no longer held against the throttle it was for.
LEMMA LostFinal ==
  ASSUME TypeOK, Final, NEW i \in 1..Len(state.out), Lost(i)
  PROVE  Final'
<1> DEFINE o == state.out
           c == o[i]
           S == IF c.op \in {"SetSpeed", "EStop"} THEN {c.throttle} ELSE {}
<1>1. /\ state \in Domain /\ cmds \in Seq(Command) /\ o \in Seq(Command)
      /\ intent \in Intent /\ cmds' = cmds
  BY DEF TypeOK, Domain, Lost
<1>2. state'.out = WithoutIndex(o, i) /\ state'.pending_speed = state.pending_speed
  BY <1>1 DEF Lost, Domain
<1>3. intent'.halted = intent.halted \ S
  <2>1. intent' = [Forgotten(S) EXCEPT !.halted = Forgotten(S).halted \ S, !.lossless = FALSE]
    BY SMTT(60) DEF Lost
  <2>2. Forgotten(S).halted = intent.halted /\ Forgotten(S) \in Intent
    BY <1>1, ForgottenType DEF Forgotten, Intent
  <2> HIDE DEF S
  <2> QED BY <2>1, <2>2 DEF Intent
<1>4. Pipeline' = WithoutIndex(Pipeline, Len(cmds) + i)
  BY <1>1, <1>2, WithoutLater DEF Pipeline
<1>5. /\ Pipeline \in Seq(Command) /\ Len(cmds) + i \in 1..Len(Pipeline)
      /\ Pipeline[Len(cmds) + i] = c
  <2>1. /\ cmds \o o \in Seq(Command) /\ Len(cmds \o o) = Len(cmds) + Len(o)
        /\ \A j \in 1..(Len(cmds) + Len(o)) :
             (cmds \o o)[j] = IF j <= Len(cmds) THEN cmds[j] ELSE o[j - Len(cmds)]
    BY <1>1, ConcatProperties
  <2>2. Len(cmds) + i \in 1..(Len(cmds) + Len(o)) /\ ~(Len(cmds) + i <= Len(cmds))
        /\ (Len(cmds) + i) - Len(cmds) = i
    BY <1>1
  <2> QED BY <2>1, <2>2 DEF Pipeline
<1>6. ASSUME NEW t \in intent'.halted PROVE Safe(t, Pipeline')
  <2>1. t \in intent.halted /\ ~Stops(t, c)
    BY <1>3 DEF Stops
  <2>2. Safe(t, Pipeline)
    BY <2>1 DEF Final
  <2> QED BY <1>4, <1>5, <2>1, <2>2, SafeWithout
<1>7. intent'.halted \in SUBSET intent.halted
  BY <1>3
<1> QED BY <1>2, <1>6, <1>7 DEF Final

LEMMA SessionFinal ==
  ASSUME TypeOK, Final, SessionForward
  PROVE  Final'
<1>1. /\ cmds \in Seq(Command) /\ cmds # <<>> /\ cmds' = Tail(cmds) /\ state' = state
      /\ state.out \in Seq(Command)
  BY DEF TypeOK, Domain, SessionForward
<1>2. intent'.halted = intent.halted
  <2>1. ASSUME NEW wish \in Intent, wish.halted = intent.halted, NEW evs, Emit(evs, wish)
        PROVE  intent'.halted = intent.halted
    BY <2>1 DEF Emit, Intent
  <2>2. intent \in Intent
    BY SMTT(60) DEF TypeOK
  <2>3. ASSUME NEW S PROVE Forgotten(S) \in Intent /\ Forgotten(S).halted = intent.halted
    BY <2>2, ForgottenType DEF Forgotten, Intent
  <2> QED BY <2>1, <2>2, <2>3
        DEF SessionForward, StationAdd, StationRelease, StationSpeed, StationOther
<1>3. Tail(cmds) \o state.out = Tail(cmds \o state.out)
  <2> DEFINE o == state.out
  <2>1. cmds \in Seq(Command) /\ o \in Seq(Command) /\ cmds # <<>>
    BY <1>1
  <2> HIDE DEF o
  <2>2. Tail(cmds) \o o = Tail(cmds \o o)
    BY <2>1
  <2> QED BY <2>2 DEF o
<1>4. Pipeline' = Tail(Pipeline)
  BY <1>1, <1>3 DEF Pipeline
<1>5. Pipeline \in Seq(Command) /\ Pipeline # <<>>
  <2>1. Len(cmds) > 0 /\ Len(cmds \o state.out) = Len(cmds) + Len(state.out)
        /\ cmds \o state.out \in Seq(Command)
    BY <1>1, ConcatProperties
  <2>2. Len(cmds \o state.out) > 0
    BY <1>1, <2>1
  <2> QED BY <2>1, <2>2 DEF Pipeline
<1>6. \A t \in intent'.halted : Safe(t, Pipeline')
  BY <1>2, <1>4, <1>5, SafeTail DEF Final
<1> QED BY <1>1, <1>2, <1>6 DEF Final

LEMMA RestFinal ==
  ASSUME Final, UNCHANGED cmds, state'.out = state.out,
         state'.pending_speed = state.pending_speed, intent'.halted = intent.halted
  PROVE  Final'
BY DEF Final, Pipeline

(* After a Stop, an E-Stop or a stop before a direction change, no speed    *)
(* asked for earlier overtakes the stop, for any number of throttles, any   *)
(* channel depth and any speeds: EmitSpeed empties the coalescing slot, the *)
(* flush keeps the order of `out`, and only a stop that is itself lost on a *)
(* full channel takes the promise back.                                     *)
THEOREM StopsAreFinal == Spec => []StopIsFinal
<1>1. Init => Final
  <2> SUFFICES ASSUME Init PROVE Final
    OBVIOUS
  <2>1. state.pending_speed = None /\ intent.halted = {}
    BY DEF Init, New
  <2> QED BY <2>1 DEF Final
<1>2. TypeOK /\ Final /\ [Next]_vars => Final'
  <2> SUFFICES ASSUME TypeOK, Final, [Next]_vars PROVE Final'
    OBVIOUS
  <2>1. CASE User
    BY <2>1, UserFinal
  <2>2. CASE DomainEvent
    BY <2>2, DomainEventFinal
  <2>3. CASE DomainTick
    BY <2>3, DomainTickFinal
  <2>4. CASE Flush
    <3>1. ASSUME DropStaleSpeed PROVE Final'
      <4>1. PICK i \in DOMAIN state.out : Lost(i)
        BY <3>1 DEF DropStaleSpeed
      <4>2. i \in 1..Len(state.out)
        BY <4>1 DEF TypeOK, Domain
      <4> QED BY <4>1, <4>2, LostFinal
    <3>2. ASSUME DropHead PROVE Final'
      <4>1. 1 \in 1..Len(state.out) /\ Lost(1)
        BY <3>2 DEF DropHead, TypeOK, Domain
      <4> QED BY <4>1, LostFinal
    <3> QED BY <2>4, <3>1, <3>2, FlushSendFinal DEF Flush
  <2>5. CASE SessionForward
    BY <2>5, SessionFinal
  <2>6. CASE \E t \in Throttle, l \in Locos, s \in Speed : ForeignSpeed(t, l, s)
    <3>1. UNCHANGED <<state, cmds>> /\ intent'.halted = intent.halted
      BY <2>6 DEF ForeignSpeed, Forgotten, TypeOK, Intent
    <3> QED BY <3>1, RestFinal
  <2>7. CASE TimePasses
    <3>1. /\ UNCHANGED <<cmds, intent>> /\ state'.out = state.out
          /\ state'.pending_speed = state.pending_speed
      BY <2>7 DEF TimePasses, TypeOK, Domain
    <3> QED BY <3>1, RestFinal
  <2>8. CASE UNCHANGED vars
    BY <2>8, RestFinal DEF vars
  <2> QED BY <2>1, <2>2, <2>3, <2>4, <2>5, <2>6, <2>7, <2>8 DEF Next, Domain_
<1>3. Spec => []Final
  BY TypeCorrect, <1>1, <1>2, PTL DEF Spec
<1> QED BY <1>3, FinalIsStopIsFinal, PTL

-----------------------------------------------------------------------------
(* What the operator asked for arrives.  Both invariants are about the     *)
(* pipeline of commands the station has not yet applied.  A command that   *)
(* would spoil what was asked (Z: those that settle it, M: those that spoil *)
(* it) is followed by one that settles it, and if none is left that settles *)
(* it, the locos already obey.                                             *)

-----------------------------------------------------------------------------
(* The invariants: what the operator asked of a throttle is still on its   *)
(* way, or the locos do it.                                                *)

Wakes(t) == Adds(t) \cup {c \in Command : Moves(t, c)}

Spoils(t, v) == Adds(t) \cup {c \in Command : IsSpeed(c) /\ Value(c) # v}

Runs(t, v) == \A l \in served[t] : locoSpeed[l] = v

Delivers(t, v, M) ==
  /\ Followed(M, Settles(t, v), Pipeline)
  /\ Has(Settles(t, v), Pipeline) \/ Runs(t, v)

\* For every throttle told to stop: any speed of it that is left, and any
\* loco added to it, comes before a stop.
StopHeld ==
  \A t \in Throttle : intent.wanted[t] = 0 =>
    /\ state.pending_speed # None => state.pending_speed.throttle # t
    /\ Delivers(t, 0, Wakes(t))

\* For the throttle touched last: its speed is coalesced, or no other speed of
\* any throttle comes after it.
Heard(t, v) ==
  IF state.pending_speed = None THEN Delivers(t, v, Spoils(t, v))
  ELSE state.pending_speed = [throttle |-> t, speed |-> v]

LastHeld ==
  \A t \in Throttle, v \in Speed \cup {None} :
    intent.touched = t /\ intent.wanted[t] = v => v \in Speed /\ Heard(t, v)

LEMMA StopHeldDelivers == StopHeld => StopIsDelivered
<1> SUFFICES ASSUME StopHeld, Settled, NEW t \in Throttle, intent.wanted[t] = 0
             PROVE  \A l \in served[t] : locoSpeed[l] = 0
  BY DEF StopIsDelivered
<1>1. Pipeline = <<>> /\ DOMAIN Pipeline = {}
  BY DEF Settled, Pipeline
<1>2. ~Has(Settles(t, 0), Pipeline)
  BY <1>1 DEF Has
<1> QED BY <1>2 DEF StopHeld, Delivers, Runs

LEMMA LastHeldWins == TypeOK /\ LastHeld => LastCommandWins
<1> SUFFICES ASSUME TypeOK, LastHeld, Settled, intent.touched # None
             PROVE  \A l \in served[intent.touched] :
                      locoSpeed[l] = intent.wanted[intent.touched]
  BY DEF LastCommandWins
<1>1. Pipeline = <<>> /\ DOMAIN Pipeline = {} /\ state.pending_speed = None
  BY DEF Settled, Pipeline
<1>2. PICK t \in Throttle, v \in Speed \cup {None} :
        t = intent.touched /\ v = intent.wanted[t]
  BY DEF TypeOK, Intent
<1>3. Delivers(t, v, Spoils(t, v))
  BY <1>1, <1>2 DEF LastHeld, Heard
<1>4. ~Has(Settles(t, v), Pipeline)
  BY <1>1 DEF Has
<1> QED BY <1>2, <1>3, <1>4 DEF Delivers, Runs

\* Commands that have no bearing on t do not spoil what t was asked.
LEMMA SpeaksSpoil ==
  ASSUME NEW t \in Throttle, NEW v
  PROVE  Wakes(t) \subseteq Speaks(t) /\ Spoils(t, v) \subseteq Speaks(t)
BY DEF Wakes, Spoils, Adds, Speaks, IsSpeed, Moves

LEMMA ForgottenFields ==
  ASSUME TypeOK, NEW S
  PROVE  /\ Forgotten(S).wanted =
              [t \in Throttle |-> IF t \in S THEN None ELSE intent.wanted[t]]
         /\ Forgotten(S).touched = IF intent.touched \in S THEN None ELSE intent.touched
         /\ Forgotten(S).lossless = intent.lossless
<1>1. intent \in Intent
  BY DEF TypeOK
<1> QED BY <1>1 DEF Forgotten, Intent

LEMMA AskedFields ==
  ASSUME TypeOK, NEW t \in Throttle, NEW s \in Speed
  PROVE  /\ Asked(t, s).wanted = [intent.wanted EXCEPT ![t] = s]
         /\ Asked(t, s).touched = t
         /\ Asked(t, s).lossless = intent.lossless
<1>1. intent \in Intent
  BY DEF TypeOK
<1> QED BY <1>1 DEF Asked, Intent

-----------------------------------------------------------------------------
(* What an iteration of the domain does to the operator's intent: it keeps *)
(* it but for the throttles in T, it asks one throttle for a speed, or it  *)
(* halts the throttles in S.                                               *)

Keeps(d, T) ==
  /\ d.pending_speed = state.pending_speed
  /\ \A t \in Throttle \ T : Avoids(Speaks(t), d.out)
  /\ intent'.wanted = [t \in Throttle |-> IF t \in T THEN None ELSE intent.wanted[t]]
  /\ intent'.touched = IF intent.touched \in T THEN None ELSE intent.touched

Asks(d, t, v) ==
  /\ intent'.wanted = [intent.wanted EXCEPT ![t] = v]
  /\ intent'.touched = t
  /\ \/ \E c \in Settles(t, v) : d.out = <<c>> /\ d.pending_speed = None
     \/ v # 0 /\ d.out = <<>> /\ d.pending_speed = [throttle |-> t, speed |-> v]

Halts(d, S) ==
  /\ intent'.wanted = [t \in Throttle |-> IF t \in S THEN 0 ELSE intent.wanted[t]]
  /\ intent'.touched = IF intent.touched \in S THEN intent.touched ELSE None
  /\ d.pending_speed = None
  /\ \A i \in DOMAIN d.out : d.out[i].op = "EStop"
  /\ \A t \in S : Has(Settles(t, 0), d.out)

\* A domain step, as far as speeds are concerned.
Drives(d) ==
  /\ Iteration(d) /\ Len(d.out) < CmdBuf
  /\ \/ \E T \in SUBSET Throttle : Keeps(d, T)
     \/ \E t \in Throttle, v \in Speed : Asks(d, t, v)
     \/ \E S \in SUBSET Throttle : Halts(d, S)

LEMMA KeepsSilent ==
  ASSUME TypeOK, NEW d \in Domain, Iteration(d), NEW T \in SUBSET Throttle,
         Silent(Throttle \ T, state, d),
         intent' = Forgotten(T) \/ (T = {} /\ intent'.wanted = intent.wanted
                                           /\ intent'.touched = intent.touched)
  PROVE  Drives(d)
<1>1. intent'.wanted = [t \in Throttle |-> IF t \in T THEN None ELSE intent.wanted[t]]
  <2>1. intent.wanted \in [Throttle -> Speed \cup {None}]
    BY DEF TypeOK, Intent
  <2> QED BY <2>1, ForgottenFields
<1>2. intent'.touched = IF intent.touched \in T THEN None ELSE intent.touched
  BY ForgottenFields
<1> QED BY <1>1, <1>2 DEF Drives, Keeps, Silent

\* The operator asks the current throttle for speed s.
LEMMA AskDrives ==
  ASSUME TypeOK, NEW s \in Nat, Iteration(SpeedSet(state, s)),
         HasLoco(state, cur) => intent' = Asked(cur, AtMost(s, MaxSpeed)),
         ~HasLoco(state, cur) => intent' = intent
  PROVE  Drives(SpeedSet(state, s))
<1> DEFINE v == AtMost(s, MaxSpeed)
           e == SpeedSet(state, s)
<1>1. state \in Domain /\ state.out = <<>> /\ cur = state.current /\ cur \in Throttle
  BY CurrentSlot DEF TypeOK, Iteration, cur
<1>2. v \in Speed
  BY DomainAssumption DEF AtMost, Speed
<1> HIDE DEF v
<1>3. CASE HasLoco(state, cur)
  <2>1. \/ e.out = <<SetSpeed(cur, v)>> /\ e.pending_speed = None
        \/ v # 0 /\ e.out = <<>> /\ e.pending_speed = [throttle |-> cur, speed |-> v]
    BY <1>1, <1>3, SpeedSetOut DEF v
  <2>2. SetSpeed(cur, v) \in Settles(cur, v)
    BY <1>1, <1>2 DEF SetSpeed, Settles, IsSpeed, Value, Command
  <2>3. Len(e.out) < CmdBuf
    BY <2>1, EmptyFits
  <2>4. intent'.wanted = [intent.wanted EXCEPT ![cur] = v] /\ intent'.touched = cur
    BY <1>1, <1>2, <1>3, AskedFields DEF v
  <2> HIDE DEF e
  <2>5. Asks(e, cur, v)
    BY <2>1, <2>2, <2>4 DEF Asks
  <2>6. Iteration(e)
    BY DEF e
  <2>7. Drives(e)
    BY <1>1, <1>2, <2>3, <2>5, <2>6 DEF Drives
  <2> QED BY <2>7 DEF e
<1>4. CASE ~HasLoco(state, cur)
  <2>1. e = state /\ e \in Domain
    BY <1>1, <1>4, SpeedSetNothing
  <2>2. Silent(Throttle \ {}, state, e)
    BY <1>1, <2>1, EmptyFits, AvoidsEmpty DEF Silent
  <2>3. Iteration(e) /\ intent' = intent
    BY <1>4
  <2> HIDE DEF e
  <2>4. Drives(e)
    BY <2>1, <2>2, <2>3, KeepsSilent
  <2> QED BY <2>4 DEF e
<1> QED BY <1>3, <1>4

LEMMA SilentAll ==
  ASSUME NEW d, NEW e, Silent(Throttle, d, e), NEW T
  PROVE  Silent(Throttle \ T, d, e)
BY DEF Silent

\* What leaves the wishes of all throttles alone.
LEMMA KeepsAll ==
  ASSUME TypeOK, NEW d \in Domain, Iteration(d), Silent(Throttle, state, d),
         intent'.wanted = intent.wanted, intent'.touched = intent.touched
  PROVE  Drives(d)
<1> DEFINE T == {}
<1>1. T \in SUBSET Throttle /\ Silent(Throttle \ T, state, d)
  BY SilentAll
<1> HIDE DEF T
<1>2. T = {}
  BY DEF T
<1> QED BY <1>1, <1>2, KeepsSilent

LEMMA SilentEmpty ==
  ASSUME NEW d \in Domain, d.out = <<>>, NEW e, e.out = d.out, e.pending_speed = d.pending_speed
  PROVE  Silent(Throttle, d, e)
BY EmptyFits, AvoidsEmpty DEF Silent

LEMMA UserDrives ==
  ASSUME TypeOK, Trains(state), User
  PROVE  \E d \in Domain : Drives(d)
<1>1. /\ state \in Domain /\ cur = state.current /\ cur \in Throttle
      /\ Speed \in SUBSET Nat /\ 0 \in Speed
      /\ \A s \in Speed : AtMost(s, MaxSpeed) = s
  BY CurrentSlot, DomainAssumption DEF TypeOK, cur, Speed, AtMost
<1>2. ASSUME NEW d, Iteration(d) PROVE state.out = <<>>
  BY <1>2 DEF Iteration
\* What asks for a speed.
<1>3. ASSUME NEW s \in Nat, Iteration(SpeedSet(state, s)),
             HasLoco(state, cur) => intent' = Asked(cur, AtMost(s, MaxSpeed)),
             ~HasLoco(state, cur) => intent' = intent
      PROVE  \E d \in Domain : Drives(d)
  BY <1>1, <1>3, AskDrives, SpeedSetType
<1>4. ASSUME NEW s \in Speed, UserSpeedSet(s) PROVE \E d \in Domain : Drives(d)
  BY <1>1, <1>3, <1>4 DEF UserSpeedSet
<1>5. ASSUME NEW fast \in BOOLEAN, UserSpeedUp(fast) PROVE \E d \in Domain : Drives(d)
  <2> DEFINE v == state.throttles[state.current].speed
             step == EffectiveSpeedStep(state, fast)
             n == v + step
  <2>1. n \in Nat
    <3>1. v \in Nat /\ step \in Nat
      BY <1>1, CurrentSlot, StepType, DomainAssumption DEF Slot, Speed
    <3> QED BY <3>1
  <2>2. SpeedUp(state, fast) = SpeedSet(state, n)
    BY DEF SpeedUp
  <2> HIDE DEF n
  <2>3. HasLoco(state, cur) => SpeedUp(state, fast).throttles[cur].speed = AtMost(n, MaxSpeed)
    BY <1>1, <2>1, <2>2, SpeedSetShows
  <2> QED BY <1>3, <1>5, <2>1, <2>2, <2>3 DEF UserSpeedUp
<1>6. ASSUME NEW fast \in BOOLEAN, UserSpeedDown(fast) PROVE \E d \in Domain : Drives(d)
  <2> DEFINE v == state.throttles[state.current].speed
             step == EffectiveSpeedStep(state, fast)
             n == IF step >= v THEN 0 ELSE v - step
  <2>1. n \in Nat
    <3>1. v \in Nat /\ step \in Nat
      BY <1>1, CurrentSlot, StepType, DomainAssumption DEF Slot, Speed
    <3> QED BY <3>1
  <2>2. SpeedDown(state, fast) = SpeedSet(state, n)
    BY DEF SpeedDown
  <2> HIDE DEF n
  <2>3. HasLoco(state, cur) => SpeedDown(state, fast).throttles[cur].speed = AtMost(n, MaxSpeed)
    BY <1>1, <2>1, <2>2, SpeedSetShows
  <2> QED BY <1>3, <1>6, <2>1, <2>2, <2>3 DEF UserSpeedDown
<1>7. ASSUME NEW d \in Domain, Iteration(d), Silent(Throttle, state, d), intent' = intent
      PROVE  \E e \in Domain : Drives(e)
  BY <1>7, KeepsAll
<1>8. ASSUME NEW t \in Throttle, NEW dir \in Direction,
             Iteration(ChangeDirection(state, t, dir)), intent' = intent
      PROVE  \E d \in Domain : Drives(d)
  <2> DEFINE d == ChangeDirection(state, t, dir)
  <2>1. state.out = <<>> /\ d \in Domain
    BY <1>1, <1>2, <1>8, ChangeDirectionType
  <2>2. Len(state.out) + Len(Consist(state, t)) < CmdBuf
    <3>1. Consist(state, t) \in Seq(Locos)
      BY <1>1 DEF Domain, Slot, Consist
    <3>2. Len(Consist(state, t)) \in Nat /\ Len(Consist(state, t)) <= MaxLocos
          /\ MaxLocos \in Nat /\ CmdBuf \in Nat /\ MaxLocos < CmdBuf
      BY <3>1, DomainAssumption, BufferAssumption DEF Trains, Proper
    <3> QED BY <2>1, <3>2, EmptyFits
  <2>3. Appends({"SetDirection"}, state, d) /\ d.pending_speed = state.pending_speed
    BY <1>1, <2>2, ChangeDirectionOut
  <2>4. Silent(Throttle, state, d)
    BY <1>1, <2>1, <2>3, AppendsSilent
  <2> HIDE DEF d
  <2>5. Iteration(d)
    BY <1>8 DEF d
  <2> QED BY <1>7, <1>8, <2>1, <2>4, <2>5
<1>9. ASSUME NEW t \in Throttle,
             NEW d \in {CycleSpeedMultiplier(state), NextThrottle(state), SelectThrottle(state, t)},
             Iteration(d), intent' = intent
      PROVE  \E e \in Domain : Drives(e)
  <2>1. d \in Domain
    BY <1>1, CycleSpeedMultiplierType, NextThrottleType, SelectThrottleType
  <2>2. Silent(Throttle, state, d)
    BY <1>1, <1>2, <1>9, SelectionOut, SilentEmpty
  <2> QED BY <1>7, <1>9, <2>1, <2>2
<1>10. ASSUME UserStopThenToggle PROVE \E d \in Domain : Drives(d)
  <2>1. CASE state.throttles[cur].speed # 0
    <3>1. StopThenToggleDirection(state) = SpeedSet(state, 0) /\ 0 \in Nat
          /\ AtMost(0, MaxSpeed) = 0
      BY <1>1, <2>1 DEF StopThenToggleDirection
    <3> QED BY <1>3, <1>10, <2>1, <3>1 DEF UserStopThenToggle
  <2>2. CASE state.throttles[cur].speed = 0
    <3>1. Opposite(state.throttles[cur].direction) \in Direction
      BY <1>1, CurrentSlot, OppositeType DEF Slot
    <3>2. Iteration(ChangeDirection(state, cur, Opposite(state.throttles[cur].direction)))
          /\ intent' = intent
      BY <1>1, <1>10, <2>2 DEF UserStopThenToggle, StopThenToggleDirection
    <3> QED BY <1>1, <1>8, <3>1, <3>2
  <2> QED BY <2>1, <2>2
<1>11. ASSUME NEW f \in Functions, UserFunction(f) PROVE \E d \in Domain : Drives(d)
  <2>1. ToggleFunction(state, f) \in Domain
    BY <1>1, ToggleFunctionType
  <2>2. Iteration(ToggleFunction(state, f)) /\ intent' = intent
    BY <1>11 DEF UserFunction
  <2>3. Silent(Throttle, state, ToggleFunction(state, f))
    BY <1>1, <1>2, <2>2, ToggleFunctionOut, AppendsSilent
  <2> QED BY <1>7, <2>1, <2>2, <2>3
<1>12. ASSUME UserPower PROVE \E d \in Domain : Drives(d)
  <2>1. PowerToggle(state) \in Domain
    BY <1>1, PowerToggleType
  <2>2. Iteration(PowerToggle(state)) /\ intent' = intent
    BY <1>12 DEF UserPower
  <2>3. Silent(Throttle, state, PowerToggle(state))
    BY <1>1, <1>2, <2>2, PowerToggleOut, AppendsSilent
  <2> QED BY <1>7, <2>1, <2>2, <2>3
<1>13. ASSUME UserEStop PROVE \E d \in Domain : Drives(d)
  <2>1. PICK order \in Orders : EStopOrder(state, order) /\ Iteration(EStopAll(state, order))
    BY <1>13 DEF UserEStop
  <2> DEFINE d == EStopAll(state, order)
             S == Stopped(state)
  <2>2. d \in Domain
    BY <1>1, OrdersType, EStopAllType
  <2>3. /\ d.pending_speed = None /\ DOMAIN d.out = DOMAIN order
        /\ \A i \in DOMAIN d.out : d.out[i] = EStop(order[i])
    BY <1>1, <1>2, <2>1, EStopAllOut
  <2>4. Iteration(d)
    BY <2>1
  <2> HIDE DEF d
  <2>5. order \in Seq(Throttle) /\ Len(order) < CmdBuf
    BY OrdersFit
  <2>6. S \in SUBSET Throttle
    BY <1>1, DomainAssumption DEF Stopped, InUse, Throttle, Domain
  <2>7. /\ intent'.wanted = [t \in Throttle |-> IF t \in S THEN 0 ELSE intent.wanted[t]]
        /\ intent'.touched = IF intent.touched \in S THEN intent.touched ELSE None
    BY <1>13 DEF UserEStop, TypeOK, Intent
  <2>8. Len(d.out) < CmdBuf
    <3>1. d.out \in Seq(Command)
      BY <2>2 DEF Domain
    <3>2. Len(d.out) = Len(order)
      BY <2>3, <2>5, <3>1
    <3> QED BY <2>5, <3>2
  <2>9. \A i \in DOMAIN d.out : d.out[i].op = "EStop"
    <3>1. \A t : EStop(t).op = "EStop"
      BY DEF EStop
    <3> QED BY <2>3, <3>1
  <2>10. ASSUME NEW t \in S PROVE Has(Settles(t, 0), d.out)
    <3>1. PICK i \in DOMAIN order : order[i] = t
      BY <2>1 DEF Stopped, EStopOrder
    <3>2. EStop(t) \in Settles(t, 0)
      BY <2>6 DEF EStop, Settles, IsSpeed, Value, Command
    <3> QED BY <2>3, <3>1, <3>2 DEF Has
  <2>11. Halts(d, S)
    BY <2>3, <2>7, <2>9, <2>10 DEF Halts
  <2> QED BY <2>2, <2>4, <2>6, <2>8, <2>11 DEF Drives
<1>14. ASSUME UserEStopCurrent PROVE \E d \in Domain : Drives(d)
  <2> DEFINE d == EStopCurrent(state)
  <2>1. d \in Domain /\ Iteration(d)
    BY <1>1, <1>14, EStopCurrentType DEF UserEStopCurrent
  <2>2. CASE HasLoco(state, cur)
    <3>1. d.out = <<EStop(cur)>> /\ d.pending_speed = None
      BY <1>1, <1>2, <2>1, <2>2, EStopCurrentOut
    <3>2. EStop(cur) \in Settles(cur, 0)
      BY <1>1 DEF EStop, Settles, IsSpeed, Value, Command
    <3>3. intent'.wanted = [intent.wanted EXCEPT ![cur] = 0] /\ intent'.touched = cur
      BY <1>1, <1>14, <2>2, AskedFields DEF UserEStopCurrent
    <3>4. Asks(d, cur, 0)
      BY <3>1, <3>2, <3>3 DEF Asks
    <3>5. Len(d.out) < CmdBuf
      BY <3>1, EmptyFits
    <3> QED BY <1>1, <2>1, <3>4, <3>5 DEF Drives
  <2>3. CASE ~HasLoco(state, cur)
    <3>1. d = state /\ intent' = intent
      BY <1>1, <1>14, <2>3 DEF EStopCurrent, UserEStopCurrent
    <3> QED BY <1>1, <1>2, <1>7, <2>1, <3>1, SilentEmpty
  <2> QED BY <2>2, <2>3
<1>15. ASSUME NEW n \in 1..MaxThrottles, UserMaxThrottles(n) PROVE \E d \in Domain : Drives(d)
  <2>1. PICK order \in Orders : Iteration(SetMaxThrottles(state, n, order))
    BY <1>15 DEF UserMaxThrottles
  <2> DEFINE d == SetMaxThrottles(state, n, order)
             T == {t \in Throttle : t >= n}
  <2>2. d \in Domain
    BY <1>1, OrdersType, SetMaxThrottlesType
  <2>3. /\ d.pending_speed = state.pending_speed /\ Len(d.out) < CmdBuf
        /\ \A i \in DOMAIN d.out : d.out[i] = ReleaseThrottle(order[i])
    BY <1>1, <1>2, <2>1, <2>2, SetMaxThrottlesOut
  <2>4. Iteration(d) /\ intent' = Forgotten(T)
    BY <1>15, <2>1 DEF UserMaxThrottles
  <2> HIDE DEF d, T
  <2>5. Silent(Throttle, state, d)
    <3>1. \A t, u : ReleaseThrottle(u) \notin Speaks(t)
      BY DEF Speaks, IsSpeed, ReleaseThrottle
    <3>2. \A t \in Throttle : Avoids(Speaks(t), d.out)
      BY <2>3, <3>1 DEF Avoids
    <3> QED BY <2>3, <3>2 DEF Silent
  <2>6. T \in SUBSET Throttle
    BY DEF T
  <2> QED BY <2>2, <2>4, <2>5, <2>6, SilentAll, KeepsSilent
<1>16. ASSUME NEW l \in Locos, NEW spdt \in Direction, UserAcquire(l, spdt)
       PROVE  \E d \in Domain : Drives(d)
  <2> DEFINE d == AcquireFromUi(state, l, spdt)
             x == IF HasLoco(state, cur) THEN <<ReleaseThrottle(cur), AddLoco(cur, l)>>
                  ELSE <<AddLoco(cur, l)>>
  <2>1. d \in Domain /\ Iteration(d) /\ intent' = Forgotten({cur})
    BY <1>1, <1>16, AcquireFromUiType DEF UserAcquire
  <2>2. /\ d.pending_speed = state.pending_speed /\ Len(d.out) < CmdBuf
        /\ \E r \in Seq(Command) : /\ d.out = x \o r
                                   /\ \A i \in DOMAIN r : r[i].op = "SetDirection"
    BY <1>1, <1>2, <2>1, AcquireFromUiOut
  <2>3. PICK r \in Seq(Command) : d.out = x \o r /\ \A i \in DOMAIN r : r[i].op = "SetDirection"
    BY <2>2
  <2> HIDE DEF d
  <2>4. ASSUME NEW t \in Throttle \ {cur} PROVE Avoids(Speaks(t), d.out)
    <3>1. ReleaseThrottle(cur) \in Command /\ AddLoco(cur, l) \in Command
      BY <1>1 DEF ReleaseThrottle, AddLoco, Command
    <3>2. x \in Seq(Command)
      BY <3>1
    <3>3. ReleaseThrottle(cur) \notin Speaks(t) /\ AddLoco(cur, l) \notin Speaks(t)
      BY <1>1, <2>4 DEF ReleaseThrottle, AddLoco, Speaks, IsSpeed
    <3>4. Avoids(Speaks(t), x)
      BY <3>3 DEF Avoids
    <3>5. Avoids(Speaks(t), r)
      BY <2>3 DEF Avoids, Speaks, IsSpeed
    <3> HIDE DEF x
    <3> QED BY <2>3, <3>2, <3>4, <3>5, AvoidsJoined
  <2>5. Silent(Throttle \ {cur}, state, d)
    BY <2>2, <2>4 DEF Silent
  <2> QED BY <1>1, <2>1, <2>5, KeepsSilent
<1>17. ASSUME UserRelease PROVE \E d \in Domain : Drives(d)
  <2> DEFINE d == ReleaseAll(state)
  <2>1. d \in Domain /\ Iteration(d) /\ intent' = Forgotten({cur})
    BY <1>1, <1>17, ReleaseType DEF UserRelease, ReleaseAll
  <2>2. Silent(Throttle, state, d)
    <3>1. CASE HasLoco(state, cur)
      <4>1. d.out = <<ReleaseThrottle(cur)>> /\ d.pending_speed = state.pending_speed
        BY <1>1, <1>2, <2>1, <3>1, ReleaseOut DEF ReleaseAll
      <4>2. Len(d.out) < CmdBuf
        BY <4>1, EmptyFits
      <4>3. \A t \in Throttle : Avoids(Speaks(t), d.out)
        BY <4>1 DEF Avoids, Speaks, IsSpeed, ReleaseThrottle
      <4> QED BY <4>1, <4>2, <4>3 DEF Silent
    <3>2. CASE ~HasLoco(state, cur)
      <4>1. d = state
        BY <1>1, <3>2 DEF ReleaseAll, Release
      <4> QED BY <1>1, <1>2, <2>1, <4>1, SilentEmpty
    <3> QED BY <3>1, <3>2
  <2> QED BY ZenonT(90), <1>1, <2>1, <2>2, SilentAll, KeepsSilent
<1>18. ASSUME UserMultiplier PROVE \E d \in Domain : Drives(d)
  BY <1>1, <1>9, <1>18 DEF UserMultiplier
<1>19. ASSUME UserNextThrottle PROVE \E d \in Domain : Drives(d)
  BY <1>1, <1>9, <1>19 DEF UserNextThrottle
<1>20. ASSUME NEW t \in Throttle, UserThrottle(t) PROVE \E d \in Domain : Drives(d)
  BY <1>9, <1>20 DEF UserThrottle
<1>21. ASSUME NEW dir \in Direction, UserDirection(dir) PROVE \E d \in Domain : Drives(d)
  BY <1>1, <1>8, <1>21 DEF UserDirection
<1> QED
  BY <1>4, <1>5, <1>6, <1>10, <1>11, <1>12, <1>13, <1>14, <1>15, <1>16, <1>17,
     <1>18, <1>19, <1>20, <1>21 DEF User

LEMMA DomainDrives ==
  ASSUME TypeOK, Trains(state), Domain_
  PROVE  \E d \in Domain : Drives(d)
<1>1. state \in Domain
  BY DEF TypeOK
<1>2. CASE DomainEvent
  <2> DEFINE d == ApplyEvent(state, Head(events))
  <2>1. Head(events) \in Event
    BY <1>2 DEF TypeOK, DomainEvent
  <2>2. d \in Domain /\ d.out = state.out /\ d.pending_speed = state.pending_speed
    BY <1>1, <2>1, ApplyEventType, ApplyEventOut
  <2>3. Iteration(d) /\ intent'.wanted = intent.wanted /\ intent'.touched = intent.touched
    BY <1>2 DEF DomainEvent, TypeOK, Intent
  <2> HIDE DEF d
  <2>4. Silent(Throttle, state, d)
    BY <1>1, <2>2, <2>3, SilentEmpty DEF Iteration
  <2> QED BY <2>2, <2>3, <2>4, KeepsAll
<1>3. CASE DomainTick
  <2>1. Iteration(state) /\ intent' = intent
    BY <1>3 DEF DomainTick
  <2>2. Silent(Throttle, state, state)
    BY <1>1, <2>1, SilentEmpty DEF Iteration
  <2> QED BY <1>1, <2>1, <2>2, KeepsAll
<1> QED BY <1>2, <1>3, UserDrives DEF Domain_

-----------------------------------------------------------------------------
(* Preservation by the domain: it only adds to the pipeline.               *)

LEMMA Pushed ==
  ASSUME TypeOK, NEW d \in Domain, Iteration(d), Len(d.out) < CmdBuf
  PROVE  /\ Pipeline \in Seq(Command) /\ d.out \in Seq(Command)
         /\ UNCHANGED <<served, locoSpeed>> /\ SameTrains(d, state')
         /\ LET p == d.pending_speed
            IN  \/ Pipeline' = Pipeline \o d.out /\ state'.pending_speed = p
                \/ /\ p # None /\ p.throttle \in Throttle /\ p.speed \in Speed
                   /\ state'.pending_speed = None
                   /\ Pipeline' = Pipeline \o (d.out \o <<SetSpeed(p.throttle, p.speed)>>)
<1> DEFINE p == d.pending_speed
           e == FlushPendingSpeed(d)
<1>1. /\ state.out = <<>> /\ state' = e /\ cmds' = cmds /\ cmds \in Seq(Command)
      /\ UNCHANGED <<served, locoSpeed>>
  BY DEF Iteration, TypeOK
<1>2. d.out \in Seq(Command) /\ (p # None => p.throttle \in Throttle /\ p.speed \in Speed)
  BY DEF Domain
<1>3. \/ e.out = d.out /\ e.pending_speed = p
      \/ /\ p # None /\ e.pending_speed = None
         /\ e.out = d.out \o <<SetSpeed(p.throttle, p.speed)>>
  BY FlushPendingSpeedOut
<1>4. SameTrains(d, e)
  BY FlushPendingSpeedOut
<1>5. Pipeline = cmds /\ Pipeline' = cmds \o e.out
  BY <1>1 DEF Pipeline
<1> HIDE DEF e
<1> QED BY <1>1, <1>2, <1>3, <1>4, <1>5

LEMMA DeliversMore ==
  ASSUME NEW t, NEW v, NEW M, Delivers(t, v, M), NEW q \in Seq(Command),
         Pipeline \in Seq(Command), Pipeline' = Pipeline \o q, Avoids(M, q),
         UNCHANGED <<served, locoSpeed>>
  PROVE  Delivers(t, v, M)'
<1>1. Followed(M, Settles(t, v), Pipeline \o q)
  BY FollowedAvoids DEF Delivers
<1>2. Has(Settles(t, v), Pipeline \o q) \/ Runs(t, v)
  BY HasJoined DEF Delivers
<1>3. Runs(t, v)' <=> Runs(t, v)
  BY DEF Runs
<1> QED BY <1>1, <1>2, <1>3 DEF Delivers

LEMMA DeliversAnew ==
  ASSUME NEW t, NEW v, NEW M, NEW q \in Seq(Command),
         Pipeline \in Seq(Command), Pipeline' = Pipeline \o q,
         Avoids(M, q), Has(Settles(t, v), q)
  PROVE  Delivers(t, v, M)'
<1>1. Followed(M, Settles(t, v), Pipeline \o q)
  BY FollowedHas
<1>2. Has(Settles(t, v), Pipeline \o q)
  BY HasJoined
<1> QED BY <1>1, <1>2 DEF Delivers

LEMMA OneSpeed ==
  ASSUME NEW u \in Throttle, NEW s \in Speed
  PROVE  LET c == SetSpeed(u, s)
         IN  /\ c \in Command /\ <<c>> \in Seq(Command) /\ c \in Settles(u, s)
             /\ \A t : Avoids(Adds(t), <<c>>)
             /\ \A t : t # u => Avoids(Wakes(t), <<c>>)
             /\ \A t : Avoids(Spoils(t, s), <<c>>)
             /\ Has(Settles(u, s), <<c>>)
<1> DEFINE c == SetSpeed(u, s)
<1>1. /\ c \in Command /\ c.op = "SetSpeed" /\ c.throttle = u /\ c.speed = s
      /\ IsSpeed(c) /\ Value(c) = s
  BY DEF SetSpeed, Command, IsSpeed, Value
<1> HIDE DEF c
<1>2. <<c>> \in Seq(Command) /\ c \in Settles(u, s)
  BY <1>1 DEF Settles
<1>3. /\ \A t : Avoids(Adds(t), <<c>>)
      /\ \A t : t # u => Avoids(Wakes(t), <<c>>)
      /\ \A t : Avoids(Spoils(t, s), <<c>>)
  BY <1>1 DEF Avoids, Adds, Wakes, Spoils, Moves
<1>4. Has(Settles(u, s), <<c>>)
  BY <1>2 DEF Has
<1> QED BY <1>1, <1>2, <1>3, <1>4 DEF c

LEMMA SettledOne ==
  ASSUME NEW t \in Throttle, NEW v \in Speed, NEW c \in Settles(t, v)
  PROVE  /\ <<c>> \in Seq(Command) /\ Has(Settles(t, v), <<c>>)
         /\ Avoids(Spoils(t, v), <<c>>)
         /\ v = 0 => \A u : Avoids(Wakes(u), <<c>>)
         /\ \A u : u # t => Avoids(Wakes(u), <<c>>)
<1>1. c \in Command /\ IsSpeed(c) /\ c.throttle = t /\ Value(c) = v
  BY DEF Settles
<1>2. <<c>> \in Seq(Command) /\ Has(Settles(t, v), <<c>>)
  BY <1>1 DEF Has
<1>3. Avoids(Spoils(t, v), <<c>>)
  BY <1>1 DEF Avoids, Spoils, Adds, IsSpeed
<1>4. v = 0 => \A u : Avoids(Wakes(u), <<c>>)
  BY <1>1 DEF Avoids, Wakes, Adds, Moves, IsSpeed, Value
<1>5. \A u : u # t => Avoids(Wakes(u), <<c>>)
  BY <1>1 DEF Avoids, Wakes, Adds, Moves, IsSpeed
<1> QED BY <1>2, <1>3, <1>4, <1>5

\* The domain goes on with what it was told before.
LEMMA DrivesStop ==
  ASSUME TypeOK, StopHeld, NEW d \in Domain, Drives(d)
  PROVE  StopHeld'
<1> DEFINE p == d.pending_speed
<1>1. /\ Pipeline \in Seq(Command) /\ d.out \in Seq(Command)
      /\ UNCHANGED <<served, locoSpeed>>
      /\ \/ Pipeline' = Pipeline \o d.out /\ state'.pending_speed = p
         \/ /\ p # None /\ p.throttle \in Throttle /\ p.speed \in Speed
            /\ state'.pending_speed = None
            /\ Pipeline' = Pipeline \o (d.out \o <<SetSpeed(p.throttle, p.speed)>>)
  BY Pushed DEF Drives
<1>2. None # 0 /\ intent.wanted \in [Throttle -> Speed \cup {None}]
      /\ intent.touched \in Throttle \cup {None} /\ 0 \in Speed
  BY NoneAssumption, DomainAssumption DEF Speed, TypeOK, Intent
\* What is pushed neither wakes the throttle nor is taken back by what was coalesced.
<1>3. ASSUME NEW t \in Throttle, Delivers(t, 0, Wakes(t)), p # None => p.throttle # t,
             Avoids(Wakes(t), d.out)
      PROVE  /\ state'.pending_speed # None => state'.pending_speed.throttle # t
             /\ Delivers(t, 0, Wakes(t))'
  <2>1. CASE Pipeline' = Pipeline \o d.out /\ state'.pending_speed = p
    BY <1>1, <1>3, <2>1, DeliversMore
  <2>2. CASE /\ p # None /\ p.throttle \in Throttle /\ p.speed \in Speed
             /\ state'.pending_speed = None
             /\ Pipeline' = Pipeline \o (d.out \o <<SetSpeed(p.throttle, p.speed)>>)
    <3> DEFINE f == <<SetSpeed(p.throttle, p.speed)>>
               q == d.out \o f
    <3>1. f \in Seq(Command) /\ Avoids(Wakes(t), f)
      BY <1>3, <2>2, OneSpeed
    <3> HIDE DEF f
    <3>2. q \in Seq(Command) /\ Avoids(Wakes(t), q)
      BY <1>1, <1>3, <3>1, AvoidsJoined, Joined
    <3>3. Pipeline' = Pipeline \o q
      BY <2>2 DEF f
    <3> HIDE DEF q
    <3>4. Delivers(t, 0, Wakes(t))'
      BY <1>1, <1>3, <3>2, <3>3, DeliversMore
    <3> QED BY <2>2, <3>4
  <2> QED BY <1>1, <2>1, <2>2
<1>4. ASSUME NEW t \in Throttle, p = None, Avoids(Wakes(t), d.out), Has(Settles(t, 0), d.out)
      PROVE  /\ state'.pending_speed # None => state'.pending_speed.throttle # t
             /\ Delivers(t, 0, Wakes(t))'
  BY <1>1, <1>4, DeliversAnew
<1> SUFFICES ASSUME NEW t \in Throttle, intent'.wanted[t] = 0
             PROVE  /\ state'.pending_speed # None => state'.pending_speed.throttle # t
                    /\ Delivers(t, 0, Wakes(t))'
  BY DEF StopHeld
<1>5. CASE \E T \in SUBSET Throttle : Keeps(d, T)
  <2>1. PICK T \in SUBSET Throttle : Keeps(d, T)
    BY <1>5
  <2>2. t \notin T /\ intent.wanted[t] = 0
    BY <1>2, <2>1 DEF Keeps
  <2>3. Avoids(Wakes(t), d.out)
    BY <2>1, <2>2, SpeaksSpoil, AvoidsLess DEF Keeps
  <2>4. p = state.pending_speed
    BY <2>1 DEF Keeps
  <2> QED BY <1>3, <2>2, <2>3, <2>4 DEF StopHeld
<1>6. CASE \E u \in Throttle, v \in Speed : Asks(d, u, v)
  <2>1. PICK u \in Throttle, v \in Speed : Asks(d, u, v)
    BY <1>6
  <2>2. CASE u = t
    <3>1. v = 0
      BY <1>2, <2>1, <2>2 DEF Asks
    <3>2. PICK c \in Settles(t, 0) : d.out = <<c>> /\ p = None
      BY <2>1, <2>2, <3>1 DEF Asks
    <3>3. Avoids(Wakes(t), d.out) /\ Has(Settles(t, 0), d.out)
      BY <1>2, <3>2, SettledOne
    <3> QED BY <1>4, <3>2, <3>3
  <2>3. CASE u # t
    <3>1. intent.wanted[t] = 0
      BY <1>2, <2>1, <2>3 DEF Asks
    <3>2. Avoids(Wakes(t), d.out) /\ (p # None => p.throttle # t)
      <4>1. CASE \E c \in Settles(u, v) : d.out = <<c>> /\ p = None
        <5>1. PICK c \in Settles(u, v) : d.out = <<c>> /\ p = None
          BY <4>1
        <5> QED BY <2>3, <5>1, SettledOne
      <4>2. CASE d.out = <<>> /\ p = [throttle |-> u, speed |-> v]
        BY <2>3, <4>2, AvoidsEmpty
      <4> QED BY <2>1, <4>1, <4>2 DEF Asks
    <3> QED BY <1>3, <3>1, <3>2 DEF StopHeld
  <2> QED BY <2>2, <2>3
<1>7. CASE \E S \in SUBSET Throttle : Halts(d, S)
  <2>1. PICK S \in SUBSET Throttle : Halts(d, S)
    BY <1>7
  <2>2. p = None /\ Avoids(Wakes(t), d.out)
    BY <2>1 DEF Halts, Avoids, Wakes, Adds, Moves
  <2>3. CASE t \in S
    BY <1>4, <2>1, <2>2, <2>3 DEF Halts
  <2>4. CASE t \notin S
    <3>1. intent.wanted[t] = 0
      BY <2>1, <2>4 DEF Halts
    <3> QED BY <1>3, <2>2, <3>1 DEF StopHeld
  <2> QED BY <2>3, <2>4
<1> QED BY <1>5, <1>6, <1>7 DEF Drives

LEMMA DrivesLast ==
  ASSUME TypeOK, LastHeld, NEW d \in Domain, Drives(d)
  PROVE  LastHeld'
<1> DEFINE p == d.pending_speed
<1>1. /\ Pipeline \in Seq(Command) /\ d.out \in Seq(Command)
      /\ UNCHANGED <<served, locoSpeed>>
      /\ \/ Pipeline' = Pipeline \o d.out /\ state'.pending_speed = p
         \/ /\ p # None /\ p.throttle \in Throttle /\ p.speed \in Speed
            /\ state'.pending_speed = None
            /\ Pipeline' = Pipeline \o (d.out \o <<SetSpeed(p.throttle, p.speed)>>)
  BY Pushed DEF Drives
<1>2. /\ intent.wanted \in [Throttle -> Speed \cup {None}] /\ 0 \in Speed
      /\ intent.touched \in Throttle \cup {None} /\ None \notin Throttle
      /\ \A t \in Throttle, v \in Speed : [throttle |-> t, speed |-> v] # None
  BY NoneAssumption, DomainAssumption DEF Speed, TypeOK, Intent
\* The speed is coalesced, and nothing that adds to the throttle is pushed.
<1>3. ASSUME NEW t \in Throttle, NEW v \in Speed, p = [throttle |-> t, speed |-> v],
             Avoids(Spoils(t, v), d.out)
      PROVE  Heard(t, v)'
  <2>1. CASE Pipeline' = Pipeline \o d.out /\ state'.pending_speed = p
    BY <1>2, <1>3, <2>1 DEF Heard
  <2>2. CASE /\ p # None /\ p.throttle \in Throttle /\ p.speed \in Speed
             /\ state'.pending_speed = None
             /\ Pipeline' = Pipeline \o (d.out \o <<SetSpeed(p.throttle, p.speed)>>)
    <3> DEFINE f == <<SetSpeed(p.throttle, p.speed)>>
               q == d.out \o f
    <3>1. f \in Seq(Command) /\ Avoids(Spoils(t, v), f) /\ Has(Settles(t, v), f)
      BY <1>3, OneSpeed
    <3> HIDE DEF f
    <3>2. q \in Seq(Command) /\ Avoids(Spoils(t, v), q) /\ Has(Settles(t, v), q)
      BY <1>1, <1>3, <3>1, AvoidsJoined, HasJoined, Joined
    <3>3. Pipeline' = Pipeline \o q
      BY <2>2 DEF f
    <3> HIDE DEF q
    <3>4. Delivers(t, v, Spoils(t, v))'
      BY <1>1, <3>2, <3>3, DeliversAnew
    <3> QED BY <2>2, <3>4 DEF Heard
  <2> QED BY <1>1, <2>1, <2>2
<1>4. ASSUME NEW t \in Throttle, NEW v \in Speed, p = None,
             Avoids(Spoils(t, v), d.out),
             Has(Settles(t, v), d.out) \/ Delivers(t, v, Spoils(t, v))
      PROVE  Heard(t, v)'
  <2>1. Pipeline' = Pipeline \o d.out /\ state'.pending_speed = None
    BY <1>1, <1>4
  <2>2. Delivers(t, v, Spoils(t, v))'
    BY <1>1, <1>4, <2>1, DeliversAnew, DeliversMore
  <2> QED BY <2>1, <2>2 DEF Heard
<1> SUFFICES ASSUME NEW t \in Throttle, NEW v \in Speed \cup {None},
                    intent'.touched = t, intent'.wanted[t] = v
             PROVE  v \in Speed /\ Heard(t, v)'
  BY DEF LastHeld
<1>5. CASE \E T \in SUBSET Throttle : Keeps(d, T)
  <2>1. PICK T \in SUBSET Throttle : Keeps(d, T)
    BY <1>5
  <2>2. t = intent.touched /\ t \notin T
    BY <1>2, <2>1 DEF Keeps
  <2>3. intent.wanted[t] = v
    BY <2>1, <2>2 DEF Keeps
  <2>4. v \in Speed /\ Heard(t, v)
    BY <2>2, <2>3 DEF LastHeld
  <2>5. Avoids(Spoils(t, v), d.out)
    BY <2>1, <2>2, SpeaksSpoil, AvoidsLess DEF Keeps
  <2>6. p = state.pending_speed
    BY <2>1 DEF Keeps
  <2>7. IF p = None THEN Delivers(t, v, Spoils(t, v)) ELSE p = [throttle |-> t, speed |-> v]
    BY <2>4, <2>6 DEF Heard
  <2> QED BY <1>3, <1>4, <2>4, <2>5, <2>7
<1>6. CASE \E u \in Throttle, x \in Speed : Asks(d, u, x)
  <2>1. PICK u \in Throttle, x \in Speed : Asks(d, u, x)
    BY <1>6
  <2>2. t = u /\ v = x
    BY <1>2, <2>1 DEF Asks
  <2>3. CASE \E c \in Settles(t, v) : d.out = <<c>> /\ p = None
    <3>1. PICK c \in Settles(t, v) : d.out = <<c>> /\ p = None
      BY <2>3
    <3>2. Avoids(Spoils(t, v), d.out) /\ Has(Settles(t, v), d.out)
      BY <2>2, <3>1, SettledOne
    <3> QED BY <1>4, <2>2, <3>1, <3>2
  <2>4. CASE d.out = <<>> /\ p = [throttle |-> t, speed |-> v]
    BY <1>3, <2>2, <2>4, AvoidsEmpty
  <2> QED BY <2>1, <2>2, <2>3, <2>4 DEF Asks
<1>7. CASE \E S \in SUBSET Throttle : Halts(d, S)
  <2>1. PICK S \in SUBSET Throttle : Halts(d, S)
    BY <1>7
  <2>2. t \in S /\ v = 0
    BY <1>2, <2>1 DEF Halts
  <2>3. p = None /\ Has(Settles(t, 0), d.out)
    BY <2>1, <2>2 DEF Halts
  <2>4. Avoids(Spoils(t, 0), d.out)
    BY <2>1 DEF Halts, Avoids, Spoils, Adds, Value
  <2> QED BY <1>2, <1>4, <2>2, <2>3, <2>4
<1> QED BY <1>5, <1>6, <1>7 DEF Drives

-----------------------------------------------------------------------------
(* Preservation by the flush, the session and the station.                 *)

\* A step that takes wishes back keeps the others, when it keeps each of them.
LEMMA HeldForgets ==
  ASSUME TypeOK, NEW T \in SUBSET Throttle,
         state'.pending_speed = state.pending_speed,
         intent'.wanted = [t \in Throttle |-> IF t \in T THEN None ELSE intent.wanted[t]],
         intent'.touched = IF intent.touched \in T THEN None ELSE intent.touched,
         \A t \in Throttle \ T :
           intent.wanted[t] = 0 /\ Delivers(t, 0, Wakes(t)) => Delivers(t, 0, Wakes(t))',
         \A t \in Throttle \ T, v \in Speed :
           intent.wanted[t] = v /\ Delivers(t, v, Spoils(t, v)) => Delivers(t, v, Spoils(t, v))'
  PROVE  (StopHeld => StopHeld') /\ (LastHeld => LastHeld')
<1>1. None # 0 /\ None \notin Throttle /\ intent.touched \in Throttle \cup {None}
  BY NoneAssumption, DomainAssumption DEF Speed, TypeOK, Intent
<1>2. ASSUME StopHeld PROVE StopHeld'
  <2> SUFFICES ASSUME NEW t \in Throttle, intent'.wanted[t] = 0
               PROVE  /\ state'.pending_speed # None => state'.pending_speed.throttle # t
                      /\ Delivers(t, 0, Wakes(t))'
    BY DEF StopHeld
  <2>1. t \notin T /\ intent.wanted[t] = 0
    BY <1>1
  <2> QED BY <1>2, <2>1 DEF StopHeld
<1>3. ASSUME LastHeld PROVE LastHeld'
  <2> SUFFICES ASSUME NEW t \in Throttle, NEW v \in Speed \cup {None},
                      intent'.touched = t, intent'.wanted[t] = v
               PROVE  v \in Speed /\ Heard(t, v)'
    BY DEF LastHeld
  <2>1. t \in Throttle \ T /\ intent.touched = t /\ intent.wanted[t] = v
    BY <1>1
  <2>2. v \in Speed /\ Heard(t, v)
    BY <1>3, <2>1 DEF LastHeld
  <2> QED BY <2>1, <2>2 DEF Heard
<1> QED BY <1>2, <1>3

LEMMA HeldSame ==
  ASSUME TypeOK, Pipeline' = Pipeline, UNCHANGED <<served, locoSpeed>>,
         state'.pending_speed = state.pending_speed,
         intent'.wanted = intent.wanted, intent'.touched = intent.touched
  PROVE  (StopHeld => StopHeld') /\ (LastHeld => LastHeld')
<1>1. ASSUME NEW t, NEW v, NEW M, Delivers(t, v, M) PROVE Delivers(t, v, M)'
  BY <1>1 DEF Delivers, Runs
<1> DEFINE T == {}
<1>2. /\ T \in SUBSET Throttle
      /\ intent'.wanted = [t \in Throttle |-> IF t \in T THEN None ELSE intent.wanted[t]]
      /\ intent'.touched = IF intent.touched \in T THEN None ELSE intent.touched
  BY DEF TypeOK, Intent
<1> HIDE DEF T
<1> QED BY <1>1, <1>2, HeldForgets

LEMMA FlushSendKeeps ==
  ASSUME TypeOK, FlushSend
  PROVE  /\ Pipeline' = Pipeline
         /\ state'.pending_speed = state.pending_speed /\ state'.throttles = state.throttles
<1> DEFINE o == state.out
<1>1. /\ state \in Domain /\ cmds \in Seq(Command) /\ o \in Seq(Command) /\ o # <<>>
  BY DEF TypeOK, Domain, FlushSend
<1>2. /\ state'.out = Tail(o) /\ state'.pending_speed = state.pending_speed
      /\ state'.throttles = state.throttles
  BY <1>1 DEF FlushSend, Domain
<1>3. cmds' = Append(cmds, Head(o))
  BY DEF FlushSend
<1> HIDE DEF o
<1>4. Append(cmds, Head(o)) \o Tail(o) = cmds \o o
  BY <1>1
<1> QED BY <1>2, <1>3, <1>4 DEF Pipeline, o

LEMMA LostTakes ==
  ASSUME TypeOK, NEW i \in 1..Len(state.out), Lost(i)
  PROVE  LET c == state.out[i]
             n == Len(cmds) + i
             S == IF IsSpeed(c) THEN {c.throttle} ELSE {}
         IN  /\ Pipeline \in Seq(Command) /\ n \in 1..Len(Pipeline) /\ Pipeline[n] = c
             /\ Pipeline' = WithoutIndex(Pipeline, n)
             /\ state'.pending_speed = state.pending_speed
             /\ state'.throttles = state.throttles
             /\ S \in SUBSET Throttle
             /\ intent'.wanted = [t \in Throttle |-> IF t \in S THEN None ELSE intent.wanted[t]]
             /\ intent'.touched = IF intent.touched \in S THEN None ELSE intent.touched
             /\ intent'.lossless = FALSE
<1> DEFINE o == state.out
           c == o[i]
           n == Len(cmds) + i
           S == IF IsSpeed(c) THEN {c.throttle} ELSE {}
<1>1. /\ state \in Domain /\ cmds \in Seq(Command) /\ o \in Seq(Command) /\ c \in Command
      /\ intent \in Intent /\ cmds' = cmds
  BY DEF TypeOK, Domain, Lost
<1>2. /\ state'.out = WithoutIndex(o, i) /\ state'.pending_speed = state.pending_speed
      /\ state'.throttles = state.throttles
  BY <1>1 DEF Lost, Domain
<1>3. S \in SUBSET Throttle
  BY <1>1 DEF IsSpeed, Command
<1>4. /\ intent'.wanted = Forgotten(S).wanted /\ intent'.touched = Forgotten(S).touched
      /\ intent'.lossless = FALSE
  <2>1. intent' = [Forgotten(S) EXCEPT !.halted = Forgotten(S).halted \ S, !.lossless = FALSE]
    BY DEF Lost, IsSpeed
  <2>2. Forgotten(S) \in Intent
    BY <1>3, ForgottenType
  <2> HIDE DEF S
  <2> QED BY <2>1, <2>2 DEF Intent
<1>5. Pipeline' = WithoutIndex(Pipeline, n)
  BY <1>1, <1>2, WithoutLater DEF Pipeline
<1>6. /\ Pipeline \in Seq(Command) /\ n \in 1..Len(Pipeline) /\ Pipeline[n] = c
  <2>1. /\ cmds \o o \in Seq(Command) /\ DOMAIN (cmds \o o) = 1..(Len(cmds) + Len(o))
        /\ \A k \in 1..Len(o) : (cmds \o o)[Len(cmds) + k] = o[k]
        /\ Len(cmds) \in Nat /\ Len(o) \in Nat
    BY <1>1, Joined
  <2>2. Len(cmds \o o) = Len(cmds) + Len(o)
    BY <1>1, ConcatProperties
  <2>3. n \in 1..(Len(cmds) + Len(o))
    BY <2>1
  <2> QED BY <2>1, <2>2, <2>3 DEF Pipeline
<1> HIDE DEF S
<1> QED BY <1>2, <1>3, <1>4, <1>5, <1>6, ForgottenFields DEF S

LEMMA LostHeld ==
  ASSUME TypeOK, NEW i \in 1..Len(state.out), Lost(i)
  PROVE  (StopHeld => StopHeld') /\ (LastHeld => LastHeld')
<1> DEFINE c == state.out[i]
           n == Len(cmds) + i
           S == IF IsSpeed(c) THEN {c.throttle} ELSE {}
<1>1. /\ Pipeline \in Seq(Command) /\ n \in 1..Len(Pipeline) /\ Pipeline[n] = c
      /\ Pipeline' = WithoutIndex(Pipeline, n)
      /\ state'.pending_speed = state.pending_speed
      /\ S \in SUBSET Throttle
      /\ intent'.wanted = [t \in Throttle |-> IF t \in S THEN None ELSE intent.wanted[t]]
      /\ intent'.touched = IF intent.touched \in S THEN None ELSE intent.touched
  BY LostTakes
<1>2. UNCHANGED <<served, locoSpeed>>
  BY DEF Lost
<1>3. ASSUME NEW t \in Throttle \ S, NEW v, NEW M, Delivers(t, v, M)
      PROVE  Delivers(t, v, M)'
  <2>1. c \notin Settles(t, v)
    BY <1>3 DEF Settles
  <2>2. Followed(M, Settles(t, v), WithoutIndex(Pipeline, n))
    BY <1>1, <1>3, <2>1, FollowedWithout DEF Delivers
  <2>3. Has(Settles(t, v), Pipeline) => Has(Settles(t, v), WithoutIndex(Pipeline, n))
    BY <1>1, <2>1, HasWithout
  <2> QED BY <1>1, <1>2, <1>3, <2>2, <2>3 DEF Delivers, Runs
<1> HIDE DEF S, c, n
<1> QED BY <1>1, <1>3, HeldForgets

\* What forwarding a command does to the pipeline and to the station.
LEMMA Forwarded ==
  ASSUME TypeOK, SessionForward
  PROVE  LET c == Head(cmds)
             T == IF IsSpeed(c) THEN Overruled(c.throttle, Value(c)) ELSE {}
         IN  /\ Pipeline \in Seq(Command) /\ Pipeline # <<>>
             /\ c = Head(Pipeline) /\ c \in Command
             /\ Pipeline' = Tail(Pipeline) /\ Tail(Pipeline) = Tail(cmds) \o state.out
             /\ state' = state
             /\ T \in SUBSET Throttle
             /\ intent'.wanted = [t \in Throttle |-> IF t \in T THEN None ELSE intent.wanted[t]]
             /\ intent'.touched = IF intent.touched \in T THEN None ELSE intent.touched
             /\ \A t \in Throttle : served'[t] \subseteq served[t] \/ c \in Adds(t)
             /\ IF IsSpeed(c)
                  THEN /\ served' = served
                       /\ locoSpeed' = [l \in Locos |->
                            IF l \in served[c.throttle] THEN Value(c) ELSE locoSpeed[l]]
                  ELSE locoSpeed' = locoSpeed
<1> DEFINE c == Head(cmds)
           o == state.out
           T == IF IsSpeed(c) THEN Overruled(c.throttle, Value(c)) ELSE {}
<1>1. /\ cmds \in Seq(Command) /\ cmds # <<>> /\ cmds' = Tail(cmds) /\ state' = state
      /\ o \in Seq(Command)
  BY DEF TypeOK, Domain, SessionForward
<1>2. /\ Tail(cmds) \o o = Tail(cmds \o o) /\ cmds \o o \in Seq(Command)
      /\ cmds \o o # <<>> /\ Head(cmds \o o) = c /\ c \in Command
  <2> HIDE DEF o
  <2>1. Tail(cmds) \o o = Tail(cmds \o o)
    BY <1>1
  <2>2. cmds \o o \in Seq(Command) /\ Len(cmds \o o) = Len(cmds) + Len(o) /\ Len(cmds) > 0
        /\ Len(o) \in Nat
    BY <1>1, ConcatProperties
  <2>3. cmds \o o # <<>>
    BY <2>2
  <2>4. Head(cmds \o o) = c
    BY <1>1
  <2> QED BY <1>1, <2>1, <2>2, <2>3, <2>4
<1>3. T \in SUBSET Throttle
  BY DEF Overruled
<1>4. ASSUME NEW wish \in Intent, NEW evs, Emit(evs, wish)
      PROVE  intent'.wanted = wish.wanted /\ intent'.touched = wish.touched
  BY <1>4 DEF Emit, Intent
<1>5. /\ intent \in Intent /\ served \in [Throttle -> SUBSET Locos]
      /\ intent.wanted = [t \in Throttle |-> intent.wanted[t]]
  BY DEF TypeOK, Intent
<1> DEFINE Rest ==
      /\ intent'.wanted = [t \in Throttle |-> IF t \in T THEN None ELSE intent.wanted[t]]
      /\ intent'.touched = IF intent.touched \in T THEN None ELSE intent.touched
      /\ \A t \in Throttle : served'[t] \subseteq served[t] \/ c \in Adds(t)
      /\ IF IsSpeed(c)
           THEN /\ served' = served
                /\ locoSpeed' = [l \in Locos |->
                     IF l \in served[c.throttle] THEN Value(c) ELSE locoSpeed[l]]
           ELSE locoSpeed' = locoSpeed
<1>6. ASSUME StationAdd(c) PROVE Rest
  <2>1. ~IsSpeed(c) /\ c \in Adds(c.throttle) /\ T = {}
    BY <1>2, <1>6 DEF StationAdd, IsSpeed, Adds
  <2>2. intent'.wanted = intent.wanted /\ intent'.touched = intent.touched
    BY <1>4, <1>5, <1>6 DEF StationAdd
  <2>3. \A t \in Throttle : served'[t] \subseteq served[t] \/ c \in Adds(t)
    BY <1>5, <1>6, <2>1 DEF StationAdd
  <2>4. locoSpeed' = locoSpeed
    BY <1>6 DEF StationAdd
  <2> HIDE DEF T, c
  <2> QED BY <1>5, <2>1, <2>2, <2>3, <2>4
<1>7. ASSUME StationRelease(c) PROVE Rest
  <2>1. ~IsSpeed(c) /\ T = {}
    BY <1>2, <1>7 DEF StationRelease, IsSpeed
  <2>2. intent'.wanted = intent.wanted /\ intent'.touched = intent.touched
    BY <1>4, <1>5, <1>7 DEF StationRelease
  <2>3. \A t \in Throttle : served'[t] \subseteq served[t]
    BY <1>5, <1>7 DEF StationRelease
  <2>4. locoSpeed' = locoSpeed
    BY <1>7 DEF StationRelease
  <2> HIDE DEF T, c
  <2> QED BY <1>5, <2>1, <2>2, <2>3, <2>4
<1>8. ASSUME StationSpeed(c) PROVE Rest
  <2>1. IsSpeed(c) /\ T = Overruled(c.throttle, Value(c))
    BY <1>8 DEF StationSpeed, IsSpeed
  <2>2. Forgotten(T) \in Intent
    BY <1>3, ForgottenType
  <2>3. /\ served' = served
        /\ locoSpeed' = [l \in Locos |->
             IF l \in served[c.throttle] THEN Value(c) ELSE locoSpeed[l]]
        /\ \E evs : Emit(evs, Forgotten(T))
    BY <1>8, <2>1 DEF StationSpeed, Value
  <2> HIDE DEF T, c
  <2>4. intent'.wanted = Forgotten(T).wanted /\ intent'.touched = Forgotten(T).touched
    BY <1>4, <2>2, <2>3
  <2> QED BY <2>1, <2>3, <2>4, ForgottenFields
<1>9. ASSUME StationOther(c) PROVE Rest
  <2>1. /\ ~IsSpeed(c) /\ T = {} /\ intent' = intent /\ served' = served
        /\ locoSpeed' = locoSpeed
    BY <1>9 DEF StationOther, IsSpeed
  <2> HIDE DEF T, c
  <2> QED BY <1>5, <2>1
<1>10. Rest
  BY <1>6, <1>7, <1>8, <1>9 DEF SessionForward
<1> HIDE DEF T, c
<1> QED BY <1>1, <1>2, <1>3, <1>10 DEF Pipeline, T, c

\* The head of the pipeline reaches the station.
LEMMA DeliversNext ==
  ASSUME NEW t, NEW v, NEW M, Delivers(t, v, M),
         Pipeline \in Seq(Command), Pipeline # <<>>, Pipeline' = Tail(Pipeline),
         Head(Pipeline) \in Settles(t, v) => Runs(t, v)',
         Runs(t, v) /\ Head(Pipeline) \notin M /\ ~Has(Settles(t, v), Tail(Pipeline))
           => Runs(t, v)'
  PROVE  Delivers(t, v, M)'
<1>1. /\ Followed(M, Settles(t, v), Tail(Pipeline))
      /\ Head(Pipeline) \in M => Has(Settles(t, v), Tail(Pipeline))
  BY FollowedTail DEF Delivers
<1>2. Has(Settles(t, v), Pipeline) =>
        Head(Pipeline) \in Settles(t, v) \/ Has(Settles(t, v), Tail(Pipeline))
  BY HasTail
<1> QED BY <1>1, <1>2 DEF Delivers

LEMMA SessionHeld ==
  ASSUME TypeOK, SessionForward
  PROVE  (StopHeld => StopHeld') /\ (LastHeld => LastHeld')
<1> DEFINE c == Head(cmds)
           T == IF IsSpeed(c) THEN Overruled(c.throttle, Value(c)) ELSE {}
<1>1. /\ Pipeline \in Seq(Command) /\ Pipeline # <<>>
      /\ c = Head(Pipeline) /\ c \in Command
      /\ Pipeline' = Tail(Pipeline) /\ Tail(Pipeline) = Tail(cmds) \o state.out
      /\ state' = state
      /\ T \in SUBSET Throttle
      /\ intent'.wanted = [t \in Throttle |-> IF t \in T THEN None ELSE intent.wanted[t]]
      /\ intent'.touched = IF intent.touched \in T THEN None ELSE intent.touched
      /\ \A t \in Throttle : served'[t] \subseteq served[t] \/ c \in Adds(t)
      /\ IF IsSpeed(c)
           THEN /\ served' = served
                /\ locoSpeed' = [l \in Locos |->
                     IF l \in served[c.throttle] THEN Value(c) ELSE locoSpeed[l]]
           ELSE locoSpeed' = locoSpeed
  BY Forwarded
<1>2. served \in [Throttle -> SUBSET Locos] /\ locoSpeed \in [Locos -> Speed]
  BY DEF TypeOK
\* The command that settles it is obeyed.
<1>3. ASSUME NEW t \in Throttle, NEW v, c \in Settles(t, v) PROVE Runs(t, v)'
  BY <1>1, <1>2, <1>3 DEF Runs, Settles
<1>4. ASSUME NEW t \in Throttle, NEW v, Runs(t, v), ~IsSpeed(c), c \notin Adds(t)
      PROVE  Runs(t, v)'
  BY <1>1, <1>2, <1>4 DEF Runs
<1>5. ASSUME NEW t \in Throttle, NEW v, Runs(t, v), IsSpeed(c), Value(c) = v
      PROVE  Runs(t, v)'
  BY <1>1, <1>2, <1>5 DEF Runs
\* Another throttle sets a loco of a stopped one in motion.
<1>6. ASSUME NEW t \in Throttle \ T, intent.wanted[t] = 0, Runs(t, 0),
             c \notin Wakes(t), ~Has(Settles(t, 0), Tail(Pipeline)),
             IsSpeed(c), Value(c) # 0
      PROVE  Runs(t, 0)'
  <2> DEFINE still == Tail(cmds) \o state.out
  <2>1. c.op = "SetSpeed" /\ c.throttle \in Throttle /\ c.speed \in Speed /\ Value(c) = c.speed
    BY <1>1, <1>6 DEF IsSpeed, Value, Command
  <2>2. c.speed > 0
    BY <1>6, <2>1 DEF Speed
  <2>3. c.throttle # t
    BY <1>1, <1>6, <2>1, <2>2 DEF Wakes, Moves
  <2>4. still \in Seq(Command) /\ still = Tail(Pipeline)
    <3>1. still = Tail(Pipeline)
      BY <1>1
    <3>2. Tail(Pipeline) \in Seq(Command)
      BY <1>1, TailOf
    <3> QED BY <3>1, <3>2
  <2>5. \A i \in DOMAIN still : ~Stops(t, still[i])
    <3>1. ASSUME NEW i \in DOMAIN still, Stops(t, still[i]) PROVE FALSE
      <4>1. still[i] \in Command
        BY <2>4
      <4>2. still[i] \in Settles(t, 0)
        BY <3>1, <4>1 DEF Stops, Settles, IsSpeed, Value
      <4> QED BY <1>6, <2>4, <4>2 DEF Has
    <3> QED BY <3>1
  <2>6. t \notin Overruled(c.throttle, Value(c))
    BY <1>6
  <2>7. served[t] \cap served[c.throttle] = {}
    BY <1>6, <2>1, <2>2, <2>3, <2>5, <2>6 DEF Overruled
  <2> QED BY <1>1, <1>2, <1>6, <2>7 DEF Runs
<1> HIDE DEF T, c
<1>7. ASSUME NEW t \in Throttle \ T, intent.wanted[t] = 0, Delivers(t, 0, Wakes(t))
      PROVE  Delivers(t, 0, Wakes(t))'
  <2>1. ASSUME Runs(t, 0), c \notin Wakes(t), ~Has(Settles(t, 0), Tail(Pipeline))
        PROVE  Runs(t, 0)'
    <3>1. c \notin Adds(t)
      BY <2>1 DEF Wakes
    <3> QED BY <1>4, <1>5, <1>6, <1>7, <2>1, <3>1
  <2> QED BY <1>1, <1>3, <1>7, <2>1, DeliversNext
<1>8. ASSUME NEW t \in Throttle, NEW v, Delivers(t, v, Spoils(t, v))
      PROVE  Delivers(t, v, Spoils(t, v))'
  <2>1. ASSUME Runs(t, v), c \notin Spoils(t, v) PROVE Runs(t, v)'
    <3>1. c \notin Adds(t) /\ (IsSpeed(c) => Value(c) = v)
      BY <1>1, <2>1 DEF Spoils
    <3> QED BY <1>4, <1>5, <2>1, <3>1
  <2> QED BY <1>1, <1>3, <1>8, <2>1, DeliversNext
<1>9. state'.pending_speed = state.pending_speed
  BY <1>1
<1> QED BY <1>1, <1>7, <1>8, <1>9, HeldForgets

LEMMA ForeignHeld ==
  ASSUME TypeOK, NEW t \in Throttle, NEW l \in Locos, NEW s \in Speed, ForeignSpeed(t, l, s)
  PROVE  (StopHeld => StopHeld') /\ (LastHeld => LastHeld')
<1> DEFINE T == {u \in Throttle : l \in served[u]}
<1>1. /\ UNCHANGED <<state, cmds, served>> /\ locoSpeed' = [locoSpeed EXCEPT ![l] = s]
      /\ intent' = Forgotten(T) /\ T \in SUBSET Throttle
  BY DEF ForeignSpeed
<1>2. Pipeline' = Pipeline
  BY <1>1 DEF Pipeline
<1>3. served \in [Throttle -> SUBSET Locos] /\ locoSpeed \in [Locos -> Speed]
  BY DEF TypeOK
<1>4. ASSUME NEW u \in Throttle \ T, NEW v, NEW M, Delivers(u, v, M) PROVE Delivers(u, v, M)'
  <2>1. Runs(u, v) => Runs(u, v)'
    BY <1>1, <1>3 DEF Runs
  <2> QED BY <1>2, <1>4, <2>1 DEF Delivers
<1> HIDE DEF T
<1> QED BY <1>1, <1>4, ForgottenFields, HeldForgets

-----------------------------------------------------------------------------
(* The consists.                                                           *)

LEMMA UserHandles ==
  ASSUME TypeOK, Trains(state), User
  PROVE  \E d \in Domain : Iteration(d) /\ Handles(state, d)
<1>1. /\ state \in Domain /\ cur = state.current /\ cur \in Throttle
      /\ Speed \in SUBSET Nat /\ 0 \in Nat
  BY CurrentSlot DEF TypeOK, cur, Speed
<1>2. ASSUME NEW d, Iteration(d) PROVE state.out = <<>>
  BY <1>2 DEF Iteration
<1>3. ASSUME NEW s \in Nat, Iteration(SpeedSet(state, s))
      PROVE  \E d \in Domain : Iteration(d) /\ Handles(state, d)
  BY <1>1, <1>2, <1>3, SpeedSetType, SpeedSetHandles
<1>4. ASSUME NEW dir \in Direction, Iteration(ChangeDirection(state, cur, dir))
      PROVE  \E d \in Domain : Iteration(d) /\ Handles(state, d)
  BY <1>1, <1>2, <1>4, ChangeDirectionType, DirectionHandles
<1>5. ASSUME NEW t \in Throttle,
             NEW d \in {CycleSpeedMultiplier(state), NextThrottle(state), SelectThrottle(state, t)},
             Iteration(d)
      PROVE  \E e \in Domain : Iteration(e) /\ Handles(state, e)
  <2>1. d \in Domain
    BY <1>1, CycleSpeedMultiplierType, NextThrottleType, SelectThrottleType
  <2>2. Handles(state, d)
    BY <1>1, <1>2, <1>5, SelectionOut, IdleHandles
  <2> QED BY <1>5, <2>1, <2>2
<1>6. ASSUME NEW s \in Speed, UserSpeedSet(s)
      PROVE  \E d \in Domain : Iteration(d) /\ Handles(state, d)
  BY <1>1, <1>3, <1>6 DEF UserSpeedSet
<1>7. ASSUME NEW fast \in BOOLEAN, UserSpeedUp(fast) \/ UserSpeedDown(fast)
      PROVE  \E d \in Domain : Iteration(d) /\ Handles(state, d)
  <2> DEFINE v == state.throttles[state.current].speed
             step == EffectiveSpeedStep(state, fast)
             up == v + step
             down == IF step >= v THEN 0 ELSE v - step
  <2>1. up \in Nat /\ down \in Nat
    <3>1. v \in Nat /\ step \in Nat
      BY <1>1, CurrentSlot, StepType, DomainAssumption DEF Slot, Speed
    <3> QED BY <3>1
  <2>2. SpeedUp(state, fast) = SpeedSet(state, up) /\ SpeedDown(state, fast) = SpeedSet(state, down)
    BY DEF SpeedUp, SpeedDown
  <2> HIDE DEF up, down
  <2> QED BY <1>3, <1>7, <2>1, <2>2 DEF UserSpeedUp, UserSpeedDown
<1>8. ASSUME UserStopThenToggle
      PROVE  \E d \in Domain : Iteration(d) /\ Handles(state, d)
  <2>1. Opposite(state.throttles[cur].direction) \in Direction
    BY <1>1, CurrentSlot, OppositeType DEF Slot
  <2>2. \/ Iteration(SpeedSet(state, 0))
        \/ Iteration(ChangeDirection(state, cur, Opposite(state.throttles[cur].direction)))
    BY <1>1, <1>8 DEF UserStopThenToggle, StopThenToggleDirection
  <2> QED BY <1>1, <1>3, <1>4, <2>1, <2>2
<1>9. ASSUME NEW f \in Functions, UserFunction(f)
      PROVE  \E d \in Domain : Iteration(d) /\ Handles(state, d)
  <2>1. Iteration(ToggleFunction(state, f)) /\ ToggleFunction(state, f) \in Domain
    BY <1>1, <1>9, ToggleFunctionType DEF UserFunction
  <2> QED BY <1>1, <1>2, <2>1, ToggleFunctionOut, AppendsHandles
<1>10. ASSUME UserPower
       PROVE  \E d \in Domain : Iteration(d) /\ Handles(state, d)
  <2>1. Iteration(PowerToggle(state)) /\ PowerToggle(state) \in Domain
    BY <1>1, <1>10, PowerToggleType DEF UserPower
  <2> QED BY <1>1, <1>2, <2>1, PowerToggleOut, AppendsHandles
<1>11. ASSUME UserEStop
       PROVE  \E d \in Domain : Iteration(d) /\ Handles(state, d)
  <2>1. PICK order \in Orders : Iteration(EStopAll(state, order))
    BY <1>11 DEF UserEStop
  <2> QED BY <1>1, <1>2, <2>1, OrdersType, EStopAllType, EStopHandles
<1>12. ASSUME UserEStopCurrent
       PROVE  \E d \in Domain : Iteration(d) /\ Handles(state, d)
  BY <1>1, <1>2, <1>12, EStopCurrentType, EStopHandles DEF UserEStopCurrent
<1>13. ASSUME NEW n \in 1..MaxThrottles, UserMaxThrottles(n)
       PROVE  \E d \in Domain : Iteration(d) /\ Handles(state, d)
  <2>1. PICK order \in Orders :
          TrimOrder(state, n, order) /\ Iteration(SetMaxThrottles(state, n, order))
    BY <1>13 DEF UserMaxThrottles
  <2> QED BY <1>1, <1>2, <2>1, OrdersType, SetMaxThrottlesType, TrimHandles
<1>14. ASSUME NEW l \in Locos, NEW spdt \in Direction, UserAcquire(l, spdt)
       PROVE  \E d \in Domain : Iteration(d) /\ Handles(state, d)
  BY <1>1, <1>2, <1>14, AcquireFromUiType, AcquireHandles DEF UserAcquire
<1>15. ASSUME UserRelease
       PROVE  \E d \in Domain : Iteration(d) /\ Handles(state, d)
  BY <1>1, <1>2, <1>15, ReleaseType, ReleaseHandles DEF UserRelease, ReleaseAll
<1>16. ASSUME UserMultiplier \/ UserNextThrottle \/ \E t \in Throttle : UserThrottle(t)
       PROVE  \E d \in Domain : Iteration(d) /\ Handles(state, d)
  BY <1>1, <1>5, <1>16 DEF UserMultiplier, UserNextThrottle, UserThrottle
<1>17. ASSUME NEW dir \in Direction, UserDirection(dir)
       PROVE  \E d \in Domain : Iteration(d) /\ Handles(state, d)
  BY <1>4, <1>17 DEF UserDirection
<1> QED
  BY <1>6, <1>7, <1>8, <1>9, <1>10, <1>11, <1>12, <1>13, <1>14, <1>15, <1>16, <1>17
     DEF User

LEMMA NextTrains ==
  ASSUME TypeOK, Trains(state), [Next]_vars
  PROVE  Trains(state)'
<1>1. state \in Domain
  BY DEF TypeOK
<1>2. ASSUME NEW d \in Domain, Iteration(d), Len(d.out) < CmdBuf, Trains(d)
      PROVE  Trains(state')
  BY <1>2, Pushed DEF SameTrains, Trains
<1>3. CASE User
  <2>1. PICK d \in Domain : Iteration(d) /\ Handles(state, d)
    BY <1>3, UserHandles
  <2>2. Trains(d) /\ Len(d.out) < CmdBuf
    BY <1>1, <2>1, HandlesTrains DEF Handles
  <2> QED BY <1>2, <2>1, <2>2
<1>4. CASE DomainEvent
  <2> DEFINE d == ApplyEvent(state, Head(events))
  <2>1. Head(events) \in Event /\ Iteration(d) /\ state.out = <<>>
    BY <1>4 DEF TypeOK, DomainEvent, Iteration
  <2>2. d \in Domain /\ d.out = <<>> /\ Trains(d)
    BY <1>1, <2>1, ApplyEventType, ApplyEventOut, EventTrains
  <2> HIDE DEF d
  <2> QED BY <1>2, <2>1, <2>2, EmptyFits
<1>5. CASE DomainTick
  <2>1. Iteration(state) /\ state.out = <<>>
    BY <1>5 DEF DomainTick, Iteration
  <2> QED BY <1>1, <1>2, <2>1, EmptyFits
<1>6. CASE state'.throttles = state.throttles
  BY <1>6 DEF Trains, Consist
<1>7. CASE Flush
  <2>1. ASSUME NEW i \in DOMAIN state.out, Lost(i) PROVE state'.throttles = state.throttles
    BY <1>1, <2>1 DEF Lost, Domain
  <2>2. ASSUME DropHead PROVE state'.throttles = state.throttles
    BY <1>1, <2>2 DEF DropHead, Lost, Domain
  <2> QED BY <1>6, <1>7, <2>1, <2>2, FlushSendKeeps DEF Flush, DropStaleSpeed
<1>8. CASE TimePasses
  <2>1. state'.throttles = state.throttles
    BY <1>1, <1>8 DEF TimePasses, Domain
  <2> QED BY <1>6, <2>1
<1>9. CASE SessionForward
  BY <1>6, <1>9 DEF SessionForward
<1>10. CASE \E t \in Throttle, l \in Locos, s \in Speed : ForeignSpeed(t, l, s)
  BY <1>6, <1>10 DEF ForeignSpeed
<1>11. CASE UNCHANGED vars
  BY <1>6, <1>11 DEF vars
<1> QED BY <1>3, <1>4, <1>5, <1>7, <1>8, <1>9, <1>10, <1>11 DEF Next, Domain_

-----------------------------------------------------------------------------

LEMMA InitHeld == Init => Trains(state) /\ StopHeld /\ LastHeld
<1> SUFFICES ASSUME Init PROVE Trains(state) /\ StopHeld /\ LastHeld
  OBVIOUS
<1>1. \A t \in Throttle : Consist(state, t) = <<>>
  BY DEF Init, New, NewSlot, Consist
<1>2. Trains(state)
  BY <1>1, DomainAssumption DEF Trains, Proper
<1>3. /\ None # 0 /\ None \notin Throttle /\ intent.touched = None
      /\ \A t \in Throttle : intent.wanted[t] = None
  BY NoneAssumption, DomainAssumption DEF Speed, Init
<1>4. StopHeld
  BY <1>3 DEF StopHeld
<1>5. LastHeld
  BY <1>3 DEF LastHeld
<1> QED BY <1>2, <1>4, <1>5

LEMMA NextHeld ==
  ASSUME TypeOK, Trains(state), [Next]_vars
  PROVE  (StopHeld => StopHeld') /\ (LastHeld => LastHeld')
<1>1. CASE Domain_
  <2>1. PICK d \in Domain : Drives(d)
    BY <1>1, DomainDrives
  <2> QED BY <2>1, DrivesStop, DrivesLast
<1>2. CASE FlushSend
  <2>1. UNCHANGED <<served, locoSpeed, intent>>
    BY <1>2 DEF FlushSend
  <2> QED BY <1>2, <2>1, FlushSendKeeps, HeldSame
<1>3. CASE DropStaleSpeed \/ DropHead
  <2>1. \E i \in 1..Len(state.out) : Lost(i)
    BY <1>3 DEF DropStaleSpeed, DropHead, TypeOK, Domain
  <2> QED BY <2>1, LostHeld
<1>4. CASE SessionForward
  BY <1>4, SessionHeld
<1>5. CASE \E t \in Throttle, l \in Locos, s \in Speed : ForeignSpeed(t, l, s)
  BY <1>5, ForeignHeld
<1>6. CASE TimePasses
  <2>1. /\ UNCHANGED <<cmds, served, locoSpeed, intent>> /\ state'.out = state.out
        /\ state'.pending_speed = state.pending_speed
    BY <1>6 DEF TimePasses, TypeOK, Domain
  <2> QED BY <2>1, HeldSame DEF Pipeline
<1>7. CASE UNCHANGED vars
  BY <1>7, HeldSame DEF vars, Pipeline
<1> QED BY <1>1, <1>2, <1>3, <1>4, <1>5, <1>6, <1>7 DEF Next, Flush

(* When nothing is on its way any more, every throttle the operator stopped *)
(* holds only locos that stand still, for any number of throttles and       *)
(* locos, any depth of the channel, and whatever was queued, coalesced,     *)
(* evicted or reported meanwhile.  What makes it so is that a stop is       *)
(* pushed behind everything already in `out` and empties the coalescing     *)
(* slot, and that nothing said later about other throttles, nor an acquire, *)
(* can wake the locos of this one without taking the wish back.             *)
THEOREM StopsAreDelivered == Spec => []StopIsDelivered
<1> DEFINE I == Trains(state) /\ StopHeld
<1>1. Init => I
  BY InitHeld
<1>2. TypeOK /\ I /\ [Next]_vars => I'
  BY NextTrains, NextHeld
<1>3. I => StopIsDelivered
  BY StopHeldDelivers
<1> QED BY <1>1, <1>2, <1>3, TypeCorrect, PTL DEF Spec

(* Coalescing may skip the speeds in between, but not the last one: when    *)
(* nothing is on its way the locos of the throttle touched last run at the  *)
(* speed asked of it.  The one pending_speed cell serves all throttles, so  *)
(* the invariant is about the last wish of all of them.                     *)
THEOREM LastCommandsWin == Spec => []LastCommandWins
<1> DEFINE I == Trains(state) /\ LastHeld
<1>1. Init => I
  BY InitHeld
<1>2. TypeOK /\ I /\ [Next]_vars => I'
  BY NextTrains, NextHeld
<1>3. TypeOK /\ I => LastCommandWins
  BY LastHeldWins
<1> QED BY <1>1, <1>2, <1>3, TypeCorrect, PTL DEF Spec

-----------------------------------------------------------------------------
(* The handset and the station end up with the same consists.  What the    *)
(* handset will hold once it has taken in the events on their way and what *)
(* the station serves differ only by a command still in the pipeline that  *)
(* will be reported: an acquire where the handset is ahead, an acquire or a *)
(* release where the station is.                                           *)

Reported(t, l) == Will(t, l, Holds(state.throttles[t], l), events)

Agrees(t, l) ==
  /\ Reported(t, l) /\ l \notin served[t] => Has({AddLoco(t, l)}, Pipeline)
  /\ ~Reported(t, l) /\ l \in served[t] =>
       Has({AddLoco(t, l), ReleaseThrottle(t)}, Pipeline)

\* The invariant.
Slots == intent.lossless => \A t \in Throttle, l \in Locos : Agrees(t, l)

LEMMA SlotsAgree == TypeOK /\ Slots => SlotsConverge
<1> SUFFICES ASSUME TypeOK, Slots, Settled, events = <<>>, intent.lossless, NEW t \in Throttle
             PROVE  LET q == state.throttles[t].consist
                    IN  {q[i] : i \in DOMAIN q} = served[t]
  BY DEF SlotsConverge
<1> DEFINE q == state.throttles[t].consist
<1>1. q \in Seq(Locos) /\ served[t] \in SUBSET Locos
  BY DEF TypeOK, Domain, Slot
<1>2. \A i \in DOMAIN q : q[i] \in Locos
  BY <1>1
<1>3. Pipeline = <<>> /\ \A Z : ~Has(Z, Pipeline)
  BY DEF Settled, Pipeline, Has
<1>4. \A l : Reported(t, l) <=> Holds(state.throttles[t], l)
  BY DEF Reported, Will
<1>5. \A l \in Locos : Holds(state.throttles[t], l) <=> l \in served[t]
  BY <1>3, <1>4 DEF Slots, Agrees
<1> HIDE DEF q
<1>6. \A l \in Locos : (\E i \in DOMAIN q : q[i] = l) <=> l \in served[t]
  BY <1>5 DEF Holds, q
<1> QED BY <1>1, <1>2, <1>6 DEF q

-----------------------------------------------------------------------------
(* Preservation by the domain.                                             *)

\* What comes behind the pipeline makes good what it changes in the consist.
LEMMA AgreesPushed ==
  ASSUME NEW t \in Throttle, NEW l \in Locos, Agrees(t, l), NEW q \in Seq(Command),
         Pipeline \in Seq(Command), Pipeline' = Pipeline \o q,
         events' = events, served' = served,
         \/ Holds(state'.throttles[t], l) <=> Holds(state.throttles[t], l)
         \/ Has({AddLoco(t, l)}, q)
         \/ ~Holds(state'.throttles[t], l) /\ Has({ReleaseThrottle(t)}, q)
  PROVE  Agrees(t, l)'
<1> DEFINE A == {AddLoco(t, l)}
           B == {AddLoco(t, l), ReleaseThrottle(t)}
<1>1. \A Z : Has(Z, Pipeline') <=> Has(Z, Pipeline) \/ Has(Z, q)
  BY HasJoined
<1>2. (Has(A, q) => Has(B, q)) /\ (Has({ReleaseThrottle(t)}, q) => Has(B, q))
  BY DEF Has
<1>3. Reported(t, l) <=> Will(t, l, Holds(state.throttles[t], l), events)
  BY DEF Reported
<1>4. Reported(t, l)' <=> Will(t, l, Holds(state'.throttles[t], l), events)
  BY DEF Reported
<1>5. Agrees(t, l)' <=>
        /\ Reported(t, l)' /\ l \notin served[t] => Has(A, Pipeline')
        /\ ~Reported(t, l)' /\ l \in served[t] => Has(B, Pipeline')
  BY DEF Agrees
<1>6. /\ Reported(t, l) /\ l \notin served[t] => Has(A, Pipeline)
      /\ ~Reported(t, l) /\ l \in served[t] => Has(B, Pipeline)
  BY DEF Agrees
<1> HIDE DEF A, B
<1>7. CASE Holds(state'.throttles[t], l) <=> Holds(state.throttles[t], l)
  <2>1. Reported(t, l)' <=> Reported(t, l)
    BY <1>3, <1>4, <1>7 DEF Will
  <2> QED BY <1>1, <1>5, <1>6, <2>1
<1>8. CASE Has(A, q)
  BY <1>1, <1>2, <1>5, <1>8
<1>9. CASE ~Holds(state'.throttles[t], l) /\ Has({ReleaseThrottle(t)}, q)
  <2>1. Reported(t, l)' => Reported(t, l)
    BY <1>3, <1>4, <1>9 DEF Will
  <2> QED BY <1>1, <1>2, <1>5, <1>6, <1>9, <2>1
<1> QED BY <1>7, <1>8, <1>9 DEF A

\* The operator's hand on the controls costs no report.
LEMMA UserLossless ==
  ASSUME TypeOK, User
  PROVE  events' = events /\ intent'.lossless = intent.lossless
<1>1. /\ state \in Domain /\ cur = state.current /\ cur \in Throttle /\ intent \in Intent
  BY CurrentSlot DEF TypeOK, cur
<1>2. \A t \in Throttle : \A s : Asked(t, s).lossless = intent.lossless
  BY <1>1 DEF Asked, Intent
<1>3. \A S : Forgotten(S).lossless = intent.lossless
  BY <1>1 DEF Forgotten, Intent
<1>4. \A n : Input(n) => events' = events
  BY DEF Input
<1>5. ASSUME NEW s, UserSpeedSet(s) PROVE events' = events /\ intent'.lossless = intent.lossless
  BY <1>1, <1>2, <1>4, <1>5 DEF UserSpeedSet
<1>6. ASSUME NEW fast, UserSpeedUp(fast) \/ UserSpeedDown(fast)
      PROVE  events' = events /\ intent'.lossless = intent.lossless
  <2>1. \/ \E s : intent' = Asked(cur, s)
        \/ intent' = intent
    BY <1>6 DEF UserSpeedUp, UserSpeedDown
  <2>2. events' = events
    BY <1>4, <1>6 DEF UserSpeedUp, UserSpeedDown
  <2> QED BY <1>1, <1>2, <2>1, <2>2
<1>7. ASSUME UserStopThenToggle \/ UserEStopCurrent
      PROVE  events' = events /\ intent'.lossless = intent.lossless
  <2>1. \/ intent' = Asked(cur, 0)
        \/ intent' = intent
    BY <1>7 DEF UserStopThenToggle, UserEStopCurrent
  <2>2. events' = events
    BY <1>4, <1>7 DEF UserStopThenToggle, UserEStopCurrent
  <2> QED BY <1>1, <1>2, <2>1, <2>2
<1>8. ASSUME UserEStop PROVE events' = events /\ intent'.lossless = intent.lossless
  <2>1. intent'.lossless = intent.lossless
    BY <1>1, <1>8 DEF UserEStop, Intent
  <2>2. events' = events
    BY <1>4, <1>8 DEF UserEStop
  <2> QED BY <2>1, <2>2
<1>9. ASSUME NEW n, UserMaxThrottles(n) PROVE events' = events /\ intent'.lossless = intent.lossless
  BY <1>3, <1>4, <1>9 DEF UserMaxThrottles
<1>10. ASSUME NEW l, NEW spdt, UserAcquire(l, spdt)
       PROVE  events' = events /\ intent'.lossless = intent.lossless
  BY <1>3, <1>4, <1>10 DEF UserAcquire
<1>11. ASSUME UserRelease PROVE events' = events /\ intent'.lossless = intent.lossless
  BY <1>3, <1>4, <1>11 DEF UserRelease
<1>12. ASSUME \/ UserMultiplier \/ UserPower \/ UserNextThrottle
              \/ \E dir \in Direction : UserDirection(dir)
              \/ \E f \in Functions : UserFunction(f)
              \/ \E t \in Throttle : UserThrottle(t)
       PROVE  events' = events /\ intent'.lossless = intent.lossless
  BY <1>4, <1>12
     DEF UserMultiplier, UserPower, UserNextThrottle, UserDirection, UserFunction, UserThrottle
<1> QED BY <1>5, <1>6, <1>7, <1>8, <1>9, <1>10, <1>11, <1>12 DEF User

LEMMA DomainSlots ==
  ASSUME TypeOK, Trains(state), Slots, Domain_
  PROVE  Slots'
<1>1. state \in Domain /\ intent \in Intent
  BY DEF TypeOK
<1> SUFFICES ASSUME intent'.lossless, NEW t \in Throttle, NEW l \in Locos
             PROVE  Agrees(t, l)'
  BY DEF Slots
\* An iteration adds to the pipeline what the operation put in `out`.
<1>2. ASSUME NEW d \in Domain, Iteration(d), Len(d.out) < CmdBuf
      PROVE  /\ Pipeline \in Seq(Command) /\ served' = served
             /\ Holds(state'.throttles[t], l) <=> Holds(d.throttles[t], l)
             /\ \E q \in Seq(Command) :
                  Pipeline' = Pipeline \o q /\ \A Z : Has(Z, d.out) => Has(Z, q)
  <2>1. /\ Pipeline \in Seq(Command) /\ d.out \in Seq(Command) /\ served' = served
        /\ SameTrains(d, state')
    BY <1>2, Pushed
  <2>2. Holds(state'.throttles[t], l) <=> Holds(d.throttles[t], l)
    BY <2>1 DEF SameTrains, Holds, Consist
  <2> DEFINE p == d.pending_speed
             f == <<SetSpeed(p.throttle, p.speed)>>
  <2>3. \/ Pipeline' = Pipeline \o d.out
        \/ p.throttle \in Throttle /\ p.speed \in Speed /\ Pipeline' = Pipeline \o (d.out \o f)
    BY <1>2, Pushed
  <2>4. ASSUME p.throttle \in Throttle, p.speed \in Speed
        PROVE  d.out \o f \in Seq(Command) /\ \A Z : Has(Z, d.out) => Has(Z, d.out \o f)
    <3>1. f \in Seq(Command)
      BY <2>4, OneCommand DEF SetSpeed, Command
    <3> HIDE DEF f
    <3> QED BY <2>1, <3>1, HasJoined, Joined
  <2> HIDE DEF p, f
  <2> QED BY <2>1, <2>2, <2>3, <2>4
<1>3. CASE User
  <2>1. PICK d \in Domain : Iteration(d) /\ Handles(state, d)
    BY <1>3, UserHandles
  <2>2. events' = events /\ intent.lossless
    BY <1>3, UserLossless
  <2>3. Len(d.out) < CmdBuf
    BY <2>1 DEF Handles
  <2>4. PICK q \in Seq(Command) :
          Pipeline' = Pipeline \o q /\ \A Z : Has(Z, d.out) => Has(Z, q)
    BY <1>2, <2>1, <2>3
  <2>5. /\ Pipeline \in Seq(Command) /\ served' = served
        /\ Holds(state'.throttles[t], l) <=> Holds(d.throttles[t], l)
    BY <1>2, <2>1, <2>3
  <2>6. \/ Holds(d.throttles[t], l) <=> Holds(state.throttles[t], l)
        \/ Has({AddLoco(t, l)}, d.out)
        \/ ~Holds(d.throttles[t], l) /\ Has({ReleaseThrottle(t)}, d.out)
    BY <1>1, <2>1, HandlesSlot
  <2>7. Agrees(t, l)
    BY <2>2 DEF Slots
  <2> QED BY <2>2, <2>4, <2>5, <2>6, <2>7, AgreesPushed
<1>4. CASE DomainTick
  <2>1. Iteration(state) /\ events' = events /\ intent' = intent /\ Len(state.out) < CmdBuf
    BY <1>4, EmptyFits DEF DomainTick, Iteration
  <2>2. PICK q \in Seq(Command) : Pipeline' = Pipeline \o q
    BY <1>1, <1>2, <2>1
  <2>3. /\ Pipeline \in Seq(Command) /\ served' = served
        /\ Holds(state'.throttles[t], l) <=> Holds(state.throttles[t], l)
    BY <1>1, <1>2, <2>1
  <2>4. Agrees(t, l)
    BY <2>1 DEF Slots
  <2> QED BY <2>1, <2>2, <2>3, <2>4, AgreesPushed
<1>5. CASE DomainEvent
  <2> DEFINE ev == Head(events)
             d == ApplyEvent(state, ev)
  <2>1. /\ events \in Seq(Event) /\ events # <<>> /\ events' = Tail(events) /\ Iteration(d)
        /\ state.out = <<>>
    BY <1>5 DEF TypeOK, DomainEvent, Iteration
  <2>2. ev \in Event
    BY <2>1
  <2>3. intent.lossless /\ ~Refused(ev)
    BY <1>1, <1>5 DEF DomainEvent, Intent
  <2>4. d \in Domain /\ d.out = <<>>
    BY <1>1, <2>1, <2>2, ApplyEventType, ApplyEventOut
  <2>5. ev.op = "AddressAdded" =>
          Holds(state.throttles[ev.throttle], ev.loco) \/ Len(Consist(state, ev.throttle)) < MaxLocos
    <3>1. ev.op = "AddressAdded" => ev.throttle \in Throttle
      BY <2>2 DEF Event
    <3>2. \A u \in Throttle : Len(Consist(state, u)) \in Nat /\ Consist(state, u) = state.throttles[u].consist
      BY <1>1 DEF Domain, Slot, Consist
    <3> HIDE DEF ev
    <3> QED BY <2>3, <3>1, <3>2, DomainAssumption DEF Refused
  <2>6. Holds(d.throttles[t], l)
          <=> (Holds(state.throttles[t], l) \/ Came(t, l, ev)) /\ ~Gone(t, l, ev)
    BY <1>1, <2>2, <2>5, EventHolds
  <2> HIDE DEF d
  <2>7. PICK q \in Seq(Command) : Pipeline' = Pipeline \o q
    BY <1>2, <2>1, <2>4, EmptyFits
  <2>8. /\ Pipeline \in Seq(Command) /\ served' = served
        /\ Holds(state'.throttles[t], l) <=> Holds(d.throttles[t], l)
    BY <1>2, <2>1, <2>4, EmptyFits
  <2>9. Will(t, l, Holds(state'.throttles[t], l), Tail(events))
          <=> Will(t, l, Holds(state.throttles[t], l), events)
    BY <2>1, <2>6, <2>8, WillHead DEF Holds
  <2>10. Reported(t, l)' <=> Reported(t, l)
    BY <2>1, <2>9 DEF Reported
  <2>11. \A Z : Has(Z, Pipeline) => Has(Z, Pipeline')
    BY <2>7, <2>8, HasJoined
  <2>12. Agrees(t, l)
    BY <2>3 DEF Slots
  <2> QED BY <2>8, <2>10, <2>11, <2>12 DEF Agrees
<1> QED BY <1>3, <1>4, <1>5 DEF Domain_
-----------------------------------------------------------------------------
(* Preservation by the flush, the session and the station.                 *)

LEMMA SlotsSame ==
  ASSUME Slots, Pipeline' = Pipeline, served' = served,
         state'.throttles = state.throttles, intent'.lossless = intent.lossless,
         \A t \in Throttle, l \in Locos, held \in BOOLEAN :
           Will(t, l, held, events') <=> Will(t, l, held, events)
  PROVE  Slots'
<1>1. ASSUME NEW t \in Throttle, NEW l \in Locos PROVE Reported(t, l)' <=> Reported(t, l)
  BY DEF Reported, Holds
<1> QED BY <1>1 DEF Slots, Agrees



\* Reports that were not dropped.
LEMMA Emitted ==
  ASSUME TypeOK, NEW evs \in Seq(Event), NEW wish \in Intent, Emit(evs, wish), intent'.lossless
  PROVE  events' = events \o evs /\ wish.lossless
<1> DEFINE s == events \o evs
<1>1. /\ events \in Seq(Event) /\ s \in Seq(Event) /\ Len(s) = Len(events) + Len(evs)
      /\ Len(s) \in Nat
  BY ConcatProperties DEF TypeOK
<1>2. wish.lossless /\ Len(events) + Len(evs) <= EventsDepth
  BY DEF Emit, Intent
<1>3. AtMost(Len(events) + Len(evs), EventsDepth) = Len(s)
  BY <1>1, <1>2 DEF AtMost
<1>4. SubSeq(s, 1, Len(s)) = s
  BY <1>1, SubSeqFull
<1> QED BY <1>2, <1>3, <1>4 DEF Emit

\* A command that is no acquire of l and no release leaves their agreement alone,
\* if its reports say nothing of l.
LEMMA AgreesNext ==
  ASSUME NEW t \in Throttle, NEW l \in Locos, Agrees(t, l),
         Pipeline \in Seq(Command), Pipeline # <<>>, Pipeline' = Tail(Pipeline),
         Head(Pipeline) \notin {AddLoco(t, l), ReleaseThrottle(t)},
         l \in served'[t] <=> l \in served[t],
         Reported(t, l)' <=> Reported(t, l)
  PROVE  Agrees(t, l)'
<1> DEFINE A == {AddLoco(t, l)}
           B == {AddLoco(t, l), ReleaseThrottle(t)}
<1>1. (Has(A, Pipeline) => Has(A, Pipeline')) /\ (Has(B, Pipeline) => Has(B, Pipeline'))
  BY HasTail
<1> QED BY <1>1 DEF Agrees

LEMMA StationSlots ==
  ASSUME TypeOK, Slots, "slot" \in Reports, SessionForward
  PROVE  Slots'
<1> DEFINE c == Head(cmds)
<1>1. /\ Pipeline \in Seq(Command) /\ Pipeline # <<>>
      /\ c = Head(Pipeline) /\ c \in Command /\ Pipeline' = Tail(Pipeline) /\ state' = state
  BY Forwarded
<1>2. /\ events \in Seq(Event) /\ intent \in Intent /\ served \in [Throttle -> SUBSET Locos]
      /\ locoSpeed \in [Locos -> Speed]
  BY DEF TypeOK
<1>3. StationAdd(c) \/ StationRelease(c) \/ StationSpeed(c) \/ StationOther(c)
  BY DEF SessionForward
<1> HIDE DEF c
<1> SUFFICES ASSUME intent'.lossless, NEW t \in Throttle, NEW l \in Locos
             PROVE  Agrees(t, l)'
  BY DEF Slots
<1> DEFINE held == Holds(state.throttles[t], l)
<1>4. /\ Reported(t, l) <=> Will(t, l, held, events)
      /\ Reported(t, l)' <=> Will(t, l, held, events')
  BY <1>1 DEF Reported
<1> HIDE DEF held
\* What cannot be about t and l changes nothing.
<1>5. ASSUME NEW evs \in Seq(Event), events' = events \o evs, intent.lossless,
             \A i \in DOMAIN evs : ~Gone(t, l, evs[i]) /\ ~Came(t, l, evs[i]),
             c \notin {AddLoco(t, l), ReleaseThrottle(t)},
             l \in served'[t] <=> l \in served[t]
      PROVE  Agrees(t, l)'
  <2>1. Reported(t, l)' <=> Reported(t, l)
    BY <1>2, <1>4, <1>5, WillJoined
  <2>2. Agrees(t, l)
    BY <1>5 DEF Slots
  <2> QED BY <1>1, <1>5, <2>1, <2>2, AgreesNext
<1>6. CASE StationAdd(c)
  <2> DEFINE x == [op |-> "AddressAdded", throttle |-> c.throttle, loco |-> c.loco]
             y == [op |-> "Speed", throttle |-> c.throttle, speed |-> locoSpeed[c.loco]]
             a == Report("slot", <<x>>)
             b == Report("speed", <<y>>)
             evs == a \o b
  <2>1. c.throttle \in Throttle /\ c.loco \in Locos /\ c = AddLoco(c.throttle, c.loco)
    BY <1>1, <1>6 DEF StationAdd, Command, AddLoco
  <2>2. x \in Event /\ y \in Event
    BY <1>2, <2>1 DEF Event
  <2>3. a = <<x>> /\ b \in {<<>>, <<y>>}
    BY DEF Report
  <2>4. Emit(evs, intent) /\ served' = [served EXCEPT ![c.throttle] = @ \cup {c.loco}]
    BY <1>6 DEF StationAdd
  <2>5. /\ Came(c.throttle, c.loco, x) /\ (Came(t, l, x) => t = c.throttle /\ l = c.loco)
        /\ ~Gone(t, l, x) /\ ~Came(t, l, y) /\ ~Gone(t, l, y)
    BY DEF Came, Gone
  <2> HIDE DEF x, y, a, b
  <2>6. /\ a \in Seq(Event) /\ DOMAIN a = {1} /\ a[1] = x
        /\ b \in Seq(Event) /\ \A i \in DOMAIN b : b[i] = y
    <3>1. /\ <<x>> \in Seq(Event) /\ DOMAIN <<x>> = {1} /\ <<x>>[1] = x
          /\ <<y>> \in Seq(Event) /\ \A i \in DOMAIN <<y>> : <<y>>[i] = y
          /\ <<>> \in Seq(Event) /\ DOMAIN <<>> = {}
      BY <2>2, FewEvents
    <3> QED BY <2>3, <3>1
  <2>7. /\ evs \in Seq(Event) /\ 1 \in DOMAIN evs /\ evs[1] = x
        /\ \A i \in DOMAIN evs : evs[i] = x \/ evs[i] = y
    <3>1. Len(a) = 1
      BY <2>3
    <3>2. /\ evs \in Seq(Event) /\ DOMAIN evs = 1..(Len(a) + Len(b)) /\ Len(b) \in Nat
          /\ \A i \in 1..Len(a) : evs[i] = a[i]
      BY <2>6, Joined
    <3>3. 1 \in 1..(Len(a) + Len(b)) /\ 1 \in 1..Len(a)
      BY <3>1, <3>2
    <3>4. \A i \in DOMAIN evs : evs[i] = x \/ evs[i] = y
      BY <2>6, JoinedFrom
    <3> QED BY <2>6, <3>2, <3>3, <3>4
  <2> HIDE DEF evs
  <2>8. events' = events \o evs /\ intent.lossless
    BY <1>2, <2>4, <2>7, Emitted
  <2>9. CASE t = c.throttle /\ l = c.loco
    <3>1. l \in served'[t]
      BY <1>2, <2>4, <2>9
    <3>2. Reported(t, l)'
      BY SMTT(60), <1>2, <1>4, <2>5, <2>7, <2>8, <2>9, WillJoined
    <3> QED BY <3>1, <3>2 DEF Agrees
  <2>10. CASE ~(t = c.throttle /\ l = c.loco)
    <3>1. c \notin {AddLoco(t, l), ReleaseThrottle(t)}
      BY <2>1, <2>10 DEF AddLoco, ReleaseThrottle
    <3>2. l \in served'[t] <=> l \in served[t]
      BY <1>2, <2>4, <2>10
    <3>3. \A i \in DOMAIN evs : ~Gone(t, l, evs[i]) /\ ~Came(t, l, evs[i])
      BY <2>5, <2>7, <2>10
    <3> QED BY <1>5, <2>7, <2>8, <3>1, <3>2, <3>3
  <2> QED BY <2>9, <2>10
<1>7. CASE StationRelease(c)
  <2> DEFINE u == c.throttle
             S == served[u]
  <2>1. u \in Throttle /\ c = ReleaseThrottle(u) /\ S \in SUBSET Locos
    BY <1>1, <1>2, <1>7 DEF StationRelease, Command, ReleaseThrottle
  <2>2. PICK evs \in RemovedOrders(u, S) : Emit(evs, intent)
    BY <1>7 DEF StationRelease
  <2>3. served' = [served EXCEPT ![u] = {}]
    BY <1>7 DEF StationRelease
  <2> HIDE DEF u, S
  <2>4. evs \in Seq(Event)
    BY <2>1, <2>2, RemovedOrdersType
  <2>5. events' = events \o evs /\ intent.lossless
    BY <1>2, <2>2, <2>4, Emitted
  \* A report for the throttle, or one for each loco it served and for no other.
  <2>6. /\ \A i \in DOMAIN evs : evs[i].op = "AddressRemoved" /\ evs[i].throttle = u
        /\ \/ \E i \in DOMAIN evs : evs[i].loco = None
           \/ /\ \A m \in S : \E i \in DOMAIN evs : evs[i].loco = m
              /\ \A i \in DOMAIN evs : evs[i].loco \in S
    <3>1. CASE evs = StarRemoved(u)
      <4> DEFINE z == [op |-> "AddressRemoved", throttle |-> u, loco |-> None]
      <4>1. z.op = "AddressRemoved" /\ z.throttle = u /\ z.loco = None /\ evs = <<z>>
        BY <3>1 DEF StarRemoved
      <4> HIDE DEF z
      <4>2. 1 \in DOMAIN evs /\ \A i \in DOMAIN evs : evs[i] = z
        BY <4>1
      <4> QED BY <4>1, <4>2
    <3>2. CASE evs \in EachRemoved(u, S)
      <4>1. /\ evs \in [1..Cardinality(S) -> [op : {"AddressRemoved"}, throttle : {u}, loco : S]]
            /\ \A m \in S : \E i \in DOMAIN evs : evs[i].loco = m
        BY <3>2 DEF EachRemoved
      <4> QED BY <4>1
    <3> QED BY <2>2, <3>1, <3>2 DEF RemovedOrders
  <2>7. CASE t # u
    <3>1. c \notin {AddLoco(t, l), ReleaseThrottle(t)}
      BY <2>1, <2>7 DEF AddLoco, ReleaseThrottle
    <3>2. l \in served'[t] <=> l \in served[t]
      BY <1>2, <2>1, <2>3, <2>7
    <3>3. \A i \in DOMAIN evs : ~Gone(t, l, evs[i]) /\ ~Came(t, l, evs[i])
      BY <2>6, <2>7 DEF Gone, Came
    <3> QED BY <1>5, <2>4, <2>5, <3>1, <3>2, <3>3
  <2>8. CASE t = u
    <3>1. l \notin served'[t]
      BY <1>2, <2>1, <2>3, <2>8
    <3>2. \A i \in DOMAIN evs : ~Came(t, l, evs[i])
      BY <2>6 DEF Came
    <3>3. CASE \E i \in DOMAIN evs : Gone(t, l, evs[i])
      <4>1. ~Reported(t, l)'
        BY <1>2, <1>4, <2>4, <2>5, <3>2, <3>3, WillJoined
      <4> QED BY <3>1, <4>1 DEF Agrees
    <3>4. CASE ~\E i \in DOMAIN evs : Gone(t, l, evs[i])
      <4>1. \A i \in DOMAIN evs : evs[i].loco \notin {l, None}
        BY <2>6, <2>8, <3>4 DEF Gone
      <4>2. l \notin served[t]
        BY <2>6, <2>8, <4>1 DEF S
      <4>3. Reported(t, l)' <=> Reported(t, l)
        BY <1>2, <1>4, <2>4, <2>5, <3>2, <3>4, WillJoined
      <4>4. Reported(t, l) => Has({AddLoco(t, l)}, Pipeline)
        BY <2>5, <4>2 DEF Slots, Agrees
      <4>5. c \notin {AddLoco(t, l)}
        BY <2>1 DEF AddLoco, ReleaseThrottle
      <4>6. Has({AddLoco(t, l)}, Pipeline) => Has({AddLoco(t, l)}, Pipeline')
        BY <1>1, <4>5, HasTail
      <4> QED BY <3>1, <4>3, <4>4, <4>6 DEF Agrees
    <3> QED BY <3>3, <3>4
  <2> QED BY <2>7, <2>8
<1>8. CASE StationSpeed(c)
  <2> DEFINE s == IF c.op = "EStop" THEN 0 ELSE c.speed
             y == [op |-> "Speed", throttle |-> c.throttle, speed |-> s]
             evs == IF served[c.throttle] = {} THEN <<>> ELSE Report("speed", <<y>>)
             T == Overruled(c.throttle, s)
  <2>1. c.throttle \in Throttle /\ s \in Speed /\ IsSpeed(c)
    <3>1. 0 \in Speed
      BY DomainAssumption DEF Speed
    <3> QED BY <1>1, <1>8, <3>1 DEF StationSpeed, Command, IsSpeed
  <2>2. T \in SUBSET Throttle
    BY DEF Overruled
  <2>3. Emit(evs, Forgotten(T)) /\ served' = served
    BY <1>8 DEF StationSpeed
  <2> HIDE DEF s, T
  <2>4. y \in Event /\ ~Gone(t, l, y) /\ ~Came(t, l, y)
    BY <2>1 DEF Event, Gone, Came
  <2>5. evs \in {<<>>, <<y>>}
    BY DEF Report
  <2> HIDE DEF y, evs
  <2>6. evs \in Seq(Event) /\ \A i \in DOMAIN evs : evs[i] = y
    BY <2>4, <2>5, FewEvents
  <2>7. Forgotten(T) \in Intent /\ Forgotten(T).lossless = intent.lossless
    BY <2>2, ForgottenType, ForgottenFields
  <2>8. events' = events \o evs /\ intent.lossless
    BY <2>3, <2>6, <2>7, Emitted
  <2>9. c \notin {AddLoco(t, l), ReleaseThrottle(t)}
    BY <2>1 DEF IsSpeed, AddLoco, ReleaseThrottle
  <2> QED BY <1>5, <2>3, <2>4, <2>6, <2>8, <2>9
<1>9. CASE StationOther(c)
  <2>1. c \notin {AddLoco(t, l), ReleaseThrottle(t)}
    BY <1>9 DEF StationOther, AddLoco, ReleaseThrottle
  <2>2. served' = served /\ events' = events /\ intent.lossless
    BY <1>9 DEF StationOther
  <2>3. Reported(t, l)' <=> Reported(t, l)
    BY <1>4, <2>2
  <2>4. Agrees(t, l)
    BY <2>2 DEF Slots
  <2> QED BY <1>1, <2>1, <2>2, <2>3, <2>4, AgreesNext
<1> QED BY <1>3, <1>6, <1>7, <1>8, <1>9

LEMMA ForeignSlots ==
  ASSUME TypeOK, Slots, NEW t \in Throttle, NEW l \in Locos, NEW s \in Speed, ForeignSpeed(t, l, s)
  PROVE  Slots'
<1> DEFINE e == [op |-> "Speed", throttle |-> t, speed |-> s]
           T == {u \in Throttle : l \in served[u]}
<1>1. /\ UNCHANGED <<state, cmds, served>> /\ events' = Append(events, e)
      /\ intent' = Forgotten(T)
  BY DEF ForeignSpeed
<1>2. e \in Event /\ events \in Seq(Event)
  BY DEF Event, TypeOK
<1>3. \A u, m : ~Gone(u, m, e) /\ ~Came(u, m, e)
  BY DEF Gone, Came
<1> HIDE DEF e, T
<1>4. <<e>> \in Seq(Event) /\ events' = events \o <<e>> /\ \A i \in DOMAIN <<e>> : <<e>>[i] = e
  BY <1>1, <1>2, AppendIsConcat, FewEvents
<1>5. ASSUME NEW u \in Throttle, NEW m \in Locos, NEW held \in BOOLEAN
      PROVE  Will(u, m, held, events') <=> Will(u, m, held, events)
  <2> DEFINE r == <<e>>
  <2>1. r \in Seq(Event) /\ events' = events \o r
    BY <1>4
  <2>2. \A i \in DOMAIN r : ~Gone(u, m, r[i]) /\ ~Came(u, m, r[i])
    BY <1>3, <1>4
  <2> HIDE DEF r
  <2> QED BY <1>2, <2>1, <2>2, WillJoined
<1>6. intent'.lossless = intent.lossless
  BY <1>1, ForgottenFields
<1> QED BY <1>1, <1>5, <1>6, SlotsSame DEF Pipeline

-----------------------------------------------------------------------------

LEMMA InitSlots == Init => Slots
<1> SUFFICES ASSUME Init, NEW t \in Throttle, NEW l \in Locos PROVE Agrees(t, l)
  BY DEF Slots
<1>1. events = <<>> /\ served[t] = {} /\ state.throttles[t].consist = <<>>
  BY DEF Init, New, NewSlot
<1>2. ~Reported(t, l)
  BY <1>1 DEF Reported, Will, Holds
<1> QED BY <1>1, <1>2 DEF Agrees

LEMMA NextSlots ==
  ASSUME "slot" \in Reports, TypeOK, Trains(state), Slots, [Next]_vars
  PROVE  Slots'
<1>1. CASE Domain_
  BY <1>1, DomainSlots
<1>2. CASE FlushSend
  <2>1. UNCHANGED <<events, served, intent>>
    BY <1>2 DEF FlushSend
  <2> QED BY <1>2, <2>1, FlushSendKeeps, SlotsSame
<1>3. CASE DropStaleSpeed \/ DropHead
  <2>1. \E i \in 1..Len(state.out) : Lost(i)
    BY <1>3 DEF DropStaleSpeed, DropHead, TypeOK, Domain
  <2>2. intent'.lossless = FALSE
    BY <2>1, LostTakes
  <2> QED BY <2>2 DEF Slots
<1>4. CASE SessionForward
  BY <1>4, StationSlots
<1>5. CASE \E t \in Throttle, l \in Locos, s \in Speed : ForeignSpeed(t, l, s)
  BY <1>5, ForeignSlots
<1>6. CASE TimePasses
  <2>1. /\ UNCHANGED <<cmds, events, served, intent>> /\ state'.out = state.out
        /\ state'.throttles = state.throttles
    BY <1>6 DEF TimePasses, TypeOK, Domain
  <2> QED BY <2>1, SlotsSame DEF Pipeline
<1>7. CASE UNCHANGED vars
  BY <1>7, SlotsSame DEF vars, Pipeline
<1> QED BY <1>1, <1>2, <1>3, <1>4, <1>5, <1>6, <1>7 DEF Next, Flush

(* The optimistic consist of an acquire or a release and the late reports  *)
(* of the station end alike, whatever is acquired, released, trimmed or    *)
(* selected meanwhile, as long as nothing was too much for a queue or a    *)
(* consist.  The station has to report the locos it adds: both adapters    *)
(* turn such a report into AddressAdded.                                   *)
THEOREM SlotsAlwaysConverge == "slot" \in Reports => (Spec => []SlotsConverge)
<1> SUFFICES ASSUME "slot" \in Reports PROVE Spec => []SlotsConverge
  OBVIOUS
<1> DEFINE I == Trains(state) /\ Slots
<1>1. Init => I
  BY InitHeld, InitSlots
<1>2. TypeOK /\ I /\ [Next]_vars => I'
  BY NextTrains, NextSlots
<1>3. TypeOK /\ I => SlotsConverge
  BY SlotsAgree
<1> QED BY <1>1, <1>2, <1>3, TypeCorrect, PTL DEF Spec
=============================================================================
