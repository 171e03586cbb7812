-------------------------------- MODULE Z21 --------------------------------
(***************************************************************************)
(* The Z21 adapter (proto/z21/adapter.rs) between the domain and a command *)
(* station, over datagrams that may be lost.  The adapter keeps one slot   *)
(* per throttle and loco; a command drives the slots of its throttle with  *)
(* what they hold, and a report of the station, which another throttle may *)
(* have caused, overwrites the slots of its loco.                          *)
(*                                                                         *)
(* The station and the network are external: modelled from what the code   *)
(* sends and expects.  Datagrams keep their order; the station takes one   *)
(* frame of them after the other.                                          *)
(***************************************************************************)
EXTENDS Integers, Sequences, FiniteSets

CONSTANTS
    Throttles, Locos,
    MaxLocos,       \* slots of the adapter
    Speeds,         \* speeds the operator sets, of 0..126
    ForeignSteps,   \* speed step modes another throttle drives with
    None,
    Depth, MaxOps, MaxLosses, MaxForeign, MaxConnects   \* bounds

VARIABLES
    locos,          \* the adapter's slots, in the order they were added
    shown,          \* the domain's throttles, as commands and events made them
    track,          \* the track power the domain was told
    uplink,         \* frames on their way to the station
    downlink,       \* ... and to the handset
    trains,         \* station: steps, the speed byte and one function of each loco
    watched,        \* station: locos this client is told of
    listening,      \* station: this client is told of the track power
    power,          \* station: track power
    refused,        \* locos the domain shows and no slot was left for
    meant,          \* the speed a loco was last given, or None when not ours
    astray,         \* locos of which a datagram was lost since it was added
    ops, losses, foreign, connects

adapterVars == <<locos, shown, track>>
stationVars == <<trains, watched, listening, power>>
ghostVars == <<refused, meant, astray>>
counters == <<ops, losses, foreign, connects>>
vars == <<adapterVars, uplink, downlink, stationVars, ghostVars, counters>>

ASSUME Z21Assumption ==
    /\ None \notin Locos \cup 0..126
    /\ Speeds \subseteq 0..126
    /\ ForeignSteps \subseteq {14, 28, 128}
    /\ MaxLocos \in Nat /\ Depth \in Nat /\ MaxOps \in Nat
    /\ MaxLosses \in Nat /\ MaxForeign \in Nat /\ MaxConnects \in Nat

---------------------------------------------------------------------------
(* The speed byte: direction in bit 7, then a code that depends on the     *)
(* number of speed steps; codes 0 and 1 are stop and emergency stop.       *)

Lesser(m, n) == IF m < n THEN m ELSE n
Greater(m, n) == IF m > n THEN m ELSE n

\* 28 steps: the lowest of five bits is bit 4.
Encode28(speed) ==
    LET s == Lesser(Greater((speed * 28) \div 126, 1), 28)
    IN  ((s + 3) % 2) * 16 + (((s + 3) \div 2) % 16)

\* Mutant of EncodeDb3: every station is driven as if it had 128 steps.
EncodeDb3Fine(speed, dir, steps) ==
    (IF dir = "fwd" THEN 128 ELSE 0) + (IF speed = 0 THEN 0 ELSE Lesser(speed + 1, 127))

EncodeDb3(speed, dir, steps) ==
    (IF dir = "fwd" THEN 128 ELSE 0)
        + (IF speed = 0 THEN 0
           ELSE CASE steps = 14 -> Lesser((speed * 14) \div 126 + 1, 15)
                  [] steps = 28 -> Encode28(speed)
                  [] OTHER      -> Lesser(speed + 1, 127))

DirectionOf(db3) == IF db3 >= 128 THEN "fwd" ELSE "rev"

SpeedOf(steps, db3) ==
    LET v     == db3 % 128
        raw28 == (v % 16) * 2 + ((v \div 16) % 2)
    IN  CASE steps = 14 -> IF (v % 16) <= 1 THEN 0 ELSE Lesser((((v % 16) - 1) * 126) \div 14, 126)
          [] steps = 28 -> IF raw28 <= 3 THEN 0 ELSE Lesser(((raw28 - 3) * 126) \div 28, 126)
          [] OTHER      -> IF v <= 1 THEN 0 ELSE Lesser(v - 1, 126)

\* How far a speed may end up from the one that was set.  28 steps of 4.5 do not
\* divide evenly: a speed that was reported and is sent again may lose a second one.
StepWidth(steps) == CASE steps = 14 -> 9 [] steps = 28 -> 9 [] OTHER -> 0

---------------------------------------------------------------------------
(* Frames, and datagrams: sequences of frames, which are lost as a whole.  *)

About(frame) == IF frame[1] \in {"info", "drive", "halt", "func", "purge"} THEN frame[2] ELSE None

\* Nothing about the loco is under way.
Quiet(a) ==
    /\ \A i \in DOMAIN uplink : About(uplink[i]) # a
    /\ \A i \in DOMAIN downlink : About(downlink[i]) # a

Lost == losses < MaxLosses /\ losses' = losses + 1

\* A loco that is added is asked for again, which makes up for what was lost.
Send(datagram, added) ==
    \/ /\ uplink' = uplink \o datagram
       /\ astray' = astray \ added
       /\ UNCHANGED losses
    \/ /\ datagram # <<>> /\ Lost
       /\ astray' = astray \cup {About(datagram[k]) : k \in DOMAIN datagram}
       /\ UNCHANGED uplink

---------------------------------------------------------------------------
(* The adapter.                                                            *)

Empty == [locos |-> {}, speed |-> 0, dir |-> "fwd", func |-> FALSE]

Init ==
    /\ locos = <<>> /\ shown = [t \in Throttles |-> Empty] /\ track = None
    /\ uplink = <<<<"flags">>, <<"status">>>> /\ downlink = <<>>
    /\ trains = [a \in Locos |-> [steps |-> 128, db3 |-> 128, func |-> FALSE]]
    /\ watched = {} /\ listening = FALSE /\ power = TRUE
    /\ refused = {} /\ meant = [a \in Locos |-> None] /\ astray = {}
    /\ ops = 0 /\ losses = 0 /\ foreign = 0 /\ connects = 0

SlotsOf(t) == {i \in DOMAIN locos : locos[i].throttle = t}
Held(t) == {locos[i].addr : i \in SlotsOf(t)}

\* The k-th of a set of places, and what a function has at these places, in order.
Nth(S, k) == CHOOSE i \in S : Cardinality({j \in S : j <= i}) = k
InOrder(S, f) == [k \in 1..Cardinality(S) |-> f[Nth(S, k)]]

\* Room for a command.
Command == ops < MaxOps /\ Len(uplink) < Depth /\ ops' = ops + 1

\* make_adapter and on_connect: a new session has no slots; the domain adds its
\* locos again one by one.
Connect ==
    /\ connects < MaxConnects /\ Len(uplink) < Depth
    /\ connects' = connects + 1
    /\ locos' = <<>> /\ shown' = [t \in Throttles |-> Empty]
    /\ downlink' = <<>>
    /\ refused' = {}
    /\ Send(<<<<"flags">>, <<"status">>>>, {None})
    /\ UNCHANGED <<track, stationVars, meant, ops, foreign>>

\* A full list takes no slot, and the domain is told all the same.
AddLoco(t, a) ==
    LET known == \E i \in SlotsOf(t) : locos[i].addr = a
    IN  /\ Command
        /\ a \notin shown[t].locos
        /\ locos' = IF known \/ Len(locos) = MaxLocos THEN locos
                    ELSE Append(locos, [throttle |-> t, addr |-> a, steps |-> 128, speed |-> 0,
                                        dir |-> "fwd", func |-> FALSE])
        /\ refused' = IF known \/ Len(locos) < MaxLocos THEN refused ELSE refused \cup {<<t, a>>}
        /\ shown' = [shown EXCEPT ![t].locos = @ \cup {a}]
        /\ meant' = [meant EXCEPT ![a] = IF a \in astray THEN None ELSE @]
        /\ Send(<<<<"info", a>>>>, {a})
        /\ UNCHANGED <<track, downlink, stationVars, foreign, connects>>

ReleaseThrottle(t) ==
    /\ Command
    /\ shown[t].locos # {}
    /\ locos' = InOrder(DOMAIN locos \ SlotsOf(t), locos)
    /\ refused' = {r \in refused : r[1] # t}
    /\ shown' = [shown EXCEPT ![t] = Empty]
    /\ Send(InOrder(SlotsOf(t), [i \in DOMAIN locos |-> <<"purge", locos[i].addr>>]), {})
    /\ UNCHANGED <<track, downlink, stationVars, meant, foreign, connects>>

Frame(s) == <<"drive", s.addr, s.steps, EncodeDb3(s.speed, s.dir, s.steps)>>

SetSpeed(t, v) ==
    /\ Command
    /\ shown[t].locos # {}
    /\ locos' = [i \in DOMAIN locos |-> IF i \in SlotsOf(t) THEN [locos[i] EXCEPT !.speed = v]
                                        ELSE locos[i]]
    /\ shown' = [shown EXCEPT ![t].speed = v]
    /\ meant' = [a \in Locos |-> IF a \in Held(t) THEN v ELSE meant[a]]
    /\ Send(InOrder(SlotsOf(t), [i \in DOMAIN locos |-> Frame([locos[i] EXCEPT !.speed = v])]), {})
    /\ UNCHANGED <<track, downlink, stationVars, refused, foreign, connects>>

\* The speed the slot holds goes with the direction; a report under way may have
\* made it older than the last command.
SetDirection(t, only, d) ==
    LET of == {i \in SlotsOf(t) : only = None \/ locos[i].addr = only}
    IN  /\ Command
        /\ shown[t].locos # {} /\ only \in shown[t].locos \cup {None}
        /\ locos' = [i \in DOMAIN locos |-> IF i \in of THEN [locos[i] EXCEPT !.dir = d]
                                            ELSE locos[i]]
        /\ shown' = [shown EXCEPT ![t].dir = d]
        /\ meant' = [a \in Locos |-> IF (\E i \in of : locos[i].addr = a) /\ ~Quiet(a) THEN None
                                     ELSE meant[a]]
        /\ Send(InOrder(of, [i \in DOMAIN locos |-> Frame([locos[i] EXCEPT !.dir = d])]), {})
        /\ UNCHANGED <<track, downlink, stationVars, refused, foreign, connects>>

\* A halt and a drive with the code of the emergency stop, slot by slot.
Halts(slots) ==
    [k \in 1..(2 * Len(slots)) |->
        LET s == slots[(k + 1) \div 2]
        IN  IF k % 2 = 1 THEN <<"halt", s.addr>>
            ELSE <<"drive", s.addr, s.steps, (IF s.dir = "fwd" THEN 128 ELSE 0) + 1>>]

EStop(t) ==
    /\ Command
    /\ shown[t].locos # {}
    /\ locos' = [i \in DOMAIN locos |-> IF i \in SlotsOf(t) THEN [locos[i] EXCEPT !.speed = 0]
                                        ELSE locos[i]]
    /\ shown' = [shown EXCEPT ![t].speed = 0]
    /\ meant' = [a \in Locos |-> IF a \in Held(t) THEN 0 ELSE meant[a]]
    /\ Send(Halts(InOrder(SlotsOf(t), locos)), {})
    /\ UNCHANGED <<track, downlink, stationVars, refused, foreign, connects>>

\* Slot and domain take the function as set; its report then tells nothing new.
SetFunction(t, on) ==
    /\ Command
    /\ shown[t].locos # {}
    /\ locos' = [i \in DOMAIN locos |-> IF i \in SlotsOf(t) THEN [locos[i] EXCEPT !.func = on]
                                        ELSE locos[i]]
    /\ shown' = [shown EXCEPT ![t].func = on]
    /\ Send(InOrder(SlotsOf(t), [i \in DOMAIN locos |-> <<"func", locos[i].addr, on>>]), {})
    /\ UNCHANGED <<track, downlink, stationVars, refused, meant, foreign, connects>>

SetTrackPower(on) ==
    /\ Command
    /\ Send(<<<<"power", on>>>>, {})
    /\ UNCHANGED <<adapterVars, downlink, stationVars, refused, meant, foreign, connects>>

\* Mutant of OnLocoInfo: a report is for the domain, and leaves the slots alone.
OnLocoInfoShownOnly(a, steps, db3, func) ==
    /\ shown' = [t \in Throttles |->
                    IF a \in Held(t) THEN [shown[t] EXCEPT !.speed = SpeedOf(steps, db3),
                                                           !.dir = DirectionOf(db3)]
                    ELSE shown[t]]
    /\ UNCHANGED locos

\* Every slot of the loco takes the report, and its throttle is told; of the
\* function only what the slot did not know.
OnLocoInfo(a, steps, db3, func) ==
    LET changed(t) == \E i \in SlotsOf(t) : locos[i].addr = a /\ locos[i].func # func
    IN  /\ locos' = [i \in DOMAIN locos |->
                        IF locos[i].addr # a THEN locos[i]
                        ELSE [locos[i] EXCEPT !.steps = steps, !.speed = SpeedOf(steps, db3),
                                              !.dir = DirectionOf(db3), !.func = func]]
        /\ shown' = [t \in Throttles |->
                        IF a \notin Held(t) THEN shown[t]
                        ELSE [shown[t] EXCEPT !.speed = SpeedOf(steps, db3),
                                              !.dir = DirectionOf(db3),
                                              !.func = IF changed(t) THEN func ELSE @]]

\* One frame is decoded, or was lost.
Receive ==
    /\ downlink # <<>>
    /\ downlink' = Tail(downlink)
    /\ LET frame == Head(downlink)
       IN  \/ /\ IF frame[1] = "info"
                 THEN OnLocoInfo(frame[2], frame[3], frame[4], frame[5]) /\ UNCHANGED track
                 ELSE track' = frame[2] /\ UNCHANGED <<locos, shown>>
              /\ UNCHANGED <<astray, losses>>
           \/ /\ Lost
              /\ astray' = astray \cup {About(frame)}
              /\ UNCHANGED adapterVars
    /\ UNCHANGED <<uplink, stationVars, refused, meant, ops, foreign, connects>>

---------------------------------------------------------------------------
(* The station.                                                            *)

\* Who watches a loco is told how it runs now.
Report(a) ==
    downlink' = IF a \notin watched' THEN downlink
                ELSE Append(downlink, <<"info", a, trains'[a].steps, trains'[a].db3,
                                        trains'[a].func>>)

Drive(a, steps, db3) ==
    /\ trains' = [trains EXCEPT ![a].steps = steps, ![a].db3 = db3]
    /\ UNCHANGED <<watched, listening, power>>
    /\ Report(a)

\* What one frame does to the station.
Obey(frame) ==
    \/ /\ frame[1] = "flags"
       /\ listening' = TRUE
       /\ UNCHANGED <<trains, watched, power, downlink>>
    \/ /\ frame[1] = "status"
       /\ downlink' = Append(downlink, <<"track", power>>)
       /\ UNCHANGED stationVars
    \/ /\ frame[1] = "info"
       /\ watched' = watched \cup {frame[2]}
       /\ UNCHANGED <<trains, listening, power>>
       /\ Report(frame[2])
    \/ frame[1] = "drive" /\ Drive(frame[2], frame[3], frame[4])
    \/ frame[1] = "halt"
       /\ Drive(frame[2], trains[frame[2]].steps, 128 * (trains[frame[2]].db3 \div 128))
    \/ /\ frame[1] = "func"
       /\ trains' = [trains EXCEPT ![frame[2]].func = frame[3]]
       /\ UNCHANGED <<watched, listening, power>>
       /\ Report(frame[2])
    \/ /\ frame[1] = "power"
       /\ power' = frame[2]
       /\ downlink' = IF listening THEN Append(downlink, <<"track", frame[2]>>) ELSE downlink
       /\ UNCHANGED <<trains, watched, listening>>
    \/ frame[1] = "purge" /\ UNCHANGED <<stationVars, downlink>>

StationReceives ==
    /\ uplink # <<>>
    /\ uplink' = Tail(uplink)
    /\ Obey(Head(uplink))
    /\ UNCHANGED <<adapterVars, ghostVars, counters>>

\* Another throttle drives the loco, in the speed steps of its own.
ForeignDrive(a, steps, v, d) ==
    /\ foreign < MaxForeign
    /\ foreign' = foreign + 1
    /\ Drive(a, steps, EncodeDb3(v, d, steps))
    /\ meant' = [meant EXCEPT ![a] = None]
    /\ UNCHANGED <<adapterVars, uplink, refused, astray, ops, losses, connects>>

Next ==
    \/ Connect \/ Receive \/ StationReceives
    \/ \E t \in Throttles :
        \/ \E a \in Locos : AddLoco(t, a)
        \/ ReleaseThrottle(t) \/ EStop(t)
        \/ \E v \in Speeds : SetSpeed(t, v)
        \/ \E only \in Locos \cup {None}, d \in {"fwd", "rev"} : SetDirection(t, only, d)
        \/ \E on \in BOOLEAN : SetFunction(t, on)
    \/ \E on \in BOOLEAN : SetTrackPower(on)
    \/ \E a \in Locos, steps \in ForeignSteps, v \in Speeds, d \in {"fwd", "rev"} :
        ForeignDrive(a, steps, v, d)

Spec == Init /\ [][Next]_vars

---------------------------------------------------------------------------
(* Properties.                                                             *)

TypeOK ==
    /\ \A i \in DOMAIN locos :
        /\ locos[i].throttle \in Throttles /\ locos[i].addr \in Locos
        /\ locos[i].steps \in {14, 28, 128} /\ locos[i].speed \in 0..126
        /\ locos[i].dir \in {"fwd", "rev"} /\ locos[i].func \in BOOLEAN
    /\ Len(locos) <= MaxLocos
    /\ \A a \in Locos : trains[a].db3 \in 0..255
    /\ \A t \in Throttles : Held(t) \subseteq shown[t].locos

\* With the types: when nothing about a loco is under way, and none of its datagrams was lost since
\* it was last added, every throttle that shows it and found room for it has a slot
\* that agrees with the station, whoever drove it and in whatever speed steps; and
\* a throttle of one loco shows the operator that very state; so it is with the
\* track power.
SlotsAgree ==
    /\ TypeOK
    /\ Quiet(None) /\ None \notin astray => track = power
    /\ \A t \in Throttles : \A a \in shown[t].locos :
        Quiet(a) /\ a \notin astray /\ <<t, a>> \notin refused =>
            \E i \in SlotsOf(t) :
                /\ locos[i].addr = a
                /\ locos[i].steps = trains[a].steps
                /\ locos[i].speed = SpeedOf(trains[a].steps, trains[a].db3)
                /\ locos[i].dir = DirectionOf(trains[a].db3)
                /\ locos[i].func = trains[a].func
                /\ shown[t].locos = {a} =>
                    /\ shown[t].speed = locos[i].speed
                    /\ shown[t].dir = locos[i].dir
                    /\ shown[t].func = locos[i].func

\* A loco ends up within the width of its steps of the speed it was last given, and
\* stands if that was a stop, through echoes and through changes of direction made
\* while nothing is under way.
SpeedIsKept ==
    \A a \in Locos :
        Quiet(a) /\ a \notin astray /\ meant[a] # None =>
            LET speed == SpeedOf(trains[a].steps, trains[a].db3)
            IN  /\ speed \in (meant[a] - StepWidth(trains[a].steps))
                                ..(meant[a] + StepWidth(trains[a].steps))
                /\ meant[a] = 0 => speed = 0

=============================================================================
