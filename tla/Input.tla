------------------------------- MODULE Input -------------------------------
(***************************************************************************)
(* From the contacts of the LongFred board to the domain: the expander,    *)
(* encoder and knob-button drivers (input/), RAW_CHANNEL, the bridge and   *)
(* its surface (board/), INPUT_CHANNEL, and what the domain keeps of the   *)
(* direction switch, the knob and the programming chord.                   *)
(*                                                                         *)
(* Of the keys, "joy" stands for every key that is reported and leaves     *)
(* nothing behind in the surface.  A contact that is changing reads either *)
(* way (bounce).  Time is counted in units of which HOLD make the hold     *)
(* time of the chord; drivers and bridge are quicker than one unit.        *)
(***************************************************************************)
EXTENDS Integers, Sequences, FiniteSets

CONSTANTS
    RAW_CHANNEL_DEPTH,
    INPUT_CHANNEL_DEPTH,
    HOLD,     \* PROGRAMMING_CHORD_MS in units of Second
    Budgets,  \* bound: [steps, hands], the Gray steps turned and the gestures made
    MaxBlanks \* bound: times the display goes dark

ASSUME InputAssumption ==
    /\ RAW_CHANNEL_DEPTH \in Nat \ {0} /\ INPUT_CHANNEL_DEPTH \in Nat \ {0}
    /\ HOLD \in Nat \ {0}
    /\ Budgets \subseteq [steps : Nat, hands : Nat]
    /\ MaxBlanks \in Nat

VARIABLES
    pins,    \* the contacts that are closed: keys pressed, the switch on Forward
    chip,    \* per expander port: the contacts it holds for closed, and debounce
    spoke,   \* dir_stable: the joystick port when the switch was last reported
    told,    \* the knob button as its task reported it
    knob,    \* the shaft in Gray steps, and the decoder
    raw,     \* RAW_CHANNEL
    input,   \* INPUT_CHANNEL
    surface, \* shift1, stop, and the chord: units since both, or NotHeld; fired
    dom,     \* what the domain task keeps; detents: net, for the speed
    asked,   \* ghost: the operator's last word on the direction
    missed,  \* ghost: detents reported and lost, swallowed or not for the speed
    lost,    \* ghost: an event did not fit into a channel
    grip,    \* ghost: units for which both chord keys are held, counted as each ends;
             \* slipped: one of the two was up since the last one ended
    budget, blanks

vars == <<pins, chip, spoke, told, knob, raw, input, surface, dom, asked, missed, lost,
          grip, budget, blanks>>

None == "none"
NotHeld == -1
Port == [mcp0b |-> {"shift1", "stop"}, mcp1a |-> {"joy", "direction"}]
Ports == DOMAIN Port
Keys == (UNION {Port[p] : p \in Ports}) \cup {"knob"}
Fwd(closed) == IF "direction" \in closed THEN "fwd" ELSE "rev"

DEBOUNCE_TICKS == 2
DETENT_STEPS == 4

---------------------------------------------------------------------------
(* The encoder.                                                            *)

\* A and B over one turn of four Gray steps, clockwise from rest; 2 A + B.
Pack(pos) == <<3, 1, 0, 2>>[(pos % 4) + 1]

TABLE == <<0, -1, 1, 0, 1, 0, 0, -1, -1, 0, 0, 1, 0, 1, -1, 0>>

\* Mutant of Update: the count is not cleared after a detent.
UpdateUnreset(k) ==
    LET sum == k.accum + TABLE[k.old * 4 + Pack(k.pos) + 1]
    IN  [k EXCEPT !.old = Pack(k.pos), !.seen = k.pos, !.accum = sum,
                  !.delta = IF sum >= DETENT_STEPS THEN 1 ELSE IF sum <= -DETENT_STEPS THEN -1 ELSE 0]

\* QuadratureDecoder::update; delta is what it returns, 0 for None.
Update(k) ==
    LET sum == k.accum + TABLE[k.old * 4 + Pack(k.pos) + 1]
        delta == IF sum >= DETENT_STEPS THEN 1 ELSE IF sum <= -DETENT_STEPS THEN -1 ELSE 0
    IN  [pos |-> k.pos, seen |-> k.pos, old |-> Pack(k.pos),
         accum |-> IF delta = 0 THEN sum ELSE 0, delta |-> delta,
         skips |-> IF k.pos - k.seen \in {-2, 2} THEN k.skips + 1 ELSE k.skips]

---------------------------------------------------------------------------
(* Channels: try_send, what does not fit is dropped.                       *)

Fit(q, depth) == SubSeq(q, 1, IF Len(q) <= depth THEN Len(q) ELSE depth)
Unfit(q, depth) == SubSeq(q, depth + 1, Len(q))

Places(q, ev) == {i \in DOMAIN q : q[i] = ev}

\* The detents reported in q, net.
Detents(q) == Cardinality(Places(q, <<"Encoder", 1>>)) - Cardinality(Places(q, <<"Encoder", -1>>))

\* What an event that goes no further leaves of the ghosts.
Forget(gone) ==
    /\ missed' = missed + Detents(gone)
    /\ asked' = IF \E i \in DOMAIN gone : gone[i][1] \in {"Switch", "DirectionSet"}
                THEN [by |-> None] ELSE asked

Report(events) ==
    /\ raw' = Fit(raw \o events, RAW_CHANNEL_DEPTH)
    /\ lost' = (lost \/ Len(raw \o events) > RAW_CHANNEL_DEPTH)
    /\ Forget(Unfit(raw \o events, RAW_CHANNEL_DEPTH))

---------------------------------------------------------------------------
(* Drivers.                                                                *)

\* The contacts the expander holds for closed.
Stable == UNION {chip[p].stable : p \in Ports}

Settled == \A p \in Ports : chip[p].stable = pins \cap Port[p] /\ chip[p].ticks = 0

\* update_debounce: one counter for all eight contacts of a port.
Debounced(c, read) ==
    IF read = c.stable THEN [c EXCEPT !.ticks = 0]
    ELSE IF c.ticks + 1 < DEBOUNCE_TICKS THEN [c EXCEPT !.ticks = @ + 1]
    ELSE [stable |-> read, ticks |-> 0]

Chorded(closed) == {"shift1", "stop"} \subseteq closed

\* process_chip: the edges of a port, in the order of BUTTON_MAP.
Edge(k, was, now) ==
    IF (k \in was) # (k \in now) THEN <<<<"Button", k, k \in now>>>> ELSE <<>>

Edges(was, now) == Edge("shift1", was, now) \o Edge("stop", was, now) \o Edge("joy", was, now)

\* Mutant of SwitchReport: on a press of the contact only.
SwitchReportOnPress(now) ==
    IF "direction" \in now \ spoke THEN <<<<"Switch", Fwd(now)>>>> ELSE <<>>

\* The switch is reported when anything on its port has changed.
SwitchReport(now) == IF now # spoke THEN <<<<"Switch", Fwd(now)>>>> ELSE <<>>

\* One turn of the expander's loop; a chip that does not answer is left out.
Poll ==
    \E answers \in SUBSET Ports :
    \E bounce \in SUBSET ((pins \cup Stable) \ (pins \cap Stable)) :
        LET read(p) == {k \in Port[p] : (k \in pins) # (k \in bounce)}
            next == [p \in Ports |-> IF p \in answers THEN Debounced(chip[p], read(p)) ELSE chip[p]]
            b == next["mcp0b"].stable
            a == next["mcp1a"].stable
        IN  /\ chip' = next
            /\ spoke' = a
            /\ Report(Edges(chip["mcp0b"].stable, b) \o Edges(chip["mcp1a"].stable, a)
                        \o SwitchReport(a))
            /\ grip' = [grip EXCEPT !.slipped = @ \/ ~Chorded(b)]
            /\ UNCHANGED <<pins, told, knob, input, surface, dom, budget, blanks>>

\* encoder::task, once a millisecond.
Sample ==
    LET k == Update(knob)
    IN  /\ knob' = k
        /\ Report(IF k.delta = 0 THEN <<>> ELSE <<<<"Encoder", k.delta>>>>)
        /\ UNCHANGED <<pins, chip, spoke, told, input, surface, dom, grip, budget, blanks>>

\* button_task: a press that lasts longer than BTN_DEBOUNCE_MS, then its release.
ButtonTask ==
    /\ told # ("knob" \in pins)
    /\ told' = ("knob" \in pins)
    /\ Report(<<<<"Button", "knob", told'>>>>)
    /\ UNCHANGED <<pins, chip, spoke, knob, input, surface, dom, grip, budget, blanks>>

---------------------------------------------------------------------------
(* The bridge and its surface.                                             *)

\* Mutant of Chord: letting go of the stop key does not end the hold.
ChordOfShift(s) ==
    IF ~s.shift THEN [s EXCEPT !.since = NotHeld, !.fired = FALSE]
    ELSE IF s.since = NotHeld THEN [s EXCEPT !.since = IF s.stop THEN 0 ELSE NotHeld]
    ELSE [s EXCEPT !.fired = @ \/ s.since >= HOLD]

\* ChordState::update.  HOLD > 0: it does not fire on the event that starts it.
Chord(s) ==
    IF ~(s.shift /\ s.stop) THEN [s EXCEPT !.since = NotHeld, !.fired = FALSE]
    ELSE IF s.since = NotHeld THEN [s EXCEPT !.since = 0]
    ELSE [s EXCEPT !.fired = @ \/ s.since >= HOLD]

Fires(s) == IF Chord(s).fired /\ ~s.fired THEN <<<<"EnterProgrammingMode">>>> ELSE <<>>

\* LongFredSurface::on_button and on_raw, but for the chord.
Keep(s, ev) ==
    CASE ev[1] = "Button" /\ ev[2] = "shift1" -> [s EXCEPT !.shift = ev[3]]
      [] ev[1] = "Button" /\ ev[2] = "stop" -> [s EXCEPT !.stop = ev[3]]
      [] OTHER -> s

Mapped(s, ev) ==
    CASE ev[1] = "Encoder" -> <<ev>>
      [] ev[1] = "Switch" -> <<<<"DirectionSet", ev[2]>>>>
      [] ev[1] = "Button" /\ ~ev[3] -> <<>>
      [] ev[1] = "Button" /\ ev[2] = "shift1" -> IF s.shift THEN <<>> ELSE <<<<"CaseToggle">>>>
      [] ev[1] = "Button" /\ ev[2] = "stop" -> <<<<"Stop">>>>
      [] ev[1] = "Button" /\ ev[2] = "joy" -> <<<<"Nav">>>>
      [] ev[1] = "Button" /\ ev[2] = "knob" -> <<<<"EncoderButton">>>>

Emit(events) ==
    /\ input' = Fit(input \o events, INPUT_CHANNEL_DEPTH)
    /\ lost' = (lost \/ Len(input \o events) > INPUT_CHANNEL_DEPTH)
    /\ Forget(Unfit(input \o events, INPUT_CHANNEL_DEPTH))

OnRaw ==
    /\ raw # <<>>
    /\ LET s == Keep(surface, Head(raw))
       IN  /\ surface' = Chord(s)
           /\ Emit(Mapped(surface, Head(raw)) \o Fires(s))
    /\ raw' = Tail(raw)
    /\ UNCHANGED <<pins, chip, spoke, told, knob, dom, grip, budget, blanks>>

\* The select prefers an event to its timer.
BridgeTick ==
    /\ raw = <<>>
    /\ surface' = Chord(surface)
    /\ Emit(Fires(surface))
    /\ UNCHANGED <<pins, chip, spoke, told, knob, raw, dom, grip, budget, blanks>>

---------------------------------------------------------------------------
(* The domain task.                                                        *)

Other(d) == IF d = "fwd" THEN "rev" ELSE "fwd"

\* Mutant of Apply: the switch counts only with a loco to drive.
ApplyWhenDriving(d, ev, moving, saved) ==
    CASE ev[1] = "DirectionSet" -> IF d.loco THEN [d EXCEPT !.spdt = ev[2], !.dir = ev[2]] ELSE d
      [] ev[1] = "EncoderButton" /\ d.loco /\ ~moving -> [d EXCEPT !.dir = Other(@)]
      [] ev[1] = "Encoder" /\ d.loco -> [d EXCEPT !.detents = @ + ev[2]]
      [] ev[1] = "EnterProgrammingMode" /\ saved -> [d EXCEPT !.phase = "programming"]
      [] OTHER -> d

\* What an awake domain and the router on the throttle screen make of an event.
\* The knob button stops a loco that moves, and turns one that stands;
\* programming mode waits for its flag to be saved.
Apply(d, ev, moving, saved) ==
    CASE ev[1] = "DirectionSet" -> [d EXCEPT !.spdt = ev[2], !.dir = IF d.loco THEN ev[2] ELSE @]
      [] ev[1] = "EncoderButton" /\ d.loco /\ ~moving -> [d EXCEPT !.dir = Other(@)]
      [] ev[1] = "Encoder" /\ d.loco -> [d EXCEPT !.detents = @ + ev[2]]
      [] ev[1] = "EnterProgrammingMode" /\ saved -> [d EXCEPT !.phase = "programming"]
      [] OTHER -> d

Take ==
    /\ input # <<>>
    /\ input' = Tail(input)
    /\ UNCHANGED <<pins, chip, spoke, told, knob, raw, surface, lost, grip, budget, blanks>>

HandleAwake ==
    /\ dom.phase = "awake" /\ Take
    /\ \E moving, saved \in BOOLEAN : LET ev == Head(input) IN
           /\ dom' = Apply(dom, ev, moving, saved)
           /\ missed' = missed + IF dom.loco THEN 0 ELSE Detents(<<ev>>)
           /\ asked' = IF ev[1] = "EncoderButton" /\ dom.loco /\ ~moving
                       THEN [by |-> "knob", dir |-> Other(dom.dir)] ELSE asked

\* The first input lights the display again and is swallowed (a stop is given, too).
HandleBlank ==
    /\ dom.phase = "blank" /\ Take
    /\ dom' = [dom EXCEPT !.phase = "awake"]
    /\ Forget(<<Head(input)>>)

\* The splash swallows all input but the way to programming mode, which is not
\* taken when its flag cannot be saved.
HandleSplash ==
    /\ dom.phase = "splash" /\ Take
    /\ \/ dom' = dom
       \/ /\ Head(input)[1] \in {"Stop", "EnterProgrammingMode"}
          /\ dom' = [dom EXCEPT !.phase = "programming"]
    /\ Forget(<<Head(input)>>)

SplashEnds ==
    /\ dom.phase = "splash"
    /\ dom' = [dom EXCEPT !.phase = "awake"]
    /\ UNCHANGED <<pins, chip, spoke, told, knob, raw, input, surface, asked, missed, lost,
                   grip, budget, blanks>>

Blank ==
    /\ dom.phase = "awake" /\ blanks < MaxBlanks
    /\ dom' = [dom EXCEPT !.phase = "blank"]
    /\ blanks' = blanks + 1
    /\ UNCHANGED <<pins, chip, spoke, told, knob, raw, input, surface, asked, missed, lost,
                   grip, budget>>

\* AcquireAddr, AcquireRoster, SelectLoco: the loco takes the direction of the
\* switch as the domain knows it, and what the knob said last is over.
Acquire ==
    /\ dom.phase = "awake"
    /\ dom' = [dom EXCEPT !.loco = TRUE, !.dir = dom.spdt]
    /\ asked' = IF asked.by = "knob" THEN [by |-> None] ELSE asked
    /\ UNCHANGED <<pins, chip, spoke, told, knob, raw, input, surface, missed, lost, grip,
                   budget, blanks>>

Release ==
    /\ dom.phase = "awake" /\ dom.loco
    /\ dom' = [dom EXCEPT !.loco = FALSE]
    /\ UNCHANGED <<pins, chip, spoke, told, knob, raw, input, surface, asked, missed, lost,
                   grip, budget, blanks>>

---------------------------------------------------------------------------
(* The operator.                                                           *)

\* Nothing an operator did is still on its way.
Quiet == Settled /\ told = ("knob" \in pins) /\ raw = <<>> /\ input = <<>>

\* A hand that turns to the direction sees first what its last move has done.
Touch(k) ==
    /\ budget.hands > 0
    /\ k \in {"direction", "knob"} => Quiet
    /\ pins' = IF k \in pins THEN pins \ {k} ELSE pins \cup {k}
    /\ asked' = IF k = "direction" THEN [by |-> "switch", dir |-> Fwd(pins')] ELSE asked
    /\ budget' = [budget EXCEPT !.hands = @ - 1]
    /\ UNCHANGED <<chip, spoke, told, knob, raw, input, surface, dom, missed, lost, grip, blanks>>

\* The shaft turns by at most two Gray steps between two samples.
Turn ==
    /\ budget.steps > 0
    /\ \E pos \in {knob.pos - 1, knob.pos + 1} :
        /\ pos - knob.seen \in -2..2
        /\ knob' = [knob EXCEPT !.pos = pos]
    /\ budget' = [budget EXCEPT !.steps = @ - 1]
    /\ UNCHANGED <<pins, chip, spoke, told, raw, input, surface, dom, asked, missed, lost,
                   grip, blanks>>

\* Drivers and bridge have done all there was to do when a unit of time passes.
Second ==
    /\ Settled /\ raw = <<>>
    /\ surface.since # NotHeld \/ Chorded(pins)
    /\ surface' = [surface EXCEPT !.since =
                    IF @ \in {NotHeld, HOLD} THEN @ ELSE @ + 1]
    /\ grip' = [slipped |-> ~Chorded(pins),
                units |-> IF ~Chorded(pins) THEN 0
                          ELSE IF grip.slipped THEN 1
                          ELSE IF grip.units < HOLD THEN grip.units + 1 ELSE HOLD]
    /\ UNCHANGED <<pins, chip, spoke, told, knob, raw, input, dom, asked, missed, lost,
                   budget, blanks>>

---------------------------------------------------------------------------
(* The first read of the joystick port succeeds; keys are at rest.         *)

Init ==
    /\ pins \in {{}, {"direction"}}
    /\ chip = [p \in Ports |-> [stable |-> pins \cap Port[p], ticks |-> 0]]
    /\ spoke = pins
    /\ told = FALSE
    /\ knob = [pos |-> 0, seen |-> 0, old |-> Pack(0), accum |-> 0, delta |-> 0, skips |-> 0]
    /\ raw = <<<<"Switch", Fwd(pins)>>>>
    /\ input = <<>>
    /\ surface = [shift |-> FALSE, stop |-> FALSE, since |-> NotHeld, fired |-> FALSE]
    /\ dom = [phase |-> "splash", spdt |-> "fwd", loco |-> FALSE, dir |-> "fwd", detents |-> 0]
    /\ asked = [by |-> None] /\ missed = 0 /\ lost = FALSE
    /\ grip = [units |-> 0, slipped |-> TRUE]
    /\ budget \in Budgets /\ blanks = 0

Next ==
    /\ dom.phase # "programming"
    /\ \/ Poll \/ Sample \/ ButtonTask
       \/ OnRaw \/ BridgeTick
       \/ HandleAwake \/ HandleBlank \/ HandleSplash
       \/ SplashEnds \/ Blank \/ Acquire \/ Release
       \/ \E k \in Keys : Touch(k)
       \/ Turn \/ Second

Spec == Init /\ [][Next]_vars

---------------------------------------------------------------------------
(* Properties.                                                             *)

TypeOK ==
    /\ pins \subseteq Keys
    /\ \A p \in Ports : chip[p].stable \subseteq Port[p] /\ chip[p].ticks \in 0..(DEBOUNCE_TICKS - 1)
    /\ knob.old \in 0..3 /\ knob.accum \in (1 - DETENT_STEPS)..(DETENT_STEPS - 1)
    /\ Len(raw) <= RAW_CHANNEL_DEPTH /\ Len(input) <= INPUT_CHANNEL_DEPTH
    /\ surface.since \in {NotHeld} \cup 0..HOLD
    /\ dom.phase \in {"splash", "awake", "blank", "programming"}

\* With the types: every Gray step of the shaft has come to the domain, is on its way, lost
\* with a detent that was dropped or swallowed, or in the decoder's count, bounces
\* cancelled; a step skipped between two samples costs the two steps of the jump
\* and never more.
EncoderCounts ==
    /\ TypeOK
    /\ LET heard == dom.detents + missed + Detents(raw) + Detents(input)
       IN  (knob.seen - (DETENT_STEPS * heard + knob.accum)) \in (-2 * knob.skips)..(2 * knob.skips)

\* A switch moved while the handset listens, and not lost to a full channel, decides
\* the direction of the loco driven and of the next one, through bounce, keys pressed
\* on the same port, and acquires, until the knob has its turn.
SwitchIsObeyed ==
    Quiet /\ asked.by = "switch" =>
        /\ dom.spdt = asked.dir
        /\ dom.loco => dom.dir = asked.dir

\* Programming mode takes both keys held for the whole time, and if one of them was
\* let go since, if only for a moment, its release is still on the way to the bridge.
ChordIsHeld ==
    [][surface'.fired /\ ~surface.fired /\ ~lost =>
        /\ grip.units >= HOLD
        /\ grip.slipped =>
             \E k \in {"shift1", "stop"} : \E i \in DOMAIN raw : raw[i] = <<"Button", k, FALSE>>]_vars

\* The switch is reported when it is moved and not otherwise, so that a direction
\* given with the knob stands until the operator gives another.
KnobStands == Quiet /\ asked.by = "knob" => dom.dir = asked.dir
============================================================================
