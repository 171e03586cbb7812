------------------------------ MODULE Startup ------------------------------
(***************************************************************************)
(* The domain loop from power-on to the first drive and back to sleep      *)
(* (domain/task.rs, power/sleep.rs), composed with the Wi-Fi station.      *)
(*                                                                         *)
(* One turn of the loop is one step: an arm of its select (a key or the    *)
(* tick), then the polls of STATE, CONN and WIFI_SCAN that follow every    *)
(* arm.  The arms are operators on the record d of the loop's locals, so   *)
(* that a turn is their composition.  What the router makes of a key is    *)
(* module Navigation's; here a key is what it leads to.                    *)
(***************************************************************************)
EXTENDS Wifi

CONSTANTS
    Handsets,     \* the board, what is on flash, and (a bound) the keys pressed
    MaxServerUps  \* bound: times the command station answers

VARIABLES
    d,        \* the locals of the loop and the RAM copy of the record
    conn,     \* CONN
    idle,     \* 0: just used, 1: past DISPLAY_BLANK, 2: past AUTO_SLEEP
    mode,     \* "run", "asleep", or "programming" after the reset
    sleeping, \* SLEEP_CTRL was signalled: the sleep task's delay runs
    track,    \* what the server was told last: to move the loco
    keys,     \* keys still to be pressed
    ups

dvars == <<d, conn, idle, mode, sleeping, track, keys, ups>>
vars == <<wifi, dvars>>

HandsetFields ==
    [lang : BOOLEAN, server : BOOLEAN, creds : Credentials \cup {None},
     oled : BOOLEAN, usb : BOOLEAN, weak : BOOLEAN, keys : Nat]

\* A network is first chosen without its password.
ASSUME StartupAssumption ==
    /\ Handsets \subseteq HandsetFields
    /\ \A c \in Credentials : <<c[1], "">> \in Credentials
    /\ MaxServerUps \in Nat

Wizard == {"Connecting", "Password", "List", "SsidScanning", "WifiFailed"}
Screens == Wizard \cup {"Splash", "Language", "ServerList", "Throttle"}

BootWait == {"Splash", "Language", "WifiConnect", "WifiFailed", "ServerConnect", "Done"}

TypeOK ==
    /\ WifiTypeOK
    /\ d \in [screen : Screens, under : BOOLEAN, boot : BootWait, phase : BOOLEAN,
              saw : BOOLEAN, seen : {"Disconnected", "Connecting", "WifiConnected", "Ready"},
              conn : BOOLEAN, sel : Credentials \cup {None}, pend : BOOLEAN,
              lang : BOOLEAN, creds : Credentials \cup {None}, server : BOOLEAN,
              srv : BOOLEAN, weak : BOOLEAN, oled : BOOLEAN, usb : BOOLEAN, blanked : BOOLEAN, sleepReq : BOOLEAN,
              moving : BOOLEAN, sent : {<<>>}, signal : {FALSE}]
    /\ conn \in BOOLEAN /\ sleeping \in BOOLEAN /\ track \in BOOLEAN
    /\ idle \in 0..2
    /\ mode \in {"run", "asleep", "programming"}
    /\ keys \in Nat /\ ups \in 0..MaxServerUps

---------------------------------------------------------------------------
(* Screens and their commands.                                             *)

Emit(l, cmd) == [l EXCEPT !.sent = Append(@, cmd)]

\* replace_screen(SsidScanning): its on_enter asks for a scan.
Scanning(l) == Emit([l EXCEPT !.screen = "SsidScanning"], <<"Scan">>)

\* WifiConnect: nothing is sent when no network is chosen.
Connect(l) == IF l.sel = None THEN l ELSE Emit(l, <<"Connect", l.sel>>)

\* begin_wifi_setup, and what task() makes of it at each of its call sites.
BeginWifiSetup(l) ==
    IF l.creds # None
    THEN Connect([l EXCEPT !.screen = "Connecting", !.under = FALSE, !.sel = l.creds,
                           !.boot = "WifiConnect", !.phase = TRUE, !.saw = FALSE])
    ELSE Scanning([l EXCEPT !.boot = "Done", !.phase = FALSE])

\* Mutant of Fail: the message has no end.
FailUntimed(l) == [l EXCEPT !.screen = "WifiFailed", !.boot = "WifiFailed", !.phase = FALSE]

Fail(l) == [l EXCEPT !.screen = "WifiFailed", !.boot = "WifiFailed", !.phase = TRUE]

EStop(l) == [l EXCEPT !.moving = FALSE]

---------------------------------------------------------------------------
(* The keys: what they lead to on each screen, a set since the operator    *)
(* chooses the key.                                                        *)

Networks == {c[1] : c \in Credentials}

\* Another network forgets the password of the last one.
PickSsid(l, n) ==
    IF l.sel # None /\ l.sel[1] = n THEN l.sel ELSE <<n, "">>

OnList(l) ==
    \* another scan: the key and the new screen's on_enter both ask for it
    {Emit(Scanning(l), <<"Scan">>)}
    \* a network is opened: its password is still to be typed
    \cup {[l EXCEPT !.screen = "Password", !.under = TRUE, !.sel = PickSsid(l, n)] :
             n \in Networks}

\* A password typed for a scanned network is to be saved after the join.
OnPassword(l) ==
    {Connect([l EXCEPT !.screen = "Connecting", !.sel = c, !.pend = @ \/ c[2] # ""]) :
        c \in {x \in Credentials : x[1] = l.sel[1]}}
    \cup {[l EXCEPT !.screen = "List"]}

OnServerList(l) ==
    {[l EXCEPT !.screen = "Throttle", !.server = TRUE, !.srv = TRUE], [l EXCEPT !.screen = "List"]}

\* Speed, stop, the Wi-Fi settings, and the Sleep of the menu.
OnThrottle(l) ==
    {[l EXCEPT !.moving = @ \/ l.conn], [l EXCEPT !.moving = FALSE],
     [l EXCEPT !.screen = "List", !.under = TRUE],
     [EStop(l) EXCEPT !.signal = TRUE]}

Handle(l) ==
    CASE l.screen = "List"         -> OnList(l)
      [] l.screen = "Password"     -> OnPassword(l)
      [] l.screen = "SsidScanning" -> {[l EXCEPT !.screen = "List"]}
      [] l.screen = "WifiFailed"   -> {[l EXCEPT !.screen = "List"]}
      [] l.screen = "Connecting"   -> {IF l.under THEN [l EXCEPT !.screen = "List"] ELSE l}
      [] l.screen = "ServerList"   -> OnServerList(l)
      [] l.screen = "Throttle"     -> OnThrottle(l)
      [] l.screen = "Language"     -> {BeginWifiSetup([l EXCEPT !.lang = TRUE])}

\* The input arm, for a key the loop does not swallow: the emergency stop, or
\* any other key when the panel is lit.
KeyArm(l, key) ==
    IF key = "estop" THEN {EStop([l EXCEPT !.blanked = FALSE])}
    ELSE {IF h.screen = "ServerList" /\ h.boot # "ServerConnect"
          THEN [h EXCEPT !.boot = "Done", !.phase = FALSE] ELSE h : h \in Handle(l)}

---------------------------------------------------------------------------
(* The tick.                                                               *)

PhaseArm(l) ==
    CASE l.boot = "Splash" /\ l.lang  -> BeginWifiSetup(l)
      [] l.boot = "Splash" /\ ~l.lang ->
           [l EXCEPT !.screen = "Language", !.boot = "Language", !.phase = FALSE]
      [] l.boot = "WifiConnect"       -> Fail(l)
      [] l.boot = "WifiFailed"        -> Scanning([l EXCEPT !.boot = "Done", !.phase = FALSE])
      [] l.boot = "ServerConnect"     -> [l EXCEPT !.phase = FALSE]
      [] OTHER                        -> l

\* Mutant of Parked: moving locos do not keep the panel on.
ParkedAnyhow(l) == l.boot = "Done" /\ ~l.usb

\* The panel goes dark, and the handset to sleep, only when nothing moves.
Parked(l) == l.boot = "Done" /\ ~l.usb /\ ~l.moving

BlankArm(l) ==
    IF l.usb THEN [l EXCEPT !.blanked = FALSE]
    ELSE IF Parked(l) /\ l.oled /\ idle > 0 THEN [l EXCEPT !.blanked = TRUE]
    ELSE l

\* Mutant of SleepArm: only a dark handset falls asleep, so one without a panel never does.
SleepArmDark(l) ==
    IF Parked(l) /\ ~l.sleepReq /\ idle = 2 /\ l.blanked
    THEN EStop([l EXCEPT !.blanked = FALSE, !.sleepReq = TRUE, !.signal = TRUE])
    ELSE l

\* request_device_sleep.
SleepArm(l) ==
    IF Parked(l) /\ ~l.sleepReq /\ idle = 2
    THEN EStop([l EXCEPT !.blanked = FALSE, !.sleepReq = TRUE, !.signal = TRUE])
    ELSE l

TickArm(l, expired) == SleepArm(BlankArm(IF expired THEN PhaseArm(l) ELSE l))

---------------------------------------------------------------------------
(* The polls.                                                              *)

\* take_pending_password_save.
Takes(l) == net # l.seen /\ net = "Ready" /\ l.pend

ReadyArm(l) ==
    IF l.screen \notin Wizard THEN l
    ELSE IF l.server
         THEN [l EXCEPT !.screen = "Connecting", !.srv = TRUE,
                        !.boot = "ServerConnect", !.phase = TRUE]
         ELSE [l EXCEPT !.screen = "ServerList", !.boot = "Done", !.phase = FALSE]

NetArm(l) ==
    LET w == [l EXCEPT !.seen = net, !.saw = @ \/ net = "Connecting"]
    IN  IF net = l.seen THEN l
        ELSE IF net = "Ready"
        THEN ReadyArm(IF Takes(l) THEN [w EXCEPT !.pend = FALSE, !.creds = l.sel] ELSE w)
        ELSE IF net = "Disconnected" /\ w.boot = "WifiConnect" /\ w.saw
        THEN Fail(w)
        ELSE w

ConnArm(l) ==
    LET w == [l EXCEPT !.conn = conn]
    IN  IF conn = l.conn \/ ~conn THEN w
        ELSE [w EXCEPT !.boot = "Done", !.phase = FALSE,
                       !.screen = IF @ \in {"Connecting", "ServerList"} THEN "Throttle" ELSE @]

ScanArm(l) ==
    IF scan /\ l.screen = "SsidScanning" THEN [l EXCEPT !.screen = "List"] ELSE l

\* What every turn ends with; l is what its arm left, stopped that the arm sent a stop.
Polls(l, stopped) ==
    LET e == ScanArm(ConnArm(NetArm(l)))
    IN  /\ d' = [e EXCEPT !.sent = <<>>, !.signal = FALSE]
        /\ ctrl' = TrySend(ctrl, e.sent)
        /\ scan' = FALSE
        /\ sleeping' = (sleeping \/ e.signal)
        /\ track' = IF stopped \/ e.moving # d.moving THEN e.moving ELSE track
        /\ UNCHANGED <<station, net, link, watching, drops, conn>>

PowerOn(h) ==
    [lang |-> h.lang, server |-> h.server, creds |-> h.creds,
     oled |-> h.oled, usb |-> h.usb, weak |-> h.weak,
     screen |-> "Splash", under |-> FALSE, boot |-> "Splash", phase |-> TRUE, saw |-> FALSE,
     seen |-> "Disconnected", conn |-> FALSE, sel |-> None, pend |-> FALSE, srv |-> FALSE,
     blanked |-> FALSE, sleepReq |-> FALSE, moving |-> FALSE, sent |-> <<>>,
     signal |-> FALSE]

\* RAM and radio are gone; what the server was told last is not.
Off ==
    /\ d' = PowerOn([lang |-> FALSE, server |-> FALSE, creds |-> None, oled |-> TRUE,
                     usb |-> FALSE, weak |-> FALSE])
    /\ station' = [at |-> "idle", with |-> None] /\ ctrl' = <<>> /\ scan' = FALSE
    /\ net' = "Disconnected" /\ link' = None /\ watching' = "up"
    /\ conn' = FALSE /\ idle' = 0 /\ sleeping' = FALSE
    /\ UNCHANGED <<track, drops, ups>>

---------------------------------------------------------------------------
(* Turns of the loop.                                                      *)

Splash == d.boot = "Splash" \/ d.screen = "Splash"

KeyPressed == keys > 0 /\ keys' = keys - 1

Key(key) ==
    /\ KeyPressed
    /\ IF d.blanked THEN key = "estop" ELSE ~Splash
    /\ \E l \in KeyArm(d, key) : Polls(l, key = "estop")
    /\ idle' = 0
    /\ UNCHANGED <<mode, ups>>

\* A key that wakes the panel or comes during the splash goes no further; the
\* turn ends before the polls.
Swallowed ==
    /\ KeyPressed
    /\ d.blanked \/ Splash
    /\ d' = [d EXCEPT !.blanked = FALSE]
    /\ idle' = 0
    /\ UNCHANGED <<wifi, conn, mode, sleeping, track, ups>>

\* The flag is on flash before the reset, or there is no reset.
Program(written) ==
    /\ ~d.blanked /\ KeyPressed
    /\ IF written THEN mode' = "programming" /\ Off
       ELSE idle' = 0 /\ UNCHANGED <<wifi, d, conn, mode, sleeping, track, ups>>

Tick(expired) ==
    /\ expired => d.phase
    /\ Polls(TickArm(d, expired), FALSE)
    /\ idle' = IF conn /\ ~d.conn THEN 0 ELSE idle
    /\ UNCHANGED <<mode, keys, ups>>

---------------------------------------------------------------------------
(* The rest of the handset and the world.                                  *)

\* Five minutes without a key: every phase and every join has ended by then.
Quiet ==
    /\ idle < 2
    /\ ~d.phase /\ station.at # "joining" /\ ctrl = <<>>
    /\ d.conn = conn
    /\ idle' = idle + 1
    /\ UNCHANGED <<wifi, d, conn, mode, sleeping, track, keys, ups>>

\* With a weak battery the battery task asks for sleep on its own; its stops are
\* given up when the command channel stays full for 200 ms.
BatteryLow ==
    /\ d.weak /\ ~d.usb /\ ~sleeping
    /\ track' \in {FALSE, track}
    /\ sleeping' = TRUE
    /\ UNCHANGED <<wifi, d, conn, idle, mode, keys, ups>>

\* The sleep task's delay cannot be called off.
Sleeps ==
    /\ sleeping
    /\ mode' = "asleep"
    /\ Off
    /\ UNCHANGED keys

ServerUp ==
    /\ ~conn /\ d.srv /\ link # None /\ ups < MaxServerUps
    /\ conn' = TRUE
    /\ ups' = ups + 1
    /\ UNCHANGED <<wifi, d, idle, mode, sleeping, track, keys>>

ServerDown ==
    /\ conn
    /\ conn' = FALSE
    /\ UNCHANGED <<wifi, d, idle, mode, sleeping, track, keys, ups>>

\* A board without a panel starts the set-up before the loop.
Init ==
    \E h \in Handsets :
        LET l == IF h.oled THEN PowerOn(h) ELSE BeginWifiSetup(PowerOn(h))
        IN  /\ WifiInit(TrySend(<<>>, l.sent))
            /\ d = [l EXCEPT !.sent = <<>>]
            /\ conn = FALSE /\ idle = 0 /\ mode = "run"
            /\ sleeping = FALSE /\ track = FALSE
            /\ keys = h.keys /\ ups = 0

Station == WifiNext /\ UNCHANGED dvars

Operator == (\E key \in {"estop", "other"} : Key(key)) \/ Swallowed

World == Quiet \/ BatteryLow \/ ServerUp \/ ServerDown

\* Asleep, or reset into programming mode, nothing runs.
Running(A) == mode = "run" /\ A

Next ==
    Running(\/ Station
            \/ Operator
            \/ \E written \in BOOLEAN : Program(written)
            \/ \E expired \in BOOLEAN : Tick(expired)
            \/ World
            \/ Sleeps)

Spec == Init /\ [][Next]_vars

\* Every task runs and every timer runs out; a network that accepts the handset
\* takes it in the end.
FairSpec ==
    /\ Spec
    /\ WF_vars(Running(Connection) /\ UNCHANGED dvars)
    /\ WF_vars(Running(\E joined \in BOOLEAN : JoinEnds(joined)) /\ UNCHANGED dvars)
    /\ SF_vars(Running(JoinEnds(TRUE)) /\ UNCHANGED dvars)
    /\ WF_vars(Running(StatusUp) /\ UNCHANGED dvars)
    /\ WF_vars(Running(StatusDown) /\ UNCHANGED dvars)
    /\ \A expired \in BOOLEAN : WF_vars(Running(Tick(expired)))
    /\ SF_vars(Running(Quiet))
    /\ WF_vars(Running(Sleeps))

---------------------------------------------------------------------------
(* Properties.                                                             *)

\* With the types: a dark panel hides nothing that moves, what the server was told last is to
\* stand still, and the key that wakes the panel changes nothing (the input and
\* the tick arm of task).
BlankIsParked == TypeOK /\ (d.blanked => ~track)

\* The set-up that starts at power-on comes to an end of its own accord: at the
\* throttle, at a list, or waiting for a server (the phase timers of task).
BootSettles ==
    d.boot \in {"Splash", "WifiConnect", "WifiFailed"}
        ~> (d.boot \in {"Language", "ServerConnect", "Done"} \/ mode # "run")

\* A handset nobody touches any more is asleep in the end, unless it hangs on a
\* charger, still drives, or waits for a language or for its command station
\* (the auto-sleep of task and the sleep task).
LeftAloneSleeps ==
    <>(mode # "run") \/ <>[](d.usb \/ d.moving \/ d.boot \in {"Language", "ServerConnect"})

\* A station told to join a network that accepts it is linked again and again,
\* however often the link drops, unless a scan or another credential takes the
\* place of the join (connection, wifi.rs).
Rejoins ==
    \A c \in Accepted :
        (station.with = c) ~>
            \/ station.at = "linked"
            \/ scan \/ station.with \in Credentials \ {c}
            \/ mode # "run"

\* A link that stays is reported to the operator's screens: of the two writers
\* of STATE the one that says Ready speaks last, and the loop sees it.
LinkIsReported ==
    <>[](station.at = "linked" /\ mode = "run") => <>[](d.seen = "Ready")
=============================================================================
