---------------------------- MODULE Navigation ----------------------------
(***************************************************************************)
(* The UI of the handset as one machine: a key goes through the board's    *)
(* navigation profile to the open screen, the screen's route command is    *)
(* carried out until it settles (router.rs), and the intents are handed to *)
(* the firmware.  Between keys the firmware reports its own events,        *)
(* discovery replaces the list of found servers and an overlay runs out.   *)
(*                                                                         *)
(* An operator who wants to leave presses nothing but Back from then on    *)
(* (homing): wherever the keys before led, Back leads to the throttle.     *)
(***************************************************************************)
EXTENDS Screens, FiniteSets

CONSTANTS
    StackCap,   \* STACK_CAP
    Profiles,   \* the boards: "LongFred", "MarkWTech"
    Servers,    \* the servers discovery may find
    Starts,     \* what an operator starts from: screen, stack, and the network
                \* that was chosen last and given its password, or ""
    Keys,       \* the keys pressed
    MaxKeys     \* bound: keys pressed before the operator heads home

\* A server is asked about only on the way from the list, so that no stack holds
\* the question, and nobody starts with half a password typed.
ASSUME NavigationAssumption ==
    /\ StackCap \in Nat \ {0}
    /\ IsFiniteSet(Servers)
    /\ Profiles \subseteq {"LongFred", "MarkWTech"}
    /\ \A start \in Starts :
          /\ start[1] \in ScreenId \ {"Password"}
          /\ start[2] \in Seq(ScreenId \ {"ServerConfirm"})
          /\ Len(start[2]) <= StackCap

VARIABLES
    u,          \* the UI: screen, stack, handler results, drafts
    board,      \* the profile and whether there is a keypad
    found,      \* NetInfo::found_servers
    ota,        \* NetInfo::http_ota
    demand,     \* the last key was a stop, and the current slot has a loco
    homing,     \* only Back is pressed from now on
    pressed     \* keys pressed so far

vars == <<u, board, found, ota, demand, homing, pressed>>

---------------------------------------------------------------------------
(* nav_profile.rs: what a key means on a board and a kind of screen.       *)

LongFredNav(key, mode) ==
    LET text == mode = "text"
    IN  CASE key \in {"up", "down"} -> IF text THEN "char" ELSE "list"
          [] key \in {"left", "right"} -> IF text THEN "cursor" ELSE "page"
          [] key = "ok" -> "select"
          [] key = "back" -> "cancel"
          [] key = "menu" -> IF text THEN "select" ELSE "menu"
          [] key \in {"cw", "ccw"} /\ text -> "char"
          [] key = "push" /\ text -> "select"
          [] key = "digit" -> "digit"
          [] key = "star" -> "ignored"
          [] OTHER -> "pass"

MarkwtechNav(key, mode) ==
    CASE key \in {"cw", "ccw"} ->
           CASE mode = "text" -> "char" [] mode = "throttle" -> "pass" [] OTHER -> "list"
      [] key \in {"left", "right"} -> IF mode = "text" THEN "cursor" ELSE "page"
      [] key \in {"hash", "ok"} -> "select"
      [] key = "star" ->
           CASE mode = "text" -> "case" [] mode = "throttle" -> "pass" [] OTHER -> "cancel"
      [] key = "digit" -> "digit"
      [] key = "menu" -> IF mode = "text" THEN "select" ELSE "menu"
      [] key = "push" /\ mode = "text" -> "select"
      [] key = "back" -> "cancel"
      [] OTHER -> "pass"

NavAction(key, mode) ==
    IF board.profile = "LongFred" THEN LongFredNav(key, mode) ELSE MarkwtechNav(key, mode)

Direction(key) == IF key \in {"up", "left", "ccw"} THEN "prev" ELSE "next"

---------------------------------------------------------------------------
(* router.rs.                                                              *)

\* enter_screen: the new screen's on_enter may issue a command of its own.
EnterScreen(v, cx, id) == OnEnter(NewScreen([v EXCEPT !.cmd = NoCmd], id), cx)

\* Mutant of Step: Back looks at the stack without taking from it.
StepWithoutPop(v, cx) ==
    LET n == Len(v.stack)
    IN  CASE v.cmd.op = "back" -> EnterScreen(v, cx, IF n = 0 THEN "Throttle" ELSE v.stack[n])
          [] v.cmd.op = "go" /\ v.cmd.to # v.screen ->
               EnterScreen([v EXCEPT !.stack = Append(IF n = StackCap THEN Tail(@) ELSE @, v.screen)],
                           cx, v.cmd.to)
          [] v.cmd.op = "replace" /\ v.cmd.to # v.screen -> EnterScreen(v, cx, v.cmd.to)
          [] v.cmd.op = "root" -> EnterScreen([v EXCEPT !.stack = <<>>], cx, v.cmd.to)
          [] OTHER -> [v EXCEPT !.cmd = NoCmd]

Step(v, cx) ==
    LET n == Len(v.stack)
    IN  CASE v.cmd.op = "go" /\ v.cmd.to # v.screen ->
               EnterScreen([v EXCEPT !.stack = Append(IF n = StackCap THEN Tail(@) ELSE @, v.screen)],
                           cx, v.cmd.to)
          [] v.cmd.op = "replace" /\ v.cmd.to # v.screen -> EnterScreen(v, cx, v.cmd.to)
          [] v.cmd.op = "back" ->
               EnterScreen([v EXCEPT !.stack = IF n = 0 THEN @ ELSE SubSeq(@, 1, n - 1)],
                           cx, IF n = 0 THEN "Throttle" ELSE v.stack[n])
          [] v.cmd.op = "root" -> EnterScreen([v EXCEPT !.stack = <<>>], cx, v.cmd.to)
          [] OTHER -> [v EXCEPT !.cmd = NoCmd]

\* One pass of apply's loop, over a set of one UI (TLC evaluates it once).
Hop(vs, cx) == {IF v.cmd = NoCmd THEN v ELSE Step(v, cx) : v \in vs}

\* apply: at most four commands (MAX_NAV_HOPS) follow one another.
Apply(v, cx) ==
    LET settled == CHOOSE w \in Hop(Hop(Hop(Hop({v}, cx), cx), cx), cx) : TRUE
    IN  IF settled.cmd = NoCmd THEN settled
        ELSE [settled EXCEPT !.cmd = NoCmd, !.fault = @ \cup {"not settled"}]

Fresh(v) == [v EXCEPT !.out = <<>>]

WithNav(v, cx, a) == Apply(Handler(v, cx, a), cx)

Track(v, action) == Emit(v, <<"Action", action>>)

\* passthrough: keys no profile maps; most of them drive the loco.
PassThrough(v, cx, a) ==
    LET throttle == v.screen = "Throttle"
    IN  CASE a.key = "estop" -> Track(v, "EStop")
          [] a.key = "stop" /\ throttle -> Track(v, "EStop")
          [] a.key = "stop" /\ ~throttle -> WithNav(v, cx, [a EXCEPT !.act = "stop"])
          [] a.key = "fn" -> WithNav(v, cx, [a EXCEPT !.act = "fn"])
          [] a.key = "program" -> Emit(v, <<"EnterProgrammingMode">>)
          [] a.key \in {"direction", "star"} /\ cx.loco -> Track(v, "DirectionToggle")
          [] a.key = "cw" /\ throttle /\ cx.loco -> Track(v, "SpeedUp")
          [] a.key = "ccw" /\ throttle /\ cx.loco -> Track(v, "SpeedDown")
          [] a.key \in {"cw", "ccw"} /\ throttle /\ ~cx.loco -> WithNav(v, cx, [a EXCEPT !.act = "char"])
          [] a.key = "push" /\ throttle /\ cx.loco -> Track(v, "SpeedStopThenToggleDirection")
          [] a.key = "speed" /\ cx.loco -> Track(v, "SpeedSet")
          [] a.key = "slot" -> Track(v, "Throttle")
          [] OTHER -> v

\* handle_overlay_input: an overlay takes every key; a stop also stops.
OverlayInput(v, cx, a) ==
    IF a.key \notin {"estop", "stop"} THEN v
    ELSE IF cx.loco THEN Track([v EXCEPT !.overlay = FALSE], "EStop")
    ELSE [v EXCEPT !.overlay = FALSE]

\* Mutant of Handle: an overlay swallows every key.
HandleDeafUnderOverlay(v, cx, a) ==
    IF v.overlay THEN v
    ELSE IF a.act = "pass" THEN PassThrough(v, cx, a) ELSE WithNav(v, cx, a)

Handle(v, cx, a) ==
    CASE v.overlay -> OverlayInput(v, cx, a)
      [] ~v.overlay /\ KeyBindings(v.screen) = "navigation" /\ a.key = "star" ->
           WithNav(v, cx, [a EXCEPT !.act = "star"])
      [] ~v.overlay /\ a.act = "pass" -> PassThrough(v, cx, a)
      [] OTHER -> WithNav(v, cx, a)

\* on_app_event: pairing opens its screens wherever the operator is.
OnAppEvent(v, cx, e) ==
    CASE e \in {"PairingRequired", "PairingFailed"} -> Apply(ReplaceBy(v, "Pairing"), cx)
      [] e = "PairingStarted" -> Apply(ReplaceBy(v, "PairingWait"), cx)
      [] e = "PairingSucceeded" -> Apply(Home(v), cx)
      [] OTHER -> WithNav(v, cx, [act |-> e, key |-> e, row |-> 0, dir |-> "none", text |-> ""])

---------------------------------------------------------------------------
(* The machine.                                                            *)

\* What an editor may hold after a key.
TextsOf(screen) ==
    CASE screen = "Password" -> {"", u.ssid}
      [] screen = "ServerEntry" -> {"part", "full"}
      [] screen \in {"Throttle", "AddrEdit"} -> {"", "addr"}
      [] screen \in Editors \ {"Password", "ServerEntry", "AddrEdit"} -> {"part", "full"}
      [] OTHER -> {""}

\* The highest row a key can hit on a screen.
RowsOf(screen) ==
    CASE screen = "Menu" -> 1..Len(MenuItems)
      [] screen = "Extras" -> 1..Len(ExtrasItems)
      [] screen = "ServerMenu" -> 1..Len(ServerMenuItems)
      [] screen = "DirectCommands" -> 1..Len(DirectItems)
      [] screen = "Choice" -> DOMAIN ChoiceRows[u.choice]
      [] screen \in Navigable \ {"Menu", "Extras", "ServerMenu", "DirectCommands", "Choice"} -> 1..2
      [] OTHER -> {1}

\* What the screens read of the rest of the handset and this model does not keep.
Snapshots ==
    [loco : BOOLEAN, source : {"AddressOnly", "ServerRoster", "StaticRoster"}, last : BOOLEAN,
     dead : {TRUE}, mode : {"Auto"}, roster : {0, 1}, scanned : {<<"s1", "s2">>},
     found : {found}, ota : {ota}, keypad : {board.keypad}]

\* The snapshots a screen tells apart.
SnapshotsFor(screen) ==
    {cx \in Snapshots :
        /\ screen \notin {"Throttle", "Menu", "RosterList"} => cx.source = "AddressOnly"
        /\ screen # "RosterList" => cx.roster = 0
        /\ screen # "ServerMenu" => cx.last}

HttpOta(out) ==
    LET on == {i \in DOMAIN out : out[i][1] = "SetHttpOta"}
    IN  IF on = {} THEN ota ELSE out[CHOOSE i \in on : \A j \in on : j <= i][2]

Become(v) ==
    /\ u' = v
    /\ ota' = HttpOta(v.out)

Press(key) ==
    /\ ~homing
    /\ pressed < MaxKeys
    /\ \E cx \in SnapshotsFor(u.screen), row \in RowsOf(u.screen) \cup {0}, text \in TextsOf(u.screen) :
          LET act == NavAction(key, KeyBindings(u.screen))
              a == [act |-> act, key |-> key, row |-> row, dir |-> Direction(key), text |-> text]
          IN  /\ act = "select" => row # 0
              /\ act \notin {"select", "digit"} /\ key \notin {"fn", "star"} => row = 0
              /\ Become(Handle(Fresh(u), cx, a))
              /\ demand' = (cx.loco /\ (key = "estop" \/ (key = "stop" /\ (u.overlay \/ u.screen = "Throttle"))))
    /\ pressed' = pressed + 1
    /\ UNCHANGED <<board, found, homing>>

\* What the firmware reports to the UI (AppEvent), WifiFailed being never sent.
Report(e) ==
    /\ ~homing
    /\ \E cx \in SnapshotsFor(u.screen) : Become(OnAppEvent(Fresh(u), cx, e))
    /\ demand' = FALSE
    /\ UNCHANGED <<board, found, homing, pressed>>

\* Discovery replaces the list as a whole.
FoundServers(list) ==
    /\ ~homing
    /\ list # found
    /\ found' = list
    /\ u' = Fresh(u)
    /\ demand' = FALSE
    /\ UNCHANGED <<board, ota, homing, pressed>>

\* Router::tick dismisses an overlay whose time is over.
OverlayTimeout ==
    /\ u.overlay
    /\ u' = [Fresh(u) EXCEPT !.overlay = FALSE]
    /\ demand' = FALSE
    /\ UNCHANGED <<board, found, ota, homing, pressed>>

HeadHome ==
    /\ ~homing
    /\ homing' = TRUE
    /\ u' = Fresh(u)
    /\ demand' = FALSE
    /\ UNCHANGED <<board, found, ota, pressed>>

PressBack ==
    /\ homing
    /\ u.screen # "Throttle"
    /\ ~u.overlay
    /\ \E cx \in {s \in SnapshotsFor(u.screen) : ~s.loco} :
          Become(Handle(Fresh(u), cx,
                        [act |-> "cancel", key |-> "back", row |-> 0, dir |-> "next", text |-> ""]))
    /\ demand' = FALSE
    /\ UNCHANGED <<board, found, homing, pressed>>

AtHome == homing /\ u.screen = "Throttle" /\ ~u.overlay /\ UNCHANGED vars

Lists == {<<>>} \cup {<<s>> : s \in Servers}

Events == {"WifiReady", "ScanDone", "ServerConnected", "PairingRequired", "PairingStarted",
           "PairingSucceeded", "PairingFailed"}

Session ==
    [screen : {"Throttle"}, stack : {<<>>}, cmd : {NoCmd}, out : {<<>>}, fault : {{}},
     overlay : {FALSE}, star : {"off"}, kbd : {""}, page : {0}, choice : {"DeadMan"},
     settings : {FALSE}, boot : {FALSE}, pending : {0}, proto : {"WiThrottle"}, digits : {""},
     fromList : {FALSE}, addr : {""}, ssid : {""}, fromScan : {FALSE}, pw : {""}, save : {FALSE},
     hash : BOOLEAN, field : {"Dhcp"}, dhcp : {TRUE}]

Init ==
    /\ \E s \in Session, start \in Starts :
          u = [s EXCEPT !.screen = start[1], !.stack = start[2], !.boot = start[1] = "Language",
                        !.field = IF start[1] = "IpEdit" THEN "Gateway" ELSE @,
                        !.kbd = IF start[1] \in Editors THEN "full" ELSE "",
                        !.ssid = start[3], !.pw = start[3]]
    /\ board \in [profile : Profiles, keypad : BOOLEAN]
    /\ found = <<>>
    /\ ota = FALSE
    /\ demand = FALSE
    /\ homing = FALSE
    /\ pressed = 0

Next ==
    \/ \E key \in Keys : Press(key)
    \/ \E e \in Events : Report(e)
    \/ \E list \in Lists : FoundServers(list)
    \/ OverlayTimeout
    \/ HeadHome
    \/ PressBack
    \/ AtHome

Spec == Init /\ [][Next]_vars

\* An operator heading home goes on pressing Back, and the tick of the loop
\* ends overlays.
FairSpec == Spec /\ WF_vars(PressBack) /\ WF_vars(OverlayTimeout)

---------------------------------------------------------------------------
(* Properties.                                                             *)

\* The UI is in one of its screens with a stack within its capacity.
TypeOK ==
    /\ u.screen \in ScreenId
    /\ Len(u.stack) <= StackCap
    /\ \A i \in DOMAIN u.stack : u.stack[i] \in ScreenId
    /\ u.cmd = NoCmd
    /\ Len(u.out) <= MAX_INTENTS
    /\ u.pending \in 0..Cardinality(Servers)
    /\ ota \in BOOLEAN /\ demand \in BOOLEAN /\ homing \in BOOLEAN

\* With the types: no handler issues two route commands or more intents than the queue holds,
\* and no chain of on_enter commands outlasts the router: the debug assertions
\* of nav.rs and of Router::apply.
NoDebugAssert == TypeOK /\ u.fault = {}

\* A network is never joined with the password drafted or stored for another.
PasswordMatchesSsid ==
    (<<"WifiConnect">> \in {u.out[i] : i \in DOMAIN u.out}) => u.pw \in {"", u.ssid}

\* A server taken over from the list is one the list still holds when the
\* firmware looks it up.
SelectionExists ==
    \A i \in DOMAIN u.out : u.out[i][1] = "ServerSelect" => u.out[i][2] \in DOMAIN found

\* A stop pressed while the current slot has a loco reaches the domain, also
\* under an overlay and from whatever screen an emergency stop is given.
StopIsHeard == demand => <<"Action", "EStop">> \in {u.out[i] : i \in DOMAIN u.out}

\* From every screen the keys can lead to, pressing nothing but Back ends at
\* the throttle (the first-boot language screen asks for an answer).
BackLeadsHome == homing ~> (u.screen = "Throttle" \/ u.boot)
============================================================================
