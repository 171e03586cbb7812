------------------------------ MODULE Screens ------------------------------
(***************************************************************************)
(* The screens of the handset (crates/ui/src/screens) and what they issue  *)
(* through the navigator: one route command and up to four intents.  A     *)
(* screen is an operator from the UI u, a snapshot cx of the rest of the   *)
(* handset and an action a of the operator to the UI after the handler.    *)
(*                                                                         *)
(* u carries the open screen and its back-stack, the command and intents   *)
(* of the handler at work, the screen's own state (the `*` index of a      *)
(* list, the text of an editor, the page) and the drafts of UiSession.     *)
(* Texts are members of small sets; which row of a list is highlighted is  *)
(* chosen with the action (widgets/paged_list.rs moves it).                *)
(***************************************************************************)
EXTENDS Naturals, Sequences

CONSTANTS
    Compiled,     \* the sequence of SSIDs compiled into the firmware
    WithPassword  \* the SSIDs whose password is stored or compiled in

NoCmd == [op |-> "none", to |-> "none"]

MAX_INTENTS == 4

---------------------------------------------------------------------------
(* The navigator handed to a screen: nav.rs.                               *)

SetCmd(u, op, to) ==
    [u EXCEPT !.cmd = [op |-> op, to |-> to],
              !.fault = @ \cup (IF u.cmd = NoCmd THEN {} ELSE {"two commands"})]

Go(u, to)      == SetCmd(u, "go", to)
ReplaceBy(u, to) == SetCmd(u, "replace", to)
Back(u)        == SetCmd(u, "back", "none")
Root(u, to)    == SetCmd(u, "root", to)
Home(u)        == Root(u, "Throttle")

Emit(u, intent) ==
    IF Len(u.out) < MAX_INTENTS
    THEN [u EXCEPT !.out = Append(@, intent)]
    ELSE [u EXCEPT !.fault = @ \cup {"intent overflow"}]

Overlay(u) == [u EXCEPT !.overlay = TRUE]

---------------------------------------------------------------------------
(* What the screens share.                                                 *)

\* Screen::on_select .. on_app_event: what a screen does that overrides nothing.
DefaultKeys(u, a) ==
    CASE a.act \in {"cancel", "stop", "star"} -> Back(u)
      [] a.act = "menu" -> Go(u, "Menu")
      [] OTHER -> u

\* The handlers every list has: an index typed after `*` comes before the
\* rows themselves, and cancel first clears that index.
ListScreen(u, a, Activate(_, _), Leave(_)) ==
    LET plain == [u EXCEPT !.star = "off"]
    IN  CASE a.act = "select" -> Activate(plain, a.row)
          [] a.act = "fn" -> IF a.row > 0 THEN Activate(plain, a.row) ELSE u
          [] a.act = "digit" /\ u.star # "off" -> [u EXCEPT !.star = "typed"]
          [] a.act = "digit" /\ u.star = "off" -> IF a.row > 0 THEN Activate(u, a.row) ELSE u
          [] a.act = "star" /\ u.star = "off" -> [u EXCEPT !.star = "started"]
          [] a.act = "star" /\ u.star # "off" ->
               IF u.star = "typed" /\ a.row > 0 THEN Activate(plain, a.row) ELSE plain
          [] a.act \in {"cancel", "stop"} -> IF u.star # "off" THEN plain ELSE Leave(u)
          [] OTHER -> DefaultKeys(u, a)

Typing == {"digit", "fn", "char", "cursor", "case"}

\* The handlers every editor has: any key that types leaves some text.
TextScreen(u, a, Select(_), Leave(_)) ==
    CASE a.act \in Typing   -> [u EXCEPT !.kbd = a.text]
      [] a.act = "select" -> Select(u)
      [] a.act \in {"cancel", "stop"} -> Leave(u)
      [] OTHER -> DefaultKeys(u, a)

\* The item of a fixed list in row r, or none.
ItemAt(items, r) == IF r \in DOMAIN items THEN items[r] ELSE "none"

---------------------------------------------------------------------------
(* Menus.                                                                  *)

MenuItems == <<"Function", "Locos", "Server", "SpeedMult", "Power", "Extras">>

MenuActivate(u, cx, r) ==
    LET item == ItemAt(MenuItems, r)
    IN  CASE item = "Function" -> Go(u, "FunctionList")
          [] item = "Locos" -> Go(u, IF cx.source = "AddressOnly" THEN "AddrEdit" ELSE "RosterList")
          [] item = "Server" -> Go(u, "ServerMenu")
          [] item = "SpeedMult" -> Home(Overlay(Emit(u, <<"Action", "SpeedMultiplier">>)))
          [] item = "Power" -> Home(Overlay(Emit(u, <<"Action", "PowerToggle">>)))
          [] item = "Extras" -> Go(u, "Extras")
          [] OTHER -> u

Menu(u, cx, a) ==
    LET Activate(v, r) == MenuActivate(v, cx, r)
    IN  ListScreen(u, a, Activate, Home)

ExtrasItems == <<"Device", "HashFunctions", "DeadManSwitch", "SlotCount", "Sleep",
                 "Language", "RosterSource", "Firmware", "Diagnostics", "Battery">>

ExtrasActivate(u, r) ==
    LET item == ItemAt(ExtrasItems, r)
    IN  CASE item \in {"Device", "Language", "Diagnostics", "Battery"} -> Go(u, item)
          [] item = "SlotCount" -> Go(u, "SlotCountEdit")
          [] item = "Firmware" -> Go(u, "FirmwareUpdate")
          [] item = "HashFunctions" -> Home(Overlay(Emit(u, <<"HashFunctionsToggle">>)))
          [] item = "DeadManSwitch" -> Go([u EXCEPT !.choice = "DeadMan"], "Choice")
          [] item = "RosterSource" -> Go([u EXCEPT !.choice = "RosterSource"], "Choice")
          [] item = "Sleep" -> Home(Emit(u, <<"Sleep">>))
          [] OTHER -> u

Extras(u, a) == ListScreen(u, a, ExtrasActivate, Back)

ServerMenuItems == <<"Reconnect", "Pair", "Change", "Disconnect", "WifiSettings">>

ServerMenuActivate(u, cx, r) ==
    LET item == ItemAt(ServerMenuItems, r)
    IN  CASE item = "Reconnect" -> IF cx.last THEN Emit(u, <<"ServerReconnect">>) ELSE Overlay(u)
          [] item = "Pair" -> Go(u, "Pairing")
          [] item = "Change" -> Go([u EXCEPT !.choice = "ServerConnect"], "Choice")
          [] item = "Disconnect" -> Emit(u, <<"ServerDisconnect">>)
          [] item = "WifiSettings" -> Go(u, "WifiSettings")
          [] OTHER -> u

ServerMenu(u, cx, a) ==
    LET Activate(v, r) == ServerMenuActivate(v, cx, r)
    IN  ListScreen(u, a, Activate, Back)

WifiSettingsItems == <<"Search", "Address">>

WifiSettingsActivate(u, r) ==
    LET item == ItemAt(WifiSettingsItems, r)
    IN  CASE item = "Search" -> Go([u EXCEPT !.settings = TRUE], "SsidScanning")
          [] item = "Address" -> Go([u EXCEPT !.choice = "IpMode"], "Choice")
          [] OTHER -> u

WifiSettings(u, a) == ListScreen(u, a, WifiSettingsActivate, Back)

\* The rows of the option list, in order.
ChoiceRows == [DeadMan |-> <<"on", "off">>, RosterSource |-> <<"Auto", "Static", "AddressOnly">>,
               ServerConnect |-> <<"find", "manual">>, IpMode |-> <<"dhcp", "static">>]

\* Mutant of ChoiceActivate: finding a server leaves the menu and opens the list.
ChoiceActivateTwice(u, cx, r) ==
    IF ItemAt(ChoiceRows[u.choice], r) = "find" THEN Back(Go(u, "ServerList")) ELSE Back(u)

ChoiceActivate(u, cx, r) ==
    LET picked == ItemAt(ChoiceRows[u.choice], r)
    IN  CASE picked \in {"on", "off"} ->
               Back(IF (picked = "on") # cx.dead THEN Emit(u, <<"DeadManSwitchToggle">>) ELSE u)
          [] picked \in {"Auto", "Static", "AddressOnly"} ->
               Back(IF picked # cx.mode THEN Emit(u, <<"SetRosterMode", picked>>) ELSE u)
          [] picked = "find" -> Go(Emit(u, <<"RequestMdns">>), "ServerList")
          [] picked = "manual" -> Go([u EXCEPT !.digits = "", !.fromList = FALSE], "ServerProto")
          [] picked = "dhcp" -> Home(Emit([u EXCEPT !.dhcp = TRUE], <<"SaveNetwork", "dhcp">>))
          [] picked = "static" -> Go([u EXCEPT !.dhcp = FALSE, !.field = "Ip"], "IpEdit")
          [] OTHER -> u

Choice(u, cx, a) ==
    LET Activate(v, r) == ChoiceActivate(v, cx, r)
    IN  ListScreen(u, a, Activate, Back)

---------------------------------------------------------------------------
(* Joining a network.                                                      *)

\* Mutant of PickSsid: the password draft survives the choice of a network.
PickSsidKeepingPassword(u, ssid) == [u EXCEPT !.ssid = ssid]

PickSsid(u, ssid) ==
    [u EXCEPT !.pw = IF u.ssid = ssid THEN @ ELSE "", !.ssid = ssid]

SsidList(u, a) ==
    LET PickAt(v, r) ==
            IF r \in DOMAIN Compiled
            THEN Go(PickSsid([v EXCEPT !.fromScan = FALSE], Compiled[r]), "Password")
            ELSE v
    IN  IF a.act = "menu" THEN Emit(ReplaceBy(u, "SsidScanning"), <<"WifiScan">>)
        ELSE ListScreen(u, a, PickAt, Home)

SsidScan(u, cx, a) ==
    LET PickAt(v, r) ==
            LET w == [v EXCEPT !.fromScan = TRUE]
            IN  IF r \in DOMAIN cx.scanned
                THEN Go(PickSsid(w, cx.scanned[r]), "Password")
                ELSE w
        Leave(v) == IF v.settings THEN Back(v)
                    ELSE IF Compiled # <<>> THEN ReplaceBy(v, "SsidList") ELSE v
    IN  IF a.act = "menu" THEN Emit(ReplaceBy(u, "SsidScanning"), <<"WifiScan">>)
        ELSE ListScreen(u, a, PickAt, Leave)

SsidScanning(u, a) ==
    IF a.act \in {"ScanDone", "cancel", "stop", "star"} THEN ReplaceBy(u, "SsidScan")
    ELSE DefaultKeys(u, a)

\* The text of a password is the SSID it belongs to.
PasswordFor(ssid) == IF ssid \in WithPassword THEN ssid ELSE ""

Password(u, a) ==
    LET Join(v) ==
            LET w == [v EXCEPT !.pw = v.kbd, !.save = @ \/ (v.fromScan /\ v.kbd # "")]
            IN  Emit(ReplaceBy(w, "Connecting"), <<"WifiConnect">>)
        Leave(v) == Back([v EXCEPT !.pw = v.kbd])
    IN  TextScreen(u, a, Join, Leave)

Connecting(u, a) ==
    CASE a.act = "WifiReady"  -> ReplaceBy(u, "ServerList")
      [] a.act = "WifiFailed" -> ReplaceBy(u, "WifiFailed")
      [] a.act = "ServerConnected" -> Home(u)
      [] OTHER -> DefaultKeys(u, a)

WifiFailed(u, a) ==
    CASE a.act = "WifiReady" -> ReplaceBy(u, "ServerList")
      [] a.act \in {"cancel", "stop", "star"} -> ReplaceBy(u, "SsidScan")
      [] OTHER -> DefaultKeys(u, a)

---------------------------------------------------------------------------
(* Choosing a command station.                                             *)

ServerList(u, cx, a) ==
    LET ConnectAt(v, r) ==
            IF r \in DOMAIN cx.found THEN Go([v EXCEPT !.pending = r], "ServerConfirm") ELSE v
        Leave(v) == ReplaceBy(v, IF Compiled = <<>> THEN "SsidScan" ELSE "SsidList")
    IN  CASE a.act = "menu" -> Emit(u, <<"RequestMdns">>)
          [] a.act = "stop" /\ cx.keypad ->
               Go([u EXCEPT !.proto = "WiThrottle", !.fromList = TRUE], "ServerEntry")
          [] a.act = "stop" /\ ~cx.keypad ->
               Go([u EXCEPT !.digits = "", !.fromList = FALSE], "ServerProto")
          [] a.act = "ServerConnected" -> Home(u)
          [] OTHER -> ListScreen(u, a, ConnectAt, Leave)

\* Mutant of ServerConfirm: the server is taken without looking whether it is
\* still in the list.
ServerConfirmUnchecked(u, cx, a) ==
    IF a.act = "menu" THEN Home(Emit(u, <<"ServerSelect", u.pending>>)) ELSE DefaultKeys(u, a)

ServerConfirm(u, cx, a) ==
    CASE a.act = "menu" ->
           IF u.pending \in DOMAIN cx.found
           THEN Home(Emit(u, <<"ServerSelect", u.pending>>))
           ELSE Back(u)
      [] a.act = "ServerConnected" -> Home(u)
      [] OTHER -> DefaultKeys(u, a)

ServerProto(u, a) ==
    LET Confirm(v, r) ==
            Go([v EXCEPT !.proto = IF r = 2 THEN "Z21" ELSE "WiThrottle", !.fromList = FALSE],
               "ServerEntry")
    IN  ListScreen(u, a, Confirm, Back)

\* The endpoint an empty draft starts from.
DefaultDigits(u) == IF ~u.fromList /\ u.proto = "Z21" THEN "z21" ELSE "wit"

ServerEntry(u, a) ==
    LET Connect(v) ==
            IF v.kbd = "part" THEN v
            ELSE Home(Emit([v EXCEPT !.digits = v.kbd], <<"ServerManual", v.proto>>))
        Leave(v) == Back([v EXCEPT !.digits = v.kbd, !.fromList = FALSE])
    IN  TextScreen(u, a, Connect, Leave)

---------------------------------------------------------------------------
(* Driving.                                                                *)

RosterList(u, cx, a) ==
    LET AcquireAt(v, r) ==
            Home(CASE cx.source = "ServerRoster" /\ cx.roster > 0 ->
                        Emit(v, <<"AcquireRoster", IF r <= cx.roster THEN r ELSE cx.roster>>)
                   [] cx.source = "StaticRoster" /\ r <= cx.roster ->
                        Emit([v EXCEPT !.addr = "addr"], <<"AcquireAddr">>)
                   [] OTHER -> v)
    IN  ListScreen(u, a, AcquireAt, Home)

FunctionList(u, a) ==
    LET Activate(v, r) == Emit(v, <<"Function", r>>)
    IN  ListScreen(u, a, Activate, Home)

DirectItems == <<"Function", "NextThrottle", "SpeedMultiplier", "DirectionReverse", "EStop", "Back">>

DirectActivate(u, r) ==
    LET item == ItemAt(DirectItems, r)
    IN  IF item = "Back" THEN Home(u) ELSE Emit(u, <<"Action", item>>)

DirectCommands(u, a) == ListScreen(u, a, DirectActivate, Home)

Throttle(u, cx, a) ==
    LET Take(v) == [v EXCEPT !.addr = v.kbd]
    IN  CASE a.act = "menu" -> Go(Take(u), "Menu")
          [] a.act = "select" /\ cx.loco -> Go(u, IF u.hash THEN "FunctionList" ELSE "DirectCommands")
          [] a.act = "select" /\ ~cx.loco ->
               LET v == [Take(u) EXCEPT !.kbd = ""]
               IN  IF v.addr # "" THEN Emit(v, <<"AcquireAddr">>) ELSE v
          [] a.act \in {"digit", "fn"} /\ cx.loco -> Emit(u, <<"Function", a.row>>)
          [] a.act \in Typing \ {"case"} /\ ~cx.loco -> [u EXCEPT !.kbd = a.text]
          [] a.act = "page" /\ cx.source # "AddressOnly" -> Emit(u, <<"SelectLoco", a.dir>>)
          [] OTHER -> u

AddrEdit(u, a) ==
    LET Acquire(v) ==
            IF v.kbd = "" THEN v
            ELSE Home(Emit([v EXCEPT !.addr = v.kbd], <<"AcquireAddr">>))
    IN  TextScreen(u, a, Acquire, Back)

Pairing(u, a) ==
    LET Pair(v) == IF v.kbd = "full" THEN ReplaceBy(Emit(v, <<"Pair">>), "PairingWait") ELSE v
    IN  TextScreen(u, a, Pair, Home)

PairingWait(u, a) ==
    IF a.act \in {"cancel", "stop", "star"} THEN Home(u) ELSE DefaultKeys(u, a)

---------------------------------------------------------------------------
(* Settings.                                                               *)

NextField == [Dhcp |-> "Ip", Ip |-> "Prefix", Prefix |-> "Gateway", Gateway |-> "Dns"]

\* Fields are loaded with what the configuration holds; commit_net_field is
\* the subject of NetField.
IpEdit(u, a) ==
    LET Commit(v) ==
            IF v.field = "Dns" THEN Home(Emit(v, <<"SaveNetwork", "static">>))
            ELSE [v EXCEPT !.field = NextField[@], !.kbd = "full"]
    IN  TextScreen(u, a, Commit, Back)

DeviceRows == <<"Name", "Id", "NewId">>

\* The cursor goes round the three rows in either direction.
DeviceStep(r, d) == IF d = "next" THEN (r % 3) + 1 ELSE ((r + 1) % 3) + 1

Device(u, a) ==
    LET row == ItemAt(DeviceRows, u.page)
    IN  CASE a.act = "list" -> [u EXCEPT !.page = DeviceStep(@, a.dir)]
          [] a.act = "select" /\ row = "Name" -> ReplaceBy(u, "DeviceNameEdit")
          [] a.act = "select" /\ row = "Id" -> ReplaceBy(u, "DeviceIdEdit")
          [] a.act = "select" /\ row = "NewId" -> Emit(u, <<"RegenerateDeviceId">>)
          [] OTHER -> DefaultKeys(u, a)

DeviceNameEdit(u, a) ==
    LET Save(v) == ReplaceBy(Emit(v, <<"SaveDevice">>), "Device")
    IN  TextScreen(u, a, Save, Back)

\* An identifier has four digits and lies in the range the server accepts.
DeviceIdEdit(u, a) ==
    LET Save(v) == IF v.kbd = "full" THEN ReplaceBy(Emit(v, <<"SaveDevice">>), "Device") ELSE v
    IN  TextScreen(u, a, Save, Back)

SlotCountEdit(u, a) ==
    LET Save(v) == IF v.kbd = "full"
                   THEN Back(Overlay(Emit(v, <<"Action", "SetMaxThrottles">>)))
                   ELSE v
    IN  TextScreen(u, a, Save, Back)

Language(u, a) ==
    LET Activate(v, r) ==
            LET w == Emit(v, <<"SetLanguage">>)
            IN  IF w.boot THEN [w EXCEPT !.boot = FALSE] ELSE Back(w)
        Leave(v) == IF v.boot THEN v ELSE Back(v)
    IN  ListScreen(u, a, Activate, Leave)

FirmwareUpdate(u, cx, a) ==
    CASE a.act = "select" -> Emit(u, <<"SetHttpOta", ~cx.ota>>)
      [] a.act \in {"cancel", "stop", "star"} -> Back(Emit(u, <<"SetHttpOta", FALSE>>))
      [] a.act = "menu" -> Go(Emit(u, <<"SetHttpOta", FALSE>>), "Menu")
      [] OTHER -> u

DIAG_PAGES == 7

Diagnostics(u, a) ==
    CASE a.act = "page" /\ a.dir = "next" -> [u EXCEPT !.page = (@ + 1) % DIAG_PAGES]
      [] a.act = "page" /\ a.dir = "prev" -> IF u.page = 0 THEN Back(u) ELSE [u EXCEPT !.page = @ - 1]
      [] OTHER -> DefaultKeys(u, a)

Battery(u, a) ==
    IF a.act = "page" /\ a.dir = "prev" THEN Back(u) ELSE DefaultKeys(u, a)

Splash(u, a) ==
    IF a.act \in {"select", "cancel", "menu", "stop", "star"}
    THEN ReplaceBy(u, IF u.boot THEN "Language" ELSE "Connecting")
    ELSE u

---------------------------------------------------------------------------
(* screens/mod.rs: construction on navigation and dispatch.                *)

Navigable == {"SsidList", "SsidScan", "ServerList", "ServerProto", "Menu", "Extras", "ServerMenu",
              "WifiSettings", "Choice", "RosterList", "FunctionList", "DirectCommands", "Language"}

Editors == {"Password", "ServerEntry", "AddrEdit", "Pairing", "IpEdit", "DeviceNameEdit",
            "DeviceIdEdit", "SlotCountEdit"}

Others == {"Splash", "SsidScanning", "Connecting", "WifiFailed", "ServerConfirm", "Throttle",
           "PairingWait", "Device", "FirmwareUpdate", "Diagnostics", "Battery"}

ScreenId == Navigable \cup Editors \cup Others

KeyBindings(screen) ==
    CASE screen \in Editors -> "text" [] screen = "Throttle" -> "throttle" [] OTHER -> "navigation"

\* new_screen: a screen is built anew on every navigation.
NewScreen(u, id) ==
    [u EXCEPT !.screen = id, !.star = "off", !.kbd = "", !.page = IF id = "Device" THEN 1 ELSE 0]

OnEnter(u, cx) ==
    CASE u.screen = "SsidScanning" -> Emit(u, <<"WifiScan">>)
      [] u.screen = "ServerList" -> Emit(u, <<"RequestMdns">>)
      [] u.screen = "ServerConfirm" -> IF u.pending \in DOMAIN cx.found THEN u ELSE Back(u)
      [] u.screen = "Password" ->
           LET text == IF u.pw # "" THEN u.pw ELSE PasswordFor(u.ssid)
           IN  [u EXCEPT !.kbd = text, !.pw = text]
      [] u.screen = "ServerEntry" ->
           [u EXCEPT !.kbd = IF u.digits # "" THEN u.digits ELSE DefaultDigits(u)]
      [] u.screen = "Throttle" -> [u EXCEPT !.kbd = u.addr]
      [] u.screen = "AddrEdit" ->
           [u EXCEPT !.kbd = IF u.addr # "" THEN u.addr ELSE IF cx.loco THEN "addr" ELSE ""]
      [] u.screen \in {"IpEdit", "DeviceNameEdit", "DeviceIdEdit", "SlotCountEdit"} ->
           [u EXCEPT !.kbd = "full"]
      [] OTHER -> u

Handler(u, cx, a) ==
    CASE u.screen = "Splash"        -> Splash(u, a)
      [] u.screen = "SsidList"      -> SsidList(u, a)
      [] u.screen = "SsidScan"      -> SsidScan(u, cx, a)
      [] u.screen = "SsidScanning"  -> SsidScanning(u, a)
      [] u.screen = "Password"      -> Password(u, a)
      [] u.screen = "ServerList"    -> ServerList(u, cx, a)
      [] u.screen = "ServerConfirm" -> ServerConfirm(u, cx, a)
      [] u.screen = "ServerProto"   -> ServerProto(u, a)
      [] u.screen = "ServerEntry"   -> ServerEntry(u, a)
      [] u.screen = "Connecting"    -> Connecting(u, a)
      [] u.screen = "Throttle"      -> Throttle(u, cx, a)
      [] u.screen = "Menu"          -> Menu(u, cx, a)
      [] u.screen = "Extras"        -> Extras(u, a)
      [] u.screen = "ServerMenu"    -> ServerMenu(u, cx, a)
      [] u.screen = "WifiSettings"  -> WifiSettings(u, a)
      [] u.screen = "Choice"        -> Choice(u, cx, a)
      [] u.screen = "RosterList"    -> RosterList(u, cx, a)
      [] u.screen = "AddrEdit"      -> AddrEdit(u, a)
      [] u.screen = "Pairing"       -> Pairing(u, a)
      [] u.screen = "PairingWait"   -> PairingWait(u, a)
      [] u.screen = "FunctionList"  -> FunctionList(u, a)
      [] u.screen = "DirectCommands" -> DirectCommands(u, a)
      [] u.screen = "IpEdit"        -> IpEdit(u, a)
      [] u.screen = "Device"        -> Device(u, a)
      [] u.screen = "DeviceNameEdit" -> DeviceNameEdit(u, a)
      [] u.screen = "DeviceIdEdit"  -> DeviceIdEdit(u, a)
      [] u.screen = "SlotCountEdit" -> SlotCountEdit(u, a)
      [] u.screen = "Language"      -> Language(u, a)
      [] u.screen = "FirmwareUpdate" -> FirmwareUpdate(u, cx, a)
      [] u.screen = "WifiFailed"    -> WifiFailed(u, a)
      [] u.screen = "Diagnostics"   -> Diagnostics(u, a)
      [] u.screen = "Battery"       -> Battery(u, a)
============================================================================
