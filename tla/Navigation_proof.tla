------------------------- MODULE Navigation_proof -------------------------
(***************************************************************************)
(* Proofs about Navigation: whatever screens the keys lead to, with any    *)
(* networks, servers and depth of the back-stack, the debug assertions of  *)
(* the navigator and the router hold, no network is joined with the        *)
(* password of another, no server is taken over that the list does not     *)
(* hold, and a stop is heard.                                              *)
(*                                                                         *)
(* A handler starts with nothing issued (Open), says at most one thing     *)
(* (Spoken) and asks for at most one screen (Acted); a screen it leads to  *)
(* says at most one thing more.  The only screen that asks for another on  *)
(* entry is the question about a server, once that server is gone; no      *)
(* back-stack holds that screen, so that the way back from it settles.     *)
(***************************************************************************)
EXTENDS Navigation, FiniteSetTheorems, SequenceTheorems, TLAPS

---------------------------------------------------------------------------
(* The inductive invariant.                                                *)

Stackable == ScreenId \ {"ServerConfirm"}

Commands ==
    {NoCmd} \cup [op : {"go", "replace", "root"}, to : ScreenId] \cup [op : {"back"}, to : {"none"}]

Ssids == {"", "s1", "s2"} \cup {Compiled[i] : i \in DOMAIN Compiled} \cup {start[3] : start \in Starts}

Texts == {"", "part", "full", "addr", "wit", "z21"} \cup Ssids

\* The intents there are, whatever they carry.
Names ==
    {"WifiScan", "WifiConnect", "RequestMdns", "ServerReconnect", "ServerDisconnect", "Sleep",
     "HashFunctionsToggle", "DeadManSwitchToggle", "AcquireAddr", "Pair", "RegenerateDeviceId",
     "SaveDevice", "SetLanguage", "EnterProgrammingMode"}

NamesWith ==
    {"Action", "SetRosterMode", "SaveNetwork", "ServerManual", "AcquireRoster", "Function",
     "SelectLoco", "ServerSelect", "SetHttpOta"}

Args ==
    {"SpeedMultiplier", "PowerToggle", "Function", "NextThrottle", "DirectionReverse", "EStop",
     "SetMaxThrottles", "DirectionToggle", "SpeedUp", "SpeedDown",
     "SpeedStopThenToggleDirection", "SpeedSet", "Throttle", "Auto", "Static", "AddressOnly",
     "dhcp", "static", "WiThrottle", "Z21", "next", "prev", "none"}

Intents == {<<name>> : name \in Names} \cup (NamesWith \X (Args \cup Nat \cup BOOLEAN))

\* The intents of a handler that reads list as the servers found.
Allowed(list) ==
    {i \in Intents : /\ i[1] = "ServerSelect" => i[2] \in DOMAIN list
                     /\ i[1] = "SetHttpOta" => i[2] \in BOOLEAN}

Choices == {"DeadMan", "RosterSource", "ServerConnect", "IpMode"}
NetFields == {"Dhcp", "Ip", "Prefix", "Gateway", "Dns"}

UI(list) ==
    [screen : ScreenId, stack : Seq(Stackable), cmd : Commands, out : Seq(Allowed(list)),
     fault : {{}}, overlay : BOOLEAN, star : {"off", "started", "typed"}, kbd : Texts, page : Nat,
     choice : Choices, settings : BOOLEAN, boot : BOOLEAN, pending : 0..Cardinality(Servers),
     proto : {"WiThrottle", "Z21"}, digits : Texts, fromList : BOOLEAN, addr : Texts, ssid : Ssids,
     fromScan : BOOLEAN, pw : Ssids, save : BOOLEAN, hash : BOOLEAN, field : NetFields,
     dhcp : BOOLEAN]

\* A UI in the middle of a key, with at most n intents issued: a draft of a
\* password belongs to the network, also while it is typed, and the question about
\* a server is never left with go, which would put it on the stack.
Busy(v, list, n) ==
    /\ v \in UI(list)
    /\ Len(v.stack) <= StackCap
    /\ Len(v.out) <= n
    /\ v.pw \in {"", v.ssid}
    /\ v.screen = "Password" => v.kbd \in {"", v.ssid}
    /\ v.screen = "ServerConfirm" => v.cmd.op # "go"

Idle(v, list, n) == Busy(v, list, n) /\ v.cmd = NoCmd

\* Between keys: what NoDebugAssert and PasswordMatchesSsid say, with the types and
\* the two facts that make them inductive: no stack holds the question about a
\* server (UI), and the text in the password editor belongs to the network (Busy).
Inv ==
    /\ found \in Lists
    /\ Idle(u, found, MAX_INTENTS)
    /\ board \in [profile : Profiles, keypad : BOOLEAN]
    /\ ota \in BOOLEAN /\ demand \in BOOLEAN /\ homing \in BOOLEAN
    /\ StopIsHeard

---------------------------------------------------------------------------
(* What a handler does to the UI, one field or command at a time.          *)

LEMMA CommandOk ==
  ASSUME NEW list, NEW n \in Nat, NEW v, Idle(v, list, n), NEW op, NEW to,
         [op |-> op, to |-> to] \in Commands,
         v.screen = "ServerConfirm" => op # "go"
  PROVE  Busy(SetCmd(v, op, to), list, n)
<1> DEFINE w == [v EXCEPT !.cmd = [op |-> op, to |-> to], !.fault = {}]
<1>1. SetCmd(v, op, to) = w
  BY DEF SetCmd, Idle, Busy, UI
<1>2. v \in UI(list)
  BY DEF Idle, Busy
<1>3. w \in UI(list)
  BY <1>2 DEF UI
<1>4. /\ w.stack = v.stack /\ w.out = v.out /\ w.pw = v.pw /\ w.ssid = v.ssid
      /\ w.screen = v.screen /\ w.kbd = v.kbd /\ w.cmd.op = op
  BY <1>2 DEF UI
<1> HIDE DEF w
<1> QED BY <1>1, <1>3, <1>4 DEF Idle, Busy

LEMMA GoOk ==
  ASSUME NEW list, NEW n \in Nat, NEW v, Idle(v, list, n), NEW to \in ScreenId,
         v.screen # "ServerConfirm"
  PROVE  Busy(Go(v, to), list, n)
<1>1. [op |-> "go", to |-> to] \in Commands
  BY DEF Commands
<1> QED BY <1>1, CommandOk DEF Go

LEMMA ReplaceByOk ==
  ASSUME NEW list, NEW n \in Nat, NEW v, Idle(v, list, n), NEW to \in ScreenId
  PROVE  Busy(ReplaceBy(v, to), list, n)
<1>1. [op |-> "replace", to |-> to] \in Commands
  BY DEF Commands
<1> QED BY <1>1, CommandOk DEF ReplaceBy

LEMMA BackOk ==
  ASSUME NEW list, NEW n \in Nat, NEW v, Idle(v, list, n)
  PROVE  Busy(Back(v), list, n)
<1>1. [op |-> "back", to |-> "none"] \in Commands
  BY DEF Commands
<1> QED BY <1>1, CommandOk DEF Back

LEMMA HomeOk ==
  ASSUME NEW list, NEW n \in Nat, NEW v, Idle(v, list, n)
  PROVE  Busy(Home(v), list, n)
<1>1. [op |-> "root", to |-> "Throttle"] \in Commands
  BY DEF Commands, ScreenId, Others
<1> QED BY <1>1, CommandOk DEF Home, Root

\* What is left alone when an intent is issued.
Same(w, v) ==
    /\ w.screen = v.screen /\ w.cmd = v.cmd /\ w.pending = v.pending /\ w.boot = v.boot
    /\ w.kbd = v.kbd /\ w.ssid = v.ssid /\ w.proto = v.proto /\ w.overlay = v.overlay
    /\ w.settings = v.settings

LEMMA EmitOk ==
  ASSUME NEW list, NEW n \in 0..3, NEW v, Busy(v, list, n), NEW i \in Allowed(list)
  PROVE  /\ Busy(Emit(v, i), list, n + 1)
         /\ Idle(v, list, n) => Idle(Emit(v, i), list, n + 1)
         /\ Same(Emit(v, i), v)
         /\ Emit(v, i).out = Append(v.out, i)
<1> DEFINE q == Append(v.out, i)
           w == [v EXCEPT !.out = q]
<1>1. v.out \in Seq(Allowed(list)) /\ Len(v.out) <= n /\ v \in UI(list)
  BY DEF Busy, UI
<1>2. /\ q \in Seq(Allowed(list))
      /\ Len(q) <= n + 1
  BY <1>1
<1>3. Len(v.out) < MAX_INTENTS
  BY <1>1 DEF MAX_INTENTS
<1>4. Emit(v, i) = w
  BY <1>3 DEF Emit
<1> HIDE DEF q
<1>5. w \in UI(list)
  BY <1>1, <1>2 DEF UI
<1>6. /\ w.stack = v.stack /\ w.out = q /\ w.pw = v.pw /\ Same(w, v)
  BY <1>1 DEF UI, Same
<1> HIDE DEF w
<1>7. Busy(w, list, n + 1)
  BY <1>2, <1>5, <1>6 DEF Busy, Same
<1>8. Idle(v, list, n) => Idle(w, list, n + 1)
  BY <1>7, <1>6 DEF Idle, Same
<1> QED BY <1>4, <1>6, <1>7, <1>8 DEF q

LEMMA OverlayOk ==
  ASSUME NEW list, NEW n \in Nat, NEW v, Busy(v, list, n), NEW b \in BOOLEAN
  PROVE  /\ Busy([v EXCEPT !.overlay = b], list, n)
         /\ Idle(v, list, n) => Idle([v EXCEPT !.overlay = b], list, n)
BY ZenonT(90) DEF Idle, Busy, UI, Overlay

---------------------------------------------------------------------------
(* A handler starts open, may speak once, and leaves the UI acted upon.    *)

Open(v, list) == Idle(v, list, 0)
Spoken(v, list) == Idle(v, list, 1)
Acted(v, list) == Busy(v, list, 1)

LEMMA OpenIsSpoken ==
  ASSUME NEW list, NEW v, Open(v, list) PROVE Spoken(v, list)
<1>1. Busy(v, list, 0) /\ v.cmd = NoCmd
  BY DEF Open, Idle
<1>2. v.out \in Seq(Allowed(list))
  BY <1>1 DEF Busy, UI
<1>3. Len(v.out) <= 0
  BY <1>1 DEF Busy
<1>4. Len(v.out) <= 1
  BY ONLY <1>2, <1>3
<1>5. Busy(v, list, 1)
  BY <1>1, <1>4, Zenon DEF Busy
<1> QED BY <1>1, <1>5 DEF Spoken, Idle

LEMMA SpokenIsActed ==
  ASSUME NEW list, NEW v, Spoken(v, list) PROVE Acted(v, list)
BY DEF Spoken, Acted, Idle

LEMMA OpenIsActed ==
  ASSUME NEW list, NEW v, Open(v, list) PROVE Acted(v, list)
BY OpenIsSpoken, SpokenIsActed

LEMMA Routes ==
  ASSUME NEW list, NEW v, Spoken(v, list)
  PROVE  /\ Acted(Back(v), list) /\ Acted(Home(v), list)
         /\ \A to \in ScreenId : Acted(ReplaceBy(v, to), list)
         /\ v.screen # "ServerConfirm" => \A to \in ScreenId : Acted(Go(v, to), list)
<1>1. Acted(Back(v), list) /\ Acted(Home(v), list)
  BY BackOk, HomeOk DEF Spoken, Acted
<1>2. \A to \in ScreenId : Acted(ReplaceBy(v, to), list)
  BY ReplaceByOk DEF Spoken, Acted
<1>3. ASSUME v.screen # "ServerConfirm" PROVE \A to \in ScreenId : Acted(Go(v, to), list)
  BY <1>3, GoOk DEF Spoken, Acted
<1> QED BY <1>1, <1>2, <1>3

LEMMA Says ==
  ASSUME NEW list, NEW v, Open(v, list), NEW i \in Allowed(list)
  PROVE  Spoken(Emit(v, i), list) /\ Same(Emit(v, i), v)
<1>1. Busy(v, list, 0) /\ 0 \in 0..3 /\ 0 + 1 = 1
  BY DEF Open, Idle
<1> QED BY <1>1, EmitOk DEF Open, Spoken, Idle

LEMMA SaysAfter ==
  ASSUME NEW list, NEW v, Busy(v, list, 0), NEW i \in Allowed(list)
  PROVE  Acted(Emit(v, i), list)
<1>1. 0 \in 0..3 /\ 0 + 1 = 1
  OBVIOUS
<1> QED BY <1>1, EmitOk DEF Acted

LEMMA PlainIntent ==
  ASSUME NEW list, NEW name \in Names PROVE <<name>> \in Allowed(list)
<1>1. <<name>> \in Intents /\ <<name>>[1] = name
  BY DEF Intents
<1>2. name # "ServerSelect" /\ name # "SetHttpOta"
  BY DEF Names
<1> QED BY <1>1, <1>2 DEF Allowed

LEMMA IntentWith ==
  ASSUME NEW list, NEW name \in NamesWith \ {"ServerSelect", "SetHttpOta"},
         NEW x \in Args \cup Nat
  PROVE  <<name, x>> \in Allowed(list)
<1>1. <<name, x>> \in Intents /\ <<name, x>>[1] = name
  BY DEF Intents
<1> QED BY <1>1 DEF Allowed

LEMMA ActionIntent ==
  ASSUME NEW list, NEW x \in Args PROVE <<"Action", x>> \in Allowed(list)
BY IntentWith DEF NamesWith

\* The fields of no concern here.
LEMMA FieldOk ==
  ASSUME NEW list, NEW v, NEW n, Idle(v, list, n)
  PROVE  /\ \A x \in {"off", "started", "typed"} :
               /\ Idle([v EXCEPT !.star = x], list, n)
               /\ [v EXCEPT !.star = x].screen = v.screen
         /\ \A x \in BOOLEAN : /\ Idle([v EXCEPT !.overlay = x], list, n)
                               /\ [v EXCEPT !.overlay = x].screen = v.screen
         /\ \A x \in Texts : v.screen # "Password" => Idle([v EXCEPT !.kbd = x], list, n)
         /\ \A x \in Nat : Idle([v EXCEPT !.page = x], list, n)
<1>1. \A x \in {"off", "started", "typed"} :
               /\ Idle([v EXCEPT !.star = x], list, n)
               /\ [v EXCEPT !.star = x].screen = v.screen
  BY DEF Idle, Busy, UI
<1>2. \A x \in BOOLEAN : /\ Idle([v EXCEPT !.overlay = x], list, n)
                         /\ [v EXCEPT !.overlay = x].screen = v.screen
  BY ZenonT(90) DEF Idle, Busy, UI
<1>3. \A x \in Texts : v.screen # "Password" => Idle([v EXCEPT !.kbd = x], list, n)
  BY DEF Idle, Busy, UI
<1>4. \A x \in Nat : Idle([v EXCEPT !.page = x], list, n)
  BY DEF Idle, Busy, UI
<1> QED BY <1>1, <1>2, <1>3, <1>4

Snap(list) ==
    [loco : BOOLEAN, source : {"AddressOnly", "ServerRoster", "StaticRoster"}, last : BOOLEAN,
     dead : {TRUE}, mode : {"Auto"}, roster : {0, 1}, scanned : {<<"s1", "s2">>},
     found : {list}, ota : BOOLEAN, keypad : BOOLEAN]

ActKinds ==
    {"list", "page", "char", "cursor", "case", "select", "cancel", "menu", "digit", "ignored",
     "pass", "stop", "fn", "star"} \cup Events

Acts ==
    [act : ActKinds, key : Keys \cup Events \cup {"back"}, row : Nat, dir : {"next", "prev", "none"},
     text : Texts]

LEMMA DefaultKeysOk ==
  ASSUME NEW list, NEW v, Open(v, list), v.screen # "ServerConfirm", NEW a
  PROVE  Acted(DefaultKeys(v, a), list)
<1>1. Spoken(v, list)
  BY OpenIsSpoken
<1>2. "Menu" \in ScreenId
  BY DEF ScreenId, Navigable
<1> QED BY <1>1, <1>2, Routes, SpokenIsActed DEF DefaultKeys

\* What a list does before it knows its rows.
LEMMA ListOk ==
  ASSUME NEW list, NEW v, Open(v, list), v.screen # "ServerConfirm", NEW a
  PROVE  /\ Open([v EXCEPT !.star = "off"], list)
         /\ [v EXCEPT !.star = "off"].screen = v.screen
         /\ Acted([v EXCEPT !.star = "off"], list) /\ Acted([v EXCEPT !.star = "typed"], list)
         /\ Acted([v EXCEPT !.star = "started"], list) /\ Acted(v, list)
         /\ Acted(DefaultKeys(v, a), list)
<1>1. \A x \in {"off", "started", "typed"} : Open([v EXCEPT !.star = x], list) /\ [v EXCEPT !.star = x].screen = v.screen
  BY FieldOk DEF Open
<1>2. \A x \in {"off", "started", "typed"} : Acted([v EXCEPT !.star = x], list)
  BY <1>1, OpenIsActed
<1>4. /\ Open([v EXCEPT !.star = "off"], list)
      /\ [v EXCEPT !.star = "off"].screen = v.screen
  BY <1>1
<1>5. /\ Acted([v EXCEPT !.star = "off"], list) /\ Acted([v EXCEPT !.star = "typed"], list)
      /\ Acted([v EXCEPT !.star = "started"], list)
  BY <1>2
<1>6. Acted(v, list) /\ Acted(DefaultKeys(v, a), list)
  BY OpenIsActed, DefaultKeysOk
<1> QED BY <1>4, <1>5, <1>6

---------------------------------------------------------------------------
(* The menus.                                                              *)

LEMMA MenuActivateOk ==
  ASSUME NEW list, NEW v, Open(v, list), v.screen = "Menu", NEW cx, NEW r
  PROVE  Acted(MenuActivate(v, cx, r), list)
<1> DEFINE item == ItemAt(MenuItems, r)
           Said(x) == Emit(v, <<"Action", x>>)
<1>1. Spoken(v, list) /\ Acted(v, list)
  BY OpenIsSpoken, OpenIsActed
<1>2. \A to \in ScreenId : Acted(Go(v, to), list)
  BY <1>1, Routes
<1>3. \A x \in Args : Acted(Home(Overlay(Said(x))), list)
  <2> SUFFICES ASSUME NEW x \in Args PROVE Acted(Home(Overlay(Said(x))), list)
    OBVIOUS
  <2>1. Spoken(Said(x), list)
    BY ActionIntent, Says
  <2>2. Spoken(Overlay(Said(x)), list)
    BY <2>1, FieldOk DEF Overlay, Spoken
  <2> QED BY <2>2, Routes
<1>4. /\ "FunctionList" \in ScreenId /\ "AddrEdit" \in ScreenId /\ "RosterList" \in ScreenId
      /\ "ServerMenu" \in ScreenId /\ "Extras" \in ScreenId
  BY DEF ScreenId, Navigable, Editors
<1>5. /\ Acted(Go(v, "FunctionList"), list) /\ Acted(Go(v, "ServerMenu"), list)
      /\ Acted(Go(v, "Extras"), list)
      /\ Acted(Go(v, IF cx.source = "AddressOnly" THEN "AddrEdit" ELSE "RosterList"), list)
  BY <1>2, <1>4
<1>6. /\ Acted(Home(Overlay(Said("SpeedMultiplier"))), list)
      /\ Acted(Home(Overlay(Said("PowerToggle"))), list)
  BY <1>3 DEF Args
<1> QED BY <1>1, <1>5, <1>6, Zenon DEF MenuActivate

LEMMA MenuOk ==
  ASSUME NEW list, NEW v, Open(v, list), v.screen = "Menu", NEW cx, NEW a
  PROVE  Acted(Menu(v, cx, a), list)
<1>1. \A w : Open(w, list) /\ w.screen = "Menu" => Acted(MenuActivate(w, cx, a.row), list)
  BY MenuActivateOk
<1>2. Acted(Home(v), list)
  BY OpenIsSpoken, Routes
<1> QED BY <1>1, <1>2, ListOk DEF Menu, ListScreen

\* What list handlers do to a UI before they move on.
LEMMA ChooseOk ==
  ASSUME NEW list, NEW v, Open(v, list)
  PROVE  /\ \A x \in Choices : /\ Open([v EXCEPT !.choice = x], list)
                               /\ [v EXCEPT !.choice = x].screen = v.screen
         /\ \A x \in BOOLEAN : /\ Open([v EXCEPT !.settings = x], list)
                               /\ [v EXCEPT !.settings = x].screen = v.screen
<1>1. \A x \in Choices : /\ Open([v EXCEPT !.choice = x], list)
                        /\ [v EXCEPT !.choice = x].screen = v.screen
  BY DEF Open, Idle, Busy, UI
<1>2. \A x \in BOOLEAN : /\ Open([v EXCEPT !.settings = x], list)
                        /\ [v EXCEPT !.settings = x].screen = v.screen
  BY ZenonT(90) DEF Open, Idle, Busy, UI
<1> QED BY <1>1, <1>2

LEMMA ExtrasActivateOk ==
  ASSUME NEW list, NEW v, Open(v, list), v.screen = "Extras", NEW cx \in Snap(list),
         NEW r \in Nat
  PROVE  Acted(ExtrasActivate(v, r), list)
<1>1. Spoken(v, list) /\ Acted(v, list)
  BY OpenIsSpoken, OpenIsActed
<1>2. \A item \in {"Device", "Language", "Diagnostics", "Battery", "SlotCountEdit", "FirmwareUpdate"} :
         Acted(Go(v, item), list)
  BY <1>1, Routes DEF ScreenId, Navigable, Editors, Others
<1>3. Acted(Home(Overlay(Emit(v, <<"HashFunctionsToggle">>))), list)
  <2>1. Spoken(Emit(v, <<"HashFunctionsToggle">>), list)
    BY PlainIntent, Says DEF Names
  <2>2. Spoken(Overlay(Emit(v, <<"HashFunctionsToggle">>)), list)
    BY <2>1, FieldOk DEF Overlay, Spoken
  <2> QED BY <2>2, Routes
<1>4. Acted(Home(Emit(v, <<"Sleep">>)), list)
  <2>1. Spoken(Emit(v, <<"Sleep">>), list)
    BY PlainIntent, Says DEF Names
  <2> QED BY <2>1, Routes
<1>5. \A x \in Choices : Acted(Go([v EXCEPT !.choice = x], "Choice"), list)
  <2> TAKE x \in Choices
  <2>1. Spoken([v EXCEPT !.choice = x], list) /\ [v EXCEPT !.choice = x].screen = "Extras"
    BY ChooseOk, OpenIsSpoken
  <2>2. "Choice" \in ScreenId
    BY DEF ScreenId, Navigable
  <2> QED BY <2>1, <2>2, Routes
<1>6. /\ Acted(Go([v EXCEPT !.choice = "DeadMan"], "Choice"), list)
      /\ Acted(Go([v EXCEPT !.choice = "RosterSource"], "Choice"), list)
  BY <1>5 DEF Choices
<1>7. Acted(Go(v, "SlotCountEdit"), list) /\ Acted(Go(v, "FirmwareUpdate"), list)
  BY <1>2
<1> DEFINE item == ItemAt(ExtrasItems, r)
<1>8. item \in {"Device", "Language", "Diagnostics", "Battery"} => Acted(Go(v, item), list)
  BY <1>2
<1> HIDE DEF item
<1> QED BY <1>1, <1>3, <1>4, <1>6, <1>7, <1>8, Zenon DEF ExtrasActivate, item

LEMMA ExtrasOk ==
  ASSUME NEW list, NEW v, Open(v, list), v.screen = "Extras", NEW cx \in Snap(list), NEW a \in Acts
  PROVE  Acted(Extras(v, a), list)
<1>1. a.row \in Nat
  BY DEF Acts
<1>2. \A w : Open(w, list) /\ w.screen = "Extras" => Acted(ExtrasActivate(w, a.row), list)
  BY <1>1, ExtrasActivateOk
<1>3. Acted(Back(v), list)
  BY OpenIsSpoken, Routes
<1> QED BY <1>2, <1>3, ListOk DEF Extras, ListScreen

LEMMA ServerMenuActivateOk ==
  ASSUME NEW list, NEW v, Open(v, list), v.screen = "ServerMenu", NEW cx \in Snap(list),
         NEW r \in Nat
  PROVE  Acted(ServerMenuActivate(v, cx, r), list)
<1>1. Spoken(v, list) /\ Acted(v, list)
  BY OpenIsSpoken, OpenIsActed
<1>2. Acted(Go(v, "Pairing"), list) /\ Acted(Go(v, "WifiSettings"), list)
  BY <1>1, Routes DEF ScreenId, Navigable, Editors
<1>3. Acted(Emit(v, <<"ServerReconnect">>), list) /\ Acted(Emit(v, <<"ServerDisconnect">>), list)
  BY PlainIntent, Says, SpokenIsActed DEF Names
<1>4. Acted(Overlay(v), list)
  BY <1>1, FieldOk, SpokenIsActed DEF Overlay, Spoken
<1>5. Acted(Go([v EXCEPT !.choice = "ServerConnect"], "Choice"), list)
  <2> DEFINE w == [v EXCEPT !.choice = "ServerConnect"]
  <2>1. Open(w, list) /\ w.screen = "ServerMenu"
    BY ChooseOk DEF Choices
  <2>2. "Choice" \in ScreenId
    BY DEF ScreenId, Navigable
  <2> HIDE DEF w
  <2>3. Acted(Go(w, "Choice"), list)
    BY <2>1, <2>2, OpenIsSpoken, Routes
  <2> QED BY <2>3 DEF w
<1> QED BY <1>1, <1>2, <1>3, <1>4, <1>5, Zenon DEF ServerMenuActivate

LEMMA ServerMenuOk ==
  ASSUME NEW list, NEW v, Open(v, list), v.screen = "ServerMenu", NEW cx \in Snap(list), NEW a \in Acts
  PROVE  Acted(ServerMenu(v, cx, a), list)
<1>1. a.row \in Nat
  BY DEF Acts
<1>2. \A w : Open(w, list) /\ w.screen = "ServerMenu" => Acted(ServerMenuActivate(w, cx, a.row), list)
  BY <1>1, ServerMenuActivateOk
<1>3. Acted(Back(v), list)
  BY OpenIsSpoken, Routes
<1> QED BY <1>2, <1>3, ListOk DEF ServerMenu, ListScreen

LEMMA WifiSettingsActivateOk ==
  ASSUME NEW list, NEW v, Open(v, list), v.screen = "WifiSettings", NEW cx \in Snap(list),
         NEW r \in Nat
  PROVE  Acted(WifiSettingsActivate(v, r), list)
<1>1. Acted(v, list)
  BY OpenIsActed
<1>2. Acted(Go([v EXCEPT !.settings = TRUE], "SsidScanning"), list)
  <2> DEFINE w == [v EXCEPT !.settings = TRUE]
  <2>1. Open(w, list) /\ w.screen = "WifiSettings"
    BY ChooseOk
  <2>2. "SsidScanning" \in ScreenId
    BY DEF ScreenId, Others
  <2> HIDE DEF w
  <2>3. Acted(Go(w, "SsidScanning"), list)
    BY <2>1, <2>2, OpenIsSpoken, Routes
  <2> QED BY <2>3 DEF w
<1>3. Acted(Go([v EXCEPT !.choice = "IpMode"], "Choice"), list)
  <2> DEFINE w == [v EXCEPT !.choice = "IpMode"]
  <2>1. Open(w, list) /\ w.screen = "WifiSettings"
    BY ChooseOk DEF Choices
  <2>2. "Choice" \in ScreenId
    BY DEF ScreenId, Navigable
  <2> HIDE DEF w
  <2>3. Acted(Go(w, "Choice"), list)
    BY <2>1, <2>2, OpenIsSpoken, Routes
  <2> QED BY <2>3 DEF w
<1> QED BY <1>1, <1>2, <1>3, Zenon DEF WifiSettingsActivate

LEMMA WifiSettingsOk ==
  ASSUME NEW list, NEW v, Open(v, list), v.screen = "WifiSettings", NEW cx \in Snap(list), NEW a \in Acts
  PROVE  Acted(WifiSettings(v, a), list)
<1>1. a.row \in Nat
  BY DEF Acts
<1>2. \A w : Open(w, list) /\ w.screen = "WifiSettings" => Acted(WifiSettingsActivate(w, a.row), list)
  BY <1>1, WifiSettingsActivateOk
<1>3. Acted(Back(v), list)
  BY OpenIsSpoken, Routes
<1> QED BY <1>2, <1>3, ListOk DEF WifiSettings, ListScreen

LEMMA ChoiceActivateOk ==
  ASSUME NEW list, NEW v, Open(v, list), v.screen = "Choice", NEW cx \in Snap(list),
         NEW r \in Nat
  PROVE  Acted(ChoiceActivate(v, cx, r), list)
<1> DEFINE picked == ItemAt(ChoiceRows[v.choice], r)
<1>1. Spoken(v, list) /\ Acted(v, list)
  BY OpenIsSpoken, OpenIsActed
<1>2. Acted(Back(IF (picked = "on") # cx.dead THEN Emit(v, <<"DeadManSwitchToggle">>) ELSE v), list)
  <2>1. Spoken(Emit(v, <<"DeadManSwitchToggle">>), list)
    BY PlainIntent, Says DEF Names
  <2> QED BY <1>1, <2>1, Routes
<1>3. picked \in {"Auto", "Static", "AddressOnly"} =>
         Acted(Back(IF picked # cx.mode THEN Emit(v, <<"SetRosterMode", picked>>) ELSE v), list)
  <2>1. ASSUME picked \in {"Auto", "Static", "AddressOnly"}
        PROVE  Spoken(Emit(v, <<"SetRosterMode", picked>>), list)
    BY <2>1, IntentWith, Says DEF NamesWith, Args
  <2> QED BY <1>1, <2>1, Routes
<1>4. Acted(Go(Emit(v, <<"RequestMdns">>), "ServerList"), list)
  <2> DEFINE w == Emit(v, <<"RequestMdns">>)
  <2>1. Spoken(w, list) /\ w.screen = "Choice"
    BY PlainIntent, Says DEF Names, Same
  <2>2. "ServerList" \in ScreenId
    BY DEF ScreenId, Navigable
  <2> HIDE DEF w
  <2>3. Acted(Go(w, "ServerList"), list)
    BY <2>1, <2>2, Routes
  <2> QED BY <2>3 DEF w
<1>5. Acted(Go([v EXCEPT !.digits = "", !.fromList = FALSE], "ServerProto"), list)
  <2> DEFINE w == [v EXCEPT !.digits = "", !.fromList = FALSE]
  <2>1. Open(w, list) /\ w.screen = "Choice"
    BY ZenonT(90) DEF Open, Idle, Busy, UI, Texts
  <2>2. "ServerProto" \in ScreenId
    BY DEF ScreenId, Navigable
  <2> HIDE DEF w
  <2>3. Acted(Go(w, "ServerProto"), list)
    BY <2>1, <2>2, OpenIsSpoken, Routes
  <2> QED BY <2>3 DEF w
<1>6. Acted(Home(Emit([v EXCEPT !.dhcp = TRUE], <<"SaveNetwork", "dhcp">>)), list)
  <2> DEFINE w == [v EXCEPT !.dhcp = TRUE]
  <2>1. Open(w, list)
    BY DEF Open, Idle, Busy, UI
  <2> HIDE DEF w
  <2>2. Spoken(Emit(w, <<"SaveNetwork", "dhcp">>), list)
    BY <2>1, IntentWith, Says DEF NamesWith, Args
  <2>3. Acted(Home(Emit(w, <<"SaveNetwork", "dhcp">>)), list)
    BY <2>2, Routes
  <2> QED BY <2>3 DEF w
<1>7. Acted(Go([v EXCEPT !.dhcp = FALSE, !.field = "Ip"], "IpEdit"), list)
  <2> DEFINE w == [v EXCEPT !.dhcp = FALSE, !.field = "Ip"]
  <2>1. Open(w, list) /\ w.screen = "Choice"
    BY ZenonT(90) DEF Open, Idle, Busy, UI, NetFields
  <2>2. "IpEdit" \in ScreenId
    BY DEF ScreenId, Editors
  <2> HIDE DEF w
  <2>3. Acted(Go(w, "IpEdit"), list)
    BY <2>1, <2>2, OpenIsSpoken, Routes
  <2> QED BY <2>3 DEF w
<1> HIDE DEF picked
<1> QED BY <1>1, <1>2, <1>3, <1>4, <1>5, <1>6, <1>7, Zenon DEF ChoiceActivate, picked

LEMMA ChoiceOk ==
  ASSUME NEW list, NEW v, Open(v, list), v.screen = "Choice", NEW cx \in Snap(list), NEW a \in Acts
  PROVE  Acted(Choice(v, cx, a), list)
<1>1. a.row \in Nat
  BY DEF Acts
<1>2. \A w : Open(w, list) /\ w.screen = "Choice" => Acted(ChoiceActivate(w, cx, a.row), list)
  BY <1>1, ChoiceActivateOk
<1>3. Acted(Back(v), list)
  BY OpenIsSpoken, Routes
<1> QED BY <1>2, <1>3, ListOk DEF Choice, ListScreen

---------------------------------------------------------------------------
(* Joining a network.                                                      *)

LEMMA PickOk ==
  ASSUME NEW list, NEW v, Open(v, list), v.screen \in {"SsidList", "SsidScan"},
         NEW b \in BOOLEAN, NEW ssid \in Ssids
  PROVE  Acted(Go(PickSsid([v EXCEPT !.fromScan = b], ssid), "Password"), list)
<1> DEFINE x == [v EXCEPT !.fromScan = b]
           p == IF x.ssid = ssid THEN x.pw ELSE ""
           w == [x EXCEPT !.pw = p, !.ssid = ssid]
<1>1. Open(x, list) /\ x.screen = v.screen
  BY DEF Open, Idle, Busy, UI
<1> HIDE DEF x
<1>2. p \in {"", ssid} /\ p \in Ssids
  BY <1>1 DEF Open, Idle, Busy, UI, Ssids
<1>3. PickSsid(x, ssid) = w
  BY DEF PickSsid
<1> HIDE DEF p
<1>4. Open(w, list) /\ w.screen = v.screen
  BY <1>1, <1>2 DEF Open, Idle, Busy, UI
<1> HIDE DEF w
<1>5. "Password" \in ScreenId
  BY DEF ScreenId, Editors
<1>6. Acted(Go(w, "Password"), list)
  BY <1>4, <1>5, OpenIsSpoken, Routes
<1> QED BY <1>3, <1>6 DEF x

LEMMA RescanOk ==
  ASSUME NEW list, NEW v, Open(v, list)
  PROVE  Acted(Emit(ReplaceBy(v, "SsidScanning"), <<"WifiScan">>), list)
<1>1. Busy(ReplaceBy(v, "SsidScanning"), list, 0)
  BY ReplaceByOk DEF Open, ScreenId, Others
<1> QED BY <1>1, PlainIntent, SaysAfter DEF Names

LEMMA SsidListOk ==
  ASSUME NEW list, NEW v, Open(v, list), v.screen = "SsidList", NEW cx \in Snap(list),
         NEW a \in Acts
  PROVE  Acted(SsidList(v, a), list)
<1> DEFINE r == a.row
           PickAt(w) == IF r \in DOMAIN Compiled
                        THEN Go(PickSsid([w EXCEPT !.fromScan = FALSE], Compiled[r]), "Password")
                        ELSE w
<1>1. ASSUME NEW w, Open(w, list), w.screen = "SsidList" PROVE Acted(PickAt(w), list)
  <2>1. CASE r \in DOMAIN Compiled
    <3>1. Compiled[r] \in Ssids
      BY <2>1 DEF Ssids
    <3> QED BY <1>1, <2>1, <3>1, PickOk
  <2> QED BY <1>1, <2>1, OpenIsActed
<1>2. Acted(Home(v), list)
  BY OpenIsSpoken, Routes
<1>3. Acted(Emit(ReplaceBy(v, "SsidScanning"), <<"WifiScan">>), list)
  BY RescanOk
<1>4. Acted(PickAt(v), list) /\ Acted(PickAt([v EXCEPT !.star = "off"]), list)
  BY <1>1, ListOk
<1> QED BY <1>2, <1>3, <1>4, ListOk DEF SsidList, ListScreen

LEMMA SsidScanOk ==
  ASSUME NEW list, NEW v, Open(v, list), v.screen = "SsidScan", NEW cx \in Snap(list),
         NEW a \in Acts
  PROVE  Acted(SsidScan(v, cx, a), list)
<1> DEFINE r == a.row
           PickAt(w) == LET x == [w EXCEPT !.fromScan = TRUE]
                        IN  IF r \in DOMAIN cx.scanned
                            THEN Go(PickSsid(x, cx.scanned[r]), "Password")
                            ELSE x
           Leave(w) == IF w.settings THEN Back(w)
                       ELSE IF Compiled # <<>> THEN ReplaceBy(w, "SsidList") ELSE w
<1>1. ASSUME NEW w, Open(w, list), w.screen = "SsidScan" PROVE Acted(PickAt(w), list)
  <2>1. CASE r \in DOMAIN cx.scanned
    <3>1. cx.scanned = <<"s1", "s2">>
      BY DEF Snap
    <3>2. r = 1 \/ r = 2
      BY <2>1, <3>1
    <3>3. cx.scanned[r] = "s1" \/ cx.scanned[r] = "s2"
      BY <3>1, <3>2
    <3>4. cx.scanned[r] \in Ssids
      BY <3>3 DEF Ssids
    <3> QED BY <1>1, <2>1, <3>4, PickOk
  <2>2. Open([w EXCEPT !.fromScan = TRUE], list)
    BY <1>1 DEF Open, Idle, Busy, UI
  <2> QED BY <2>1, <2>2, OpenIsActed
<1>2. Acted(Leave(v), list)
  BY OpenIsSpoken, OpenIsActed, Routes DEF ScreenId, Navigable
<1>3. Acted(Emit(ReplaceBy(v, "SsidScanning"), <<"WifiScan">>), list)
  BY RescanOk
<1>4. Acted(PickAt(v), list) /\ Acted(PickAt([v EXCEPT !.star = "off"]), list)
  BY <1>1, ListOk
<1> QED BY <1>2, <1>3, <1>4, ListOk DEF SsidScan, ListScreen

LEMMA SsidScanningOk ==
  ASSUME NEW list, NEW v, Open(v, list), v.screen = "SsidScanning", NEW cx \in Snap(list),
         NEW a \in Acts
  PROVE  Acted(SsidScanning(v, a), list)
<1>1. Acted(ReplaceBy(v, "SsidScan"), list)
  BY OpenIsSpoken, Routes DEF ScreenId, Navigable, Editors, Others
<1>2. Acted(Home(v), list) /\ Acted(Back(v), list) /\ Acted(v, list)
  BY OpenIsSpoken, OpenIsActed, Routes
<1> QED BY <1>1, <1>2, DefaultKeysOk DEF SsidScanning

\* Typing leaves one of the texts an editor may hold.
LEMMA TypedOk ==
  ASSUME NEW list, NEW v, Open(v, list), NEW text \in Texts,
         v.screen = "Password" => text \in {"", v.ssid}
  PROVE  Acted([v EXCEPT !.kbd = text], list)
<1>1. Open([v EXCEPT !.kbd = text], list)
  BY DEF Open, Idle, Busy, UI
<1> QED BY <1>1, OpenIsActed

LEMMA PasswordOk ==
  ASSUME NEW list, NEW v, Open(v, list), v.screen = "Password", NEW cx \in Snap(list),
         NEW a \in Acts,
         a.text \in {"", v.ssid}
  PROVE  Acted(Password(v, a), list)
<1> DEFINE w == [v EXCEPT !.pw = v.kbd, !.save = v.save \/ (v.fromScan /\ v.kbd # "")]
           x == [v EXCEPT !.pw = v.kbd]
<1>1. v.kbd \in {"", v.ssid} /\ v.kbd \in Ssids /\ v.save \in BOOLEAN /\ v.fromScan \in BOOLEAN
  BY DEF Open, Idle, Busy, UI, Ssids
<1>2. (v.save \/ (v.fromScan /\ v.kbd # "")) \in BOOLEAN
  BY <1>1
<1>3. Open(w, list)
  BY ZenonT(90), <1>1, <1>2 DEF Open, Idle, Busy, UI
<1>4. Open(x, list)
  BY <1>1 DEF Open, Idle, Busy, UI
<1>5. Acted([v EXCEPT !.kbd = a.text], list)
  BY TypedOk DEF Acts
<1> HIDE DEF w, x
<1>6. Acted(Back(x), list)
  BY <1>4, OpenIsSpoken, Routes
<1>7. Busy(ReplaceBy(w, "Connecting"), list, 0)
  BY <1>3, ReplaceByOk DEF Open, ScreenId, Others
<1>8. Acted(Emit(ReplaceBy(w, "Connecting"), <<"WifiConnect">>), list)
  BY <1>7, PlainIntent, SaysAfter DEF Names
<1> QED BY <1>5, <1>6, <1>8, DefaultKeysOk DEF Password, TextScreen, w, x

LEMMA ConnectingOk ==
  ASSUME NEW list, NEW v, Open(v, list), v.screen = "Connecting", NEW cx \in Snap(list),
         NEW a \in Acts
  PROVE  Acted(Connecting(v, a), list)
<1>1. Acted(ReplaceBy(v, "ServerList"), list) /\ Acted(ReplaceBy(v, "WifiFailed"), list)
  BY OpenIsSpoken, Routes DEF ScreenId, Navigable, Editors, Others
<1>2. Acted(Home(v), list) /\ Acted(Back(v), list) /\ Acted(v, list)
  BY OpenIsSpoken, OpenIsActed, Routes
<1> QED BY <1>1, <1>2, DefaultKeysOk DEF Connecting

LEMMA WifiFailedOk ==
  ASSUME NEW list, NEW v, Open(v, list), v.screen = "WifiFailed", NEW cx \in Snap(list),
         NEW a \in Acts
  PROVE  Acted(WifiFailed(v, a), list)
<1>1. Acted(ReplaceBy(v, "ServerList"), list) /\ Acted(ReplaceBy(v, "SsidScan"), list)
  BY OpenIsSpoken, Routes DEF ScreenId, Navigable, Editors, Others
<1>2. Acted(Home(v), list) /\ Acted(Back(v), list) /\ Acted(v, list)
  BY OpenIsSpoken, OpenIsActed, Routes
<1> QED BY <1>1, <1>2, DefaultKeysOk DEF WifiFailed

---------------------------------------------------------------------------
(* Choosing a command station.                                             *)

LEMMA PendingOk ==
  ASSUME NEW list \in Lists, NEW r \in DOMAIN list
  PROVE  r \in 0..Cardinality(Servers)
<1>1. PICK s \in Servers : list = <<s>>
  BY DEF Lists
<1>2. Cardinality(Servers) \in Nat /\ Cardinality(Servers) # 0
  BY <1>1, NavigationAssumption, FS_CardinalityType, FS_EmptySet
<1>3. r = 1
  BY <1>1
<1> QED BY <1>2, <1>3

LEMMA ServerListOk ==
  ASSUME NEW list \in Lists, NEW v, Open(v, list), v.screen = "ServerList", NEW cx \in Snap(list),
         NEW a \in Acts
  PROVE  Acted(ServerList(v, cx, a), list)
<1> DEFINE r == a.row
           ConnectAt(w) == IF r \in DOMAIN cx.found
                           THEN Go([w EXCEPT !.pending = r], "ServerConfirm") ELSE w
           Leave(w) == ReplaceBy(w, IF Compiled = <<>> THEN "SsidScan" ELSE "SsidList")
<1>1. ASSUME NEW w, Open(w, list), w.screen = "ServerList" PROVE Acted(ConnectAt(w), list)
  <2>1. CASE r \in DOMAIN cx.found
    <3>1. r \in 0..Cardinality(Servers)
      BY <2>1, PendingOk DEF Snap
    <3>2. Open([w EXCEPT !.pending = r], list) /\ [w EXCEPT !.pending = r].screen = "ServerList"
      BY <1>1, <3>1 DEF Open, Idle, Busy, UI
    <3>3. "ServerConfirm" \in ScreenId
      BY DEF ScreenId, Others
    <3>4. Acted(Go([w EXCEPT !.pending = r], "ServerConfirm"), list)
      BY <3>2, <3>3, OpenIsSpoken, Routes
    <3> QED BY <2>1, <3>4
  <2> QED BY <1>1, <2>1, OpenIsActed
<1>2. Acted(Leave(v), list) /\ Acted(Home(v), list)
  BY OpenIsSpoken, Routes DEF ScreenId, Navigable
<1>3. Acted(Emit(v, <<"RequestMdns">>), list)
  BY PlainIntent, Says, SpokenIsActed DEF Names
<1>4. Acted(Go([v EXCEPT !.proto = "WiThrottle", !.fromList = TRUE], "ServerEntry"), list)
  <2> DEFINE w == [v EXCEPT !.proto = "WiThrottle", !.fromList = TRUE]
  <2>1. Open(w, list) /\ w.screen = "ServerList"
    BY DEF Open, Idle, Busy, UI
  <2>2. "ServerEntry" \in ScreenId
    BY DEF ScreenId, Editors
  <2> HIDE DEF w
  <2>3. Acted(Go(w, "ServerEntry"), list)
    BY <2>1, <2>2, OpenIsSpoken, Routes
  <2> QED BY <2>3 DEF w
<1>5. Acted(Go([v EXCEPT !.digits = "", !.fromList = FALSE], "ServerProto"), list)
  <2> DEFINE w == [v EXCEPT !.digits = "", !.fromList = FALSE]
  <2>1. Open(w, list) /\ w.screen = "ServerList"
    BY ZenonT(90) DEF Open, Idle, Busy, UI, Texts
  <2>2. "ServerProto" \in ScreenId
    BY DEF ScreenId, Navigable
  <2> HIDE DEF w
  <2>3. Acted(Go(w, "ServerProto"), list)
    BY <2>1, <2>2, OpenIsSpoken, Routes
  <2> QED BY <2>3 DEF w
<1>6. Acted(ConnectAt(v), list) /\ Acted(ConnectAt([v EXCEPT !.star = "off"]), list)
  BY <1>1, ListOk
<1>7. cx.keypad \in BOOLEAN
  BY DEF Snap
<1> QED BY <1>2, <1>3, <1>4, <1>5, <1>6, <1>7, ListOk DEF ServerList, ListScreen

LEMMA ServerConfirmOk ==
  ASSUME NEW list, NEW v, Open(v, list), v.screen = "ServerConfirm", NEW cx \in Snap(list),
         NEW a \in Acts
  PROVE  Acted(ServerConfirm(v, cx, a), list)
<1>1. Acted(Home(v), list) /\ Acted(Back(v), list) /\ Acted(v, list)
  BY OpenIsSpoken, OpenIsActed, Routes
<1>2. a.act # "menu" => Acted(DefaultKeys(v, a), list)
  BY <1>1 DEF DefaultKeys
<1>3. ASSUME v.pending \in DOMAIN cx.found
      PROVE  Acted(Home(Emit(v, <<"ServerSelect", v.pending>>)), list)
  <2>1. v.pending \in 0..Cardinality(Servers)
    BY DEF Open, Idle, Busy, UI
  <2>2. cx.found = list
    BY DEF Snap
  <2>3. Cardinality(Servers) \in Nat
    BY NavigationAssumption, FS_CardinalityType
  <2>4. v.pending \in Nat
    BY <2>1, <2>3
  <2>5. <<"ServerSelect", v.pending>> \in Intents
    BY <2>4 DEF Intents, NamesWith
  <2>6. <<"ServerSelect", v.pending>> \in Allowed(list)
    BY <1>3, <2>2, <2>4, <2>5 DEF Allowed
  <2> QED BY <2>6, Says, Routes
<1> QED BY <1>1, <1>2, <1>3, Zenon DEF ServerConfirm

LEMMA ServerProtoOk ==
  ASSUME NEW list, NEW v, Open(v, list), v.screen = "ServerProto", NEW cx \in Snap(list),
         NEW a \in Acts
  PROVE  Acted(ServerProto(v, a), list)
<1> DEFINE r == a.row
           Confirm(w) == Go([w EXCEPT !.proto = IF r = 2 THEN "Z21" ELSE "WiThrottle",
                                      !.fromList = FALSE], "ServerEntry")
<1>1. ASSUME NEW w, Open(w, list), w.screen = "ServerProto" PROVE Acted(Confirm(w), list)
  <2> DEFINE p == IF r = 2 THEN "Z21" ELSE "WiThrottle"
             x == [w EXCEPT !.proto = p, !.fromList = FALSE]
  <2>0. p \in {"WiThrottle", "Z21"}
    OBVIOUS
  <2> HIDE DEF p
  <2>1. Open(x, list) /\ x.screen = "ServerProto"
    BY ZenonT(90), <1>1, <2>0 DEF Open, Idle, Busy, UI
  <2>2. "ServerEntry" \in ScreenId
    BY DEF ScreenId, Editors
  <2> HIDE DEF x
  <2>3. Acted(Go(x, "ServerEntry"), list)
    BY <2>1, <2>2, OpenIsSpoken, Routes
  <2> QED BY <2>3 DEF x, p
<1>2. Acted(Back(v), list)
  BY OpenIsSpoken, Routes
<1>3. Acted(Confirm(v), list) /\ Acted(Confirm([v EXCEPT !.star = "off"]), list)
  BY <1>1, ListOk
<1> QED BY <1>2, <1>3, ListOk DEF ServerProto, ListScreen

LEMMA ServerEntryOk ==
  ASSUME NEW list, NEW v, Open(v, list), v.screen = "ServerEntry", NEW cx \in Snap(list),
         NEW a \in Acts
  PROVE  Acted(ServerEntry(v, a), list)
<1> DEFINE w == [v EXCEPT !.digits = v.kbd]
           x == [v EXCEPT !.digits = v.kbd, !.fromList = FALSE]
<1>1. v.kbd \in Texts /\ v.proto \in {"WiThrottle", "Z21"}
  BY DEF Open, Idle, Busy, UI
<1>2. Open(w, list) /\ Open(x, list)
  BY ZenonT(90), <1>1 DEF Open, Idle, Busy, UI
<1>3. Acted([v EXCEPT !.kbd = a.text], list) /\ Acted(v, list)
  BY TypedOk, OpenIsActed DEF Acts
<1>4. <<"ServerManual", v.proto>> \in Allowed(list)
  BY <1>1, IntentWith DEF NamesWith, Args
<1> HIDE DEF w, x
<1>5. Acted(Back(x), list)
  BY <1>2, OpenIsSpoken, Routes
<1>6. Acted(Home(Emit(w, <<"ServerManual", v.proto>>)), list)
  BY <1>2, <1>4, Says, Routes
<1> QED BY <1>3, <1>5, <1>6, DefaultKeysOk DEF ServerEntry, TextScreen, w, x

---------------------------------------------------------------------------
(* Driving.                                                                *)

LEMMA RosterListOk ==
  ASSUME NEW list, NEW v, Open(v, list), v.screen = "RosterList", NEW cx \in Snap(list),
         NEW a \in Acts
  PROVE  Acted(RosterList(v, cx, a), list)
<1> DEFINE r == a.row
           Pick(w) == CASE cx.source = "ServerRoster" /\ cx.roster > 0 ->
                             Emit(w, <<"AcquireRoster", IF r <= cx.roster THEN r ELSE cx.roster>>)
                        [] cx.source = "StaticRoster" /\ r <= cx.roster ->
                             Emit([w EXCEPT !.addr = "addr"], <<"AcquireAddr">>)
                        [] OTHER -> w
<1>1. ASSUME NEW w, Open(w, list), w.screen = "RosterList" PROVE Acted(Home(Pick(w)), list)
  <2>1. (IF r <= cx.roster THEN r ELSE cx.roster) \in Nat
    <3>1. a.row \in Nat
      BY DEF Acts
    <3>2. cx.roster \in {0, 1}
      BY DEF Snap
    <3> QED BY <3>1, <3>2
  <2>2. Spoken(Emit(w, <<"AcquireRoster", IF r <= cx.roster THEN r ELSE cx.roster>>), list)
    BY <1>1, <2>1, IntentWith, Says DEF NamesWith
  <2>3. Open([w EXCEPT !.addr = "addr"], list)
    BY ZenonT(90), <1>1 DEF Open, Idle, Busy, UI, Texts
  <2>4. Spoken(Emit([w EXCEPT !.addr = "addr"], <<"AcquireAddr">>), list)
    BY <2>3, PlainIntent, Says DEF Names
  <2>5. Spoken(w, list)
    BY <1>1, OpenIsSpoken
  <2>6. Spoken(Pick(w), list)
    BY <2>2, <2>4, <2>5, Zenon
  <2> HIDE DEF Pick
  <2> QED BY <2>6, Routes
<1>2. Acted(Home(v), list)
  BY OpenIsSpoken, Routes
<1>3. Acted(Home(Pick(v)), list) /\ Acted(Home(Pick([v EXCEPT !.star = "off"])), list)
  BY <1>1, ListOk
<1> QED BY <1>2, <1>3, ListOk DEF RosterList, ListScreen

LEMMA FunctionListOk ==
  ASSUME NEW list, NEW v, Open(v, list), v.screen = "FunctionList", NEW cx \in Snap(list),
         NEW a \in Acts
  PROVE  Acted(FunctionList(v, a), list)
<1>1. <<"Function", a.row>> \in Allowed(list)
  BY IntentWith DEF NamesWith, Acts
<1>2. \A w : Open(w, list) => Acted(Emit(w, <<"Function", a.row>>), list)
  BY <1>1, Says, SpokenIsActed
<1>3. Acted(Home(v), list)
  BY OpenIsSpoken, Routes
<1> QED BY <1>2, <1>3, ListOk DEF FunctionList, ListScreen

LEMMA DirectActivateOk ==
  ASSUME NEW list, NEW v, Open(v, list), NEW r \in Nat
  PROVE  Acted(DirectActivate(v, r), list)
<1> DEFINE item == ItemAt(DirectItems, r)
<1>1. Acted(Home(v), list)
  BY OpenIsSpoken, Routes
<1>2. item \in Args \/ item = "Back"
  BY DEF ItemAt, DirectItems, Args
<1> HIDE DEF item
<1>3. item # "Back" => Acted(Emit(v, <<"Action", item>>), list)
  BY <1>2, ActionIntent, Says, SpokenIsActed
<1> QED BY <1>1, <1>3, Zenon DEF DirectActivate, item

LEMMA DirectCommandsOk ==
  ASSUME NEW list, NEW v, Open(v, list), v.screen = "DirectCommands", NEW cx \in Snap(list),
         NEW a \in Acts
  PROVE  Acted(DirectCommands(v, a), list)
<1>1. \A w : Open(w, list) => Acted(DirectActivate(w, a.row), list)
  BY DirectActivateOk DEF Acts
<1>2. Acted(Home(v), list)
  BY OpenIsSpoken, Routes
<1> QED BY <1>1, <1>2, ListOk DEF DirectCommands, ListScreen

LEMMA ThrottleOk ==
  ASSUME NEW list, NEW v, Open(v, list), v.screen = "Throttle", NEW cx \in Snap(list),
         NEW a \in Acts
  PROVE  Acted(Throttle(v, cx, a), list)
<1> DEFINE w == [v EXCEPT !.addr = v.kbd]
           x == [w EXCEPT !.kbd = ""]
<1>1. v.kbd \in Texts /\ "" \in Texts
  BY DEF Open, Idle, Busy, UI, Texts
<1>2. Open(w, list) /\ w.screen = "Throttle"
  BY <1>1 DEF Open, Idle, Busy, UI
<1> HIDE DEF w
<1>3. Open(x, list)
  BY <1>1, <1>2 DEF Open, Idle, Busy, UI
<1> HIDE DEF x
<1>4. Acted(Go(w, "Menu"), list)
  BY <1>2, OpenIsSpoken, Routes DEF ScreenId, Navigable
<1>5. Acted(Go(v, IF v.hash THEN "FunctionList" ELSE "DirectCommands"), list)
  <2>1. (IF v.hash THEN "FunctionList" ELSE "DirectCommands") \in ScreenId
    BY DEF ScreenId, Navigable
  <2> QED BY <2>1, OpenIsSpoken, Routes
<1>6. Acted(IF x.addr # "" THEN Emit(x, <<"AcquireAddr">>) ELSE x, list)
  <2>1. Acted(Emit(x, <<"AcquireAddr">>), list)
    BY <1>3, PlainIntent, Says, SpokenIsActed DEF Names
  <2> QED BY <1>3, <2>1, OpenIsActed
<1>7. Acted(Emit(v, <<"Function", a.row>>), list)
  <2>1. <<"Function", a.row>> \in Allowed(list)
    BY IntentWith DEF NamesWith, Acts
  <2> QED BY <2>1, Says, SpokenIsActed
<1>8. Acted([v EXCEPT !.kbd = a.text], list) /\ Acted(v, list)
  BY TypedOk, OpenIsActed DEF Acts
<1>9. Acted(Emit(v, <<"SelectLoco", a.dir>>), list)
  <2>1. <<"SelectLoco", a.dir>> \in Allowed(list)
    BY IntentWith DEF NamesWith, Acts, Args
  <2> QED BY <2>1, Says, SpokenIsActed
<1>10. cx.loco \in BOOLEAN
  BY DEF Snap
<1> QED BY <1>4, <1>5, <1>6, <1>7, <1>8, <1>9, <1>10, Zenon DEF Throttle, w, x

LEMMA AddrEditOk ==
  ASSUME NEW list, NEW v, Open(v, list), v.screen = "AddrEdit", NEW cx \in Snap(list),
         NEW a \in Acts
  PROVE  Acted(AddrEdit(v, a), list)
<1> DEFINE w == [v EXCEPT !.addr = v.kbd]
<1>1. Open(w, list)
  BY DEF Open, Idle, Busy, UI
<1> HIDE DEF w
<1>2. Acted(Home(Emit(w, <<"AcquireAddr">>)), list)
  BY <1>1, PlainIntent, Says, Routes DEF Names
<1>3. Acted([v EXCEPT !.kbd = a.text], list) /\ Acted(v, list) /\ Acted(Back(v), list)
  BY TypedOk, OpenIsActed, OpenIsSpoken, Routes DEF Acts
<1> QED BY <1>2, <1>3, DefaultKeysOk DEF AddrEdit, TextScreen, w

LEMMA PairingOk ==
  ASSUME NEW list, NEW v, Open(v, list), v.screen = "Pairing", NEW cx \in Snap(list),
         NEW a \in Acts
  PROVE  Acted(Pairing(v, a), list)
<1>1. Acted(ReplaceBy(Emit(v, <<"Pair">>), "PairingWait"), list)
  <2>1. Spoken(Emit(v, <<"Pair">>), list)
    BY PlainIntent, Says DEF Names
  <2> QED BY <2>1, Routes DEF ScreenId, Others
<1>2. Acted([v EXCEPT !.kbd = a.text], list) /\ Acted(v, list) /\ Acted(Home(v), list)
  BY TypedOk, OpenIsActed, OpenIsSpoken, Routes DEF Acts
<1> QED BY <1>1, <1>2, DefaultKeysOk DEF Pairing, TextScreen

LEMMA PairingWaitOk ==
  ASSUME NEW list, NEW v, Open(v, list), v.screen = "PairingWait", NEW cx \in Snap(list),
         NEW a \in Acts
  PROVE  Acted(PairingWait(v, a), list)
<1>1. Acted(Home(v), list)
  BY OpenIsSpoken, Routes
<1> QED BY <1>1, DefaultKeysOk DEF PairingWait

---------------------------------------------------------------------------
(* Settings.                                                               *)

LEMMA IpEditOk ==
  ASSUME NEW list, NEW v, Open(v, list), v.screen = "IpEdit", NEW cx \in Snap(list),
         NEW a \in Acts
  PROVE  Acted(IpEdit(v, a), list)
<1> DEFINE w == [v EXCEPT !.field = NextField[v.field], !.kbd = "full"]
<1>1. ASSUME v.field # "Dns" PROVE Acted(w, list)
  <2>1. v.field \in NetFields
    BY DEF Open, Idle, Busy, UI
  <2>2. NextField[v.field] \in NetFields
    BY <1>1, <2>1 DEF NextField, NetFields
  <2>3. Open(w, list)
    BY ZenonT(90), <2>2 DEF Open, Idle, Busy, UI, Texts
  <2> QED BY <2>3, OpenIsActed
<1> HIDE DEF w
<1>2. Acted(Home(Emit(v, <<"SaveNetwork", "static">>)), list)
  BY IntentWith, Says, Routes DEF NamesWith, Args
<1>3. Acted([v EXCEPT !.kbd = a.text], list) /\ Acted(Back(v), list)
  BY TypedOk, OpenIsSpoken, Routes DEF Acts
<1> QED BY <1>1, <1>2, <1>3, DefaultKeysOk DEF IpEdit, TextScreen, w

LEMMA DeviceOk ==
  ASSUME NEW list, NEW v, Open(v, list), v.screen = "Device", NEW cx \in Snap(list),
         NEW a \in Acts
  PROVE  Acted(Device(v, a), list)
<1>1. v.page \in Nat
  BY DEF Open, Idle, Busy, UI
<1>2. DeviceStep(v.page, a.dir) \in Nat
  BY <1>1 DEF DeviceStep
<1>3. Acted([v EXCEPT !.page = DeviceStep(v.page, a.dir)], list)
  BY <1>2, FieldOk, OpenIsActed DEF Open
<1>4. Acted(ReplaceBy(v, "DeviceNameEdit"), list) /\ Acted(ReplaceBy(v, "DeviceIdEdit"), list)
  BY OpenIsSpoken, Routes DEF ScreenId, Editors
<1>5. Acted(Emit(v, <<"RegenerateDeviceId">>), list)
  BY PlainIntent, Says, SpokenIsActed DEF Names
<1> QED BY <1>3, <1>4, <1>5, DefaultKeysOk, Zenon DEF Device

LEMMA DeviceNameEditOk ==
  ASSUME NEW list, NEW v, Open(v, list), v.screen = "DeviceNameEdit", NEW cx \in Snap(list),
         NEW a \in Acts
  PROVE  Acted(DeviceNameEdit(v, a), list)
<1>1. Acted(ReplaceBy(Emit(v, <<"SaveDevice">>), "Device"), list)
  <2>1. Spoken(Emit(v, <<"SaveDevice">>), list)
    BY PlainIntent, Says DEF Names
  <2> QED BY <2>1, Routes DEF ScreenId, Others
<1>2. Acted([v EXCEPT !.kbd = a.text], list) /\ Acted(v, list) /\ Acted(Back(v), list)
  BY TypedOk, OpenIsActed, OpenIsSpoken, Routes DEF Acts
<1> QED BY <1>1, <1>2, DefaultKeysOk DEF DeviceNameEdit, TextScreen

LEMMA DeviceIdEditOk ==
  ASSUME NEW list, NEW v, Open(v, list), v.screen = "DeviceIdEdit", NEW cx \in Snap(list),
         NEW a \in Acts
  PROVE  Acted(DeviceIdEdit(v, a), list)
<1>1. Acted(ReplaceBy(Emit(v, <<"SaveDevice">>), "Device"), list)
  <2>1. Spoken(Emit(v, <<"SaveDevice">>), list)
    BY PlainIntent, Says DEF Names
  <2> QED BY <2>1, Routes DEF ScreenId, Others
<1>2. Acted([v EXCEPT !.kbd = a.text], list) /\ Acted(v, list) /\ Acted(Back(v), list)
  BY TypedOk, OpenIsActed, OpenIsSpoken, Routes DEF Acts
<1> QED BY <1>1, <1>2, DefaultKeysOk DEF DeviceIdEdit, TextScreen

LEMMA SlotCountEditOk ==
  ASSUME NEW list, NEW v, Open(v, list), v.screen = "SlotCountEdit", NEW cx \in Snap(list),
         NEW a \in Acts
  PROVE  Acted(SlotCountEdit(v, a), list)
<1>1. Acted(Back(Overlay(Emit(v, <<"Action", "SetMaxThrottles">>))), list)
  <2>1. Spoken(Emit(v, <<"Action", "SetMaxThrottles">>), list)
    BY ActionIntent, Says DEF Args
  <2>2. Spoken(Overlay(Emit(v, <<"Action", "SetMaxThrottles">>)), list)
    BY <2>1, FieldOk DEF Overlay, Spoken
  <2> QED BY <2>2, Routes
<1>2. Acted([v EXCEPT !.kbd = a.text], list) /\ Acted(v, list) /\ Acted(Back(v), list)
  BY TypedOk, OpenIsActed, OpenIsSpoken, Routes DEF Acts
<1> QED BY <1>1, <1>2, DefaultKeysOk DEF SlotCountEdit, TextScreen

LEMMA LanguageOk ==
  ASSUME NEW list, NEW v, Open(v, list), v.screen = "Language", NEW cx \in Snap(list),
         NEW a \in Acts
  PROVE  Acted(Language(v, a), list)
<1> DEFINE Activate(w) == LET x == Emit(w, <<"SetLanguage">>)
                          IN  IF x.boot THEN [x EXCEPT !.boot = FALSE] ELSE Back(x)
<1>1. ASSUME NEW w, Open(w, list) PROVE Acted(Activate(w), list)
  <2> DEFINE x == Emit(w, <<"SetLanguage">>)
  <2>1. Spoken(x, list)
    BY <1>1, PlainIntent, Says DEF Names
  <2> HIDE DEF x
  <2>2. Spoken([x EXCEPT !.boot = FALSE], list)
    BY ZenonT(90), <2>1 DEF Spoken, Idle, Busy, UI
  <2>3. Acted(IF x.boot THEN [x EXCEPT !.boot = FALSE] ELSE Back(x), list)
    BY <2>1, <2>2, SpokenIsActed, Routes
  <2> QED BY <2>3 DEF x
<1>2. Acted(IF v.boot THEN v ELSE Back(v), list)
  BY OpenIsActed, OpenIsSpoken, Routes
<1>3. Acted(Activate(v), list) /\ Acted(Activate([v EXCEPT !.star = "off"]), list)
  BY <1>1, ListOk
<1> QED BY <1>2, <1>3, ListOk DEF Language, ListScreen

LEMMA OtaIntent ==
  ASSUME NEW list, NEW b \in BOOLEAN PROVE <<"SetHttpOta", b>> \in Allowed(list)
<1>1. <<"SetHttpOta", b>> \in Intents
  BY DEF Intents, NamesWith
<1> QED BY <1>1 DEF Allowed

LEMMA FirmwareUpdateOk ==
  ASSUME NEW list, NEW v, Open(v, list), v.screen = "FirmwareUpdate", NEW cx \in Snap(list),
         NEW a \in Acts
  PROVE  Acted(FirmwareUpdate(v, cx, a), list)
<1> DEFINE w == Emit(v, <<"SetHttpOta", FALSE>>)
<1>1. (~cx.ota) \in BOOLEAN /\ FALSE \in BOOLEAN
  OBVIOUS
<1>2. Acted(Emit(v, <<"SetHttpOta", ~cx.ota>>), list)
  <2>1. <<"SetHttpOta", ~cx.ota>> \in Allowed(list)
    BY <1>1, OtaIntent, Zenon
  <2> QED BY <2>1, Says, SpokenIsActed
<1>3. Spoken(w, list) /\ w.screen = "FirmwareUpdate"
  BY <1>1, OtaIntent, Says DEF Same
<1> HIDE DEF w
<1>4. Acted(Back(w), list) /\ Acted(Go(w, "Menu"), list)
  BY <1>3, Routes DEF ScreenId, Navigable
<1> QED BY <1>2, <1>4, OpenIsActed, Zenon DEF FirmwareUpdate, w

LEMMA DiagnosticsOk ==
  ASSUME NEW list, NEW v, Open(v, list), v.screen = "Diagnostics", NEW cx \in Snap(list),
         NEW a \in Acts
  PROVE  Acted(Diagnostics(v, a), list)
<1>1. v.page \in Nat
  BY DEF Open, Idle, Busy, UI
<1>2. (v.page + 1) % DIAG_PAGES \in Nat
  BY <1>1 DEF DIAG_PAGES
<1>3. v.page # 0 => v.page - 1 \in Nat
  BY <1>1
<1>4. Acted([v EXCEPT !.page = (v.page + 1) % DIAG_PAGES], list)
  BY <1>2, FieldOk, OpenIsActed DEF Open
<1>5. v.page # 0 => Acted([v EXCEPT !.page = v.page - 1], list)
  BY <1>3, FieldOk, OpenIsActed DEF Open
<1>6. Acted(Back(v), list)
  BY OpenIsSpoken, Routes
<1> QED BY <1>4, <1>5, <1>6, DefaultKeysOk, Zenon DEF Diagnostics

LEMMA BatteryOk ==
  ASSUME NEW list, NEW v, Open(v, list), v.screen = "Battery", NEW cx \in Snap(list),
         NEW a \in Acts
  PROVE  Acted(Battery(v, a), list)
<1>1. Acted(Back(v), list)
  BY OpenIsSpoken, Routes
<1> QED BY <1>1, DefaultKeysOk DEF Battery

LEMMA SplashOk ==
  ASSUME NEW list, NEW v, Open(v, list), v.screen = "Splash", NEW cx \in Snap(list),
         NEW a \in Acts
  PROVE  Acted(Splash(v, a), list)
<1>1. (IF v.boot THEN "Language" ELSE "Connecting") \in ScreenId
  BY DEF ScreenId, Navigable, Others
<1>2. Acted(ReplaceBy(v, IF v.boot THEN "Language" ELSE "Connecting"), list)
  BY <1>1, OpenIsSpoken, Routes
<1> QED BY <1>2, OpenIsActed DEF Splash

---------------------------------------------------------------------------
(* Every screen's handler, and what follows it.                            *)

LEMMA HandlerOk ==
  ASSUME NEW list \in Lists, NEW v, Open(v, list), NEW cx \in Snap(list), NEW a \in Acts,
         v.screen = "Password" => a.text \in {"", v.ssid}
  PROVE  Acted(Handler(v, cx, a), list)
<1>0. v.screen \in ScreenId
  BY DEF Open, Idle, Busy, UI
<1>1. CASE v.screen = "Splash"
  <2>1. Handler(v, cx, a) = Splash(v, a)
    BY <1>1 DEF Handler
  <2> QED BY <1>1, <2>1, SplashOk
<1>2. CASE v.screen = "SsidList"
  <2>1. Handler(v, cx, a) = SsidList(v, a)
    BY <1>2 DEF Handler
  <2> QED BY <1>2, <2>1, SsidListOk
<1>3. CASE v.screen = "SsidScan"
  <2>1. Handler(v, cx, a) = SsidScan(v, cx, a)
    BY <1>3 DEF Handler
  <2> QED BY <1>3, <2>1, SsidScanOk
<1>4. CASE v.screen = "SsidScanning"
  <2>1. Handler(v, cx, a) = SsidScanning(v, a)
    BY <1>4 DEF Handler
  <2> QED BY <1>4, <2>1, SsidScanningOk
<1>5. CASE v.screen = "Password"
  <2>1. Handler(v, cx, a) = Password(v, a)
    BY <1>5 DEF Handler
  <2> QED BY <1>5, <2>1, PasswordOk
<1>6. CASE v.screen = "ServerList"
  <2>1. Handler(v, cx, a) = ServerList(v, cx, a)
    BY <1>6 DEF Handler
  <2> QED BY <1>6, <2>1, ServerListOk
<1>7. CASE v.screen = "ServerConfirm"
  <2>1. Handler(v, cx, a) = ServerConfirm(v, cx, a)
    BY <1>7 DEF Handler
  <2> QED BY <1>7, <2>1, ServerConfirmOk
<1>8. CASE v.screen = "ServerProto"
  <2>1. Handler(v, cx, a) = ServerProto(v, a)
    BY <1>8 DEF Handler
  <2> QED BY <1>8, <2>1, ServerProtoOk
<1>9. CASE v.screen = "ServerEntry"
  <2>1. Handler(v, cx, a) = ServerEntry(v, a)
    BY <1>9 DEF Handler
  <2> QED BY <1>9, <2>1, ServerEntryOk
<1>10. CASE v.screen = "Connecting"
  <2>1. Handler(v, cx, a) = Connecting(v, a)
    BY <1>10 DEF Handler
  <2> QED BY <1>10, <2>1, ConnectingOk
<1>11. CASE v.screen = "Throttle"
  <2>1. Handler(v, cx, a) = Throttle(v, cx, a)
    BY <1>11 DEF Handler
  <2> QED BY <1>11, <2>1, ThrottleOk
<1>12. CASE v.screen = "Menu"
  <2>1. Handler(v, cx, a) = Menu(v, cx, a)
    BY <1>12 DEF Handler
  <2> QED BY <1>12, <2>1, MenuOk
<1>13. CASE v.screen = "Extras"
  <2>1. Handler(v, cx, a) = Extras(v, a)
    BY <1>13 DEF Handler
  <2> QED BY <1>13, <2>1, ExtrasOk
<1>14. CASE v.screen = "ServerMenu"
  <2>1. Handler(v, cx, a) = ServerMenu(v, cx, a)
    BY <1>14 DEF Handler
  <2> QED BY <1>14, <2>1, ServerMenuOk
<1>15. CASE v.screen = "WifiSettings"
  <2>1. Handler(v, cx, a) = WifiSettings(v, a)
    BY <1>15 DEF Handler
  <2> QED BY <1>15, <2>1, WifiSettingsOk
<1>16. CASE v.screen = "Choice"
  <2>1. Handler(v, cx, a) = Choice(v, cx, a)
    BY <1>16 DEF Handler
  <2> QED BY <1>16, <2>1, ChoiceOk
<1>17. CASE v.screen = "RosterList"
  <2>1. Handler(v, cx, a) = RosterList(v, cx, a)
    BY <1>17 DEF Handler
  <2> QED BY <1>17, <2>1, RosterListOk
<1>18. CASE v.screen = "AddrEdit"
  <2>1. Handler(v, cx, a) = AddrEdit(v, a)
    BY <1>18 DEF Handler
  <2> QED BY <1>18, <2>1, AddrEditOk
<1>19. CASE v.screen = "Pairing"
  <2>1. Handler(v, cx, a) = Pairing(v, a)
    BY <1>19 DEF Handler
  <2> QED BY <1>19, <2>1, PairingOk
<1>20. CASE v.screen = "PairingWait"
  <2>1. Handler(v, cx, a) = PairingWait(v, a)
    BY <1>20 DEF Handler
  <2> QED BY <1>20, <2>1, PairingWaitOk
<1>21. CASE v.screen = "FunctionList"
  <2>1. Handler(v, cx, a) = FunctionList(v, a)
    BY <1>21 DEF Handler
  <2> QED BY <1>21, <2>1, FunctionListOk
<1>22. CASE v.screen = "DirectCommands"
  <2>1. Handler(v, cx, a) = DirectCommands(v, a)
    BY <1>22 DEF Handler
  <2> QED BY <1>22, <2>1, DirectCommandsOk
<1>23. CASE v.screen = "IpEdit"
  <2>1. Handler(v, cx, a) = IpEdit(v, a)
    BY <1>23 DEF Handler
  <2> QED BY <1>23, <2>1, IpEditOk
<1>24. CASE v.screen = "Device"
  <2>1. Handler(v, cx, a) = Device(v, a)
    BY <1>24 DEF Handler
  <2> QED BY <1>24, <2>1, DeviceOk
<1>25. CASE v.screen = "DeviceNameEdit"
  <2>1. Handler(v, cx, a) = DeviceNameEdit(v, a)
    BY <1>25 DEF Handler
  <2> QED BY <1>25, <2>1, DeviceNameEditOk
<1>26. CASE v.screen = "DeviceIdEdit"
  <2>1. Handler(v, cx, a) = DeviceIdEdit(v, a)
    BY <1>26 DEF Handler
  <2> QED BY <1>26, <2>1, DeviceIdEditOk
<1>27. CASE v.screen = "SlotCountEdit"
  <2>1. Handler(v, cx, a) = SlotCountEdit(v, a)
    BY <1>27 DEF Handler
  <2> QED BY <1>27, <2>1, SlotCountEditOk
<1>28. CASE v.screen = "Language"
  <2>1. Handler(v, cx, a) = Language(v, a)
    BY <1>28 DEF Handler
  <2> QED BY <1>28, <2>1, LanguageOk
<1>29. CASE v.screen = "FirmwareUpdate"
  <2>1. Handler(v, cx, a) = FirmwareUpdate(v, cx, a)
    BY <1>29 DEF Handler
  <2> QED BY <1>29, <2>1, FirmwareUpdateOk
<1>30. CASE v.screen = "WifiFailed"
  <2>1. Handler(v, cx, a) = WifiFailed(v, a)
    BY <1>30 DEF Handler
  <2> QED BY <1>30, <2>1, WifiFailedOk
<1>31. CASE v.screen = "Diagnostics"
  <2>1. Handler(v, cx, a) = Diagnostics(v, a)
    BY <1>31 DEF Handler
  <2> QED BY <1>31, <2>1, DiagnosticsOk
<1>32. CASE v.screen = "Battery"
  <2>1. Handler(v, cx, a) = Battery(v, a)
    BY <1>32 DEF Handler
  <2> QED BY <1>32, <2>1, BatteryOk
<1> QED BY <1>0, <1>1, <1>2, <1>3, <1>4, <1>5, <1>6, <1>7, <1>8, <1>9, <1>10, <1>11, <1>12, <1>13, <1>14, <1>15, <1>16, <1>17, <1>18, <1>19, <1>20, <1>21, <1>22, <1>23, <1>24, <1>25, <1>26, <1>27, <1>28, <1>29, <1>30, <1>31, <1>32
        DEF ScreenId, Navigable, Editors, Others

LEMMA NewScreenOk ==
  ASSUME NEW list, NEW n \in Nat, NEW v, Idle(v, list, n), NEW id \in ScreenId
  PROVE  Idle(NewScreen(v, id), list, n) /\ NewScreen(v, id).screen = id
<1> DEFINE p == IF id = "Device" THEN 1 ELSE 0
           w == [v EXCEPT !.screen = id, !.star = "off", !.kbd = "", !.page = p]
<1>1. NewScreen(v, id) = w
  BY DEF NewScreen
<1>2. "" \in Texts /\ p \in Nat /\ NoCmd.op = "none"
  BY DEF Texts, NoCmd
<1> HIDE DEF p
<1>3. v \in UI(list)
  BY DEF Idle, Busy
<1>4. w \in UI(list)
  BY <1>2, <1>3 DEF UI
<1>5. /\ w.screen = id /\ w.kbd = "" /\ w.stack = v.stack /\ w.out = v.out
      /\ w.cmd = v.cmd /\ w.pw = v.pw /\ w.ssid = v.ssid
  BY <1>3 DEF UI
<1> HIDE DEF w
<1> QED BY <1>1, <1>2, <1>4, <1>5 DEF Idle, Busy

LEMMA PasswordEntered ==
  ASSUME NEW list, NEW n \in Nat, NEW v, Idle(v, list, n), v.screen = "Password"
  PROVE  Idle([v EXCEPT !.kbd = IF v.pw # "" THEN v.pw ELSE PasswordFor(v.ssid),
                        !.pw = IF v.pw # "" THEN v.pw ELSE PasswordFor(v.ssid)], list, n)
<1> DEFINE text == IF v.pw # "" THEN v.pw ELSE PasswordFor(v.ssid)
<1>1. text \in {"", v.ssid} /\ v.ssid \in Ssids
  BY DEF PasswordFor, Idle, Busy, UI
<1>2. text \in Ssids /\ text \in Texts
  BY <1>1 DEF Ssids, Texts
<1> HIDE DEF text
<1>3. Idle([v EXCEPT !.kbd = text, !.pw = text], list, n)
  BY <1>1, <1>2 DEF Idle, Busy, UI
<1> QED BY <1>3 DEF text

\* on_enter says something at most, or sends the operator back from a server
\* that is gone.
LEMMA OnEnterOk ==
  ASSUME NEW list, NEW n \in 0..2, NEW v, Idle(v, list, n), NEW cx
  PROVE  IF v.screen = "ServerConfirm"
         THEN OnEnter(v, cx) = v \/ OnEnter(v, cx) = Back(v)
         ELSE Idle(OnEnter(v, cx), list, n + 1)
<1>0. n \in Nat /\ n \in 0..3 /\ Busy(v, list, n)
  BY DEF Idle
<1>1. Idle(v, list, n + 1)
  <2>1. v.out \in Seq(Allowed(list)) /\ Len(v.out) <= n
    BY DEF Idle, Busy, UI
  <2>2. Len(v.out) <= n + 1
    BY <2>1
  <2> QED BY <2>2, Zenon DEF Idle, Busy
<1>2. CASE v.screen = "SsidScanning"
  <2>1. OnEnter(v, cx) = Emit(v, <<"WifiScan">>)
    BY <1>2 DEF OnEnter
  <2> QED BY <1>0, <1>2, <2>1, PlainIntent, EmitOk DEF Names
<1>3. CASE v.screen = "ServerList"
  <2>1. OnEnter(v, cx) = Emit(v, <<"RequestMdns">>)
    BY <1>3 DEF OnEnter
  <2> QED BY <1>0, <1>3, <2>1, PlainIntent, EmitOk DEF Names
<1>4. CASE v.screen = "ServerConfirm"
  BY <1>4 DEF OnEnter
<1>5. CASE v.screen = "Password"
  <2> DEFINE text == IF v.pw # "" THEN v.pw ELSE PasswordFor(v.ssid)
  <2>1. OnEnter(v, cx) = [v EXCEPT !.kbd = text, !.pw = text]
    BY <1>5 DEF OnEnter
  <2>2. n + 1 \in Nat
    BY <1>0
  <2>3. Idle([v EXCEPT !.kbd = text, !.pw = text], list, n + 1)
    BY <1>1, <1>5, <2>2, PasswordEntered
  <2> QED BY <1>5, <2>1, <2>3
<1>6. \A x \in Texts : v.screen # "Password" => Idle([v EXCEPT !.kbd = x], list, n + 1)
  BY <1>1, FieldOk
<1>7. CASE v.screen = "ServerEntry"
  <2>1. (IF v.digits # "" THEN v.digits ELSE DefaultDigits(v)) \in Texts
    BY DEF DefaultDigits, Idle, Busy, UI, Texts
  <2> QED BY <1>6, <1>7, <2>1 DEF OnEnter
<1>8. CASE v.screen = "Throttle"
  <2>1. v.addr \in Texts
    BY DEF Idle, Busy, UI
  <2> QED BY <1>6, <1>8, <2>1 DEF OnEnter
<1>9. CASE v.screen = "AddrEdit"
  <2>1. (IF v.addr # "" THEN v.addr ELSE IF cx.loco THEN "addr" ELSE "") \in Texts
    BY DEF Idle, Busy, UI, Texts
  <2> QED BY <1>6, <1>9, <2>1 DEF OnEnter
<1>10. CASE v.screen \in {"IpEdit", "DeviceNameEdit", "DeviceIdEdit", "SlotCountEdit"}
  <2>1. "full" \in Texts
    BY DEF Texts
  <2> QED BY <1>6, <1>10, <2>1 DEF OnEnter
<1>11. CASE v.screen \notin {"SsidScanning", "ServerList", "ServerConfirm", "Password", "ServerEntry",
                             "Throttle", "AddrEdit", "IpEdit", "DeviceNameEdit", "DeviceIdEdit",
                             "SlotCountEdit"}
  <2>1. OnEnter(v, cx) = v
    BY <1>11 DEF OnEnter
  <2> QED BY <1>1, <1>11, <2>1
<1> QED BY <1>2, <1>3, <1>4, <1>5, <1>7, <1>8, <1>9, <1>10, <1>11

\* What one hop leaves: nothing more to do, or the way back from a server that is
\* gone.
Left(v, list, n) ==
    \/ Idle(v, list, n + 1)
    \/ Busy(v, list, n) /\ v.cmd.op = "back"

LEMMA EnterScreenOk ==
  ASSUME NEW list, NEW n \in 0..2, NEW v, Busy(v, list, n), NEW id \in ScreenId, NEW cx
  PROVE  /\ Left(EnterScreen(v, cx, id), list, n)
         /\ id # "ServerConfirm" => Idle(EnterScreen(v, cx, id), list, n + 1)
<1> DEFINE w == [v EXCEPT !.cmd = NoCmd]
           x == NewScreen(w, id)
<1>0. n \in Nat
  OBVIOUS
<1>1. Idle(w, list, n)
  <2>1. NoCmd \in Commands /\ NoCmd.op = "none"
    BY DEF Commands, NoCmd
  <2> QED BY <2>1 DEF Idle, Busy, UI
<1> HIDE DEF w
<1>2. Idle(x, list, n) /\ x.screen = id
  BY <1>0, <1>1, NewScreenOk
<1> HIDE DEF x
<1>3. EnterScreen(v, cx, id) = OnEnter(x, cx)
  BY DEF EnterScreen, x, w
<1>4. CASE id # "ServerConfirm"
  BY <1>2, <1>3, <1>4, OnEnterOk DEF Left
<1>5. CASE id = "ServerConfirm"
  <2>1. Idle(x, list, n + 1)
    <3>1. x.out \in Seq(Allowed(list)) /\ Len(x.out) <= n
      BY <1>2 DEF Idle, Busy, UI
    <3>2. Len(x.out) <= n + 1
      BY <1>0, <3>1
    <3> QED BY <1>2, <3>2, Zenon DEF Idle, Busy
  <2>2. Busy(Back(x), list, n)
    BY <1>0, <1>2, BackOk
  <2>3. Back(x).cmd.op = "back"
    BY <1>2 DEF Back, SetCmd, Idle, Busy, UI
  <2>4. OnEnter(x, cx) = x \/ OnEnter(x, cx) = Back(x)
    BY <1>2, <1>5, OnEnterOk
  <2> QED BY <1>3, <1>5, <2>1, <2>2, <2>3, <2>4, Zenon DEF Left
<1> QED BY <1>4, <1>5

---------------------------------------------------------------------------
(* The router.                                                             *)

\* A stack takes another screen, and gives one back.
LEMMA StackOk ==
  ASSUME NEW list, NEW n \in Nat, NEW v, Busy(v, list, n), NEW s, s \in Seq(Stackable),
         Len(s) <= StackCap
  PROVE  Busy([v EXCEPT !.stack = s], list, n)
<1> DEFINE w == [v EXCEPT !.stack = s]
<1>1. v \in UI(list)
  BY DEF Busy
<1>2. w \in UI(list)
  BY <1>1 DEF UI
<1>3. /\ w.screen = v.screen /\ w.kbd = v.kbd /\ w.stack = s /\ w.out = v.out
      /\ w.cmd = v.cmd /\ w.pw = v.pw /\ w.ssid = v.ssid
  BY <1>1 DEF UI
<1> HIDE DEF w
<1>4. Busy(w, list, n)
  BY <1>2, <1>3 DEF Busy
<1> QED BY <1>4 DEF w

LEMMA PushedOk ==
  ASSUME NEW s \in Seq(Stackable), Len(s) <= StackCap, NEW id \in Stackable
  PROVE  /\ Append(IF Len(s) = StackCap THEN Tail(s) ELSE s, id) \in Seq(Stackable)
         /\ Len(Append(IF Len(s) = StackCap THEN Tail(s) ELSE s, id)) <= StackCap
<1>0. StackCap \in Nat /\ StackCap # 0
  BY NavigationAssumption
<1>1. CASE Len(s) = StackCap
  <2>1. s # <<>>
    BY <1>0, <1>1
  <2>2. Tail(s) \in Seq(Stackable) /\ Len(Tail(s)) = StackCap - 1
    BY <1>1, <2>1
  <2>3. /\ Append(Tail(s), id) \in Seq(Stackable)
        /\ Len(Append(Tail(s), id)) = StackCap
    BY <1>0, <2>2
  <2> QED BY <1>0, <1>1, <2>3
<1>2. CASE Len(s) # StackCap
  <2>1. Append(s, id) \in Seq(Stackable) /\ Len(Append(s, id)) = Len(s) + 1
    OBVIOUS
  <2>2. Len(s) + 1 <= StackCap
    BY <1>0, <1>2
  <2> QED BY <1>2, <2>1, <2>2
<1> QED BY <1>1, <1>2

LEMMA PoppedOk ==
  ASSUME NEW s \in Seq(Stackable), Len(s) <= StackCap, Len(s) # 0
  PROVE  /\ SubSeq(s, 1, Len(s) - 1) \in Seq(Stackable)
         /\ Len(SubSeq(s, 1, Len(s) - 1)) <= StackCap
         /\ s[Len(s)] \in Stackable
<1>1. Len(s) \in Nat /\ Len(s) - 1 \in Nat /\ StackCap \in Nat
  BY NavigationAssumption
<1>2. /\ SubSeq(s, 1, Len(s) - 1) \in Seq(Stackable)
      /\ Len(SubSeq(s, 1, Len(s) - 1)) = Len(s) - 1
  <2> DEFINE k == Len(s) - 1
  <2>1. k \in Int /\ 1 \in Int /\ \A i \in 1..k : s[i] \in Stackable
    BY <1>1
  <2>2. k \in Nat
    BY <1>1
  <2> HIDE DEF k
  <2>4. (IF 1 <= k THEN k - 1 + 1 ELSE 0) = k
    BY <2>2
  <2>3. SubSeq(s, 1, k) \in Seq(Stackable) /\ Len(SubSeq(s, 1, k)) = k
    BY <2>1, <2>4, SubSeqProperties
  <2> QED BY <2>3 DEF k
<1> QED BY <1>1, <1>2

LEMMA StepOk ==
  ASSUME NEW list, NEW n \in 0..2, NEW v, Busy(v, list, n), NEW cx
  PROVE  /\ Left(Step(v, cx), list, n)
         /\ v.cmd.op = "back" => Idle(Step(v, cx), list, n + 1)
<1>0. /\ n \in Nat /\ v.stack \in Seq(Stackable) /\ Len(v.stack) <= StackCap
      /\ v.screen \in ScreenId /\ v.cmd \in Commands
  <2>1. v \in UI(list) /\ Len(v.stack) <= StackCap
    BY DEF Busy
  <2>2. v.stack \in Seq(Stackable) /\ v.screen \in ScreenId /\ v.cmd \in Commands
    BY <2>1 DEF UI
  <2> QED BY <2>1, <2>2
<1> DEFINE s == v.stack
<1>1. CASE v.cmd.op = "go" /\ v.cmd.to # v.screen
  <2> DEFINE t == Append(IF Len(s) = StackCap THEN Tail(s) ELSE s, v.screen)
             w == [v EXCEPT !.stack = t]
  <2>1. v.screen \in Stackable /\ v.cmd.to \in ScreenId
    <3>1. v.screen # "ServerConfirm"
      BY <1>1 DEF Busy
    <3>2. v.cmd.to \in ScreenId
      BY <1>0, <1>1 DEF Commands, NoCmd
    <3> QED BY <1>0, <3>1, <3>2 DEF Stackable
  <2>2. t \in Seq(Stackable) /\ Len(t) <= StackCap
    BY <1>0, <2>1, PushedOk
  <2>3. Step(v, cx) = EnterScreen(w, cx, v.cmd.to)
    BY <1>1 DEF Step
  <2> HIDE DEF t
  <2>4. Busy(w, list, n)
    BY <1>0, <2>2, StackOk
  <2> HIDE DEF w
  <2> QED BY <1>1, <2>1, <2>3, <2>4, EnterScreenOk
<1>2. CASE v.cmd.op = "replace" /\ v.cmd.to # v.screen
  <2>1. v.cmd.to \in ScreenId
    BY <1>0, <1>2 DEF Commands, NoCmd
  <2>2. Step(v, cx) = EnterScreen(v, cx, v.cmd.to)
    BY <1>2 DEF Step
  <2> QED BY <1>2, <2>1, <2>2, EnterScreenOk
<1>3. CASE v.cmd.op = "back" /\ Len(s) = 0
  <2>1. Step(v, cx) = EnterScreen([v EXCEPT !.stack = s], cx, "Throttle")
    BY <1>3 DEF Step
  <2>2. Busy([v EXCEPT !.stack = s], list, n)
    BY <1>0, StackOk
  <2>3. "Throttle" \in ScreenId
    BY DEF ScreenId, Others
  <2>4. Idle(Step(v, cx), list, n + 1)
    BY <2>1, <2>2, <2>3, EnterScreenOk
  <2> QED BY <2>4 DEF Left
<1>4. CASE v.cmd.op = "back" /\ Len(s) # 0
  <2> DEFINE t == SubSeq(s, 1, Len(s) - 1)
             w == [v EXCEPT !.stack = t]
  <2>1. Step(v, cx) = EnterScreen(w, cx, s[Len(s)])
    BY <1>4 DEF Step
  <2>2. t \in Seq(Stackable) /\ Len(t) <= StackCap /\ s[Len(s)] \in Stackable
    BY <1>0, <1>4, PoppedOk
  <2>3. s[Len(s)] \in ScreenId /\ s[Len(s)] # "ServerConfirm"
    BY <2>2 DEF Stackable
  <2> HIDE DEF t
  <2>4. Busy(w, list, n)
    BY <1>0, <2>2, StackOk
  <2> HIDE DEF w
  <2>5. Idle(Step(v, cx), list, n + 1)
    BY <2>1, <2>3, <2>4, EnterScreenOk
  <2> QED BY <2>5 DEF Left
<1>5. CASE v.cmd.op = "root"
  <2>1. v.cmd.to \in ScreenId
    BY <1>0, <1>5 DEF Commands, NoCmd
  <2>2. Step(v, cx) = EnterScreen([v EXCEPT !.stack = <<>>], cx, v.cmd.to)
    BY <1>5 DEF Step
  <2>3. <<>> \in Seq(Stackable) /\ Len(<<>>) <= StackCap
    BY NavigationAssumption
  <2>4. Busy([v EXCEPT !.stack = <<>>], list, n)
    BY <1>0, <2>3, StackOk
  <2> QED BY <1>5, <2>1, <2>2, <2>4, EnterScreenOk
<1>6. CASE /\ ~(v.cmd.op = "go" /\ v.cmd.to # v.screen)
           /\ ~(v.cmd.op = "replace" /\ v.cmd.to # v.screen)
           /\ v.cmd.op # "back" /\ v.cmd.op # "root"
  <2> DEFINE w == [v EXCEPT !.cmd = NoCmd]
  <2>1. Step(v, cx) = w
    BY <1>6 DEF Step
  <2>2. NoCmd \in Commands /\ NoCmd.op = "none"
    BY DEF Commands, NoCmd
  <2>3. Idle(w, list, n)
    BY <2>2 DEF Idle, Busy, UI
  <2> HIDE DEF w
  <2>4. w.out \in Seq(Allowed(list)) /\ Len(w.out) <= n
    BY <2>3 DEF Idle, Busy, UI
  <2>5. Len(w.out) <= n + 1
    BY <1>0, <2>4
  <2>6. Idle(w, list, n + 1)
    BY <2>3, <2>5, Zenon DEF Idle, Busy
  <2> QED BY <1>6, <2>1, <2>6 DEF Left
<1> QED BY <1>1, <1>2, <1>3, <1>4, <1>5, <1>6

LEMMA MoreOk ==
  ASSUME NEW list, NEW v, NEW n \in Nat, NEW m \in Nat, n <= m
  PROVE  /\ Busy(v, list, n) => Busy(v, list, m)
         /\ Idle(v, list, n) => Idle(v, list, m)
<1>1. ASSUME Busy(v, list, n) PROVE Busy(v, list, m)
  <2>1. v.out \in Seq(Allowed(list)) /\ Len(v.out) <= n
    BY <1>1 DEF Busy, UI
  <2>2. Len(v.out) <= m
    BY <2>1
  <2> QED BY <1>1, <2>2, Zenon DEF Busy
<1> QED BY <1>1 DEF Idle

LEMMA HopOf ==
  ASSUME NEW v, NEW cx
  PROVE  Hop({v}, cx) = {IF v.cmd = NoCmd THEN v ELSE Step(v, cx)}
BY DEF Hop

\* Two hops settle the chain, with intents to spare.
LEMMA ApplyOk ==
  ASSUME NEW list, NEW v, Acted(v, list), NEW cx
  PROVE  Idle(Apply(v, cx), list, MAX_INTENTS)
<1> DEFINE Then(w) == IF w.cmd = NoCmd THEN w ELSE Step(w, cx)
           v1 == Then(v)
           v2 == Then(v1)
           v3 == Then(v2)
           v4 == Then(v3)
<1>0. 1 \in 0..2 /\ 2 \in 0..2 /\ 1 + 1 = 2 /\ 2 + 1 = 3
  OBVIOUS
<1>1. Left(v1, list, 1)
  <2>1. CASE v.cmd = NoCmd
    BY <1>0, <2>1, MoreOk DEF Acted, Left, Idle
  <2>2. CASE v.cmd # NoCmd
    BY <1>0, <2>2, StepOk DEF Acted
  <2> QED BY <2>1, <2>2
<1> HIDE DEF v1
<1>2. Idle(v2, list, 3)
  <2>1. CASE Idle(v1, list, 2)
    BY <2>1, MoreOk DEF Idle
  <2>2. CASE Busy(v1, list, 1) /\ v1.cmd.op = "back"
    <3>1. v1.cmd # NoCmd
      BY <2>2 DEF NoCmd
    <3>2. Idle(v2, list, 2)
      BY <1>0, <2>2, <3>1, StepOk
    <3> QED BY <3>2, MoreOk
  <2> QED BY <1>0, <1>1, <2>1, <2>2 DEF Left
<1> HIDE DEF v2
<1>3. v3 = v2 /\ v4 = v2
  BY <1>2 DEF Idle
<1>4. Hop(Hop(Hop(Hop({v}, cx), cx), cx), cx) = {v2}
  <2>1. Hop({v}, cx) = {v1}
    BY HopOf DEF v1
  <2>2. Hop({v1}, cx) = {v2}
    BY HopOf DEF v2
  <2>3. Hop({v2}, cx) = {v2}
    BY <1>3, HopOf
  <2> QED BY <2>1, <2>2, <2>3
<1>5. (CHOOSE w \in {v2} : TRUE) = v2
  OBVIOUS
<1>6. Apply(v, cx) = v2
  BY <1>2, <1>4, <1>5 DEF Apply, Idle
<1>7. Idle(v2, list, MAX_INTENTS)
  BY <1>2, MoreOk DEF MAX_INTENTS
<1> QED BY <1>6, <1>7

---------------------------------------------------------------------------
(* Keys and reports.                                                       *)

LEMMA WithNavOk ==
  ASSUME NEW list \in Lists, NEW v, Open(v, list), NEW cx \in Snap(list), NEW a \in Acts,
         v.screen = "Password" => a.text \in {"", v.ssid}
  PROVE  Idle(WithNav(v, cx, a), list, MAX_INTENTS)
BY HandlerOk, ApplyOk DEF WithNav

LEMMA ActUpdate ==
  ASSUME NEW a \in Acts, NEW act \in ActKinds
  PROVE  [a EXCEPT !.act = act] \in Acts /\ [a EXCEPT !.act = act].text = a.text
BY DEF Acts

LEMMA TrackOk ==
  ASSUME NEW list, NEW v, Open(v, list), NEW x \in Args
  PROVE  Idle(Track(v, x), list, MAX_INTENTS)
<1>1. Spoken(Track(v, x), list)
  BY ActionIntent, Says DEF Track
<1> QED BY <1>1, MoreOk DEF Spoken, MAX_INTENTS

LEMMA SpokenIsIdle ==
  ASSUME NEW list, NEW v, Spoken(v, list) PROVE Idle(v, list, MAX_INTENTS)
<1>1. Idle(v, list, 1) /\ 1 \in Nat /\ 4 \in Nat /\ 1 <= 4 /\ MAX_INTENTS = 4
  BY DEF Spoken, MAX_INTENTS
<1> QED BY <1>1, MoreOk

LEMMA OpenIsIdle ==
  ASSUME NEW list, NEW v, Open(v, list) PROVE Idle(v, list, MAX_INTENTS)
BY MoreOk DEF Open, MAX_INTENTS

LEMMA PassThroughOk ==
  ASSUME NEW list \in Lists, NEW v, Open(v, list), NEW cx \in Snap(list), NEW a \in Acts,
         v.screen = "Password" => a.text \in {"", v.ssid}
  PROVE  Idle(PassThrough(v, cx, a), list, MAX_INTENTS)
<1>1. /\ Idle(Track(v, "EStop"), list, MAX_INTENTS)
      /\ Idle(Track(v, "DirectionToggle"), list, MAX_INTENTS)
      /\ Idle(Track(v, "SpeedUp"), list, MAX_INTENTS)
      /\ Idle(Track(v, "SpeedDown"), list, MAX_INTENTS)
      /\ Idle(Track(v, "SpeedStopThenToggleDirection"), list, MAX_INTENTS)
      /\ Idle(Track(v, "SpeedSet"), list, MAX_INTENTS)
      /\ Idle(Track(v, "Throttle"), list, MAX_INTENTS)
  BY TrackOk DEF Args
<1>2. \A x \in ActKinds : Idle(WithNav(v, cx, [a EXCEPT !.act = x]), list, MAX_INTENTS)
  <2> TAKE x \in ActKinds
  <2> DEFINE b == [a EXCEPT !.act = x]
  <2>1. b \in Acts /\ b.text = a.text
    BY ActUpdate
  <2> HIDE DEF b
  <2>2. Idle(WithNav(v, cx, b), list, MAX_INTENTS)
    BY <2>1, WithNavOk
  <2> QED BY <2>2 DEF b
<1>3. /\ Idle(WithNav(v, cx, [a EXCEPT !.act = "stop"]), list, MAX_INTENTS)
      /\ Idle(WithNav(v, cx, [a EXCEPT !.act = "fn"]), list, MAX_INTENTS)
      /\ Idle(WithNav(v, cx, [a EXCEPT !.act = "char"]), list, MAX_INTENTS)
  BY <1>2 DEF ActKinds
<1>4. Idle(Emit(v, <<"EnterProgrammingMode">>), list, MAX_INTENTS)
  <2>1. Spoken(Emit(v, <<"EnterProgrammingMode">>), list)
    BY PlainIntent, Says DEF Names
  <2> QED BY <2>1, SpokenIsIdle
<1>5. Idle(v, list, MAX_INTENTS)
  BY OpenIsIdle
<1>6. cx.loco \in BOOLEAN
  BY DEF Snap
<1> QED BY <1>1, <1>3, <1>4, <1>5, <1>6, Zenon DEF PassThrough

LEMMA OverlayInputOk ==
  ASSUME NEW list, NEW v, Open(v, list), NEW cx, NEW a
  PROVE  Idle(OverlayInput(v, cx, a), list, MAX_INTENTS)
<1>1. Open([v EXCEPT !.overlay = FALSE], list)
  BY FieldOk DEF Open
<1>2. Idle([v EXCEPT !.overlay = FALSE], list, MAX_INTENTS) /\ Idle(v, list, MAX_INTENTS)
  BY <1>1, OpenIsIdle
<1>3. Idle(Track([v EXCEPT !.overlay = FALSE], "EStop"), list, MAX_INTENTS)
  BY <1>1, TrackOk DEF Args
<1> QED BY <1>2, <1>3, Zenon DEF OverlayInput

LEMMA HandleOk ==
  ASSUME NEW list \in Lists, NEW v, Open(v, list), NEW cx \in Snap(list), NEW a \in Acts,
         v.screen = "Password" => a.text \in {"", v.ssid}
  PROVE  Idle(Handle(v, cx, a), list, MAX_INTENTS)
<1> DEFINE b == [a EXCEPT !.act = "star"]
<1>1. b \in Acts /\ b.text = a.text
  BY ActUpdate DEF ActKinds
<1> HIDE DEF b
<1>2. Idle(WithNav(v, cx, b), list, MAX_INTENTS)
  BY <1>1, WithNavOk
<1>3. Idle(WithNav(v, cx, a), list, MAX_INTENTS)
  BY WithNavOk
<1>4. Idle(PassThrough(v, cx, a), list, MAX_INTENTS) /\ Idle(OverlayInput(v, cx, a), list, MAX_INTENTS)
  BY PassThroughOk, OverlayInputOk
<1> QED BY <1>2, <1>3, <1>4, Zenon DEF Handle, b

LEMMA OnAppEventOk ==
  ASSUME NEW list \in Lists, NEW v, Open(v, list), NEW cx \in Snap(list), NEW e \in Events
  PROVE  Idle(OnAppEvent(v, cx, e), list, MAX_INTENTS)
<1> DEFINE a == [act |-> e, key |-> e, row |-> 0, dir |-> "none", text |-> ""]
<1>1. Acted(ReplaceBy(v, "Pairing"), list) /\ Acted(ReplaceBy(v, "PairingWait"), list)
  BY OpenIsSpoken, Routes DEF ScreenId, Editors, Others
<1>2. Acted(Home(v), list)
  BY OpenIsSpoken, Routes
<1>3. a \in Acts /\ a.text = ""
  BY DEF Acts, ActKinds, Texts
<1> HIDE DEF a
<1>4. Idle(WithNav(v, cx, a), list, MAX_INTENTS)
  BY <1>3, WithNavOk
<1> QED BY <1>1, <1>2, <1>4, ApplyOk DEF OnAppEvent, a

\* A handler starts with nothing issued.
LEMMA FreshOk ==
  ASSUME NEW list, NEW other, NEW v, Idle(v, list, MAX_INTENTS)
  PROVE  /\ Open(Fresh(v), other) /\ Fresh(v).screen = v.screen /\ Fresh(v).ssid = v.ssid
         /\ Fresh(v).overlay = v.overlay /\ Fresh(v).out = <<>>
<1> DEFINE w == [v EXCEPT !.out = <<>>]
<1>1. v \in UI(list)
  BY DEF Idle, Busy
<1>2. <<>> \in Seq(Allowed(other)) /\ Len(<<>>) = 0
  OBVIOUS
<1>3. w \in UI(other)
  BY <1>1, <1>2 DEF UI
<1>4. /\ w.screen = v.screen /\ w.kbd = v.kbd /\ w.stack = v.stack /\ w.out = <<>>
      /\ w.cmd = v.cmd /\ w.pw = v.pw /\ w.ssid = v.ssid /\ w.overlay = v.overlay
  BY <1>1 DEF UI
<1> HIDE DEF w
<1>5. /\ Len(v.stack) <= StackCap /\ v.pw \in {"", v.ssid} /\ v.cmd = NoCmd
      /\ v.screen = "Password" => v.kbd \in {"", v.ssid}
      /\ v.screen = "ServerConfirm" => v.cmd.op # "go"
  BY DEF Idle, Busy
<1>6. Len(w.out) <= 0
  BY <1>2, <1>4
<1>7. Open(w, other)
  BY <1>3, <1>4, <1>5, <1>6 DEF Open, Idle, Busy
<1> QED BY <1>4, <1>7 DEF Fresh, w

---------------------------------------------------------------------------
(* A stop is heard.                                                        *)

Heard(v) == <<"Action", "EStop">> \in {v.out[i] : i \in DOMAIN v.out}

LEMMA TrackHeard ==
  ASSUME NEW list, NEW v, Open(v, list), v.out = <<>>
  PROVE  Heard(Track(v, "EStop"))
<1> DEFINE i == <<"Action", "EStop">>
           w == Track(v, "EStop")
<1>1. i \in Allowed(list) /\ Busy(v, list, 0) /\ 0 \in 0..3
  BY ActionIntent DEF Args, Open, Idle
<1>2. w.out = Append(<<>>, i)
  BY <1>1, EmitOk DEF Track
<1>3. w.out = <<i>>
  BY <1>2
<1> HIDE DEF w
<1>4. 1 \in DOMAIN w.out /\ w.out[1] = i
  BY <1>3
<1> QED BY <1>4 DEF Heard, w

LEMMA StopHeard ==
  ASSUME NEW list, NEW v, Open(v, list), v.out = <<>>, NEW cx \in Snap(list), cx.loco, NEW a,
         a.act = "pass",
         a.key = "estop" \/ (a.key = "stop" /\ (v.overlay \/ v.screen = "Throttle"))
  PROVE  Heard(Handle(v, cx, a))
<1> DEFINE w == [v EXCEPT !.overlay = FALSE]
<1>1. v.overlay \in BOOLEAN
  BY DEF Open, Idle, Busy, UI
<1>2. Open(w, list) /\ w.out = <<>>
  <2>1. Open(w, list)
    BY FieldOk DEF Open
  <2>2. v \in UI(list)
    BY DEF Open, Idle, Busy
  <2>3. w.out = v.out
    BY <2>2 DEF UI
  <2> QED BY <2>1, <2>3
<1> HIDE DEF w
<1>3. Heard(Track(w, "EStop")) /\ Heard(Track(v, "EStop"))
  BY <1>2, TrackHeard
<1>4. CASE v.overlay
  <2>1. Handle(v, cx, a) = OverlayInput(v, cx, a)
    BY <1>4 DEF Handle
  <2>2. OverlayInput(v, cx, a) = Track(w, "EStop")
    BY DEF OverlayInput, w
  <2> QED BY <1>3, <2>1, <2>2
<1>5. CASE ~v.overlay
  <2>1. Handle(v, cx, a) = PassThrough(v, cx, a)
    BY <1>5 DEF Handle
  <2>2. PassThrough(v, cx, a) = Track(v, "EStop")
    BY <1>5 DEF PassThrough
  <2> QED BY <1>3, <2>1, <2>2
<1> QED BY <1>1, <1>4, <1>5

LEMMA StopPasses ==
  ASSUME NEW key \in {"estop", "stop"}, NEW mode
  PROVE  NavAction(key, mode) = "pass"
<1>1. LongFredNav(key, mode) = "pass"
  BY DEF LongFredNav
<1>2. MarkwtechNav(key, mode) = "pass"
  BY DEF MarkwtechNav
<1> QED BY <1>1, <1>2 DEF NavAction

LEMMA NavActionType ==
  ASSUME NEW key, NEW mode PROVE NavAction(key, mode) \in ActKinds
<1>1. LongFredNav(key, mode) \in ActKinds
  BY DEF LongFredNav, ActKinds
<1>2. MarkwtechNav(key, mode) \in ActKinds
  BY DEF MarkwtechNav, ActKinds
<1> QED BY <1>1, <1>2 DEF NavAction

---------------------------------------------------------------------------
(* The invariant.                                                          *)

LEMMA RowsAreNumbers ==
  ASSUME Inv, NEW screen PROVE RowsOf(screen) \subseteq Nat
<1>1. u.choice \in Choices
  BY DEF Inv, Idle, Busy, UI
<1>2. DOMAIN ChoiceRows[u.choice] \subseteq Nat
  <2>1. CASE u.choice = "DeadMan"
    BY <2>1 DEF ChoiceRows
  <2>2. CASE u.choice = "RosterSource"
    BY <2>2 DEF ChoiceRows
  <2>3. CASE u.choice = "ServerConnect"
    BY <2>3 DEF ChoiceRows
  <2>4. CASE u.choice = "IpMode"
    BY <2>4 DEF ChoiceRows
  <2> QED BY <1>1, <2>1, <2>2, <2>3, <2>4 DEF Choices
<1>3. \A k \in Nat : 1..k \subseteq Nat
  OBVIOUS
<1>4. /\ Len(MenuItems) \in Nat /\ Len(ExtrasItems) \in Nat /\ Len(ServerMenuItems) \in Nat
      /\ Len(DirectItems) \in Nat
  BY DEF MenuItems, ExtrasItems, ServerMenuItems, DirectItems
<1>5. 1..2 \subseteq Nat /\ {1} \subseteq Nat
  OBVIOUS
<1>6. /\ 1..Len(MenuItems) \subseteq Nat /\ 1..Len(ExtrasItems) \subseteq Nat
      /\ 1..Len(ServerMenuItems) \subseteq Nat /\ 1..Len(DirectItems) \subseteq Nat
  BY <1>3, <1>4
<1> QED BY <1>2, <1>5, <1>6, Zenon DEF RowsOf

LEMMA SnapshotsAreSnap ==
  ASSUME Inv, NEW screen, NEW cx \in SnapshotsFor(screen)
  PROVE  cx \in Snap(found)
BY DEF Inv, SnapshotsFor, Snapshots, Snap

LEMMA TextsAreTexts ==
  ASSUME Inv, NEW text \in TextsOf(u.screen)
  PROVE  /\ text \in Texts
         /\ u.screen = "Password" => text \in {"", u.ssid}
<1>1. u.ssid \in Ssids
  BY DEF Inv, Idle, Busy, UI
<1>2. /\ "" \in Texts /\ "part" \in Texts /\ "full" \in Texts /\ "addr" \in Texts
      /\ u.ssid \in Texts
  BY <1>1 DEF Texts
<1>3. CASE u.screen = "Password"
  <2>1. TextsOf(u.screen) = {"", u.ssid}
    BY <1>3 DEF TextsOf
  <2> QED BY <1>2, <2>1
<1>4. CASE u.screen # "Password"
  <2>1. TextsOf(u.screen) \subseteq {"", "part", "full", "addr"}
    BY <1>4 DEF TextsOf
  <2> QED BY <1>2, <1>4, <2>1
<1> QED BY <1>3, <1>4

LEMMA OtaType ==
  ASSUME Inv, NEW list, NEW v, Idle(v, list, MAX_INTENTS)
  PROVE  HttpOta(v.out) \in BOOLEAN
<1> DEFINE q == v.out
           on == {i \in DOMAIN q : q[i][1] = "SetHttpOta"}
<1>1. q \in Seq(Allowed(list))
  BY DEF Idle, Busy, UI
<1>2. Len(q) \in Nat /\ DOMAIN q = 1..Len(q)
  BY <1>1
<1>3. \A i \in on : q[i][2] \in BOOLEAN
  BY <1>1, <1>2 DEF Allowed
<1> HIDE DEF q
<1>4. ASSUME on # {} PROVE \E i \in on : \A j \in on : j <= i
  <2>1. Len(q) <= 4
    BY DEF Idle, Busy, MAX_INTENTS, q
  <2>2. \A j \in on : j \in Nat /\ (j = 1 \/ j = 2 \/ j = 3 \/ j = 4)
    BY <1>2, <2>1
  <2>3. PICK k \in on : TRUE
    BY <1>4
  <2> HIDE DEF on
  <2>4. CASE 4 \in on
    BY <2>2, <2>4
  <2>5. CASE 4 \notin on /\ 3 \in on
    BY <2>2, <2>5
  <2>6. CASE 4 \notin on /\ 3 \notin on /\ 2 \in on
    BY <2>2, <2>6
  <2>7. CASE 4 \notin on /\ 3 \notin on /\ 2 \notin on
    BY <2>2, <2>3, <2>7
  <2> QED BY <2>4, <2>5, <2>6, <2>7
<1>5. ota \in BOOLEAN
  BY DEF Inv
<1> HIDE DEF on
<1>6. on # {} => (CHOOSE i \in on : \A j \in on : j <= i) \in on
  BY <1>4
<1>7. (IF on = {} THEN ota ELSE q[CHOOSE i \in on : \A j \in on : j <= i][2]) \in BOOLEAN
  <2>1. CASE on = {}
    BY <1>5, <2>1
  <2>2. CASE on # {}
    <3> DEFINE k == CHOOSE i \in on : \A j \in on : j <= i
    <3>1. k \in on
      BY <1>6, <2>2
    <3> HIDE DEF k
    <3>2. q[k][2] \in BOOLEAN
      BY <1>3, <3>1
    <3> QED BY <2>2, <3>2, Zenon DEF k
  <2> QED BY <2>1, <2>2
<1> QED BY <1>7, Zenon DEF HttpOta, q, on

LEMMA InitInv == Init => Inv
<1> SUFFICES ASSUME Init PROVE Inv
  OBVIOUS
<1>1. PICK s \in Session, start \in Starts :
        u = [s EXCEPT !.screen = start[1], !.stack = start[2], !.boot = start[1] = "Language",
                      !.field = IF start[1] = "IpEdit" THEN "Gateway" ELSE @,
                      !.kbd = IF start[1] \in Editors THEN "full" ELSE "",
                      !.ssid = start[3], !.pw = start[3]]
  BY DEF Init
<1> DEFINE b == start[1] = "Language"
           f == IF start[1] = "IpEdit" THEN "Gateway" ELSE s.field
           k == IF start[1] \in Editors THEN "full" ELSE ""
           n == start[3]
           w == [s EXCEPT !.screen = start[1], !.stack = start[2], !.boot = b, !.field = f,
                          !.kbd = k, !.ssid = n, !.pw = n]
<1>2. u = w
  BY <1>1
<1>3. /\ start[1] \in ScreenId /\ start[1] # "Password" /\ start[2] \in Seq(Stackable)
      /\ Len(start[2]) <= StackCap
  BY NavigationAssumption DEF Stackable
<1>4. n \in Ssids
  BY DEF Ssids
<1>5. b \in BOOLEAN
  OBVIOUS
<1>6. s.field = "Dhcp"
  BY DEF Session
<1>7. f \in NetFields /\ k \in Texts
  BY <1>6 DEF NetFields, Texts
<1>8. NoCmd \in Commands /\ NoCmd.op = "none"
  BY DEF Commands, NoCmd
<1>9. s \in UI(found)
  <2>1. 0 \in 0..Cardinality(Servers)
    <3>1. Cardinality(Servers) \in Nat
      BY NavigationAssumption, FS_CardinalityType
    <3> QED BY <3>1
  <2>2. "Throttle" \in ScreenId /\ <<>> \in Seq(Stackable) /\ <<>> \in Seq(Allowed(found))
    BY DEF ScreenId, Others
  <2>3. "" \in Texts /\ "" \in Ssids /\ "DeadMan" \in Choices /\ "Dhcp" \in NetFields
    BY DEF Texts, Ssids, Choices, NetFields
  <2>4. /\ s.screen = "Throttle" /\ s.stack = <<>> /\ s.cmd = NoCmd /\ s.out = <<>> /\ s.fault = {}
        /\ s.overlay \in BOOLEAN /\ s.star = "off" /\ s.kbd = "" /\ s.page = 0 /\ s.choice = "DeadMan"
        /\ s.settings \in BOOLEAN /\ s.boot \in BOOLEAN /\ s.pending = 0 /\ s.proto = "WiThrottle"
        /\ s.digits = "" /\ s.fromList \in BOOLEAN /\ s.addr = "" /\ s.ssid = ""
        /\ s.fromScan \in BOOLEAN /\ s.pw = "" /\ s.save \in BOOLEAN /\ s.hash \in BOOLEAN
        /\ s.field = "Dhcp" /\ s.dhcp \in BOOLEAN
    BY DEF Session
  <2>5. s = [screen |-> s.screen, stack |-> s.stack, cmd |-> s.cmd, out |-> s.out,
             fault |-> s.fault, overlay |-> s.overlay, star |-> s.star, kbd |-> s.kbd,
             page |-> s.page, choice |-> s.choice, settings |-> s.settings, boot |-> s.boot,
             pending |-> s.pending, proto |-> s.proto, digits |-> s.digits,
             fromList |-> s.fromList, addr |-> s.addr, ssid |-> s.ssid,
             fromScan |-> s.fromScan, pw |-> s.pw, save |-> s.save, hash |-> s.hash,
             field |-> s.field, dhcp |-> s.dhcp]
    BY DEF Session
  <2>6. /\ s.screen \in ScreenId /\ s.stack \in Seq(Stackable) /\ s.cmd \in Commands
        /\ s.out \in Seq(Allowed(found)) /\ s.fault \in {{}}
    BY <1>8, <2>2, <2>4
  <2>7. s.page \in Nat /\ s.pending \in 0..Cardinality(Servers)
    <3>1. s.page = 0 /\ s.pending = 0
      BY <2>4
    <3>2. 0 \in Nat
      OBVIOUS
    <3> QED BY ONLY <2>1, <3>1, <3>2, Zenon
  <2>8. /\ s.star \in {"off", "started", "typed"} /\ s.kbd \in Texts /\ s.choice \in Choices
        /\ s.proto \in {"WiThrottle", "Z21"} /\ s.digits \in Texts /\ s.addr \in Texts
        /\ s.ssid \in Ssids /\ s.pw \in Ssids /\ s.field \in NetFields
    BY <2>3, <2>4
  <2> QED BY <2>4, <2>5, <2>6, <2>7, <2>8 DEF UI
<1>10. s.cmd = NoCmd /\ s.out = <<>>
  BY DEF Session
<1> HIDE DEF b, f, k, n
<1>11. w \in UI(found)
  BY <1>3, <1>4, <1>5, <1>7, <1>9 DEF UI
<1>12. /\ w.screen = start[1] /\ w.stack = start[2] /\ w.cmd = NoCmd /\ w.out = <<>>
       /\ w.ssid = n /\ w.pw = n
  BY <1>9, <1>10 DEF UI
<1> HIDE DEF w
<1>13. Len(w.out) <= MAX_INTENTS
  BY <1>12 DEF MAX_INTENTS
<1>14. Idle(w, found, MAX_INTENTS)
  BY <1>3, <1>8, <1>11, <1>12, <1>13 DEF Idle, Busy
<1>15. found \in Lists
  BY DEF Init, Lists
<1> QED BY <1>2, <1>14, <1>15 DEF Init, Inv, StopIsHeard

\* A key whose handler has run.
LEMMA BecomeInv ==
  ASSUME Inv, NEW v, Idle(v, found, MAX_INTENTS), Become(v), UNCHANGED <<board, found>>,
         demand' \in BOOLEAN, homing' \in BOOLEAN, demand' => Heard(v)
  PROVE  Inv'
<1>1. u' = v /\ ota' = HttpOta(v.out) /\ found' = found /\ board' = board
  BY DEF Become
<1>2. ota' \in BOOLEAN
  BY <1>1, OtaType
<1>3. Idle(u', found', MAX_INTENTS)
  BY <1>1
<1>4. StopIsHeard'
  BY <1>1 DEF StopIsHeard, Heard
<1> QED BY <1>1, <1>2, <1>3, <1>4 DEF Inv

LEMMA PressInv ==
  ASSUME Inv, NEW key \in Keys, Press(key)
  PROVE  Inv'
<1>1. PICK cx \in SnapshotsFor(u.screen), row \in RowsOf(u.screen) \cup {0}, text \in TextsOf(u.screen) :
         LET act == NavAction(key, KeyBindings(u.screen))
             a == [act |-> act, key |-> key, row |-> row, dir |-> Direction(key), text |-> text]
         IN  /\ Become(Handle(Fresh(u), cx, a))
             /\ demand' = (cx.loco /\ (key = "estop" \/ (key = "stop" /\ (u.overlay \/ u.screen = "Throttle"))))
  BY Zenon DEF Press
<1> DEFINE act == NavAction(key, KeyBindings(u.screen))
           a == [act |-> act, key |-> key, row |-> row, dir |-> Direction(key), text |-> text]
           v == Fresh(u)
           stop == key = "estop" \/ (key = "stop" /\ (u.overlay \/ u.screen = "Throttle"))
<1>2. cx \in Snap(found)
  BY SnapshotsAreSnap
<1>3. row \in Nat
  BY RowsAreNumbers
<1>4. text \in Texts /\ (u.screen = "Password" => text \in {"", u.ssid})
  BY TextsAreTexts
<1>5. act \in ActKinds
  BY NavActionType
<1>6. Direction(key) \in {"next", "prev", "none"}
  BY DEF Direction
<1>7. (key = "estop" \/ key = "stop") => act = "pass"
  BY StopPasses
<1> HIDE DEF act
<1>8. a \in Acts /\ a.text = text /\ a.act = act /\ a.key = key
  BY <1>3, <1>4, <1>5, <1>6 DEF Acts
<1>9. /\ Open(v, found) /\ v.screen = u.screen /\ v.ssid = u.ssid /\ v.overlay = u.overlay
      /\ v.out = <<>>
  BY FreshOk DEF Inv
<1> HIDE DEF a, v
<1>10. found \in Lists /\ UNCHANGED <<board, found>> /\ UNCHANGED homing /\ homing \in BOOLEAN
  BY DEF Inv, Press
<1>11. Idle(Handle(v, cx, a), found, MAX_INTENTS)
  BY <1>2, <1>4, <1>8, <1>9, <1>10, HandleOk
<1>12. Become(Handle(v, cx, a)) /\ demand' = (cx.loco /\ stop)
  BY <1>1, Zenon DEF a, act, v
<1>13. (cx.loco /\ stop) => Heard(Handle(v, cx, a))
  <2> SUFFICES ASSUME cx.loco, stop PROVE Heard(Handle(v, cx, a))
    OBVIOUS
  <2>1. a.act = "pass"
    BY <1>7, <1>8
  <2>2. a.key = "estop" \/ (a.key = "stop" /\ (v.overlay \/ v.screen = "Throttle"))
    BY <1>8, <1>9
  <2> QED BY <1>2, <1>9, <2>1, <2>2, StopHeard
<1>14. cx.loco \in BOOLEAN /\ u.overlay \in BOOLEAN
  BY <1>2 DEF Snap, Inv, Idle, Busy, UI
<1>15. (cx.loco /\ stop) \in BOOLEAN
  BY <1>14
<1> HIDE DEF stop
<1>16. demand' \in BOOLEAN /\ (demand' => Heard(Handle(v, cx, a)))
  BY <1>12, <1>13, <1>15, Zenon
<1> QED BY <1>10, <1>11, <1>12, <1>16, BecomeInv

LEMMA ReportInv ==
  ASSUME Inv, NEW e \in Events, Report(e)
  PROVE  Inv'
<1>1. PICK cx \in SnapshotsFor(u.screen) : Become(OnAppEvent(Fresh(u), cx, e))
  BY DEF Report
<1> DEFINE v == Fresh(u)
<1>2. cx \in Snap(found)
  BY SnapshotsAreSnap
<1>3. Open(v, found)
  BY FreshOk DEF Inv
<1> HIDE DEF v
<1>4. found \in Lists
  BY DEF Inv
<1>5. Idle(OnAppEvent(v, cx, e), found, MAX_INTENTS)
  BY <1>2, <1>3, <1>4, OnAppEventOk
<1>6. Become(OnAppEvent(v, cx, e))
  BY <1>1 DEF v
<1>7. demand' = FALSE /\ homing' \in BOOLEAN /\ UNCHANGED <<board, found>>
  BY DEF Report, Inv
<1> QED BY <1>5, <1>6, <1>7, BecomeInv

LEMMA PressBackInv ==
  ASSUME Inv, PressBack
  PROVE  Inv'
<1> DEFINE a == [act |-> "cancel", key |-> "back", row |-> 0, dir |-> "next", text |-> ""]
           v == Fresh(u)
<1>1. PICK cx \in SnapshotsFor(u.screen) : Become(Handle(v, cx, a))
  BY DEF PressBack
<1>2. cx \in Snap(found)
  BY SnapshotsAreSnap
<1>3. Open(v, found)
  BY FreshOk DEF Inv
<1>4. a \in Acts /\ a.text = ""
  BY DEF Acts, ActKinds, Texts
<1> HIDE DEF v, a
<1>5. found \in Lists
  BY DEF Inv
<1>6. Idle(Handle(v, cx, a), found, MAX_INTENTS)
  BY <1>2, <1>3, <1>4, <1>5, HandleOk
<1>7. demand' = FALSE /\ homing' \in BOOLEAN /\ UNCHANGED <<board, found>>
  BY DEF PressBack, Inv
<1> QED BY <1>1, <1>6, <1>7, BecomeInv

\* A step that only drops the intents of the last one.
LEMMA QuietInv ==
  ASSUME Inv, found' \in Lists, demand' = FALSE, homing' \in BOOLEAN, UNCHANGED <<board, ota>>,
         u' = Fresh(u) \/ u' = [Fresh(u) EXCEPT !.overlay = FALSE]
  PROVE  Inv'
<1> DEFINE v == Fresh(u)
<1>1. PICK list : list = found'
  OBVIOUS
<1>2. Open(v, list)
  BY FreshOk DEF Inv
<1> HIDE DEF v
<1>3. Open([v EXCEPT !.overlay = FALSE], list)
  BY <1>2, FieldOk DEF Open
<1>4. Idle(u', list, MAX_INTENTS)
  BY <1>2, <1>3, OpenIsIdle DEF v
<1>5. StopIsHeard'
  BY DEF StopIsHeard
<1>6. Idle(u', found', MAX_INTENTS)
  BY <1>1, <1>4
<1> QED BY <1>5, <1>6 DEF Inv

LEMMA NextInv == Inv /\ [Next]_vars => Inv'
<1> SUFFICES ASSUME Inv, [Next]_vars PROVE Inv'
  OBVIOUS
<1>1. CASE \E key \in Keys : Press(key)
  BY <1>1, PressInv
<1>2. CASE \E e \in Events : Report(e)
  BY <1>2, ReportInv
<1>3. CASE \E list \in Lists : FoundServers(list)
  BY <1>3, QuietInv DEF FoundServers, Inv
<1>4. CASE OverlayTimeout
  BY <1>4, QuietInv DEF OverlayTimeout, Inv
<1>5. CASE HeadHome
  BY <1>5, QuietInv DEF HeadHome, Inv
<1>6. CASE PressBack
  BY <1>6, PressBackInv
<1>7. CASE AtHome \/ UNCHANGED vars
  <2>1. /\ u' = u /\ board' = board /\ found' = found /\ ota' = ota /\ demand' = demand
        /\ homing' = homing
    BY <1>7 DEF AtHome, vars
  <2>2. Idle(u', found', MAX_INTENTS)
    BY <2>1 DEF Inv
  <2>3. StopIsHeard'
    BY <2>1 DEF StopIsHeard, Inv
  <2> QED BY <2>1, <2>2, <2>3 DEF Inv
<1> QED BY <1>1, <1>2, <1>3, <1>4, <1>5, <1>6, <1>7 DEF Next

LEMMA InvImplies ==
  ASSUME Inv
  PROVE  NoDebugAssert /\ PasswordMatchesSsid /\ SelectionExists /\ StopIsHeard
<1>1. u \in UI(found)
  BY DEF Inv, Idle, Busy
<1>2. u.fault = {} /\ u.screen \in ScreenId /\ u.stack \in Seq(Stackable)
      /\ u.pending \in 0..Cardinality(Servers) /\ u.out \in Seq(Allowed(found))
  BY <1>1 DEF UI
<1>3. Len(u.stack) <= StackCap /\ u.cmd = NoCmd /\ Len(u.out) <= MAX_INTENTS /\ u.pw \in {"", u.ssid}
  BY DEF Inv, Idle, Busy
<1>4. \A i \in DOMAIN u.stack : u.stack[i] \in ScreenId
  BY <1>2 DEF Stackable
<1>5. NoDebugAssert
  BY <1>2, <1>3, <1>4 DEF NoDebugAssert, TypeOK, Inv
<1>6. SelectionExists
  BY <1>2 DEF SelectionExists, Allowed
<1> QED BY <1>3, <1>5, <1>6 DEF PasswordMatchesSsid, Inv

LEMMA InvAlways == Spec => []Inv
<1>1. Init => Inv
  BY InitInv
<1>2. Inv /\ [Next]_vars => Inv'
  BY NextInv
<1> QED BY <1>1, <1>2, PTL DEF Spec

\* No handler issues two route commands or more intents than the queue holds,
\* and no chain of on_enter commands outlasts the four hops of Router::apply:
\* the debug assertions of nav.rs and router.rs never fail.
THEOREM NeverAsserts == Spec => []NoDebugAssert
<1>1. Inv => NoDebugAssert
  BY InvImplies
<1> QED BY <1>1, InvAlways, PTL

\* Whatever is typed, picked or scanned, a network is never joined with the
\* password of another.
THEOREM PasswordsAlwaysMatch == Spec => []PasswordMatchesSsid
<1>1. Inv => PasswordMatchesSsid
  BY InvImplies
<1> QED BY <1>1, InvAlways, PTL

\* A server is taken over from the list only while the list holds it.
THEOREM SelectionsAlwaysExist == Spec => []SelectionExists
<1>1. Inv => SelectionExists
  BY InvImplies
<1> QED BY <1>1, InvAlways, PTL

\* A stop pressed for a loco reaches the domain, also under an overlay.
THEOREM StopsAreHeard == Spec => []StopIsHeard
<1>1. Inv => StopIsHeard
  BY InvImplies
<1> QED BY <1>1, InvAlways, PTL
============================================================================
