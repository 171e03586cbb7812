------------------------- MODULE Connection_proof -------------------------
(***************************************************************************)
(* Proofs about the way to a running session.  ServerSession: type         *)
(* correctness, that a session is wrong about the server only where the    *)
(* operator chose unheard, and that the domain's catalogues and its saved  *)
(* server are those of the session.  Two components beside it, as          *)
(* instances: Startup, whose panel goes dark only over a handset that      *)
(* stands, and the types of Pairing.                                       *)
(***************************************************************************)
EXTENDS ServerSession, SequenceTheorems, TLAPS

LEMMA AsBigFredType ==
  ASSUME NEW ep \in Endpoint
  PROVE  AsBigFred(ep) \in Endpoint /\ AsBigFred(ep).ip = ep.ip
BY DEF AsBigFred, Endpoint, Protocol

LEMMA PersistedType == Persisted \subseteq Endpoint \cup {None}
BY SessionAssumption, AsBigFredType DEF Persisted

LEMMA LookType ==
  ASSUME TypeOK, NEW ep \in Endpoint \cup {None}, NEW last \in Endpoint \cup {None},
         Look(ep, last)
  PROVE  /\ uiConn' \in ConnState /\ uiServer' \in Endpoint \cup {None}
         /\ caps' \in Protocol \cup {None} /\ saved' \in Endpoint \cup {None}
<1>1. ep # None => ep.protocol \in Protocol
  BY DEF Endpoint
<1> QED BY <1>1 DEF TypeOK, Look

LEMMA ChooseType ==
  ASSUME TypeOK, NEW ep \in Endpoint \cup {None}, NEW last \in Endpoint \cup {None},
         Choose(ep, last)
  PROVE  TypeOK'
<1>1. /\ uiConn' \in ConnState /\ uiServer' \in Endpoint \cup {None}
      /\ caps' \in Protocol \cup {None} /\ saved' \in Endpoint \cup {None}
  BY LookType DEF Choose
<1>2. ops' \in 0..MaxOps
  BY SessionAssumption DEF TypeOK, Choose
<1> QED BY <1>1, <1>2 DEF TypeOK, Choose, Deaf

LEMMA InitType == Init => TypeOK
<1> SUFFICES ASSUME Init PROVE TypeOK
  OBVIOUS
<1>1. saved \in Endpoint \cup {None}
  BY PersistedType DEF Init
<1>2. ops \in 0..MaxOps /\ losses \in 0..MaxLosses
  BY SessionAssumption DEF Init
<1> QED BY <1>1, <1>2 DEF Init, TypeOK, Phase, ConnState

LEMMA NextType == TypeOK /\ [Next]_vars => TypeOK'
<1> SUFFICES ASSUME TypeOK, [Next]_vars PROVE TypeOK'
  OBVIOUS
<1> USE DEF watches, session, domain, history
<1>1. CASE Operator
  <2>1. Offered \subseteq Endpoint
    BY SessionAssumption
  <2>2. saved \in Endpoint \cup {None}
    BY DEF TypeOK
  <2> QED BY <1>1, <2>1, <2>2, ChooseType
        DEF Operator, ServerSelect, ServerReconnect, ServerDisconnect
<1>2. CASE DomainIteration
  <2>1. server \in Endpoint \cup {None} /\ saved \in Endpoint \cup {None}
    BY DEF TypeOK
  <2>2. /\ uiConn' \in ConnState /\ uiServer' \in Endpoint \cup {None}
        /\ caps' \in Protocol \cup {None} /\ saved' \in Endpoint \cup {None}
    BY <1>2, <2>1, LookType DEF DomainIteration
  <2> QED BY <1>2, <2>2 DEF DomainIteration, TypeOK
<1>3. CASE TakeServer
  <2>1. server \in Endpoint /\ server # None /\ server.ip \in Ips
    BY <1>3 DEF TakeServer, TypeOK, Endpoint
  <2>2. AsBigFred(server) \in Endpoint
    BY <2>1, AsBigFredType
  <2>3. target' \in Endpoint /\ server' = target'
    BY <1>3, <2>1, <2>2 DEF TakeServer
  <2>4. None \notin Endpoint
    BY SessionAssumption
  <2>5. /\ known' \in Ips \cup {None} /\ phase' \in Phase /\ conn' \in ConnState
        /\ unheard' \in BOOLEAN
    BY <1>3, <2>1 DEF TakeServer, TypeOK, Phase, ConnState
  <2> QED BY <1>3, <2>3, <2>4, <2>5 DEF TakeServer, TypeOK
<1>4. CASE ProbeMatches
  <2>1. target \in Endpoint /\ target.ip \in Ips /\ AsBigFred(target) \in Endpoint
    BY <1>4, AsBigFredType DEF ProbeMatches, TypeOK, Endpoint
  <2>2. None \notin Endpoint
    BY SessionAssumption
  <2> QED BY <1>4, <2>1, <2>2 DEF ProbeMatches, TypeOK, Phase
<1>5. CASE ProbeFails \/ Connect \/ Greeted \/ Retry
  BY <1>5 DEF ProbeFails, Connect, Greeted, Retry, TypeOK, Phase, ConnState
<1>6. CASE ServerChanged
  BY <1>6 DEF ServerChanged, End, TypeOK, Phase, ConnState
<1>7. CASE Fail
  <2>1. losses' \in 0..MaxLosses
    BY <1>7, SessionAssumption DEF Fail, TypeOK
  <2> QED BY <1>7, <2>1 DEF Fail, End, TypeOK, Phase, ConnState
<1>8. CASE UNCHANGED vars
  BY <1>8 DEF vars, TypeOK
<1> QED BY <1>1, <1>2, <1>3, <1>4, <1>5, <1>6, <1>7, <1>8 DEF Next, Session

(* Every value of the two watches, of the session and of the domain is of  *)
(* its type, and the session never works on a server that was not selected *)
(* (phase # "waiting" => target # None), for any servers and any number of *)
(* selections and losses.                                                  *)
THEOREM TypeCorrect == Spec => []TypeOK
<1>1. Init => TypeOK
  BY InitType
<1>2. TypeOK /\ [Next]_vars => TypeOK'
  BY NextType
<1> QED BY <1>1, <1>2, PTL DEF Spec

-----------------------------------------------------------------------------

\* Until it runs, a session that has missed nothing works on the selection.
Attentive == Deaf /\ ~unheard => server = target

LEMMA InitAttentive == Init => Attentive /\ SessionIsCurrent
BY DEF Init, Attentive, Deaf, SessionIsCurrent

LEMMA NextAttentive ==
  Attentive /\ SessionIsCurrent /\ [Next]_vars => Attentive' /\ SessionIsCurrent'
<1> SUFFICES ASSUME Attentive, SessionIsCurrent, [Next]_vars
             PROVE  Attentive' /\ SessionIsCurrent'
  OBVIOUS
<1> USE DEF Attentive, SessionIsCurrent, Deaf, watches, session, domain, history
\* A choice is heard through fresh, or marked as unheard.
<1>1. ASSUME NEW ep, NEW last, Choose(ep, last) PROVE Attentive' /\ SessionIsCurrent'
  BY <1>1 DEF Choose
<1>2. CASE Operator
  BY <1>1, <1>2 DEF Operator, ServerSelect, ServerReconnect, ServerDisconnect
<1>3. CASE DomainIteration
  BY <1>3 DEF DomainIteration
\* What the session takes, or finds out, it writes back to SERVER.
<1>4. CASE TakeServer \/ ProbeMatches
  BY <1>4 DEF TakeServer, ProbeMatches
<1>5. CASE ProbeFails \/ Connect
  BY <1>5 DEF ProbeFails, Connect
\* Taking SERVER for seen is sound, for it is still what was connected to.
<1>6. CASE Greeted
  BY <1>6 DEF Greeted
<1>7. CASE ServerChanged \/ Fail \/ Retry
  BY <1>7 DEF ServerChanged, Fail, Retry, End
<1>8. CASE UNCHANGED vars
  BY <1>8 DEF vars
<1> QED BY <1>2, <1>3, <1>4, <1>5, <1>6, <1>7, <1>8 DEF Next, Session

(* A running session that works on another server than the selected one    *)
(* has a change of SERVER left to hear, except where the operator chose    *)
(* while it was probing, connecting or greeting.                           *)
THEOREM SessionKeepsUp == Spec => []SessionIsCurrent
<1>1. Init => Attentive /\ SessionIsCurrent
  BY InitAttentive
<1>2. Attentive /\ SessionIsCurrent /\ [Next]_vars => Attentive' /\ SessionIsCurrent'
  BY NextAttentive
<1> QED BY <1>1, <1>2, PTL DEF Spec
-----------------------------------------------------------------------------

(* The domain's last look and the session's place in its loop: CONN says   *)
(* Connected exactly while a session lives, the domain has forgotten the   *)
(* last one before the next is tried (the guard of Retry), and once it has *)
(* seen this one it has loaded its catalogues and saved its server.        *)
Linked ==
  /\ conn = "Connected" <=> phase \in {"greeting", "running"}
  /\ phase \in {"waiting", "probing", "connecting"} => uiConn # "Connected"
  /\ conn = "Connected" /\ uiConn = "Connected" =>
       /\ uiServer = server
       /\ server # None => caps = server.protocol /\ saved = server

LEMMA InitLinked == Init => Linked
BY DEF Init, Linked

LEMMA NextLinked == Linked /\ [Next]_vars => Linked'
<1> SUFFICES ASSUME Linked, [Next]_vars PROVE Linked'
  OBVIOUS
<1> USE DEF Linked, watches, session, domain, history
\* A choice is seen by the domain at once, and is saved unless it is none.
<1>1. CASE Operator
  BY <1>1 DEF Operator, ServerSelect, ServerReconnect, ServerDisconnect, Choose, Look, Connected
<1>2. CASE DomainIteration
  BY <1>2 DEF DomainIteration, Look, Connected
\* The session writes SERVER only while the domain does not see Connected.
<1>3. CASE TakeServer \/ ProbeMatches
  BY <1>3 DEF TakeServer, ProbeMatches
<1>4. CASE ProbeFails \/ Connect \/ Greeted
  BY <1>4 DEF ProbeFails, Connect, Greeted
<1>5. CASE ServerChanged \/ Fail
  BY <1>5 DEF ServerChanged, Fail, End
<1>6. CASE Retry
  BY <1>6 DEF Retry
<1>7. CASE UNCHANGED vars
  BY <1>7 DEF vars
<1> QED BY <1>1, <1>2, <1>3, <1>4, <1>5, <1>6, <1>7 DEF Next, Session

LEMMA LinkedMatches == TypeOK /\ Linked => DomainMatchesSession
<1> SUFFICES ASSUME TypeOK, Linked, phase = "running", Current, server = target
             PROVE  caps = target.protocol /\ saved = target
  BY DEF DomainMatchesSession
<1>1. target # None
  BY DEF TypeOK
<1> QED BY <1>1 DEF Linked, Current

(* While a session runs with the selected server and the domain has seen   *)
(* it, the catalogues are those of the protocol the session speaks and     *)
(* that server is what the next boot reconnects to, however the server was *)
(* classified and whatever the domain missed in between.                   *)
THEOREM DomainFollowsSession == Spec => []DomainMatchesSession
<1>1. Init => TypeOK /\ Linked
  BY InitType, InitLinked
<1>2. TypeOK /\ Linked /\ [Next]_vars => TypeOK' /\ Linked'
  BY NextType, NextLinked
<1>3. TypeOK /\ Linked => DomainMatchesSession
  BY LinkedMatches
<1> QED BY <1>1, <1>2, <1>3, PTL DEF Spec

---------------------------------------------------------------------------
(* Startup: the handset before and beside the session.  Its module stands  *)
(* on its own, so it is an instance with variables of its own (CONN is     *)
(* only whether it is Connected), and what it assumes of its constants is  *)
(* the hypothesis Fits.                                                    *)

CONSTANTS Credentials, Accepted, CtrlDepth, MaxDrops, Handsets, MaxServerUps

VARIABLES
  station, ctrl, net, link, watching, scan, drops,
  d, connected, idle, mode, sleeping, track, keys, ups

Boot == INSTANCE Startup WITH conn <- connected

Radio == INSTANCE Wifi

Fits == Radio!WifiAssumption /\ Boot!StartupAssumption

LEMMA Bounds ==
  Fits => CtrlDepth \in Nat \ {0} /\ MaxDrops \in Nat /\ MaxServerUps \in Nat
<1>1. Radio!WifiAssumption => CtrlDepth \in Nat \ {0} /\ MaxDrops \in Nat
  BY DEF Radio!WifiAssumption
<1>2. Boot!StartupAssumption => MaxServerUps \in Nat
  BY DEF Boot!StartupAssumption
<1> QED BY <1>1, <1>2 DEF Fits

Credential == Credentials \cup {None}

\* The locals of the loop in the middle of a turn.
Loop ==
    [screen : Boot!Screens, under : BOOLEAN, boot : Boot!BootWait, phase : BOOLEAN,
     saw : BOOLEAN, seen : {"Disconnected", "Connecting", "WifiConnected", "Ready"},
     conn : BOOLEAN, sel : Credential, pend : BOOLEAN,
     lang : BOOLEAN, creds : Credential, server : BOOLEAN,
     srv : BOOLEAN, weak : BOOLEAN, oled : BOOLEAN, usb : BOOLEAN, blanked : BOOLEAN,
     sleepReq : BOOLEAN, moving : BOOLEAN, sent : Seq(Boot!Commands), signal : BOOLEAN]

\* A dark panel stands still, and what moves for the server moves for the handset.
Still(l) == l.blanked => ~l.moving

Inv ==
    /\ Boot!TypeOK
    /\ Still(d)
    /\ mode = "run" /\ track => d.moving
    /\ d.blanked => mode = "run"

---------------------------------------------------------------------------
(* The parts of a turn.                                                    *)

\* w differs from l in nothing that the panel looks at.
Alike(w, l) ==
    w \in Loop /\ w.moving = l.moving /\ w.blanked = l.blanked /\ w.signal = l.signal

LEMMA LoopFields ==
  ASSUME NEW l \in Loop
  PROVE  /\ l.blanked \in BOOLEAN /\ l.moving \in BOOLEAN /\ l.signal \in BOOLEAN
         /\ l.conn \in BOOLEAN /\ l.saw \in BOOLEAN /\ l.pend \in BOOLEAN
         /\ l.sel \in Credential /\ l.creds \in Credential
         /\ l.screen \in Boot!Screens /\ l.sent \in Seq(Boot!Commands)
BY DEF Loop

LEMMA Shown ==
  ASSUME NEW l \in Loop, NEW s \in Boot!Screens
  PROVE  Alike([l EXCEPT !.screen = s], l)
BY DEF Loop, Alike

LEMMA Booted ==
  ASSUME NEW l \in Loop, NEW b \in Boot!BootWait, NEW p \in BOOLEAN
  PROVE  Alike([l EXCEPT !.boot = b, !.phase = p], l)
BY DEF Loop, Alike

LEMMA Driven ==
  ASSUME NEW l \in Loop, NEW m \in BOOLEAN
  PROVE  /\ [l EXCEPT !.moving = m] \in Loop
         /\ [l EXCEPT !.moving = m].moving = m /\ [l EXCEPT !.moving = m].blanked = l.blanked
BY DEF Loop

LEMMA Blanked ==
  ASSUME NEW l \in Loop, NEW b \in BOOLEAN
  PROVE  /\ [l EXCEPT !.blanked = b] \in Loop
         /\ [l EXCEPT !.blanked = b].blanked = b /\ [l EXCEPT !.blanked = b].moving = l.moving
BY DEF Loop

LEMMA EmitAlike ==
  ASSUME NEW l \in Loop, NEW c \in Boot!Commands
  PROVE  Alike(Boot!Emit(l, c), l)
BY DEF Boot!Emit, Loop, Alike

LEMMA ScanningAlike ==
  ASSUME NEW l \in Loop
  PROVE  Alike(Boot!Scanning(l), l)
<1>1. Alike([l EXCEPT !.screen = "SsidScanning"], l)
  BY Shown DEF Boot!Screens, Boot!Wizard
<1>2. <<"Scan">> \in Boot!Commands
  BY DEF Boot!Commands
<1> QED BY <1>1, <1>2, EmitAlike DEF Boot!Scanning, Alike

LEMMA ConnectAlike ==
  ASSUME NEW l \in Loop
  PROVE  Alike(Boot!Connect(l), l)
<1>1. l.sel # None => <<"Connect", l.sel>> \in Boot!Commands
  BY LoopFields DEF Boot!Commands, Credential
<1> QED BY <1>1, EmitAlike DEF Boot!Connect, Alike

LEMMA BeginWifiSetupAlike ==
  ASSUME NEW l \in Loop
  PROVE  Alike(Boot!BeginWifiSetup(l), l)
<1> DEFINE a == [l EXCEPT !.screen = "Connecting", !.under = FALSE, !.sel = l.creds,
                          !.boot = "WifiConnect", !.phase = TRUE, !.saw = FALSE]
           b == [l EXCEPT !.boot = "Done", !.phase = FALSE]
<1>1. Alike(a, l)
  BY ZenonT(90) DEF Loop, Boot!Screens, Boot!Wizard, Boot!BootWait, Alike
<1>2. Alike(b, l)
  BY Booted DEF Boot!BootWait
<1> HIDE DEF a, b
<1>3. Boot!BeginWifiSetup(l) = IF l.creds # None THEN Boot!Connect(a) ELSE Boot!Scanning(b)
  BY DEF Boot!BeginWifiSetup, a, b
<1> QED BY <1>1, <1>2, <1>3, ConnectAlike, ScanningAlike DEF Alike

\* What the operator does with a lit panel.
LEMMA HandleType ==
  ASSUME Fits, NEW l \in Loop, l.screen # "Splash", NEW h \in Boot!Handle(l)
  PROVE  h \in Loop /\ h.blanked = l.blanked
<1>1. CASE l.screen = "List"
  <2>1. h \in Boot!OnList(l)
    BY <1>1 DEF Boot!Handle
  <2>2. CASE h = Boot!Emit(Boot!Scanning(l), <<"Scan">>)
    BY <2>2, ScanningAlike, EmitAlike DEF Boot!Commands, Alike
  <2>3. ASSUME NEW n \in Boot!Networks,
               h = [l EXCEPT !.screen = "Password", !.under = TRUE, !.sel = Boot!PickSsid(l, n)]
        PROVE  h \in Loop /\ h.blanked = l.blanked
    <3>1. Boot!PickSsid(l, n) \in Credential
      BY LoopFields DEF Fits, Boot!StartupAssumption, Boot!PickSsid, Boot!Networks, Credential
    <3> QED BY <2>3, <3>1 DEF Loop, Boot!Screens, Boot!Wizard
  <2> QED BY <2>1, <2>2, <2>3 DEF Boot!OnList
<1>2. CASE l.screen = "Password"
  <2>1. h \in Boot!OnPassword(l)
    BY <1>2 DEF Boot!Handle
  <2>2. ASSUME NEW c \in Credentials,
               h = Boot!Connect([l EXCEPT !.screen = "Connecting", !.sel = c,
                                     !.pend = @ \/ c[2] # ""])
        PROVE  h \in Loop /\ h.blanked = l.blanked
    <3> DEFINE p == l.pend \/ c[2] # ""
               a == [l EXCEPT !.screen = "Connecting", !.sel = c, !.pend = p]
    <3>1. p \in BOOLEAN
      OBVIOUS
    <3> HIDE DEF p
    <3>2. a \in Loop /\ a.blanked = l.blanked
      BY <3>1 DEF Credential, Loop, Boot!Screens, Boot!Wizard
    <3> HIDE DEF a
    <3>3. h = Boot!Connect(a)
      BY <2>2 DEF a, p
    <3> QED BY <3>2, <3>3, ConnectAlike DEF Alike
  <2>3. CASE h = [l EXCEPT !.screen = "List"]
    BY <2>3, Shown DEF Boot!Screens, Boot!Wizard, Alike
  <2> QED BY <2>1, <2>2, <2>3 DEF Boot!OnPassword
<1>3. CASE l.screen \in {"SsidScanning", "WifiFailed", "Connecting"}
  <2>1. h = l \/ h = [l EXCEPT !.screen = "List"]
    BY <1>3 DEF Boot!Handle
  <2>2. CASE h = l
    BY <2>2
  <2>3. CASE h = [l EXCEPT !.screen = "List"]
    BY <2>3, Shown DEF Boot!Screens, Boot!Wizard, Alike
  <2> QED BY <2>1, <2>2, <2>3
<1>4. CASE l.screen = "ServerList"
  <2>1. h \in Boot!OnServerList(l)
    BY <1>4 DEF Boot!Handle
  <2>2. CASE h = [l EXCEPT !.screen = "Throttle", !.server = TRUE, !.srv = TRUE]
    BY <2>2 DEF Loop, Boot!Screens
  <2>3. CASE h = [l EXCEPT !.screen = "List"]
    BY <2>3, Shown DEF Boot!Screens, Boot!Wizard, Alike
  <2> QED BY <2>1, <2>2, <2>3 DEF Boot!OnServerList
<1>5. CASE l.screen = "Throttle"
  <2>1. h \in Boot!OnThrottle(l)
    BY <1>5 DEF Boot!Handle
  <2>2. CASE h = [l EXCEPT !.moving = @ \/ l.conn]
    <3>1. (l.moving \/ l.conn) \in BOOLEAN
      OBVIOUS
    <3> QED BY <2>2, <3>1, Driven
  <2>3. CASE h = [l EXCEPT !.moving = FALSE]
    BY <2>3, Driven
  <2>4. CASE h = [l EXCEPT !.screen = "List", !.under = TRUE]
    BY <2>4 DEF Loop, Boot!Screens, Boot!Wizard
  <2>5. CASE h = [Boot!EStop(l) EXCEPT !.signal = TRUE]
    BY <2>5 DEF Boot!EStop, Loop
  <2> QED BY <2>1, <2>2, <2>3, <2>4, <2>5 DEF Boot!OnThrottle
<1>6. CASE l.screen = "Language"
  <2>1. h = Boot!BeginWifiSetup([l EXCEPT !.lang = TRUE])
    BY <1>6 DEF Boot!Handle
  <2>2. Alike([l EXCEPT !.lang = TRUE], l)
    BY DEF Loop, Alike
  <2> QED BY <2>1, <2>2, BeginWifiSetupAlike DEF Alike
<1> QED BY <1>1, <1>2, <1>3, <1>4, <1>5, <1>6, LoopFields DEF Boot!Screens, Boot!Wizard

LEMMA KeyArmType ==
  ASSUME Fits, NEW l \in Loop, NEW key, key # "estop" => l.screen # "Splash" /\ ~l.blanked,
         NEW h \in Boot!KeyArm(l, key)
  PROVE  h \in Loop /\ ~h.blanked /\ (key = "estop" => ~h.moving)
<1>1. CASE key = "estop"
  <2>1. h = Boot!EStop([l EXCEPT !.blanked = FALSE])
    BY <1>1 DEF Boot!KeyArm
  <2> QED BY <2>1, Blanked, Driven DEF Boot!EStop
<1>2. CASE key # "estop"
  <2>1. PICK g \in Boot!Handle(l) : h = IF g.screen = "ServerList" /\ g.boot # "ServerConnect"
                                   THEN [g EXCEPT !.boot = "Done", !.phase = FALSE] ELSE g
    BY <1>2 DEF Boot!KeyArm
  <2>2. g \in Loop /\ ~g.blanked
    BY <1>2, HandleType
  <2>3. Alike([g EXCEPT !.boot = "Done", !.phase = FALSE], g)
    BY <2>2, Booted DEF Boot!BootWait
  <2> QED BY <1>2, <2>1, <2>2, <2>3 DEF Alike
<1> QED BY <1>1, <1>2

LEMMA FailAlike ==
  ASSUME NEW l \in Loop
  PROVE  Alike(Boot!Fail(l), l)
BY DEF Boot!Fail, Alike, Loop, Boot!BootWait, Boot!Screens, Boot!Wizard

LEMMA PhaseArmAlike ==
  ASSUME NEW l \in Loop
  PROVE  Alike(Boot!PhaseArm(l), l)
<1>1. CASE l.boot = "Splash" /\ l.lang
  BY <1>1, BeginWifiSetupAlike DEF Boot!PhaseArm
<1>2. CASE l.boot = "Splash" /\ ~l.lang
  <2>1. Alike([l EXCEPT !.screen = "Language", !.boot = "Language", !.phase = FALSE], l)
    BY DEF Alike, Loop, Boot!Screens, Boot!BootWait
  <2> QED BY <1>2, <2>1 DEF Boot!PhaseArm
<1>3. CASE l.boot = "WifiFailed"
  <2>1. Alike([l EXCEPT !.boot = "Done", !.phase = FALSE], l)
    BY Booted DEF Boot!BootWait
  <2> QED BY <1>3, <2>1, ScanningAlike DEF Boot!PhaseArm, Alike
<1>4. CASE l.boot = "WifiConnect"
  BY <1>4, FailAlike DEF Boot!PhaseArm
<1>5. CASE l.boot = "ServerConnect"
  <2>1. Alike([l EXCEPT !.phase = FALSE], l)
    BY DEF Alike, Loop
  <2> QED BY <1>5, <2>1 DEF Boot!PhaseArm
<1>6. CASE l.boot \notin {"Splash", "WifiFailed", "WifiConnect", "ServerConnect"}
  <2>1. Boot!PhaseArm(l) = l
    BY <1>6 DEF Boot!PhaseArm
  <2> QED BY <2>1 DEF Alike
<1> QED BY <1>1, <1>2, <1>3, <1>4, <1>5, <1>6

\* The panel goes dark when nothing moves, and the sleep request stops what does.
LEMMA TickArmType ==
  ASSUME NEW l \in Loop, NEW expired \in BOOLEAN, Still(l)
  PROVE  /\ Boot!TickArm(l, expired) \in Loop /\ Still(Boot!TickArm(l, expired))
         /\ Boot!TickArm(l, expired).moving => l.moving
<1> DEFINE a == IF expired THEN Boot!PhaseArm(l) ELSE l
           b == Boot!BlankArm(a)
<1>1. a \in Loop /\ a.moving = l.moving /\ Still(a)
  BY PhaseArmAlike DEF Still, Alike
<1> HIDE DEF a
<1>2. b \in Loop /\ b.moving = a.moving /\ Still(b)
  <2>1. b = a \/ b = [a EXCEPT !.blanked = FALSE]
          \/ (~a.moving /\ b = [a EXCEPT !.blanked = TRUE])
    BY DEF Boot!BlankArm, Boot!Parked
  <2> QED BY <1>1, <2>1, Blanked DEF Still
<1> HIDE DEF b
<1>3. Boot!SleepArm(b) \in Loop /\ (Boot!SleepArm(b).moving => b.moving) /\ Still(Boot!SleepArm(b))
  <2> DEFINE s == Boot!EStop([b EXCEPT !.blanked = FALSE, !.sleepReq = TRUE, !.signal = TRUE])
  <2>1. s \in Loop /\ s.moving = FALSE
    BY ZenonT(90), <1>2 DEF Boot!EStop, Loop
  <2>2. Boot!SleepArm(b) = s \/ Boot!SleepArm(b) = b
    BY DEF Boot!SleepArm
  <2> QED BY <1>2, <2>1, <2>2 DEF Still
<1>4. Boot!TickArm(l, expired) = Boot!SleepArm(b)
  BY DEF Boot!TickArm, a, b
<1> QED BY <1>1, <1>2, <1>3, <1>4

LEMMA NetArmAlike ==
  ASSUME Boot!TypeOK, NEW l \in Loop
  PROVE  Alike(Boot!NetArm(l), l)
<1> DEFINE saw == l.saw \/ net = "Connecting"
           w == [l EXCEPT !.seen = net, !.saw = saw]
           k == [w EXCEPT !.pend = FALSE, !.creds = l.sel]
           r == IF Boot!Takes(l) THEN k ELSE w
<1>1. saw \in BOOLEAN /\ net \in {"Disconnected", "Connecting", "WifiConnected", "Ready"}
  BY DEF Boot!TypeOK, Boot!WifiTypeOK
<1>2. Boot!NetArm(l) = IF net = l.seen THEN l
                  ELSE IF net = "Ready" THEN Boot!ReadyArm(r)
                  ELSE IF net = "Disconnected" /\ w.boot = "WifiConnect" /\ w.saw THEN Boot!Fail(w)
                  ELSE w
  BY DEF Boot!NetArm
<1> HIDE DEF saw
<1>3. Alike(w, l)
  BY <1>1 DEF Alike, Loop
<1> HIDE DEF w
<1>4. Alike(k, l)
  BY ZenonT(90), <1>3, LoopFields DEF Alike, Loop
<1> HIDE DEF k
<1>5. Alike(r, l)
  BY <1>3, <1>4
<1> HIDE DEF r
<1>6. Alike(Boot!ReadyArm(r), l)
  <2> DEFINE x == [r EXCEPT !.screen = "Connecting", !.srv = TRUE,
                            !.boot = "ServerConnect", !.phase = TRUE]
             y == [r EXCEPT !.screen = "ServerList", !.boot = "Done", !.phase = FALSE]
  <2>1. Alike(x, l)
    BY ZenonT(90), <1>5 DEF Alike, Loop, Boot!Screens, Boot!Wizard, Boot!BootWait
  <2>2. Alike(y, l)
    BY ZenonT(90), <1>5 DEF Alike, Loop, Boot!Screens, Boot!BootWait
  <2>3. Boot!ReadyArm(r) \in {r, x, y}
    BY DEF Boot!ReadyArm
  <2> QED BY <1>5, <2>1, <2>2, <2>3
<1>7. Alike(Boot!Fail(w), l)
  BY <1>3, FailAlike DEF Alike
<1>8. Alike(l, l)
  BY DEF Alike
<1> QED BY <1>2, <1>3, <1>6, <1>7, <1>8

LEMMA ConnArmAlike ==
  ASSUME Boot!TypeOK, NEW l \in Loop
  PROVE  Alike(Boot!ConnArm(l), l)
<1> DEFINE w == [l EXCEPT !.conn = connected]
           s == IF w.screen \in {"Connecting", "ServerList"} THEN "Throttle" ELSE w.screen
           x == [w EXCEPT !.boot = "Done", !.phase = FALSE, !.screen = s]
<1>1. Boot!ConnArm(l) \in {w, x}
  BY DEF Boot!ConnArm
<1>2. Alike(w, l)
  BY DEF Boot!TypeOK, Alike, Loop
<1> HIDE DEF w
<1>3. s \in Boot!Screens
  BY <1>2, LoopFields DEF Alike, Boot!Screens
<1> HIDE DEF s
<1>4. Alike(x, l)
  BY ZenonT(90), <1>2, <1>3 DEF Alike, Loop, Boot!BootWait
<1> QED BY <1>1, <1>2, <1>4

LEMMA PollArmsAlike ==
  ASSUME Boot!TypeOK, NEW l \in Loop
  PROVE  Alike(Boot!ScanArm(Boot!ConnArm(Boot!NetArm(l))), l)
<1>1. ASSUME NEW v \in Loop PROVE Alike(Boot!ScanArm(v), v)
  <2>1. Boot!ScanArm(v) = v \/ Boot!ScanArm(v) = [v EXCEPT !.screen = "List"]
    BY DEF Boot!ScanArm
  <2>2. Alike(v, v)
    BY DEF Alike
  <2>3. Alike([v EXCEPT !.screen = "List"], v)
    BY Shown DEF Boot!Screens, Boot!Wizard
  <2> QED BY <2>1, <2>2, <2>3
<1>2. Alike(Boot!NetArm(l), l)
  BY NetArmAlike
<1>3. Alike(Boot!ConnArm(Boot!NetArm(l)), Boot!NetArm(l))
  BY <1>2, ConnArmAlike DEF Alike
<1>4. Alike(Boot!ScanArm(Boot!ConnArm(Boot!NetArm(l))), Boot!ConnArm(Boot!NetArm(l)))
  BY <1>1, <1>3 DEF Alike
<1> QED BY <1>2, <1>3, <1>4 DEF Alike

LEMMA TrySendType ==
  ASSUME Fits, NEW q \in Seq(Boot!Commands), NEW r \in Seq(Boot!Commands)
  PROVE  Boot!TrySend(q, r) \in Seq(Boot!Commands) /\ Len(Boot!TrySend(q, r)) <= CtrlDepth
<1>1. q \o r \in Seq(Boot!Commands) /\ CtrlDepth \in Nat \ {0}
  BY Bounds
<1>2. CASE Len(q \o r) <= CtrlDepth
  BY <1>1, <1>2 DEF Boot!TrySend
<1>3. CASE Len(q \o r) > CtrlDepth
  <2>1. SubSeq(q \o r, 1, CtrlDepth) \in Seq(Boot!Commands)
        /\ Len(SubSeq(q \o r, 1, CtrlDepth)) = CtrlDepth
    BY <1>1, <1>3, SubSeqProperties
  <2> QED BY <1>1, <1>3, <2>1 DEF Boot!TrySend
<1> QED BY <1>1, <1>2, <1>3

---------------------------------------------------------------------------
(* The invariant.                                                          *)

\* Between two turns nothing waits to be sent.
Rests(l) == l \in Loop /\ l.sent = <<>> /\ l.signal = FALSE

Locals ==
    [screen : Boot!Screens, under : BOOLEAN, boot : Boot!BootWait, phase : BOOLEAN,
     saw : BOOLEAN, seen : {"Disconnected", "Connecting", "WifiConnected", "Ready"},
     conn : BOOLEAN, sel : Credential, pend : BOOLEAN,
     lang : BOOLEAN, creds : Credential, server : BOOLEAN,
     srv : BOOLEAN, weak : BOOLEAN, oled : BOOLEAN, usb : BOOLEAN, blanked : BOOLEAN,
     sleepReq : BOOLEAN, moving : BOOLEAN, sent : {<<>>}, signal : {FALSE}]

LEMMA RestsIs ==
  ASSUME NEW l
  PROVE  l \in Locals <=> Rests(l)
<1>1. ASSUME l \in Locals PROVE Rests(l)
  <2>1. <<>> \in Seq(Boot!Commands) /\ FALSE \in BOOLEAN
    OBVIOUS
  <2>2. l.sent = <<>>
    BY <1>1 DEF Locals
  <2>3. l.signal = FALSE
    BY <1>1 DEF Locals
  <2>4. l \in Loop
    BY <1>1, <2>1, <2>2, <2>3 DEF Locals, Loop
  <2> QED BY <2>2, <2>3, <2>4 DEF Rests
<1>2. ASSUME Rests(l) PROVE l \in Locals
  BY <1>2 DEF Locals, Rests, Loop
<1> QED BY <1>1, <1>2

Rest ==
    /\ Boot!WifiTypeOK /\ Rests(d)
    /\ connected \in BOOLEAN /\ sleeping \in BOOLEAN /\ track \in BOOLEAN
    /\ idle \in 0..2
    /\ mode \in {"run", "asleep", "programming"}
    /\ keys \in Nat /\ ups \in 0..MaxServerUps

LEMMA TypeIs == (Boot!TypeOK <=> Rest) /\ (Boot!TypeOK' <=> Rest')
<1>1. Boot!TypeOK <=> Rest
  <2>1. Boot!TypeOK <=> /\ Boot!WifiTypeOK /\ d \in Locals
                   /\ connected \in BOOLEAN /\ sleeping \in BOOLEAN /\ track \in BOOLEAN
                   /\ idle \in 0..2
                   /\ mode \in {"run", "asleep", "programming"}
                   /\ keys \in Nat /\ ups \in 0..MaxServerUps
    BY DEF Boot!TypeOK, Locals, Credential
  <2>2. d \in Locals <=> Rests(d)
    BY RestsIs
  <2> QED BY <2>1, <2>2 DEF Rest
<1> QED BY <1>1, PTL

\* A turn that goes on with l, as its arm left it.
LEMMA PollsInv ==
  ASSUME Fits, Inv, mode = "run", NEW l \in Loop, NEW stopped \in BOOLEAN, Still(l),
         stopped => ~l.moving, Boot!Polls(l, stopped)
  PROVE  /\ Boot!WifiTypeOK' /\ Rests(d')
         /\ sleeping' \in BOOLEAN /\ track' \in BOOLEAN /\ connected' \in BOOLEAN
         /\ Still(d') /\ (track' => d'.moving)
<1> DEFINE e == Boot!ScanArm(Boot!ConnArm(Boot!NetArm(l)))
<1>1. e \in Loop /\ e.moving = l.moving /\ e.blanked = l.blanked
  BY PollArmsAlike DEF Inv, Alike
<1>2. /\ d' = [e EXCEPT !.sent = <<>>, !.signal = FALSE]
      /\ ctrl' = Boot!TrySend(ctrl, e.sent)
      /\ scan' = FALSE
      /\ sleeping' = (sleeping \/ e.signal)
      /\ track' = IF stopped \/ e.moving # d.moving THEN e.moving ELSE track
      /\ UNCHANGED <<station, net, link, watching, drops, connected>>
  BY DEF Boot!Polls
<1> HIDE DEF e
<1>3. Rests(d') /\ d'.moving = e.moving /\ d'.blanked = e.blanked
  <2>1. <<>> \in Seq(Boot!Commands)
    OBVIOUS
  <2> QED BY <1>1, <1>2, <2>1 DEF Loop, Rests
<1>4. Boot!WifiTypeOK'
  <2>1. ctrl' \in Seq(Boot!Commands) /\ Len(ctrl') <= CtrlDepth
    BY <1>1, <1>2, TrySendType, LoopFields DEF Inv, Boot!TypeOK, Boot!WifiTypeOK
  <2> QED BY <1>2, <2>1 DEF Inv, Boot!TypeOK, Boot!WifiTypeOK
<1>5. sleeping' \in BOOLEAN /\ connected' \in BOOLEAN
  BY <1>1, <1>2, LoopFields DEF Inv, Boot!TypeOK
<1>6. track' \in BOOLEAN
  BY <1>1, <1>2, LoopFields DEF Inv, Boot!TypeOK
<1>7. track' => d'.moving
  BY <1>2, <1>3 DEF Inv
<1>8. Still(d')
  BY <1>1, <1>3 DEF Still
<1> QED BY <1>3, <1>4, <1>5, <1>6, <1>7, <1>8

Setting(h) ==
    /\ h.lang \in BOOLEAN /\ h.server \in BOOLEAN /\ h.creds \in Credential
    /\ h.oled \in BOOLEAN /\ h.usb \in BOOLEAN /\ h.weak \in BOOLEAN

LEMMA PowerOnRests ==
  ASSUME NEW h, Setting(h)
  PROVE  /\ Rests(Boot!PowerOn(h))
         /\ Boot!PowerOn(h).moving = FALSE /\ Boot!PowerOn(h).blanked = FALSE
<1>1. <<>> \in Seq(Boot!Commands)
  OBVIOUS
<1>2. Boot!PowerOn(h) \in Loop
  BY <1>1 DEF Setting, Boot!PowerOn, Loop, Boot!Screens, Boot!BootWait, Credential
<1>3. /\ Boot!PowerOn(h).sent = <<>> /\ Boot!PowerOn(h).signal = FALSE
      /\ Boot!PowerOn(h).moving = FALSE /\ Boot!PowerOn(h).blanked = FALSE
  BY DEF Boot!PowerOn
<1> QED BY <1>2, <1>3 DEF Rests

LEMMA WifiStarts ==
  ASSUME Fits, NEW q \in Seq(Boot!Commands), Len(q) <= CtrlDepth, Boot!WifiInit(q)
  PROVE  Boot!WifiTypeOK
<1>1. station \in [at : {"idle", "joining", "backoff", "linked"}, with : Credentials \cup {None}]
  BY DEF Boot!WifiInit
<1>2. drops \in 0..MaxDrops
  BY Bounds DEF Boot!WifiInit
<1>3. ctrl \in Seq(Boot!Commands) /\ Len(ctrl) <= CtrlDepth
  BY DEF Boot!WifiInit
<1>4. scan \in BOOLEAN
  BY DEF Boot!WifiInit
<1>5. /\ net \in {"Disconnected", "Connecting", "WifiConnected", "Ready"}
      /\ link \in Credentials \cup {None} /\ watching \in {"up", "down"}
  BY DEF Boot!WifiInit
<1> QED BY <1>1, <1>2, <1>3, <1>4, <1>5 DEF Boot!WifiTypeOK

LEMMA InitInv == Fits /\ Boot!Init => Inv
<1> SUFFICES ASSUME Fits, Boot!Init PROVE Inv
  OBVIOUS
<1>1. PICK h \in Handsets :
        LET l == IF h.oled THEN Boot!PowerOn(h) ELSE Boot!BeginWifiSetup(Boot!PowerOn(h))
        IN  /\ Boot!WifiInit(Boot!TrySend(<<>>, l.sent))
            /\ d = [l EXCEPT !.sent = <<>>]
            /\ connected = FALSE /\ idle = 0 /\ mode = "run"
            /\ sleeping = FALSE /\ track = FALSE
            /\ keys = h.keys /\ ups = 0
  BY DEF Boot!Init
<1> DEFINE l == IF h.oled THEN Boot!PowerOn(h) ELSE Boot!BeginWifiSetup(Boot!PowerOn(h))
<1>2. Setting(h) /\ h.keys \in Nat
  BY DEF Fits, Boot!StartupAssumption, Boot!HandsetFields, Setting, Credential
<1>3. /\ Boot!PowerOn(h) \in Loop /\ Boot!PowerOn(h).moving = FALSE
      /\ Boot!PowerOn(h).blanked = FALSE /\ Boot!PowerOn(h).signal = FALSE
  BY <1>2, PowerOnRests DEF Rests
<1>4. l \in Loop /\ l.moving = FALSE /\ l.blanked = FALSE /\ l.signal = FALSE
  BY <1>3, BeginWifiSetupAlike DEF Alike
<1> HIDE DEF l
<1>5. /\ Boot!WifiInit(Boot!TrySend(<<>>, l.sent)) /\ d = [l EXCEPT !.sent = <<>>]
      /\ connected = FALSE /\ idle = 0 /\ mode = "run" /\ sleeping = FALSE /\ track = FALSE
      /\ keys = h.keys /\ ups = 0
  BY <1>1 DEF l
<1>6. Rests(d) /\ Still(d)
  <2>1. <<>> \in Seq(Boot!Commands)
    OBVIOUS
  <2> QED BY <1>4, <1>5, <2>1 DEF Rests, Still, Loop
<1>7. Boot!WifiTypeOK
  <2>1. <<>> \in Seq(Boot!Commands) /\ l.sent \in Seq(Boot!Commands)
    BY <1>4, LoopFields
  <2> QED BY <1>5, <2>1, TrySendType, WifiStarts
<1>8. keys \in Nat /\ ups \in 0..MaxServerUps
  <2>1. ups = 0 /\ keys = h.keys
    BY <1>5
  <2>2. 0 \in 0..MaxServerUps
    BY Bounds
  <2> QED BY <1>2, <2>1, <2>2
<1>9. connected \in BOOLEAN /\ sleeping \in BOOLEAN /\ track \in BOOLEAN
  BY <1>5
<1>10. idle \in 0..2 /\ mode \in {"run", "asleep", "programming"}
  BY <1>5
<1>11. Boot!TypeOK
  BY <1>6, <1>7, <1>8, <1>9, <1>10, TypeIs DEF Rest
<1> QED BY <1>5, <1>6, <1>11 DEF Inv

LEMMA OffInv ==
  ASSUME Fits, Inv, Boot!Off, mode' # "run", mode' \in {"run", "asleep", "programming"},
         keys' \in Nat
  PROVE  Inv'
<1> DEFINE h == [lang |-> FALSE, server |-> FALSE, creds |-> None, oled |-> TRUE,
                 usb |-> FALSE, weak |-> FALSE]
<1>1. d' = Boot!PowerOn(h)
  BY DEF Boot!Off
<1>2. Setting(h)
  BY DEF Setting, Credential
<1> HIDE DEF h
<1>3. Rests(d') /\ Still(d')
  <2>1. Rests(Boot!PowerOn(h)) /\ Boot!PowerOn(h).blanked = FALSE
    BY <1>2, PowerOnRests
  <2> QED BY <1>1, <2>1 DEF Still
<1>4. Boot!WifiTypeOK'
  <2>1. station' \in [at : {"idle", "joining", "backoff", "linked"}, with : Credentials \cup {None}]
    BY DEF Boot!Off
  <2>2. ctrl' \in Seq(Boot!Commands) /\ Len(ctrl') <= CtrlDepth
    BY Bounds DEF Boot!Off
  <2>3. scan' \in BOOLEAN
    BY DEF Boot!Off
  <2>4. /\ net' \in {"Disconnected", "Connecting", "WifiConnected", "Ready"}
        /\ link' \in Credentials \cup {None} /\ watching' \in {"up", "down"}
        /\ drops' \in 0..MaxDrops
    BY DEF Boot!Off, Inv, Boot!TypeOK, Boot!WifiTypeOK
  <2> QED BY <2>1, <2>2, <2>3, <2>4 DEF Boot!WifiTypeOK
<1>5. connected' \in BOOLEAN /\ sleeping' \in BOOLEAN
  BY DEF Boot!Off
<1>6. track' \in BOOLEAN /\ ups' \in 0..MaxServerUps
  BY DEF Boot!Off, Inv, Boot!TypeOK
<1>7. idle' \in 0..2
  BY DEF Boot!Off
<1>8. Boot!TypeOK'
  BY <1>3, <1>4, <1>5, <1>6, <1>7, TypeIs DEF Rest
<1>9. ~d'.blanked
  BY <1>1, <1>2, PowerOnRests
<1> QED BY <1>3, <1>8, <1>9 DEF Inv

LEMMA StationInv ==
  ASSUME Fits, Inv, mode = "run", Boot!Station
  PROVE  Inv'
<1>1. UNCHANGED <<d, connected, idle, mode, sleeping, track, keys, ups>>
  BY DEF Boot!Station, Boot!dvars
<1>2. Boot!WifiTypeOK
  BY DEF Inv, Boot!TypeOK
<1> DEFINE At == [at : {"idle", "joining", "backoff", "linked"}, with : Credentials \cup {None}]
           Net == {"Disconnected", "Connecting", "WifiConnected", "Ready"}
<1>3. /\ station \in At /\ ctrl \in Seq(Boot!Commands) /\ Len(ctrl) <= CtrlDepth /\ net \in Net
      /\ link \in Credentials \cup {None} /\ watching \in {"up", "down"}
      /\ scan \in BOOLEAN /\ drops \in 0..MaxDrops
  BY <1>2 DEF Boot!WifiTypeOK
<1>4. ctrl # <<>> => /\ Head(ctrl) \in Boot!Commands /\ Tail(ctrl) \in Seq(Boot!Commands)
                     /\ Len(Tail(ctrl)) <= CtrlDepth
  BY <1>3, Bounds
<1>5. ASSUME NEW c \in Credentials \cup {None}, Boot!StartJoin(c)
      PROVE  station' \in At /\ net' \in Net
  BY <1>5 DEF Boot!StartJoin
<1>6. ASSUME NEW status \in Net, Boot!ObeyNext(status)
      PROVE  /\ station' \in At /\ net' \in Net /\ scan' \in BOOLEAN
             /\ ctrl' \in Seq(Boot!Commands) /\ Len(ctrl') <= CtrlDepth
  <2>1. ctrl # <<>> /\ Boot!Obey(Head(ctrl), status) /\ ctrl' = Tail(ctrl)
    BY <1>6 DEF Boot!ObeyNext
  <2>2. CASE Head(ctrl)[1] = "Scan" /\ Boot!Obey(Head(ctrl), status)
    <3>1. station' = [at |-> "idle", with |-> None] /\ scan' = TRUE /\ net' = status
      BY <2>2 DEF Boot!Obey
    <3> QED BY <1>4, <2>1, <3>1
  <2>3. CASE Head(ctrl)[1] = "Connect" /\ Boot!Obey(Head(ctrl), status)
    <3>1. Boot!StartJoin(Head(ctrl)[2]) /\ scan' = scan
      BY <2>3 DEF Boot!Obey
    <3>2. Head(ctrl)[2] \in Credentials
      BY <1>4, <2>1, <2>3 DEF Boot!Commands
    <3> QED BY <1>3, <1>4, <1>5, <2>1, <3>1, <3>2
  <2> QED BY <2>1, <2>2, <2>3 DEF Boot!Obey
<1>7. Boot!WifiTypeOK'
  <2> HIDE DEF At, Net
  <2> SUFFICES /\ station' \in At /\ ctrl' \in Seq(Boot!Commands) /\ Len(ctrl') <= CtrlDepth
               /\ net' \in Net
               /\ link' \in Credentials \cup {None} /\ watching' \in {"up", "down"}
               /\ scan' \in BOOLEAN /\ drops' \in 0..MaxDrops
    BY DEF Boot!WifiTypeOK, At, Net
  <2> USE <1>3, <1>6
  <2>1. CASE Boot!Receive
    BY <2>1 DEF Boot!Receive
  <2>2. CASE Boot!Retry
    <3>1. station.with \in Credentials \cup {None}
      BY DEF At
    <3> QED BY <2>2, <3>1, <1>5 DEF Boot!Retry
  <2>3. CASE Boot!Interrupted
    BY <2>3 DEF Boot!Interrupted
  <2>4. CASE Boot!NoticeDrop
    BY <2>4 DEF Boot!NoticeDrop, At, Net
  <2>5. CASE Boot!LinkedCommand
    <3>1. CASE /\ ctrl # <<>> /\ scan' = TRUE /\ ctrl' = Tail(ctrl)
               /\ UNCHANGED <<station, net, link, watching, drops>>
      BY <3>1, <1>4
    <3>2. CASE link' = None /\ Boot!ObeyNext(net) /\ UNCHANGED <<watching, drops>>
      BY <3>2
    <3> QED BY <2>5, <3>1, <3>2 DEF Boot!LinkedCommand
  <2>6. ASSUME NEW joined \in BOOLEAN, Boot!JoinEnds(joined)
        PROVE  /\ station' \in At /\ ctrl' \in Seq(Boot!Commands) /\ Len(ctrl') <= CtrlDepth
               /\ net' \in Net
               /\ link' \in Credentials \cup {None} /\ watching' \in {"up", "down"}
               /\ scan' \in BOOLEAN /\ drops' \in 0..MaxDrops
    <3> DEFINE status == IF joined THEN net ELSE "Disconnected"
    <3>1. status \in Net
      BY DEF Net
    <3>2. station.with \in Credentials \cup {None}
      BY DEF At
    <3>3. link' \in Credentials \cup {None} /\ UNCHANGED <<watching, drops>>
      BY <2>6, <3>2 DEF Boot!JoinEnds
    <3>4. CASE Boot!ObeyNext(status)
      BY <3>1, <3>3, <3>4
    <3>5. CASE /\ station' = [station EXCEPT !.at = IF joined THEN "linked" ELSE "backoff"]
               /\ net' = IF joined THEN "WifiConnected" ELSE "Disconnected"
               /\ UNCHANGED <<ctrl, scan>>
      BY <3>3, <3>5 DEF At, Net
    <3> QED BY <2>6, <3>4, <3>5 DEF Boot!JoinEnds
  <2>7. CASE Boot!LinkDrops
    BY <2>7, Bounds DEF Boot!LinkDrops
  <2>8. CASE Boot!StatusUp
    BY <2>8 DEF Boot!StatusUp, Net
  <2>9. CASE Boot!StatusDown
    BY <2>9 DEF Boot!StatusDown, Net
  <2> QED BY <2>1, <2>2, <2>3, <2>4, <2>5, <2>6, <2>7, <2>8, <2>9
       DEF Boot!Station, Boot!WifiNext, Boot!Connection
<1>8. Boot!TypeOK'
  <2>1. Rest
    BY TypeIs DEF Inv
  <2> QED BY <1>1, <1>7, <2>1, TypeIs DEF Rest
<1> QED BY <1>1, <1>8 DEF Inv, Still

LEMMA KeyInv ==
  ASSUME Fits, Inv, mode = "run", NEW key, Boot!Key(key)
  PROVE  Inv'
<1>1. PICK l \in Boot!KeyArm(d, key) : Boot!Polls(l, key = "estop")
  BY DEF Boot!Key
<1>2. d \in Loop
  BY TypeIs DEF Inv, Rest, Rests
<1>3. key # "estop" => d.screen # "Splash" /\ ~d.blanked
  BY DEF Boot!Key, Boot!Splash
<1>4. l \in Loop /\ ~l.blanked /\ (key = "estop" => ~l.moving)
  BY <1>2, <1>3, KeyArmType
<1>5. (key = "estop") \in BOOLEAN /\ Still(l)
  BY <1>4 DEF Still
<1>6. /\ Boot!WifiTypeOK' /\ Rests(d')
      /\ sleeping' \in BOOLEAN /\ track' \in BOOLEAN /\ connected' \in BOOLEAN
      /\ Still(d') /\ (track' => d'.moving)
  BY <1>1, <1>4, <1>5, PollsInv
<1>7. keys \in Nat /\ ups \in 0..MaxServerUps /\ mode \in {"run", "asleep", "programming"}
  BY TypeIs DEF Inv, Rest
<1>8. keys' \in Nat /\ idle' = 0 /\ UNCHANGED <<mode, ups>>
  BY <1>7 DEF Boot!Key, Boot!KeyPressed
<1>9. idle' \in 0..2
  BY <1>8
<1>10. Boot!TypeOK'
  BY <1>6, <1>7, <1>8, <1>9, TypeIs DEF Rest
<1> QED BY <1>6, <1>8, <1>10 DEF Inv

LEMMA TickInv ==
  ASSUME Fits, Inv, mode = "run", NEW expired \in BOOLEAN, Boot!Tick(expired)
  PROVE  Inv'
<1> DEFINE l == Boot!TickArm(d, expired)
<1>1. Boot!Polls(l, FALSE) /\ idle' = (IF connected /\ ~d.conn THEN 0 ELSE idle)
      /\ UNCHANGED <<mode, keys, ups>>
  BY DEF Boot!Tick
<1>2. d \in Loop /\ Still(d)
  BY TypeIs DEF Inv, Rest, Rests
<1>3. l \in Loop /\ Still(l)
  BY <1>2, TickArmType
<1> HIDE DEF l
<1>4. /\ Boot!WifiTypeOK' /\ Rests(d')
      /\ sleeping' \in BOOLEAN /\ track' \in BOOLEAN /\ connected' \in BOOLEAN
      /\ Still(d') /\ (track' => d'.moving)
  BY <1>1, <1>3, PollsInv
<1>5. /\ keys \in Nat /\ ups \in 0..MaxServerUps /\ mode \in {"run", "asleep", "programming"}
      /\ idle \in 0..2
  BY TypeIs DEF Inv, Rest
<1>6. idle' \in 0..2
  BY <1>1, <1>5
<1>7. Boot!TypeOK'
  BY <1>1, <1>4, <1>5, <1>6, TypeIs DEF Rest
<1> QED BY <1>1, <1>4, <1>7 DEF Inv

\* A key that only lights the panel, and what happens around the handset, disturb
\* nothing that Inv compares.
LEMMA OthersInv ==
  ASSUME Fits, Inv, mode = "run", Boot!Swallowed \/ Boot!World
  PROVE  Inv'
<1>1. Rest /\ Still(d)
  BY TypeIs DEF Inv
<1>2. CASE Boot!Swallowed
  <2>1. /\ d' = [d EXCEPT !.blanked = FALSE] /\ idle' = 0 /\ keys' \in Nat
        /\ UNCHANGED <<station, ctrl, net, link, watching, scan, drops, connected, mode, sleeping,
                       track, ups>>
    BY <1>1, <1>2 DEF Boot!Swallowed, Boot!KeyPressed, Boot!wifi, Rest
  <2>2. Rests(d') /\ d'.moving = d.moving /\ ~d'.blanked
    BY <1>1, <2>1 DEF Rest, Rests, Loop
  <2>3. Boot!WifiTypeOK'
    BY <1>1, <2>1 DEF Rest, Boot!WifiTypeOK
  <2>4. idle' \in 0..2
    BY <2>1
  <2>5. Boot!TypeOK'
    BY <1>1, <2>1, <2>2, <2>3, <2>4, TypeIs DEF Rest
  <2> QED BY <2>1, <2>2, <2>5 DEF Inv, Still
<1>3. CASE Boot!World
  <2>1. UNCHANGED <<station, ctrl, net, link, watching, scan, drops, d, mode, keys>>
    BY <1>3 DEF Boot!World, Boot!Quiet, Boot!BatteryLow, Boot!ServerUp, Boot!ServerDown, Boot!wifi
  <2>2. idle' \in 0..2
    <3>1. idle' = idle \/ (idle < 2 /\ idle' = idle + 1)
      BY <1>3 DEF Boot!World, Boot!Quiet, Boot!BatteryLow, Boot!ServerUp, Boot!ServerDown
    <3>2. idle \in 0..2
      BY <1>1 DEF Rest
    <3> QED BY <3>1, <3>2
  <2>3. connected' \in BOOLEAN /\ sleeping' \in BOOLEAN
    BY <1>1, <1>3 DEF Boot!World, Boot!Quiet, Boot!BatteryLow, Boot!ServerUp, Boot!ServerDown, Rest
  <2>4. track' \in {FALSE, track} /\ track' \in BOOLEAN
    BY <1>1, <1>3 DEF Boot!World, Boot!Quiet, Boot!BatteryLow, Boot!ServerUp, Boot!ServerDown, Rest
  <2>5. ups' \in 0..MaxServerUps
    <3>1. ups' = ups \/ (ups < MaxServerUps /\ ups' = ups + 1)
      BY <1>3 DEF Boot!World, Boot!Quiet, Boot!BatteryLow, Boot!ServerUp, Boot!ServerDown
    <3>2. ups \in 0..MaxServerUps
      BY <1>1 DEF Rest
    <3> QED BY <3>1, <3>2, Bounds
  <2>6. Boot!WifiTypeOK'
    BY <1>1, <2>1 DEF Rest, Boot!WifiTypeOK
  <2>7. Boot!TypeOK'
    BY <1>1, <2>1, <2>2, <2>3, <2>4, <2>5, <2>6, TypeIs DEF Rest
  <2>8. track' => track
    BY <2>4
  <2> QED BY <2>1, <2>7, <2>8 DEF Inv, Still
<1> QED BY <1>2, <1>3

LEMMA NextInv == Fits /\ Inv /\ [Boot!Next]_(Boot!vars) => Inv'
<1> SUFFICES ASSUME Fits, Inv, [Boot!Next]_(Boot!vars) PROVE Inv'
  OBVIOUS
<1>1. keys \in Nat
  BY TypeIs DEF Inv, Rest
<1>2. CASE mode = "run" /\ Boot!Station
  BY <1>2, StationInv
<1>3. CASE mode = "run" /\ Boot!Operator
  BY <1>3, KeyInv, OthersInv DEF Boot!Operator
<1>4. ASSUME NEW written \in BOOLEAN, mode = "run" /\ Boot!Program(written) PROVE Inv'
  <2>1. CASE written
    <3>1. Boot!Off /\ mode' = "programming" /\ keys' \in Nat
      BY <1>1, <1>4, <2>1 DEF Boot!Program, Boot!KeyPressed
    <3> QED BY <3>1, OffInv
  <2>2. CASE ~written
    <3>1. /\ UNCHANGED <<station, ctrl, net, link, watching, scan, drops, d, connected, mode,
                         sleeping, track, ups>>
          /\ keys' \in Nat /\ idle' = 0
      BY <1>1, <1>4, <2>2 DEF Boot!Program, Boot!KeyPressed, Boot!wifi
    <3>2. Boot!WifiTypeOK' /\ idle' \in 0..2
      BY <3>1, TypeIs DEF Inv, Rest, Boot!WifiTypeOK
    <3>3. Boot!TypeOK'
      BY <3>1, <3>2, TypeIs DEF Inv, Rest
    <3> QED BY <3>1, <3>3 DEF Inv, Still
  <2> QED BY <2>1, <2>2
<1>5. ASSUME NEW expired \in BOOLEAN, mode = "run" /\ Boot!Tick(expired) PROVE Inv'
  BY <1>5, TickInv
<1>6. CASE mode = "run" /\ Boot!World
  BY <1>6, OthersInv
<1>7. CASE mode = "run" /\ Boot!Sleeps
  <2>1. Boot!Off /\ mode' = "asleep" /\ keys' \in Nat
    BY <1>1, <1>7 DEF Boot!Sleeps
  <2> QED BY <2>1, OffInv
<1>8. CASE UNCHANGED Boot!vars
  <2>1. UNCHANGED <<station, ctrl, net, link, watching, scan, drops, d, connected, idle, mode,
                    sleeping, track, keys, ups>>
    BY <1>8 DEF Boot!vars, Boot!wifi, Boot!dvars
  <2>2. Boot!WifiTypeOK'
    BY <2>1, TypeIs DEF Inv, Rest, Boot!WifiTypeOK
  <2>3. Boot!TypeOK'
    BY <2>1, <2>2, TypeIs DEF Inv, Rest
  <2> QED BY <2>1, <2>3 DEF Inv, Still
<1> QED BY <1>2, <1>3, <1>4, <1>5, <1>6, <1>7, <1>8 DEF Boot!Next, Boot!Running

\* For any networks, credentials, handsets and depth of the command channel: a handset
\* whose panel is dark has last told the server to stand still, however it came to be
\* dark and whatever happened since; with the types (the input and the tick arm of task).
THEOREM BlankStaysParked == Fits => (Boot!Spec => []Boot!BlankIsParked)
<1> SUFFICES ASSUME Fits PROVE Boot!Spec => []Boot!BlankIsParked
  OBVIOUS
<1>1. Inv => Boot!BlankIsParked
  <2> SUFFICES ASSUME Inv PROVE Boot!BlankIsParked
    OBVIOUS
  <2> QED BY DEF Inv, Boot!BlankIsParked, Still
<1>2. Boot!Init => Inv
  BY InitInv
<1>3. Inv /\ [Boot!Next]_(Boot!vars) => Inv'
  BY NextInv
<1> QED BY <1>1, <1>2, <1>3, PTL DEF Boot!Spec

---------------------------------------------------------------------------
(* Pairing: what a session with a BigFred server begins with.  An instance *)
(* with variables of its own, too.                                         *)

CONSTANTS Locos, Sentinel, Codes, CodeLength, MaxTroubles

VARIABLES ui, online, cmds, events, adapter, http, result, bigfred, troubles

Pair == INSTANCE Pairing WITH domain <- ui, conn <- online, server <- bigfred

LEMMA PairBounds ==
  Pair!PairingAssumption => CodeLength \in Nat \ {0} /\ MaxTroubles \in Nat
BY DEF Pair!PairingAssumption

\* The domain in the middle of an iteration: commands may have collected.
Fields(w) ==
  /\ w.uiConn \in Pair!ConnState
  /\ w.active \in BOOLEAN /\ w.tried \in BOOLEAN /\ w.byUser \in BOOLEAN
  /\ w.paired \in BOOLEAN /\ w.restored \in BOOLEAN /\ w.creds \in BOOLEAN
  /\ w.code \in Codes \cup {None} /\ w.screen \in {"throttle", "pairing", "wait"}
  /\ w.consist \in Seq(Pair!Loco)
  /\ w.request \in Pair!Op \cup {None} /\ w.out \in Seq(Pair!Command)

LEMMA FieldsOf == ASSUME NEW w \in Pair!DomainTask PROVE Fields(w)
BY DEF Pair!DomainTask, Fields

LEMMA CommandsAre ==
  /\ \A c \in Codes : [op |-> "Pair", code |-> c] \in Pair!Command
  /\ \A l \in Pair!Loco : [op |-> "AddLoco", loco |-> l] \in Pair!Command
  /\ [op |-> "Release"] \in Pair!Command /\ [op |-> "Drive"] \in Pair!Command
BY DEF Pair!Command

LEMMA EventsAre ==
  /\ \A l \in Pair!Loco : [op |-> "Added", loco |-> l] \in Pair!Event
  /\ \A l \in Pair!Loco \cup {None} : [op |-> "Removed", loco |-> l] \in Pair!Event
  /\ [op |-> "NotPaired"] \in Pair!Event /\ [op |-> "RosterEntry"] \in Pair!Event
  /\ [op |-> "PairingRequired"] \in Pair!Event /\ [op |-> "PairingSucceeded"] \in Pair!Event
  /\ [op |-> "PairingFailed"] \in Pair!Event
BY DEF Pair!Event, Pair!Report

LEMMA EventHas ==
  ASSUME NEW ev \in Pair!Event
  PROVE  /\ ev.op \in {"Added", "Removed", "NotPaired", "RosterEntry", "PairingRequired",
                       "PairingSucceeded", "PairingFailed"}
         /\ ev.op = "Added" => ev.loco \in Pair!Loco
         /\ ev.op = "Removed" => ev.loco \in Pair!Loco \cup {None}
BY DEF Pair!Event, Pair!Report

LEMMA PushType ==
  ASSUME NEW w \in Pair!DomainTask, NEW c \in Pair!Command
  PROVE  Pair!Push(w, c) \in Pair!DomainTask
<1>1. Append(w.out, c) \in Seq(Pair!Command)
  BY FieldsOf DEF Fields
<1> QED BY <1>1 DEF Pair!Push, Pair!DomainTask

LEMMA StartType ==
  ASSUME NEW w \in Pair!DomainTask, NEW op \in Pair!Op
  PROVE  Pair!Start(w, op) \in Pair!DomainTask
BY DEF Pair!Start, Pair!DomainTask

LEMMA ReacquireType ==
  ASSUME NEW w \in Pair!DomainTask
  PROVE  Pair!Reacquire(w) \in Pair!DomainTask
<1> DEFINE adds == [i \in DOMAIN w.consist |-> [op |-> "AddLoco", loco |-> w.consist[i]]]
           drives == IF w.consist = <<>> THEN <<>> ELSE <<[op |-> "Drive"]>>
<1>1. adds \in Seq(Pair!Command)
  <2>1. w.consist \in Seq(Pair!Loco)
    BY FieldsOf DEF Fields
  <2>2. DOMAIN w.consist = 1..Len(w.consist) /\ Len(w.consist) \in Nat
    BY <2>1
  <2>3. \A i \in DOMAIN w.consist : w.consist[i] \in Pair!Loco
    BY <2>1
  <2>4. adds \in [1..Len(w.consist) -> Pair!Command]
    BY <2>2, <2>3, CommandsAre
  <2> QED BY <2>2, <2>4, SeqDef
<1>2. drives \in Seq(Pair!Command)
  BY CommandsAre
<1> HIDE DEF adds, drives
<1>3. w.out \o adds \o drives \in Seq(Pair!Command)
  BY <1>1, <1>2, FieldsOf DEF Fields
<1>4. Pair!Reacquire(w) = [w EXCEPT !.out = w.out \o adds \o drives, !.restored = TRUE]
  BY DEF Pair!Reacquire, adds, drives
<1> QED BY <1>3, <1>4 DEF Pair!DomainTask

LEMMA BeginPairingType ==
  ASSUME NEW w \in Pair!DomainTask
  PROVE  Pair!BeginPairing(w) \in Pair!DomainTask
<1> DEFINE b == [w EXCEPT !.active = TRUE, !.byUser = FALSE]
<1>1. b \in Pair!DomainTask
  BY DEF Pair!DomainTask
<1>2. /\ [b EXCEPT !.tried = TRUE] \in Pair!DomainTask
      /\ [b EXCEPT !.screen = "pairing"] \in Pair!DomainTask
  BY DEF Pair!DomainTask
<1> HIDE DEF b
<1>3. b.code # None => Pair!Push(b, [op |-> "Pair", code |-> b.code]) \in Pair!DomainTask
  BY <1>1, PushType, CommandsAre, FieldsOf DEF Fields
<1>4. Pair!Start([b EXCEPT !.tried = TRUE], "Pair") \in Pair!DomainTask
  BY <1>2, StartType DEF Pair!Op
<1>5. Pair!BeginPairing(w) = IF w.active THEN w
        ELSE IF b.code # None THEN Pair!Push(b, [op |-> "Pair", code |-> b.code])
        ELSE IF ~b.tried /\ Pair!CanStart(b) THEN Pair!Start([b EXCEPT !.tried = TRUE], "Pair")
        ELSE [b EXCEPT !.screen = "pairing"]
  BY DEF Pair!BeginPairing, b
<1> QED BY <1>2, <1>3, <1>4, <1>5

LEMMA OnPairingFailedType ==
  ASSUME NEW w \in Pair!DomainTask
  PROVE  Pair!OnPairingFailed(w) \in Pair!DomainTask
<1> DEFINE f == [w EXCEPT !.paired = FALSE, !.code = None]
           a == [f EXCEPT !.active = TRUE, !.byUser = FALSE, !.screen = "pairing"]
           b == [f EXCEPT !.active = TRUE, !.tried = TRUE]
           c == [f EXCEPT !.active = FALSE, !.tried = FALSE, !.byUser = FALSE]
<1>1. f \in Pair!DomainTask
  BY DEF Pair!DomainTask
<1> HIDE DEF f
<1>2. a \in Pair!DomainTask /\ b \in Pair!DomainTask /\ c \in Pair!DomainTask
  BY ZenonT(90), <1>1 DEF Pair!DomainTask
<1> HIDE DEF a, b, c
<1>3. Pair!Start(b, "Pair") \in Pair!DomainTask
  BY <1>2, StartType DEF Pair!Op
<1>4. Pair!OnPairingFailed(w) = IF ~f.creds THEN a
                           ELSE IF ~f.tried /\ Pair!CanStart(f) THEN Pair!Start(b, "Pair") ELSE c
  BY DEF Pair!OnPairingFailed, f, a, b, c
<1> QED BY <1>2, <1>3, <1>4

LEMMA OnPairingSucceededType ==
  ASSUME NEW w \in Pair!DomainTask
  PROVE  Pair!OnPairingSucceeded(w) \in Pair!DomainTask
<1> DEFINE r == Pair!Reacquire(w)
           screen == IF w.byUser THEN "throttle" ELSE r.screen
<1>1. r \in Pair!DomainTask
  BY ReacquireType
<1> HIDE DEF r
<1>2. screen \in {"throttle", "pairing", "wait"}
  BY <1>1 DEF Pair!DomainTask
<1>3. Pair!OnPairingSucceeded(w) = [r EXCEPT !.active = FALSE, !.tried = FALSE, !.byUser = FALSE,
                                        !.paired = TRUE, !.screen = screen]
  BY DEF Pair!OnPairingSucceeded, r
<1> HIDE DEF screen
<1> QED BY <1>1, <1>2, <1>3 DEF Pair!DomainTask

LEMMA EmptiedType ==
  ASSUME NEW w \in Pair!DomainTask
  PROVE  [w EXCEPT !.consist = <<>>] \in Pair!DomainTask
<1>1. <<>> \in Seq(Pair!Loco)
  OBVIOUS
<1> QED BY <1>1 DEF Pair!DomainTask

LEMMA OnAddedType ==
  ASSUME NEW w \in Pair!DomainTask, NEW l \in Pair!Loco
  PROVE  Pair!OnAdded(w, l) \in Pair!DomainTask
<1>1. Append(w.consist, l) \in Seq(Pair!Loco)
  BY FieldsOf DEF Fields
<1> QED BY <1>1 DEF Pair!OnAdded, Pair!DomainTask

LEMMA OnRemovedType ==
  ASSUME NEW w \in Pair!DomainTask, NEW l \in Pair!Loco \cup {None}
  PROVE  Pair!OnRemoved(w, l) \in Pair!DomainTask
<1> DEFINE s == w.consist
           pos == CHOOSE i \in DOMAIN s : s[i] = l
<1>1. s \in Seq(Pair!Loco) /\ Len(s) \in Nat /\ DOMAIN s = 1..Len(s)
  BY FieldsOf DEF Fields
<1>2. [w EXCEPT !.consist = <<>>] \in Pair!DomainTask
  BY EmptiedType
<1>3. ASSUME ~\A i \in DOMAIN s : s[i] # l
      PROVE  [w EXCEPT !.consist = Pair!RemoveAt(s, pos)] \in Pair!DomainTask
  <2>1. pos \in 1..Len(s)
    BY <1>1, <1>3
  <2> HIDE DEF pos, s
  <2>2. SubSeq(s, 1, pos - 1) \in Seq(Pair!Loco) /\ SubSeq(s, pos + 1, Len(s)) \in Seq(Pair!Loco)
    <3>1. \A i \in 1..pos - 1 : i \in 1..Len(s)
      BY <1>1, <2>1
    <3>2. \A i \in pos + 1..Len(s) : i \in 1..Len(s)
      BY <1>1, <2>1
    <3> QED BY <1>1, <2>1, <3>1, <3>2, SubSeqProperties
  <2>3. Pair!RemoveAt(s, pos) \in Seq(Pair!Loco)
    BY <2>2 DEF Pair!RemoveAt
  <2> QED BY <2>3 DEF Pair!DomainTask
<1> HIDE DEF pos
<1>4. Pair!OnRemoved(w, l) = IF l = None THEN [w EXCEPT !.consist = <<>>]
                        ELSE IF \A i \in DOMAIN s : s[i] # l THEN w
                        ELSE [w EXCEPT !.consist = Pair!RemoveAt(s, pos)]
  BY DEF Pair!OnRemoved, pos
<1> QED BY <1>2, <1>3, <1>4

LEMMA OnEventType ==
  ASSUME NEW w \in Pair!DomainTask, NEW ev \in Pair!Event
  PROVE  Pair!OnEvent(w, ev) \in Pair!DomainTask
<1>1. CASE ev.op = "NotPaired"
  <2>1. [w EXCEPT !.paired = FALSE] \in Pair!DomainTask
    BY DEF Pair!DomainTask
  <2> QED BY <1>1, <2>1, BeginPairingType DEF Pair!OnEvent, Pair!OnNotPaired
<1>2. CASE ev.op = "PairingRequired"
  BY <1>2, BeginPairingType DEF Pair!OnEvent, Pair!OnPairingRequired
<1>3. CASE ev.op = "PairingSucceeded"
  BY <1>3, OnPairingSucceededType DEF Pair!OnEvent
<1>4. CASE ev.op = "PairingFailed"
  BY <1>4, OnPairingFailedType DEF Pair!OnEvent
<1>5. CASE ev.op = "RosterEntry"
  BY <1>5 DEF Pair!OnEvent
<1>6. CASE ev.op = "Added"
  BY <1>6, EventHas, OnAddedType DEF Pair!OnEvent
<1>7. CASE ev.op = "Removed"
  BY <1>7, EventHas, OnRemovedType DEF Pair!OnEvent
<1> QED BY <1>1, <1>2, <1>3, <1>4, <1>5, <1>6, <1>7, EventHas

LEMMA SeeConnType ==
  ASSUME Pair!TypeOK, NEW w \in Pair!DomainTask
  PROVE  Pair!SeeConn(w) \in Pair!DomainTask
<1> DEFINE u == [w EXCEPT !.uiConn = online]
           a == [u EXCEPT !.active = FALSE, !.tried = FALSE, !.byUser = FALSE,
                          !.paired = FALSE, !.restored = FALSE]
           b == [u EXCEPT !.active = TRUE]
           c == [u EXCEPT !.out = <<>>]
<1>1. u \in Pair!DomainTask
  BY DEF Pair!DomainTask, Pair!TypeOK
<1> HIDE DEF u
<1>2. a \in Pair!DomainTask /\ b \in Pair!DomainTask /\ c \in Pair!DomainTask
  <2>1. <<>> \in Seq(Pair!Command)
    OBVIOUS
  <2> QED BY ZenonT(90), <1>1, <2>1 DEF Pair!DomainTask
<1> HIDE DEF a, b, c
<1>3. Pair!Start(b, "Session") \in Pair!DomainTask /\ Pair!Reacquire(c) \in Pair!DomainTask
  BY <1>2, StartType, ReacquireType DEF Pair!Op
<1>4. Pair!SeeConn(w) = IF w.uiConn = online THEN w
        ELSE IF online = "Connecting" THEN a
        ELSE IF Pair!CanStart(u) THEN Pair!Start(b, "Session")
        ELSE IF ~u.restored THEN Pair!Reacquire(c) ELSE u
  BY DEF Pair!SeeConn, u, a, b, c
<1> QED BY <1>1, <1>2, <1>3, <1>4

LEMMA SeeResultType ==
  ASSUME Pair!TypeOK, NEW w \in Pair!DomainTask
  PROVE  Pair!SeeResult(w) \in Pair!DomainTask
<1>1. CASE result = None \/ online # "Connected"
  BY <1>1 DEF Pair!SeeResult
<1>2. CASE result # None /\ online = "Connected" /\ result.op = "Code"
  <2>1. result.code \in Codes
    BY <1>2 DEF Pair!TypeOK, Pair!Result
  <2>2. [w EXCEPT !.code = result.code] \in Pair!DomainTask
    BY <2>1 DEF Pair!DomainTask
  <2>3. Pair!OnCode(w, result.code) \in Pair!DomainTask
    BY <2>1, <2>2, CommandsAre, PushType DEF Pair!OnCode
  <2> QED BY <1>2, <2>3 DEF Pair!SeeResult
<1>3. CASE result # None /\ online = "Connected" /\ result.op = "Failed"
  <2>1. Pair!OnHttpFailed(w) \in Pair!DomainTask
    BY DEF Pair!OnHttpFailed, Pair!DomainTask
  <2> QED BY <1>3, <2>1 DEF Pair!SeeResult
<1>4. Pair!OnSessionPaired(w) \in Pair!DomainTask
  <2>1. [w EXCEPT !.active = FALSE, !.tried = FALSE, !.paired = TRUE] \in Pair!DomainTask
    BY DEF Pair!DomainTask
  <2> QED BY <2>1, ReacquireType DEF Pair!OnSessionPaired
<1>5. Pair!OnSessionUnpaired(w) \in Pair!DomainTask
  <2> DEFINE u == [w EXCEPT !.paired = FALSE]
             a == [u EXCEPT !.active = TRUE, !.tried = TRUE]
             b == [u EXCEPT !.active = FALSE, !.tried = FALSE]
  <2>1. a \in Pair!DomainTask /\ b \in Pair!DomainTask
    BY DEF Pair!DomainTask
  <2> HIDE DEF a, b
  <2>2. Pair!Start(a, "Pair") \in Pair!DomainTask
    BY <2>1, StartType DEF Pair!Op
  <2>3. Pair!OnSessionUnpaired(w) = IF Pair!CanStart(u) THEN Pair!Start(a, "Pair") ELSE b
    BY DEF Pair!OnSessionUnpaired, a, b
  <2> QED BY <2>1, <2>2, <2>3
<1>6. CASE result # None /\ online = "Connected" /\ result.op \notin {"Code", "Failed"}
  BY <1>4, <1>5, <1>6 DEF Pair!SeeResult
<1> QED BY <1>1, <1>2, <1>3, <1>6

---------------------------------------------------------------------------
(* The steps of the pairing.                                               *)

\* The adapter has a code while it types one.
PairInv == Pair!TypeOK /\ (adapter.st = "sending" => adapter.code \in Codes)

LEMMA IterationInv ==
  ASSUME PairInv, NEW w \in Pair!DomainTask, Pair!Iteration(w), events' \in Seq(Pair!Event),
         troubles' \in 0..MaxTroubles
  PROVE  PairInv'
<1> DEFINE u == Pair!SeeResult(Pair!SeeConn(w))
<1>1. u \in Pair!DomainTask
  BY SeeConnType, SeeResultType DEF PairInv
<1>2. /\ ui' = [u EXCEPT !.out = <<>>] /\ cmds' = cmds \o u.out /\ result' = None
      /\ UNCHANGED <<online, adapter, http, bigfred>>
  BY DEF Pair!Iteration
<1> HIDE DEF u
<1>3. ui' \in Pair!DomainTask /\ ui'.out = <<>>
  <2>1. <<>> \in Seq(Pair!Command)
    OBVIOUS
  <2> QED BY <1>1, <1>2, <2>1 DEF Pair!DomainTask
<1>4. cmds' \in Seq(Pair!Command)
  BY <1>1, <1>2, FieldsOf DEF Fields, PairInv, Pair!TypeOK
<1> QED BY <1>2, <1>3, <1>4 DEF PairInv, Pair!TypeOK

LEMMA TroubleType ==
  ASSUME Pair!PairingAssumption, Pair!TypeOK, Pair!Trouble
  PROVE  troubles' \in 0..MaxTroubles
BY PairBounds DEF Pair!TypeOK, Pair!Trouble

LEMMA DomainInv == Pair!PairingAssumption /\ PairInv /\ Pair!Domain => PairInv'
<1> SUFFICES ASSUME Pair!PairingAssumption, PairInv, Pair!Domain PROVE PairInv'
  OBVIOUS
<1>1. ui \in Pair!DomainTask /\ events \in Seq(Pair!Event) /\ troubles \in 0..MaxTroubles
  BY DEF PairInv, Pair!TypeOK
<1>2. CASE Pair!DomainTick
  BY <1>1, <1>2, IterationInv DEF Pair!DomainTick
<1>3. CASE Pair!DomainEvent
  <2>1. events # <<>> /\ Pair!Iteration(Pair!OnEvent(ui, Head(events))) /\ events' = Tail(events)
        /\ troubles' = troubles
    BY <1>3 DEF Pair!DomainEvent
  <2>2. Head(events) \in Pair!Event /\ Tail(events) \in Seq(Pair!Event)
    BY <1>1, <2>1
  <2> QED BY <1>1, <2>1, <2>2, OnEventType, IterationInv
<1> QED BY <1>2, <1>3 DEF Pair!Domain

LEMMA UserInv == Pair!PairingAssumption /\ PairInv /\ (Pair!User \/ Pair!UserDrives) => PairInv'
<1> SUFFICES ASSUME Pair!PairingAssumption, PairInv, Pair!User \/ Pair!UserDrives PROVE PairInv'
  OBVIOUS
<1>1. ui \in Pair!DomainTask /\ events \in Seq(Pair!Event) /\ troubles \in 0..MaxTroubles
  BY DEF PairInv, Pair!TypeOK
<1>2. ASSUME NEW l \in Locos, Pair!UserAcquire(l) PROVE PairInv'
  <2> DEFINE w == IF ui.consist = <<>> THEN ui ELSE Pair!Push(ui, [op |-> "Release"])
             e == [w EXCEPT !.consist = <<l>>]
  <2>1. w \in Pair!DomainTask
    BY <1>1, PushType, CommandsAre
  <2> HIDE DEF w
  <2>2. e \in Pair!DomainTask
    <3>1. <<l>> \in Seq(Pair!Loco)
      BY DEF Pair!Loco
    <3> QED BY <2>1, <3>1 DEF Pair!DomainTask
  <2> HIDE DEF e
  <2>3. Pair!Push(e, [op |-> "AddLoco", loco |-> l]) \in Pair!DomainTask
    BY <2>2, PushType, CommandsAre DEF Pair!Loco
  <2>4. /\ Pair!Trouble /\ events' = events
        /\ Pair!Iteration(Pair!Push(e, [op |-> "AddLoco", loco |-> l]))
    BY <1>2 DEF Pair!UserAcquire, Pair!Input, w, e
  <2> QED BY <1>1, <2>3, <2>4, TroubleType, IterationInv DEF PairInv
<1>3. CASE Pair!UserRelease
  <2> DEFINE e == [ui EXCEPT !.consist = <<>>]
  <2>1. e \in Pair!DomainTask
    BY <1>1, EmptiedType
  <2> HIDE DEF e
  <2>2. Pair!Push(e, [op |-> "Release"]) \in Pair!DomainTask
    BY <2>1, PushType, CommandsAre
  <2>3. Pair!Trouble /\ events' = events /\ Pair!Iteration(Pair!Push(e, [op |-> "Release"]))
    BY <1>3 DEF Pair!UserRelease, Pair!Input, e
  <2> QED BY <1>1, <2>2, <2>3, TroubleType, IterationInv DEF PairInv
<1>4. ASSUME NEW c \in Codes, Pair!UserPairs(c) PROVE PairInv'
  <2> DEFINE e == [ui EXCEPT !.active = TRUE, !.byUser = TRUE, !.code = c, !.screen = "wait"]
  <2>1. e \in Pair!DomainTask
    BY <1>1 DEF Pair!DomainTask
  <2> HIDE DEF e
  <2>2. Pair!Push(e, [op |-> "Pair", code |-> c]) \in Pair!DomainTask
    BY <2>1, PushType, CommandsAre
  <2>3. /\ Pair!Trouble /\ events' = events
        /\ Pair!Iteration(Pair!Push(e, [op |-> "Pair", code |-> c]))
    BY <1>4 DEF Pair!UserPairs, Pair!Input, e
  <2> QED BY <1>1, <2>2, <2>3, TroubleType, IterationInv DEF PairInv
<1>5. CASE Pair!UserCancels
  <2>1. [ui EXCEPT !.screen = "throttle"] \in Pair!DomainTask
    BY <1>1 DEF Pair!DomainTask
  <2> QED BY <1>1, <1>5, <2>1, IterationInv DEF Pair!UserCancels
<1>6. CASE Pair!UserDrives
  <2>1. Pair!Push(ui, [op |-> "Drive"]) \in Pair!DomainTask
    BY <1>1, PushType, CommandsAre
  <2> QED BY <1>1, <1>6, <2>1, IterationInv DEF Pair!UserDrives
<1> QED BY <1>2, <1>3, <1>4, <1>5, <1>6 DEF Pair!User

LEMMA HttpInv == Pair!PairingAssumption /\ PairInv /\ (Pair!Http \/ Pair!HttpFails) => PairInv'
<1> SUFFICES ASSUME Pair!PairingAssumption, PairInv, Pair!Http \/ Pair!HttpFails PROVE PairInv'
  OBVIOUS
<1>1. ASSUME NEW op \in Pair!Op, NEW r \in Pair!Result, Pair!Answer(op, r),
             bigfred' \in Pair!Server, troubles' \in 0..MaxTroubles
      PROVE  PairInv'
  BY <1>1 DEF PairInv, Pair!TypeOK, Pair!Answer
<1>2. bigfred \in Pair!Server /\ troubles \in 0..MaxTroubles
  BY DEF PairInv, Pair!TypeOK
<1>3. CASE Pair!HttpTakes
  <2>1. ui' \in Pair!DomainTask /\ ui'.out = <<>> /\ http' \in Pair!Op \cup {None}
    BY <1>3 DEF Pair!HttpTakes, PairInv, Pair!TypeOK, Pair!DomainTask
  <2> QED BY <1>3, <2>1 DEF Pair!HttpTakes, PairInv, Pair!TypeOK
<1>4. ASSUME NEW c \in Codes, Pair!HttpPair(c) PROVE PairInv'
  <2>1. [op |-> "Code", code |-> c] \in Pair!Result
    BY DEF Pair!Result
  <2>2. [bigfred EXCEPT !.valid = c] \in Pair!Server
    BY <1>2 DEF Pair!Server
  <2> QED BY <1>1, <1>2, <1>4, <2>1, <2>2 DEF Pair!HttpPair, Pair!Op
<1>5. CASE Pair!HttpSession
  <2>1. [op |-> "Session", paired |-> bigfred.paired] \in Pair!Result
    BY <1>2 DEF Pair!Result, Pair!Server
  <2> QED BY <1>1, <1>2, <1>5, <2>1 DEF Pair!HttpSession, Pair!Op
<1>6. CASE Pair!HttpFails
  <2>1. [op |-> "Failed"] \in Pair!Result
    BY DEF Pair!Result
  <2> QED BY <1>1, <1>2, <1>6, <2>1, TroubleType DEF Pair!HttpFails, PairInv
<1> QED BY <1>3, <1>4, <1>5, <1>6 DEF Pair!Http

Typed == Seq([code : Codes, digit : 1..CodeLength])

LEMMA ServerHas ==
  ASSUME NEW z \in Pair!Server
  PROVE  /\ z.paired \in BOOLEAN /\ z.valid \in Codes \cup {None} /\ z.holds \subseteq Pair!Loco
         /\ z.typed \in Typed /\ z.owes \in BOOLEAN
BY DEF Pair!Server, Typed

LEMMA ServerWith ==
  ASSUME NEW z \in Pair!Server, NEW h \in SUBSET Pair!Loco, NEW t \in Typed, NEW o \in BOOLEAN
  PROVE  [z EXCEPT !.holds = h, !.typed = t, !.owes = o] \in Pair!Server
BY DEF Pair!Server, Typed

LEMMA NothingTyped == <<>> \in Typed
BY DEF Typed

\* What the server makes of a command or a digit.
LEMMA ServerSteps ==
  ASSUME Pair!TypeOK
  PROVE  /\ \A l \in Pair!Loco :
              Pair!ServerAdds(l) => bigfred' \in Pair!Server /\ events' \in Seq(Pair!Event)
         /\ Pair!ServerReleases => bigfred' \in Pair!Server /\ events' \in Seq(Pair!Event)
         /\ \A c \in Codes, n \in 1..CodeLength :
              Pair!ServerHears([code |-> c, digit |-> n]) => bigfred' \in Pair!Server
<1>1. bigfred \in Pair!Server /\ events \in Seq(Pair!Event) /\ bigfred.holds \subseteq Pair!Loco
  BY DEF Pair!TypeOK, Pair!Server
<1>2. ASSUME NEW l \in Pair!Loco, Pair!ServerAdds(l)
      PROVE  bigfred' \in Pair!Server /\ events' \in Seq(Pair!Event)
  <2>1. CASE l = Sentinel \/ bigfred.paired
    <3>1. PICK t \in Typed : bigfred' = [bigfred EXCEPT !.holds = @ \cup {l}, !.typed = t]
      BY <1>1, <1>2, <2>1, NothingTyped, ServerHas DEF Pair!ServerAdds
    <3>2. bigfred' \in Pair!Server
      BY <1>1, <3>1 DEF Pair!Server, Typed
    <3>3. events' \in Seq(Pair!Event)
      BY SMTT(60), <1>1, <1>2, <2>1, EventsAre DEF Pair!ServerAdds
    <3> QED BY <3>2, <3>3
  <2>2. CASE ~(l = Sentinel \/ bigfred.paired)
    BY <1>1, <1>2, <2>2, EventsAre DEF Pair!ServerAdds
  <2> QED BY <2>1, <2>2
<1>3. ASSUME Pair!ServerReleases
      PROVE  bigfred' \in Pair!Server /\ events' \in Seq(Pair!Event)
  <2>1. bigfred' \in Pair!Server
    BY <1>1, <1>3, NothingTyped DEF Pair!ServerReleases, Pair!Server, Typed
  <2>2. events' \in Seq(Pair!Event)
    BY <1>1, <1>3, EventsAre DEF Pair!ServerReleases
  <2> QED BY <2>1, <2>2
<1>4. ASSUME NEW c \in Codes, NEW n \in 1..CodeLength, Pair!ServerHears([code |-> c, digit |-> n])
      PROVE  bigfred' \in Pair!Server
  <2> DEFINE typed == Append(bigfred.typed, [code |-> c, digit |-> n])
  <2>1. typed \in Typed
    <3>1. [code |-> c, digit |-> n] \in [code : Codes, digit : 1..CodeLength]
      OBVIOUS
    <3>2. bigfred.typed \in Seq([code : Codes, digit : 1..CodeLength])
      BY <1>1, ServerHas DEF Typed
    <3> QED BY <3>1, <3>2, AppendProperties DEF Typed
  <2> HIDE DEF typed
  <2>2. \/ bigfred' = bigfred
        \/ bigfred' = [bigfred EXCEPT !.paired = TRUE, !.valid = None, !.typed = <<>>,
                                      !.owes = TRUE]
        \/ bigfred' = [bigfred EXCEPT !.typed = <<>>]
        \/ bigfred' = [bigfred EXCEPT !.typed = typed]
    BY <1>4 DEF Pair!ServerHears, typed
  <2> QED BY <1>1, <2>1, <2>2, NothingTyped DEF Pair!Server, Typed
<1> QED BY <1>2, <1>3, <1>4

LEMMA IdleType ==
  ASSUME Pair!PairingAssumption
  PROVE  /\ Pair!Idle \in Pair!Adapter
         /\ [Pair!Idle EXCEPT !.st = "awaiting"] \in Pair!Adapter
         /\ [Pair!Idle EXCEPT !.st = "release"] \in Pair!Adapter
BY PairBounds DEF Pair!Idle, Pair!Adapter

LEMMA ForwardInv == Pair!PairingAssumption /\ PairInv /\ Pair!Forward => PairInv'
<1> SUFFICES ASSUME Pair!PairingAssumption, PairInv, Pair!Forward PROVE PairInv'
  OBVIOUS
<1> DEFINE c == Head(cmds)
<1>1. c \in Pair!Command /\ cmds' \in Seq(Pair!Command)
  BY DEF Pair!Forward, PairInv, Pair!TypeOK
<1>2. Pair!Encode(c) /\ UNCHANGED <<ui, online, http, result, troubles>>
  BY DEF Pair!Forward
<1> HIDE DEF c
<1>3. /\ c.op \in {"Pair", "AddLoco", "Release", "Drive"}
      /\ c.op = "Pair" => c.code \in Codes
      /\ c.op = "AddLoco" => c.loco \in Pair!Loco
  BY <1>1 DEF Pair!Command
<1>4. /\ adapter' \in Pair!Adapter /\ (adapter'.st = "sending" => adapter'.code \in Codes)
      /\ bigfred' \in Pair!Server /\ events' \in Seq(Pair!Event)
  <2>1. CASE c.op = "Pair"
    <3>1. adapter' = [st |-> "sending", code |-> c.code, step |-> 0] /\ Pair!ServerAdds(Sentinel)
      BY <1>2, <2>1 DEF Pair!Encode
    <3>2. adapter' \in Pair!Adapter
      BY <1>3, <2>1, <3>1, PairBounds DEF Pair!Adapter
    <3> QED BY <1>3, <2>1, <3>1, <3>2, ServerSteps DEF PairInv, Pair!Loco
  <2>2. CASE c.op = "AddLoco"
    BY <1>2, <1>3, <2>2, ServerSteps DEF Pair!Encode, PairInv, Pair!TypeOK
  <2>3. CASE c.op = "Release"
    BY <1>2, <2>3, ServerSteps DEF Pair!Encode, PairInv, Pair!TypeOK
  <2>4. CASE c.op = "Drive"
    <3>1. UNCHANGED <<adapter, bigfred>>
          /\ events' = (IF bigfred.paired THEN events ELSE Append(events, [op |-> "NotPaired"]))
      BY <1>2, <2>4 DEF Pair!Encode
    <3>2. events' \in Seq(Pair!Event)
      BY <3>1, EventsAre DEF PairInv, Pair!TypeOK
    <3> QED BY <3>1, <3>2 DEF PairInv, Pair!TypeOK
  <2> QED BY <1>3, <2>1, <2>2, <2>3, <2>4
<1> QED BY <1>1, <1>2, <1>4 DEF PairInv, Pair!TypeOK

LEMMA PairedAsInv == Pair!PairingAssumption /\ PairInv /\ Pair!PairedAs => PairInv'
<1> SUFFICES ASSUME Pair!PairingAssumption, PairInv, Pair!PairedAs PROVE PairInv'
  OBVIOUS
<1>1. bigfred' \in Pair!Server
  BY DEF Pair!PairedAs, PairInv, Pair!TypeOK, Pair!Server
<1>2. events' \in Seq(Pair!Event)
  <2>1. <<[op |-> "Removed", loco |-> Sentinel], [op |-> "PairingSucceeded"]>> \in Seq(Pair!Event)
    BY EventsAre DEF Pair!Loco
  <2> QED BY <2>1 DEF Pair!PairedAs, PairInv, Pair!TypeOK
<1>3. adapter' \in Pair!Adapter /\ adapter'.st # "sending"
  BY IdleType DEF Pair!PairedAs, Pair!Idle
<1> QED BY <1>1, <1>2, <1>3 DEF Pair!PairedAs, PairInv, Pair!TypeOK

LEMMA PollInv == Pair!PairingAssumption /\ PairInv /\ Pair!Poll => PairInv'
<1> SUFFICES ASSUME Pair!PairingAssumption, PairInv, Pair!Poll PROVE PairInv'
  OBVIOUS
<1>1. adapter \in Pair!Adapter /\ bigfred \in Pair!Server /\ events \in Seq(Pair!Event)
  BY DEF PairInv, Pair!TypeOK
<1>2. /\ adapter' \in Pair!Adapter /\ (adapter'.st = "sending" => adapter'.code \in Codes)
      /\ bigfred' \in Pair!Server /\ events' \in Seq(Pair!Event)
  <2>1. CASE Pair!PollSending
    <3>1. adapter.code \in Codes /\ adapter.step \in 0..2 * CodeLength - 1
          /\ CodeLength \in Nat \ {0}
      BY <1>1, <2>1, PairBounds DEF Pair!PollSending, PairInv, Pair!Adapter
    <3>2. adapter' \in Pair!Adapter /\ (adapter'.st = "sending" => adapter'.code \in Codes)
      <4>1. CASE adapter.step + 1 = 2 * CodeLength
        BY <2>1, <4>1, IdleType DEF Pair!PollSending, Pair!Idle
      <4>2. CASE adapter.step + 1 # 2 * CodeLength
        <5>1. adapter.step + 1 \in 0..2 * CodeLength - 1
          BY <3>1, <4>2
        <5>2. adapter' = [adapter EXCEPT !.step = adapter.step + 1]
          BY <2>1, <4>2 DEF Pair!PollSending
        <5> QED BY <1>1, <3>1, <5>1, <5>2 DEF Pair!Adapter
      <4> QED BY <4>1, <4>2
    <3>3. adapter.step % 2 = 0 => adapter.step \div 2 + 1 \in 1..CodeLength
      BY <3>1
    <3>4. bigfred' \in Pair!Server
      <4>1. CASE adapter.step % 2 = 0
        BY <2>1, <3>1, <3>3, <4>1, ServerSteps DEF Pair!PollSending, PairInv
      <4>2. CASE adapter.step % 2 # 0
        BY <1>1, <2>1, <4>2 DEF Pair!PollSending
      <4> QED BY <4>1, <4>2
    <3> QED BY <1>1, <2>1, <3>2, <3>4 DEF Pair!PollSending
  <2>2. CASE Pair!PollTimeout
    BY <1>1, <2>2, IdleType, EventsAre DEF Pair!PollTimeout, Pair!Idle
  <2>3. CASE Pair!PollRelease
    BY <1>1, <2>3, IdleType, ServerSteps DEF Pair!PollRelease, Pair!Idle, PairInv
  <2> QED BY <2>1, <2>2, <2>3 DEF Pair!Poll
<1> QED BY <1>2 DEF Pair!Poll, PairInv, Pair!TypeOK

LEMMA PairLinkInv == Pair!PairingAssumption /\ PairInv /\ (Pair!Connect \/ Pair!Lose) => PairInv'
<1> SUFFICES ASSUME Pair!PairingAssumption, PairInv, Pair!Connect \/ Pair!Lose PROVE PairInv'
  OBVIOUS
<1>1. adapter' \in Pair!Adapter /\ adapter'.st # "sending"
  BY IdleType DEF Pair!Connect, Pair!Lose, Pair!Idle
<1>2. CASE Pair!Connect
  <2>1. events' \in Seq(Pair!Event)
    BY <1>2, EventsAre DEF Pair!Connect
  <2>2. online' \in Pair!ConnState
    BY <1>2 DEF Pair!Connect, Pair!ConnState
  <2> QED BY <1>1, <1>2, <2>1, <2>2 DEF Pair!Connect, PairInv, Pair!TypeOK
<1>3. CASE Pair!Lose
  <2>1. events' \in Seq(Pair!Event)
    <3>1. PICK n \in 0..Len(events) : events' = SubSeq(events, 1, n)
      BY <1>3 DEF Pair!Lose
    <3>2. events \in Seq(Pair!Event) /\ Len(events) \in Nat
      BY DEF PairInv, Pair!TypeOK
    <3>3. \A i \in 1..n : i \in 1..Len(events)
      BY <3>2
    <3> QED BY <3>1, <3>2, <3>3, SubSeqProperties
  <2>2. online' \in Pair!ConnState
    BY <1>3 DEF Pair!Lose, Pair!ConnState
  <2>3. bigfred' \in Pair!Server
    BY <1>3, NothingTyped, ServerWith DEF Pair!Lose, PairInv, Pair!TypeOK
  <2>4. troubles' \in 0..MaxTroubles
    BY <1>3, TroubleType DEF Pair!Lose, PairInv
  <2> QED BY <1>1, <1>3, <2>1, <2>2, <2>3, <2>4 DEF Pair!Lose, PairInv, Pair!TypeOK
<1> QED BY <1>2, <1>3

LEMMA ExpireInv == Pair!PairingAssumption /\ PairInv /\ Pair!Expire => PairInv'
<1> SUFFICES ASSUME Pair!PairingAssumption, PairInv, Pair!Expire PROVE PairInv'
  OBVIOUS
<1>1. bigfred' \in Pair!Server
  BY DEF Pair!Expire, Pair!ExpireCode, Pair!ExpirePairing, Pair!Server, PairInv, Pair!TypeOK
<1>2. troubles' \in 0..MaxTroubles
  BY TroubleType DEF Pair!Expire, PairInv
<1> QED BY <1>1, <1>2 DEF Pair!Expire, PairInv, Pair!TypeOK

LEMMA PairNextInv == Pair!PairingAssumption /\ PairInv /\ [Pair!Next]_(Pair!vars) => PairInv'
<1> SUFFICES ASSUME Pair!PairingAssumption, PairInv, [Pair!Next]_(Pair!vars) PROVE PairInv'
  OBVIOUS
<1>1. CASE UNCHANGED Pair!vars
  BY <1>1 DEF Pair!vars, PairInv, Pair!TypeOK
<1>2. CASE Pair!Next
  BY <1>2, DomainInv, UserInv, HttpInv, ForwardInv, PairedAsInv, PollInv, PairLinkInv, ExpireInv
     DEF Pair!Next, Pair!Session
<1> QED BY <1>1, <1>2

LEMMA PairInitInv == Pair!PairingAssumption /\ Pair!Init => PairInv
<1> SUFFICES ASSUME Pair!PairingAssumption, Pair!Init PROVE PairInv
  OBVIOUS
<1>1. ui \in Pair!DomainTask /\ ui.out = <<>>
  <2>1. \A l \in Locos : <<l>> \in Seq(Pair!Loco)
    BY DEF Pair!Loco
  <2>2. <<>> \in Seq(Pair!Loco) /\ <<>> \in Seq(Pair!Command)
    OBVIOUS
  <2>3. ui.consist \in Seq(Pair!Loco)
    <3>1. ui.consist \in {<<>>} \cup {<<l>> : l \in Locos}
      BY DEF Pair!Init
    <3> QED BY <2>1, <2>2, <3>1
  <2>4. PICK creds \in BOOLEAN, code \in Codes \cup {None}, s \in Seq(Pair!Loco) :
          ui = [uiConn |-> "Connecting", active |-> FALSE, tried |-> FALSE,
                    byUser |-> FALSE, paired |-> FALSE, restored |-> FALSE,
                    creds |-> creds, code |-> code, screen |-> "throttle",
                    consist |-> s, request |-> None, out |-> <<>>]
    BY <2>3 DEF Pair!Init
  <2> QED BY <2>2, <2>4 DEF Pair!DomainTask, Pair!ConnState
<1>2. adapter \in Pair!Adapter /\ adapter.st # "sending"
  BY IdleType DEF Pair!Init, Pair!Idle
<1>3. bigfred \in Pair!Server
  BY NothingTyped DEF Pair!Init, Pair!Server, Typed
<1>4. troubles \in 0..MaxTroubles
  BY PairBounds DEF Pair!Init
<1> QED BY <1>1, <1>2, <1>3, <1>4 DEF Pair!Init, PairInv, Pair!TypeOK, Pair!ConnState

\* TypeOK of Pairing, for any locos, codes and code length: the domain, the HTTP task,
\* the adapter and the channels between them hold values of their types; an adapter that
\* types has a code to type and does not run past its last digit (poll of the adapter and
\* the pairing arms of task).
THEOREM PairingTypeCorrect == Pair!PairingAssumption => (Pair!Spec => []Pair!TypeOK)
<1> SUFFICES ASSUME Pair!PairingAssumption PROVE Pair!Spec => []Pair!TypeOK
  OBVIOUS
<1>1. Pair!Init => PairInv
  BY PairInitInv
<1>2. PairInv /\ [Pair!Next]_(Pair!vars) => PairInv'
  BY PairNextInv
<1>3. PairInv => Pair!TypeOK
  <2> SUFFICES ASSUME PairInv PROVE Pair!TypeOK
    OBVIOUS
  <2> QED BY DEF PairInv
<1> QED BY <1>1, <1>2, <1>3, PTL DEF Pair!Spec
===========================================================================
