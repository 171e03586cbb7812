------------------------------- MODULE Wifi -------------------------------
(***************************************************************************)
(* The Wi-Fi station (net/wifi.rs): the connection task, which owns the    *)
(* radio and obeys one command at a time, and the status task, which only  *)
(* watches the network stack.  Both write the same Watch (STATE), of which *)
(* the domain sees no more than the last value.                            *)
(*                                                                         *)
(* A command is <<"Scan">> or <<"Connect", credential>>.                   *)
(***************************************************************************)
EXTENDS Sequences, Naturals

CONSTANTS
    Credentials,  \* <<network, password>>
    Accepted,     \* the credentials the air accepts while in reach
    None,
    CtrlDepth,    \* WIFI_CTRL_DEPTH
    MaxDrops      \* bound: times the radio loses its network

ASSUME WifiAssumption ==
    /\ Accepted \subseteq Credentials
    /\ None \notin Credentials
    /\ CtrlDepth \in Nat \ {0}
    /\ MaxDrops \in Nat

VARIABLES
    station,   \* the connection task: where it waits, and the credential of its loop
    ctrl,      \* WIFI_CTRL
    net,       \* STATE
    link,      \* the credential the radio is associated with
    watching,  \* the status task waits for the "up" or the "down" of the link
    scan,      \* WIFI_SCAN holds a result
    drops

wifi == <<station, ctrl, net, link, watching, scan, drops>>

Commands == {<<"Scan">>} \cup {<<"Connect", c>> : c \in Credentials}

WifiTypeOK ==
    /\ station \in [at : {"idle", "joining", "backoff", "linked"},
                    with : Credentials \cup {None}]
    /\ ctrl \in Seq(Commands) /\ Len(ctrl) <= CtrlDepth
    /\ net \in {"Disconnected", "Connecting", "WifiConnected", "Ready"}
    /\ link \in Credentials \cup {None}
    /\ watching \in {"up", "down"}
    /\ scan \in BOOLEAN
    /\ drops \in 0..MaxDrops

\* The tasks start; cmds are waiting for them already.
WifiInit(cmds) ==
    /\ station = [at |-> "idle", with |-> None]
    /\ ctrl = cmds
    /\ net = "Disconnected"
    /\ link = None
    /\ watching = "up"
    /\ scan = FALSE
    /\ drops = 0

\* try_send of several commands: what does not fit is dropped.
TrySend(q, cmds) ==
    LET all == q \o cmds
    IN  IF Len(all) <= CtrlDepth THEN all ELSE SubSeq(all, 1, CtrlDepth)

---------------------------------------------------------------------------
(* The connection task.                                                    *)

\* One turn of the join loop up to its first wait: the driver may refuse the
\* configuration of a credential the network does not accept either.
StartJoin(c) ==
    \/ /\ station' = [at |-> "joining", with |-> c]
       /\ net' = "Connecting"
    \/ /\ c \notin Accepted
       /\ station' = [at |-> "backoff", with |-> c]
       /\ net' = "Disconnected"

\* The head of the outer loop; a scan leaves nothing to go on with.  (status is
\* what the loop sent before it took the command.)
Obey(cmd, status) ==
    \/ /\ cmd[1] = "Scan"
       /\ station' = [at |-> "idle", with |-> None]
       /\ scan' = TRUE
       /\ net' = status
    \/ /\ cmd[1] = "Connect"
       /\ StartJoin(cmd[2])
       /\ UNCHANGED scan

ObeyNext(status) ==
    /\ ctrl # <<>>
    /\ Obey(Head(ctrl), status)
    /\ ctrl' = Tail(ctrl)

Receive ==
    /\ station.at = "idle"
    /\ ObeyNext(net)
    /\ UNCHANGED <<link, watching, drops>>

\* connect_sta returns.  A command that came meanwhile is looked at before the
\* link is: the radio may have joined and nobody watches it then.  A join takes
\* longer than the status task needs to see the link go down.
JoinEnds(joined) ==
    LET c == station.with
        status == IF joined THEN net ELSE "Disconnected"
    IN  /\ station.at = "joining"
        /\ joined => c \in Accepted
        /\ watching = "down" => link # None
        /\ link' = IF joined THEN c ELSE None
        /\ IF ctrl # <<>> THEN ObeyNext(status)
           ELSE /\ station' = [station EXCEPT !.at = IF joined THEN "linked" ELSE "backoff"]
                /\ net' = IF joined THEN "WifiConnected" ELSE "Disconnected"
                /\ UNCHANGED <<ctrl, scan>>
        /\ UNCHANGED <<watching, drops>>

\* Mutant of Retry: a join that failed is not tried again.
GiveUp ==
    /\ station.at = "backoff"
    /\ station' = [at |-> "idle", with |-> None]
    /\ UNCHANGED <<net, ctrl, scan, link, watching, drops>>

\* The back-off runs out, or a command ends it.
Retry ==
    /\ station.at = "backoff"
    /\ StartJoin(station.with)
    /\ UNCHANGED <<ctrl, scan, link, watching, drops>>

Interrupted ==
    /\ station.at = "backoff"
    /\ ObeyNext(net)
    /\ UNCHANGED <<link, watching, drops>>

\* While linked: a drop, a scan in place, or another network.
NoticeDrop ==
    /\ station.at = "linked" /\ link = None
    /\ net' = "Disconnected"
    /\ station' = [station EXCEPT !.at = "backoff"]
    /\ UNCHANGED <<ctrl, scan, link, watching, drops>>

LinkedCommand ==
    /\ station.at = "linked" /\ ctrl # <<>>
    /\ \/ /\ Head(ctrl)[1] = "Scan"
          /\ scan' = TRUE
          /\ ctrl' = Tail(ctrl)
          /\ UNCHANGED <<station, net, link>>
       \/ /\ Head(ctrl)[1] = "Connect"
          /\ link' = None
          /\ ObeyNext(net)
    /\ UNCHANGED <<watching, drops>>

\* The radio loses the network it is associated with.
LinkDrops ==
    /\ link # None /\ drops < MaxDrops
    /\ link' = None
    /\ drops' = drops + 1
    /\ UNCHANGED <<station, ctrl, net, watching, scan>>

---------------------------------------------------------------------------
(* The status task.                                                        *)

\* Mutant of StatusUp: the lease is not reported.
StatusUpUnreported ==
    /\ watching = "up" /\ link # None
    /\ watching' = "down"
    /\ UNCHANGED <<net, station, ctrl, link, scan, drops>>

StatusUp ==
    /\ watching = "up" /\ link # None
    /\ net' = "Ready"
    /\ watching' = "down"
    /\ UNCHANGED <<station, ctrl, link, scan, drops>>

StatusDown ==
    /\ watching = "down" /\ link = None
    /\ net' = "Disconnected"
    /\ watching' = "up"
    /\ UNCHANGED <<station, ctrl, link, scan, drops>>

Connection == Receive \/ Retry \/ Interrupted \/ NoticeDrop \/ LinkedCommand

WifiNext ==
    \/ Connection
    \/ \E joined \in BOOLEAN : JoinEnds(joined)
    \/ LinkDrops
    \/ StatusUp
    \/ StatusDown
=============================================================================
