--------------------------- MODULE ServerSession ---------------------------
(***************************************************************************)
(* Which server the handset talks to.                                      *)
(*                                                                         *)
(* SERVER and CONN are watches: they hold the latest value, and a reader   *)
(* may miss values in between.  The domain writes SERVER when the operator *)
(* selects a server or disconnects (crates/firmware/src/domain/task.rs),   *)
(* the session task follows it, and writes SERVER as well, once it knows   *)
(* that a WiThrottle server is in fact a BigFred (classify_endpoint in     *)
(* crates/firmware/src/net/session.rs).                                    *)
(*                                                                         *)
(* The lengths of timeouts and backoffs are left out.  The network and the *)
(* servers are external: a probe, a connection attempt and a session may   *)
(* fail at any time.                                                       *)
(***************************************************************************)
EXTENDS Naturals

CONSTANTS
  Ips,          \* addresses of servers
  BigFredIps,   \* those that answer the BigFred probe
  Offered,      \* endpoints the operator can select: found, or typed in
  None,         \* Option::None
  MaxOps,       \* bound on the operator's selections
  MaxLosses     \* bound on sessions that end by a failure

Protocol == {"WiThrottle", "BigFred", "Z21"}
Endpoint == [ip : Ips, protocol : Protocol]

ASSUME SessionAssumption ==
  /\ BigFredIps \subseteq Ips /\ Offered \subseteq Endpoint
  /\ None \notin Endpoint /\ None \notin Ips /\ None \notin Protocol
  /\ MaxOps \in Nat /\ MaxLosses \in Nat

VARIABLES
  server,    \* the SERVER watch
  conn,      \* the CONN watch
  phase,     \* where the session task is in its loop
  target,    \* session: the endpoint it works on
  known,     \* session: known_bigfred
  fresh,     \* run_session: SERVER was written since it last looked
  uiConn,    \* domain: ui.conn
  uiServer,  \* domain: ui.server
  caps,      \* domain: session_caps, as the protocol they belong to
  saved,     \* domain: persist.last_server
  chosen,    \* history: the endpoint the operator chose last
  unheard,   \* history: chosen while the session was not listening
  ops, losses

watches == <<server, conn>>
session == <<phase, target, known, fresh, losses>>
domain  == <<uiConn, uiServer, caps, saved>>
history == <<chosen, unheard, ops>>
vars == <<watches, session, domain, history>>

Phase == {"waiting", "probing", "connecting", "greeting", "running", "backoff"}

ConnState == {"Disconnected", "Connecting", "Connected"}

TypeOK ==
  /\ server \in Endpoint \cup {None} /\ conn \in ConnState
  /\ phase \in Phase /\ target \in Endpoint \cup {None}
  /\ phase # "waiting" => target # None
  /\ known \in Ips \cup {None} /\ fresh \in BOOLEAN
  /\ uiConn \in ConnState /\ uiServer \in Endpoint \cup {None}
  /\ caps \in Protocol \cup {None} /\ saved \in Endpoint \cup {None}
  /\ chosen \in Endpoint \cup {None} /\ unheard \in BOOLEAN
  /\ ops \in 0..MaxOps /\ losses \in 0..MaxLosses

AsBigFred(ep) == [ep EXCEPT !.protocol = "BigFred"]

\* What earlier boots may have saved: nothing, a choice, a choice classified.
Persisted ==
  {None} \cup Offered
    \cup {AsBigFred(ep) : ep \in {o \in Offered : o.ip \in BigFredIps
                                               /\ o.protocol = "WiThrottle"}}

Init ==
  /\ server = None /\ conn = "Disconnected"
  /\ phase = "waiting" /\ target = None /\ known = None /\ fresh = FALSE
  /\ uiConn = "Disconnected" /\ uiServer = None /\ caps = None
  /\ saved \in Persisted
  /\ chosen = None /\ unheard = FALSE
  /\ ops = 0 /\ losses = 0

-----------------------------------------------------------------------------
(* The domain.  Whatever an iteration does first, it then looks at CONN    *)
(* and at SERVER: it restarts the catalogues for the protocol, and saves   *)
(* the endpoint, now classified, when a session comes up.                  *)

Connected == conn = "Connected" /\ uiConn # conn

Lapsed == uiConn # conn /\ (conn = "Disconnected" \/ (conn = "Connecting" /\ uiConn = "Connected"))

\* Mutant of Look: what the probe found out is not saved.
LookUnsaved(ep, last) ==
  /\ uiConn' = conn /\ uiServer' = ep
  /\ saved' = last
  /\ caps' = IF conn = "Connected" /\ ep # None THEN ep.protocol
             ELSE IF Lapsed THEN None ELSE caps

\* ep is what SERVER holds, last is persist.last_server.
Look(ep, last) ==
  /\ uiConn' = conn /\ uiServer' = ep
  /\ saved' = IF Connected /\ ep # None THEN ep ELSE last
  /\ caps' = IF conn = "Connected" /\ ep # None THEN ep.protocol
             ELSE IF Lapsed THEN None ELSE caps

\* Between these points of its loop the session does not see a new value.
Deaf == phase \in {"probing", "connecting", "greeting"}

Choose(ep, last) ==
  /\ ops < MaxOps /\ ops' = ops + 1
  /\ server' = ep /\ fresh' = TRUE
  /\ chosen' = ep /\ unheard' = Deaf
  /\ Look(ep, last)
  /\ UNCHANGED <<conn, phase, target, known, losses>>

\* ServerSelect, ServerManual.
ServerSelect(ep) == Choose(ep, ep)

ServerReconnect == saved # None /\ Choose(saved, saved)

ServerDisconnect == Choose(None, saved)

DomainIteration ==
  /\ Look(server, saved)
  /\ UNCHANGED <<watches, session, history>>

-----------------------------------------------------------------------------
(* The session task.                                                       *)

\* ep is what the operator chose, possibly classified.
Chosen(ep) ==
  /\ chosen # None /\ ep.ip = chosen.ip
  /\ \/ ep = chosen
     \/ chosen.protocol = "WiThrottle" /\ ep.protocol = "BigFred"

\* Mutant of TakeServer: only a value not seen before is taken.
TakeServerOnce ==
  /\ phase = "waiting" /\ server # None /\ fresh
  /\ conn' = "Connecting" /\ target' = server /\ phase' = "connecting" /\ fresh' = FALSE
  /\ unheard' = (unheard /\ ~Chosen(server))
  /\ UNCHANGED <<server, known, losses, domain, chosen, ops>>

\* Mutant of TakeServer: the task does not wait for a selection.
TakeServerUnchecked ==
  /\ phase = "waiting"
  /\ conn' = "Connecting" /\ target' = server /\ phase' = "connecting"
  /\ UNCHANGED <<server, fresh, known, losses, domain, history>>

(* wait_for_server, and classify_endpoint up to the probe: a server known  *)
(* to be a BigFred is not probed.                                          *)
TakeServer ==
  /\ phase = "waiting" /\ server # None
  /\ conn' = "Connecting"
  /\ LET cached == server.protocol = "WiThrottle" /\ known = server.ip
     IN  /\ target' = IF cached THEN AsBigFred(server) ELSE server
         /\ server' = target'
         /\ phase' = IF server.protocol = "WiThrottle" /\ ~cached THEN "probing" ELSE "connecting"
  /\ known' = IF server.protocol = "BigFred" THEN server.ip ELSE known
  /\ unheard' = (unheard /\ ~Chosen(server))
  /\ UNCHANGED <<fresh, losses, domain, chosen, ops>>

\* Mutant of ProbeMatches: SERVER is not told what the probe found.
ProbeMatchesSilently ==
  /\ phase = "probing" /\ target.ip \in BigFredIps
  /\ target' = AsBigFred(target) /\ known' = target.ip
  /\ phase' = "connecting"
  /\ UNCHANGED <<watches, fresh, losses, domain, history>>

ProbeMatches ==
  /\ phase = "probing" /\ target.ip \in BigFredIps
  /\ target' = AsBigFred(target) /\ server' = target'
  /\ known' = target.ip
  /\ phase' = "connecting" /\ fresh' = TRUE
  /\ UNCHANGED <<conn, losses, domain, history>>

\* No answer, or another one.
ProbeFails ==
  /\ phase = "probing"
  /\ phase' = "connecting"
  /\ UNCHANGED <<watches, target, known, fresh, losses, domain, history>>

\* CONN says Connected before the handset has greeted the server.
Connect ==
  /\ phase = "connecting"
  /\ conn' = "Connected" /\ phase' = "greeting"
  /\ UNCHANGED <<server, target, known, fresh, losses, domain, history>>

\* run_session takes what SERVER holds by now for seen.
Greeted ==
  /\ phase = "greeting"
  /\ phase' = "running" /\ fresh' = FALSE
  /\ UNCHANGED <<watches, target, known, losses, domain, history>>

\* How every session and every attempt ends.
End ==
  /\ conn' = IF server # None THEN "Connecting" ELSE "Disconnected"
  /\ phase' = "backoff"
  /\ UNCHANGED <<server, target, known, fresh, domain, history>>

\* Mutant of ServerChanged: only a server deselected ends the session.
ServerGone ==
  /\ phase = "running" /\ fresh /\ server = None
  /\ End
  /\ UNCHANGED losses

\* Any write to SERVER, even of the same endpoint.
ServerChanged ==
  /\ phase = "running" /\ fresh
  /\ End
  /\ UNCHANGED losses

Fail ==
  /\ phase \in {"connecting", "greeting", "running"}
  /\ losses < MaxLosses /\ losses' = losses + 1
  /\ End

\* RECONNECT_MIN_MS is ten times DOMAIN_TICK_MS: the domain has seen the end.
Retry ==
  /\ phase = "backoff" /\ uiConn = conn
  /\ phase' = "waiting"
  /\ UNCHANGED <<watches, target, known, fresh, losses, domain, history>>

-----------------------------------------------------------------------------

Operator ==
  \/ \E ep \in Offered : ServerSelect(ep)
  \/ ServerReconnect
  \/ ServerDisconnect

Session ==
  \/ TakeServer
  \/ ProbeMatches \/ ProbeFails
  \/ Connect \/ Greeted
  \/ ServerChanged \/ Retry

Next == Operator \/ DomainIteration \/ Session \/ Fail

(* Both tasks are polled, and every wait of the session has a timeout.     *)
(* Attempts fail MaxLosses times at most, so one that does not fail comes. *)
Fairness == WF_vars(DomainIteration) /\ WF_vars(Session)

Spec == Init /\ [][Next]_vars

FairSpec == Spec /\ Fairness

-----------------------------------------------------------------------------
(* Properties.                                                             *)

\* The domain has seen what the watches hold.
Current == uiConn = conn /\ uiServer = server

(* While a session runs with the selected server and the domain is up to   *)
(* date, its catalogues are those of the protocol the session speaks, and  *)
(* that protocol, not the one the server was found with, is what is saved  *)
(* for the next boot.                                                      *)
DomainMatchesSession ==
  phase = "running" /\ Current /\ server = target =>
    caps = target.protocol /\ saved = target

(* A session that runs with another server than the selected one knows     *)
(* that SERVER has changed, unless the operator chose while it was not     *)
(* listening: nothing else is ever missed.                                 *)
SessionIsCurrent ==
  phase = "running" /\ ~unheard => fresh \/ server = target

Following ==
  IF chosen = None THEN phase = "waiting"
  ELSE phase = "running" /\ Chosen(target)

(* When the operator chooses while the session listens, the handset ends   *)
(* up in a session with the chosen server, or, deselected, in none.        *)
FollowsOperator == <>[](~unheard) => <>[]Following

(* A server that stays selected is connected to for good, however the      *)
(* earlier attempts failed and whatever was chosen before.                 *)
StaysConnected == <>[](server # None) => <>[](phase = "running")
=============================================================================
