-------------------------- MODULE MCServerSession --------------------------
(***************************************************************************)
(* Small instances of ServerSession for TLC.                               *)
(***************************************************************************)
EXTENDS ServerSession, TLC

CONSTANTS plain, fred   \* a WiThrottle server and a BigFred

\* Both as discovery finds them, and the first typed in as a Z21.
Found == {[ip |-> plain, protocol |-> "WiThrottle"],
          [ip |-> fred, protocol |-> "WiThrottle"],
          [ip |-> plain, protocol |-> "Z21"]}
=============================================================================
