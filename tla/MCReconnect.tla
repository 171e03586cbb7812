---------------------------- MODULE MCReconnect ----------------------------
(***************************************************************************)
(* Small instances of Reconnect for TLC.                                   *)
(***************************************************************************)
EXTENDS Reconnect, TLC

CONSTANTS a, b

NoneSaved == <<>>

\* One loco on the first throttle, in a record that an earlier firmware wrote:
\* this one reads the list, keeps it, and never adds to it.
OneSaved == <<[throttle |-> 0, loco |-> a]>>
=============================================================================
