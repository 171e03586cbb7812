------------------------- MODULE MCThrottleControl -------------------------
(***************************************************************************)
(* Small instances of ThrottleControl for TLC.                             *)
(***************************************************************************)
EXTENDS ThrottleControl, TLC

Symmetry == Permutations(Locos)

\* Every control of the handset.
AllInputs ==
  {"speed", "encoder", "direction", "function", "power", "estop",
   "estopCurrent", "throttle", "maxThrottles", "acquire", "release"}
=============================================================================
