------------------------------- MODULE MCZ21 -------------------------------
(***************************************************************************)
(* Small instances of Z21 for TLC: throttles and locos are alike.          *)
(***************************************************************************)
EXTENDS Z21, TLC

Symmetry == Permutations(Throttles) \cup Permutations(Locos)
=============================================================================
