------------------------------ MODULE MCInput ------------------------------
(* Input with a long turn of the shaft, a detent among gestures, or gestures. *)
EXTENDS Input

TurnsAndHands ==
    {[steps |-> 10, hands |-> 0], [steps |-> 4, hands |-> 1], [steps |-> 0, hands |-> 4]}
============================================================================
