--------------------------- MODULE DurableRecord ---------------------------
(***************************************************************************)
(* What the storage of the handset promises: there is one record, changed  *)
(* whole.  A change is on flash when it is done; one that fails leaves the *)
(* record before it or nothing that reads as a record, never a mixture.    *)
(* The handset starts from what is on flash, completed; only a fault makes *)
(* it start from nothing.                                                  *)
(***************************************************************************)
EXTENDS Naturals

CONSTANTS
    Whole(_),       \* a record that has an identity
    Complete(_),    \* the records a start may make of what it reads
    First,          \* what flash may hold at first
    Nothing         \* what flash holds when it holds no record

VARIABLES
    durable,        \* the record on flash
    working,        \* the record in memory
    faults          \* writes and reads that failed, power cuts

vars == <<durable, working, faults>>

Init == durable \in First /\ faults = 0

Save ==
    /\ Whole(working')
    /\ durable' = working'
    /\ UNCHANGED faults

SaveFails ==
    /\ Whole(working')
    /\ durable' \in {durable, Nothing}
    /\ faults' > faults

Restart ==
    /\ working' \in Complete(durable)
    /\ durable' \in {durable, working'}
    /\ UNCHANGED faults

Crash ==
    LET starts == Complete(durable) \cup Complete(Nothing)
    IN  /\ working' \in starts
        /\ durable' \in {durable, Nothing} \cup starts
        /\ faults' > faults

Next == Save \/ SaveFails \/ Restart \/ Crash

Spec == Init /\ [][Next]_vars
=============================================================================
