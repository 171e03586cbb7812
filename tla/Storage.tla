------------------------------ MODULE Storage ------------------------------
(***************************************************************************)
(* The record on flash and the task that keeps it (storage/mod.rs), from   *)
(* boot (bin/main.rs) to the publication of every change.                  *)
(*                                                                         *)
(* A write erases the sector and then fills it, without yielding: here it  *)
(* is one step that succeeds, fails before the erase, or leaves the sector *)
(* torn, with a proper prefix of the new record.  Power lost in a write    *)
(* leaves a torn sector too, and starts the handset anew.                  *)
(***************************************************************************)
EXTENDS Record

CONSTANTS
    Entropies,      \* what the random generator gives at boot
    AutoPair,       \* board: start in programming mode when no network is known
    CtrlDepth,      \* STORAGE_CTRL
    MaxFaults       \* bound: writes that fail, and power cuts

VARIABLES
    flash,          \* the sector
    record,         \* the storage task's record
    ctrl,           \* STORAGE_CTRL: requests not taken yet
    published,      \* PERSIST_LOADED: the latest record
    unseen,         \* ... not taken yet by the task that follows it
    ack,            \* STORAGE_ACK: None, or the outcome of a write
    seed,           \* entropy of this boot
    held,           \* the flash is locked for a firmware upload
    faults

ASSUME StorageAssumption ==
    /\ None \notin BOOLEAN
    /\ Entropies \subseteq Nat \ {0} /\ Entropies # {}
    /\ AutoPair \in BOOLEAN
    /\ CtrlDepth \in Nat \ {0}
    /\ MaxFaults \in Nat

storageVars == <<flash, record, ctrl, published, unseen, ack, seed, held, faults>>

\* A torn sector holds no checksum: the shortest and the longest of them.
Torn(r) == {<<>>, Front(Encode(r))}

\* What a write of r over f leaves, as <<sector, did it succeed>>, if it may fail.
Persist(f, r, mayFail) ==
    {<<Encode(r), TRUE>>}
        \cup (IF mayFail THEN {<<g, FALSE>> : g \in {f} \cup Torn(r)} ELSE {})

\* What is read of f, as <<record, did it succeed>>; no record is the default one.
Load(f, mayFail) ==
    {<<IF Decode(f) = NoRecord THEN DefaultRecord ELSE Decode(f), TRUE>>}
        \cup (IF mayFail THEN {<<DefaultRecord, FALSE>>} ELSE {})

EnsureDeviceId(r, e) == IF r.id = 0 THEN [r EXCEPT !.id = e] ELSE r
EnsureWifiHostname(r) == IF r.host = "" THEN [r EXCEPT !.host = "longfred"] ELSE r
Completed(r, e) == EnsureWifiHostname(EnsureDeviceId(r, e))

\* Complete what was loaded of f, and write it when that changed something.
EnsureBoot(f, loaded, e, mayFail) ==
    IF Completed(loaded, e) = loaded THEN {<<f, TRUE>>}
    ELSE Persist(f, Completed(loaded, e), mayFail)

EnterProgramming(r) == r.prog \/ (AutoPair /\ r.creds = <<>>)

\* The boot writes the programming flag when it was not set.
FlagProgramming(f, r, mayFail) ==
    IF EnterProgramming(r) /\ ~r.prog THEN Persist(f, [r EXCEPT !.prog = TRUE], mayFail)
    ELSE {<<f, TRUE>>}

\* Start from sector f after n faults: main completes what it loaded, and the
\* storage task then reads the sector again.
Boot(f, n, e, loaded) ==
    LET may == n < MaxFaults
        own == Completed(loaded[1], e)
    IN  /\ \E first \in EnsureBoot(f, loaded[1], e, may) :
           \E second \in FlagProgramming(first[1], own, may) :
           \E again \in Load(second[1], may) :
           \E third \in EnsureBoot(second[1], again[1], e, may) :
               /\ flash' = third[1]
               /\ record' = Completed(again[1], e)
               /\ faults' = n + (IF first[2] /\ second[2] /\ third[2] /\ loaded[2] /\ again[2]
                                 THEN 0 ELSE 1)
        /\ seed' = e
        /\ published' = record'
        /\ unseen' = TRUE
        /\ ctrl' = <<>>
        /\ ack' = None
        /\ held' = FALSE

\* Mutant of TrySend: the channel has no bound.
TrySendUnbounded(request) == ctrl' = Append(ctrl, request)

\* Requests are try_sent: one that finds the channel full is dropped.
TrySend(request) ==
    ctrl' = IF Len(ctrl) < CtrlDepth THEN Append(ctrl, request) ELSE ctrl

---------------------------------------------------------------------------
(* The task.                                                               *)

\* The records a request may make of r.
Applied(request, r) ==
    LET kind == request[1]  value == request[2]
    IN  CASE kind = "password"   -> {SetPassword(r, value[1], value[2])}
          [] kind = "locos"      -> {[r EXCEPT !.locos = value]}
          [] kind = "network"    -> {[r EXCEPT !.network = value]}
          [] kind = "device"     -> {[r EXCEPT !.name = value[1], !.id = value[2]]}
          [] kind = "regenerate" -> {[r EXCEPT !.id = e] : e \in Entropies}
          [] kind = "language"   -> {[r EXCEPT !.lang = value, !.chosen = TRUE]}
          [] kind = "mode"       -> {[r EXCEPT !.mode = value]}
          [] kind = "code"       -> {[r EXCEPT !.code = value]}
          [] kind = "server"     -> {[r EXCEPT !.server = value]}
          [] kind = "prog"       -> {[r EXCEPT !.prog = value]}
          [] kind = "replace"    -> {Completed(value, seed)}
          [] kind = "clear"      -> {Completed(DefaultRecord, seed)}

WantsAck(request) == request[1] \in {"prog", "replace"}

\* Mutant of Handle: the outcome is told before the write.
HandleAckFirst(request) ==
    \E r \in Applied(request, record) : \E w \in Persist(flash, r, faults < MaxFaults) :
        /\ record' = r
        /\ flash' = w[1]
        /\ faults' = faults + (IF w[2] THEN 0 ELSE 1)
        /\ published' = r
        /\ unseen' = TRUE
        /\ ack' = IF WantsAck(request) THEN TRUE ELSE ack

\* Mutant of Handle: only a write that succeeds is told.
HandleAckSaved(request) ==
    \E r \in Applied(request, record) : \E w \in Persist(flash, r, faults < MaxFaults) :
        /\ record' = r
        /\ flash' = w[1]
        /\ faults' = faults + (IF w[2] THEN 0 ELSE 1)
        /\ published' = r
        /\ unseen' = TRUE
        /\ ack' = IF WantsAck(request) /\ w[2] THEN TRUE ELSE ack

\* Mutant of Handle: only what is on flash is published.
HandlePublishSaved(request) ==
    \E r \in Applied(request, record) : \E w \in Persist(flash, r, faults < MaxFaults) :
        /\ record' = r
        /\ flash' = w[1]
        /\ faults' = faults + (IF w[2] THEN 0 ELSE 1)
        /\ published' = IF w[2] THEN r ELSE published
        /\ unseen' = (w[2] \/ unseen)
        /\ ack' = IF WantsAck(request) THEN w[2] ELSE ack

\* Change, write, publish whatever the write did, and tell who asked for it.
Handle(request) ==
    \E r \in Applied(request, record) : \E w \in Persist(flash, r, faults < MaxFaults) :
        /\ record' = r
        /\ flash' = w[1]
        /\ faults' = faults + (IF w[2] THEN 0 ELSE 1)
        /\ published' = r
        /\ unseen' = TRUE
        /\ ack' = IF WantsAck(request) THEN w[2] ELSE ack

StorageTask ==
    /\ ctrl # <<>> /\ ~held
    /\ Handle(Head(ctrl))
    /\ ctrl' = Tail(ctrl)
    /\ UNCHANGED <<seed, held>>
=============================================================================
