---------------------------- MODULE Provisioning ----------------------------
(***************************************************************************)
(* The tasks that ask the storage task to save: the domain in normal       *)
(* operation, and the web server and the pairing screen in programming     *)
(* mode (domain/task.rs, net/provisioning).  One acknowledgement signal    *)
(* serves all who wait, and the reboots between the two modes go through   *)
(* the flag on flash.  The web server also writes firmware, under the lock *)
(* of the flash, into the slot that is not in use.                         *)
(***************************************************************************)
EXTENDS Storage

CONSTANTS
    FirstFlash,     \* what the sector may hold at the first start
    Asks,           \* requests the operator may make of the domain
    Puts,           \* bodies of PUT /api/v1/settings
    Chunks,         \* length of a firmware image
    MaxRequests, MaxReboots, MaxUploads    \* bounds

\* What the domain asks for, and what the operator may send: identities are
\* drawn or typed from a range without 0, and DCC addresses are numbers.
IsRequest(q) ==
    /\ q[1] \in {"password", "locos", "network", "device", "regenerate", "language", "mode",
                 "code", "server", "prog", "replace", "clear"}
    /\ q[1] = "locos" => IsList(q[2])
    /\ q[1] = "device" => q[2][2] \in Nat \ {0}
    /\ q[1] = "replace" => IsRecord(q[2])

ASSUME ProvisioningAssumption ==
    /\ \A f \in FirstFlash : Decode(f) # NoRecord => IsRecord(Decode(f)) /\ Tidy(Decode(f)) = Decode(f)
    /\ \A q \in Asks : IsRequest(q) /\ ~WantsAck(q)
    /\ \A p \in Puts : IsRoster(p.roster)

VARIABLES
    mode,           \* "off", "run" or "prog": which tasks boot started
    copy,           \* the record these tasks see: state.persist, or PROG_REC
    astray,         \* copy was changed and the request to save it was not sent
    dom,            \* the domain: "starting", "running", "waiting", "leaving"
    http,           \* the web server: "idle", "put", "upload", "exit", "leaving"
    ui,             \* the pairing screen: "idle", "exit", "leaving"
    snapshot,       \* what a PUT sent to be saved, while it waits
    slots,          \* firmware slots: how many chunks, of which image
    active,         \* the slot the bootloader starts
    requests, reboots, uploads

taskVars == <<mode, copy, astray, dom, http, ui, snapshot, slots, active>>
counters == <<requests, reboots, uploads>>
vars == <<storageVars, taskVars, counters>>

Init ==
    /\ mode = "off"
    /\ flash \in FirstFlash
    /\ record = DefaultRecord /\ published = DefaultRecord /\ copy = DefaultRecord
    /\ ctrl = <<>> /\ unseen = FALSE /\ ack = None /\ seed = 0 /\ held = FALSE
    /\ faults = 0 /\ astray = FALSE
    /\ dom = "starting" /\ http = "idle" /\ ui = "idle" /\ snapshot = NoRecord
    /\ slots = [s \in 1..2 |-> IF s = 1 THEN <<0, Chunks>> ELSE <<0, 0>>] /\ active = 1
    /\ requests = 0 /\ reboots = 0 /\ uploads = 0

\* Programming mode has its tasks and no domain; its record shows the flag.
Reboot(f, n) ==
    \E e \in Entropies, loaded \in Load(f, n < MaxFaults) :
        LET own     == Completed(loaded[1], e)
            programming == EnterProgramming(own)
        IN  /\ Boot(f, n, e, loaded)
            /\ mode' = IF programming THEN "prog" ELSE "run"
            /\ copy' = IF programming THEN [own EXCEPT !.prog = TRUE] ELSE DefaultRecord
            /\ astray' = FALSE
            /\ dom' = "starting" /\ http' = "idle" /\ ui' = "idle" /\ snapshot' = NoRecord

PowerOn ==
    /\ mode = "off"
    /\ Reboot(flash, faults)
    /\ UNCHANGED <<slots, active, counters>>

SoftwareReset ==
    /\ reboots < MaxReboots
    /\ reboots' = reboots + 1
    /\ Reboot(flash, faults)
    /\ UNCHANGED <<slots, active, requests, uploads>>

\* Power lost in a write tears the sector; at any other moment it only restarts.
PowerCut ==
    /\ mode # "off" /\ faults < MaxFaults
    /\ \E f \in {flash} \cup (IF ctrl = <<>> \/ held THEN {}
                              ELSE UNION {Torn(r) : r \in Applied(Head(ctrl), record)}) :
        Reboot(f, faults + 1)
    /\ UNCHANGED <<slots, active, counters>>

StorageStep ==
    /\ mode # "off"
    /\ StorageTask
    /\ UNCHANGED <<taskVars, counters>>

---------------------------------------------------------------------------
(* Normal operation.                                                       *)

\* apply_persist takes the published record whole.
ApplyPersist ==
    /\ mode = "run" /\ unseen /\ dom \in {"starting", "running"}
    /\ copy' = Tidy(published)
    /\ dom' = "running"
    /\ unseen' = FALSE /\ astray' = FALSE
    /\ UNCHANGED <<flash, record, ctrl, published, ack, seed, held, faults, mode, http, ui,
                   snapshot, slots, active, counters>>

\* Some requests change the domain's own record at once.
Touched(request, r) ==
    IF request[1] \in {"device", "language", "mode", "code", "server"}
    THEN CHOOSE s \in Applied(request, r) : TRUE
    ELSE r

Ask(request) ==
    /\ mode = "run" /\ dom = "running" /\ requests < MaxRequests
    /\ requests' = requests + 1
    /\ copy' = Touched(request, copy)
    /\ TrySend(request)
    /\ astray' = (astray \/ (ctrl' = ctrl /\ copy' # copy))
    /\ UNCHANGED <<flash, record, published, unseen, ack, seed, held, faults, mode, dom, http, ui,
                   snapshot, slots, active, reboots, uploads>>

\* The domain blocks until the write is told.
EnterProgrammingMode ==
    /\ mode = "run" /\ dom = "running" /\ reboots < MaxReboots
    /\ TrySend(<<"prog", TRUE>>)
    /\ dom' = "waiting"
    /\ UNCHANGED <<flash, record, published, unseen, ack, seed, held, faults, mode, copy, astray,
                   http, ui, snapshot, slots, active, counters>>

\* Mutant of EnterAcked: reset whatever the write did, as the way back does.
EnterAckedAnyhow ==
    /\ dom = "waiting" /\ ack # None
    /\ ack' = None
    /\ dom' = "leaving"
    /\ UNCHANGED <<flash, record, ctrl, published, unseen, seed, held, faults, mode, copy, astray,
                   http, ui, snapshot, slots, active, counters>>

EnterAcked ==
    /\ dom = "waiting" /\ ack # None
    /\ ack' = None
    /\ dom' = IF ack THEN "leaving" ELSE "running"
    /\ UNCHANGED <<flash, record, ctrl, published, unseen, seed, held, faults, mode, copy, astray,
                   http, ui, snapshot, slots, active, counters>>

\* 50 ms later, in which the storage task does what it can.
EnterReset ==
    /\ dom = "leaving" /\ (ctrl = <<>> \/ held)
    /\ SoftwareReset

\* A domain that waits for an answer that does not come is reset in 5 s.
Watchdog ==
    /\ dom = "waiting" /\ ack = None /\ (ctrl = <<>> \/ held)
    /\ SoftwareReset

---------------------------------------------------------------------------
(* Programming mode.                                                       *)

SyncPersist ==
    /\ mode = "prog" /\ unseen
    /\ copy' = published
    /\ unseen' = FALSE /\ astray' = FALSE
    /\ UNCHANGED <<flash, record, ctrl, published, ack, seed, held, faults, mode, dom, http, ui,
                   snapshot, slots, active, counters>>

\* A request that is refused is answered 400, and one that finds the storage task
\* busy 503; what it changed in the shared record stays.
HandleSettingsPut(put) ==
    LET applied == ApplySettingsPut(copy, put)
    IN  /\ mode = "prog" /\ http = "idle" /\ requests < MaxRequests
        /\ requests' = requests + 1
        /\ copy' = applied.rec
        /\ IF applied.error THEN UNCHANGED ctrl ELSE TrySend(<<"replace", applied.rec>>)
        /\ IF ctrl' = ctrl THEN UNCHANGED <<http, snapshot>>
           ELSE http' = "put" /\ snapshot' = applied.rec
        /\ astray' = (astray \/ (ctrl' = ctrl /\ copy' # copy))
        /\ UNCHANGED <<flash, record, published, unseen, ack, seed, held, faults, mode, dom, ui,
                       slots, active, reboots, uploads>>

\* Answered 200 or 500.
PutAcked ==
    /\ http = "put" /\ ack # None
    /\ ack' = None
    /\ http' = "idle" /\ snapshot' = NoRecord
    /\ UNCHANGED <<flash, record, ctrl, published, unseen, seed, held, faults, mode, copy, astray,
                   dom, ui, slots, active, counters>>

\* POST programming-mode/off answers first; a client that is gone stops it there.
ProgrammingModeOff ==
    /\ mode = "prog" /\ http = "idle" /\ reboots < MaxReboots
    /\ TrySend(<<"prog", FALSE>>)
    /\ http' = "exit"
    /\ UNCHANGED <<flash, record, published, unseen, ack, seed, held, faults, mode, copy, astray,
                   dom, ui, snapshot, slots, active, counters>>

\* Stop, E-Stop, or left on the first page.
PairingUiExit ==
    /\ mode = "prog" /\ ui = "idle" /\ reboots < MaxReboots
    /\ TrySend(<<"prog", FALSE>>)
    /\ ui' = "exit"
    /\ UNCHANGED <<flash, record, published, unseen, ack, seed, held, faults, mode, copy, astray,
                   dom, http, snapshot, slots, active, counters>>

\* exit_programming_mode resets whatever the write did.
HttpExitAcked ==
    /\ http = "exit" /\ ack # None
    /\ http' = "leaving" /\ ack' = None
    /\ UNCHANGED <<flash, record, ctrl, published, unseen, seed, held, faults, mode, copy, astray,
                   dom, ui, snapshot, slots, active, counters>>

UiExitAcked ==
    /\ ui = "exit" /\ ack # None
    /\ ui' = "leaving" /\ ack' = None
    /\ UNCHANGED <<flash, record, ctrl, published, unseen, seed, held, faults, mode, copy, astray,
                   dom, http, snapshot, slots, active, counters>>

ExitReset ==
    /\ "leaving" \in {http, ui} /\ (ctrl = <<>> \/ held)
    /\ SoftwareReset

---------------------------------------------------------------------------
(* Firmware.                                                               *)

Spare == 3 - active

\* An image that passed the check of its header; the flash stays locked.
FirmwareBegins ==
    /\ mode # "off" /\ http = "idle" /\ uploads < MaxUploads /\ reboots < MaxReboots
    /\ uploads' = uploads + 1
    /\ http' = "upload" /\ held' = TRUE
    /\ slots' = [slots EXCEPT ![Spare] = <<uploads + 1, 0>>]
    /\ UNCHANGED <<flash, record, ctrl, published, unseen, ack, seed, faults, mode, copy, astray,
                   dom, ui, snapshot, active, requests, reboots>>

WriteSector ==
    /\ http = "upload" /\ slots[Spare][2] < Chunks
    /\ slots' = [slots EXCEPT ![Spare][2] = @ + 1]
    /\ UNCHANGED <<storageVars, mode, copy, astray, dom, http, ui, snapshot, active, counters>>

\* The client is gone, or a write fails.
FirmwareFails ==
    /\ http = "upload"
    /\ http' = "idle" /\ held' = FALSE
    /\ UNCHANGED <<flash, record, ctrl, published, unseen, ack, seed, faults, mode, copy, astray,
                   dom, ui, snapshot, slots, active, counters>>

\* The slot is activated when all of the image is in it.  The handset is reset
\* 500 ms after the answer, if that could be sent.
FirmwareDone ==
    /\ http = "upload" /\ slots[Spare][2] = Chunks
    /\ active' = Spare
    /\ held' = FALSE
    /\ http' \in {"leaving", "idle"}
    /\ UNCHANGED <<flash, record, ctrl, published, unseen, ack, seed, faults, mode, copy, astray,
                   dom, ui, snapshot, slots, counters>>

Next ==
    \/ PowerOn \/ PowerCut \/ StorageStep
    \/ ApplyPersist \/ EnterProgrammingMode \/ EnterAcked \/ EnterReset \/ Watchdog
    \/ \E request \in Asks : Ask(request)
    \/ SyncPersist \/ PutAcked \/ ProgrammingModeOff \/ PairingUiExit
    \/ HttpExitAcked \/ UiExitAcked \/ ExitReset
    \/ \E put \in Puts : HandleSettingsPut(put)
    \/ FirmwareBegins \/ WriteSector \/ FirmwareFails \/ FirmwareDone

Spec == Init /\ [][Next]_vars

\* The executor is never idle while a task is ready, a timer due or an upload at
\* its timeout.
Tasks ==
    \/ StorageStep \/ EnterAcked \/ EnterReset \/ Watchdog \/ PutAcked \/ ExitReset
    \/ WriteSector \/ FirmwareFails \/ FirmwareDone

FairSpec == Spec /\ WF_vars(Tasks)

---------------------------------------------------------------------------
(* Properties.                                                             *)

TypeOK ==
    /\ mode \in {"off", "run", "prog"}
    /\ Len(ctrl) <= CtrlDepth
    /\ ack \in {None, TRUE, FALSE} /\ unseen \in BOOLEAN /\ held \in BOOLEAN
    /\ dom \in {"starting", "running", "waiting", "leaving"}
    /\ http \in {"idle", "put", "upload", "exit", "leaving"}
    /\ ui \in {"idle", "exit", "leaving"}
    /\ IsRecord(record) /\ IsRecord(copy) /\ IsRecord(published)
    /\ (snapshot = NoRecord) = (http # "put")
    /\ held = (http = "upload")

\* When every request is done and its publication taken, the tasks see the very
\* record the storage task keeps: no publication of an older request has undone
\* what the domain or the web server had changed at once.
QuietAgrees == (mode # "off" /\ ctrl = <<>> /\ ~unseen /\ ~astray) => copy = record

\* The handset resets into programming mode only when the flag is on flash, so
\* that the boot finds it (task.rs 614-642).
EnterIsDurable == dom = "leaving" => Decode(flash) # NoRecord /\ Decode(flash).prog

\* While the pairing screen is not leaving too, a settings request answered 200
\* has its very record on flash, to be read with its roster sorted
\* (http_server.rs 236-245).
AnsweredIsSaved ==
    [][http = "put" /\ http' = "idle" /\ mode' = mode /\ ui = "idle" /\ ack = TRUE
        => Decode(flash) = Tidy(Completed(snapshot, seed))]_vars

Waiting == dom = "waiting" \/ http = "put"

\* Who waits for the storage task is answered, or reset (STORAGE_ACK, watchdog).
AskedIsAnswered == Waiting ~> ~Waiting

\* The flash as one record changed whole.
WithFlag(r) == IF EnterProgramming(r) THEN [r EXCEPT !.prog = TRUE] ELSE r
Starts(r) ==
    LET completed == {Completed(IF r = NoRecord THEN DefaultRecord ELSE r, e) : e \in Entropies}
    IN  completed \cup {WithFlag(c) : c \in completed}

Identified(r) == r.id # 0 /\ r.host # ""

Durable ==
    INSTANCE DurableRecord WITH
        durable  <- Decode(flash),
        working  <- Tidy(record),
        Whole    <- Identified,
        Complete <- Starts,
        First    <- {Decode(f) : f \in FirstFlash},
        Nothing  <- NoRecord

\* Every step of the storage task, every boot and every power cut is a change,
\* a failed change or a start of that one record.
IsDurable == Durable!Spec
=============================================================================
