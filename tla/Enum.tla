-------------------------------- MODULE Enum --------------------------------
(***************************************************************************)
(* The enumeration driver (host/usb/src/enum.c): its stages, its queue of  *)
(* devices that wait, and how the daemon's round (usb_host.c) and the hub  *)
(* driver's events drive it.  All of it runs in the daemon task; what may  *)
(* happen in between is that a transfer completes, a device is unplugged   *)
(* or a client opens or closes an enumerated device.                       *)
(* A device is named by the uid of its node, which the hub driver reuses.  *)
(* The contents of descriptors are reduced to whether a stage accepts them *)
(* and which strings the device names.                                     *)
(***************************************************************************)
EXTENDS Naturals, Sequences, FiniteSets

CONSTANTS
    MaxUid,         \* bound: devices alive at once
    MaxAddr,        \* ENUM_MAX_ADDRESS
    QueueLen,       \* ENUM_PENDING_QUEUE_LEN
    Environments    \* what the devices and the user may do, see Uses

ASSUME BoundsAreNat == {MaxUid, MaxAddr, QueueLen} \subseteq Nat \ {0}
\* An address is free whenever one is looked for.
ASSUME EnoughAddresses == MaxUid < MaxAddr
ASSUME QueueFits == QueueLen >= 1

\* An environment says whether there is a hub, and what may happen, see Uses.
ASSUME EnvironmentsAreTyped == \A e \in Environments : e.hub \in BOOLEAN

Uid == 1..MaxUid
NoDev == 0

VARIABLES
    stage,          \* the stage of the enumeration
    nodeUid,        \* node_uid, 0 when there is none
    devHdl,         \* dev_hdl, which the enumerator holds open and locked
    context,        \* urb->transfer.context
    newAddr,        \* dev_params.new_dev_addr
    strs,           \* the non-zero string indexes of dev_params
    nextAddr,       \* next_dev_addr
    pending,        \* pending_uids
    urb,            \* where the enumerator's URB is
    enumReq, turn,  \* the ENUM flag set for the daemon, and taken by it
    pc,             \* the part of the round the daemon is in
    alive, gone,    \* device objects in the USBH, those with is_gone
    addr, state,    \* address and state of each device object
    link,           \* devices whose port has no disconnection to report
    resetting,      \* the node's port on an external hub is being reset
    inUse,          \* devices that a client holds open
    outcome,        \* the last event sent for each device
    env, crash      \* the environment, the check that stopped the program

enumVars == <<stage, nodeUid, devHdl, context, newAddr, strs, nextAddr, pending>>
devVars  == <<alive, gone, addr, state>>
vars == <<enumVars, urb, enumReq, turn, pc, devVars, link, resetting, inUse,
          outcome, env, crash>>

\* enum_stage_t; a stage is followed by the next one when it passes.
Stages == <<
    "GET_SHORT_DEV_DESC", "CHECK_SHORT_DEV_DESC",
    "SECOND_RESET", "SECOND_RESET_COMPLETE",
    "SET_ADDR", "CHECK_ADDR", "SET_ADDR_RECOVERY",
    "GET_FULL_DEV_DESC", "CHECK_FULL_DEV_DESC", "SELECT_CONFIG",
    "GET_SHORT_CONFIG_DESC", "CHECK_SHORT_CONFIG_DESC",
    "GET_FULL_CONFIG_DESC", "CHECK_FULL_CONFIG_DESC",
    "GET_SHORT_LANGID", "CHECK_SHORT_LANGID", "GET_FULL_LANGID", "CHECK_FULL_LANGID",
    "GET_SHORT_MANU", "CHECK_SHORT_MANU", "GET_FULL_MANU", "CHECK_FULL_MANU",
    "GET_SHORT_PROD", "CHECK_SHORT_PROD", "GET_FULL_PROD", "CHECK_FULL_PROD",
    "GET_SHORT_SER", "CHECK_SHORT_SER", "GET_FULL_SER", "CHECK_FULL_SER",
    "SET_CONFIG", "CHECK_CONFIG", "COMPLETE">>
Pos(s) == CHOOSE i \in DOMAIN Stages : Stages[i] = s
Between(a, b) == {Stages[i] : i \in Pos(a)..Pos(b)}

Gets == {"GET_SHORT_DEV_DESC", "SET_ADDR", "GET_FULL_DEV_DESC",
         "GET_SHORT_CONFIG_DESC", "GET_FULL_CONFIG_DESC", "SET_CONFIG"} \cup
        {"GET_SHORT_LANGID", "GET_FULL_LANGID", "GET_SHORT_MANU", "GET_FULL_MANU",
         "GET_SHORT_PROD", "GET_FULL_PROD", "GET_SHORT_SER", "GET_FULL_SER"}
Checks == {Stages[Pos(s) + 1] : s \in Gets}
StringStages == Between("GET_SHORT_LANGID", "CHECK_FULL_SER")
StringName == {"MANU", "PROD", "SER"}
FirstOf == [MANU |-> "GET_SHORT_MANU", PROD |-> "GET_SHORT_PROD", SER |-> "GET_SHORT_SER"]
LastOf  == [MANU |-> "CHECK_FULL_MANU", PROD |-> "CHECK_FULL_PROD", SER |-> "CHECK_FULL_SER"]
StagesOf(x) == Between(FirstOf[x], LastOf[x])

Uses == env.uses
Hub  == env.hub

TypeOK ==
    /\ stage \in {Stages[i] : i \in DOMAIN Stages} \cup {"IDLE", "CANCEL"}
    /\ {nodeUid, devHdl, context} \subseteq Uid \cup {NoDev}
    /\ newAddr \in 0..MaxAddr /\ nextAddr \in 1..MaxAddr
    /\ strs \subseteq StringName
    /\ pending \in Seq(Uid) /\ Len(pending) <= QueueLen
    /\ urb \in {"idle", "flight", "done"}
    /\ {enumReq, turn, resetting} \subseteq BOOLEAN
    /\ pc \in {"wake", "usbh", "hub", "enum"}
    /\ gone \subseteq alive /\ alive \subseteq Uid
    /\ inUse \subseteq alive /\ link \subseteq alive
    /\ addr \in [Uid -> 0..MaxAddr]
    /\ state \in [Uid -> {"default", "address", "configured"}]
    /\ outcome \in [Uid -> {"none", "started", "completed", "canceled"}]
    /\ env \in Environments
    /\ crash \in {"none", "lock", "address", "context"}

-----------------------------------------------------------------------------
(* set_next_stage() *)

\* stage_need_process()
NeedProcess(s) ==
    s \in Gets \cup {"SECOND_RESET", "SET_ADDR_RECOVERY", "SELECT_CONFIG",
                     "COMPLETE", "CANCEL"}

\* The stages of a string that the device does not name are skipped.
Skipped(s) == \E x \in StringName \ strs : s \in StagesOf(x)

\* The stage after one that passed.
Following(s) ==
    LET ahead == {i \in Pos(s) + 1 .. Len(Stages) : ~Skipped(Stages[i])}
    IN  Stages[CHOOSE i \in ahead : \A j \in ahead : i <= j]

\* The stage after one that failed: only reading a string may fail.  A skipped
\* stage that comes up here counts as failed itself.
AfterFailure(s) ==
    LET next == CASE s \in {"CHECK_SHORT_LANGID", "CHECK_FULL_LANGID",
                            "CHECK_SHORT_SER", "CHECK_FULL_SER"} -> "SET_CONFIG"
                  [] s \in {"CHECK_SHORT_MANU", "CHECK_FULL_MANU"} -> "GET_SHORT_PROD"
                  [] s \in {"CHECK_SHORT_PROD", "CHECK_FULL_PROD"} -> "GET_SHORT_SER"
                  [] OTHER -> "CANCEL"
    IN  IF Skipped(next) THEN "CANCEL" ELSE next

\* Bug: the next stage is not requested after a transfer was checked.
Advance_NoRequest(pass) ==
    /\ stage' = IF pass THEN Following(stage) ELSE AfterFailure(stage)
    /\ enumReq' = (enumReq \/ (NeedProcess(stage') /\ stage \notin Checks))

\* ... and the request for processing that enum_process() makes of it.
Advance(pass) ==
    /\ stage' = IF pass THEN Following(stage) ELSE AfterFailure(stage)
    /\ enumReq' = (enumReq \/ NeedProcess(stage'))

-----------------------------------------------------------------------------
(* enum_start() and the queue *)

Openable(u) == u \in alive /\ u \notin gone

\* Opens the device, which nobody else may have open, and locks it.
Begin(u) ==
    /\ stage' = "GET_SHORT_DEV_DESC"
    /\ nodeUid' = u /\ devHdl' = u /\ context' = u
    /\ strs' = {} /\ newAddr' = 0
    /\ enumReq' = TRUE
    /\ crash' = IF u \in inUse THEN "lock" ELSE crash

\* Bug: the queue is left for the next device that connects.
StartNext_Forgets(out) ==
    /\ stage' = "IDLE"
    /\ UNCHANGED <<pending, enumReq, crash, newAddr>>
    /\ strs' = {} /\ outcome' = out
    /\ nodeUid' = NoDev /\ devHdl' = NoDev /\ context' = NoDev

\* The loop at the end of enum_process(): uids that cannot be opened any more
\* are dropped.  out are the events sent so far.
StartNext(out) ==
    LET ready == {i \in DOMAIN pending : Openable(pending[i])}
        i     == CHOOSE n \in ready : \A m \in ready : n <= m
    IN  IF ready = {}
        THEN /\ stage' = "IDLE"
             /\ pending' = <<>>
             /\ nodeUid' = NoDev /\ devHdl' = NoDev /\ context' = NoDev
             /\ strs' = {} /\ newAddr' = 0
             /\ outcome' = out
             /\ UNCHANGED <<enumReq, crash>>
        ELSE /\ Begin(pending[i])
             /\ pending' = SubSeq(pending, i + 1, Len(pending))
             /\ outcome' = [out EXCEPT ![pending[i]] = "started"]

\* enum_start() for a device that has just connected; hub_event_callback()
\* ignores that the queue may be full.
EnumStart(u) ==
    IF stage = "IDLE"
    THEN /\ Begin(u)
         /\ outcome' = [outcome EXCEPT ![u] = "started"]
         /\ UNCHANGED pending
    ELSE /\ pending' = IF Len(pending) < QueueLen THEN Append(pending, u) ELSE pending
         /\ outcome' = [outcome EXCEPT ![u] = "none"]
         /\ UNCHANGED <<stage, nodeUid, devHdl, context, strs, newAddr, enumReq, crash>>

\* Bug: the device is closed at once even when a transfer is in flight.
EnumCancel_ClosesAtOnce ==
    IF stage \in {"IDLE", "CANCEL"}
    THEN UNCHANGED <<stage, devHdl, enumReq>>
    ELSE /\ stage' = "CANCEL" /\ devHdl' = NoDev
         /\ enumReq' = (enumReq \/ stage = "SECOND_RESET_COMPLETE")

\* enum_cancel(): the device is closed at once unless a transfer is in flight
\* or its reset is awaited.  Nothing depends on the uid.
EnumCancel ==
    IF stage \in {"IDLE", "CANCEL"}
    THEN UNCHANGED <<stage, devHdl, enumReq>>
    ELSE /\ stage' = "CANCEL"
         /\ devHdl' = IF NeedProcess(stage) THEN NoDev ELSE devHdl
         /\ enumReq' = (enumReq \/ stage = "SECOND_RESET_COMPLETE")

-----------------------------------------------------------------------------
(* The daemon's round: usb_host_lib_handle_events() *)

\* Takes the ENUM flag; the USBH and the hub driver may have work as well.
Wake ==
    /\ pc = "wake" /\ pc' = "usbh"
    /\ turn' = enumReq /\ enumReq' = FALSE
    /\ UNCHANGED <<enumVars, urb, devVars, link, resetting, inUse, outcome, env, crash>>

\* enum_control_transfer_complete(), which usbh_process() calls.
TransferDone ==
    /\ pc = "usbh" /\ urb = "flight"
    /\ urb' = "done" /\ enumReq' = TRUE
    /\ crash' = IF devHdl = NoDev \/ context # devHdl THEN "context" ELSE crash
    /\ UNCHANGED <<enumVars, turn, pc, devVars, link, resetting, inUse, outcome, env>>

\* The rest of usbh_process(): gone devices that nobody holds are freed.
UsbhEnd ==
    LET freed == {u \in gone : u # devHdl /\ u \notin inUse}
    IN  /\ pc = "usbh" /\ pc' = "hub"
        /\ alive' = alive \ freed /\ gone' = gone \ freed
        /\ addr' = [u \in Uid |-> IF u \in freed THEN 0 ELSE addr[u]]
        /\ state' = [u \in Uid |-> IF u \in freed THEN "default" ELSE state[u]]
        /\ outcome' = [u \in Uid |-> IF u \in freed THEN "none" ELSE outcome[u]]
        /\ UNCHANGED <<enumVars, urb, enumReq, turn, link, resetting, inUse, env, crash>>

\* dev_tree_node_new(): the smallest uid in use by nobody, counted from the
\* number of devices.
NewUid == CHOOSE u \in Cardinality(alive) + 1 .. MaxUid + 1 :
              /\ u \notin alive
              /\ \A v \in Cardinality(alive) + 1 .. u - 1 : v \in alive

\* HUB_EVENT_CONNECTED: usbh_devs_add() takes one device with address 0 at a
\* time, and the root port connects nothing else while its device is alive.
Connected ==
    /\ pc = "hub" /\ NewUid \in Uid
    /\ \A u \in alive : addr[u] # 0
    /\ Hub \/ alive = {}
    /\ alive' = alive \cup {NewUid} /\ link' = link \cup {NewUid}
    /\ EnumStart(NewUid)
    /\ UNCHANGED <<nextAddr, urb, turn, pc, gone, addr, state, resetting, inUse, env>>

\* The races that the environment "races" admits: a disconnection that the
\* daemon finds together with the end of the device's second reset, or for a
\* device other than the one that is enumerated.
MayReport(u) ==
    \/ "races" \in Uses
    \/ /\ u = nodeUid \/ stage = "IDLE"
       /\ ~(stage = "SECOND_RESET_COMPLETE" /\ (enumReq \/ turn))

\* HUB_EVENT_DISCONNECTED: enum_cancel(), then usbh_devs_remove().
Disconnected(u) ==
    /\ pc = "hub" /\ u \in alive \ (gone \cup link) /\ MayReport(u)
    /\ EnumCancel
    /\ gone' = gone \cup {u}
    /\ resetting' = (resetting /\ u # nodeUid)
    /\ UNCHANGED <<nodeUid, context, newAddr, strs, nextAddr, pending, urb, turn,
                   pc, alive, addr, state, link, inUse, outcome, env, crash>>

\* HUB_EVENT_RESET_COMPLETED of a port of an external hub: enum_proceed().
ResetCompleted ==
    /\ pc = "hub" /\ resetting /\ nodeUid \in link
    /\ resetting' = FALSE /\ enumReq' = TRUE
    /\ UNCHANGED <<enumVars, urb, turn, pc, devVars, link, inUse, outcome, env, crash>>

HubEnd ==
    /\ pc = "hub" /\ pc' = IF turn THEN "enum" ELSE "wake"
    /\ UNCHANGED <<enumVars, urb, enumReq, turn, devVars, link, resetting, inUse,
                   outcome, env, crash>>

-----------------------------------------------------------------------------
(* enum_process(): one stage, in the last part of the daemon's round *)

AtStage(ss) == pc = "enum" /\ stage \in ss /\ pc' = "wake" /\ turn' = FALSE

\* control_request(): fails when the root port has lost its device; behind a
\* hub the transfer is accepted and fails later.
Submit ==
    \/ /\ devHdl \in link \/ Hub
       /\ urb' = "flight" /\ Advance(TRUE)
    \/ /\ devHdl \notin link
       /\ urb' = urb /\ Advance(FALSE)

\* control_request_general() and control_request_string(), except for the
\* request that needs a new address.
SubmitGeneral ==
    /\ AtStage(Gets \ (StringStages \cup {"SET_ADDR"})) /\ Submit
    /\ UNCHANGED <<nodeUid, devHdl, context, newAddr, strs, nextAddr, pending, devVars,
                   link, resetting, inUse, outcome, env, crash>>

SubmitString ==
    /\ AtStage(Gets \cap StringStages) /\ Submit
    /\ UNCHANGED <<nodeUid, devHdl, context, newAddr, strs, nextAddr, pending, devVars,
                   link, resetting, inUse, outcome, env, crash>>

\* The k-th address that get_next_free_dev_addr() tries.
Try(k) == ((nextAddr - 1 + k) % MaxAddr) + 1
Owners(a) == {u \in alive : addr[u] = a}

\* The first address tried that no device has.
FreeTry == CHOOSE k \in 0..MaxAddr - 1 :
               Owners(Try(k)) = {} /\ \A j \in 0..k - 1 : Owners(Try(j)) # {}

\* get_next_free_dev_addr() closes a handle it did not get when the owner of
\* an address cannot be opened.
SubmitSetAddr ==
    /\ AtStage({"SET_ADDR"})
    /\ newAddr' = Try(FreeTry) /\ nextAddr' = newAddr'
    /\ UNCHANGED <<nodeUid, devHdl, context, strs, pending>>
    /\ crash' = IF \E j \in 0..FreeTry - 1 : Owners(Try(j)) \subseteq gone
                THEN "address" ELSE crash
    /\ Submit
    /\ UNCHANGED <<devVars, link, resetting, inUse, outcome, env>>

\* What the device may name: in the environment "sparse", any strings; else
\* a product only with a serial number, a manufacturer only with a product.
MayName(ss) ==
    \/ "sparse" \in Uses
    \/ /\ "MANU" \in ss => "PROD" \in ss
       /\ "PROD" \in ss => "SER" \in ss

\* control_response_handling(), for a response that is accepted: the stages
\* that change the device object need it in the right state.
AcceptGeneral ==
    LET was == state[devHdl]
    IN  /\ AtStage(Checks \ StringStages) /\ devHdl \in link
        /\ urb' = "idle"
        /\ Advance(CASE stage \in {"CHECK_SHORT_DEV_DESC", "CHECK_ADDR"} -> was = "default"
                     [] stage = "CHECK_FULL_DEV_DESC" -> was # "configured"
                     [] stage = "CHECK_FULL_CONFIG_DESC" -> was = "address"
                     [] OTHER -> TRUE)
        /\ addr' = IF stage = "CHECK_ADDR" /\ was = "default"
                   THEN [addr EXCEPT ![devHdl] = newAddr] ELSE addr
        /\ state' = CASE stage = "CHECK_ADDR" /\ was = "default" ->
                             [state EXCEPT ![devHdl] = "address"]
                      [] stage = "CHECK_FULL_CONFIG_DESC" /\ was = "address" ->
                             [state EXCEPT ![devHdl] = "configured"]
                      [] OTHER -> state
        /\ IF stage = "CHECK_FULL_DEV_DESC"
           THEN strs' \in {ss \in SUBSET StringName : MayName(ss)}
           ELSE UNCHANGED strs
        /\ UNCHANGED <<nodeUid, devHdl, context, newAddr, nextAddr, pending, alive,
                       gone, link, resetting, inUse, outcome, env, crash>>

\* A string is stored in the device object; nothing else depends on it.
AcceptString ==
    /\ AtStage(Checks \cap StringStages) /\ devHdl \in link
    /\ urb' = "idle" /\ Advance(TRUE)
    /\ UNCHANGED <<nodeUid, devHdl, context, newAddr, strs, nextAddr, pending, devVars,
                   link, resetting, inUse, outcome, env, crash>>

\* A stalled, failed or short transfer, or a response that is not accepted: a
\* string always may be refused, the rest in the environment "fail".
Refused ==
    /\ AtStage(Checks)
    /\ devHdl \notin link \/ stage \in StringStages \/ "fail" \in Uses
    /\ urb' = "idle" /\ Advance(FALSE)
    /\ UNCHANGED <<nodeUid, devHdl, context, newAddr, strs, nextAddr, pending, devVars,
                   link, resetting, inUse, outcome, env, crash>>

\* second_reset_request() and hub_node_reset().  The root port's reset is
\* complete when the call returns, an external hub's is reported later.
SecondReset ==
    /\ AtStage({"SECOND_RESET"})
    /\ stage' = "SECOND_RESET_COMPLETE"
    /\ resetting' = (Hub /\ nodeUid \in link)
    /\ enumReq' = (enumReq \/ (~Hub /\ nodeUid \in link))
    /\ UNCHANGED <<nodeUid, devHdl, context, newAddr, strs, nextAddr, pending, urb,
                   devVars, link, inUse, outcome, env, crash>>

\* Stages that only pass: the awaited reset, the recovery interval and, when
\* the user wants the device, the choice of a configuration.
Pass ==
    /\ AtStage({"SECOND_RESET_COMPLETE", "SET_ADDR_RECOVERY", "SELECT_CONFIG"})
    /\ Advance(TRUE)
    /\ UNCHANGED <<nodeUid, devHdl, context, newAddr, strs, nextAddr, pending, urb,
                   devVars, link, resetting, inUse, outcome, env, crash>>

\* select_active_configuration(), for a device the user does not want: the
\* stage is CANCEL when it returns, which enum_process() takes for passed.  The
\* event is not sent; what is left of node_uid and the context is not read.
Filtered ==
    /\ AtStage({"SELECT_CONFIG"}) /\ "filter" \in Uses
    /\ StartNext(outcome)
    /\ UNCHANGED <<nextAddr, urb, devVars, link, resetting, inUse, env>>

\* stage_cancel(): hub_node_disable() makes a port of an external hub report
\* its device as disconnected; the root port is not disabled, because the
\* pipes of its device are not halted.
StageCancel ==
    /\ AtStage({"CANCEL"})
    /\ urb' = "idle"
    /\ link' = IF Hub THEN link \ {nodeUid} ELSE link
    /\ resetting' = FALSE
    /\ StartNext(IF nodeUid \in alive
                 THEN [outcome EXCEPT ![nodeUid] = "canceled"] ELSE outcome)
    /\ UNCHANGED <<nextAddr, devVars, inUse, env>>

\* usbh_devs_new_dev_event() announces configured devices only.
Announced == state[devHdl] = "configured"

\* stage_complete(): the device is closed before it is announced.
StageComplete ==
    /\ AtStage({"COMPLETE"}) /\ Announced
    /\ nextAddr' = (nextAddr % MaxAddr) + 1
    /\ StartNext([outcome EXCEPT ![nodeUid] = "completed"])
    /\ UNCHANGED <<urb, devVars, link, resetting, inUse, env>>

\* enum_process() stops the program: nothing to process, or nothing to announce.
ProcessFails ==
    /\ pc = "enum"
    /\ stage = "IDLE" \/ (stage = "COMPLETE" /\ ~Announced)

-----------------------------------------------------------------------------
(* Devices and clients *)

Unplug(u) ==
    /\ "unplug" \in Uses /\ u \in link /\ ~(Hub /\ u = 1)
    /\ link' = link \ {u}
    /\ UNCHANGED <<enumVars, urb, enumReq, turn, pc, devVars, resetting, inUse,
                   outcome, env, crash>>

\* usb_host_device_open(), for an address that a client was told or listed.
ClientOpen(u) ==
    /\ "clients" \in Uses /\ Openable(u) /\ u # devHdl
    /\ outcome[u] = "completed" /\ u \notin inUse
    /\ inUse' = inUse \cup {u}
    /\ UNCHANGED <<enumVars, urb, enumReq, turn, pc, devVars, link, resetting,
                   outcome, env, crash>>

ClientClose(u) ==
    /\ u \in inUse /\ ~(Hub /\ u = 1)
    /\ inUse' = inUse \ {u}
    /\ UNCHANGED <<enumVars, urb, enumReq, turn, pc, devVars, link, resetting,
                   outcome, env, crash>>

-----------------------------------------------------------------------------
\* With an external hub, uid 1 is the hub, enumerated and in use by its driver.
Init ==
    /\ env \in Environments
    /\ stage = "IDLE" /\ nodeUid = NoDev /\ devHdl = NoDev /\ context = NoDev
    /\ newAddr = 0 /\ strs = {} /\ pending = <<>>
    /\ urb = "idle" /\ enumReq = FALSE /\ turn = FALSE /\ pc = "wake"
    /\ gone = {} /\ resetting = FALSE /\ crash = "none"
    /\ alive = IF Hub THEN {1} ELSE {}
    /\ link = alive /\ inUse = alive
    /\ nextAddr = IF Hub THEN 2 ELSE 1
    /\ addr = [u \in Uid |-> IF u \in alive THEN 1 ELSE 0]
    /\ state = [u \in Uid |-> IF u \in alive THEN "configured" ELSE "default"]
    /\ outcome = [u \in Uid |-> IF u \in alive THEN "completed" ELSE "none"]

EnumProcess ==
    \/ SubmitGeneral \/ SubmitString \/ SubmitSetAddr
    \/ AcceptGeneral \/ AcceptString \/ Refused \/ SecondReset
    \/ Pass \/ Filtered \/ StageCancel \/ StageComplete

Next ==
    \/ Wake \/ TransferDone \/ UsbhEnd
    \/ Connected \/ ResetCompleted \/ HubEnd
    \/ EnumProcess
    \/ \E u \in Uid : \/ Disconnected(u)
                      \/ Unplug(u) \/ ClientOpen(u) \/ ClientClose(u)

Spec == Init /\ [][Next]_vars

\* An event that is due stays due until the daemon looks: a transfer ends, the
\* hub driver reports a finished reset or a device that is no longer there.
Fairness ==
    /\ WF_vars(Wake) /\ WF_vars(UsbhEnd) /\ WF_vars(HubEnd)
    /\ WF_vars(EnumProcess)
    /\ SF_vars(TransferDone) /\ SF_vars(ResetCompleted)
    /\ \A u \in Uid : SF_vars(Disconnected(u))

FairSpec == Spec /\ Fairness

-----------------------------------------------------------------------------
(* Properties *)

\* No check in enum.c fails, and enum_process() is never asked to process
\* nothing: enum.c:1364 calls that what "should never occur".
NoAbort == crash = "none" /\ ~ProcessFails

\* The enumeration never waits for something that is not under way: a stage
\* is requested, or its transfer is in flight, or its reset is going on, or the
\* disconnection of its device is still to be reported (enum.c:1291).
SomebodyContinues ==
    stage # "IDLE" =>
        \/ enumReq \/ turn \/ urb = "flight"
        \/ stage = "SECOND_RESET_COMPLETE" /\ (resetting \/ nodeUid \notin link)

\* Devices on the bus have different addresses, and one at most has address 0
\* (get_next_free_dev_addr(), usbh_devs_add()).
AddressesDiffer == \A u, v \in alive : addr[u] = addr[v] => u = v

\* The URB is in flight only for the device that the enumerator has open, so
\* that its callback finds its context and usbh_dev_close() no transfer
\* (enum.c:1127, usbh.c:1334).
UrbHasOwner ==
    urb = "flight" =>
        /\ devHdl \in alive /\ context = devHdl /\ devHdl = nodeUid
        /\ stage \in Checks \cup {"CANCEL"}

\* A device that is about to be announced, or has been, went through every
\* stage that matters: it is configured, at the address it was given.
AnnouncedIsReady ==
    /\ stage = "COMPLETE" => state[devHdl] = "configured" /\ addr[devHdl] = newAddr
    /\ \A u \in alive : outcome[u] = "completed" =>
                            state[u] = "configured" /\ addr[u] # 0 /\ u # devHdl

\* enum.c:39: a string request may be refused; "in that case we just don't fetch
\* them and treat enumeration as successful".
StringsOptional ==
    [][(stage \in StringStages /\ stage' = "CANCEL") => nodeUid \notin link]_vars

\* Every enumeration ends, whatever the device does (it answers, or its port
\* reports it gone).
EnumerationEnds == stage # "IDLE" ~> stage = "IDLE" \/ stage = "GET_SHORT_DEV_DESC"

\* Every device that stays has its enumeration started.
EveryDeviceStarts ==
    \A u \in Uid : u \in alive /\ outcome[u] = "none" ~>
                       u \notin alive \/ u \in gone \/ outcome[u] # "none"

\* The enumerator, its device, its URB and the devices on the bus agree at any time,
\* although devices leave, fail and connect during an enumeration.
Consistent ==
    /\ TypeOK /\ NoAbort /\ SomebodyContinues
    /\ AddressesDiffer /\ UrbHasOwner /\ AnnouncedIsReady

=============================================================================
