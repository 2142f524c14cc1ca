-------------------------------- MODULE Usbh --------------------------------
(***************************************************************************)
(* The device objects of the USB Host Device driver (host/usb/src/usbh.c)  *)
(* and the three kinds of code that touch them concurrently:               *)
(*   - the daemon task, which runs usbh_process(), then the hub driver,    *)
(*     then the enumeration driver (usb_host_lib_handle_events());         *)
(*   - the client tasks, which open, use and close devices;                *)
(*   - the HCD interrupt, which completes URBs on EP0 pipes.               *)
(* A step is one critical section of the code.  A device object is named   *)
(* by the uid it is allocated for.  All devices hang off one root port:    *)
(* "root" directly, the others behind it, when it is a hub.                *)
(* Suspend/resume actions and non-default endpoints are not in this module.*)
(***************************************************************************)
EXTENDS Naturals, FiniteSets

CONSTANTS
    Dev,                \* device objects
    Client,             \* client tasks
    Enum,               \* the enumeration driver, an opener like the clients
    NoDev,              \* no device object
    MaxInflight,        \* bound: control transfers counted in-flight per device
    FreeAllInDaemon     \* only the daemon calls usb_host_device_free_all()

Opener == Client \cup {Enum}

ASSUME DistinctNames == NoDev \notin Dev /\ Enum \notin Client
ASSUME FiniteOpeners == IsFiniteSet(Client)
ASSUME BoundIsNat == MaxInflight \in Nat \ {0}
ASSUME FlagIsBoolean == FreeAllInDaemon \in BOOLEAN

VARIABLES
    alive,          \* devices in devs_idle_tailq or devs_pending_tailq
    pending,        \* devices in devs_pending_tailq (flags.in_pending_list)
    action,         \* action_flags of each device
    procReq,        \* USB_PROC_REQ_SOURCE_USBH is set for the daemon
    isGone,         \* flags.is_gone
    waitingFree,    \* flags.waiting_free
    enumLock,       \* flags.enum_lock
    state,          \* usb_device_state_t of each device
    openCount,      \* open_count
    held,           \* handles each opener holds
    inflight,       \* num_ctrl_xfers_inflight
    xfer,           \* where each opener's control URB for each device is
    halted,         \* the HCD pipe of EP0 is halted
    pc,             \* where the daemon task is
    cur, todo,      \* device being processed, actions still to be handled
    dequeued,       \* num_urbs of handle_ep0_dequeue()
    conn, root,     \* conn_dev_ena of the HCD port, the device attached to it
    freeing         \* free_all was called and ALL_FREE is still owed

listVars == <<pending, action, procReq>>
doomVars == <<isGone, waitingFree>>
enumVars == <<enumLock, state>>
useVars  == <<openCount, held>>
procVars == <<pc, cur, todo, dequeued>>
portVars == <<conn, root>>
vars == <<alive, listVars, doomVars, enumVars, useVars, inflight, xfer, halted,
          procVars, portVars, freeing>>

\* dev_action_t in the order in which usbh_process() handles the flags.
Rank == [EPn_HALT_FLUSH   |-> 1, EP0_FLUSH     |-> 2, EP0_DEQUEUE |-> 3,
         EP0_CLEAR        |-> 4, PROP_GONE_EVT |-> 5,
         PROP_REMOVED_EVT |-> 6, FREE          |-> 7, PROP_NEW_DEV |-> 8]
Action == DOMAIN Rank

DevState  == {"default", "address", "configured"}
XferState == {"none", "starting", "queued", "done"}
Place     == {"top", "loop", "handle", "hub", "enum"}

TypeOK ==
    /\ alive \subseteq Dev /\ pending \subseteq Dev
    /\ action \in [Dev -> SUBSET Action] /\ procReq \in BOOLEAN
    /\ isGone \in [Dev -> BOOLEAN] /\ waitingFree \in [Dev -> BOOLEAN]
    /\ enumLock \in [Dev -> BOOLEAN] /\ state \in [Dev -> DevState]
    /\ openCount \in [Dev -> Nat] /\ held \in [Opener -> SUBSET Dev]
    /\ inflight \in [Dev -> Nat] /\ halted \in [Dev -> BOOLEAN]
    /\ xfer \in [Opener -> [Dev -> XferState]]
    /\ pc \in Place /\ cur \in Dev \cup {NoDev} /\ todo \in SUBSET Action
    /\ dequeued \in Nat
    /\ conn \in BOOLEAN /\ root \in Dev \cup {NoDev} /\ freeing \in BOOLEAN

Holders(d) == {o \in Opener : d \in held[o]}
Busy(d)    == {o \in Opener : xfer[o][d] # "none"}

-----------------------------------------------------------------------------
(* Helpers of usbh.c *)

\* _dev_set_actions(), and the proc_req_cb() its callers make when it says so.
SetActions(d, flags) ==
    /\ action' = [action EXCEPT ![d] = @ \cup flags]
    /\ pending' = pending \cup {d}
    /\ procReq' = (procReq \/ d \notin pending)

\* Bugs: a gone or waiting device, or one that is being enumerated, is opened.
DevOpen_Doomed(o, d) ==
    /\ d \in alive /\ ~enumLock[d]
    /\ openCount' = [openCount EXCEPT ![d] = @ + 1]
    /\ held' = [held EXCEPT ![o] = @ \cup {d}]

\* _dev_open() on success; its failures change nothing.
DevOpen(o, d) ==
    /\ d \in alive /\ ~isGone[d] /\ ~waitingFree[d] /\ ~enumLock[d]
    /\ openCount' = [openCount EXCEPT ![d] = @ + 1]
    /\ held' = [held EXCEPT ![o] = @ \cup {d}]

\* Bug: a close that is not the last one frees.
DevClose_NotLast(o, d, extra) ==
    LET flags == extra \cup IF isGone[d] \/ waitingFree[d] THEN {"FREE"} ELSE {}
    IN  /\ openCount' = [openCount EXCEPT ![d] = @ - 1]
        /\ held' = [held EXCEPT ![o] = @ \ {d}]
        /\ IF flags = {} THEN UNCHANGED listVars ELSE SetActions(d, flags)

\* usbh_dev_close(); extra are the flags the caller sets right after it.
DevClose(o, d, extra) ==
    LET last  == openCount[d] = 1
        flags == extra \cup
                 IF last /\ (isGone[d] \/ waitingFree[d]) THEN {"FREE"} ELSE {}
    IN  /\ openCount' = [openCount EXCEPT ![d] = @ - 1]
        /\ held' = [held EXCEPT ![o] = @ \ {d}]
        /\ IF flags = {} THEN UNCHANGED listVars ELSE SetActions(d, flags)

-----------------------------------------------------------------------------
(* The daemon task: usb_host_lib_handle_events() and usbh_process() *)

Wake ==
    /\ pc = "top"
    /\ pc' = IF procReq THEN "loop" ELSE "hub"
    /\ procReq' = FALSE
    /\ UNCHANGED <<alive, pending, action, doomVars, enumVars, useVars, inflight,
                   xfer, halted, cur, todo, dequeued, portVars, freeing>>

\* Takes a pending device and snapshots its flags.
ProcTake(d) ==
    /\ pc = "loop" /\ d \in pending
    /\ pc' = "handle" /\ cur' = d /\ todo' = action[d]
    /\ pending' = pending \ {d}
    /\ action' = [action EXCEPT ![d] = {}]
    /\ UNCHANGED <<alive, procReq, doomVars, enumVars, useVars, inflight, xfer,
                   halted, dequeued, portVars, freeing>>

\* From one part of the daemon's round to the next.
NextPart(from, to) ==
    /\ pc = from /\ pc' = to
    /\ UNCHANGED <<alive, listVars, doomVars, enumVars, useVars, inflight, xfer,
                   halted, cur, todo, dequeued, portVars, freeing>>

ProcEnd == pending = {} /\ NextPart("loop", "hub")
HubEnd  == NextPart("hub", "enum")
EnumEnd == (\A d \in Dev : xfer[Enum][d] # "starting") /\ NextPart("enum", "top")

Due(a) == /\ pc = "handle" /\ a \in todo
          /\ \A b \in todo : Rank[a] <= Rank[b]

\* The handled flags are dropped; after the last one the loop goes on.
Finish(flags) ==
    /\ todo' = todo \ flags
    /\ pc' = IF todo' = {} THEN "loop" ELSE "handle"
    /\ cur' = IF todo' = {} THEN NoDev ELSE cur

\* handle_epn_halt_flush() and the event propagations: no state of ours.
HandleSimple(a) ==
    /\ a \in {"EPn_HALT_FLUSH", "PROP_GONE_EVT", "PROP_REMOVED_EVT", "PROP_NEW_DEV"}
    /\ Due(a) /\ Finish({a})
    /\ UNCHANGED <<alive, listVars, doomVars, enumVars, useVars, inflight, xfer,
                   halted, dequeued, portVars, freeing>>

\* handle_ep0_flush(): every URB of the halted pipe is retired to its done
\* list, and the pipe calls ep0_pipe_callback(URB_DONE) if there was any.
HandleEp0Flush ==
    /\ Due("EP0_FLUSH") /\ Finish({"EP0_FLUSH"})
    /\ halted' = [halted EXCEPT ![cur] = TRUE]
    /\ xfer' = [o \in Opener |->
                  [xfer[o] EXCEPT ![cur] = IF @ = "queued" THEN "done" ELSE @]]
    /\ IF \E o \in Opener : xfer[o][cur] = "queued"
       THEN SetActions(cur, {"EP0_DEQUEUE"})
       ELSE UNCHANGED listVars
    /\ UNCHANGED <<alive, doomVars, enumVars, useVars, inflight, dequeued,
                   portVars, freeing>>

\* handle_ep0_dequeue(): one hcd_urb_dequeue() and the CTRL_XFER event.
HandleEp0Dequeue(o) ==
    /\ Due("EP0_DEQUEUE") /\ xfer[o][cur] = "done"
    /\ xfer' = [xfer EXCEPT ![o][cur] = "none"]
    /\ dequeued' = dequeued + 1
    /\ UNCHANGED <<alive, listVars, doomVars, enumVars, useVars, inflight, halted,
                   pc, cur, todo, portVars, freeing>>

\* Bug: num_urbs is not reset from one call to the next.
HandleEp0DequeueEnd_NoReset ==
    /\ Due("EP0_DEQUEUE") /\ \A o \in Opener : xfer[o][cur] # "done"
    /\ inflight' = [inflight EXCEPT ![cur] = @ - dequeued]
    /\ Finish({"EP0_DEQUEUE"})
    /\ UNCHANGED <<alive, listVars, doomVars, enumVars, useVars, xfer, halted,
                   dequeued, portVars, freeing>>

\* ... and, once the pipe has no more done URBs, the late accounting.
HandleEp0DequeueEnd ==
    /\ Due("EP0_DEQUEUE") /\ \A o \in Opener : xfer[o][cur] # "done"
    /\ inflight' = [inflight EXCEPT ![cur] = @ - dequeued]
    /\ dequeued' = 0
    /\ Finish({"EP0_DEQUEUE"})
    /\ UNCHANGED <<alive, listVars, doomVars, enumVars, useVars, xfer, halted,
                   portVars, freeing>>

\* handle_ep0_clear(): fails, and may, when the port has no enabled device.
HandleEp0Clear ==
    /\ Due("EP0_CLEAR") /\ Finish({"EP0_CLEAR"})
    /\ halted' = [halted EXCEPT ![cur] = ~conn /\ @]
    /\ UNCHANGED <<alive, listVars, doomVars, enumVars, useVars, inflight, xfer,
                   dequeued, portVars, freeing>>

\* handle_free(), which excludes PROP_NEW_DEV; what is left of the object is
\* what calloc() will give its successor.  ALL_FREE settles free_all, and
\* DEV_FREE makes the hub driver recycle the port.
HandleFree ==
    /\ Due("FREE") /\ Finish({"FREE", "PROP_NEW_DEV"})
    /\ alive' = alive \ {cur}
    /\ pending' = pending \ {cur}
    /\ action' = [action EXCEPT ![cur] = {}]
    /\ isGone' = [isGone EXCEPT ![cur] = FALSE]
    /\ waitingFree' = [waitingFree EXCEPT ![cur] = FALSE]
    /\ enumLock' = [enumLock EXCEPT ![cur] = FALSE]
    /\ state' = [state EXCEPT ![cur] = "default"]
    /\ halted' = [halted EXCEPT ![cur] = FALSE]
    /\ freeing' = (freeing /\ alive' # {})
    /\ root' = IF root = cur THEN NoDev ELSE root
    /\ UNCHANGED <<procReq, useVars, inflight, xfer, dequeued, conn>>

-----------------------------------------------------------------------------
(* What the hub driver calls *)

\* usbh_devs_add() on success: no device with address 0 on the root port.  The
\* root port's device is added when the port has been reset and enabled, a
\* device behind it while the hub it is connected to is in use.
DevsAdd(d) ==
    /\ pc = "hub" /\ d \notin alive
    /\ \A e \in alive : state[e] # "default"
    /\ \/ root = NoDev /\ ~conn /\ root' = d /\ conn' = TRUE
       \/ /\ root # NoDev /\ conn /\ state[root] = "configured" /\ ~isGone[root]
          /\ UNCHANGED portVars
    /\ alive' = alive \cup {d}
    /\ UNCHANGED <<listVars, doomVars, enumVars, useVars, inflight, xfer, halted,
                   procVars, freeing>>

\* Bug: the URBs of a gone device are not flushed.
DevsRemove_NoFlush(d) ==
    /\ pc = "hub" /\ d \in alive /\ ~isGone[d] /\ (d = root => ~conn)
    /\ isGone' = [isGone EXCEPT ![d] = TRUE]
    /\ SetActions(d, IF openCount[d] = 0 THEN {"PROP_REMOVED_EVT", "FREE"}
                                         ELSE {"PROP_GONE_EVT"})
    /\ UNCHANGED <<alive, waitingFree, enumVars, useVars, inflight, xfer, halted,
                   procVars, portVars, freeing>>

\* usbh_devs_remove(), once per device node.
DevsRemove(d) ==
    /\ pc = "hub" /\ d \in alive /\ ~isGone[d]
    /\ d = root => ~conn
    /\ isGone' = [isGone EXCEPT ![d] = TRUE]
    /\ SetActions(d, IF openCount[d] = 0
                     THEN {"PROP_REMOVED_EVT", "FREE"}
                     ELSE {"EPn_HALT_FLUSH", "EP0_FLUSH", "EP0_DEQUEUE",
                           "PROP_GONE_EVT"})
    /\ UNCHANGED <<alive, waitingFree, enumVars, useVars, inflight, xfer, halted,
                   procVars, portVars, freeing>>

-----------------------------------------------------------------------------
(* What the enumeration driver calls.  The callback that reports a device  *)
(* as disconnected cancels the enumeration before it removes the device,   *)
(* so that a gone device is no longer enumerated.                          *)

\* enum_start(): usbh_devs_open_uid() and usbh_dev_enum_lock().
EnumStart(d) ==
    /\ pc \in {"hub", "enum"} /\ held[Enum] = {}
    /\ state[d] = "default" /\ openCount[d] = 0
    /\ DevOpen(Enum, d)
    /\ enumLock' = [enumLock EXCEPT ![d] = TRUE]
    /\ UNCHANGED <<alive, listVars, doomVars, state, inflight, xfer, halted,
                   procVars, portVars, freeing>>

\* usbh_dev_set_addr() and usbh_dev_set_config_desc() on success.
EnumAdvance(d) ==
    /\ pc = "enum" /\ enumLock[d] /\ ~isGone[d] /\ xfer[Enum][d] = "none"
    /\ \/ state[d] = "default" /\ state' = [state EXCEPT ![d] = "address"]
       \/ state[d] = "address" /\ state' = [state EXCEPT ![d] = "configured"]
    /\ UNCHANGED <<alive, listVars, doomVars, enumLock, useVars, inflight, xfer,
                   halted, procVars, portVars, freeing>>

\* usbh_dev_enum_unlock() and usbh_dev_close().
EnumRelease(d, extra) ==
    /\ enumLock[d] /\ xfer[Enum][d] = "none"
    /\ enumLock' = [enumLock EXCEPT ![d] = FALSE]
    /\ DevClose(Enum, d, extra)
    /\ UNCHANGED <<alive, doomVars, state, inflight, xfer, halted, procVars,
                   portVars, freeing>>

\* enum_cancel() when nothing is in flight, else stage_cancel() once it is back.
EnumCancel(d) == pc \in {"hub", "enum"} /\ EnumRelease(d, {})

\* stage_complete() and, from its event, usbh_devs_new_dev_event().
EnumComplete(d) == /\ pc = "enum" /\ state[d] = "configured" /\ ~isGone[d]
                   /\ EnumRelease(d, {"PROP_NEW_DEV"})

-----------------------------------------------------------------------------
(* What the client tasks call *)

\* usb_host_device_open(): by address, and address 0 is refused.  No client
\* registers once the application has called free_all.
Open(c, d) ==
    /\ d \notin held[c] /\ state[d] # "default"
    /\ ~freeing
    /\ DevOpen(c, d)
    /\ UNCHANGED <<alive, listVars, doomVars, enumVars, inflight, xfer, halted,
                   procVars, portVars, freeing>>

\* usb_host_device_close(), by a client all of whose transfers came back.
Close(c, d) ==
    /\ d \in held[c] /\ ~enumLock[d] /\ xfer[c][d] = "none"
    /\ DevClose(c, d, {})
    /\ UNCHANGED <<alive, doomVars, enumVars, inflight, xfer, halted, procVars,
                   portVars, freeing>>

\* usbh_dev_submit_ctrl_urb(): count, enqueue, undo the count on failure.
SubmitCount(o, d) ==
    /\ d \in held[o] /\ xfer[o][d] = "none" /\ inflight[d] < MaxInflight
    /\ o = Enum => pc = "enum" /\ ~isGone[d]
    /\ inflight' = [inflight EXCEPT ![d] = @ + 1]
    /\ xfer' = [xfer EXCEPT ![o][d] = "starting"]
    /\ UNCHANGED <<alive, listVars, doomVars, enumVars, useVars, halted, procVars,
                   portVars, freeing>>

SubmitEnqueue(o, d) ==
    /\ xfer[o][d] = "starting" /\ conn /\ ~halted[d]
    /\ xfer' = [xfer EXCEPT ![o][d] = "queued"]
    /\ UNCHANGED <<alive, listVars, doomVars, enumVars, useVars, inflight, halted,
                   procVars, portVars, freeing>>

\* Bug: the count of a URB that was refused is kept.
SubmitFail_Counted(o, d) ==
    /\ xfer[o][d] = "starting"
    /\ halted[d] \/ ~conn \/ (cur = d /\ Due("EP0_FLUSH"))
    /\ xfer' = [xfer EXCEPT ![o][d] = "none"]
    /\ UNCHANGED <<alive, listVars, doomVars, enumVars, useVars, inflight, halted,
                   procVars, portVars, freeing>>

\* The pipe refuses, also while it is processing the halt command.
SubmitFail(o, d) ==
    /\ xfer[o][d] = "starting"
    /\ halted[d] \/ ~conn \/ (cur = d /\ Due("EP0_FLUSH"))
    /\ inflight' = [inflight EXCEPT ![d] = @ - 1]
    /\ xfer' = [xfer EXCEPT ![o][d] = "none"]
    /\ UNCHANGED <<alive, listVars, doomVars, enumVars, useVars, halted, procVars,
                   portVars, freeing>>

\* usbh_devs_mark_all_free(), behind usb_host_device_free_all()'s check that
\* no client is registered.
MarkAllFree ==
    LET unused == {d \in alive : openCount[d] = 0}
    IN  /\ alive # {} /\ ~freeing /\ \A c \in Client : held[c] = {}
        /\ FreeAllInDaemon => pc = "top"
        /\ action' = [d \in Dev |-> IF d \in unused THEN action[d] \cup {"FREE"}
                                                    ELSE action[d]]
        /\ pending' = pending \cup unused
        /\ procReq' = (procReq \/ ~(unused \subseteq pending))
        /\ waitingFree' = [d \in Dev |-> waitingFree[d] \/ d \in alive \ unused]
        /\ freeing' = TRUE
        /\ UNCHANGED <<alive, isGone, enumVars, useVars, inflight, xfer, halted,
                       procVars, portVars>>

-----------------------------------------------------------------------------
(* The HCD interrupt: completions of EP0 URBs and the loss of the device *)

\* The flags ep0_pipe_callback() sets for an event of the pipe.
EventActions(event) ==
    CASE event = "URB_DONE"    -> {"EP0_DEQUEUE"}
      [] event = "ERROR_STALL" -> {"EP0_DEQUEUE", "EP0_CLEAR"}
      [] event = "ERROR_XFER"  -> {"EP0_FLUSH", "EP0_DEQUEUE", "EP0_CLEAR"}

UrbDone(o, d, event) ==
    /\ xfer[o][d] = "queued" /\ conn /\ ~halted[d]
    /\ xfer' = [xfer EXCEPT ![o][d] = "done"]
    /\ halted' = [halted EXCEPT ![d] = event # "URB_DONE"]
    /\ SetActions(d, EventActions(event))
    /\ UNCHANGED <<alive, doomVars, enumVars, useVars, inflight, procVars,
                   portVars, freeing>>

\* The port reports a disconnection or an error, or is disabled: conn_dev_ena is
\* cleared in the interrupt, the hub driver calls usbh_devs_remove() only later.
PortLost ==
    /\ conn /\ conn' = FALSE
    /\ UNCHANGED <<alive, listVars, doomVars, enumVars, useVars, inflight, xfer,
                   halted, procVars, root, freeing>>

-----------------------------------------------------------------------------
Init ==
    /\ alive = {} /\ pending = {} /\ action = [d \in Dev |-> {}]
    /\ procReq = FALSE
    /\ isGone = [d \in Dev |-> FALSE] /\ waitingFree = [d \in Dev |-> FALSE]
    /\ enumLock = [d \in Dev |-> FALSE] /\ state = [d \in Dev |-> "default"]
    /\ openCount = [d \in Dev |-> 0] /\ held = [o \in Opener |-> {}]
    /\ inflight = [d \in Dev |-> 0] /\ halted = [d \in Dev |-> FALSE]
    /\ xfer = [o \in Opener |-> [d \in Dev |-> "none"]]
    /\ pc = "top" /\ cur = NoDev /\ todo = {} /\ dequeued = 0
    /\ conn = FALSE /\ root = NoDev /\ freeing = FALSE

Daemon ==
    \/ Wake \/ ProcEnd \/ HubEnd \/ EnumEnd
    \/ \E d \in Dev : ProcTake(d)
    \/ \E a \in Action : HandleSimple(a)
    \/ HandleEp0Flush \/ HandleEp0DequeueEnd \/ HandleEp0Clear \/ HandleFree
    \/ \E o \in Opener : HandleEp0Dequeue(o)

Hub == \E d \in Dev : DevsAdd(d) \/ DevsRemove(d)

Enumeration ==
    \E d \in Dev : EnumStart(d) \/ EnumAdvance(d) \/ EnumCancel(d) \/ EnumComplete(d)

Clients == MarkAllFree \/ \E c \in Client, d \in Dev : Open(c, d) \/ Close(c, d)

Submission == \E o \in Opener, d \in Dev :
                 SubmitCount(o, d) \/ SubmitEnqueue(o, d) \/ SubmitFail(o, d)

Hcd == \/ PortLost
       \/ \E o \in Opener, d \in Dev,
             event \in {"URB_DONE", "ERROR_STALL", "ERROR_XFER"} : UrbDone(o, d, event)

Next == Daemon \/ Hub \/ Enumeration \/ Clients \/ Submission \/ Hcd

Spec == Init /\ [][Next]_vars

-----------------------------------------------------------------------------
(* Fairness.  The daemon task runs forever and hcd_process() completes what *)
(* it was given; an event of the port is serviced in a later round of the   *)
(* daemon; a client that was told that a device is gone closes it once its  *)
(* transfers are back.  devs_pending_tailq is a queue: no device is passed  *)
(* over forever.  hub_process() and enum_process() return after one event   *)
(* or stage.                                                                *)
Fairness ==
    /\ WF_vars(Daemon) /\ SF_vars(HubEnd) /\ SF_vars(EnumEnd)
    /\ \A d \in Dev : SF_vars(ProcTake(d))
    /\ \A d \in Dev : SF_vars(~conn /\ DevsRemove(d))
    /\ \A d \in Dev : SF_vars(isGone[d] /\ EnumCancel(d))
    /\ \A o \in Opener, d \in Dev :
          /\ WF_vars(SubmitEnqueue(o, d) \/ SubmitFail(o, d))
          /\ WF_vars(\E e \in {"URB_DONE", "ERROR_STALL", "ERROR_XFER"} : UrbDone(o, d, e))
    /\ \A c \in Client, d \in Dev : SF_vars(isGone[d] /\ Close(c, d))

FairSpec == Spec /\ Fairness

-----------------------------------------------------------------------------
(* Properties *)

\* open_count counts exactly the handles in use, whatever the order of opens,
\* closes, enumeration and disconnection.
RefCount == \A d \in Dev : openCount[d] = Cardinality(Holders(d))

\* num_ctrl_xfers_inflight counts the URBs between submission and dequeueing,
\* and those handle_ep0_dequeue() has taken but not yet deducted.
InflightAccounting ==
    \A d \in Dev : inflight[d] = Cardinality(Busy(d)) + (IF d = cur THEN dequeued ELSE 0)

\* The counters that decide whether a device may be freed and a transfer submitted.
CountersAreExact == RefCount /\ InflightAccounting

\* Nobody holds, uses or processes a device object that was freed.
NoUseAfterFree ==
    /\ \A o \in Opener : held[o] \subseteq alive
    /\ \A d \in Dev : Busy(d) # {} => d \in alive
    /\ pending \subseteq alive
    /\ cur \in alive \cup {NoDev}

FreeRequested(d) == "FREE" \in action[d] \/ (d = cur /\ "FREE" \in todo)

\* Once freeing a device was requested nobody can open it again: handle_free()
\* finds it unopened, and with no URB in its pipe, which hcd_pipe_free() checks.
\* And none leaks: a device that is gone or waits to be freed, and that nobody has
\* open, is always on its way to handle_free().
FreedWhenUnused ==
    /\ \A d \in Dev : FreeRequested(d) => Holders(d) = {} /\ Busy(d) = {}
    /\ \A d \in alive : (isGone[d] \/ waitingFree[d]) /\ Holders(d) = {} => FreeRequested(d)

\* A device that nobody has open has no control transfer in flight, which
\* usbh_dev_close() asserts of the last close.  The count may be late: it still has
\* those that handle_ep0_dequeue() gave back and has not deducted, and the assertion
\* fails for a client that closes in between.
CloseSanity ==
    \A d \in Dev : openCount[d] = 0 => inflight[d] = IF d = cur THEN dequeued ELSE 0

\* The assertion of usbh_dev_enum_unlock(): a device that is being enumerated
\* has the enumeration driver as its only opener.
EnumSoleOpener == \A d \in Dev : enumLock[d] => openCount[d] = 1 /\ Holders(d) = {Enum}

\* No wake-up is lost: requested actions are in the pending list, and the daemon
\* either is going through the list or has been asked to.
NoLostRequest ==
    /\ \A d \in Dev : (action[d] # {}) <=> d \in pending
    /\ pending # {} => procReq \/ pc \in {"loop", "handle"}

\* A gone device is freed, if its clients close it; and a root port that lost its
\* device gets rid of it, and can be recovered.
GoneIsFreed ==
    /\ \A d \in Dev : isGone[d] ~> d \notin alive
    /\ (~conn /\ root # NoDev) ~> (root = NoDev)

-----------------------------------------------------------------------------
(* What the device objects promise *)

Doomed(d) == isGone[d] \/ waitingFree[d] \/ FreeRequested(d)

Life == INSTANCE DeviceLife WITH
    User  <- Opener,
    life  <- [d \in Dev |-> IF d \notin alive THEN "absent"
                            ELSE IF Doomed(d) THEN "doomed" ELSE "live"],
    users <- [d \in Dev |-> Holders(d)],
    work  <- [d \in Dev |-> Busy(d)]

\* usbh.c implements the life cycle that DeviceLife states.
LifeSpec == Life!Spec

\* What a device object owes to those who use it, all in all: nobody uses one that
\* was freed, it is freed when the last reason to keep it is gone, it is closed
\* without transfers in flight, and no action is left that nobody will look at.
LifeIsSafe == NoUseAfterFree /\ FreedWhenUnused /\ CloseSanity /\ NoLostRequest

=============================================================================
