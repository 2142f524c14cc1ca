------------------------------ MODULE ExtPort ------------------------------
(***************************************************************************)
(* What the drivers of external hubs and of their ports share, and the     *)
(* driver of one port (host/usb/src/ext_port.c, with parts of ext_hub.c    *)
(* and hub.c): the state of one hub, how either driver asks for            *)
(* processing, the calls between them, to the device objects and to the    *)
(* enumeration driver; and the state machine of a port, driven by the      *)
(* status that the hub reports, with the functions by which the hub's      *)
(* driver commands it.  All the code runs in the daemon task and calls     *)
(* back and forth, so a handler is an operator from the state of the       *)
(* daemon, the record w, to its next state.  ok is the outcome of a        *)
(* device's registration, when the handler comes to register one.          *)
(***************************************************************************)
EXTENDS Naturals, Sequences, SequencesExt

CONSTANTS
    NPorts,         \* bNbrPorts
    ResetAttempts   \* EXT_PORT_RESET_ATTEMPTS

ASSUME PortsExist == NPorts \in Nat \ {0}
ASSUME AttemptsExist == ResetAttempts \in Nat \ {0}

Port == 1..NPorts

\* ext_hub_state_t (NONE and FREED: there is no object), ext_hub_stage_t, dev_action_t
HubStates  == {"NONE", "ATTACHED", "CONFIGURED", "SUSPENDED", "RELEASED", "FREED"}
HubStages  == {"IDLE", "GET_DEVICE_STATUS", "CHECK_DEVICE_STATUS", "GET_HUB_DESCRIPTOR",
               "CHECK_HUB_DESCRIPTOR", "GET_HUB_STATUS", "CHECK_HUB_STATUS",
               "CHECK_PORT_FEATURE", "CHECK_PORT_STATUS", "ERROR"}
HubActions == {"EP0_COMPLETE", "EP1_FLUSH", "EP1_DEQUEUE", "EP1_CLEAR", "REQ", "ERROR",
               "RELEASE", "FREE"}

\* ext_hub_s: open, ep, desc and ports stand for the handles of the device and of its
\* endpoint and for the allocated memory; release, children and free are what it waits for.
HubObject == [st : HubStates, stage : HubStages, acts : SUBSET HubActions, open : BOOLEAN,
              ep : Nat, desc : BOOLEAN, ports : {"none", "array", "freed"},
              release : BOOLEAN, children : BOOLEAN, free : BOOLEAN]

\* usb_hub_port_state_t and port_action_t
PortStates  == {"NOT_CONFIGURED", "POWERED_OFF", "DISCONNECTED", "DISABLED", "RESETTING", "ENABLED"}
PortActions == {"HANDLE", "DISABLE", "RECYCLE", "RESET", "GET_STATUS"}
StatusBits  == {"CONNECTION", "ENABLE", "RESET", "POWER"}
ChangeBits  == {"C_CONNECTION", "C_ENABLE", "C_RESET"}

\* ext_port_s
PortObject == [st : PortStates, present : BOOLEAN, tries : 0 .. ResetAttempts,
               acts : SUBSET PortActions, lock : BOOLEAN, outdated : BOOLEAN, gone : BOOLEAN,
               enumerated : BOOLEAN, recycle : BOOLEAN, free : BOOLEAN,
               status : SUBSET StatusBits, change : SUBSET ChangeBits]

\* port_new()
NewPort == [st |-> "NOT_CONFIGURED", present |-> FALSE, tries |-> 0, acts |-> {},
            lock |-> FALSE, outdated |-> FALSE, gone |-> FALSE, enumerated |-> FALSE,
            recycle |-> FALSE, free |-> FALSE, status |-> {}, change |-> {}]

\* A device object of the USBH: held by the enumerator, by a client, to be freed.
NoDevice == [alive |-> FALSE, held |-> FALSE, client |-> FALSE,
             gone |-> FALSE, waiting |-> FALSE, free |-> FALSE]

\* The daemon before a hub that has been enumerated is announced; no enumeration goes on.
\* desc and ports: the hub descriptor and the array of ports are allocated.
NoHub ==
    [hub |-> [st |-> "NONE", stage |-> "IDLE", acts |-> {}, open |-> FALSE, ep |-> 0,
              desc |-> FALSE, ports |-> "none",
              release |-> FALSE, children |-> FALSE, free |-> FALSE],
     port |-> [p \in Port |-> NewPort], exists |-> {}, pend |-> <<>>,
     link |-> TRUE,                             \* the hub's own port is enabled
     ctl  |-> [st |-> "idle", req |-> "none", p |-> 0, status |-> {}, change |-> {}],
     int  |-> "off", report |-> {},             \* the interrupt URB, and what it read
     node |-> {}, dev |-> [p \in Port |-> NoDevice],
     en   |-> [st |-> "idle", p |-> 0, ph |-> 1, held |-> FALSE, q |-> <<>>],
     acts |-> {}, req |-> {"usbh"}, arriving |-> TRUE, leaving |-> FALSE, crash |-> "none"]

\* assert(), ESP_ERROR_CHECK() and abort(): the first one that fails is kept.
Check(w, ok, name) == IF ok \/ w.crash # "none" THEN w ELSE [w EXCEPT !.crash = name]

Pending(w, p) == p \in ToSet(w.pend)

\* ext_hub_callback() and ext_port_callback(): a driver asks for processing.
Ask(w, driver) == [w EXCEPT !.acts = @ \cup {driver}, !.req = @ \cup {"hub"}]

\* port_set_actions(): always asks for processing.
SetPortActions(w, p, a) ==
    Ask([w EXCEPT !.pend = IF Pending(w, p) THEN @ ELSE Append(@, p),
                  !.port[p].acts = @ \cup a], "EXT_PORT")

\* _device_set_actions(); a hub is in the pending list while it has actions.
QueueHub(w, a) == [w EXCEPT !.hub.acts = @ \cup a]

\* ... and the request for processing, made when the hub was not pending yet.
SetHubActions(w, a) ==
    IF w.hub.acts # {} THEN QueueHub(w, a) ELSE Ask(QueueHub(w, a), "EXT_HUB")

\* device_error()
DeviceError(w) == SetHubActions([w EXCEPT !.hub.release = TRUE], {"ERROR", "RELEASE"})

-----------------------------------------------------------------------------
(* The requests that a port makes to its hub *)

Configured(w) == w.hub.st = "CONFIGURED"

\* usbh_dev_submit_ctrl_urb() takes the URB: the port of the hub is enabled, the
\* URB is not in use.
CanSubmit(w) == w.link /\ w.ctl.st = "idle"
Submit(w, p, req) == [w EXCEPT !.ctl.st = "flight", !.ctl.req = req, !.ctl.p = p]

\* ext_hub_request() with EXT_PORT_PARENT_REQ_CONTROL is accepted.
Accepted(w) == Configured(w) /\ CanSubmit(w)

\* ext_hub_control_request(); the stage changes before the URB is submitted.
ControlRequest(w, p, req) ==
    LET staged == [w EXCEPT !.hub.stage = IF req = "STATUS" THEN "CHECK_PORT_STATUS"
                                          ELSE "CHECK_PORT_FEATURE"]
    IN  IF ~Configured(w) THEN w
        ELSE IF CanSubmit(w) THEN Submit(staged, p, req) ELSE DeviceError(staged)

\* port_request_status()
RequestStatus(w, p) ==
    IF Accepted(w) THEN [ControlRequest(w, p, "STATUS") EXCEPT !.port[p].lock = TRUE]
    ELSE ControlRequest(w, p, "STATUS")

\* port_set_feature() and port_clear_feature()
ChangeFeature(w, p, req) ==
    IF Accepted(w) THEN [ControlRequest(w, p, req) EXCEPT !.port[p].outdated = TRUE]
    ELSE ControlRequest(w, p, req)

CanEnqueue(w) == w.link /\ w.int = "off"

\* device_enable_int_ep(): a hub that is to be released is released instead.
EnableInt(w) ==
    IF w.hub.release THEN SetHubActions(w, {"RELEASE"})
    ELSE IF CanEnqueue(w) THEN [w EXCEPT !.int = "armed"] ELSE DeviceError(w)

\* EXT_PORT_PARENT_REQ_PROC_COMPLETED, whose failure aborts the program.
StatusHandleComplete(w) ==
    EnableInt(Check(w, Configured(w) /\ (w.hub.release \/ CanEnqueue(w)), "enable"))

-----------------------------------------------------------------------------
(* Device objects and the enumeration driver *)

Opened(d) == d.held \/ d.client

\* Ask the USBH to free p's device, which nobody has open.
FreeDevice(w, p) == [w EXCEPT !.dev[p].free = TRUE, !.req = @ \cup {"usbh"}]

\* usbh_dev_close() by the enumerator or by the client.
CloseDevice(w, p, who) ==
    LET closed == [w EXCEPT !.dev[p] = [@ EXCEPT ![who] = FALSE]]
        d == closed.dev[p]
    IN  IF ~Opened(d) /\ (d.gone \/ d.waiting) THEN FreeDevice(closed, p) ELSE closed

\* enum_start(); a device that was removed meanwhile cannot be opened.
EnumStart(w, p) ==
    IF w.en.st # "idle" THEN [w EXCEPT !.en.q = Append(@, p)]
    ELSE IF w.dev[p].alive /\ ~w.dev[p].gone /\ ~w.dev[p].free
         THEN [w EXCEPT !.en = [@ EXCEPT !.st = "work", !.p = p, !.ph = 1, !.held = TRUE],
                        !.dev[p].held = TRUE, !.req = @ \cup {"enum"}]
         ELSE w

\* enum_cancel(), whichever device it is called for.  Without a transfer in
\* flight the device is closed at once.
EnumCancel(w) ==
    LET cancelled == [w EXCEPT !.en.st = "cancel"]
    IN  CASE w.en.st \in {"idle", "cancel", "cancelled"} -> w
          [] w.en.st = "work"  -> [CloseDevice(cancelled, w.en.p, "held") EXCEPT !.en.held = FALSE]
          [] w.en.st = "xfer"  -> [w EXCEPT !.en.st = "cancelled"]
          [] w.en.st \in {"done", "failed"} -> cancelled
          [] w.en.st = "reset" -> [cancelled EXCEPT !.req = @ \cup {"enum"}]

\* usbh_devs_remove(), which flushes the transfers of a device that is in use.
RemoveDevice(w, p) ==
    IF ~w.dev[p].alive THEN w
    ELSE IF Opened(w.dev[p]) THEN [w EXCEPT !.dev[p].gone = TRUE]
         ELSE FreeDevice([w EXCEPT !.dev[p].gone = TRUE], p)

\* EXT_PORT_DISCONNECTED: dev_tree_node_dev_gone() and hub_event_callback().
Disconnected(w, p) ==
    IF p \in w.node THEN RemoveDevice(EnumCancel(w), p) ELSE w

\* EXT_PORT_RESET_COMPLETED: the port must have a node.
ResetCompleted(w, p) ==
    [Check(w, p \in w.node, "no node") EXCEPT !.req = @ \cup {"enum"}]

\* dev_tree_node_new()
NodeNew(w, p) ==
    EnumStart([w EXCEPT !.node = @ \cup {p}, !.dev[p] = [NoDevice EXCEPT !.alive = TRUE]], p)

\* ext_hub_port_disable() of a port that is enabled
HubPortDisable(w, p) ==
    IF Configured(w) /\ w.port[p].st = "ENABLED" THEN SetPortActions(w, p, {"DISABLE"}) ELSE w

\* EXT_PORT_CONNECTED: the port is disabled when the speed does not fit or no device
\* object can be had (~ok).
Connected(w, p, ok) == IF ok /\ Configured(w) THEN NodeNew(w, p) ELSE HubPortDisable(w, p)

-----------------------------------------------------------------------------
(* The driver of a port *)


Conn(w, p)    == "CONNECTION" \in w.port[p].status
Enabled(w, p) == "ENABLE" \in w.port[p].status
InReset(w, p) == "RESET" \in w.port[p].status
Powered(w, p) == "POWER" \in w.port[p].status
Changed(w, p, change) == change \in w.port[p].change
Goto(w, p, st) == [w EXCEPT !.port[p].st = st]

\* The device is lost: its port waits for it to be freed.
Lose(w, p) ==
    Disconnected([w EXCEPT !.port[p].recycle = TRUE, !.port[p].present = FALSE], p)

\* port_stop_handling()
StopHandling(w, p) == [w EXCEPT !.pend = Remove(@, p), !.port[p].acts = {}]

\* Bug: the interrupt endpoint is enabled while other ports are pending.
HandleComplete_Early(w, p) == StatusHandleComplete(StopHandling(w, p))

\* handle_complete(): the last port that was handled lets the hub listen again.
HandleComplete(w, p) ==
    LET q == w.port[p]
        stopped == StopHandling(Check(w, /\ ~q.gone /\ ~q.free /\ ~q.recycle
                                         /\ q.acts = {} /\ Pending(w, p), "complete"), p)
    IN  IF stopped.pend = <<>> THEN StatusHandleComplete(stopped)
        ELSE Ask(stopped, "EXT_PORT")

\* handle_port_connection()
HandleConnection(w, p) ==
    LET q == w.port[p] IN
    CASE q.st = "POWERED_OFF" ->
           IF Powered(w, p) THEN w
           ELSE ChangeFeature(Goto(w, p, "DISCONNECTED"), p, "SET_POWER")
      [] q.st \in {"DISCONNECTED", "DISABLED"} ->
           IF ~Conn(w, p) THEN w
           ELSE IF q.present THEN Lose(w, p)
           ELSE [w EXCEPT !.port[p].tries = 0, !.port[p].st = "RESETTING",
                          !.port[p].enumerated = FALSE]
      [] q.st = "RESETTING" ->
           IF Conn(w, p) THEN w
           ELSE IF q.present THEN Lose(w, p) ELSE Goto(w, p, "DISCONNECTED")
      [] q.st = "ENABLED" ->
           IF q.present THEN [w EXCEPT !.port[p].recycle = TRUE] ELSE w
      [] OTHER -> Check(w, FALSE, "port state")

\* The port has finished its reset.
ResetDone(w, p) == IF Conn(w, p) THEN Goto(w, p, "ENABLED") ELSE w

\* handle_port_changes(): one change at a time, which is cleared in the hub.
HandleChanges(w, p) ==
    IF Changed(w, p, "C_CONNECTION") THEN ChangeFeature(HandleConnection(w, p), p, "CLEAR_C_CONNECTION")
    ELSE IF Changed(w, p, "C_ENABLE") THEN ChangeFeature(w, p, "CLEAR_C_ENABLE")
    ELSE ChangeFeature(ResetDone(w, p), p, "CLEAR_C_RESET")

\* Complete the handling unless the port waits for its device to be freed.
MayComplete(w, p) == IF w.port[p].recycle THEN w ELSE HandleComplete(w, p)

\* handle_port_state() of a port that is enabled: a new device is announced, or
\* its second reset; a device that was disabled is lost.
EnabledState(w, p, ok) ==
    LET present == w.port[p].present IN
    IF Enabled(w, p)
    THEN IF ~Conn(w, p) THEN MayComplete(w, p)
         ELSE IF present THEN ResetCompleted([w EXCEPT !.port[p].tries = 0], p)
         ELSE Connected([w EXCEPT !.port[p].present = TRUE], p, ok)
    ELSE IF present THEN Lose(w, p)
         ELSE MayComplete(Goto(w, p, "DISCONNECTED"), p)

\* handle_port_state()
HandleState(w, p, ok) ==
    LET q == w.port[p] IN
    CASE q.st = "NOT_CONFIGURED" -> RequestStatus(Goto(w, p, "POWERED_OFF"), p)
      [] q.st = "POWERED_OFF" -> Goto(ChangeFeature(w, p, "SET_POWER"), p, "DISCONNECTED")
      [] q.st = "DISCONNECTED" ->
           IF Conn(w, p) /\ q.tries < ResetAttempts
           THEN ChangeFeature([w EXCEPT !.port[p].tries = @ + 1], p, "SET_RESET")
           ELSE MayComplete(w, p)
      [] q.st = "DISABLED" ->
           MayComplete(IF Conn(w, p) /\ ~q.enumerated
                       THEN [w EXCEPT !.port[p].recycle = FALSE] ELSE w, p)
      [] q.st = "RESETTING" ->
           IF ~Conn(w, p) THEN MayComplete(Goto(w, p, "DISCONNECTED"), p)
           ELSE IF ~q.present
           THEN ChangeFeature([Check(w, q.tries = 0, "attempts") EXCEPT !.port[p].tries = @ + 1],
                              p, "SET_RESET")
           ELSE Goto(ResetCompleted(Check(w, Enabled(w, p), "not enabled"), p), p, "ENABLED")
      [] OTHER -> EnabledState(w, p, ok)

\* handle_port(): changes first, then a reset that goes on, then the state.
HandlePort(w, p, ok) ==
    IF w.port[p].change # {} THEN HandleChanges(w, p)
    ELSE IF InReset(w, p) THEN RequestStatus(w, p)
    ELSE HandleState(w, p, ok)

\* Bug: the port is not probed again once its device has been freed.
HandleRecycle_NoProbe(w, p, ok) == [w EXCEPT !.port[p].recycle = FALSE]

\* handle_recycle(): the device has been freed.
HandleRecycle(w, p, ok) ==
    LET q == w.port[p]
        recycled == [Check(w, q.recycle, "recycle") EXCEPT !.port[p].recycle = FALSE]
    IN  IF q.lock THEN recycled
        ELSE LET calm == Check(recycled, q.change = {}, "change") IN
             IF q.st = "DISABLED" THEN IF q.gone THEN HandleComplete(calm, p) ELSE calm
             ELSE LET off == Goto(calm, p, "DISCONNECTED")
                  IN  IF q.gone THEN HandleComplete(off, p) ELSE HandlePort(off, p, ok)

\* handle_disable(): the enumeration failed.
HandleDisable(w, p) ==
    LET q == w.port[p]
        checked == Check(w, q.st \notin {"POWERED_OFF", "DISCONNECTED", "NOT_CONFIGURED"}, "disable")
        spent == IF q.st = "ENABLED" /\ Conn(w, p)
                 THEN LET tried == [checked EXCEPT !.port[p].tries = ResetAttempts]
                      IN  IF q.present THEN Lose(tried, p) ELSE tried
                 ELSE checked
        off == Goto(spent, p, "DISABLED")
    IN  IF q.gone THEN off ELSE ChangeFeature(off, p, "CLEAR_ENABLE")

\* PORT_ACTION_RESET of ext_port_process()
HandleReset(w, p) ==
    LET st == w.port[p].st IN
    ChangeFeature(Goto(Check(w, st \in {"RESETTING", "DISCONNECTED", "ENABLED"}, "reset"),
                       p, "RESETTING"), p, "SET_RESET")

\* get_port_from_pending_list()
NextPort(w) == Head(w.pend)

\* One round of the loop of ext_port_process(): the actions in their order.
ProcessPort(w, p, ok) ==
    LET acts == w.port[p].acts
        taken == [w EXCEPT !.port[p].acts = {}]
        handled  == IF "HANDLE" \in acts THEN HandlePort(taken, p, ok) ELSE taken
        disabled == IF "DISABLE" \in acts THEN HandleDisable(handled, p) ELSE handled
        recycled == IF "RECYCLE" \in acts THEN HandleRecycle(disabled, p, ok) ELSE disabled
    IN  IF "GET_STATUS" \in acts THEN RequestStatus(recycled, p)
        ELSE IF "RESET" \in acts THEN HandleReset(recycled, p) ELSE recycled

-----------------------------------------------------------------------------
(* ext_port_driver_api_t: what the hub's driver calls *)

\* port_reset(), refused unless the port is enabled and has a connection
PortReset(w, p) ==
    IF Conn(w, p) /\ w.port[p].st = "ENABLED" THEN SetPortActions(w, p, {"RESET"}) ELSE w

\* port_get_status()
PortGetStatus(w, p) == SetPortActions(w, p, {"GET_STATUS"})

\* port_recycle()
PortRecycle(w, p) ==
    IF w.port[p].gone THEN w ELSE SetPortActions(w, p, {"RECYCLE"})

\* port_delete()
PortDelete(w, p) ==
    [Check(w, ~w.port[p].present /\ ~Pending(w, p), "delete")
        EXCEPT !.exists = @ \ {p}, !.port[p] = NewPort]

\* port_active(): the device is enumerated.
PortActive(w, p) == HandleComplete([w EXCEPT !.port[p].enumerated = TRUE], p)

\* port_set_status()
PortSetStatus(w, p, status, change) ==
    SetPortActions([w EXCEPT !.port[p].status = status, !.port[p].change = change,
                             !.port[p].outdated = FALSE, !.port[p].lock = FALSE],
                   p, {"HANDLE"})

\* port_req_process(): a feature has been changed.
PortReqProcess(w, p) ==
    SetPortActions(w, p, IF w.port[p].outdated THEN {"GET_STATUS"} ELSE {"HANDLE"})

\* port_gone() finds a device: the port is freed when the device is.
HasDevice(w, p) ==
    w.port[p].present /\ w.port[p].st \in {"ENABLED", "DISABLED", "RESETTING"}

\* port_gone()
PortGone(w, p) ==
    LET gone == [w EXCEPT !.port[p].gone = TRUE, !.port[p].free = TRUE]
    IN  StopHandling(IF HasDevice(w, p) THEN Lose(gone, p) ELSE gone, p)
=============================================================================
