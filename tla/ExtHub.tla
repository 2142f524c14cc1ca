------------------------------- MODULE ExtHub -------------------------------
(***************************************************************************)
(* One external hub with its ports (host/usb/src/ext_hub.c, ext_port.c),   *)
(* the hub driver's round that runs them (hub.c, usb_host.c), the devices  *)
(* below the hub and the enumeration of these devices.                     *)
(* Between two steps of the daemon task a device is plugged or unplugged,  *)
(* a transfer completes, a port fails, a client closes its device, the hub *)
(* itself is unplugged or all devices are asked to be freed.               *)
(***************************************************************************)
EXTENDS ExtPort, Descriptors, FiniteSets

CONSTANTS
    MaxPlugs,       \* bound: how often devices are plugged in
    Confs(_),       \* the configurations that a hub may have in an environment
    Environments    \* what may happen, see Uses

ASSUME PlugsAreNat == MaxPlugs \in Nat

VARIABLES
    w,              \* the state of the drivers, see ExtPort
    conf,           \* the hub's configuration descriptor
    wire,           \* what is plugged into the ports, and the hub's own bits
    plugs,          \* how often a device has been plugged in
    pc,             \* the part of the daemon's round
    turn,           \* the requests for processing that the round has taken
    take,           \* the hub driver's actions that the round has taken
    cur,            \* the port that ext_port_process() works on, 0 if none
    env

vars == <<w, conf, wire, plugs, pc, turn, take, cur, env>>
daemonVars == <<pc, turn, take, cur>>

Uses == env

OldWire == [plugged |-> FALSE, status |-> {}, change |-> {}]

TypeOK ==
    /\ w.hub \in HubObject /\ w.port \in [Port -> PortObject]
    /\ w.hub.ep \in 0 .. Len(conf) /\ conf \in Confs(env)
    /\ w.exists \subseteq Port /\ w.node \subseteq Port
    /\ w.ctl.st \in {"idle", "flight", "done", "failed"}
    /\ w.int \in {"off", "armed", "done", "failed", "cancelled"}
    /\ w.en.st \in {"idle", "work", "xfer", "done", "failed", "reset", "cancel", "cancelled"}
    /\ pc \in {"wait", "usbh", "hub", "enum"}
    /\ turn \subseteq {"usbh", "hub", "enum"}
    /\ take \subseteq {"EXT_PORT", "EXT_HUB", "ROOT"}
    /\ cur \in Port \cup {0}
    /\ wire \in [Port -> [plugged : BOOLEAN,
                          status : SUBSET StatusBits, change : SUBSET ChangeBits]]
    /\ plugs \in 0..MaxPlugs /\ env \in Environments

-----------------------------------------------------------------------------
(* ext_hub.c: a hub is announced *)

\* find_first_intf_desc(): the first interface of the hub class whose only endpoint is
\* an interrupt IN one.  The search goes on behind a refused endpoint with the offset of
\* that endpoint, as if the configuration ended that much (skew) earlier.
FirstHubInterface(c) ==
    LET Cut(skew) == SubSeq(c, 1, Len(c) - skew)
        Ep0(at, skew) == IF c[at].class = "hub" /\ c[at].eps = 1 THEN Endpoint(Cut(skew), at, 0) ELSE 0
        Suits(ep) == ep # 0 /\ c[ep].dir = "in" /\ c[ep].xfer = "intr"
        search[at \in 0 .. Len(c), skew \in 0 .. Len(c)] ==
            LET ep == Ep0(at, skew)
                more == IF ep = 0 THEN skew ELSE skew + ep - at
            IN  IF at = 0 \/ Suits(ep) THEN at
                ELSE search[IF at + more > Len(c) THEN 0 ELSE NextOfType(Cut(more), at, "intf"), more]
    IN  search[NextOfType(c, 1, "intf"), 0]

MaxStatusBytes == 4     \* EXT_HUB_MAX_STATUS_BYTES_SIZE

\* usbh_ep_alloc() finds the endpoint again, by its address.
EpAlloc(c, at, ep) == EndpointByAddress(c, c[at].num, c[at].alt, c[ep].addr)

\* device_alloc() of the interface at, refused for want of memory (~mem) or if the endpoint
\* is too large.
DeviceAlloc(d, at, mem) ==
    LET ep == Endpoint(conf, at, 0)
        in == EpAlloc(conf, at, ep)
    IN  IF ~mem \/ conf[ep].mps > MaxStatusBytes \/ in = 0 THEN [d EXCEPT !.hub.open = FALSE]
        ELSE SetHubActions([d EXCEPT !.hub.st = "ATTACHED", !.hub.ep = in,
                                     !.hub.stage = "GET_HUB_DESCRIPTOR"], {"REQ"})

\* ext_hub_new_dev(): the device is opened, and closed again if it is not a hub that
\* can be used.
NewDev(d, at, mem) ==
    IF at = 0 THEN d ELSE DeviceAlloc([d EXCEPT !.hub.open = TRUE], at, mem)

-----------------------------------------------------------------------------
(* ext_hub.c: ports are made, released and freed *)

\* device_port_new() and port_new(): the port asks to be handled.
DevicePortNew(d, p) == SetPortActions([d EXCEPT !.exists = @ \cup {p}], p, {"HANDLE"})

\* Bug: the hub is not freed with its last port.
PortFree_NoHub(d, p) == PortDelete(d, p)

\* device_port_free(); the last port frees the hub.
PortFree(d, p) ==
    LET freed == PortDelete(d, p)
    IN  IF freed.hub.free /\ freed.exists = {} THEN SetHubActions(freed, {"FREE"}) ELSE freed

\* device_configure() makes the first n ports of the hub, all or (n < NPorts) until
\* there is no memory; then it frees them again, and their array, but keeps the pointer.
Configure(d, n) ==
    LET made == FoldLeft(DevicePortNew, [d EXCEPT !.hub.ports = "array"], [i \in 1 .. n |-> i])
    IN  IF n = NPorts THEN [made EXCEPT !.hub.st = "CONFIGURED"]
        ELSE [FoldLeft(PortFree, made, [i \in 1 .. n |-> i]) EXCEPT !.hub.ports = "freed"]

\* device_release_port()
ReleasePort(d, p) ==
    IF p \notin d.exists THEN Check(d, FALSE, "release")
    ELSE IF HasDevice(d, p) THEN [PortGone(d, p) EXCEPT !.hub.children = TRUE]
         ELSE PortFree(PortGone(d, p), p)

\* device_release_ports()
ReleasePorts(d) == FoldLeft(ReleasePort, d, [i \in Port |-> i])

\* device_release()
Release(d) ==
    LET waiting == [Check(d, d.hub.release, "not waiting for release")
                       EXCEPT !.hub.release = FALSE, !.hub.free = TRUE]
        ports == IF Configured(d) THEN ReleasePorts(waiting) ELSE waiting
    IN  [ports EXCEPT !.hub.st = "RELEASED"]

\* device_free(): the endpoint must be quiet, the control URB is freed with it.
FreeHub(d) ==
    LET free == Check(Check(d, d.exists = {} /\ d.hub.free /\ d.int \in {"off", "done"}, "free hub"),
                      d.ctl.st = "idle", "urb freed in flight")
    IN  [Check(free, d.hub.ports # "freed", "ports freed twice")
            EXCEPT !.hub = [@ EXCEPT !.st = "FREED", !.open = FALSE, !.desc = FALSE,
                                     !.ports = "none", !.free = FALSE, !.children = FALSE]]

\* ext_hub_port_recycle(): the port is released when its hub is.
HubPortRecycle(d, p) ==
    IF d.hub.release \/ d.hub.children THEN ReleasePort(d, p) ELSE PortRecycle(d, p)
RecycleRefused(d, p) ==
    \/ d.hub.st \notin {"CONFIGURED", "RELEASED"}
    \/ ~d.hub.release /\ ~d.hub.children /\ (p \notin d.exists \/ d.port[p].gone)

\* hub_node_recycle(): the node goes if the port accepts.
NodeRecycle(d, p) ==
    IF p \notin d.node \/ RecycleRefused(d, p) THEN d
    ELSE [HubPortRecycle(d, p) EXCEPT !.node = @ \ {p}]

\* ext_hub_port_reset(), ext_hub_port_active(): the port must not be freed.
HubPortReset(d, p)  == IF p \in d.exists THEN PortReset(d, p) ELSE d
HubPortActive(d, p) == IF p \in d.exists THEN PortActive(d, p) ELSE d

\* hub_node_reset(), hub_node_active(), hub_node_disable(): the device may have lost its
\* node.
NodeReset(d, p)   == IF p \in d.node THEN HubPortReset(d, p) ELSE d
NodeActive(d, p)  == IF p \in d.node THEN HubPortActive(d, p) ELSE d
NodeDisable(d, p) == IF p \in d.node /\ p \in d.exists THEN HubPortDisable(d, p) ELSE d

\* get_dev_by_addr()
Known(d) == d.hub.st \notin {"NONE", "FREED"}

\* ext_hub_dev_gone()
HubGone(d) ==
    IF ~Known(d) \/ d.hub.release \/ d.hub.children THEN d
    ELSE IF d.exists = {} /\ d.hub.acts = {}
    THEN SetHubActions([d EXCEPT !.hub.release = TRUE, !.hub.free = TRUE], {"RELEASE", "FREE"})
    ELSE SetHubActions([d EXCEPT !.hub.release = TRUE], {"RELEASE"})

-----------------------------------------------------------------------------
(* ext_hub.c: the stages, and ext_hub_process() *)

\* device_set_next_stage() after a stage that failed.
StageFails(d) == SetHubActions(d, {"ERROR"})

\* ... and after a transfer that was handled; what is set here is seen by the
\* loop of ext_hub_process(), nobody asks for processing.
StagePasses(d) ==
    LET idle == [d EXCEPT !.hub.stage = "IDLE", !.ctl.req = "none"]
    IN  IF d.hub.release THEN QueueHub(idle, {"RELEASE"}) ELSE idle

\* handle_port_feature() and handle_port_status(); the port must not be freed.
PortAnswered(d) ==
    LET p == d.ctl.p
        checked == Check(d, p \in d.exists, "port freed") IN
    IF p \notin d.exists THEN checked
    ELSE IF d.ctl.req = "STATUS" THEN PortSetStatus(d, p, d.ctl.status, d.ctl.change)
    ELSE PortReqProcess(d, p)

\* The hub descriptor, as it was read or as it can be stored: too short, of a wrong
\* length, no memory for it, a hub without ports, no memory for the array of ports
\* or for one of them.
HubDesc == {"good", "short", "length", "nomem", "empty", "noarray", "noport"}

\* device_alloc_desc() and device_configure() of a descriptor that can be used
Described(d, desc) ==
    LET stored == [Check(d, ~d.hub.desc, "descriptor") EXCEPT !.hub.desc = TRUE]
    IN  CASE desc = "empty"   -> StagePasses(stored)
          [] desc = "noarray" -> StageFails(Check(stored, FALSE, "ports is NULL"))
          [] desc = "noport"  -> StageFails(Configure(stored, NPorts - 1))
          [] OTHER            -> StagePasses(Configure(stored, NPorts))

\* handle_hub_descriptor()
HubDescriptor(d, desc) ==
    IF desc \in {"short", "length", "nomem"} THEN StageFails(d) ELSE Described(d, desc)

\* device_control_response_handling(), a transfer without result failed.
Response(d, desc) ==
    IF d.ctl.req = "lost" THEN StageFails(d)
    ELSE IF d.ctl.req = "DESC" THEN HubDescriptor(d, desc) ELSE StagePasses(PortAnswered(d))

\* device_control_request(); of the stages that request something the code comes only to
\* this one.
DeviceRequest(d) ==
    IF CanSubmit(d) THEN [Submit(d, 0, "DESC") EXCEPT !.hub.stage = "CHECK_HUB_DESCRIPTOR"]
    ELSE StageFails(d)

\* handle_device()
HandleDevice(d, desc) ==
    CASE d.hub.stage = "GET_HUB_DESCRIPTOR" -> DeviceRequest(d)
      [] d.hub.stage \in {"CHECK_HUB_DESCRIPTOR", "CHECK_PORT_FEATURE", "CHECK_PORT_STATUS"} ->
           Response(d, desc)
      [] OTHER -> Check(d, FALSE, "hub stage")

\* device_has_changed() only lets the hub listen again.
DeviceHasChanged(d) == EnableInt(d)

\* device_status_change_handle(): the report names the hub (0) and its ports.
StatusChange(d, report) ==
    LET hub == IF 0 \in report THEN DeviceHasChanged(d) ELSE IF report = {} THEN EnableInt(d) ELSE d
    IN  FoldLeft(LAMBDA x, p : IF p \notin report THEN x
                               ELSE IF p \in x.exists THEN PortGetStatus(x, p)
                               ELSE Check(x, FALSE, "report for a freed port"),
                 hub, [i \in Port |-> i])

\* handle_ep1_flush(), handle_ep1_dequeue() and interrupt_transfer_complete_cb()
Flush(d)   == IF d.int = "armed" THEN [d EXCEPT !.int = "cancelled"] ELSE d
Dequeue(d) ==
    LET off == [d EXCEPT !.int = "off", !.report = {}] IN
    CASE d.int = "done"      -> StatusChange(off, d.report)
      [] d.int = "failed"    -> DeviceError(off)
      [] d.int = "cancelled" -> off
      [] OTHER -> d

\* Bug: the hub is released before its endpoint has been dequeued.
ProcessHub_Order(d, desc) ==
    LET acts == d.hub.acts
        a == [d EXCEPT !.hub.acts = {}]
        b == IF acts \cap {"REQ", "EP0_COMPLETE"} # {} THEN HandleDevice(a, desc) ELSE a
        c == IF "ERROR" \in acts THEN [b EXCEPT !.hub.stage = "ERROR"] ELSE b
        e == IF "RELEASE" \in acts THEN Release(c) ELSE c
        f == IF "FREE" \in acts THEN FreeHub(e) ELSE e
        g == IF "EP1_FLUSH" \in acts THEN Flush(f) ELSE f
    IN  IF "EP1_DEQUEUE" \in acts THEN Dequeue(g) ELSE g

\* One round of the loop of ext_hub_process(): the actions in their order.  EP1_CLEAR has
\* the pipe that halted take transfers again, in the round that dequeues the failed one.
ProcessHub(d, desc) ==
    LET acts == d.hub.acts
        a == [d EXCEPT !.hub.acts = {}]
        b == IF acts \cap {"REQ", "EP0_COMPLETE"} # {} THEN HandleDevice(a, desc) ELSE a
        c == IF "EP1_FLUSH" \in acts THEN Flush(b) ELSE b
        e == IF "EP1_DEQUEUE" \in acts THEN Dequeue(c) ELSE c
        f == IF "ERROR" \in acts THEN [e EXCEPT !.hub.stage = "ERROR"] ELSE e
        g == IF "RELEASE" \in acts THEN Release(f) ELSE f
    IN  IF "FREE" \in acts THEN FreeHub(g) ELSE g

-----------------------------------------------------------------------------
(* The daemon's round: usb_host_lib_handle_events() *)

Step(d) == w' = d

\* The daemon wakes up and takes the requests for processing.
Wake ==
    /\ pc = "wait" /\ w.req # {}
    /\ turn' = w.req /\ Step([w EXCEPT !.req = {}]) /\ pc' = "usbh"
    /\ UNCHANGED <<take, cur, wire, plugs, conf, env>>

\* USBH_EVENT_NEW_DEV: hub_dev_new()
UsbhHubNew ==
    /\ pc = "usbh" /\ "usbh" \in turn /\ w.arriving
    /\ \E mem \in {TRUE, "badhub" \notin Uses}, at \in {FirstHubInterface(conf)} :
           Step(NewDev([w EXCEPT !.arriving = FALSE], at, mem))
    /\ UNCHANGED <<wire, plugs, daemonVars, conf, env>>

\* usbh_process() finds the control URB: EP0_COMPLETE.
UsbhCtl ==
    /\ pc = "usbh" /\ "usbh" \in turn /\ w.ctl.st \in {"done", "failed"}
    /\ Step(SetHubActions([w EXCEPT !.ctl.st = "idle",
                                    !.ctl.req = IF w.ctl.st = "failed" THEN "lost" ELSE @],
                          {"EP0_COMPLETE"}))
    /\ UNCHANGED <<wire, plugs, daemonVars, conf, env>>

\* usbh_process() finds the hub gone: its endpoints are flushed, then the event.
UsbhHubGone ==
    /\ pc = "usbh" /\ "usbh" \in turn /\ w.leaving
    /\ LET flushed == IF w.ctl.st = "idle" THEN w
                      ELSE SetHubActions([w EXCEPT !.ctl.st = "idle",
                                             !.ctl.req = IF w.ctl.st = "done" THEN @ ELSE "lost"],
                                         {"EP0_COMPLETE"})
           halted  == IF w.int = "armed"
                      THEN SetHubActions([flushed EXCEPT !.int = "cancelled"], {"EP1_DEQUEUE"})
                      ELSE flushed
       IN  Step(HubGone([halted EXCEPT !.leaving = FALSE]))
    /\ UNCHANGED <<wire, plugs, daemonVars, conf, env>>

\* handle_free()
UsbhDevFree(p) ==
    /\ pc = "usbh" /\ "usbh" \in turn /\ w.dev[p].free
    /\ Step(NodeRecycle([w EXCEPT !.dev[p] = NoDevice], p))
    /\ UNCHANGED <<wire, plugs, daemonVars, conf, env>>

UsbhIdle ==
    /\ w.ctl.st \in {"idle", "flight"} /\ ~w.leaving /\ ~w.arriving
    /\ \A p \in Port : ~w.dev[p].free

\* On to hub_process(), which takes the hub driver's actions.
UsbhDone ==
    /\ pc = "usbh" /\ ("usbh" \in turn => UsbhIdle)
    /\ pc' = "hub" /\ cur' = 0
    /\ IF "hub" \in turn THEN take' = w.acts /\ Step([w EXCEPT !.acts = {}])
                         ELSE take' = {} /\ w' = w
    /\ UNCHANGED <<turn, wire, plugs, conf, env>>

\* ext_port_process(): the first pending port, until it has no more actions.
HubPort(ok) ==
    /\ pc = "hub" /\ "EXT_PORT" \in take
    /\ ok \/ "nomem" \in Uses
    /\ IF w.pend = <<>> /\ cur = 0 THEN take' = take \ {"EXT_PORT"} /\ UNCHANGED <<w, cur>>
       ELSE LET p == IF cur = 0 THEN NextPort(w) ELSE cur
                d == ProcessPort(w, p, ok)
                more == d.port[p].acts # {}
            IN  /\ Step(d)
                /\ cur' = IF more THEN p ELSE 0
                /\ take' = IF more THEN take ELSE take \ {"EXT_PORT"}
    /\ UNCHANGED <<pc, turn, wire, plugs, conf, env>>

\* The descriptors that the hub may have, and what may befall them.
Offered == {"good"} \cup (IF "badhub" \in Uses THEN {"short", "length", "nomem", "empty"} ELSE {})
                   \cup (Uses \cap {"noarray", "noport"})

\* ext_hub_process()
HubHub(desc) ==
    /\ pc = "hub" /\ "EXT_HUB" \in take /\ "EXT_PORT" \notin take
    /\ desc \in Offered
    /\ IF w.hub.acts = {} THEN take' = take \ {"EXT_HUB"} /\ w' = w
       ELSE Step(ProcessHub(w, desc)) /\ take' = take
    /\ UNCHANGED <<pc, turn, cur, wire, plugs, conf, env>>

\* The root port reports that the hub was unplugged: whatever is being enumerated
\* is cancelled, the hub's device object is gone.
HubRoot ==
    /\ pc = "hub" /\ take = {"ROOT"}
    /\ Step([EnumCancel(w) EXCEPT !.leaving = TRUE, !.req = @ \cup {"usbh"}])
    /\ take' = {}
    /\ UNCHANGED <<pc, turn, cur, wire, plugs, conf, env>>

\* hub_process() looks for new actions before it returns.
HubAgain ==
    /\ pc = "hub" /\ take = {} /\ w.acts # {}
    /\ take' = w.acts /\ Step([w EXCEPT !.acts = {}])
    /\ UNCHANGED <<pc, turn, cur, wire, plugs, conf, env>>

HubDone ==
    /\ pc = "hub" /\ take = {} /\ w.acts = {} /\ pc' = "enum"
    /\ UNCHANGED <<w, turn, take, cur, wire, plugs, conf, env>>

\* The next device that waits to be enumerated.
EnumNext(d) ==
    IF d.en.st # "idle" \/ d.en.q = <<>> THEN d
    ELSE EnumStart([d EXCEPT !.en.q = Tail(@)], Head(d.en.q))
EnumIdle(d) == [d EXCEPT !.en = [@ EXCEPT !.st = "idle", !.p = 0, !.ph = 1, !.held = FALSE]]

\* stage_cancel(): the device is closed, its port disabled.
EnumCancelled ==
    LET p == w.en.p
        closed == IF w.en.held THEN CloseDevice(w, p, "held") ELSE w
        idle == EnumIdle(closed)
    IN  EnumNext(NodeDisable(idle, p))

\* stage_complete(): the device is closed, the port is active, a client opens it.
EnumCompleted(open) ==
    LET p == w.en.p
        idle == EnumIdle(CloseDevice(w, p, "held"))
        active == NodeActive(idle, p)
        d == active.dev[p]
    IN  EnumNext(IF open /\ ~d.gone /\ ~d.waiting /\ ~d.free THEN [active EXCEPT !.dev[p].client = TRUE]
                 ELSE active)

\* A control transfer of the enumerator, which fails at once without the hub.
EnumSubmit ==
    IF w.link /\ ~w.dev[w.en.p].gone THEN [w EXCEPT !.en.st = "xfer"]
    ELSE [w EXCEPT !.en.st = "cancel", !.req = @ \cup {"enum"}]

\* second_reset_request(), whose result nobody reads.
EnumSecondReset ==
    LET p == w.en.p
        waiting == [w EXCEPT !.en.st = "reset", !.en.ph = 2]
    IN  NodeReset(waiting, p)

\* enum_process() is never asked for without need.
EnumRound(open) ==
    CASE w.en.st = "work"   -> EnumSubmit
      [] w.en.st = "done"   -> IF w.en.ph = 1 THEN EnumSecondReset ELSE EnumCompleted(open)
      [] w.en.st = "reset"  -> [w EXCEPT !.en.st = "work", !.en.ph = 3, !.req = @ \cup {"enum"}]
      [] w.en.st = "failed" -> [w EXCEPT !.en.st = "cancel", !.req = @ \cup {"enum"}]
      [] w.en.st = "cancel" -> EnumCancelled
      [] OTHER -> Check(w, FALSE, "enum")

\* enum_process(); the transfers before and after the second reset stand for all
\* the stages; a client may open the device that is announced.
Enum ==
    /\ pc = "enum" /\ "enum" \in turn
    /\ \E open \in {TRUE, "hold" \in Uses} : Step(EnumRound(open))
    /\ pc' = "wait" /\ turn' = {}
    /\ UNCHANGED <<take, cur, wire, plugs, conf, env>>

EnumNone ==
    /\ pc = "enum" /\ "enum" \notin turn /\ pc' = "wait" /\ turn' = {}
    /\ UNCHANGED <<w, take, cur, wire, plugs, conf, env>>

-----------------------------------------------------------------------------
(* What happens in between *)

CalmEnv == UNCHANGED <<daemonVars, conf, env>>

\* The daemon sleeps, the hub listens and no port is being handled.
Quiet ==
    /\ pc = "wait" /\ w.req = {} /\ w.pend = <<>> /\ w.en.st = "idle"
    /\ w.hub.stage = "IDLE" /\ w.int = "armed"

\* A device is plugged in; before the port's driver has dealt with the one that was
\* there only with "bounce".
Vacant(p) ==
    /\ "C_CONNECTION" \notin wire[p].change
    /\ Pending(w, p) => w.port[p].tries = 0 /\ ~w.port[p].present
Plug(p) ==
    /\ Vacant(p) \/ "bounce" \in Uses
    /\ ~wire[p].plugged /\ plugs < MaxPlugs /\ plugs' = plugs + 1
    /\ wire' = [wire EXCEPT ![p].plugged = TRUE,
                            ![p].status = IF "POWER" \in @ THEN @ \cup {"CONNECTION"} ELSE @,
                            ![p].change = IF "POWER" \in wire[p].status
                                          THEN @ \cup {"C_CONNECTION"} ELSE @]
    /\ UNCHANGED w /\ CalmEnv

\* Unplugged; during its second reset only with "inreset".
Unplug(p) ==
    /\ "unplug" \in Uses /\ wire[p].plugged
    /\ w.en.p = p /\ w.en.st \in {"done", "reset"} => w.en.ph = 3 \/ "inreset" \in Uses
    /\ wire' = [wire EXCEPT ![p].plugged = FALSE, ![p].status = @ \cap {"POWER"},
                            ![p].change = IF "POWER" \in wire[p].status
                                          THEN @ \cup {"C_CONNECTION"} ELSE @]
    /\ UNCHANGED <<w, plugs>> /\ CalmEnv

\* The hub disables a port by itself (USB 2.0, 11.8.1).
PortError(p) ==
    /\ "error" \in Uses /\ "ENABLE" \in wire[p].status
    /\ wire' = [wire EXCEPT ![p].status = @ \ {"ENABLE"}, ![p].change = @ \cup {"C_ENABLE"}]
    /\ UNCHANGED <<w, plugs>> /\ CalmEnv

ResetEnd(p) ==
    /\ "RESET" \in wire[p].status
    /\ wire' = [wire EXCEPT ![p].status = (@ \ {"RESET"}) \cup {"ENABLE"},
                            ![p].change = @ \cup {"C_RESET"}]
    /\ UNCHANGED <<w, plugs>> /\ CalmEnv

\* What the hub does with a request for a port.
Obeyed(x, req) ==
    CASE req = "SET_POWER" ->
           IF "POWER" \in x.status \/ ~x.plugged THEN [x EXCEPT !.status = @ \cup {"POWER"}]
           ELSE [x EXCEPT !.status = @ \cup {"POWER", "CONNECTION"}, !.change = @ \cup {"C_CONNECTION"}]
      [] req = "SET_RESET" ->
           IF "CONNECTION" \in x.status
           THEN [x EXCEPT !.status = (@ \ {"ENABLE"}) \cup {"RESET"}] ELSE x
      [] req = "CLEAR_ENABLE"       -> [x EXCEPT !.status = @ \ {"ENABLE"}]
      [] req = "CLEAR_C_CONNECTION" -> [x EXCEPT !.change = @ \ {"C_CONNECTION"}]
      [] req = "CLEAR_C_ENABLE"     -> [x EXCEPT !.change = @ \ {"C_ENABLE"}]
      [] req = "CLEAR_C_RESET"      -> [x EXCEPT !.change = @ \ {"C_RESET"}]
      [] OTHER -> x

\* The hub carries out the request of the control URB.
CtrlDone ==
    /\ w.link /\ w.ctl.st = "flight"
    /\ LET p == w.ctl.p
           done == [w EXCEPT !.ctl.st = "done", !.req = @ \cup {"usbh"}]
       IN  IF p = 0 THEN Step(done) /\ UNCHANGED wire
           ELSE /\ wire' = [wire EXCEPT ![p] = Obeyed(@, w.ctl.req)]
                /\ Step(IF w.ctl.req # "STATUS" THEN done
                        ELSE [done EXCEPT !.ctl.status = wire[p].status,
                                          !.ctl.change = wire[p].change])
    /\ UNCHANGED plugs /\ CalmEnv

\* The request fails: the hub stalls or does not answer.
CtrlFails ==
    /\ "badhub" \in Uses /\ w.link /\ w.ctl.st = "flight"
    /\ Step([w EXCEPT !.ctl.st = "failed", !.req = @ \cup {"usbh"}])
    /\ UNCHANGED <<wire, plugs>> /\ CalmEnv

\* interrupt_pipe_cb(): the hub reports the ports that have changed.
IntDone ==
    /\ w.link /\ w.int = "armed"
    /\ LET report == {p \in Port : wire[p].change # {}}
       IN  /\ report # {}
           /\ \E r \in {report} \cup {report \cup {0} : x \in Uses \cap {"hubchange"}} :
                 Step(SetHubActions([w EXCEPT !.int = "done", !.report = r], {"EP1_DEQUEUE"}))
    /\ UNCHANGED <<wire, plugs>> /\ CalmEnv

\* ... or an error or a stall, after which the hub is released.
IntFails ==
    /\ "badhub" \in Uses /\ w.link /\ w.int = "armed"
    /\ \E stall \in BOOLEAN :
          Step(SetHubActions([w EXCEPT !.int = "failed"],
                             {"EP1_DEQUEUE", "EP1_CLEAR"} \cup (IF stall THEN {} ELSE {"EP1_FLUSH"})))
    /\ UNCHANGED <<wire, plugs>> /\ CalmEnv

\* A transfer of the enumerator ends; a device that is not there does not answer,
\* with "enum" any device may fail.
Answers(p) == "ENABLE" \in wire[p].status /\ w.link
XferDone ==
    /\ w.en.st \in {"xfer", "cancelled"} /\ (w.link \/ w.dev[w.en.p].gone)
    /\ \E ok \in {Answers(w.en.p), Answers(w.en.p) /\ "enum" \notin Uses} :
          Step([w EXCEPT !.en.st = IF @ = "cancelled" THEN "cancel" ELSE IF ok THEN "done" ELSE "failed",
                         !.req = @ \cup {"enum"}])
    /\ UNCHANGED <<wire, plugs>> /\ CalmEnv

\* A client closes its device.
ClientClose(p) ==
    /\ w.dev[p].client /\ Step(CloseDevice(w, p, "client"))
    /\ UNCHANGED <<wire, plugs>> /\ CalmEnv

\* The hub is unplugged: at any moment, or while nothing goes on.
UnplugHub ==
    /\ w.link /\ ("leave" \in Uses \/ ("leavequiet" \in Uses /\ Quiet))
    /\ Step([w EXCEPT !.link = FALSE, !.acts = @ \cup {"ROOT"}, !.req = @ \cup {"hub"}])
    /\ UNCHANGED <<wire, plugs>> /\ CalmEnv

\* usbh_devs_mark_all_free()
MarkDevice(d, p) ==
    IF ~d.dev[p].alive THEN d
    ELSE IF Opened(d.dev[p]) THEN [d EXCEPT !.dev[p].waiting = TRUE] ELSE FreeDevice(d, p)

\* ext_hub_mark_all_free(): a hub that is not idle is released when it is.
MarkAllFree(d) ==
    IF ~Known(d) THEN d
    ELSE SetHubActions([d EXCEPT !.hub.release = TRUE],
                       {"EP1_FLUSH", "EP1_DEQUEUE"} \cup
                       (IF d.hub.stage = "IDLE" THEN {"RELEASE"} ELSE {}))

\* usb_host_device_free_all(), once no client is left.
FreeAll ==
    /\ ("freeall" \in Uses \/ ("freequiet" \in Uses /\ Quiet))
    /\ \A p \in Port : ~w.dev[p].client
    /\ ~w.hub.release /\ Known(w)
    /\ Step(FoldLeft(MarkDevice, MarkAllFree(w), [i \in Port |-> i]))
    /\ UNCHANGED <<wire, plugs>> /\ CalmEnv

-----------------------------------------------------------------------------
Daemon ==
    \/ Wake \/ UsbhHubNew \/ UsbhCtl \/ UsbhHubGone \/ UsbhDone \/ HubRoot \/ HubAgain \/ HubDone
    \/ Enum \/ EnumNone
    \/ \E p \in Port : UsbhDevFree(p)
    \/ \E ok \in BOOLEAN : HubPort(ok)
    \/ \E desc \in HubDesc : HubHub(desc)

Surroundings ==
    \/ CtrlDone \/ CtrlFails \/ IntDone \/ IntFails \/ XferDone \/ UnplugHub \/ FreeAll
    \/ \E p \in Port : Plug(p) \/ Unplug(p) \/ PortError(p) \/ ResetEnd(p) \/ ClientClose(p)

Init ==
    /\ w = NoHub /\ wire = [p \in Port |-> OldWire] /\ plugs = 0
    /\ pc = "wait" /\ turn = {} /\ take = {} /\ cur = 0
    /\ env \in Environments /\ conf \in Confs(env)

Next == Daemon \/ Surroundings

\* The daemon task runs; a hub answers and ends its resets; a client closes a
\* device that it was told about.
Fairness ==
    /\ WF_vars(Daemon)
    /\ WF_vars(CtrlDone) /\ WF_vars(IntDone) /\ WF_vars(XferDone)
    /\ \A p \in Port : WF_vars(ResetEnd(p))
    /\ \A p \in Port : WF_vars((w.dev[p].gone \/ w.dev[p].waiting) /\ ClientClose(p))

Spec == Init /\ [][Next]_vars /\ Fairness

-----------------------------------------------------------------------------
(* Properties *)

\* No assert(), ESP_ERROR_CHECK() or abort() of ext_hub.c and ext_port.c fails,
\* and nothing uses a port or a URB that has been freed.
NoAbort == w.crash = "none"

\* The control URB that all ports of a hub share is never submitted again
\* before its result was handled: the stage would be that of another request.
OneRequest == "EP0_COMPLETE" \in w.hub.acts => w.ctl.st = "idle" /\ w.ctl.req # "none"

\* A node of the device tree has a device object, whose freeing recycles the port,
\* and a port with a device has a node.
NodeHasDevice ==
    /\ \A p \in w.node : w.dev[p].alive
    /\ \A p \in w.exists : w.port[p].present /\ cur = 0 => p \in w.node

\* The hub driver has the device open exactly while it knows the hub, whose interrupt IN
\* endpoint it has, and the array of ports exactly while the hub is configured.
HubIsOpen ==
    /\ w.hub.open <=> Known(w)
    /\ Known(w) => \E at \in Reached(conf, 1, "intf") :
            /\ conf[at].class = "hub" /\ w.hub.ep \in Inside(conf, at)
            /\ conf[w.hub.ep].dir = "in" /\ conf[w.hub.ep].xfer = "intr"
    /\ Configured(w) => w.hub.ports = "array" /\ w.hub.desc

\* What holds of the three drivers' state at every moment.
Consistent == TypeOK /\ NoAbort /\ OneRequest /\ NodeHasDevice /\ HubIsOpen

\* When the daemon sleeps, a hub in service listens, unless a port is being handled,
\* which then waits for an answer of the hub, for the enumerator or for its
\* device to be freed.
Awaited(p) ==
    \/ w.ctl.st # "idle"
    \/ w.en.p = p /\ w.en.st # "idle"
    \/ w.port[p].recycle /\ w.dev[p].alive
HubListens ==
    pc = "wait" /\ w.req = {} /\ w.link /\ Configured(w) /\ w.hub.stage # "ERROR" =>
        IF w.pend = <<>> THEN w.int # "off" ELSE Awaited(Head(w.pend))

\* A hub that is unplugged is freed in the end, with all the devices below it, and
\* usb_host_device_free_all() frees every hub and the devices below it.
HubIsFreed ==
    (~w.link \/ (w.hub.release /\ "freequiet" \in Uses))
        ~> (~Known(w) /\ w.node = {} /\ \A p \in Port : ~w.dev[p].alive)

\* A device that stays plugged into a port is enumerated and stays in service, and
\* a port without one has none, when the hub works and nobody asks for its end.
PortsFollow ==
    Uses \subseteq {"unplug", "hold"} =>
        \A p \in Port :
            /\ <>[](wire[p].plugged) => <>[](w.dev[p].alive /\ ~w.dev[p].gone /\ w.port[p].enumerated)
            /\ <>[](~wire[p].plugged) => <>[](~w.dev[p].alive)
=============================================================================
