------------------------------- MODULE RootPort -------------------------------
(***************************************************************************)
(* One root port: the HCD's port object (host/usb/src/hcd_dwc.c), the hub  *)
(* driver that owns it (host/usb/src/hub.c) and whoever acts on them:      *)
(*   - the port interrupt, which may come between any two steps below      *)
(*     unless a step lies in one critical section;                         *)
(*   - the daemon task: usbh_process(), then hub_process(), whose port     *)
(*     commands sleep for the debounce, reset, suspend and resume times;   *)
(*   - a user task that switches the root port's power.                    *)
(* The device on the port is reduced to what the port can tell: it has a   *)
(* node in the device tree, an enumerator or a client may hold it, and its *)
(* node goes, and the port is recycled, when nobody holds it any more.     *)
(* Light sleep, which suspends the port by the way, is one step: no task   *)
(* of the program runs meanwhile.  Devices behind external hubs and a      *)
(* second root port are not in this module.                                *)
(***************************************************************************)
EXTENDS Naturals

CONSTANT Environments   \* the environments to consider, members of Environment

\* What the application and the hardware do besides plugging and unplugging.
Feature == {"enumFail",       \* an enumeration may fail
            "noChannel",      \* registering a new device may fail
            "suspend",        \* the root port is suspended and resumed
            "sleep",          \* the chip goes to light sleep (AUTO_PM_LIGHT_SLEEP)
            "freeAll",        \* usb_host_device_free_all() is called
            "overcurrent", "portError",
            "switch",         \* the power is switched on a settled port
            "switchAnytime",  \* ... or at any time
            "eager",          \* a suspension may follow a resumption at once
            "clockFails"}     \* the internal clock cannot be gated or un-gated

\* calm: the port is calm while a request to suspend or to recover it or the rest of
\* a light sleep waits, or its power is being switched: no event is pending or
\* comes, and nothing else is requested.
Environment == [uses : SUBSET Feature, calm : BOOLEAN]

ASSUME EnvironmentsAreKnown == Environments \subseteq Environment

VARIABLES
    env,        \* the environment, which never changes
    plug,       \* a device is plugged in
    power,      \* VBUS is on
    seen,       \* the core has reported a connection and not its end
    lock,       \* the debounce lock: the core raises no port interrupt
    hcd,        \* port_t.state
    conn,       \* flags.conn_dev_ena, the core has the port enabled
    disReq,     \* flags.disable_requested, and task_waiting_port_notif is set
    pend, last, \* flags.event_pending and last_event
    root,       \* root_hub_port_t.dynamic.state
    reqs,       \* root_hub_port_t.dynamic.reqs
    actions,    \* ROOT0_EVENT and ROOT0_REQ of the hub driver
    life,       \* the device on the port, "none": no device tree node
    held,       \* the enumerator or a client has the device open
    halted,     \* all pipes of the device are halted
    asked,      \* all devices are to be halted, then USBH_EVENT_ALL_IDLE
    clear,      \* EP0_CLEAR and EPn_CLEAR of the devices: they are to be cleared
    state,      \* dynamic.state and .last_state of the device, as its clients know
    freeing,    \* the device waits to be freed
    pc, todo, taken, ev, why,   \* the daemon: place, actions and requests to
                                \* handle, event, where a command returns to
    user,       \* the user task: place in hub_root_start()/hub_root_stop()
    wantOn,     \* the power state that the user last asked for
    crash       \* the check that stopped the program, if any

hwVars   == <<plug, power, seen, lock>>
hcdVars  == <<hcd, conn, disReq, pend, last>>
hubVars  == <<root, reqs, actions>>
pmVars   == <<asked, clear, state>>
devVars  == <<life, held, halted, freeing, pmVars>>
taskVars == <<pc, todo, taken, ev, why>>
userVars == <<user, wantOn, env>>
vars == <<hwVars, hcdVars, hubVars, devVars, taskVars, userVars, crash>>

HcdState  == {"NOT_POWERED", "DISCONNECTED", "DISABLED", "RESETTING", "ENABLED",
              "SUSPENDING", "SUSPENDED", "RESUMING", "RECOVERY"}
RootState == {"NOT_POWERED", "POWERED", "ENABLED", "SUSPENDED"}
Event     == {"NONE", "CONNECTION", "DISCONNECTION", "ERROR", "OVERCURRENT",
              "REMOTE_WAKEUP"}
\* Requests, in the order in which root_port_req() handles them.
ReqRank   == [DISABLE |-> 1, RECOVER |-> 2, SUSPEND |-> 3, RESUME |-> 4,
              EXIT |-> 5]
Req       == DOMAIN ReqRank
DevState  == {"none", "new", "configured", "suspended"}
Life      == {"none", "enum", "reset", "address", "idle", "gone"}
Place     == {"usbh", "hub", "debounce", "event", "hold", "settle", "new",
              "enabled", "giveUp", "disabling", "req", "powerOn", "powered",
              "suspending", "suspended", "resumeHold", "resumeSettle", "resumed"}

TypeOK ==
    /\ plug \in BOOLEAN /\ power \in BOOLEAN /\ seen \in BOOLEAN /\ lock \in BOOLEAN
    /\ conn \in BOOLEAN /\ disReq \in BOOLEAN /\ pend \in BOOLEAN
    /\ held \in BOOLEAN /\ halted \in BOOLEAN /\ freeing \in BOOLEAN
    /\ asked \in BOOLEAN /\ clear \in BOOLEAN /\ wantOn \in BOOLEAN
    /\ hcd \in HcdState /\ last \in Event /\ root \in RootState
    /\ reqs \subseteq Req /\ taken \subseteq Req
    /\ actions \subseteq {"EVENT", "REQ"} /\ todo \subseteq {"EVENT", "REQ"}
    /\ state \in [now : DevState, last : DevState]
    /\ life \in Life /\ pc \in Place /\ ev \in Event
    /\ why \in {"hub", "req", "usbh"}
    /\ user \in {"idle", "starting", "started", "stopping"}
    /\ crash \in {"none", "recover", "power_on", "suspend", "resume", "recycle", "stop"}
    /\ disReq => pc = "disabling"
    /\ env \in Environments

\* _port_check_all_pipes_halted(): a device's EP0 pipe goes when it is freed.
PipesHalted == life = "none" \/ halted

\* A request to the hub driver, which the daemon is woken for.
Request(r) == /\ reqs' = reqs \cup {r}
              /\ actions' = actions \cup {"REQ"}

Uses == env.uses
Calm == env.calm

\* _internal_clk_gate() may fail.
ClockFails == "clockFails" \in Uses

\* The program keeps its promises in these environments, and in no other: the power is
\* switched only on a settled port; the port is calm if it can fail, or is suspended or
\* switched; no device is freed that may be suspended or whose port may be off; the USBH
\* clears the endpoints after a resumption before the next suspension is asked for; and
\* the clock of a suspended port obeys.
IsTame(e) ==
    /\ {"switchAnytime", "eager", "clockFails"} \cap e.uses = {}
    /\ e.calm => "freeAll" \notin e.uses \/ {"suspend", "sleep", "switch"} \cap e.uses = {}
    /\ ~e.calm => e.uses \subseteq {"enumFail", "noChannel", "freeAll"}

Tame == \A e \in Environments : IsTame(e)

-----------------------------------------------------------------------------
(* The port interrupt: intr_hdlr_main(), _intr_hdlr_hprt(), root_port_callback() *)

Raise(e) == pend' = TRUE /\ last' = e /\ actions' = actions \cup {"EVENT"}

\* The hardware assumption that Calm stands for.
MayInterrupt ==
    /\ ~lock
    /\ Calm => /\ user = "idle"
               /\ {"SUSPEND", "RECOVER", "EXIT"} \cap (reqs \cup taken) = {}
               /\ ~asked

IntrConn ==
    /\ MayInterrupt /\ power /\ plug /\ ~seen /\ hcd # "NOT_POWERED"
    /\ seen' = TRUE /\ lock' = TRUE
    /\ Raise("CONNECTION")
    /\ UNCHANGED <<plug, power, hcd, conn, disReq, root, reqs, devVars,
                   taskVars, userVars, crash>>

\* ~disReq: the core answers a request to disable before anything else.
IntrDisconn ==
    /\ MayInterrupt /\ seen /\ ~(plug /\ power) /\ ~disReq
    /\ seen' = FALSE /\ lock' = TRUE
    /\ hcd' = "RECOVERY" /\ conn' = FALSE
    /\ Raise("DISCONNECTION")
    /\ UNCHANGED <<plug, power, disReq, root, reqs, devVars, taskVars,
                   userVars, crash>>

\* The end of a bus reset enables the port.
IntrEnabled ==
    /\ ~lock /\ pc = "settle" /\ hcd = "RESETTING" /\ plug /\ power
    /\ hcd' = "ENABLED" /\ conn' = TRUE
    /\ UNCHANGED <<hwVars, disReq, pend, last, hubVars, devVars, taskVars,
                   userVars, crash>>

\* A bus reset disables an enabled port first.
IntrDisabledByReset ==
    /\ ~lock /\ pc = "hold" /\ hcd = "RESETTING" /\ conn
    /\ conn' = FALSE
    /\ UNCHANGED <<hwVars, hcd, disReq, pend, last, hubVars, devVars, taskVars,
                   userVars, crash>>

\* The port is disabled as requested: the waiting task is notified.
IntrDisabledOnRequest ==
    /\ disReq
    /\ hcd' = "DISABLED" /\ conn' = FALSE /\ disReq' = FALSE
    /\ UNCHANGED <<hwVars, pend, last, hubVars, devVars, taskVars, userVars, crash>>

IntrDisabledByError ==
    /\ "portError" \in Uses
    /\ MayInterrupt /\ conn /\ hcd # "RESETTING" /\ ~disReq /\ power
    /\ hcd' = "RECOVERY" /\ conn' = FALSE
    /\ Raise("ERROR")
    /\ UNCHANGED <<hwVars, disReq, root, reqs, devVars, taskVars, userVars, crash>>

IntrOvercurrent ==
    /\ "overcurrent" \in Uses
    /\ MayInterrupt /\ power /\ hcd # "NOT_POWERED" /\ ~disReq
    /\ power' = FALSE /\ hcd' = "RECOVERY" /\ conn' = FALSE
    /\ Raise("OVERCURRENT")
    /\ UNCHANGED <<plug, seen, lock, disReq, root, reqs, devVars, taskVars,
                   userVars, crash>>

IntrRemoteWakeup ==
    /\ "suspend" \in Uses
    /\ MayInterrupt /\ plug /\ hcd = "SUSPENDED"
    /\ Raise("REMOTE_WAKEUP")
    /\ UNCHANGED <<hwVars, hcd, conn, disReq, root, reqs, devVars, taskVars,
                   userVars, crash>>

\* A core that looks notices the end of a connection before the next one.
Attach == /\ ~plug /\ (seen => lock) /\ plug' = TRUE
          /\ UNCHANGED <<power, seen, lock, hcdVars, hubVars, devVars, taskVars,
                         userVars, crash>>
Detach == /\ plug /\ plug' = FALSE
          /\ UNCHANGED <<power, seen, lock, hcdVars, hubVars, devVars, taskVars,
                         userVars, crash>>

Interrupt ==
    \/ IntrConn \/ IntrDisconn \/ IntrEnabled \/ IntrDisabledByReset
    \/ IntrDisabledOnRequest \/ IntrDisabledByError \/ IntrOvercurrent
    \/ IntrRemoteWakeup

-----------------------------------------------------------------------------
(* Port commands.  hcd_port_command() refuses them while an event is pending *)

\* HCD_PORT_CMD_RESET up to its first delay; ret is where the caller goes on.  Its pipes
\* have no URB queued: there is no device yet, or only the enumerator's, which waits.
StartReset(ret) ==
    LET allowed == ~pend /\ hcd \in {"ENABLED", "DISABLED", "SUSPENDED"} IN
    \/ allowed /\ hcd' = "RESETTING" /\ pc' = "hold" /\ why' = ret
    \/ /\ ~allowed \/ (ClockFails /\ hcd = "SUSPENDED")
       /\ pc' = ret /\ UNCHANGED <<hcd, why>>

\* HCD_PORT_CMD_DISABLE up to _internal_port_event_wait().
StartDisable(ret) ==
    LET allowed == ~pend /\ hcd \in {"ENABLED", "SUSPENDED"} /\ PipesHalted IN
    \/ allowed /\ disReq' = TRUE /\ pc' = "disabling" /\ why' = ret
    \/ /\ ~allowed \/ (ClockFails /\ hcd = "SUSPENDED")
       /\ pc' = ret /\ UNCHANGED <<disReq, why>>

\* RESET_HOLD_MS is over; a requested disable interrupt has come by then.
HoldEnd ==
    /\ pc = "hold" /\ (conn /\ hcd = "RESETTING" => lock)
    /\ pc' = IF hcd = "RESETTING" THEN "settle" ELSE why
    /\ UNCHANGED <<hwVars, hcdVars, hubVars, devVars, todo, taken, ev, why,
                   userVars, crash>>

\* RESET_RECOVERY_MS is over, and the core has enabled a connected port.
\* After a second reset, dev_tree_node_reset_completed() lets enumeration go on.
SettleEnd ==
    /\ pc = "settle" /\ (plug /\ power /\ hcd = "RESETTING" => lock)
    /\ LET ok == hcd = "ENABLED" /\ conn IN
        /\ pc' = IF ok /\ why = "hub" THEN "new" ELSE why
        /\ life' = IF ok /\ why = "usbh" /\ life = "reset" THEN "address" ELSE life
    /\ UNCHANGED <<hwVars, hcdVars, hubVars, held, halted, freeing, todo, taken,
                   ev, why, pmVars, userVars, crash>>

DisableEnd ==
    /\ pc = "disabling" /\ ~disReq
    /\ pc' = why
    /\ UNCHANGED <<hwVars, hcdVars, hubVars, devVars, todo, taken, ev, why,
                   userVars, crash>>

-----------------------------------------------------------------------------
(* hub_process() and root_port_handle_events() *)

\* The daemon's turn of the hub driver, after usbh_process(), and each round of its loop.
HubTake ==
    /\ (pc = "usbh" /\ ~clear) \/ (pc = "hub" /\ todo = {})
    /\ actions # {}
    /\ todo' = actions /\ actions' = {} /\ pc' = "hub"
    /\ UNCHANGED <<hwVars, hcdVars, root, reqs, devVars, taken, ev, why,
                   userVars, crash>>

HubDone ==
    /\ pc = "hub" /\ todo = {} /\ actions = {}
    /\ pc' = "usbh"
    /\ UNCHANGED <<hwVars, hcdVars, hubVars, devVars, todo, taken, ev, why,
                   userVars, crash>>

\* hcd_port_handle_event(), up to the debounce delay.
TakeEvent ==
    /\ pc = "hub" /\ "EVENT" \in todo
    /\ todo' = todo \ {"EVENT"}
    /\ pend' = FALSE
    /\ IF ~pend THEN UNCHANGED <<pc, ev>>
       ELSE /\ ev' = last
            /\ pc' = IF last = "CONNECTION" /\ hcd # "NOT_POWERED"
                     THEN "debounce" ELSE "event"
    /\ UNCHANGED <<hwVars, hcd, conn, disReq, last, hubVars, devVars, taken,
                   why, userVars, crash>>

\* _port_debounce() after the delay, which outlasts the end of hub_root_start().
Debounced ==
    /\ pc = "debounce" /\ user # "started"
    /\ hcd' = IF plug /\ power THEN "DISABLED" ELSE "DISCONNECTED"
    /\ seen' = (plug /\ power) /\ lock' = FALSE
    /\ pc' = "event"
    /\ UNCHANGED <<plug, power, conn, disReq, pend, last, hubVars, devVars, todo,
                   taken, ev, why, userVars, crash>>

\* A connection, debounced or not, is answered by a reset of the port.
Connected ==
    /\ pc = "event" /\ ev = "CONNECTION"
    /\ StartReset("hub")
    /\ UNCHANGED <<hwVars, conn, disReq, pend, last, hubVars, devVars, todo,
                   taken, ev, userVars, crash>>

\* Bug: the port is not recovered when there was no device yet.
PortFailed_NoRecover ==
    /\ pc = "event" /\ ev \in {"DISCONNECTION", "ERROR", "OVERCURRENT"}
    /\ IF root # "POWERED" /\ life # "none" THEN life' = "gone" ELSE UNCHANGED life
    /\ root' = IF root = "SUSPENDED" THEN "ENABLED" ELSE root
    /\ pc' = "hub"
    /\ UNCHANGED <<hwVars, hcdVars, reqs, actions, held, halted, freeing, todo,
                   taken, ev, why, pmVars, userVars, crash>>

\* Bug: the hub driver goes on taking the port for suspended.
PortFailed_StaysSuspended ==
    /\ pc = "event" /\ ev \in {"DISCONNECTION", "ERROR", "OVERCURRENT"}
    /\ IF root = "POWERED"
       THEN Request("RECOVER") /\ UNCHANGED life
       ELSE /\ life' = IF life = "none" THEN "none" ELSE "gone"
            /\ UNCHANGED <<reqs, actions>>
    /\ pc' = "hub"
    /\ UNCHANGED <<hwVars, hcdVars, root, held, halted, freeing, todo, taken, ev,
                   why, pmVars, userVars, crash>>

\* Disconnection, error and overcurrent: without a device the port is
\* recovered at once, else dev_tree_node_dev_gone() reports the device's end.
PortFailed ==
    /\ pc = "event" /\ ev \in {"DISCONNECTION", "ERROR", "OVERCURRENT"}
    /\ IF root = "POWERED"
       THEN Request("RECOVER") /\ UNCHANGED <<root, life>>
       ELSE /\ life' = IF life = "none" THEN "none" ELSE "gone"
            /\ root' = IF root = "SUSPENDED" THEN "ENABLED" ELSE root
            /\ UNCHANGED <<reqs, actions>>
    /\ pc' = "hub"
    /\ UNCHANGED <<hwVars, hcdVars, held, halted, freeing, todo, taken, ev, why,
                   pmVars, userVars, crash>>

RemoteWakeup ==
    /\ pc = "event" /\ ev = "REMOTE_WAKEUP"
    /\ IF root = "SUSPENDED" THEN Request("RESUME") ELSE UNCHANGED <<reqs, actions>>
    /\ pc' = "hub"
    /\ UNCHANGED <<hwVars, hcdVars, root, devVars, todo, taken, ev, why,
                   userVars, crash>>

\* The port has been reset: its speed is read, a node and a device are made.
NewDevice ==
    /\ pc = "new" /\ life = "none"
    /\ \/ /\ conn
          /\ life' = "enum" /\ held' = TRUE /\ halted' = FALSE
          /\ state' = [now |-> "new", last |-> "none"]
          /\ pc' = "enabled"
       \/ /\ ~conn \/ "noChannel" \in Uses
          /\ pc' = "giveUp" /\ UNCHANGED <<life, held, halted, state>>
    /\ UNCHANGED <<hwVars, hcdVars, hubVars, freeing, asked, clear, todo, taken, ev,
                   why, userVars, crash>>

SetEnabled ==
    /\ pc = "enabled"
    /\ root' = "ENABLED" /\ pc' = "hub"
    /\ UNCHANGED <<hwVars, hcdVars, reqs, actions, devVars, todo, taken, ev, why,
                   userVars, crash>>

GiveUp ==
    /\ pc = "giveUp"
    /\ StartDisable("hub")
    /\ UNCHANGED <<hwVars, hcd, conn, pend, last, hubVars, devVars, todo, taken,
                   ev, userVars, crash>>

-----------------------------------------------------------------------------
(* root_port_req() *)

TakeReqs ==
    /\ pc = "hub" /\ todo = {"REQ"}
    /\ taken' = reqs /\ reqs' = {} /\ todo' = {} /\ pc' = "req"
    /\ UNCHANGED <<hwVars, hcdVars, root, actions, devVars, ev, why, userVars, crash>>

ReqsDone ==
    /\ pc = "req" /\ taken = {}
    /\ pc' = "hub"
    /\ UNCHANGED <<hwVars, hcdVars, hubVars, devVars, todo, taken, ev, why,
                   userVars, crash>>

NextReq(r) == /\ pc = "req" /\ r \in taken
              /\ \A q \in taken : ReqRank[r] <= ReqRank[q]

\* An early return of root_port_req() drops the requests not handled yet.
ReturnEarly == taken' = {} /\ pc' = "hub"

DoDisable ==
    /\ NextReq("DISABLE")
    /\ taken' = taken \ {"DISABLE"}
    /\ StartDisable("req")
    /\ UNCHANGED <<hwVars, hcd, conn, pend, last, hubVars, devVars, todo, ev,
                   userVars, crash>>

\* hcd_port_recover(); the soft reset takes the core back to its start.
DoRecover ==
    /\ NextReq("RECOVER")
    /\ IF hcd = "RECOVERY" /\ life = "none" /\ ~pend /\ ~conn /\ ~disReq
       THEN /\ hcd' = "NOT_POWERED" /\ last' = "NONE"
            /\ power' = FALSE /\ seen' = FALSE /\ lock' = FALSE
            /\ taken' = taken \ {"RECOVER"} /\ pc' = "powerOn"
            /\ UNCHANGED crash
       ELSE /\ crash' = "recover"
            /\ UNCHANGED <<hcd, last, power, seen, lock, taken, pc>>
    /\ UNCHANGED <<plug, conn, disReq, pend, hubVars, devVars, todo, ev, why,
                   userVars>>

PowerOnAgain ==
    /\ pc = "powerOn"
    /\ \/ /\ root = "NOT_POWERED"
          /\ pc' = "req" /\ UNCHANGED <<hcd, power, crash>>
       \/ /\ root # "NOT_POWERED" /\ ~pend /\ hcd = "NOT_POWERED"
          /\ hcd' = "DISCONNECTED" /\ power' = TRUE /\ pc' = "powered"
          /\ UNCHANGED crash
       \/ /\ root # "NOT_POWERED" /\ (pend \/ hcd # "NOT_POWERED")
          /\ crash' = "power_on" /\ UNCHANGED <<hcd, power, pc>>
    /\ UNCHANGED <<plug, seen, lock, conn, disReq, pend, last, hubVars, devVars,
                   todo, taken, ev, why, userVars>>

SetPowered ==
    /\ pc = "powered"
    /\ root' = "POWERED" /\ pc' = "req"
    /\ UNCHANGED <<hwVars, hcdVars, reqs, actions, devVars, todo, taken, ev, why,
                   userVars, crash>>

DoSuspend ==
    /\ NextReq("SUSPEND")
    /\ \/ /\ root # "ENABLED"
          /\ ReturnEarly /\ UNCHANGED <<hcd, crash>>
       \/ /\ root = "ENABLED" /\ ~pend /\ hcd = "ENABLED" /\ PipesHalted
          /\ hcd' = "SUSPENDING" /\ pc' = "suspending"
          /\ taken' = taken \ {"SUSPEND"} /\ UNCHANGED crash
       \/ /\ root = "ENABLED" /\ ~(~pend /\ hcd = "ENABLED" /\ PipesHalted)
          /\ crash' = "suspend" /\ UNCHANGED <<hcd, pc, taken>>
    /\ UNCHANGED <<hwVars, conn, disReq, pend, last, hubVars, devVars, todo, ev,
                   why, userVars>>

\* SUSPEND_ENTRY_MS is over.
SuspendEnd ==
    /\ pc = "suspending"
    /\ \/ /\ hcd = "SUSPENDING"
          /\ hcd' = "SUSPENDED" /\ pc' = "suspended" /\ UNCHANGED <<taken, crash>>
       \/ /\ hcd = "SUSPENDING" /\ ClockFails
          /\ crash' = "suspend" /\ UNCHANGED <<hcd, pc, taken>>
       \/ /\ hcd # "SUSPENDING"
          /\ ReturnEarly /\ UNCHANGED <<hcd, crash>>
    /\ UNCHANGED <<hwVars, conn, disReq, pend, last, hubVars, devVars, todo, ev,
                   why, userVars>>

\* usbh_devs_set_pm_actions_all(USBH_DEV_SUSPEND_EVT)
TellSuspended == state' = [now |-> "suspended", last |-> state.now]

SetSuspended ==
    /\ pc = "suspended"
    /\ root' = "SUSPENDED" /\ pc' = "req"
    /\ TellSuspended
    /\ UNCHANGED <<hwVars, hcdVars, reqs, actions, life, held, halted, freeing,
                   asked, clear, todo, taken, ev, why, userVars, crash>>

DoResume ==
    /\ NextReq("RESUME")
    /\ LET allowed == root = "SUSPENDED" /\ ~pend /\ hcd = "SUSPENDED" IN
       \/ /\ allowed /\ hcd' = "RESUMING" /\ pc' = "resumeHold"
          /\ taken' = taken \ {"RESUME"} /\ UNCHANGED crash
       \/ /\ allowed /\ ClockFails
          /\ crash' = "resume" /\ UNCHANGED <<hcd, pc, taken>>
       \/ ~allowed /\ ReturnEarly /\ UNCHANGED <<hcd, crash>>
    /\ UNCHANGED <<hwVars, conn, disReq, pend, last, hubVars, devVars, todo, ev,
                   why, userVars>>

\* RESUME_HOLD_MS, then RESUME_RECOVERY_MS, are over.
ResumeDelayEnd(from, to, next) ==
    /\ pc = from
    /\ IF hcd = "RESUMING" /\ conn
       THEN hcd' = next /\ pc' = to /\ UNCHANGED taken
       ELSE ReturnEarly /\ UNCHANGED hcd
    /\ UNCHANGED <<hwVars, conn, disReq, pend, last, hubVars, devVars, todo, ev,
                   why, userVars, crash>>

ResumeHoldEnd   == ResumeDelayEnd("resumeHold", "resumeSettle", "RESUMING")
ResumeSettleEnd == ResumeDelayEnd("resumeSettle", "resumed", "ENABLED")

\* USBH_DEV_RESUME has the USBH clear the endpoints that the suspension has halted,
\* USBH_DEV_RESUME_EVT takes the devices back to the state they were suspended in.
SetResumed ==
    /\ pc = "resumed"
    /\ root' = "ENABLED" /\ clear' = TRUE /\ pc' = "req"
    /\ state' = [state EXCEPT !.now = state.last]
    /\ UNCHANGED <<hwVars, hcdVars, reqs, actions, life, held, halted, freeing, asked,
                   todo, taken, ev, why, userVars, crash>>

\* The clients learn of a light sleep unless the device has gone meanwhile.
DoExit ==
    /\ NextReq("EXIT")
    /\ taken' = taken \ {"EXIT"}
    /\ IF hcd = "RECOVERY" THEN UNCHANGED state ELSE TellSuspended
    /\ UNCHANGED <<hwVars, hcdVars, hubVars, life, held, halted, freeing, asked, clear,
                   pc, todo, ev, why, userVars, crash>>

-----------------------------------------------------------------------------
(* The rest of the daemon's round, as far as it concerns the port *)

\* hub_node_reset(), which the enumerator asks for once.
SecondReset ==
    /\ pc = "usbh" /\ life = "enum"
    /\ life' = "reset"
    /\ StartReset("usbh")
    /\ UNCHANGED <<hwVars, conn, disReq, pend, last, hubVars, held, halted,
                   freeing, todo, taken, ev, pmVars, userVars, crash>>

\* A client may have opened the new device or not.
EnumDone ==
    /\ pc = "usbh" /\ life = "address"
    /\ life' = "idle" /\ held' \in BOOLEAN
    /\ state' = [state EXCEPT !.now = "configured"]
    /\ UNCHANGED <<hwVars, hcdVars, hubVars, halted, freeing, asked, clear, taskVars,
                   userVars, crash>>

\* stage_cancel(), hub_node_disable() and root_port_disable().
EnumFails ==
    /\ "enumFail" \in Uses
    /\ pc = "usbh" /\ life \in {"enum", "address"}
    /\ life' = "idle" /\ held' = FALSE
    /\ IF hcd = "ENABLED" THEN Request("DISABLE") ELSE UNCHANGED <<reqs, actions>>
    /\ UNCHANGED <<hwVars, hcdVars, root, halted, freeing, taskVars, pmVars, userVars, crash>>

Open ==
    /\ life = "idle" /\ ~held /\ ~freeing
    /\ held' = TRUE
    /\ UNCHANGED <<hwVars, hcdVars, hubVars, life, halted, freeing, taskVars,
                   pmVars, userVars, crash>>

Close ==
    /\ life \in {"idle", "gone"} /\ held
    /\ held' = FALSE
    /\ UNCHANGED <<hwVars, hcdVars, hubVars, life, halted, freeing, taskVars,
                   pmVars, userVars, crash>>

FreeAll ==
    /\ "freeAll" \in Uses /\ life = "idle" /\ ~freeing
    /\ freeing' = TRUE
    /\ UNCHANGED <<hwVars, hcdVars, hubVars, life, held, halted, taskVars,
                   pmVars, userVars, crash>>

\* Bug: the port of a freed device is not recycled.
DevFree_NoRecycle ==
    /\ pc = "usbh" /\ ~held
    /\ life = "gone" \/ (life = "idle" /\ freeing)
    /\ life' = "none" /\ freeing' = FALSE /\ asked' = FALSE /\ clear' = FALSE
    /\ state' = [now |-> "none", last |-> "none"]
    /\ UNCHANGED <<hwVars, hcdVars, hubVars, held, halted, taskVars, userVars, crash>>

\* handle_free(), hub_node_recycle() and root_port_recycle().
DevFree ==
    /\ pc = "usbh" /\ ~held
    /\ life = "gone" \/ (life = "idle" /\ freeing)
    /\ life' = "none" /\ freeing' = FALSE /\ asked' = FALSE /\ clear' = FALSE
    /\ state' = [now |-> "none", last |-> "none"]
    /\ \/ /\ hcd \in {"ENABLED", "SUSPENDED"}
          /\ Request("DISABLE") /\ UNCHANGED crash
       \/ /\ hcd = "RECOVERY"
          /\ Request("RECOVER") /\ UNCHANGED crash
       \/ /\ hcd \notin {"ENABLED", "SUSPENDED", "RECOVERY"}
          /\ crash' = "recycle" /\ UNCHANGED <<reqs, actions>>
    /\ UNCHANGED <<hwVars, hcdVars, root, held, halted, taskVars, userVars>>

\* hub_root_can_suspend(): a port in recovery passes.
CanSuspend == root = "ENABLED" /\ hcd # "SUSPENDING"

\* usb_host_lib_root_port_suspend(), which nobody calls during an enumeration, nor, unless
\* eager, while the USBH has still to clear the endpoints.
AskSuspend ==
    /\ "suspend" \in Uses
    /\ life \in {"idle", "gone"} /\ CanSuspend /\ ~asked
    /\ Calm => /\ life = "idle" /\ hcd = "ENABLED"
               /\ ~(halted \/ clear) \/ ("eager" \in Uses /\ clear)
               /\ ~pend /\ reqs = {} /\ taken = {}
    /\ asked' = TRUE
    /\ UNCHANGED <<hwVars, hcdVars, hubVars, life, held, halted, freeing, clear, state,
                   taskVars, userVars, crash>>

\* hub_root_mark_suspend()
MarkSuspend == IF root = "ENABLED" THEN Request("SUSPEND") ELSE UNCHANGED <<reqs, actions>>

\* usbh_process(): all endpoints of all devices are halted, then those of a port that is
\* still connected cleared, as asked, then USBH_EVENT_ALL_IDLE is sent and answered.
UsbhProcess ==
    /\ pc = "usbh" /\ (asked \/ clear)
    /\ halted' = IF clear /\ conn THEN FALSE ELSE asked \/ halted
    /\ asked' = FALSE /\ clear' = FALSE
    /\ IF asked THEN MarkSuspend ELSE UNCHANGED <<reqs, actions>>
    /\ UNCHANGED <<hwVars, hcdVars, root, life, held, freeing, state, taskVars,
                   userVars, crash>>

\* hub_root_can_resume()
CanResume == root = "SUSPENDED" /\ hcd = "SUSPENDED"

\* usb_host_lib_root_port_resume(), also called for a transfer to a suspended device.
MarkResume ==
    /\ {"suspend", "sleep"} \cap Uses # {}
    /\ life # "none" /\ CanResume /\ "RESUME" \notin reqs
    /\ Calm => "EXIT" \notin reqs \cup taken
    /\ Request("RESUME")
    /\ UNCHANGED <<hwVars, hcdVars, root, devVars, taskVars, userVars, crash>>

\* hub_root_light_sleep_suspend_bus() halts all endpoints and suspends the port
\* without a delay; any other state of the port is left alone.
SuspendAtOnce ==
    /\ root = "ENABLED" /\ hcd = "ENABLED"
    /\ halted' = TRUE /\ hcd' = "SUSPENDED" /\ root' = "SUSPENDED"

\* hub_root_mark_exit_light_sleep(), of a port which the light sleep has suspended.
MarkExit == Request("EXIT")

\* enter_light_sleep() and exit_light_sleep(), while every task is blocked and no
\* device is being enumerated; the clients are left to be told by the daemon.
LightSleep ==
    /\ "sleep" \in Uses
    /\ pc = "usbh" /\ actions = {} /\ user = "idle" /\ ~asked /\ ~clear
    /\ life = "idle" /\ ~(freeing /\ ~held)
    /\ SuspendAtOnce /\ MarkExit
    /\ UNCHANGED <<hwVars, conn, disReq, pend, last, life, held, freeing, pmVars,
                   taskVars, userVars, crash>>

-----------------------------------------------------------------------------
(* The user task: usb_host_lib_set_root_port_power() *)

\* The daemon holds port_mux throughout a command or an event's debouncing.
MuxFree == pc \notin {"debounce", "hold", "settle", "disabling", "suspending",
                      "resumeHold", "resumeSettle"}

Settled == /\ pc = "usbh" /\ actions = {} /\ ~pend
           /\ life # "gone" /\ hcd # "RECOVERY"
           /\ seen => power /\ life # "none"

MaySwitch == /\ user = "idle"
             /\ \/ "switchAnytime" \in Uses
                \/ "switch" \in Uses /\ Settled

\* hub_root_stop(): the hub driver's state first, then the HCD's.
Stop ==
    /\ MaySwitch /\ root # "NOT_POWERED"
    /\ root' = "NOT_POWERED" /\ user' = "stopping"
    /\ UNCHANGED <<hwVars, hcdVars, reqs, actions, devVars, taskVars, wantOn, env,
                   crash>>

PowerOff ==
    /\ user = "stopping" /\ MuxFree
    /\ LET allowed == ~pend /\ hcd # "NOT_POWERED" IN
       \/ /\ allowed /\ hcd' = "NOT_POWERED" /\ power' = FALSE
          /\ user' = "idle" /\ wantOn' = FALSE /\ UNCHANGED crash
       \/ /\ ~allowed \/ (ClockFails /\ hcd = "SUSPENDED")
          /\ crash' = "stop" /\ UNCHANGED <<hcd, power, user, wantOn>>
    /\ UNCHANGED <<env, plug, seen, lock, conn, disReq, pend, last, hubVars, devVars,
                   taskVars>>

\* hub_root_start(): the HCD's state first, then the hub driver's.
Start ==
    /\ MaySwitch /\ root = "NOT_POWERED"
    /\ user' = "starting" /\ wantOn' = TRUE
    /\ UNCHANGED <<hwVars, hcdVars, hubVars, devVars, taskVars, env, crash>>

\* A refused command is rolled back by hub_root_stop(), which finds nothing to do.
PowerOn ==
    /\ user = "starting" /\ MuxFree
    /\ IF ~pend /\ hcd = "NOT_POWERED"
       THEN /\ hcd' = "DISCONNECTED" /\ power' = TRUE /\ lock' = FALSE
            /\ user' = "started"
       ELSE user' = "idle" /\ UNCHANGED <<hcd, power, lock>>
    /\ UNCHANGED <<plug, seen, conn, disReq, pend, last, hubVars, devVars,
                   taskVars, wantOn, env,
                   crash>>

StartDone ==
    /\ user = "started"
    /\ root' = "POWERED" /\ user' = "idle"
    /\ UNCHANGED <<hwVars, hcdVars, reqs, actions, devVars, taskVars, wantOn, env,
                   crash>>

-----------------------------------------------------------------------------

\* usb_host_install() has installed the hub driver and starts the root port.
Init ==
    /\ env \in Environments
    /\ plug \in BOOLEAN /\ power = FALSE /\ seen = FALSE /\ lock = FALSE
    /\ hcd = "NOT_POWERED" /\ conn = FALSE /\ disReq = FALSE
    /\ pend = FALSE /\ last = "NONE"
    /\ root = "NOT_POWERED" /\ reqs = {} /\ actions = {}
    /\ life = "none" /\ held = FALSE /\ halted = FALSE /\ freeing = FALSE
    /\ asked = FALSE /\ clear = FALSE /\ state = [now |-> "none", last |-> "none"]
    /\ pc = "usbh" /\ todo = {} /\ taken = {} /\ ev = "NONE" /\ why = "hub"
    /\ user = "starting" /\ wantOn = TRUE /\ crash = "none"

HubStep ==
    \/ HubTake \/ HubDone \/ TakeEvent \/ Debounced \/ Connected \/ PortFailed
    \/ RemoteWakeup \/ HoldEnd \/ SettleEnd \/ NewDevice \/ SetEnabled \/ GiveUp
    \/ DisableEnd \/ TakeReqs \/ ReqsDone \/ DoDisable \/ DoRecover
    \/ PowerOnAgain \/ SetPowered \/ DoSuspend \/ SuspendEnd \/ SetSuspended
    \/ DoResume \/ ResumeHoldEnd \/ ResumeSettleEnd \/ SetResumed \/ DoExit

DeviceStep == SecondReset \/ EnumDone \/ DevFree \/ UsbhProcess

SwitchStep == PowerOff \/ PowerOn \/ StartDone

\* What follows a crash is of no interest.
Next ==
    \/ Interrupt \/ Attach \/ Detach
    \/ HubStep \/ DeviceStep \/ EnumFails \/ Open \/ Close \/ FreeAll
    \/ AskSuspend \/ MarkResume \/ LightSleep
    \/ Stop \/ Start \/ SwitchStep

Spec == Init /\ [][Next]_vars

\* Interrupts are served, the daemon and the user's call run on, and a client
\* closes a device that is gone.
Fairness ==
    /\ WF_vars(Interrupt)
    /\ WF_vars(HubStep) /\ WF_vars(DeviceStep)
    /\ WF_vars(SwitchStep)
    /\ WF_vars(Close /\ life = "gone")

FairSpec == Spec /\ Fairness

-----------------------------------------------------------------------------
(* Properties *)

\* No assertion, ESP_ERROR_CHECK() or abort() of the port's code fails.
NoAbort == crash = "none"

\* A port in recovery is never forgotten: an event to handle, a device to be
\* freed or a request to the hub driver will bring it back (hub.c:476-527).
\* free_all, which is meant for the end of the program, may strand the port.
NobodyStranded ==
    hcd = "RECOVERY" /\ "freeAll" \notin Uses =>
        \/ pend \/ pc = "event" \/ pc = "enabled"
        \/ life # "none" \/ "RECOVER" \in reqs \cup taken

\* A port is recovered only when its device, whose pipes the soft reset would
\* take away, is freed, and only once (hcd_port_recover()); and a new device is
\* registered only when the last one has left its node.
PortIsVacated ==
    /\ "RECOVER" \in reqs \cup taken => life = "none" /\ hcd = "RECOVERY"
    /\ pc = "new" => life = "none"

\* The hub driver believes the port suspended only if the HCD agrees, or has
\* seen an interrupt that the hub driver will be told of.
SuspendAgrees ==
    root = "SUSPENDED" =>
        \/ hcd \in {"SUSPENDED", "RESUMING"} /\ halted
        \/ hcd = "RECOVERY" /\ (pend \/ pc = "event")
        \/ pc = "resumed"

\* A device is known as suspended to its clients, who send a transfer to a suspended
\* device only with a resume, if and only if the port is (hub.c:598-657); and what a
\* resume takes it back to is a state that it was in.
StateAgrees ==
    /\ life = "idle" /\ pc = "usbh" /\ hcd # "RECOVERY" /\ "EXIT" \notin reqs
       /\ root \in {"ENABLED", "SUSPENDED"} =>
          (state.now = "suspended" <=> root = "SUSPENDED")
    /\ life = "idle" => state.now # "none"

\* Power that the user has switched off stays off until the user switches it on.
OffStaysOff == ~wantOn => ~power

\* A port in recovery is recovered.
PortRecovers == hcd = "RECOVERY" /\ "freeAll" \notin Uses ~> hcd # "RECOVERY"

\* A device that stays plugged in is found, if its port does not fail.
PluggedIsFound ==
    Uses \subseteq {"enumFail", "suspend"} /\ <>[]plug => []<>(life # "none")

\* The hub driver, the port of the HCD and the device on it agree at any time: no
\* check fails, somebody is still to recover a port that needs it, the port is free
\* of a device that is gone, and it is suspended if and only if that is known.
Consistent ==
    TypeOK /\ NoAbort /\ NobodyStranded /\ PortIsVacated /\ SuspendAgrees /\ StateAgrees /\ OffStaysOff

===============================================================================
