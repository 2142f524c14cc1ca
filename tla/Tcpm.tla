-------------------------------- MODULE Tcpm --------------------------------
(***************************************************************************)
(* The Type-C port manager, usb_tcpm.c, with its FUSB302 backend: one port  *)
(* that is created and destroyed, and the partners that are plugged into    *)
(* its socket.                                                              *)
(*                                                                          *)
(* Actors: the interrupt handler of the chip's pin, which is sensitive to   *)
(* the level and disables itself; the "worker" task, which the ports share; *)
(* the "app"lication, which creates and destroys the port; the chip, and    *)
(* the partner.  Every access to the chip is a step, which may fail.        *)
(***************************************************************************)
EXTENDS Integers, Board

-----------------------------------------------------------------------------
(***************************************************************************)
(* The backend of a Type-C port, fusb302_ctrl.c, as functions on the chip's *)
(* registers.  The chip toggles between the pull-ups of a source and the    *)
(* pull-downs of a sink until it finds a partner, latches causes of an      *)
(* interrupt until they are read, and pulls its pin low meanwhile.          *)
(*                                                                          *)
(* Orientations are 1 and 2, for CC1 and CC2; 1 is also cc2_active = false. *)
(* Currents are not told apart, but from 0.                                 *)
(***************************************************************************)

Role == {"sink", "source", "drp"}

\* irq: INTERRUPT, INTERRUPTA and INTERRUPTB are unmasked; pull: what SWITCHES0 puts
\* on the CC pins; meas: which it measures; lat: the latched causes, TOGSS in "found".
ChipType == [on : BOOLEAN, irq : BOOLEAN, role : Role,
             mode : {"none", "ufp", "dfp", "drp"}, toggle : BOOLEAN,
             found : {"none", "src", "snk"}, cc : 1..2, pull : {"none", "rd", "rp"},
             meas : 0..2, lat : SUBSET {"tog", "cc", "vbus"}]

NoChip == [on |-> FALSE, irq |-> FALSE, role |-> "sink", mode |-> "none", toggle |-> FALSE,
           found |-> "none", cc |-> 1, pull |-> "none", meas |-> 0, lat |-> {}]

\* typec_cc_status_t
StatusType == [attached : BOOLEAN, cc : 1..2, rp : BOOLEAN, vbus : BOOLEAN,
               tog : {"none", "src", "snk"}]
NoStatus   == [attached |-> FALSE, cc |-> 1, rp |-> FALSE, vbus |-> FALSE, tog |-> "none"]

Running(c) == c.toggle /\ c.found = "none"
PinLow(c)  == c.irq /\ c.lat # {}
Latch(c, causes) == IF c.irq THEN [c EXCEPT !.lat = @ \cup causes] ELSE c

\* Which pull a partner meets; a dual role toggles between both.
Pulls(c) ==
    IF ~c.on THEN {}
    ELSE IF ~c.toggle THEN {c.pull}
    ELSE IF c.found # "none" THEN {IF c.found = "src" THEN "rp" ELSE "rd"}
    ELSE CASE c.mode = "ufp" -> {"rd"} [] c.mode = "dfp" -> {"rp"}
           [] c.mode = "drp" -> {"rd", "rp"} [] OTHER -> {}

\* The toggle engine finds a partner and stops.
ToggleFound(c, kind, cc) ==
    Latch([c EXCEPT !.found = IF kind = "sink" THEN "src" ELSE "snk", !.cc = cc], {"tog"})

\* Whether the comparator sees a partner: on the measured pin, or on any while the
\* toggle engine measures.
Sees(c, plug, kind) == plug.kind = kind /\ plug.bounce # "now" /\ c.meas \in {0, plug.cc}

\* TOGSS is not defined once the engine is switched off.
Off(c) == {[c EXCEPT !.toggle = FALSE], [c EXCEPT !.toggle = FALSE, !.found = "none"]}

\* fusb302_toggle_disable()
ToggleDisable(c) == IF c.toggle THEN Off(c) ELSE {c}

\* fusb302_toggle_enable(): latched causes are cleared before the edge.
ToggleEnable(c) == [c EXCEPT !.toggle = TRUE, !.found = "none", !.lat = {}]

\* fusb302_init() and fusb302_enable_irq(): reset, powered and unmasked.
ChipInit == [NoChip EXCEPT !.on = TRUE, !.irq = TRUE]

\* fusb302_deinit() and fusb302_enable_irq()
ChipDeinit(c) == [c EXCEPT !.on = FALSE, !.irq = FALSE, !.pull = "none", !.mode = "none",
                           !.toggle = FALSE]

\* fusb302_set_role(): coming from the dual role, the engine is not started again if
\* it has found the partner for this role.
Mode(role) == CASE role = "sink" -> "ufp" [] role = "source" -> "dfp" [] OTHER -> "drp"
Already(c, role) ==
    c.role = "drp" /\ ((role = "sink" /\ c.found = "snk") \/ (role = "source" /\ c.found = "src"))
SetRole(c, role) ==
    LET set == [c EXCEPT !.role = role, !.mode = Mode(role), !.meas = 0,
                         !.pull = IF role = "sink" THEN "rd" ELSE "rp"]
    IN  IF Already(c, role) THEN Off(set) ELSE {ToggleEnable(set)}

\* It fails before or after the mode is set, without toggling.
SetRoleFails(c, role) == {c} \cup Off([c EXCEPT !.mode = Mode(role)])

\* fusb302_commit_attach() and fusb302_apply_polarity()
CommitAttach(c, cc) == {[d EXCEPT !.meas = cc] : d \in ToggleDisable(c)}
CommitFails(c) == {c} \cup ToggleDisable(c)

\* fusb302_service_irq(): the causes are read and so cleared, until there are none.
ServiceIrq(c) == [c EXCEPT !.lat = {}]

\* fusb302_get_status()
GetStatus(c, plug, vbus) ==
    [tog |-> c.found, cc |-> IF c.found = "none" THEN 1 ELSE c.cc, vbus |-> vbus,
     attached |-> IF c.role = "source" THEN Sees(c, plug, "sink") ELSE c.found # "none",
     rp |-> IF c.role = "sink" THEN Sees(c, plug, "source") ELSE c.found # "snk"]

-----------------------------------------------------------------------------

CONSTANTS
    MaxFails,       \* bound of failures of the I2C bus
    MaxPorts        \* bound of ports that are created

others == <<mscVars, cdcVars, netVars, env>>

Actor == {"worker", "app"}

\* life: "listed" between usb_tcpm_port_list_add() and usb_tcpm_port_list_remove();
\* policy is env.role; task: usb_tcpm_install() has created the worker.
PortType == [life : {"none", "made", "listed", "gone", "freed"}, deleting : BOOLEAN,
             pending : BOOLEAN, processing : BOOLEAN, task : BOOLEAN, role : Role,
             attached : BOOLEAN, cc : 1..2, rp : BOOLEAN, waiting : BOOLEAN, grace : BOOLEAN,
             told : {"none", "source", "sink"}, made : 0..MaxPorts]
GpioType == [vbus : BOOLEAN, intr : BOOLEAN, handler : BOOLEAN, isr : BOOLEAN]
LineType == [kind : {"none", "sink", "source"}, cc : 1..2, vbus : BOOLEAN,
             bounce : {"not", "now", "was"}, plugs : 0..MaxPlugs, fails : 0..MaxFails,
             lost : BOOLEAN]
DoingType == [at : {"idle", "setrole", "service", "handle", "decide", "role", "commit", "sink",
                    "rearm", "done", "list", "arm", "end", "enable", "fail",
                    "unhook", "wait", "free"},
              ev : SUBSET {"tog", "cc", "vbus"}, st : StatusType, again : BOOLEAN]

TcTypeOK ==
    /\ port \in PortType /\ chip \in ChipType /\ gpio \in GpioType /\ line \in LineType
    /\ doing \in [Actor -> DoingType]

-----------------------------------------------------------------------------
(* Helpers *)

NotDoing == [at |-> "idle", ev |-> {}, st |-> NoStatus, again |-> FALSE]
NoPort   == [life |-> "none", deleting |-> FALSE, pending |-> FALSE, processing |-> FALSE,
             task |-> FALSE, role |-> "sink", attached |-> FALSE, cc |-> 1, rp |-> FALSE,
             waiting |-> FALSE, grace |-> FALSE, told |-> "none", made |-> 0]

Is(a, p) == doing[a].at = p
To(a, p) == doing' = [doing EXCEPT ![a].at = p]
Ends(a)  == doing' = [doing EXCEPT ![a] = NotDoing]

Hurt(f) == fault' = IF fault = "none" THEN f ELSE fault
Touches    == Hurt(IF port.life \in {"none", "freed"} THEN "freed" ELSE "none")

\* An access to the chip fails, of a kind that the environment knows.  If causes were
\* cleared before, what they meant is lost: nothing tries again.
Fails(kind) ==
    /\ InUse(kind) /\ line.fails < MaxFails
    /\ line' = [line EXCEPT !.fails = @ + 1, !.lost = kind \notin {"serviceFails", "newFails"}]

Vbus == gpio.vbus \/ line.vbus

\* usb_tcpm_set_vbus_source(): the chip sees the change.
SetVbus(on) ==
    /\ gpio' = [gpio EXCEPT !.vbus = on]
    /\ chip' = IF (on \/ line.vbus) # Vbus THEN Latch(chip, {"vbus"}) ELSE chip

\* usb_tcpm_emit_attached() and usb_tcpm_emit_detached()
EmitAttached(p) == [p EXCEPT !.told = p.role]
EmitDetached(p) == [p EXCEPT !.told = "none"]
Tells(attached) ==
    Hurt(IF (port.told = "none") # attached \/ port.role = "drp" THEN "told" ELSE "none")

\* usb_tcpm_set_attach_snapshot()
Snapshot(p, attached, cc, rp) == [p EXCEPT !.attached = attached, !.cc = cc, !.rp = rp]
Detached(p) == Snapshot(p, FALSE, 1, FALSE)

-----------------------------------------------------------------------------
(* usb_tcpm_handle_events(), by the worker, and once by the application before *)
(* the worker knows the port                                                   *)

\* fusb302_service_irq() fails with nothing read, or with causes that it has cleared.
Service(a) ==
    /\ Is(a, "service") /\ Touches
    /\ \/ /\ chip' = ServiceIrq(chip)
          /\ doing' = [doing EXCEPT ![a].at = IF chip.lat = {} /\ (a = "app" \/ doing[a].again)
                                              THEN IF a = "app" THEN "list" ELSE "end"
                                              ELSE "handle",
                                    ![a].ev = chip.lat]
          /\ UNCHANGED line
       \/ \E kind \in {"serviceFails", "serviceDrops"} :
            /\ Fails(kind)
            /\ chip' = IF kind = "serviceDrops" THEN ServiceIrq(chip) ELSE chip
            /\ To(a, IF a = "app" THEN "fail" ELSE "end")
    /\ UNCHANGED <<port, gpio, others>>

\* Which events matter in which state.
Required ==
    CASE port.role = "drp" -> {"tog"}
      [] port.role = "source" -> IF port.attached THEN {"cc"} ELSE {"tog"}
      [] OTHER -> IF port.attached \/ port.waiting THEN {"vbus", "cc"} ELSE {"tog"}

Handle(a) ==
    /\ Is(a, "handle") /\ Touches
    /\ \/ /\ doing[a].ev \cap Required = {}
          /\ To(a, "done") /\ UNCHANGED line
       \/ /\ doing[a].ev \cap Required # {}
          /\ doing' = [doing EXCEPT ![a].at = "decide", ![a].st = GetStatus(chip, line, Vbus)]
          /\ UNCHANGED line
       \/ /\ doing[a].ev \cap Required # {}
          /\ Fails("statusFails") /\ To(a, "done")
    /\ UNCHANGED <<port, chip, gpio, others>>

Decide(a) == Is(a, "decide") /\ Touches

\* The dual role becomes what the toggle engine has found, a sink without VBUS.
DecideDrp(a) ==
    /\ Decide(a) /\ port.role = "drp"
    /\ To(a, IF doing[a].st.tog = "none" THEN "done" ELSE "role")
    /\ IF doing[a].st.tog = "snk" THEN SetVbus(FALSE) ELSE UNCHANGED <<gpio, chip>>
    /\ UNCHANGED <<port, line, others>>

NextRole(a) == IF doing[a].st.tog = "src" THEN "source" ELSE "sink"

SetNextRole(a) ==
    /\ Is(a, "role") /\ Touches
    /\ \/ /\ chip' \in SetRole(chip, NextRole(a))
          /\ port' = [Detached(port) EXCEPT !.role = NextRole(a), !.waiting = FALSE]
          /\ To(a, "commit") /\ UNCHANGED line
       \/ /\ Fails("roleFails") /\ chip' \in SetRoleFails(chip, NextRole(a))
          /\ To(a, "done") /\ UNCHANGED port
    /\ UNCHANGED <<gpio, others>>

\* A port of one role that is not attached.
DecideFound(a) ==
    /\ Decide(a) /\ port.role # "drp" /\ ~port.attached /\ ~port.waiting
    /\ To(a, IF doing[a].st.tog = (IF port.role = "source" THEN "src" ELSE "snk")
             THEN "commit" ELSE "done")
    /\ UNCHANGED <<port, chip, gpio, line, others>>

\* usb_tcpm_arm_source_detach_grace(): while VBUS comes up the sink may seem gone.
Armed(p) == [p EXCEPT !.grace = TRUE]

\* Bug: the grace period is not armed.
CommitSource_Ungraced(a) ==
    /\ Is(a, "commit") /\ port.role = "source"
    /\ LET st == doing[a].st
           on == IF Vbus THEN chip ELSE Latch(chip, {"vbus"})
       IN  /\ chip' \in CommitAttach(on, st.cc)
           /\ port' = [EmitAttached(Snapshot(port, TRUE, st.cc, st.rp)) EXCEPT !.waiting = FALSE]
    /\ gpio' = [gpio EXCEPT !.vbus = TRUE]
    /\ Tells(TRUE) /\ To(a, "done")
    /\ UNCHANGED <<line, others>>

\* A source commits the orientation, and is attached with VBUS on.
CommitSource(a) ==
    /\ Is(a, "commit") /\ port.role = "source"
    /\ LET st == doing[a].st
           on == IF Vbus THEN chip ELSE Latch(chip, {"vbus"})
       IN  /\ chip' \in CommitAttach(on, st.cc)
           /\ port' = [EmitAttached(Armed(Snapshot(port, TRUE, st.cc, st.rp)))
                          EXCEPT !.waiting = FALSE]
    /\ gpio' = [gpio EXCEPT !.vbus = TRUE]
    /\ Tells(TRUE) /\ To(a, "done")
    /\ UNCHANGED <<line, others>>

CommitSink(a) ==
    /\ Is(a, "commit") /\ port.role = "sink" /\ Touches
    /\ chip' \in CommitAttach(chip, doing[a].st.cc)
    /\ port' = [port EXCEPT !.grace = FALSE]
    /\ To(a, "sink")
    /\ UNCHANGED <<gpio, line, others>>

Uncommitted(a) ==
    /\ Is(a, "commit") /\ Touches
    /\ Fails("commitFails") /\ chip' \in CommitFails(chip)
    /\ To(a, "done")
    /\ UNCHANGED <<port, gpio, others>>

\* usb_tcpm_sink_attach_or_wait_vbus(): a sink is attached with the VBUS of its
\* partner, or usb_tcpm_set_sink_pending_attach() has it wait for that.  The status is
\* read once more when no current is known; a failure leaves what was read before.
SinkAttach(a) ==
    /\ Is(a, "sink") /\ doing[a].st.vbus
    /\ \E answers \in BOOLEAN :
         LET st == doing[a].st
             reread == GetStatus(chip, line, Vbus)
             better == answers /\ ~st.rp /\ reread.vbus
             cc == IF better /\ reread.tog = "snk" THEN reread.cc ELSE st.cc
         IN  /\ IF answers THEN UNCHANGED line ELSE ~st.rp /\ Fails("statusFails")
             /\ port' = EmitAttached([Snapshot(port, TRUE, cc, IF better THEN reread.rp ELSE st.rp)
                                         EXCEPT !.waiting = FALSE])
    /\ Tells(TRUE) /\ To(a, "done")
    /\ UNCHANGED <<chip, gpio, others>>

SinkWait(a) ==
    /\ Is(a, "sink") /\ ~doing[a].st.vbus /\ Touches
    /\ port' = [port EXCEPT !.waiting = TRUE, !.cc = doing[a].st.cc, !.rp = doing[a].st.rp]
    /\ To(a, "done")
    /\ UNCHANGED <<chip, gpio, line, others>>

\* An attached source: usb_tcpm_source_detach_grace_active(), or the sink is gone.
DecideSource(a) ==
    /\ Decide(a) /\ port.role = "source" /\ port.attached
    /\ doing[a].st.attached \/ port.grace
    /\ To(a, "done")
    /\ UNCHANGED <<port, chip, gpio, line, others>>

DetachSource(a) ==
    /\ Is(a, "decide") /\ port.role = "source" /\ port.attached
    /\ ~doing[a].st.attached /\ ~port.grace
    /\ port' = EmitDetached([Detached(port) EXCEPT !.waiting = FALSE])
    /\ SetVbus(FALSE) /\ To(a, "rearm")
    /\ IF line.kind = "sink" THEN Hurt("detached from a sink") ELSE Tells(FALSE)
    /\ UNCHANGED <<line, others>>

\* A sink that waits for VBUS: its partner is gone, or supplies it.
DecideWaiting(a) ==
    /\ Is(a, "decide") /\ port.role = "sink" /\ port.waiting
    /\ LET st == doing[a].st
           cancel == "cc" \in doing[a].ev /\ ~st.rp
       IN  /\ port' = IF cancel THEN [port EXCEPT !.waiting = FALSE]
                      ELSE IF ~st.vbus THEN port
                      ELSE EmitAttached([Snapshot(port, TRUE, port.cc, st.rp) EXCEPT !.waiting = FALSE])
           /\ IF st.vbus /\ ~cancel THEN Tells(TRUE) ELSE Touches
           /\ To(a, IF cancel THEN "rearm" ELSE "done")
    /\ UNCHANGED <<chip, gpio, line, others>>

\* An attached sink follows the current that is advertised, and is detached when VBUS
\* is gone.
DecideSink(a) ==
    /\ Is(a, "decide") /\ port.role = "sink" /\ port.attached
    /\ LET st == doing[a].st
       IN  /\ port' = IF ~st.vbus THEN EmitDetached([Detached(port) EXCEPT !.waiting = FALSE])
                      ELSE IF "cc" \in doing[a].ev THEN [port EXCEPT !.rp = st.rp] ELSE port
           /\ IF st.vbus THEN Touches ELSE Tells(FALSE)
           /\ To(a, IF st.vbus THEN "done" ELSE "rearm")
    /\ UNCHANGED <<chip, gpio, line, others>>

\* usb_tcpm_rearm_after_detach()
Rearm(a) ==
    /\ Is(a, "rearm") /\ Touches
    /\ \/ /\ chip' \in SetRole(chip, env.role)
          /\ port' = [port EXCEPT !.role = env.role] /\ UNCHANGED line
       \/ /\ Fails("roleFails") /\ chip' \in SetRoleFails(chip, env.role)
          /\ UNCHANGED port
    /\ To(a, "done")
    /\ UNCHANGED <<gpio, others>>

HandleStep(a) ==
    \/ Service(a) \/ Handle(a) \/ DecideDrp(a) \/ SetNextRole(a) \/ DecideFound(a)
    \/ CommitSource(a) \/ CommitSink(a) \/ Uncommitted(a) \/ SinkAttach(a) \/ SinkWait(a)
    \/ DecideSource(a) \/ DetachSource(a) \/ DecideWaiting(a) \/ DecideSink(a) \/ Rearm(a)

-----------------------------------------------------------------------------
(* usb_tcpm_gpio_isr() and usb_tcpm_task() *)

\* The interrupt disables itself ...
Isr ==
    /\ gpio.intr /\ gpio.handler /\ PinLow(chip) /\ ~gpio.isr
    /\ gpio' = [gpio EXCEPT !.intr = FALSE, !.isr = TRUE]
    /\ UNCHANGED <<port, chip, line, doing, fault, others>>

\* ... and has the worker look, unless the port is being deleted.
IsrEnd ==
    /\ gpio.isr /\ Touches
    /\ gpio' = [gpio EXCEPT !.isr = FALSE]
    /\ port' = IF port.deleting THEN port ELSE [port EXCEPT !.pending = TRUE]
    /\ UNCHANGED <<chip, line, doing, others>>

\* Steps of tasks on the core of the interrupt wait for its end.
NoIsr == ~gpio.isr \/ InUse("cores")

TakePort ==
    /\ Is("worker", "idle") /\ port.task /\ port.life = "listed"
    /\ port.pending /\ ~port.processing /\ ~port.deleting
    /\ port' = [port EXCEPT !.pending = FALSE, !.processing = TRUE]
    /\ To("worker", "service")
    /\ UNCHANGED <<chip, gpio, line, fault, others>>

\* If the pin is still low the causes are read and handled once more.
TakeAgain ==
    /\ Is("worker", "done")
    /\ LET again == PinLow(chip) /\ ~doing["worker"].again
       IN  doing' = [doing EXCEPT !["worker"].at = IF again THEN "service" ELSE "end",
                                  !["worker"].again = again]
    /\ UNCHANGED <<port, chip, gpio, line, fault, others>>

TakeEnd ==
    /\ Is("worker", "end") /\ Touches
    /\ port' = [port EXCEPT !.processing = FALSE]
    /\ IF port.deleting THEN Ends("worker") ELSE To("worker", "enable")
    /\ UNCHANGED <<chip, gpio, line, others>>

\* The interrupt is enabled, after "deleting" was read.
Enable ==
    /\ Is("worker", "enable")
    /\ gpio' = [gpio EXCEPT !.intr = TRUE]
    /\ Ends("worker")
    /\ UNCHANGED <<port, chip, line, fault, others>>

WorkerStep == TakePort \/ TakeAgain \/ TakeEnd \/ Enable \/ HandleStep("worker")

-----------------------------------------------------------------------------
(* The application *)

Install ==
    /\ Is("app", "idle") /\ ~port.task /\ port.made < MaxPorts /\ env.role # "none"
    /\ port' = [port EXCEPT !.task = TRUE]
    /\ UNCHANGED <<chip, gpio, line, doing, fault, others>>

\* usb_tcpm_uninstall(): refused while there are ports; the task is deleted wherever
\* it is.
Uninstall ==
    /\ Is("app", "idle") /\ port.task /\ port.life \in {"none", "freed"} /\ InUse("destroy")
    /\ port' = [port EXCEPT !.task = FALSE]
    /\ Ends("worker")
    /\ UNCHANGED <<chip, gpio, line, fault, others>>

\* typec_port_new(), usb_tcpm_port_create_fusb302(), fusb302_backend_init()
Create ==
    /\ Is("app", "idle") /\ port.task /\ port.life \in {"none", "freed"} /\ port.made < MaxPorts
    /\ port' = [NoPort EXCEPT !.life = "made", !.task = TRUE, !.role = env.role,
                              !.made = port.made + 1]
    /\ chip' = ChipInit
    /\ To("app", "setrole")
    /\ UNCHANGED <<gpio, line, fault, others>>

\* The handler is added before the causes are read, the interrupt enabled at the end.
CreateRole ==
    /\ Is("app", "setrole")
    /\ \/ /\ chip' \in SetRole(chip, env.role)
          /\ gpio' = [gpio EXCEPT !.handler = TRUE]
          /\ To("app", "service") /\ UNCHANGED line
       \/ /\ Fails("newFails") /\ chip' \in SetRoleFails(chip, env.role)
          /\ To("app", "fail") /\ UNCHANGED gpio
    /\ UNCHANGED <<port, fault, others>>

CreateFailed ==
    /\ Is("app", "fail")
    /\ gpio' = [gpio EXCEPT !.intr = FALSE, !.handler = FALSE]
    /\ port' = [port EXCEPT !.life = "freed"]
    /\ chip' = ChipDeinit(chip)
    /\ Ends("app")
    /\ UNCHANGED <<line, fault, others>>

\* usb_tcpm_port_list_add()
List ==
    /\ Is("app", "done") \/ Is("app", "list")
    /\ port' = [port EXCEPT !.life = "listed"]
    /\ To("app", "arm")
    /\ UNCHANGED <<chip, gpio, line, fault, others>>

Arm ==
    /\ Is("app", "arm")
    /\ gpio' = [gpio EXCEPT !.intr = TRUE]
    /\ Ends("app")
    /\ UNCHANGED <<port, chip, line, fault, others>>

\* usb_tcpm_port_destroy(); not in the one step between the worker's look at
\* "deleting" and its enabling of the interrupt.
Destroy ==
    /\ Is("app", "idle") /\ port.life = "listed" /\ InUse("destroy")
    /\ Is("worker", "enable") => InUse("stray")
    /\ port' = [port EXCEPT !.deleting = TRUE, !.pending = FALSE]
    /\ To("app", "unhook")
    /\ UNCHANGED <<chip, gpio, line, fault, others>>

\* ... and usb_tcpm_port_list_remove()
Unhook ==
    /\ Is("app", "unhook") /\ NoIsr
    /\ gpio' = [gpio EXCEPT !.intr = FALSE, !.handler = FALSE]
    /\ port' = [port EXCEPT !.life = "gone"]
    /\ To("app", "wait")
    /\ UNCHANGED <<chip, line, fault, others>>

\* It waits for the worker, switches VBUS off, and frees everything.
FreePort ==
    /\ Is("app", "wait") /\ ~port.processing
    /\ port' = [port EXCEPT !.life = "freed"]
    /\ gpio' = [gpio EXCEPT !.vbus = FALSE]
    /\ chip' = ChipDeinit(chip)
    /\ Ends("app")
    /\ UNCHANGED <<line, fault, others>>

PortCall == Install \/ Uninstall \/ Create \/ Destroy
PortStep == CreateRole \/ CreateFailed \/ List \/ Arm \/ Unhook \/ FreePort \/ HandleStep("app")

-----------------------------------------------------------------------------
(* The chip, time, and the partner *)

Partner == line.kind # "none"
Answers(c) == (line.kind = "sink" /\ "rp" \in Pulls(c)) \/ (line.kind = "source" /\ "rd" \in Pulls(c))

ToggleDone ==
    /\ Running(chip) /\ Answers(chip) /\ line.bounce # "now"
    /\ chip' = ToggleFound(chip, line.kind, line.cc)
    /\ UNCHANGED <<port, gpio, line, doing, fault, others>>

\* What happens at the socket is seen by a chip that is not toggling; a change of VBUS
\* by any.
Seen(l) == Latch(chip, (IF chip.on /\ ~Running(chip) THEN {"cc"} ELSE {})
                       \cup IF (gpio.vbus \/ l.vbus) # Vbus THEN {"vbus"} ELSE {})
Happens(l) ==
    /\ line' = l
    /\ UNCHANGED <<port, gpio, doing, fault, others>>

SocketRests ==
    /\ port.life = "listed" /\ \A a \in Actor : Is(a, "idle")
    /\ ~port.pending /\ gpio.intr /\ ~gpio.isr /\ chip.lat = {} /\ line.bounce # "now"

\* A cable is plugged in when the last one was noticed to be gone, and not sooner,
\* unless its user is quick; there is VBUS from the beginning on a legacy cable.
Plug(kind, cc) ==
    /\ ~Partner /\ ~line.vbus /\ line.plugs < MaxPlugs /\ InUse(kind)
    /\ port.life \in {"none", "freed"} \/ InUse("quick")
       \/ (SocketRests /\ ~port.attached /\ ~port.waiting)
    /\ \E vbus \in BOOLEAN :
         /\ vbus => kind = "source" /\ InUse("legacy")
         /\ LET l == [line EXCEPT !.kind = kind, !.cc = cc, !.vbus = vbus, !.plugs = @ + 1,
                                  !.bounce = "not"]
            IN  chip' = Seen(l) /\ Happens(l)

\* A partner is not unplugged between its detection and the port's attachment to it, or
\* wait for it, nor a sink in the grace period, unless its user is hasty.
Unplug ==
    /\ Partner
    /\ \/ InUse("hasty") \/ ~chip.on \/ Running(chip)
       \/ port.waiting \/ (port.attached /\ ~port.grace)
    /\ LET l == [line EXCEPT !.kind = "none", !.bounce = "not"]
       IN  chip' = Seen(l) /\ Happens(l)

\* VBUS of the partner goes after it; a source supplies it to a sink.
Decay ==
    /\ ~Partner /\ line.vbus
    /\ LET l == [line EXCEPT !.vbus = FALSE]
       IN  chip' = Latch(chip, IF gpio.vbus THEN {} ELSE {"vbus"}) /\ Happens(l)

Supply ==
    /\ line.kind = "source" /\ ~line.vbus /\ "rd" \in Pulls(chip) /\ ~Running(chip)
    /\ LET l == [line EXCEPT !.vbus = TRUE]
       IN  chip' = Latch(chip, IF gpio.vbus THEN {} ELSE {"vbus"}) /\ Happens(l)

\* A sink that gets its VBUS disturbs CC, for less than the grace period.
Bounce(from, to) ==
    /\ line.kind = "sink" /\ line.bounce = from
    /\ from = "not" => InUse("bounce") /\ gpio.vbus
    /\ LET l == [line EXCEPT !.bounce = to]
       IN  chip' = Seen(l) /\ Happens(l)

\* USB_TCPM_SRC_DETACH_GRACE_MS is over, and with it the disturbance.
GraceOver ==
    /\ port.grace /\ line.bounce # "now"
    /\ line.bounce = "was" => SocketRests
    /\ port' = [port EXCEPT !.grace = FALSE]
    /\ line' = [line EXCEPT !.bounce = "was"]
    /\ UNCHANGED <<chip, gpio, doing, fault, others>>

SocketStep == \/ \E kind \in {"sink", "source"}, cc \in 1..2 : Plug(kind, cc)
              \/ Unplug

-----------------------------------------------------------------------------

TcInit ==
    /\ port = NoPort /\ chip = NoChip
    /\ gpio = [vbus |-> FALSE, intr |-> FALSE, handler |-> FALSE, isr |-> FALSE]
    /\ line = [kind |-> "none", cc |-> 1, vbus |-> FALSE, bounce |-> "not", plugs |-> 0,
             fails |-> 0, lost |-> FALSE]
    /\ doing = [a \in Actor |-> NotDoing]
    /\ fault = "none"

TcNext ==
    \/ WorkerStep \/ Isr \/ IsrEnd \/ PortCall \/ PortStep
    \/ ToggleDone \/ GraceOver \/ SocketStep \/ Decay \/ Supply
    \/ Bounce("not", "now") \/ Bounce("now", "was")

\* Interrupts are taken, FreeRTOS runs both tasks, the chip toggles, time passes, and
\* VBUS without a source decays.
TcFair ==
    /\ WF_vars(WorkerStep) /\ WF_vars(Isr \/ IsrEnd) /\ WF_vars(PortStep)
    /\ WF_vars(ToggleDone \/ GraceOver \/ Decay \/ Bounce("now", "was"))

-----------------------------------------------------------------------------
(* Properties *)

\* VBUS is driven only by a port that is attached as a source, and never against that
\* of a partner.
VbusIsSafe ==
    /\ gpio.vbus => port.life \in {"made", "listed", "gone"} /\ port.role = "source" /\ port.attached
    /\ ~(gpio.vbus /\ line.kind = "source" /\ line.vbus)

\* A low pin is seen: its interrupt is enabled, or somebody is going to enable it.
NoLostInterrupt ==
    (port.life = "listed" /\ PinLow(chip) /\ ~port.deleting) =>
        \/ gpio.intr \/ gpio.isr \/ port.pending \/ port.processing
        \/ Is("worker", "enable") \/ Is("app", "arm")

\* The interrupt of a port that is gone is disabled.
NoStrayInterrupt == gpio.intr => gpio.handler

\* When nothing is left to be done, the port agrees with the socket: it is attached
\* to the partner that is there, in its orientation, the application knows, and a
\* port that is not attached looks for a partner.  (Unless the meaning of an interrupt
\* was lost to a failure of the bus.)
AgreesWithSocket ==
    (SocketRests /\ ~port.grace /\ ~line.lost) =>
        /\ gpio.vbus = (port.attached /\ port.role = "source")
        /\ port.told = IF port.attached THEN port.role ELSE "none"
        /\ (port.attached /\ port.role = "source") => line.kind = "sink" /\ line.cc = port.cc
        /\ (port.attached /\ port.role = "sink") =>
              line.vbus /\ (line.kind = "source" => line.cc = port.cc /\ port.rp)
        /\ port.waiting => line.kind = "source" /\ ~line.vbus /\ line.cc = port.cc
        /\ (~port.attached /\ ~port.waiting) => Running(chip) /\ port.role = env.role

\* What a user of a Type-C port relies on.
TcConsistent ==
    /\ TcTypeOK /\ fault = "none"
    /\ VbusIsSafe /\ NoLostInterrupt /\ NoStrayInterrupt /\ AgreesWithSocket

\* Nothing is left undone: a partner that suits the port is attached to, one that is gone
\* detached from, and every call of the application has returned.
Meets == port.attached /\ port.role = (IF line.kind = "sink" THEN "source" ELSE "sink")
Suits == port.life = "listed" /\ ~port.deleting /\ ~line.lost
         /\ (env.role = "drp" \/ env.role # line.kind)
TcDone ==
    /\ (Suits /\ line.kind = "sink") => Meets
    /\ (Suits /\ line.kind = "source" /\ line.vbus) => Meets
    /\ (Suits /\ ~Partner) => ~port.attached /\ ~gpio.vbus
    /\ Is("app", "idle")

=============================================================================
