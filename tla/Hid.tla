-------------------------------- MODULE Hid --------------------------------
(***************************************************************************)
(* The host's HID class driver (usb_host_hid/hid_host.c): one HID device   *)
(* with its interfaces, the driver's task, which handles the client's      *)
(* events, and an application's task, which calls the driver's functions.  *)
(* A function that takes open_close_mutex is one step, or two where the    *)
(* driver's task may run in between; hid_host_device_start() and the class *)
(* requests, which do not take it, are split where they check and act.     *)
(***************************************************************************)
EXTENDS Naturals, Sequences, FiniteSets, SequencesExt, FiniteSetsExt

CONSTANTS
    PerDevice,      \* HID interfaces of a device
    MaxPlugs,       \* bound: how often a device is plugged in
    MaxCalls,       \* bound: calls of the application after hid_host_install()
    Environments    \* what may happen, see env

ASSUME BoundsAreNat == PerDevice \in Nat \ {0} /\ MaxPlugs \in Nat /\ MaxCalls \in Nat

VARIABLES
    drv,        \* s_hid_driver: up, ending (end_client_event_handling), down
    bus,        \* the device: none, present, gone
    plugs,      \* which device that is
    susp,       \* the root port is suspended
    msgs,       \* the client's event messages
    dev,        \* hid_device_t: none, listed, or broken: its clean-up failed
    ctl,        \* its ctrl_xfer and the semaphore ctrl_xfer_done
    iface,      \* hid_iface_t of every interface of every device
    task,       \* the driver's task: what it does, in its walk over the list
    user,       \* the application's task: the call it is in, the mutex it holds
    calls, crash, env

vars == <<drv, bus, plugs, susp, msgs, dev, ctl, iface, task, user, calls, crash, env>>
world == <<drv, bus, plugs, susp, msgs, dev, ctl, crash>>

Iface == 1..(PerDevice * MaxPlugs)
Device(i) == ((i - 1) \div PerDevice) + 1

\* free: not in hid_ifaces_tailq.  urb: null, or in_xfer; dangling once it was freed.
NoIface == [st |-> "free", last |-> "IDLE", cb |-> FALSE, told |-> 0, claimed |-> FALSE,
            urb |-> "null", failed |-> FALSE]

Listed(i)    == iface[i].st # "free"
InList       == {i \in Iface : Listed(i)}
InDone       == {"doneok", "doneerr", "doneno"}
Busy(i)      == iface[i].urb \in InDone \cup {"flight"}
ParentFreed(i) == Device(i) # plugs \/ dev = "none"

TypeOK ==
    /\ drv \in {"up", "ending", "down"} /\ bus \in {"none", "present", "gone"}
    /\ plugs \in 0..MaxPlugs /\ susp \in BOOLEAN /\ calls \in 0..MaxCalls
    /\ msgs \in Seq({"new", "gone", "susp", "res"})
    /\ dev \in {"none", "listed", "broken"}
    /\ ctl \in [st : {"idle", "flight", "done"}, sem : BOOLEAN]
    /\ iface \in [Iface ->
         [st : {"free", "IDLE", "READY", "ACTIVE", "WAIT", "SUSPENDED"},
          last : {"IDLE", "READY", "ACTIVE", "WAIT"}, cb : BOOLEAN, told : 0..2,
          claimed : BOOLEAN, urb : InDone \cup {"null", "idle", "flight", "dangling"},
          failed : BOOLEAN]]
    /\ task \in [pc : {"idle", "walk", "cb"}, kind : {"none", "new", "gone", "susp", "res"},
                 cur : Iface \cup {0}, i : Iface \cup {0}]
    /\ user \in [pc : {"idle", "start", "release", "cb", "ask", "wait"}, i : Iface \cup {0}]

Idle == [pc |-> "idle", i |-> 0]
Fails(ok, name) == crash' = IF ok \/ crash # "none" THEN crash ELSE name

\* The mutex is held while the application closes an interface.
MutexFree == user.pc # "release"

\* Unless "race", the application's task has the higher priority on the same core:
\* the driver's task runs while it is idle or waits: for a control transfer, or in
\* usb_host_interface_release() for transfers to be called back.
Yields == \/ "race" \in env \/ user.pc = "idle" \/ (user.pc = "wait" /\ ~ctl.sem)
          \/ user.pc = "release" /\ \E i \in Iface : iface[i].urb \in InDone

-----------------------------------------------------------------------------
(* Operators on one interface *)

\* usb_host_transfer_submit(): accepted while the device is there and the transfer is
\* not in flight; it resumes a suspended root port.
Submitted(x) == IF bus = "present" /\ x.urb = "idle" THEN [x EXCEPT !.urb = "flight"] ELSE x
Resumes(x)   == susp /\ bus = "present" /\ x.urb = "idle"

\* usb_host_endpoint_halt() and usb_host_endpoint_flush()
Flushed(x) == IF x.urb = "flight" THEN [x EXCEPT !.urb = "doneno"] ELSE x

\* hid_host_disable_interface() and hid_host_disable_interface_disconnect()
Disabled(x) == [(IF x.st = "ACTIVE" THEN Flushed(x) ELSE x) EXCEPT !.st = "READY"]

\* usb_host_interface_release() is refused while a transfer is not given back.
MayRelease(x) == x.claimed /\ x.urb \notin InDone \cup {"flight"}

\* hid_host_interface_release_and_free_transfer(); in_xfer keeps its value.
Released(x) == [x EXCEPT !.claimed = FALSE, !.urb = "dangling", !.st = "IDLE"]

\* ... and what the disconnection does when that is refused.
Forced(x) == [x EXCEPT !.urb = "null", !.st = "IDLE"]

\* Bug: an interface that nobody uses waits for a user too.
Closed_Waits(x) == IF x.st # "WAIT" THEN [x EXCEPT !.st = "WAIT"]
                   ELSE [NoIface EXCEPT !.claimed = x.claimed]

\* The end of hid_host_device_close_impl(): an interface that is in use waits for a
\* second call, unless this is the second call.
Closed(x) == IF x.cb /\ x.st # "WAIT" THEN [x EXCEPT !.st = "WAIT"]
             ELSE [NoIface EXCEPT !.claimed = x.claimed]
Tells(x)  == x.cb /\ x.st # "WAIT"

\* hid_host_device_close_disconnect() up to there; a transfer that was freed before,
\* or that is still to be called back, must not be freed.
Torn(x) ==
    LET off == IF x.st \in {"ACTIVE", "SUSPENDED"} THEN Disabled(x) ELSE x
    IN  IF off.st # "READY" THEN off
        ELSE IF MayRelease(off) THEN Released(off) ELSE Forced(off)
TearsSafely(x) ==
    \/ x.st \notin {"ACTIVE", "SUSPENDED", "READY"}
    \/ MayRelease(Disabled(x)) \/ x.urb \in {"null", "idle"}

-----------------------------------------------------------------------------
(* The driver's task *)

\* in_xfer_done(); the interface is the transfer's context.
InDoneCb(i) ==
    /\ drv = "up" /\ task.pc = "idle" /\ Yields /\ iface[i].urb \in InDone
    /\ LET x == [iface[i] EXCEPT !.urb = "idle"]
       IN  CASE iface[i].urb = "doneok" ->
                  /\ iface' = [iface EXCEPT ![i] = Submitted(x)]
                  /\ IF Resumes(x) THEN susp' = FALSE /\ msgs' = Append(msgs, "res")
                                   ELSE UNCHANGED <<susp, msgs>>
             [] iface[i].urb = "doneerr" ->
                  iface' = [iface EXCEPT ![i] = [x EXCEPT !.failed = TRUE]] /\ UNCHANGED <<susp, msgs>>
             [] OTHER -> iface' = [iface EXCEPT ![i] = x] /\ UNCHANGED <<susp, msgs>>
    /\ UNCHANGED <<drv, bus, plugs, dev, ctl, task, user, calls, crash, env>>

\* ctrl_xfer_done()
CtlDoneCb ==
    /\ drv = "up" /\ task.pc = "idle" /\ Yields /\ ctl.st = "done"
    /\ ctl' = [st |-> "idle", sem |-> TRUE] /\ Fails(dev = "listed", "semaphore deleted")
    /\ UNCHANGED <<drv, bus, plugs, susp, msgs, dev, iface, task, user, calls, env>>

FirstFrom(i) == IF \E j \in InList : j >= i THEN Min({j \in InList : j >= i}) ELSE 0
Walk(kind, first) == task' = [pc |-> "walk", kind |-> kind, cur |-> first, i |-> 0]

\* hid_host_add_interface()
NewIface == [NoIface EXCEPT !.st = "IDLE"]

\* hid_host_device_init_attempt() lists the interfaces of the device, and closes an
\* uninitialized handle when the device cannot be opened any more.
InitAttempt ==
    LET found == {i \in Iface : Device(i) = plugs}
    IN  IF bus = "present"
        THEN /\ dev' = "listed" /\ ctl' = [st |-> "idle", sem |-> FALSE]
             /\ iface' = [i \in Iface |-> IF i \in found THEN NewIface ELSE iface[i]]
             /\ Walk("new", Min(InList \cup found)) /\ UNCHANGED crash
        ELSE Fails(FALSE, "handle not initialized") /\ UNCHANGED <<dev, ctl, iface, task>>

\* client_event_cb(), after the transfers that were done.
Message ==
    /\ drv = "up" /\ task.pc = "idle" /\ Yields /\ msgs # <<>>
    /\ "race" \in env \/ (ctl.st # "done" /\ \A i \in Iface : iface[i].urb \notin InDone)
    /\ msgs' = Tail(msgs)
    /\ IF Head(msgs) = "new" THEN InitAttempt
       ELSE /\ IF dev = "none" THEN UNCHANGED task ELSE Walk(Head(msgs), FirstFrom(1))
            /\ UNCHANGED <<dev, ctl, iface, crash>>
    /\ UNCHANGED <<drv, bus, plugs, susp, user, calls, env>>

\* hid_host_suspend_interface()
Suspended(x) == IF x.st = "SUSPENDED" THEN x ELSE [x EXCEPT !.last = x.st, !.st = "SUSPENDED"]

\* Bug: an interface that was listening is not asked for reports again.
Resumed_NoSubmit(x) == IF x.st # "SUSPENDED" THEN x ELSE [x EXCEPT !.st = x.last]

\* hid_host_resume_interface()
Resumed(x) ==
    IF x.st # "SUSPENDED" THEN x
    ELSE LET back == [x EXCEPT !.st = x.last]
         IN  IF x.last = "ACTIVE" THEN Submitted(back) ELSE back

\* What hid_host_device_suspended() and hid_host_device_resumed() do to an interface.
Follows(kind, x) ==
    CASE kind = "susp" -> Suspended(x)
      [] kind = "res"  -> Resumed(x)
      [] OTHER -> x

\* Bug: the device is freed before its interfaces have been closed.
WalkStep_NoWalk ==
    /\ task.pc = "walk" /\ task.cur # 0 /\ Yields /\ MutexFree
    /\ task' = [task EXCEPT !.cur = 0]
    /\ UNCHANGED <<iface, world, user, calls, env>>

\* One interface of the list, in hid_host_notify_interface_connected(),
\* hid_host_device_disconnected(), ..._suspended() or ..._resumed().  The next one
\* is remembered before this one is handled; the device of each is read.
WalkStep ==
    /\ task.pc = "walk" /\ task.cur # 0 /\ Yields
    /\ task.kind = "gone" => MutexFree
    /\ LET i == task.cur
           x == iface[i]
           next == FirstFrom(i + 1)
           on == [task EXCEPT !.cur = next]
           done == Torn(x)
       IN  /\ CASE task.kind = "gone" ->
                     /\ iface' = [iface EXCEPT ![i] = Closed(done)]
                     /\ task' = IF Tells(done) THEN [on EXCEPT !.pc = "cb", !.i = i] ELSE on
                [] OTHER -> iface' = [iface EXCEPT ![i] = Follows(task.kind, x)] /\ task' = on
           /\ Fails(/\ Listed(i) /\ ~ParentFreed(i)
                    /\ task.kind = "gone" => TearsSafely(x), "walk")
    /\ UNCHANGED <<drv, bus, plugs, susp, msgs, dev, ctl, user, calls, env>>

\* The application's interface callback reports the disconnection, and may close the
\* interface for good in it.
Callback(i) ==
    IF "later" \in env THEN [iface EXCEPT ![i].told = @ + 1]
    ELSE [iface EXCEPT ![i] = Closed(iface[i])]

TaskCallback ==
    /\ task.pc = "cb" /\ Yields /\ ("later" \notin env => MutexFree)
    /\ iface' = Callback(task.i) /\ Fails(Listed(task.i), "callback of a freed interface")
    /\ task' = [task EXCEPT !.pc = "walk", !.i = 0]
    /\ UNCHANGED <<drv, bus, plugs, susp, msgs, dev, ctl, user, calls, env>>

\* The walk is over; hid_host_uninstall_device() after a disconnection, which frees
\* ctrl_xfer and then fails while an interface is still claimed.
WalkEnd ==
    /\ task.pc = "walk" /\ task.cur = 0 /\ Yields
    /\ task' = [task EXCEPT !.pc = "idle", !.kind = "none"]
    /\ IF task.kind = "gone"
       THEN /\ dev' = IF \E i \in Iface : iface[i].claimed THEN "broken" ELSE "none"
            /\ Fails(ctl.st = "idle", "ctrl_xfer freed in flight")
       ELSE UNCHANGED <<dev, crash>>
    /\ UNCHANGED <<drv, bus, plugs, susp, msgs, ctl, iface, user, calls, env>>

\* hid_host_handle_events() after hid_host_uninstall() has begun
TaskEnds ==
    /\ drv = "ending" /\ task.pc = "idle" /\ drv' = "down"
    /\ UNCHANGED <<bus, plugs, susp, msgs, dev, ctl, iface, task, user, calls, crash, env>>

-----------------------------------------------------------------------------
(* The application's task *)

\* Unless "race", no call begins while the driver's task walks over the list.
Call == /\ drv = "up" /\ user.pc = "idle" /\ calls < MaxCalls /\ calls' = calls + 1
        /\ task.pc = "idle" \/ "race" \in env
        /\ UNCHANGED env
InCall == UNCHANGED <<calls, env>>

\* hid_host_device_open(); without memory for in_xfer the claim is kept.
Open(i, memory) ==
    /\ Call /\ iface[i].st = "IDLE" /\ ~iface[i].claimed /\ bus = "present"
    /\ memory \/ "nomem" \in env
    /\ iface' = [iface EXCEPT ![i] =
                    IF memory THEN [@ EXCEPT !.claimed = TRUE, !.urb = "idle", !.st = "READY", !.cb = TRUE]
                    ELSE [@ EXCEPT !.claimed = TRUE]]
    /\ UNCHANGED <<world, task, user>>

\* hid_host_device_start() finds the interface in the list, ready, with a transfer,
StartCheck(i) ==
    /\ Call /\ iface[i].st \in {"READY", "SUSPENDED"} /\ iface[i].urb # "null"
    /\ user' = [pc |-> "start", i |-> i]
    /\ UNCHANGED <<iface, world, task>>

\* and submits it, whatever became of it; the caller is told when that is refused.
StartAct ==
    /\ user.pc = "start"
    /\ LET i == user.i
           x == [iface[i] EXCEPT !.st = "ACTIVE", !.failed = iface[i].urb # "idle" \/ bus # "present"]
       IN  /\ Fails(Listed(i) /\ x.urb # "dangling" /\ ~ParentFreed(i), "start")
           /\ iface' = [iface EXCEPT ![i] = IF Listed(i) THEN Submitted(x) ELSE @]
           /\ IF Listed(i) /\ Resumes(x) THEN susp' = FALSE /\ msgs' = Append(msgs, "res")
                                         ELSE UNCHANGED <<susp, msgs>>
    /\ user' = Idle /\ InCall
    /\ UNCHANGED <<drv, bus, plugs, dev, ctl, task>>

\* hid_host_device_stop(), which is refused when the device is gone
Stop(i) ==
    /\ Call /\ iface[i].st \in {"ACTIVE", "SUSPENDED"}
    /\ iface[i].st = "ACTIVE" => bus = "present"
    /\ iface' = [iface EXCEPT ![i] =
                    IF iface[i].st = "SUSPENDED" THEN [@ EXCEPT !.last = "READY"] ELSE Disabled(@)]
    /\ UNCHANGED <<world, task, user>>

\* hid_host_device_close(): disables the interface, which is refused when the device
\* is gone, and goes on to release it.
Close(i) ==
    /\ Call /\ Listed(i)
    /\ iface[i].st = "ACTIVE" => bus = "present"
    /\ IF iface[i].st \in {"ACTIVE", "SUSPENDED", "READY"}
       THEN /\ iface' = [iface EXCEPT ![i] = Disabled(@)]
            /\ user' = [pc |-> "release", i |-> i]
       ELSE /\ iface' = [iface EXCEPT ![i] = Closed(@)]
            /\ user' = IF Tells(iface[i]) THEN [pc |-> "cb", i |-> i] ELSE Idle
    /\ UNCHANGED <<world, task>>

\* ... the release; it gives the driver's task time to call transfers back, and is refused
\* while this one's has not been.
CloseRelease ==
    /\ user.pc = "release" /\ InCall
    /\ task.pc = "idle" => \A i \in Iface : iface[i].urb \notin InDone
    /\ LET x == Released(iface[user.i]) IN
       IF MayRelease(iface[user.i])
       THEN /\ iface' = [iface EXCEPT ![user.i] = Closed(x)]
            /\ user' = IF Tells(x) THEN [user EXCEPT !.pc = "cb"] ELSE Idle
       ELSE iface' = iface /\ user' = Idle
    /\ UNCHANGED <<world, task>>

\* The callback of an interface that its own user closes, without the mutex.
UserCallback ==
    /\ user.pc = "cb" /\ InCall
    /\ iface' = Callback(user.i) /\ Fails(Listed(user.i), "callback of a freed interface")
    /\ user' = Idle
    /\ UNCHANGED <<drv, bus, plugs, susp, msgs, dev, ctl, task>>

\* hid_class_request_get() and hid_class_request_set(): the interface is found,
AskCheck(i) ==
    /\ Call /\ "ask" \in env /\ Listed(i) /\ (iface[i].st # "WAIT" \/ "stale" \in env)
    /\ user' = [pc |-> "ask", i |-> i]
    /\ UNCHANGED <<iface, world, task>>

\* its device's transfer is submitted, unless it is in flight or the device is gone,
AskSubmit ==
    /\ user.pc = "ask" /\ InCall
    /\ Fails(dev = "listed" /\ ~ParentFreed(user.i), "request")
    /\ IF bus = "present" /\ ctl.st = "idle"
       THEN ctl' = [ctl EXCEPT !.st = "flight"] /\ user' = [user EXCEPT !.pc = "wait"]
       ELSE ctl' = ctl /\ user' = Idle
    /\ UNCHANGED <<drv, bus, plugs, susp, msgs, dev, iface, task>>

\* and its end is awaited, and read; or xSemaphoreTake() times out, and the transfer
\* stays in flight.
AskDone ==
    /\ user.pc = "wait" /\ (ctl.sem \/ "timeout" \in env) /\ InCall
    /\ Fails(ctl.sem => dev = "listed" /\ ctl.st = "idle", "answer")
    /\ ctl' = [ctl EXCEPT !.sem = FALSE] /\ user' = Idle
    /\ UNCHANGED <<drv, bus, plugs, susp, msgs, dev, iface, task>>

\* hid_host_uninstall(), refused while a device or an interface is in a list
Uninstall ==
    /\ Call /\ dev = "none" /\ InList = {} /\ drv' = "ending"
    /\ UNCHANGED <<bus, plugs, susp, msgs, dev, ctl, iface, task, user, crash>>

-----------------------------------------------------------------------------
(* The USB Host Library and the device *)

Calm == UNCHANGED <<drv, dev, task, user, calls, crash, env>>
GivenBack == [i \in Iface |-> Flushed(iface[i])]

\* The next device, once the last one was closed.  Only with "stale" may one of its
\* interfaces still be in the list, whose parent is freed memory.
Plug ==
    /\ bus # "present" /\ dev = "none" /\ msgs = <<>> /\ task.pc = "idle"
    /\ plugs < MaxPlugs /\ drv = "up" /\ (InList = {} \/ "stale" \in env)
    /\ plugs' = plugs + 1 /\ bus' = "present" /\ msgs' = <<"new">>
    /\ UNCHANGED <<susp, ctl, iface>> /\ Calm

\* The device is unplugged; before NEW_DEV was handled only with "fast".
Unplug ==
    /\ bus = "present" /\ (dev = "listed" \/ "fast" \in env)
    /\ bus' = "gone" /\ susp' = FALSE
    /\ msgs' = IF dev = "listed" THEN Append(msgs, "gone") ELSE msgs
    /\ iface' = GivenBack /\ ctl' = [ctl EXCEPT !.st = IF @ = "flight" THEN "done" ELSE @]
    /\ UNCHANGED plugs /\ Calm

\* A report arrives, or an error.
Report(i) ==
    /\ bus = "present" /\ ~susp /\ iface[i].urb = "flight"
    /\ \E ok \in {TRUE, "error" \notin env} :
          iface' = [iface EXCEPT ![i].urb = IF ok THEN "doneok" ELSE "doneerr"]
    /\ UNCHANGED <<bus, plugs, susp, msgs, ctl>> /\ Calm

Answer ==
    /\ bus = "present" /\ ctl.st = "flight" /\ ctl' = [ctl EXCEPT !.st = "done"]
    /\ UNCHANGED <<bus, plugs, susp, msgs, iface>> /\ Calm

\* usb_host_lib_root_port_suspend() and usb_host_lib_root_port_resume()
Suspend ==
    /\ "suspend" \in env /\ bus = "present" /\ ~susp /\ dev = "listed" /\ msgs = <<>>
    /\ susp' = TRUE /\ msgs' = Append(msgs, "susp") /\ iface' = GivenBack
    /\ UNCHANGED <<bus, plugs, ctl>> /\ Calm

Resume ==
    /\ susp /\ susp' = FALSE /\ msgs' = Append(msgs, "res")
    /\ UNCHANGED <<bus, plugs, ctl, iface>> /\ Calm

-----------------------------------------------------------------------------
Task == CtlDoneCb \/ Message \/ WalkStep \/ TaskCallback \/ WalkEnd \/ TaskEnds
        \/ \E i \in Iface : InDoneCb(i)
UserGoesOn == StartAct \/ CloseRelease \/ UserCallback \/ AskSubmit \/ AskDone
UserCalls ==
    \/ Uninstall
    \/ \E i \in Iface :
          StartCheck(i) \/ Stop(i) \/ Close(i) \/ AskCheck(i) \/ \E memory \in BOOLEAN : Open(i, memory)
Bus == Plug \/ Unplug \/ Answer \/ Suspend \/ Resume \/ \E i \in Iface : Report(i)

Init ==
    /\ drv = "up" /\ bus = "none" /\ plugs = 0 /\ susp = FALSE /\ msgs = <<>> /\ dev = "none"
    /\ ctl = [st |-> "idle", sem |-> FALSE] /\ iface = [i \in Iface |-> NoIface]
    /\ task = [pc |-> "idle", kind |-> "none", cur |-> 0, i |-> 0] /\ user = Idle
    /\ calls = 0 /\ crash = "none" /\ env \in Environments

Next == Task \/ UserGoesOn \/ UserCalls \/ Bus

\* Both tasks run; a device answers a control transfer.
Spec == Init /\ [][Next]_vars /\ WF_vars(Task) /\ WF_vars(UserGoesOn) /\ WF_vars(Answer)

-----------------------------------------------------------------------------
(* Properties *)

\* Nothing is used after it was freed, no transfer is freed before it was called back,
\* no callback is called for an interface that is gone, and every answer that a class
\* request reads is its own.
NoAbuse == crash = "none"

\* A transfer that the library has belongs to an interface that is in the list and claimed:
\* its callback will find the interface.
TransferHasOwner == \A i \in Iface : Busy(i) => Listed(i) /\ iface[i].claimed

\* An interface that is claimed belongs to a device that the driver has in its list,
\* which is closed only once nothing of it is claimed.
ClaimHasDevice == \A i \in Iface : iface[i].claimed => dev = "listed" /\ Device(i) = plugs

Consistent == TypeOK /\ NoAbuse /\ TransferHasOwner /\ ClaimHasDevice

\* An interface that is started keeps asking for reports while the device is there,
\* unless its user was told of an error.
KeepsListening ==
    \A i \in Iface :
        iface[i].st = "ACTIVE" /\ bus = "present" /\ msgs = <<>> /\ task.pc = "idle" /\ ~iface[i].failed
            => Busy(i)

\* When the device is gone the driver closes it; the interfaces that nobody used, or
\* whose user closes them when told, are freed with it, and every other one has been
\* reported.
GoneIsReclaimed ==
    bus = "gone" ~>
        /\ dev = "none"
        /\ \A i \in Iface : Listed(i) => "later" \in env /\ iface[i].st = "WAIT" /\ iface[i].told = 1
=============================================================================
