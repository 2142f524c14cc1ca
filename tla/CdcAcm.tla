------------------------------- MODULE CdcAcm -------------------------------
(***************************************************************************)
(* The host's CDC-ACM class driver (usb_host_cdc_acm/cdc_acm_host.c): the  *)
(* pseudo-devices that an application opens on one USB device, the         *)
(* driver's task, which handles the client's events and has the highest    *)
(* priority, a task that opens and closes, and a task that writes and      *)
(* sends requests.  A pseudo-device has a poll transfer (the data IN and   *)
(* the notification transfer are handled alike), an OUT and a control      *)
(* transfer, each with the semaphore that its callback gives.  What the    *)
(* driver takes for an interface that the application asks for, of the     *)
(* endpoints and functional descriptors in the configuration, is ReadCdc's *)
(* (cdc_host_descriptor_parsing.c).                                        *)
(***************************************************************************)
EXTENDS Descriptors, SequencesExt, FiniteSetsExt

CONSTANTS
    Dev,            \* the pseudo-devices, an interval of numbers from 1
    MaxPlugs,       \* bound: how often the device is plugged in
    MaxCalls,       \* bound: calls of the application
    QueueLen,       \* max_num_event_msg
    InBuffer, Mps,  \* in_buffer_size, and the packet size of the data IN endpoint
    Reading(_),     \* what is read (ReadCdc) for each pseudo-device of a kind of device
    Kinds(_),       \* the kinds that are plugged in, in an environment
    Environments    \* what may happen, see env

ASSUME BoundsAreNat == Dev \subseteq Nat \ {0} /\ {MaxPlugs, MaxCalls, QueueLen} \subseteq Nat
ASSUME BufferIsPackets == {InBuffer, Mps} \subseteq Nat \ {0} /\ InBuffer % Mps = 0

VARIABLES
    drv,        \* p_cdc_acm_obj and the driver's task: up, ending, down
    bus, plugs, \* the USB device: none, present, gone; which one
    susp,       \* the root port is suspended
    msgs,       \* the client's event messages
    hdl,        \* the client has the USB device open: its number, or 0
    dev,        \* cdc_dev_t of every pseudo-device
    info,       \* what is read for them in the configuration; it does not change
    wakes,      \* the device's remote wakeup is enabled
    op,         \* the task that holds open_close_mutex, and what it does
    client,     \* the driver's task: the event it handles, its place in the list
    writer,     \* the writing task: the transfer it waits for
    calls, crash, env,
    cable, uart, port, task     \* a Virtual COM Port above the driver (Vcp)

acmVars == <<drv, bus, plugs, susp, msgs, hdl, dev, info, wakes, op, client, writer, calls, crash, env>>
vcpVars == <<cable, uart, port, task>>
vars    == <<acmVars, vcpVars>>
fixed   == <<env, vcpVars>>
outside == <<drv, bus, plugs, info, wakes, calls, fixed>>

-----------------------------------------------------------------------------
(* The configuration's descriptors *)

\* The descriptor of the configuration also has the class of the device: its own ("comm"),
\* that of its interfaces ("interface"), that of a composite device ("misc") or a vendor's.
Conf(class, wake) == [type |-> "conf", size |-> "ok", class |-> class, wake |-> wake]
DeviceClasses == {"interface", "comm", "misc", "vendor"}

\* cdc_parse_is_cdc_compliant(): the interface is one for communication, or an
\* association makes a function of two interfaces of it.
IsAcmInterface(c, n) ==
    LET at == Interface(c, n, 0) IN at # 0 /\ c[at].class = "comm"
HasAssociation(c, n) ==
    \E j \in Reached(c, 1, "iad") : c[j].first = n /\ c[j].count = 2 /\ c[j].class = "comm"
IsCompliant(c, n) ==
    \/ c[1].class \in {"interface", "comm"} /\ IsAcmInterface(c, n)
    \/ c[1].class \in {"interface", "misc"} /\ HasAssociation(c, n)

\* cdc_parse_functional_descriptors(): those in a row behind the interface
FunctionalRun(c, at) ==
    {j \in at + 1 .. Len(c) : \A k \in at + 1 .. j : c[k].type = "class" /\ c[k - 1].size # "zero"}

Last0(S) == IF S = {} THEN 0 ELSE Max(S)
EndpointsOf(c, at) == IF at = 0 THEN {} ELSE {Endpoint(c, at, k) : k \in 0 .. c[at].eps - 1}
Intr(c, S)      == {j \in S \ {0} : c[j].xfer = "intr"}
Bulk(c, S, dir) == {j \in S \ {0} : c[j].xfer = "bulk" /\ c[j].dir = dir}

\* The data interface: the second one's first setting with two endpoints
SecondInterface(c, n) ==
    LET two == {i \in 0 .. Settings(c, n + 1) - 1 :
                  LET at == Interface(c, n + 1, i) IN at # 0 /\ c[at].eps = 2}
    IN  IF two = {} THEN 0 ELSE Interface(c, n + 1, Min(two))

\* cdc_parse_interface_descriptor(): the last endpoint of each kind; bulk endpoints of the
\* first interface, of whatever device, and else the second interface of a compliant one.
\* crash: an endpoint that an interface announces is not there.
ParseCdc(c, n) ==
    LET first     == Interface(c, n, 0)
        firstEps  == EndpointsOf(c, first)
        compliant == IsCompliant(c, n)
        own       == Bulk(c, firstEps, "in") \cup Bulk(c, firstEps, "out") # {}
        second    == IF own \/ ~compliant THEN 0 ELSE SecondInterface(c, n)
        eps       == IF own THEN firstEps ELSE EndpointsOf(c, second)
        in        == Last0(Bulk(c, eps, "in"))
        out       == Last0(Bulk(c, eps, "out"))
    IN  IF first = 0
        THEN [ok |-> FALSE, crash |-> FALSE, comm |-> 0, notif |-> 0, data |-> 0, in |-> 0, out |-> 0, func |-> {}]
        ELSE [ok |-> in # 0 /\ out # 0, crash |-> 0 \in firstEps \cup eps,
              comm |-> IF compliant \/ Intr(c, firstEps) # {} THEN first ELSE 0,
              notif |-> Last0(Intr(c, firstEps)), data |-> IF own THEN first ELSE second,
              in |-> in, out |-> out, func |-> IF compliant THEN FunctionalRun(c, first) ELSE {}]

\* Reference: an interface can be used if it, or with a compliant one any setting of the
\* interface behind it, has bulk endpoints in both directions; what belongs to an
\* interface stands behind it, in whatever order.
IsRightFor(c, n, p) ==
    LET firsts == {j \in DOMAIN c : c[j].type = "intf" /\ c[j].num = n /\ c[j].alt = 0}
        datas  == {j \in DOMAIN c : c[j].type = "intf" /\ c[j].num = n + 1 /\ IsCompliant(c, n)}
        usable == {j \in firsts \cup datas :
                      \A dir \in {"in", "out"} : Bulk(c, Inside(c, j) \cap Reached(c, 1, "ep"), dir) # {}}
        notifs(j) == {k \in Inside(c, j) : c[k].type = "ep" /\ c[k].xfer = "intr" /\ c[k].dir = "in"}
    IN  /\ ~p.crash /\ (p.ok <=> firsts # {} /\ usable # {})
        /\ p.ok => \A j \in firsts :
              /\ p.data \in usable /\ {p.in, p.out} \subseteq Inside(c, p.data)
              /\ IF notifs(j) = {} THEN p.notif = 0 ELSE p.notif \in notifs(j)
              /\ IsCompliant(c, n) => p.func = {k \in Inside(c, j) : c[k].type = "class"}

\* What the driver keeps of an interface: the number of its data interface, whether there
\* is a notification endpoint, in an interface of its own or not, and whether the
\* requests of ACM can be used; and whether all of that is right.
ReadCdc(c, n) ==
    LET p == ParseCdc(c, n)
    IN  [ok |-> p.ok, num |-> IF p.data = 0 THEN 0 ELSE c[p.data].num,
         notif |-> p.notif # 0 /\ p.comm # p.data, acm |-> Cardinality(p.func) > 1,
         wake |-> c[1].wake, right |-> IsRightFor(c, n, p)]

-----------------------------------------------------------------------------
(* Pseudo-devices *)

\* ok: it was completed; want: what a request asks of the remote wakeup.
NoXfer == [urb |-> "idle", sem |-> FALSE, ok |-> FALSE, want |-> "none"]
NoDev == [st |-> "free", claimed |-> FALSE, cb |-> FALSE, told |-> FALSE, poll |-> FALSE,
          urb |-> "null", failed |-> FALSE, wake |-> FALSE,
          pos |-> 0, num |-> 0, len |-> 0,    \* of the IN transfer: start, room, bytes received
          out |-> NoXfer, ctl |-> NoXfer]
InDone == {"doneok", "doneerr", "doneno"}
Transfers == {"out", "ctl"}

Listed  == {i \in Dev : dev[i].st = "listed"}
Unlocked == op.by = "none"
NoOp    == [by |-> "none", pc |-> "none", i |-> 0]
Pending == \E i \in Dev : dev[i].urb \in InDone \/ \E k \in Transfers : dev[i][k].urb = "done"

XferType == [urb : {"idle", "flight", "done"}, sem : BOOLEAN, ok : BOOLEAN, want : {"none", "on", "off"}]

TypeOK ==
    /\ drv \in {"up", "ending", "down"} /\ bus \in {"none", "present", "gone"}
    /\ plugs \in 0..MaxPlugs /\ susp \in BOOLEAN /\ hdl \in 0..MaxPlugs /\ calls \in 0..MaxCalls
    /\ msgs \in Seq({"new", "gone", "susp", "res"}) /\ Len(msgs) <= QueueLen
    /\ dev \in [Dev -> [st : {"free", "opening", "listed"}, claimed : BOOLEAN, cb : BOOLEAN,
                        told : BOOLEAN, poll : BOOLEAN, failed : BOOLEAN,
                        urb : InDone \cup {"null", "idle", "flight"},
                        wake : BOOLEAN, pos : 0..InBuffer, num : 0..InBuffer + 1, len : 0..InBuffer + 1,
                        out : XferType, ctl : XferType]]
    /\ wakes \in BOOLEAN
    /\ op \in [by : {"none", "user", "client"}, i : Dev \cup {0},
               pc : {"none", "find", "claim", "submit", "notif", "insert", "flush", "release"}]
    /\ client \in [pc : {"idle", "msgs", "new", "walk", "cb", "closing"},
                   kind : {"none", "gone", "susp", "res"}, cur : Dev \cup {0}, i : Dev \cup {0}]
    /\ writer \in [pc : {"idle", "wait"}, k : Transfers, i : Dev \cup {0}]

Fails(ok, name) == crash' = IF ok \/ crash # "none" THEN crash ELSE name
Post(q, m) == IF Len(q) < QueueLen THEN Append(q, m) ELSE q

\* The application's tasks run while the driver's task has nothing to do or waits for
\* the mutex; on two cores ("race") at any time.
ClientIdle == client.pc = "idle" /\ msgs = <<>> /\ ~Pending
Others == "race" \in env \/ ClientIdle
          \/ ("incb" \in env /\ client.pc = "cb" /\ op.by = "user")

-----------------------------------------------------------------------------
(* Transfers *)

\* cdc_acm_submit_poll(): a transfer that is still to be called back counts as polling.
\* A length that is no multiple of the packet size is refused.
CanPoll(x)  == x.poll \/ x.urb # "idle" \/ (bus = "present" /\ x.num % Mps = 0)
Polled(x)   ==
    IF x.poll THEN x
    ELSE IF x.urb # "idle" THEN [x EXCEPT !.poll = TRUE]
    ELSE IF CanPoll(x) THEN [x EXCEPT !.poll = TRUE, !.urb = "flight"] ELSE x

\* usb_host_transfer_submit() resumes a suspended root port.
WakesPort(x) == susp /\ ~x.poll /\ x.urb = "idle" /\ bus = "present"
Woken(resumes) == IF resumes THEN susp' = FALSE /\ msgs' = Post(msgs, "res")
                ELSE UNCHANGED <<susp, msgs>>

\* cdc_acm_reset_transfer_endpoint(), and what the library does to a device that is
\* suspended or gone.
Flushed(x) == IF x.urb = "flight" THEN [x EXCEPT !.urb = "doneno"] ELSE x
FlushedXfer(x, k) == IF x[k].urb = "flight" THEN [x EXCEPT ![k].urb = "done"] ELSE x
AllFlushed(x) == FlushedXfer(Flushed(x), "out")

\* cdc_acm_reset_in_transfer(); in_buffer_size need not be a multiple of the packet size ("odd").
Size == IF "odd" \in env THEN InBuffer + 1 ELSE InBuffer
Emptied(x) == [x EXCEPT !.pos = 0, !.num = Size - (Size % Mps)]

\* The user's data callback may keep the data: more is received behind it, into whole
\* packets, and when there is no room left the user is told, and all of it is dropped.
Taken(x, kept) ==
    LET pos  == x.pos + x.len
        room == ((Size - pos) \div Mps) * Mps
    IN  IF ~x.cb THEN x ELSE IF ~kept \/ room = 0 THEN Emptied(x) ELSE [x EXCEPT !.pos = pos, !.num = room]

\* in_xfer_cb() and notif_xfer_cb(): an error is reported to the user and ends the poll
\* (cdc_acm_is_transfer_completed()).
InXferCb(i) ==
    /\ drv # "down" /\ client.pc = "idle" /\ dev[i].urb \in InDone
    /\ LET ok == dev[i].urb = "doneok"
           x  == [dev[i] EXCEPT !.poll = FALSE, !.urb = "idle", !.len = 0,
                                !.failed = @ \/ dev[i].urb = "doneerr"]
       IN  /\ \E kept \in {FALSE, "keep" \in env} :
                 dev' = [dev EXCEPT ![i] =
                     IF ok THEN Polled([Taken([x EXCEPT !.len = dev[i].len], kept) EXCEPT !.len = 0]) ELSE x]
           /\ Woken(ok /\ WakesPort(x))
           /\ Fails(dev[i].claimed, "poll callback")
    /\ UNCHANGED <<hdl, op, client, writer, outside>>

\* out_xfer_cb()
OutXferCb(i, k) ==
    /\ drv # "down" /\ client.pc = "idle" /\ dev[i][k].urb = "done"
    /\ dev' = [dev EXCEPT ![i][k].urb = "idle", ![i][k].sem = TRUE]
    /\ UNCHANGED <<susp, msgs, hdl, op, client, writer, crash, outside>>

-----------------------------------------------------------------------------
(* cdc_acm_host_open() *)

Call == drv = "up" /\ calls < MaxCalls /\ calls' = calls + 1 /\ UNCHANGED <<drv, bus, plugs, info, wakes, fixed>>
Holding(pc) == op.pc = pc /\ UNCHANGED outside /\ (op.by = "user" => Others)
Now(pc)  == op' = [op EXCEPT !.pc = pc]

\* cdc_acm_device_remove(): usb_host_device_close() fails while another pseudo-device
\* has an interface of the device.
Removed(i, devs) ==
    /\ dev' = [devs EXCEPT ![i] = NoDev]
    /\ hdl' = IF \E j \in Dev \ {i} : devs[j].claimed THEN hdl ELSE 0

\* The application turns the remote wakeup off before it opens or closes ("late": it does not).
NoWake == ~wakes \/ "late" \in env

\* cdc_acm_find_and_open_usb_device() takes the handle of a pseudo-device that is open,
\* or opens the device, or waits for it, for ever with connection_timeout_ms = 0; also for
\* a device other than the one that is open ("another").
OpenBegin(i) ==
    /\ Call /\ Others /\ Unlocked /\ dev[i].st = "free" /\ NoWake
    /\ IF Listed # {} /\ "another" \notin env THEN hdl' = hdl /\ op' = [by |-> "user", pc |-> "claim", i |-> i]
       ELSE IF bus = "present" /\ hdl = 0
       THEN hdl' = plugs /\ op' = [by |-> "user", pc |-> "claim", i |-> i]
       ELSE /\ "wait" \in env /\ hdl' = hdl /\ op' = [by |-> "user", pc |-> "find", i |-> i]
    /\ dev' = [dev EXCEPT ![i] = [NoDev EXCEPT !.st = "opening"]]
    /\ UNCHANGED <<susp, msgs, client, writer, crash>>

OpenFind ==
    /\ Holding("find") /\ bus = "present" /\ hdl = 0 /\ hdl' = plugs /\ Now("claim")
    /\ UNCHANGED <<susp, msgs, dev, client, writer, crash>>

\* usb_host_interface_release() needs an interface without a transfer in flight.
SameInterface(i, j) == j # i /\ dev[j].claimed /\ info[j].num = info[i].num
Quiescent(x) == x.urb = "idle" /\ x.out.urb = "idle"

Claimed(i) == [dev EXCEPT ![i].claimed = TRUE, ![i].urb = "idle", ![i].cb = TRUE, ![i].num = Size]

\* Bug: the USB device is closed although another pseudo-device uses it.
OpenClaim_Shared ==
    /\ Holding("claim")
    /\ IF info[op.i].ok /\ bus = "present" /\ ~\E j \in Dev : SameInterface(op.i, j)
       THEN dev' = Claimed(op.i) /\ Now("submit") /\ hdl' = hdl
       ELSE dev' = [dev EXCEPT ![op.i] = NoDev] /\ hdl' = 0 /\ op' = NoOp
    /\ UNCHANGED <<susp, msgs, client, writer, crash>>

\* The interface that was asked for must be usable.  cdc_acm_transfers_allocate(),
\* cdc_acm_start(): the claim fails if the device is gone, or if another pseudo-device has
\* claimed the interface, which is then released all the same;
OpenClaim ==
    /\ Holding("claim")
    /\ IF info[op.i].ok /\ bus = "present" /\ ~\E j \in Dev : SameInterface(op.i, j)
       THEN dev' = Claimed(op.i) /\ Now("submit") /\ hdl' = hdl
       ELSE /\ op' = NoOp
            /\ Removed(op.i, [j \in Dev |->
                   IF info[op.i].ok /\ SameInterface(op.i, j) /\ Quiescent(dev[j])
                   THEN [dev[j] EXCEPT !.claimed = FALSE] ELSE dev[j]])
    /\ UNCHANGED <<susp, msgs, client, writer, crash>>

\* the transfers must be accepted,
OpenSubmit ==
    /\ Holding("submit")
    /\ dev' = [dev EXCEPT ![op.i] = Polled(@)] /\ Woken(WakesPort(dev[op.i]))
    /\ Fails(CanPoll(dev[op.i]), "submit in start")
    /\ Now(IF info[op.i].notif THEN "notif" ELSE "insert")
    /\ UNCHANGED <<hdl, client, writer>>

\* an interface for the notifications must be claimed: if that fails, the transfers are
\* freed, the one in flight too;
OpenNotif ==
    /\ Holding("notif")
    /\ IF bus = "present" THEN Now("insert") /\ UNCHANGED <<hdl, dev, crash>>
       ELSE Fails(Quiescent(dev[op.i]), "transfer freed in use") /\ Removed(op.i, dev) /\ op' = NoOp
    /\ UNCHANGED <<susp, msgs, client, writer>>

\* and only then is the pseudo-device put into the list.
OpenInsert ==
    /\ Holding("insert") /\ dev' = [dev EXCEPT ![op.i].st = "listed"] /\ op' = NoOp
    /\ UNCHANGED <<susp, msgs, hdl, client, writer, crash>>

-----------------------------------------------------------------------------
(* cdc_acm_host_close() *)

\* No callback is called from now on.
Detached(i) == dev' = [dev EXCEPT ![i].cb = FALSE, ![i].poll = FALSE]

CloseBegin(t, i) ==
    /\ Unlocked
    /\ IF dev[i].st # "listed" THEN UNCHANGED <<dev, op>>
       ELSE Detached(i) /\ op' = [by |-> t, pc |-> "flush", i |-> i]

CloseFlush ==
    /\ Holding("flush") /\ dev' = [dev EXCEPT ![op.i] = Flushed(@)] /\ Now("release")
    /\ UNCHANGED <<susp, msgs, hdl, client, writer, crash>>

\* Bug: the interface is released but the pseudo-device stays in the list.
CloseRelease_Listed ==
    /\ Holding("release") /\ dev' = [dev EXCEPT ![op.i].claimed = FALSE, ![op.i].urb = "null"]
    /\ op' = NoOp
    /\ UNCHANGED <<susp, msgs, hdl, client, writer, crash>>

\* The interfaces must be released, which waits for the driver's task once and is refused
\* until every transfer was called back; then the pseudo-device is taken from the list
\* and freed.
CloseRelease ==
    /\ Holding("release") /\ (client.pc = "idle" => ~Pending)
    /\ LET x == dev[op.i]
       IN  Fails(/\ x.claimed /\ x.urb \notin InDone \cup {"flight"} /\ x.out.urb = "idle" /\ x.ctl.urb = "idle"
                 /\ ~(writer.pc = "wait" /\ writer.i = op.i), "release in close")
    /\ Removed(op.i, dev) /\ op' = NoOp
    /\ UNCHANGED <<susp, msgs, client, writer>>

\* The application closes: when it likes, and once it was told that the device is gone.
UserClose(i) ==
    /\ Call /\ Others /\ writer.i # i /\ NoWake /\ CloseBegin("user", i) /\ dev[i].st = "listed"
    /\ UNCHANGED <<susp, msgs, hdl, client, writer, crash>>
CloseTold(i) ==
    /\ Others /\ writer.i # i /\ dev[i].told /\ dev[i].st = "listed" /\ CloseBegin("user", i)
    /\ UNCHANGED <<susp, msgs, hdl, client, writer, crash, outside>>

-----------------------------------------------------------------------------
(* The driver's task: usb_event_cb() *)

From(i) == IF \E j \in Listed : j >= i THEN Min({j \in Listed : j >= i}) ELSE 0

\* The messages are handled one after the other, before the next transfer is called back.
Message ==
    /\ drv # "down" /\ msgs # <<>>
    /\ client.pc = "msgs" \/ (client.pc = "idle" /\ ~Pending)
    /\ msgs' = Tail(msgs) /\ Fails(drv = "up", "p_cdc_acm_obj is NULL")
    /\ IF Head(msgs) = "new"
       THEN /\ client' = [client EXCEPT !.pc = IF bus = "present" /\ hdl = 0 THEN "new" ELSE "msgs"]
            /\ hdl' = IF bus = "present" /\ hdl = 0 THEN plugs ELSE hdl
       ELSE hdl' = hdl /\ client' = [pc |-> "walk", kind |-> Head(msgs), cur |-> From(1), i |-> 0]
    /\ UNCHANGED <<susp, dev, op, writer, outside>>

\* new_dev_cb() has looked at the device.
NewSeen ==
    /\ client.pc = "new" /\ client' = [client EXCEPT !.pc = "msgs"] /\ hdl' = 0
    /\ UNCHANGED <<susp, msgs, dev, op, writer, crash, outside>>

\* cdc_acm_suspend_polling()
WalkSuspend(i) ==
    /\ dev' = [dev EXCEPT ![i].poll = FALSE] /\ UNCHANGED <<susp, msgs>>
    /\ Fails(dev[i].st = "listed", "walk over a freed pseudo-device")

\* Bug: the poll is not started again.
WalkResume_NoPoll(i) == UNCHANGED <<susp, msgs, dev, crash>>

\* cdc_acm_resume(): the transfers must be accepted.
WalkResume(i) ==
    /\ dev' = [dev EXCEPT ![i] = Polled(@)] /\ Woken(WakesPort(dev[i]))
    /\ Fails(dev[i].st = "listed" /\ CanPoll(dev[i]), "submit in resume")

\* The disconnection is reported, unless the pseudo-device is being closed.
WalkGone(i) ==
    /\ dev' = [dev EXCEPT ![i].told = @ \/ dev[i].cb] /\ UNCHANGED <<susp, msgs>>
    /\ Fails(dev[i].st = "listed", "walk over a freed pseudo-device")

\* One pseudo-device of the list; the next one is remembered before.
Walk ==
    /\ client.pc = "walk" /\ client.cur # 0
    /\ LET i == client.cur
           on == [client EXCEPT !.cur = From(i + 1), !.i = i]
       IN  CASE client.kind = "susp" -> WalkSuspend(i) /\ client' = on
             [] client.kind = "res"  -> WalkResume(i) /\ client' = on
             [] OTHER -> /\ WalkGone(i)
                         /\ client' = [on EXCEPT !.pc = IF dev[i].cb THEN "cb" ELSE "walk"]
    /\ UNCHANGED <<hdl, op, writer, outside>>

\* The user's callback closes the pseudo-device, or leaves that to its task.
Callback ==
    /\ client.pc = "cb"
    /\ LET j == IF "both" \in env /\ From(client.i + 1) # 0 THEN From(client.i + 1) ELSE client.i
       IN  IF "incb" \in env
           THEN /\ CloseBegin("client", j)
                /\ client' = [client EXCEPT !.pc = IF j = client.i THEN "closing" ELSE "cb"]
           ELSE UNCHANGED <<dev, op>> /\ client' = [client EXCEPT !.pc = "walk"]
    /\ UNCHANGED <<susp, msgs, hdl, writer, crash, outside>>

CallbackEnd ==
    /\ client.pc = "closing" /\ op.by # "client" /\ client' = [client EXCEPT !.pc = "walk"]
    /\ UNCHANGED <<susp, msgs, hdl, dev, op, writer, crash, outside>>

WalkEnd ==
    /\ client.pc = "walk" /\ client.cur = 0
    /\ client' = [pc |-> "msgs", kind |-> "none", cur |-> 0, i |-> 0]
    /\ UNCHANGED <<susp, msgs, hdl, dev, op, writer, crash, outside>>

MsgsEnd ==
    /\ client.pc = "msgs" /\ msgs = <<>> /\ client' = [client EXCEPT !.pc = "idle"]
    /\ UNCHANGED <<susp, msgs, hdl, dev, op, writer, crash, outside>>

\* cdc_acm_client_task() deregisters the client, whose devices must be closed.
TaskEnds ==
    /\ drv = "ending" /\ client.pc = "idle" /\ drv' = "down" /\ Fails(hdl = 0, "deregister")
    /\ UNCHANGED <<bus, plugs, susp, msgs, hdl, dev, info, wakes, op, client, writer, calls, fixed>>

\* cdc_acm_host_uninstall()
Uninstall ==
    /\ drv = "up" /\ Others /\ Unlocked /\ Listed = {} /\ calls = MaxCalls /\ drv' = "ending"
    /\ UNCHANGED <<bus, plugs, susp, msgs, hdl, dev, info, wakes, op, client, writer, calls, crash, fixed>>

-----------------------------------------------------------------------------
(* The writing task *)

\* A resumption between the flush and the release of a close starts the poll again
\* ("closing").
Quiet == Unlocked \/ "closing" \in env

\* cdc_acm_host_data_tx_blocking() empties the semaphore first,
\* cdc_acm_host_send_custom_request() does not.
Readied(x, k) == [x EXCEPT ![k].sem = @ /\ k = "ctl"]

\* Both submit the transfer, unless it is still in flight; the requests of ACM are those
\* of a compliant device (cdc_host_ops.c).
Submitted(i, k, supported, want) ==
    LET accepted == supported /\ bus = "present" /\ dev[i][k].urb = "idle"
        ready    == IF supported THEN Readied(dev[i], k) ELSE dev[i]
    IN  /\ dev' = [dev EXCEPT ![i] = IF accepted THEN [ready EXCEPT ![k].urb = "flight", ![k].want = want]
                                     ELSE ready]
        /\ writer' = IF accepted THEN [pc |-> "wait", k |-> k, i |-> i] ELSE writer
        /\ Woken(susp /\ accepted)

MayWrite(i) ==
    /\ Call /\ Others /\ writer.pc = "idle" /\ dev[i].st = "listed" /\ ~dev[i].told
    /\ op.i # i /\ (susp => Quiet)
    /\ UNCHANGED <<hdl, op, client, crash>>

Write(i, k) == MayWrite(i) /\ k \in env /\ Submitted(i, k, k = "ctl" => info[i].acm, "none")

\* cdc_acm_host_enable_remote_wakeup(): if the device can do it, and if no pseudo-device
\* of it says that it is done already
WakeStatus == \E j \in Listed : dev[j].wake
Wakeup(i, enable) ==
    /\ MayWrite(i) /\ "wake" \in env /\ info[i].wake
    /\ Submitted(i, "ctl", WakeStatus # enable, IF enable THEN "on" ELSE "off")

WriteIdle == writer' = [writer EXCEPT !.pc = "idle", !.i = 0]

\* The status of the remote wakeup is set in every pseudo-device of the list.
Informed(devs, x) ==
    IF x.want = "none" \/ ~x.ok THEN devs
    ELSE [j \in Dev |-> IF j \in Listed THEN [devs[j] EXCEPT !.wake = x.want = "on"] ELSE devs[j]]

\* The transfer is awaited and its result is read: it must be this one's.
WriteDone ==
    /\ Others /\ writer.pc = "wait" /\ dev[writer.i][writer.k].sem
    /\ LET x == dev[writer.i][writer.k]
       IN  /\ Fails(x.urb = "idle", "result of another transfer")
           /\ dev' = Informed([dev EXCEPT ![writer.i][writer.k] = [NoXfer EXCEPT !.urb = x.urb]], x)
    /\ WriteIdle
    /\ UNCHANGED <<susp, msgs, hdl, op, client, outside>>

\* The wait times out; a write resets its endpoint, a request does not.
WriteTimeout ==
    /\ Others /\ writer.pc = "wait" /\ "slow" \in env
    /\ ~dev[writer.i][writer.k].sem
    /\ dev' = IF writer.k = "ctl" THEN dev
              ELSE [dev EXCEPT ![writer.i] = FlushedXfer(@, writer.k)]
    /\ WriteIdle
    /\ UNCHANGED <<susp, msgs, hdl, op, client, crash, outside>>

-----------------------------------------------------------------------------
(* The USB Host Library and the device *)

Calm == UNCHANGED <<drv, info, op, client, writer, calls, crash, fixed>>

Plug ==
    /\ bus # "present" /\ hdl = 0 /\ msgs = <<>> /\ plugs < MaxPlugs /\ (drv = "up" \/ "unin" \in env)
    /\ plugs' = plugs + 1 /\ bus' = "present" /\ msgs' = Post(msgs, "new") /\ wakes' = FALSE
    /\ UNCHANGED <<susp, hdl, dev>> /\ Calm

\* Another device is plugged in.
PlugOther ==
    /\ Call /\ "other" \in env /\ hdl # 0 /\ msgs' = Post(msgs, "new")
    /\ UNCHANGED <<susp, hdl, dev, op, client, writer, crash>>

\* The driver survives a disconnection unless it opens a pseudo-device ("early"), closes
\* one of several ("closing"), has messages in hand ("loop"), or the writer waits for a
\* transfer of a pseudo-device that a callback closes.
Unplug ==
    /\ bus = "present" /\ (op.pc \notin {"submit", "notif", "insert"} \/ "early" \in env)
    /\ op.pc \notin {"flush", "release"} \/ Listed = {op.i} \/ "closing" \in env
    /\ ClientIdle \/ "loop" \in env
    /\ bus' = "gone" /\ susp' = FALSE /\ msgs' = IF hdl # 0 THEN Post(msgs, "gone") ELSE msgs
    /\ dev' = [i \in Dev |-> FlushedXfer(AllFlushed(dev[i]), "ctl")]
    /\ UNCHANGED <<plugs, hdl, wakes>> /\ Calm

\* Data, a notification or an error arrives.
Receive(i) ==
    /\ bus = "present" /\ ~susp /\ dev[i].urb = "flight"
    /\ \E ok \in {TRUE, "error" \notin env}, len \in IF "keep" \in env THEN 1 .. dev[i].num ELSE {1} :
          dev' = [dev EXCEPT ![i].urb = IF ok THEN "doneok" ELSE "doneerr", ![i].len = len]
    /\ UNCHANGED <<bus, plugs, susp, msgs, hdl, wakes>> /\ Calm

\* The device takes what was written, or answers a request, or refuses one.
Answer(i, k) ==
    /\ bus = "present" /\ ~susp /\ dev[i][k].urb = "flight"
    /\ \E ok \in {TRUE, ~("error" \in env /\ dev[i][k].want # "none")} :
          /\ dev' = [dev EXCEPT ![i][k].urb = "done", ![i][k].ok = ok]
          /\ wakes' = IF ok /\ dev[i][k].want # "none" THEN dev[i][k].want = "on" ELSE wakes
    /\ UNCHANGED <<bus, plugs, susp, msgs, hdl>> /\ Calm

\* usb_host_lib_root_port_suspend() and usb_host_lib_root_port_resume()
Suspend ==
    /\ "suspend" \in env /\ bus = "present" /\ ~susp /\ hdl # 0 /\ (ClientIdle \/ "loop" \in env)
    /\ Quiet
    /\ susp' = TRUE /\ msgs' = Post(msgs, "susp") /\ dev' = [i \in Dev |-> AllFlushed(dev[i])]
    /\ UNCHANGED <<bus, plugs, hdl, wakes>> /\ Calm

Resume ==
    /\ susp /\ Quiet /\ susp' = FALSE
    /\ msgs' = IF hdl # 0 THEN Post(msgs, "res") ELSE msgs
    /\ UNCHANGED <<bus, plugs, hdl, dev, wakes>> /\ Calm

-----------------------------------------------------------------------------
Client == Message \/ NewSeen \/ Walk \/ Callback \/ CallbackEnd \/ WalkEnd \/ MsgsEnd \/ TaskEnds
          \/ \E i \in Dev : InXferCb(i) \/ \E k \in Transfers : OutXferCb(i, k)
Locked == OpenFind \/ OpenClaim \/ OpenSubmit \/ OpenNotif \/ OpenInsert \/ CloseFlush \/ CloseRelease
Writes == WriteDone \/ WriteTimeout
User == Uninstall \/ \E i \in Dev : OpenBegin(i) \/ UserClose(i) \/ (\E k \in Transfers : Write(i, k))
                                   \/ \E enable \in BOOLEAN : Wakeup(i, enable)
Told == \E i \in Dev : CloseTold(i)
Answers == \E i \in Dev : \E k \in Transfers : Answer(i, k)
Bus == Plug \/ PlugOther \/ Unplug \/ Suspend \/ Resume \/ \E i \in Dev : Receive(i)

Init ==
    /\ drv = "up" /\ bus = "none" /\ plugs = 0 /\ susp = FALSE /\ msgs = <<>> /\ hdl = 0
    /\ dev = [i \in Dev |-> NoDev] /\ op = NoOp
    /\ client = [pc |-> "idle", kind |-> "none", cur |-> 0, i |-> 0]
    /\ writer = [pc |-> "idle", k |-> "out", i |-> 0]
    /\ calls = 0 /\ crash = "none" /\ wakes = FALSE
    /\ env \in Environments /\ \E kind \in Kinds(env) : info = Reading(kind)

\* The driver is not there: what uses it is looked at instead.
AcmOff ==
    /\ drv = "down" /\ bus = "none" /\ plugs = 0 /\ susp = FALSE /\ msgs = <<>> /\ hdl = 0
    /\ dev = [i \in Dev |-> NoDev] /\ op = NoOp
    /\ client = [pc |-> "idle", kind |-> "none", cur |-> 0, i |-> 0]
    /\ writer = [pc |-> "idle", k |-> "out", i |-> 0]
    /\ calls = 0 /\ crash = "none" /\ wakes = FALSE
    /\ env = {} /\ \E kind \in Kinds({}) : info = Reading(kind)

Next == Client \/ Locked \/ Writes \/ User \/ Told \/ Answers \/ Bus

\* Every task runs, and the application closes what it was told is gone.
Spec == Init /\ [][Next]_vars /\ WF_vars(Client) /\ WF_vars(Locked) /\ WF_vars(Told) /\ WF_vars(Writes)

-----------------------------------------------------------------------------
(* Properties *)

\* No ESP_ERROR_CHECK() and no assertion fails, no list or transfer is used after it was
\* freed, and a write or a request returns the result of its own transfer.
NoAbuse == crash = "none"

\* The client has the USB device open while a pseudo-device claims it, and closes it
\* with the last one.
HandleIsShared ==
    /\ (\E i \in Dev : dev[i].claimed) => hdl # 0
    /\ hdl # 0 => \/ client.pc = "new" \/ ~Unlocked \/ Listed # {}
    /\ \A i \in Listed : dev[i].claimed

\* What was kept in the IN buffer and what may still arrive fit into it, in whole packets.
BufferFits == \A i \in Listed : dev[i].pos + dev[i].num <= Size /\ dev[i].num > 0 /\ dev[i].num % Mps = 0

\* The pseudo-devices of the list know whether the device's remote wakeup is enabled.
WakeIsKnown ==
    bus = "present" /\ Listed # {} /\ (\A i \in Dev : dev[i].ctl.urb = "idle" /\ ~dev[i].ctl.sem)
        => (wakes <=> WakeStatus)

\* Of every interface the driver takes the endpoints and descriptors that belong to it, or
\* refuses it when there are none.
DescriptorsRead == \A i \in Dev : info[i].right

AcmConsistent == TypeOK /\ NoAbuse /\ HandleIsShared /\ BufferFits /\ WakeIsKnown /\ DescriptorsRead

\* While nothing is left to handle, every open pseudo-device of a running device polls
\* for data, unless an error ended that and its user was told.
KeepsPolling ==
    \A i \in Listed :
        bus = "present" /\ ~susp /\ ClientIdle /\ dev[i].cb /\ ~dev[i].failed => dev[i].urb = "flight"

\* When the device is gone everybody is told, and every pseudo-device and the USB device
\* itself are closed, so that the next one can be enumerated.
GoneIsClosed == bus = "gone" ~> hdl = 0 /\ Listed = {}
-----------------------------------------------------------------------------
(* What the theorems about the driver assume (Vcp_proof); TLC evaluates it on the instance *)
(* of the run.                                                                             *)

\* No hazard that the driver does not survive: one task runs at a time, no device leaves
\* while a pseudo-device is being opened or closed, or messages are in hand, or arrives after
\* uninstalling began; callbacks close their own pseudo-device, and none that is written
\* to; requests are answered in time; the IN buffer holds whole packets; the remote wakeup
\* is turned off before a close; and no other device's messages fill the queue of a device
\* that is suspended.
IsTame(e) ==
    /\ e \cap {"race", "early", "closing", "loop", "unin", "both", "odd", "late"} = {}
    /\ "incb" \notin e \/ e \cap {"out", "ctl", "wake"} = {}
    /\ "slow" \notin e \/ e \cap {"ctl", "wake"} = {}
    /\ ~({"other", "suspend"} \subseteq e)

\* What is read for the pseudo-devices, no two of which ask for the same interface
InfoType == [ok : BOOLEAN, num : Nat, notif : BOOLEAN, acm : BOOLEAN, wake : BOOLEAN, right : BOOLEAN]
ReadWell(f) ==
    /\ f \in [Dev -> InfoType] /\ \A i \in Dev : f[i].right
    /\ \A i, j \in Dev : i # j /\ f[i].ok /\ f[j].ok => f[i].num # f[j].num

Tamed ==
    /\ QueueLen >= 2 /\ \A e \in Environments : IsTame(e)
    /\ \A e \in Environments \cup {{}} : \A kind \in Kinds(e) : ReadWell(Reading(kind))
=============================================================================
