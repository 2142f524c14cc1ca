--------------------------------- MODULE Uac ---------------------------------
(***************************************************************************)
(* The host's UAC class driver (usb_host_uac/uac_host.c): the microphone   *)
(* and the speaker of one USB audio device, the driver's task, which       *)
(* handles the client's events, a task that controls the streams, and a    *)
(* task that reads or writes audio data.  Every stream has isochronous     *)
(* transfers, each in xfer_list or in free_xfer_list, and a ring buffer    *)
(* that is counted in transfers' worth of data.  What the driver reads in  *)
(* the configuration of the device (UacDescriptors) it reads again and     *)
(* again; here that is done once, in dev.                                  *)
(***************************************************************************)
EXTENDS UacDescriptors, SequencesExt, FiniteSetsExt

CONSTANTS
    XferNum,        \* CONFIG_UAC_NUM_ISOC_URBS
    BufSize,        \* the ring buffer's size, in transfers
    Reading(_, _),  \* what is read of a kind of device (ReadAudio), given what is wanted of its streams
    Kinds(_),       \* the kinds that are plugged in, in an environment
    Wants(_),       \* what the application wants of its streams, of a kind
    Volumes,        \* the volumes that are set
    MaxPlugs,       \* bound: how often the device is plugged in
    MaxCalls,       \* bound: calls of the application
    Environments    \* what may happen, see env

ASSUME BoundsAreNat ==
    XferNum \in Nat \ {0} /\ {BufSize, MaxPlugs, MaxCalls} \subseteq Nat /\ Volumes \subseteq Nat \ {0}

VARIABLES
    dev,        \* the kind of device, and what is read of its streams; it does not change
    drv,        \* s_uac_driver: up, ending (end_client_event_handling), down
    bus, plugs, \* the USB device: none, present, gone; which one
    msgs,       \* the client's event messages
    hdl,        \* the client has the USB device open: its number, or 0
    phys,       \* uac_device_t with its opened_cnt and its control transfer
    ifc,        \* uac_iface_t of both streams
    user,       \* the controlling task: the call it is in
    aux,        \* the reading or writing task
    client,     \* the driver's task: its walk over the list
    level,      \* the volume of the device's channels
    calls, crash, env

vars == <<dev, level, drv, bus, plugs, msgs, hdl, phys, ifc, user, aux, client, calls, crash, env>>
outside == <<dev, drv, bus, plugs, calls, env>>

RX == 1
TX == 2
Ifc  == {RX, TX}
Xfer == 1..XferNum

Channel == 1..8

\* list: the array that has the transfer; none: it is not allocated, or freed.
NoXfer == [list |-> "none", urb |-> "idle"]
NoIfc  == [st |-> "free", range |-> FALSE, vol |-> 0, wait |-> FALSE, cb |-> FALSE, told |-> FALSE, failed |-> FALSE,
           buf |-> 0, x |-> [k \in Xfer |-> NoXfer]]
NoCtl  == [urb |-> "idle", sem |-> FALSE, ok |-> FALSE]
NoPhys == [st |-> "none", cnt |-> 0, ctl |-> NoCtl]
NoCall == [op |-> "none", pc |-> "idle", i |-> RX, ok |-> FALSE, left |-> {}, v |-> 0]
NoAux  == [pc |-> "idle", i |-> RX, k |-> 1, got |-> 0]

Done == {"doneok", "doneerr", "doneno"}
Claimed(x)  == x.st \in {"READY", "ACTIVE", "SUSPENDING"}
\* usb_host_interface_release() is refused until every transfer was called back.
Idle(x)     == \A k \in Xfer : x.x[k].urb = "idle"
Pending     == phys.ctl.urb \in Done \/ \E i \in Ifc : \E k \in Xfer : ifc[i].x[k].urb \in Done

TypeOK ==
    /\ drv \in {"up", "ending", "down"} /\ bus \in {"none", "present", "gone"}
    /\ plugs \in 0..MaxPlugs /\ hdl \in 0..MaxPlugs /\ calls \in 0..MaxCalls
    /\ msgs \in Seq({"new", "gone"})
    /\ phys \in [st : {"none", "listed"}, cnt : 0..255,
                 ctl : [urb : {"idle", "flight"} \cup Done, sem : BOOLEAN, ok : BOOLEAN]]
    /\ ifc \in [Ifc -> [st : {"free", "NOT_INIT", "IDLE", "READY", "ACTIVE", "SUSPENDING"},
                        wait : BOOLEAN, cb : BOOLEAN, told : BOOLEAN, failed : BOOLEAN,
                        buf : 0..BufSize, range : BOOLEAN, vol : Volumes \cup {0},
                        x : [Xfer -> [list : {"none", "free", "busy"},
                                      urb : {"idle", "flight"} \cup Done]]]]
    /\ user \in [op : {"none", "open", "start", "suspend", "resume", "stop", "close", "setvol", "getvol",
                        "setdb", "other"},
                 pc : {"idle", "add", "insert", "count", "ctl", "act", "release", "final", "delay"},
                 i : Ifc, ok : BOOLEAN, left : SUBSET Channel, v : Volumes \cup {0}]
    /\ level \in [Ifc -> [Channel -> Volumes \cup {0}]]
    /\ aux \in [pc : {"idle", "read", "scan", "submit"}, i : Ifc, k : 1..XferNum + 1, got : 0..2]
    /\ client \in [pc : {"idle", "msgs", "new", "walk", "lock", "cb"}, i : Ifc, cur : Ifc \cup {0}]

Fails(ok, name) == crash' = IF ok \/ crash # "none" THEN crash ELSE name

\* The application's tasks run while the driver's task has nothing to do, or waits for a
\* lock; on two cores ("race") at any time.
ClientIdle == client.pc = "idle" /\ msgs = <<>> /\ ~Pending
\* state_mutex of an interface
Locked(i) == user.op \notin {"none", "open"} /\ user.i = i
ClientWaits == client.pc = "lock" /\ Locked(client.i)
Others == "race" \in env \/ ClientIdle \/ ClientWaits

-----------------------------------------------------------------------------
(* Transfers *)

\* usb_host_transfer_submit(), whose result the callbacks do not look at.
Accepts(x, k) == bus = "present" /\ Claimed(x) /\ x.x[k].urb = "idle"
Submitted(x, k) == IF Accepts(x, k) THEN [x EXCEPT !.x[k].urb = "flight"] ELSE x

\* stream_tx_xfer_submit() pops one transfer's worth of data, or puts the transfer into
\* the free list.
TxSubmitted(x, k) ==
    IF x.buf > 0 THEN Submitted([x EXCEPT !.buf = @ - 1], k)
    ELSE [x EXCEPT !.x[k].list = "free"]

\* stream_rx_xfer_done(): data that does not fit into the ring buffer is dropped.
RxDone(x, k) ==
    Submitted([x EXCEPT !.x[k].urb = "idle", !.buf = IF @ < BufSize THEN @ + 1 ELSE @], k)

\* stream_tx_xfer_done()
TxDone(x, k) == TxSubmitted([x EXCEPT !.x[k].urb = "idle"], k)

\* Bug: a transfer that failed stays in the list of those in use.
ErrorDone_Listed(i, x, k) == [x EXCEPT !.x[k].urb = "idle", !.failed = TRUE]

\* The user is told of an error; only the speaker's transfer goes to the free list.
ErrorDone(i, x, k) ==
    [x EXCEPT !.x[k] = [urb |-> "idle", list |-> IF i = TX THEN "free" ELSE @.list],
              !.failed = TRUE]

\* Cancelled, the device is gone, or the stream is not active: nothing more is done.
XferCb(i, k) ==
    /\ drv # "down" /\ client.pc = "idle" /\ ifc[i].x[k].urb \in Done
    /\ LET x == ifc[i]
       IN  ifc' = [ifc EXCEPT ![i] =
              IF x.st # "ACTIVE" \/ x.x[k].urb = "doneno" THEN [x EXCEPT !.x[k].urb = "idle"]
              ELSE IF x.x[k].urb = "doneerr" THEN ErrorDone(i, x, k)
              ELSE IF i = RX THEN RxDone(x, k) ELSE TxDone(x, k)]
    /\ UNCHANGED <<level, msgs, hdl, phys, user, aux, client, crash, outside>>

\* ctrl_xfer_done()
CtlCb ==
    /\ drv # "down" /\ client.pc = "idle" /\ phys.ctl.urb \in Done
    /\ phys' = [phys EXCEPT !.ctl = [urb |-> "idle", sem |-> TRUE, ok |-> @.urb = "doneok"]]
    /\ UNCHANGED <<level, msgs, hdl, ifc, user, aux, client, crash, outside>>

\* usb_host_endpoint_halt() and usb_host_endpoint_flush()
Flushed(x) == [x EXCEPT !.x = [k \in Xfer |-> IF @[k].urb = "flight"
                                              THEN [@[k] EXCEPT !.urb = "doneno"] ELSE @[k]]]
\* uac_host_interface_suspend(), after its request
Suspended(x) ==
    LET y == Flushed(x)
    IN  [y EXCEPT !.st = "READY", !.buf = 0, !.x = [k \in Xfer |-> [@[k] EXCEPT !.list = "free"]]]

\* uac_host_interface_release_and_free_transfer()
Released(x) == [x EXCEPT !.st = "IDLE", !.x = [k \in Xfer |-> NoXfer]]

\* uac_host_interface_claim_and_prepare_transfer()
Prepared(x) == [x EXCEPT !.st = "READY", !.x = [k \in Xfer |-> [list |-> "free", urb |-> "idle"]]]

-----------------------------------------------------------------------------
(* Requests *)

Call == drv = "up" /\ calls < MaxCalls /\ calls' = calls + 1 /\ UNCHANGED <<dev, drv, bus, plugs, env>>
At(op, pc) == user.op = op /\ user.pc = pc /\ Others /\ UNCHANGED outside
AtAct(ops) == user.op \in ops /\ user.pc = "act" /\ Others /\ UNCHANGED outside

\* uac_control_transfer() submits and then waits, or fails at once.
Request(u) ==
    LET ok == bus = "present" /\ phys.ctl.urb = "idle"
    IN  /\ user' = [u EXCEPT !.pc = IF ok THEN "ctl" ELSE "act", !.ok = FALSE]
        /\ phys' = IF ok THEN [phys EXCEPT !.ctl.urb = "flight"] ELSE phys

\* After 5 s it gives up: the device does not answer ("slow"), or the driver's task waits
\* for the lock that is held meanwhile.
GivesUp == "slow" \in env \/ (ClientWaits /\ phys.ctl.urb \in Done)

\* The requests of a call are numbered, or it has one for each channel; the first of those
\* that are left is under way.
ChannelNow == Min(user.left)

\* The result that is read must be this transfer's.  After a time-out endpoint 0 is to be
\* halted, which fails.  The next request follows at once, unless this one failed.
RequestEnd ==
    /\ user.pc = "ctl" /\ Others /\ (phys.ctl.sem \/ GivesUp)
    /\ LET ok == phys.ctl.sem /\ phys.ctl.ok
           left == user.left \ {ChannelNow}
           more == ok /\ left # {}
           sent == more /\ bus = "present" /\ phys.ctl.urb = "idle"
       IN  /\ user' = [user EXCEPT !.pc = IF sent THEN "ctl" ELSE "act", !.ok = ok /\ ~more,
                                   !.left = IF sent THEN left ELSE {}]
           /\ phys' = [phys EXCEPT !.ctl.sem = FALSE, !.ctl.urb = IF sent THEN "flight" ELSE @]
           /\ level' = IF ok /\ user.op \in {"setvol", "setdb"}
                       THEN [level EXCEPT ![user.i][ChannelNow] = user.v] ELSE level
    /\ Fails(phys.ctl.sem => phys.ctl.urb = "idle", "result of another transfer")
    /\ UNCHANGED <<msgs, hdl, ifc, aux, client, outside>>

-----------------------------------------------------------------------------
(* uac_host_device_open() *)

Ends == user' = NoCall
Now(pc) == user' = [user EXCEPT !.pc = pc]
MayCall == user.op = "none" /\ (aux.pc = "idle" \/ "two" \in env)

\* The application opens an interface that was announced, by the address of the device.  If
\* that cannot be opened, the clean-up uses the interface that was not added.
Opening(i) ==
    /\ Call /\ Others /\ MayCall /\ ifc[i].st = "free" /\ dev.ifs[i].dir # "none"
    /\ LET fresh == phys.st = "none"
           ok == fresh => bus = "present" /\ hdl = 0
       IN  /\ hdl' = IF fresh /\ ok THEN plugs ELSE hdl
           /\ user' = IF ok THEN [NoCall EXCEPT !.op = "open", !.i = i,
                                                !.pc = IF fresh THEN "add" ELSE "insert"]
                      ELSE NoCall
    /\ UNCHANGED <<level, msgs, phys, ifc, aux, client>>

OpenBegin(i) ==
    /\ Opening(i) /\ (bus = "present" \/ "stale" \in env)
    /\ Fails(user'.op = "open", "NULL interface in the clean-up of open")

\* uac_host_device_open_with_vid_pid(): a device that is open already is looked for by its
\* identifiers, but then the first one that is connected is opened.
OpenByIds(i) ==
    /\ Opening(i) /\ bus = "present" /\ "ids" \in env
    /\ Fails(phys.st = "listed" => "other" \notin env, "interface of another device")

\* _uac_host_device_add()
OpenAdd ==
    /\ At("open", "add") /\ phys' = [NoPhys EXCEPT !.st = "listed"] /\ Now("insert")
    /\ UNCHANGED <<level, msgs, hdl, ifc, aux, client, crash>>

\* uac_host_interface_add(), which needs a device that it can read.
OpenInsert ==
    /\ At("open", "insert") /\ ifc' = [ifc EXCEPT ![user.i] = [NoIfc EXCEPT !.st = "NOT_INIT"]]
    /\ Now("count") /\ Fails(dev.ifs[user.i].open = "none", dev.ifs[user.i].open)
    /\ UNCHANGED <<level, msgs, hdl, phys, aux, client>>

\* Only now the interface counts, and has its callback; then its volume range is read, with
\* three requests, if the first of its settings has a volume control.
OpenCount ==
    /\ At("open", "count")
    /\ ifc' = [ifc EXCEPT ![user.i].st = "IDLE", ![user.i].cb = "nocb" \notin env]
    /\ LET ok == dev.ifs[user.i].range /\ bus = "present" /\ phys.ctl.urb = "idle"
       IN  /\ phys' = [phys EXCEPT !.cnt = @ + 1, !.ctl.urb = IF ok THEN "flight" ELSE @]
           /\ user' = [user EXCEPT !.pc = IF ok THEN "ctl" ELSE "act", !.left = IF ok THEN 1..3 ELSE {}]
    /\ UNCHANGED <<level, msgs, hdl, aux, client, crash>>

\* Bug: the volume is remembered although a channel does not have it.
RequestDone_Anyway ==
    /\ AtAct({"open", "setvol", "getvol", "setdb", "other"}) /\ Ends
    /\ ifc' = CASE user.op = "open" /\ user.ok -> [ifc EXCEPT ![user.i].range = TRUE]
                [] user.op = "setvol" -> [ifc EXCEPT ![user.i].vol = user.v]
                [] OTHER -> ifc
    /\ UNCHANGED <<level, msgs, hdl, phys, aux, client, crash>>

\* Its result may be missing.  The volume that was set, in percent, is remembered.
RequestDone ==
    /\ AtAct({"open", "setvol", "getvol", "setdb", "other"}) /\ Ends
    /\ ifc' = CASE user.op = "open" /\ user.ok -> [ifc EXCEPT ![user.i].range = TRUE]
                [] user.op = "setvol" /\ user.ok -> [ifc EXCEPT ![user.i].vol = user.v]
                [] OTHER -> ifc
    /\ UNCHANGED <<level, msgs, hdl, phys, aux, client, crash>>

-----------------------------------------------------------------------------
(* Streams *)

CallOn(op, i, left) == [NoCall EXCEPT !.op = op, !.i = i, !.left = left]
\* The alternate setting is selected, and then the frequency, where that can be.
Resuming(op, i) == Request(CallOn(op, i, IF dev.ifs[i].freq THEN 1..2 ELSE {1}))

\* uac_host_device_start(): it fails if no setting suits, and so does the claim if the
\* device is gone.  The stream starts at once, or only when it is resumed
\* (FLAG_STREAM_SUSPEND_AFTER_START).
Start(i) ==
    /\ Call /\ Others /\ MayCall /\ ifc[i].st = "IDLE" /\ ~ifc[i].told
    /\ IF bus # "present" \/ dev.ifs[i].setting = 0 THEN UNCHANGED <<ifc, user, phys>>
       ELSE /\ ifc' = [ifc EXCEPT ![i] = [Prepared(@) EXCEPT !.failed = FALSE]]
            /\ IF "later" \in env THEN UNCHANGED <<user, phys>> ELSE Resuming("start", i)
    /\ Fails(dev.ifs[i].start = "none", dev.ifs[i].start)
    /\ UNCHANGED <<level, msgs, hdl, aux, client>>

\* uac_host_device_resume()
Resume(i) ==
    /\ Call /\ Others /\ MayCall /\ ifc[i].st = "READY" /\ Resuming("resume", i)
    /\ UNCHANGED <<level, msgs, hdl, ifc, aux, client, crash>>

\* uac_host_interface_resume(): every transfer must be in the free list.  The microphone's
\* are submitted up to the first that is refused; the speaker's wait for data.
Resumed(i, x) ==
    LET upto(k) == i = TX \/ \A j \in 1..k : Accepts(x, j)
        xs == [k \in Xfer |-> IF i = TX THEN x.x[k]
                              ELSE IF upto(k) THEN [list |-> "busy", urb |-> "flight"]
                              ELSE IF k = 1 \/ upto(k - 1) THEN [x.x[k] EXCEPT !.list = "busy"]
                              ELSE x.x[k]]
    IN  [x EXCEPT !.x = xs, !.failed = FALSE, !.st = IF upto(XferNum) THEN "ACTIVE" ELSE @]

\* uac_host_device_start() releases the interface again if that fails.
ResumeAct ==
    /\ AtAct({"start", "resume"}) /\ Ends
    /\ LET x == ifc[user.i]
           y == IF user.ok THEN Resumed(user.i, x) ELSE x
       IN  /\ ifc' = [ifc EXCEPT ![user.i] =
                 IF user.op = "start" /\ y.st = "READY" /\ Idle(y) THEN Released(y) ELSE y]
           /\ Fails(user.ok => \A k \in Xfer : x.x[k].list = "free", "assert(free_xfer_list[i])")
    /\ UNCHANGED <<level, msgs, hdl, phys, aux, client>>

\* uac_host_device_suspend(), uac_host_device_stop(), uac_host_device_close()
Halt(op, i) ==
    /\ ifc[i].st = "ACTIVE" /\ Request(CallOn(op, i, {1}))
    /\ ifc' = [ifc EXCEPT ![i].st = "SUSPENDING"]
    /\ UNCHANGED <<level, msgs, hdl, aux, client, crash>>

Suspend(i) == Call /\ Others /\ MayCall /\ Halt("suspend", i)

\* Bug: the transfers that were in use are not put into the free list.
SuspendAct_Busy ==
    /\ AtAct({"suspend", "stop", "close"})
    /\ ifc' = [ifc EXCEPT ![user.i] = [Flushed(@) EXCEPT !.st = "READY", !.buf = 0]]
    /\ IF user.op = "suspend" THEN Ends ELSE Now("release")
    /\ UNCHANGED <<level, msgs, hdl, phys, aux, client, crash>>

\* The transfers are put into the free list before they are called back.
SuspendAct ==
    /\ AtAct({"suspend", "stop", "close"})
    /\ ifc' = [ifc EXCEPT ![user.i] = Suspended(@)]
    /\ IF user.op = "suspend" THEN Ends ELSE Now("release")
    /\ UNCHANGED <<level, msgs, hdl, phys, aux, client, crash>>

\* Stopping and closing release an interface that is ready; closing goes on.
ReleaseNow(op, i) ==
    /\ user' = [CallOn(op, i, {}) EXCEPT !.pc = IF ifc[i].st = "READY" THEN "release" ELSE "final"]
    /\ UNCHANGED <<level, msgs, hdl, phys, ifc, aux, client, crash>>

Stop(i) ==
    /\ Call /\ Others /\ MayCall /\ ifc[i].st \in {"READY", "ACTIVE"}
    /\ IF ifc[i].st = "ACTIVE" THEN Halt("stop", i) ELSE ReleaseNow("stop", i)

CloseBegin(i) == IF ifc[i].st = "ACTIVE" THEN Halt("close", i) ELSE ReleaseNow("close", i)

\* usb_host_interface_release() waits once for the driver's task.
ReleaseAct ==
    /\ user.pc = "release" /\ Others /\ (client.pc = "idle" => ~Pending) /\ UNCHANGED outside
    /\ LET x == ifc[user.i]
       IN  /\ ifc' = [ifc EXCEPT ![user.i] = IF Idle(x) THEN Released(x) ELSE x]
           /\ IF Idle(x) /\ user.op = "close" THEN Now("final") ELSE Ends
           /\ Fails(Idle(x) => ~(aux.pc \in {"scan", "submit"} /\ aux.i = user.i), "write to freed transfers")
    /\ UNCHANGED <<level, msgs, hdl, phys, aux, client>>

-----------------------------------------------------------------------------
(* uac_host_device_close() *)

\* The physical device is closed with its last interface.
Counted == (phys.cnt + 255) % 256
Closable == hdl # 0 /\ ~\E j \in Ifc : Claimed(ifc[j])
PhysClosed(ok) ==
    IF Counted # 0 THEN phys' = [phys EXCEPT !.cnt = Counted] /\ hdl' = hdl
    ELSE IF ok THEN phys' = NoPhys /\ hdl' = 0
    ELSE phys' = [phys EXCEPT !.cnt = 0] /\ hdl' = hdl

\* While the driver's task handles the disconnection the interface is left to it.
CloseFinal ==
    /\ At("close", "final")
    /\ IF ifc[user.i].wait THEN Ends /\ UNCHANGED <<phys, hdl, crash>>
       ELSE /\ PhysClosed(Closable)
            /\ IF Counted = 0 /\ ~Closable THEN Ends ELSE Now("delay")
            /\ Fails(Counted = 0 => phys.ctl.urb = "idle", "control transfer freed in flight")
    /\ UNCHANGED <<level, msgs, ifc, aux, client>>

\* The ring buffer is deleted after a delay in which its reader or its writer ends: a byte
\* is sent to the reader, who goes on to wait for the rest.  Then the interface is freed.
CloseDelay ==
    /\ At("close", "delay") /\ ifc' = [ifc EXCEPT ![user.i] = NoIfc] /\ Ends
    /\ Fails((aux.pc = "idle" \/ aux.i # user.i) /\ ~ClientWaits, "interface freed in use")
    /\ UNCHANGED <<level, msgs, hdl, phys, aux, client>>

\* The application closes: when it likes, and once it was told that the device is gone.
UserClose(i) ==
    Call /\ Others /\ MayCall /\ ifc[i].st \in {"IDLE", "READY", "ACTIVE"} /\ CloseBegin(i)
CloseTold(i) ==
    Others /\ MayCall /\ ifc[i].told /\ ifc[i].st # "free" /\ CloseBegin(i) /\ UNCHANGED outside

\* A volume in percent is computed from the range, which must have been read.
Ask(op, left, v, i, has) ==
    /\ Call /\ Others /\ MayCall /\ "ask" \in env /\ ifc[i].st \in {"READY", "ACTIVE"}
    /\ IF has THEN Request([CallOn(op, i, left) EXCEPT !.v = v]) ELSE UNCHANGED <<user, phys>>
    /\ Fails(has /\ op \in {"setvol", "getvol"} => ifc[i].range, "volume without a range")
    /\ UNCHANGED <<level, msgs, hdl, ifc, aux, client>>

\* All channels with the control are set, with a request for each; in dB nothing is
\* remembered, not after a volume in percent either ("db").
HasVolume(i) == dev.ifs[i].unit /\ dev.ifs[i].vol # {}
AskAll(op, v, i) == Ask(op, dev.ifs[i].vol, v, i, HasVolume(i))
SetVolume(i)   == \E v \in Volumes : AskAll("setvol", v, i)
SetVolumeDb(i) == (ifc[i].vol = 0 \/ "db" \in env) /\ \E v \in Volumes : AskAll("setdb", v, i)
SetMute(i) == Ask("other", dev.ifs[i].mute, 0, i, dev.ifs[i].unit /\ dev.ifs[i].mute # {})

\* Only the first channel is asked; the volume that was set last in percent is known.
GetVolume(i)   == Ask("getvol", {1}, 0, i, HasVolume(i) /\ ifc[i].vol = 0)
GetVolumeDb(i) == Ask("other", {1}, 0, i, HasVolume(i))
GetMute(i) == Ask("other", {1}, 0, i, dev.ifs[i].unit)

-----------------------------------------------------------------------------
(* The reading or writing task *)

MayStream == aux.pc = "idle" /\ (user.op = "none" \/ "two" \in env)

\* uac_host_device_read() waits for two transfers' worth of data, or for its time-out.
ReadBegin ==
    /\ Call /\ Others /\ MayStream /\ ifc[RX].st = "ACTIVE"
    /\ aux' = [NoAux EXCEPT !.pc = "read"]
    /\ UNCHANGED <<level, msgs, hdl, phys, ifc, user, client, crash>>

AuxStep == Others /\ (user.op = "none" \/ "two" \in env) /\ UNCHANGED outside

Read ==
    /\ AuxStep /\ aux.pc = "read"
    /\ LET b == ifc[RX].buf
       IN  /\ ifc' = [ifc EXCEPT ![RX].buf = IF b > 0 THEN b - 1 ELSE 0]
           /\ aux' = IF b > 0 /\ aux.got = 0 THEN [aux EXCEPT !.got = 1] ELSE NoAux
    /\ UNCHANGED <<level, msgs, hdl, phys, user, client, crash>>

\* uac_host_device_write() fills the ring buffer,
WriteBegin ==
    /\ Call /\ Others /\ MayStream /\ ifc[TX].st = "ACTIVE"
    /\ LET ok == ifc[TX].buf < BufSize
       IN  /\ ifc' = [ifc EXCEPT ![TX].buf = IF ok THEN @ + 1 ELSE @]
           /\ aux' = IF ok THEN [NoAux EXCEPT !.pc = "scan", !.i = TX] ELSE aux
    /\ UNCHANGED <<level, msgs, hdl, phys, user, client, crash>>

\* Bug: no transfer is taken from the free list.
WriteScan_None ==
    /\ AuxStep /\ aux.pc = "scan"
    /\ aux' = NoAux
    /\ UNCHANGED <<level, msgs, hdl, phys, ifc, user, client, crash>>

\* takes the transfers of the free list one by one while there is data,
WriteScan ==
    /\ AuxStep /\ aux.pc = "scan"
    /\ IF aux.k > XferNum THEN aux' = NoAux /\ ifc' = ifc
       ELSE LET take == ifc[TX].x[aux.k].list = "free" /\ ifc[TX].buf > 0 /\ ifc[TX].st = "ACTIVE"
            IN  /\ ifc' = IF take THEN [ifc EXCEPT ![TX].x[aux.k].list = "busy"] ELSE ifc
                /\ aux' = IF take THEN [aux EXCEPT !.pc = "submit"] ELSE [aux EXCEPT !.k = @ + 1]
    /\ Fails(Claimed(ifc[TX]), "freed list in write")
    /\ UNCHANGED <<level, msgs, hdl, phys, user, client>>

\* and submits each, which must still be there.
WriteSubmit ==
    /\ AuxStep /\ aux.pc = "submit"
    /\ ifc' = [ifc EXCEPT ![TX] = TxSubmitted(@, aux.k)]
    /\ aux' = [aux EXCEPT !.pc = "scan", !.k = @ + 1]
    /\ Fails(ifc[TX].x[aux.k].list = "busy", "NULL transfer in write")
    /\ UNCHANGED <<level, msgs, hdl, phys, user, client>>

-----------------------------------------------------------------------------
(* The driver's task: client_event_cb() *)

From(i) == IF \E j \in Ifc : j >= i /\ ifc[j].st # "free"
           THEN Min({j \in Ifc : j >= i /\ ifc[j].st # "free"}) ELSE 0

\* A device that is reported gone must be in the list.
Message ==
    /\ drv # "down" /\ msgs # <<>>
    /\ client.pc = "msgs" \/ (client.pc = "idle" /\ ~Pending)
    /\ msgs' = Tail(msgs)
    /\ IF Head(msgs) = "new"
       THEN LET open == bus = "present" /\ hdl = 0
            IN  /\ client' = [client EXCEPT !.pc = IF open THEN "new" ELSE "msgs"]
                /\ hdl' = IF open THEN plugs ELSE hdl
                /\ crash' = crash
       ELSE /\ hdl' = hdl /\ client' = [pc |-> "walk", i |-> RX, cur |-> From(RX)]
            /\ Fails(phys.st = "listed", "assert(uac_device)")
    /\ UNCHANGED <<level, phys, ifc, user, aux, outside>>

\* _uac_host_device_connected() has looked at the device, and announces its streams.
NewSeen ==
    /\ client.pc = "new" /\ client' = [client EXCEPT !.pc = "msgs"] /\ hdl' = 0
    /\ Fails(dev.check = "none", dev.check)
    /\ UNCHANGED <<level, msgs, phys, ifc, user, aux, outside>>

\* _uac_host_device_disconnected(): one interface of the list; the next one is remembered.
Walk ==
    /\ client.pc = "walk" /\ client.cur # 0
    /\ LET i == client.cur
       IN  /\ client' = [pc |-> "lock", i |-> i, cur |-> From(i + 1)]
           /\ Fails(ifc[i].st # "free" /\ phys.st = "listed", "walk over a freed interface")
           /\ ifc' = [ifc EXCEPT ![i].wait = TRUE]
    /\ UNCHANGED <<level, msgs, hdl, phys, user, aux, outside>>

\* Bug: the flag is not cleared, and the user's close leaves the interface alone.
Shut_Waits(i, y) == IF y.cb THEN [Released(y) EXCEPT !.told = TRUE] ELSE NoIfc

\* uac_host_interface_shutdown() leaves the interface to the user's callback, or to
\* uac_host_device_close().
Shut(i, y) == IF y.cb THEN [Released(y) EXCEPT !.wait = FALSE, !.told = TRUE] ELSE NoIfc

\* Nobody reads from or writes to the interface, or is still opening it.
Unused(i) == (user.op = "open" => user.i # i) /\ (aux.pc = "idle" \/ aux.i # i)

\* uac_host_device_close() and uac_host_interface_shutdown(), which both fail if the lock
\* is not given back or a transfer was not called back.
WalkShut ==
    /\ client.pc = "lock" /\ (Locked(client.i) => user.pc = "ctl" /\ phys.ctl.urb \in Done)
    /\ LET i == client.i
           y == IF ifc[i].st = "ACTIVE" THEN Suspended(ifc[i]) ELSE ifc[i]
           ok == ~Locked(i) /\ Idle(y)
       IN  /\ ifc' = [ifc EXCEPT ![i] = IF ok THEN Shut(i, y) ELSE IF Locked(i) THEN @ ELSE y]
           /\ IF ok /\ ~y.cb THEN PhysClosed(TRUE) ELSE UNCHANGED <<phys, hdl>>
           /\ client' = [client EXCEPT !.pc = IF ~ok THEN "msgs" ELSE IF y.cb THEN "cb" ELSE "walk"]
           /\ Fails(ok /\ ~y.cb => phys.ctl.urb = "idle" /\ Counted < 255 /\ Unused(i),
                    "closed more often than opened, or in use")
    /\ UNCHANGED <<level, msgs, user, aux, outside>>

\* The user's callback closes the interface, or leaves that to its task.
Callback ==
    /\ client.pc = "cb" /\ ("incb" \in env => ~Locked(client.i))
    /\ client' = [client EXCEPT !.pc = "walk"]
    /\ IF "incb" \in env /\ ifc[client.i].st # "free" /\ ~ifc[client.i].wait
       THEN /\ ifc' = [ifc EXCEPT ![client.i] = NoIfc] /\ PhysClosed(Closable)
            /\ Fails(Unused(client.i), "interface freed in use")
       ELSE UNCHANGED <<ifc, phys, hdl, crash>>
    /\ UNCHANGED <<level, msgs, user, aux, outside>>

MsgsEnd ==
    /\ \/ client.pc = "walk" /\ client.cur = 0 /\ client' = [client EXCEPT !.pc = "msgs"]
       \/ client.pc = "msgs" /\ msgs = <<>> /\ client' = [pc |-> "idle", i |-> RX, cur |-> 0]
    /\ UNCHANGED <<level, msgs, hdl, phys, ifc, user, aux, crash, outside>>

\* uac_host_uninstall(), and the end of uac_host_handle_events()
Uninstall ==
    /\ drv = "up" /\ Others /\ MayCall /\ aux.pc = "idle" /\ calls = MaxCalls
    /\ phys.st = "none" /\ (\A i \in Ifc : ifc[i].st = "free") /\ drv' = "ending"
    /\ UNCHANGED <<dev, level, bus, plugs, msgs, hdl, phys, ifc, user, aux, client, calls, crash, env>>

TaskEnds ==
    /\ drv = "ending" /\ client.pc = "idle" /\ drv' = "down" /\ Fails(hdl = 0, "deregister")
    /\ UNCHANGED <<dev, level, bus, plugs, msgs, hdl, phys, ifc, user, aux, client, calls, env>>

-----------------------------------------------------------------------------
(* The USB Host Library and the device *)

Calm == UNCHANGED <<dev, drv, user, aux, client, calls, crash, env>>

Plug ==
    /\ bus # "present" /\ hdl = 0 /\ msgs = <<>> /\ plugs < MaxPlugs /\ drv = "up"
    /\ plugs' = plugs + 1 /\ bus' = "present" /\ msgs' = Append(msgs, "new")
    /\ level' = [i \in Ifc |-> [ch \in Channel |-> 0]] /\ UNCHANGED <<hdl, phys, ifc>> /\ Calm

\* Another device is plugged in.
PlugOther ==
    /\ Call /\ "other" \in env /\ hdl # 0 /\ msgs' = Append(msgs, "new")
    /\ UNCHANGED <<level, hdl, phys, ifc, user, aux, client, crash>>

\* The driver survives a disconnection unless it opens or looks at the device ("early"),
\* closes it ("closing"), writes to it ("writing"), or has messages in hand ("loop"); and
\* where its task frees the interface, at once or in the callback, unless somebody reads
\* from it or waits for its volume range.
AtOnce == {"nocb", "incb"} \cap env # {}
Unplug ==
    /\ bus = "present"
    /\ user.op # "open" \/ (user.pc \in {"ctl", "act"} /\ ~AtOnce) \/ "early" \in env
    /\ client.pc # "new" \/ "early" \in env
    /\ user.pc \notin {"final", "delay"} \/ "closing" \in env
    /\ aux.pc = "idle" \/ (aux.pc = "read" /\ ~AtOnce) \/ "writing" \in env
    /\ client.pc = "idle" \/ {"loop", "early"} \cap env # {}
    /\ bus' = "gone" /\ msgs' = IF hdl # 0 THEN Append(msgs, "gone") ELSE msgs
    /\ ifc' = [i \in Ifc |-> Flushed(ifc[i])]
    /\ phys' = [phys EXCEPT !.ctl.urb = IF @ = "flight" THEN "doneno" ELSE @]
    /\ UNCHANGED <<level, plugs, hdl>> /\ Calm

\* A transfer is completed, well or not.
Complete(i, k) ==
    /\ bus = "present" /\ ifc[i].x[k].urb = "flight"
    /\ \E ok \in {TRUE, "error" \notin env} :
          ifc' = [ifc EXCEPT ![i].x[k].urb = IF ok THEN "doneok" ELSE "doneerr"]
    /\ UNCHANGED <<level, bus, plugs, msgs, hdl, phys>> /\ Calm

Answer ==
    /\ bus = "present" /\ phys.ctl.urb = "flight"
    /\ \E ok \in {TRUE, "error" \notin env} :
          phys' = [phys EXCEPT !.ctl.urb = IF ok THEN "doneok" ELSE "doneerr"]
    /\ UNCHANGED <<level, bus, plugs, msgs, hdl, ifc>> /\ Calm

-----------------------------------------------------------------------------
Client == CtlCb \/ Message \/ NewSeen \/ Walk \/ WalkShut \/ Callback \/ MsgsEnd \/ TaskEnds
          \/ \E i \in Ifc : \E k \in Xfer : XferCb(i, k)
Task == RequestEnd \/ OpenAdd \/ OpenInsert \/ OpenCount \/ RequestDone \/ ResumeAct
        \/ SuspendAct \/ ReleaseAct \/ CloseFinal \/ CloseDelay
Aux  == Read \/ WriteScan \/ WriteSubmit
Told == \E i \in Ifc : CloseTold(i)
User == ReadBegin \/ WriteBegin \/ Uninstall
        \/ \E i \in Ifc : \/ OpenBegin(i) \/ Start(i) \/ Resume(i) \/ Suspend(i) \/ Stop(i)
                          \/ UserClose(i) \/ OpenByIds(i)
                          \/ SetVolume(i) \/ SetVolumeDb(i) \/ SetMute(i)
                          \/ GetVolume(i) \/ GetVolumeDb(i) \/ GetMute(i)
Bus  == Plug \/ PlugOther \/ Unplug \/ Answer \/ \E i \in Ifc : \E k \in Xfer : Complete(i, k)

Init ==
    /\ env \in Environments
    /\ \E kind \in Kinds(env) : \E want \in Wants(kind) :
          dev = Reading(kind, want)
    /\ level = [i \in Ifc |-> [ch \in Channel |-> 0]]
    /\ drv = "up" /\ bus = "none" /\ plugs = 0 /\ msgs = <<>> /\ hdl = 0
    /\ phys = NoPhys /\ ifc = [i \in Ifc |-> NoIfc] /\ user = NoCall /\ aux = NoAux
    /\ client = [pc |-> "idle", i |-> RX, cur |-> 0]
    /\ calls = 0 /\ crash = "none"

Next == Client \/ Task \/ Aux \/ Told \/ User \/ Bus

\* Every task runs, and the application closes what it was told is gone.
Spec == Init /\ [][Next]_vars /\ WF_vars(Client) /\ WF_vars(Task) /\ WF_vars(Aux) /\ WF_vars(Told)
             /\ WF_vars(Answer)

-----------------------------------------------------------------------------
(* What the driver relies on *)

\* The application is one task at a time, its calls do not meet a disconnection where they
\* cannot (see Unplug), the device answers in time, and its address is that of a device that
\* is there; a volume in percent needs a range that was read, and is not changed in dB; and
\* of two devices none is opened by its identifiers, nor leaves while messages are handled.
IsTame(e) ==
    /\ e \cap {"race", "two", "early", "closing", "writing", "slow", "stale"} = {}
    /\ \A both \in {{"ask", "error"}, {"ask", "db"}, {"ids", "other"}, {"loop", "other"}} : ~(both \subseteq e)

\* What is read of a device is right, and no channel's volume is controlled whose range is
\* not read.
IsReadWell(d, e) ==
    /\ d.check = "none" /\ d.announced = d.streams
    /\ \A i \in Ifc : LET s == d.ifs[i]
                      IN  /\ {s.range, s.freq} \subseteq BOOLEAN /\ {s.vol, s.mute} \subseteq SUBSET Channel
                          /\ s.dir # "none" => s.open = "none" /\ s.start = "none" /\ s.right
                          /\ "ask" \in e /\ s.unit /\ s.vol # {} => s.range

Tamed ==
    \A e \in Environments :
        IsTame(e) /\ \A kind \in Kinds(e) : \A want \in Wants(kind) : IsReadWell(Reading(kind, want), e)

-----------------------------------------------------------------------------
(* Properties *)

\* No assertion fails, nothing is used after it was freed or before it was made, and a
\* request reads the result of its own transfer.
NoAbuse == crash = "none"

\* opened_cnt counts the interfaces of the device, and the client has the device open
\* while there is one.
CountIsExact ==
    /\ user.pc \notin {"count", "delay"} => phys.cnt = Cardinality({i \in Ifc : ifc[i].st # "free"})
    /\ phys.st = "listed" => hdl # 0
    /\ hdl # 0 => phys.st = "listed" \/ client.pc = "new" \/ user.pc = "add"

\* Every stream is announced, with the direction that its endpoint has; if a setting suits
\* the application then such a one is used, and its feature unit is one that its data comes
\* through, if there is one.  (What was read does not change.)
DescriptorsRead ==
    bus = "none" =>
        /\ dev.announced = dev.streams
        /\ \A i \in Ifc : dev.ifs[i].dir # "none" /\ dev.ifs[i].open = "none" => dev.ifs[i].right

\* The volume that the driver remembers is that of all channels of the device.
VolumeIsKnown ==
    \A i \in Ifc :
        Claimed(ifc[i]) /\ ifc[i].vol # 0 /\ bus = "present" /\ ~(user.op \in {"setvol", "setdb"} /\ user.i = i)
            => \A ch \in dev.ifs[i].vol : level[i][ch] = ifc[i].vol

Consistent == TypeOK /\ NoAbuse /\ CountIsExact /\ DescriptorsRead /\ VolumeIsKnown

Quiet == ClientIdle /\ user.op = "none" /\ aux.pc = "idle" /\ bus = "present"

\* While nobody works on a stream, each of an active speaker's transfers is in flight or
\* free, and one is in flight while there is data; an active microphone has all of them in
\* flight, unless an error was reported; and a stream that is ready can be resumed.
KeepsStreaming ==
    Quiet => \A i \in Ifc :
        LET x == ifc[i].x
        IN  /\ ifc[i].st # "SUSPENDING"
            /\ ifc[i].st = "ACTIVE" /\ i = RX /\ ~ifc[i].failed => \A k \in Xfer : x[k].urb = "flight"
            /\ ifc[i].st = "ACTIVE" /\ i = TX =>
                  /\ \A k \in Xfer : (x[k].list = "busy") = (x[k].urb = "flight")
                  /\ ifc[i].buf > 0 /\ ~ifc[i].failed => \E k \in Xfer : x[k].urb = "flight"
            /\ ifc[i].st = "READY" => \A k \in Xfer : x[k] = [list |-> "free", urb |-> "idle"]

\* When the device is gone its interfaces are closed, and so is the USB device itself, so
\* that the next one can be enumerated.
GoneIsClosed == bus = "gone" ~> hdl = 0 /\ \A i \in Ifc : ifc[i].st = "free"
=============================================================================
