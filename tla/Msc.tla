--------------------------------- MODULE Msc ---------------------------------
(***************************************************************************)
(* The host's mass storage driver (usb_host_msc): one disk that comes and  *)
(* goes, the client's task, which handles events and calls the transfers'  *)
(* callbacks, and the tasks that execute SCSI commands.  Calls wait for    *)
(* each other's ends, so every task has a stack of frames; an action       *)
(* continues the frame that a call has returned to.                        *)
(***************************************************************************)
EXTENDS Sequences, Naturals

-----------------------------------------------------------------------------
(***************************************************************************)
(* The Bulk-Only Transport as the disk sees it: a disk takes a command     *)
(* block (CBW), gives or takes data, and gives a status (CSW).  Tags are   *)
(* abstracted to whose command it is: a task's present one, or an old one. *)
(***************************************************************************)

CONSTANT Task       \* the tasks that execute commands

Cmd    == {"inquiry", "ready", "sense", "capacity", "read", "write"}
Dir(c) == CASE c = "ready" -> "none" [] c = "write" -> "out" [] OTHER -> "in"
Owner  == Task \cup {"old"}
NoCbw  == [own |-> "old", dir |-> "none"]
Cbw    == [own : Owner, dir : {"none", "in", "out"}]

\* ph: what the disk expects or gives next.  bad: the command failed.  halt: endpoints that
\* answer with STALL.  fifo: a command block that waits in the endpoint's buffer.
DiskType == [ph : {"cbw", "data", "csw"}, cmd : Cbw, bad : BOOLEAN, halt : SUBSET {"in", "out"},
             queued : BOOLEAN, fifo : Cbw]
NewDisk  == [ph |-> "cbw", cmd |-> NoCbw, bad |-> FALSE, halt |-> {}, queued |-> FALSE, fifo |-> NoCbw]

\* usb_transfer_t: what is sent or asked for, the status, and what was received.
XferType == [st : {"none", "idle", "flight", "done", "freed"}, ep : {"in", "out", "ctl"},
             what : {"cbw", "data", "csw", "reset", "in", "out"}, cbw : Cbw,
             res : {"ok", "stall", "fail"}, got : {"none", "data", "csw"}, own : Owner, bad : BOOLEAN]
NoXfer   == [st |-> "none", ep |-> "ctl", what |-> "reset", cbw |-> NoCbw, res |-> "ok",
             got |-> "none", own |-> "old", bad |-> FALSE]

\* cbw_tag is incremented: what is left of the task's last command is now an old one.
AgedCbw(b, t) == IF b.own = t THEN [b EXCEPT !.own = "old"] ELSE b
Aged(d, t) == [d EXCEPT !.cmd = AgedCbw(@, t), !.fifo = AgedCbw(@, t)]

Taken(d, b) == [d EXCEPT !.ph = IF b.dir = "none" THEN "csw" ELSE "data", !.cmd = b, !.bad = FALSE]
\* A status was given: a command block that waited is taken.
Idle(d) == IF d.queued THEN [Taken(d, d.fifo) EXCEPT !.queued = FALSE, !.fifo = NoCbw]
           ELSE [d EXCEPT !.ph = "cbw", !.cmd = NoCbw, !.bad = FALSE]

Ends(x, r)         == [x EXCEPT !.st = "done", !.res = r]
Gives(x, g, o, b)  == [Ends(x, "ok") EXCEPT !.got = g, !.own = o, !.bad = b]
Answer(d, x)       == {[disk |-> d, xfer |-> x]}

\* An OUT transfer: a command, its data, or whatever the disk takes for them; not meaningful
\* as a command, it halts both endpoints.  f: a fault.
OutAnswer(d, x, f, buffers) ==
    IF "out" \in d.halt THEN Answer(d, Ends(x, "stall"))
    ELSE CASE f = "error" -> Answer(d, Ends(x, "fail"))
           [] f = "stall" /\ d.ph = "data" /\ d.cmd.dir = "out" ->
                 Answer([d EXCEPT !.halt = @ \cup {"out"}, !.ph = "csw", !.bad = TRUE], Ends(x, "stall"))
           [] (f = "stall" \/ (f = "no" /\ x.what = "data")) /\ d.ph = "cbw" ->
                 Answer([d EXCEPT !.halt = {"in", "out"}], Ends(x, "stall"))
           [] f = "no" /\ d.ph = "cbw" /\ x.what = "cbw" -> Answer(Taken(d, x.cbw), Ends(x, "ok"))
           [] f = "no" /\ d.ph = "data" /\ d.cmd.dir = "out" ->
                 Answer([d EXCEPT !.ph = "csw", !.bad = x.what # "data" \/ d.cmd.own # x.cbw.own],
                        Ends(x, "ok"))
           [] f = "no" /\ d.ph # "cbw" /\ d.cmd.dir # "out" /\ x.what = "cbw" /\ buffers /\ ~d.queued ->
                 Answer([d EXCEPT !.queued = TRUE, !.fifo = x.cbw], Ends(x, "ok"))
           [] OTHER -> {}

\* An IN transfer: data or the status.
InAnswer(d, x, f) ==
    IF "in" \in d.halt THEN Answer(d, Ends(x, "stall"))
    ELSE CASE f = "error" -> Answer(d, Ends(x, "fail"))
           [] f = "stall" /\ d.ph = "data" /\ d.cmd.dir = "in" ->
                 Answer([d EXCEPT !.halt = @ \cup {"in"}, !.ph = "csw", !.bad = TRUE], Ends(x, "stall"))
           [] f = "stall" /\ d.ph = "csw" -> Answer([d EXCEPT !.halt = @ \cup {"in"}], Ends(x, "stall"))
           [] f = "no" /\ d.ph = "data" /\ d.cmd.dir = "in" ->
                 Answer([d EXCEPT !.ph = "csw"], Gives(x, "data", d.cmd.own, FALSE))
           [] f \in {"no", "failed"} /\ d.ph = "csw" ->
                 Answer(Idle(d), Gives(x, "csw", d.cmd.own, d.bad \/ f = "failed"))
           [] OTHER -> {}

\* Bulk-Only Mass Storage Reset leaves the endpoints halted; CLEAR_FEATURE(ENDPOINT_HALT).
CtlAnswer(d, x, f) ==
    CASE f \in {"error", "stall"} -> Answer(d, Ends(x, "fail"))
      [] f = "no" /\ x.what = "reset" -> Answer([NewDisk EXCEPT !.halt = d.halt], Ends(x, "ok"))
      [] f = "no" /\ x.what # "reset" -> Answer([d EXCEPT !.halt = @ \ {x.what}], Ends(x, "ok"))
      [] OTHER -> {}

\* How the disk may answer a transfer; while there is no answer it does not acknowledge it.
Answers(d, x, f, buffers) ==
    CASE x.ep = "out" -> OutAnswer(d, x, f, buffers)
      [] x.ep = "in"  -> InAnswer(d, x, f)
      [] x.ep = "ctl" -> CtlAnswer(d, x, f)

-----------------------------------------------------------------------------

CONSTANTS
    Trials,         \* trials of msc_wait_for_ready_state()
    StackMax,       \* frames that fit on a task's stack
    MaxPlugs, MaxCalls, MaxFaults,      \* bounds
    Environments    \* what may happen, see env

ASSUME MscAssumption == {"app", "client", "other"} \subseteq Task /\ {Trials, StackMax, MaxPlugs, MaxCalls, MaxFaults} \subseteq Nat

VARIABLES
    drv,            \* s_msc_driver and its task: up, ending, down
    bus, plugs,     \* the disk: none, present, gone; which one
    susp,           \* the root port is suspended
    msgs,           \* the client's event messages
    disk,           \* the disk's side of the transport
    pipe,           \* the host's bulk endpoints: active or halted
    dev,            \* msc_device_t
    xfer,           \* its only transfer
    tsk,            \* the tasks' calls
    client,         \* the client's task
    app,            \* what the application knows
    calls, faults, crash, env

vars == <<drv, bus, plugs, susp, msgs, disk, pipe, dev, xfer, tsk, client, app, calls, faults, crash, env>>
outside == <<drv, bus, plugs, calls, faults, env>>

NoDev   == [live |-> FALSE, listed |-> FALSE, open |-> FALSE, claimed |-> FALSE, sem |-> "none"]
NoCall  == [op |-> "none", pc |-> "idle", stk |-> <<>>, ret |-> "ok"]
NoApp   == [news |-> FALSE, told |-> FALSE, given |-> FALSE, mounted |-> FALSE, last |-> "ok"]
Frame(at, c) == [at |-> at, cmd |-> c, n |-> 0, good |-> TRUE]

TypeOK ==
    /\ drv \in {"up", "ending", "down"} /\ bus \in {"none", "present", "gone"} /\ plugs \in 0..MaxPlugs
    /\ susp \in BOOLEAN /\ msgs \in Seq({"new", "gone", "susp", "res"})
    /\ disk \in DiskType /\ pipe \in [{"in", "out"} -> {"active", "halted"}] /\ xfer \in XferType
    /\ dev \in [live : BOOLEAN, listed : BOOLEAN, open : BOOLEAN, claimed : BOOLEAN,
                sem : {"none", "empty", "given"}]
    /\ \A t \in Task :
          /\ tsk[t].op \in {"none", "install", "uninstall", "rw", "recover", "mount", "unmount"}
          /\ tsk[t].pc \in {"idle", "open", "claim", "wait", "flush", "forever", "ret",
                            "remove", "release", "close", "free"}
          /\ tsk[t].ret \in {"ok", "stall", "fail"} /\ Len(tsk[t].stk) <= StackMax
    /\ client \in {"idle", "new", "blocked"}
    /\ app \in [news : BOOLEAN, told : BOOLEAN, given : BOOLEAN, mounted : BOOLEAN, last : {"ok", "fail"}]
    /\ calls \in 0..MaxCalls /\ faults \in 0..MaxFaults

Fails(ok, name) == crash' = IF ok \/ crash # "none" THEN crash ELSE name

\* The tasks of the application run while the client's task has nothing to do or waits for a
\* call that it makes itself; on two cores ("race") at any time.
ClientIdle == client = "idle" /\ msgs = <<>> /\ xfer.st # "done"
Runs(t) == t = "client" \/ ClientIdle \/ client = "blocked" \/ "race" \in env

\* usb_host_transfer_submit() resumes a suspended root port, whose pipes are cleared then.
Woken(wakes) == IF wakes /\ susp THEN susp' = FALSE /\ msgs' = Append(msgs, "res")
                ELSE UNCHANGED <<susp, msgs>>

-----------------------------------------------------------------------------
(* msc_bulk_transfer() and msc_control_transfer() *)

Top(t)      == Head(tsk[t].stk)
Callers(t)  == Tail(tsk[t].stk)
Goto(t, at) == <<[Top(t) EXCEPT !.at = at]>> \o Callers(t)
Ok(t)       == tsk[t].ret = "ok"
Calls(t, stk, pc, r) == tsk' = [tsk EXCEPT ![t].stk = stk, ![t].pc = pc, ![t].ret = r]

\* A call that has returned to frame "at" goes on, and may itself return r.
Back(t, at) == /\ tsk[t].pc = "ret" /\ tsk[t].stk # <<>> /\ Top(t).at = at
               /\ Runs(t) /\ UNCHANGED <<outside, dev, client>>
Return(t, r) == Calls(t, Callers(t), "ret", r) /\ UNCHANGED <<susp, msgs, disk, pipe, xfer, crash, app>>

\* The transfer is filled in, used by others or not, and submitted, or that fails at once.  A
\* buffer that is too small is replaced; there may be no memory.
Transfer(t, stk, ep, what) ==
    LET lost == "nomem" \in env /\ what = "data"
        ok == bus = "present" /\ xfer.st = "idle" /\ ~lost /\ (ep = "ctl" \/ (dev.claimed /\ pipe'[ep] = "active"))
    IN  /\ Fails(dev.live /\ xfer.st = "idle" /\ Len(stk) <= StackMax, "transfer in use, freed, or stack overflow")
        /\ xfer' = IF ok THEN [NoXfer EXCEPT !.st = "flight", !.ep = ep, !.what = what,
                                  !.cbw = [own |-> t, dir |-> Dir(Head(stk).cmd)]]
                   ELSE IF lost THEN [xfer EXCEPT !.st = "freed"] ELSE xfer
        /\ disk' = IF what = "cbw" THEN Aged(disk, t) ELSE disk
        /\ Calls(t, stk, IF ok THEN "wait" ELSE "ret", "fail")
        /\ Woken(ok) /\ UNCHANGED app

Submit(t, stk, ep, what) == UNCHANGED pipe /\ Transfer(t, stk, ep, what)

\* wait_for_transfer_done(): the result that is read must be this transfer's.
WaitEnd(t) ==
    /\ tsk[t].pc \in {"wait", "forever"} /\ dev.sem = "given" /\ Runs(t)
    /\ tsk' = [tsk EXCEPT ![t].pc = "ret", ![t].ret = IF tsk[t].pc = "wait" THEN xfer.res ELSE "fail"]
    /\ dev' = [dev EXCEPT !.sem = "empty"]
    /\ Fails(xfer.st = "idle" /\ xfer.cbw.own = t, "result of another transfer")
    /\ UNCHANGED <<susp, msgs, disk, pipe, xfer, client, app, outside>>

\* 5 s are over: the disk does not acknowledge the transfer, or is slow, or the task that
\* calls the callbacks waits itself.
Unacknowledged == bus = "present" /\ ~susp /\ xfer.st = "flight" /\ Answers(disk, xfer, "no", "fifo" \in env) = {}

TimeOut(t) ==
    /\ tsk[t].pc = "wait" /\ dev.sem # "given" /\ Runs(t)
    /\ tsk' = [tsk EXCEPT ![t].pc = "flush"]
    /\ \/ (Unacknowledged \/ client = "blocked") /\ UNCHANGED faults
       \/ "slow" \in env /\ xfer.st = "flight" /\ faults < MaxFaults /\ faults' = faults + 1
    /\ UNCHANGED <<drv, bus, plugs, susp, msgs, disk, pipe, dev, xfer, client, app, calls, crash, env>>

\* The endpoint is halted, flushed and cleared, which endpoint 0 refuses.
Flush(t) ==
    /\ tsk[t].pc = "flush" /\ Runs(t)
    /\ tsk' = [tsk EXCEPT ![t].pc = "forever"]
    /\ IF xfer.ep = "ctl" \/ ~dev.claimed THEN UNCHANGED <<xfer, pipe>>
       ELSE /\ xfer' = IF xfer.st = "flight" THEN Ends(xfer, "fail") ELSE xfer
            /\ pipe' = [pipe EXCEPT ![xfer.ep] = IF bus = "present" THEN "active" ELSE "halted"]
    /\ UNCHANGED <<susp, msgs, disk, dev, client, app, crash, outside>>

\* transfer_callback(), called by the client's task
TransferCallback ==
    /\ drv # "down" /\ client = "idle" /\ xfer.st = "done"
    /\ xfer' = [xfer EXCEPT !.st = "idle"] /\ dev' = [dev EXCEPT !.sem = "given"]
    /\ Fails(dev.live /\ dev.sem = "empty", "callback of a device that is freed")
    /\ UNCHANGED <<susp, msgs, disk, pipe, tsk, client, app, outside>>

\* clear_feature()
ClearFeature(t, stk, ep) ==
    /\ pipe' = [pipe EXCEPT ![ep] = IF bus = "present" THEN "active" ELSE "halted"]
    /\ IF bus = "present" THEN Transfer(t, stk, "ctl", ep)
       ELSE Calls(t, stk, "ret", "fail") /\ UNCHANGED <<susp, msgs, disk, xfer, crash, app>>

-----------------------------------------------------------------------------
(* bot_execute_command(): frames cbw, data, csw, clear, csw2, recovered *)

Scsi(t, stk, c) == Submit(t, <<Frame("cbw", c), Frame("scsi", c)>> \o stk, "out", "cbw")

CbwEnd(t) ==
    /\ Back(t, "cbw")
    /\ CASE ~Ok(t) -> Return(t, "fail")
         [] Ok(t) /\ Dir(Top(t).cmd) = "none" -> Submit(t, Goto(t, "csw"), "in", "csw")
         [] Ok(t) /\ Dir(Top(t).cmd) # "none" -> Submit(t, Goto(t, "data"), Dir(Top(t).cmd), "data")

\* An error of the data stage ends the command.  good: these are the command's own data.
OwnData(t) == Dir(Top(t).cmd) = "in" => xfer.got = "data" /\ xfer.own = t
DataEnd(t) ==
    /\ Back(t, "data")
    /\ IF ~Ok(t) THEN Return(t, "fail")
       ELSE Submit(t, <<[Top(t) EXCEPT !.at = "csw", !.good = OwnData(t)]>> \o Callers(t), "in", "csw")

\* check_csw(): signature, tag, residue and status
CswOk_AnyTag(t) == xfer.got = "csw" /\ ~xfer.bad    \* Bug: the tag is not compared
CswOk(t) == xfer.got = "csw" /\ xfer.own = t /\ ~xfer.bad

CswEnd(t) ==
    /\ Back(t, "csw")
    /\ CASE tsk[t].ret = "fail" -> Return(t, "fail")
         [] tsk[t].ret = "stall" -> ClearFeature(t, Goto(t, "clear"), "in")
         [] Ok(t) -> /\ Calls(t, Callers(t), "ret", IF CswOk(t) THEN "ok" ELSE "fail")
                     /\ Fails(CswOk(t) => Top(t).good, "data of another command")
                     /\ UNCHANGED <<susp, msgs, disk, pipe, xfer, app>>

ClearEnd(t) ==
    /\ Back(t, "clear")
    /\ IF Ok(t) THEN Submit(t, Goto(t, "csw2"), "in", "csw") ELSE Return(t, "fail")

\* The status is read again; if that fails, there is a reset recovery.
Recovery(t, stk) == Submit(t, <<Frame("reset", "ready")>> \o stk, "ctl", "reset")

Csw2End(t) ==
    /\ Back(t, "csw2")
    /\ IF Ok(t) THEN Return(t, IF CswOk(t) THEN "ok" ELSE "fail") ELSE Recovery(t, Goto(t, "recovered"))

RecoveredEnd(t) == Back(t, "recovered") /\ Return(t, "fail")

\* The scsi_cmd_*() functions ask for the sense data of a command that failed.
ScsiEnd(t) ==
    /\ Back(t, "scsi")
    /\ IF Ok(t) \/ Top(t).cmd = "sense" THEN Return(t, tsk[t].ret) ELSE Scsi(t, Goto(t, "sensed"), "sense")

SensedEnd(t) == Back(t, "sensed") /\ Return(t, "fail")

-----------------------------------------------------------------------------
(* msc_host_reset_recovery() and msc_wait_for_ready_state() *)

WaitReady(t, stk, n) == Scsi(t, <<[Frame("trial", "ready") EXCEPT !.n = n]>> \o stk, "ready")

ResetEnd(t) ==
    /\ Back(t, "reset")
    /\ IF Ok(t) THEN ClearFeature(t, Goto(t, "rin"), "in") ELSE Return(t, "fail")

ResetInEnd_Only(t) == Back(t, "rin") /\ WaitReady(t, Callers(t), Trials)  \* Bug: the OUT endpoint is forgotten
ResetInEnd(t)  == Back(t, "rin") /\ ClearFeature(t, Goto(t, "rout"), "out")
ResetOutEnd(t) == Back(t, "rout") /\ WaitReady(t, Callers(t), Trials)

TrialEnd(t) ==
    /\ Back(t, "trial")
    /\ IF Ok(t) THEN Return(t, "ok") ELSE Scsi(t, Goto(t, "key"), "sense")

\* Another trial, unless the sense key says that the disk will not become ready.
KeyEnd(t) ==
    /\ Back(t, "key")
    /\ \E again \in {TRUE, "key" \notin env} :
          IF Ok(t) /\ again /\ Top(t).n > 0 THEN WaitReady(t, Callers(t), Top(t).n - 1) ELSE Return(t, "fail")

-----------------------------------------------------------------------------
(* The application's calls *)

Call == drv = "up" /\ calls < MaxCalls /\ calls' = calls + 1 /\ UNCHANGED <<drv, bus, plugs, faults, env>>
At(t, pc) == tsk[t].pc = pc /\ Runs(t) /\ UNCHANGED outside
Now(t, pc) == tsk' = [tsk EXCEPT ![t].pc = pc]
AppIdle == tsk["app"].op = "none"
Begins(t, op, stk) == tsk' = [tsk EXCEPT ![t] = [op |-> op, pc |-> "ret", stk |-> stk, ret |-> "ok"]]
StartEnd(t) == Back(t, "start") /\ Scsi(t, Callers(t), Top(t).cmd)

\* msc_host_install_device(): the device is listed before it is opened.
Install(t) ==
    /\ tsk' = [tsk EXCEPT ![t] = [NoCall EXCEPT !.op = "install", !.pc = "open"]]
    /\ dev' = [dev EXCEPT !.live = TRUE, !.listed = TRUE]
    /\ app' = [app EXCEPT !.news = FALSE]

AppInstalls ==
    /\ Call /\ Runs("app") /\ AppIdle /\ app.news /\ ~app.told /\ ~dev.live /\ client # "blocked"
    /\ Install("app") /\ UNCHANGED <<susp, msgs, disk, pipe, xfer, client, crash>>

OpenDevice(t) ==
    /\ At(t, "open") /\ dev' = [dev EXCEPT !.open = bus = "present", !.sem = "empty"]
    /\ tsk' = [tsk EXCEPT ![t].pc = IF bus = "present" THEN "claim" ELSE "remove"]
    /\ UNCHANGED <<susp, msgs, disk, pipe, xfer, client, app, crash>>

ClaimInterface(t) ==
    /\ At(t, "claim") /\ dev' = [dev EXCEPT !.claimed = bus = "present"]
    /\ xfer' = [NoXfer EXCEPT !.st = "idle"] /\ pipe' = [ep \in {"in", "out"} |-> "active"]
    /\ IF bus = "present" THEN Calls(t, <<Frame("start", "inquiry"), Frame("inquiry", "inquiry")>>, "ret", "ok") ELSE Now(t, "remove")
    /\ UNCHANGED <<susp, msgs, disk, client, app, crash>>

\* The commands of the installation, one after the other.
InstallEnd(t) ==
    /\ \E at \in {"inquiry", "ready", "capacity"} : Back(t, at)
    /\ IF ~Ok(t) THEN Calls(t, <<>>, "remove", "fail") /\ UNCHANGED <<susp, msgs, disk, pipe, xfer, crash, app>>
       ELSE CASE Top(t).at = "inquiry" -> WaitReady(t, <<Frame("ready", "ready")>>, Trials)
              [] Top(t).at = "ready" -> Scsi(t, <<Frame("capacity", "capacity")>>, "capacity")
              [] Top(t).at = "capacity" ->
                    /\ tsk' = [tsk EXCEPT ![t] = NoCall]
                    /\ app' = [app EXCEPT !.given = TRUE, !.last = "ok"]
                    /\ UNCHANGED <<susp, msgs, disk, pipe, xfer, crash>>

\* msc_deinit_device(): everything is tried after a failed installation (op = "install"); else
\* the first failure ends it, with the device neither listed nor closed.
Busy(t) == tsk[t].pc \in {"wait", "flush", "forever"}

Remove(t) ==
    /\ At(t, "remove") /\ Now(t, "release") /\ dev' = [dev EXCEPT !.listed = FALSE, !.sem = "none"]
    /\ Fails(dev.listed /\ ~\E u \in Task : Busy(u), "removed twice or in use")
    /\ UNCHANGED <<susp, msgs, disk, pipe, xfer, client, app>>

\* Bug: the first failure ends it after a failed installation, too.
Release_Checked(t) ==
    LET ok == dev.claimed /\ xfer.st \notin {"flight", "done"}
    IN  /\ At(t, "release") /\ Fails(drv = "up", "driver is freed")
        /\ dev' = [dev EXCEPT !.claimed = @ /\ ~ok]
        /\ tsk' = [tsk EXCEPT ![t] = IF ok THEN [@ EXCEPT !.pc = "close"] ELSE NoCall]
        /\ app' = IF ok THEN app ELSE [app EXCEPT !.given = FALSE, !.told = FALSE]
        /\ UNCHANGED <<susp, msgs, disk, pipe, xfer, client>>

Release(t) ==
    LET ok == dev.claimed /\ xfer.st \notin {"flight", "done"}
    IN  /\ At(t, "release") /\ Fails(drv = "up", "driver is freed")
        /\ dev' = [dev EXCEPT !.claimed = @ /\ ~ok]
        /\ tsk' = [tsk EXCEPT ![t] = IF ok \/ @.op = "install" THEN [@ EXCEPT !.pc = "close"] ELSE NoCall]
        /\ app' = IF ok \/ tsk[t].op = "install" THEN app ELSE [app EXCEPT !.given = FALSE, !.told = FALSE]
        /\ UNCHANGED <<susp, msgs, disk, pipe, xfer, client>>

CloseDevice(t) ==
    /\ At(t, "close") /\ Now(t, "free") /\ dev' = [dev EXCEPT !.open = @ /\ dev.claimed]
    /\ Fails(drv = "up", "driver is freed")
    /\ UNCHANGED <<susp, msgs, disk, pipe, xfer, client, app>>

Free(t) ==
    /\ At(t, "free") /\ tsk' = [tsk EXCEPT ![t] = NoCall]
    /\ dev' = [NoDev EXCEPT !.open = dev.open, !.claimed = dev.claimed] /\ xfer' = NoXfer
    /\ Fails(xfer.st \in {"none", "idle"}, "transfer freed in flight or twice")
    /\ app' = [app EXCEPT !.given = FALSE, !.told = IF tsk[t].op = "install" THEN @ ELSE FALSE]
    /\ UNCHANGED <<susp, msgs, disk, pipe, client>>

\* Sectors are read or written, by the file system too; with "order" it is still mounted when
\* the device is gone.
MayCall(t) == /\ Runs(t) /\ tsk[t].op = "none" /\ client # "blocked"
              /\ UNCHANGED <<susp, msgs, disk, pipe, dev, xfer, client, app, crash>>

Command(t, c) ==
    /\ Call /\ MayCall(t) /\ (app.given \/ (app.mounted /\ "order" \in env))
    /\ (t = "app" \/ (t = "other" /\ "two" \in env))
    /\ Begins(t, "rw", <<Frame("start", c)>>)

\* The application, not the file system, recovers from a failure of the transport.
Recover ==
    /\ MayCall("app") /\ app.given /\ ~app.told /\ app.last = "fail" /\ "norecover" \notin env /\ UNCHANGED outside
    /\ Begins("app", "recover", <<Frame("restart", "ready")>>)

RestartEnd(t) == Back(t, "restart") /\ Recovery(t, Callers(t))

CallEnd(t) ==
    /\ tsk[t].pc = "ret" /\ tsk[t].stk = <<>> /\ Runs(t) /\ tsk' = [tsk EXCEPT ![t] = NoCall]
    /\ app' = [app EXCEPT !.last = IF Ok(t) THEN "ok" ELSE "fail"]
    /\ UNCHANGED <<susp, msgs, disk, pipe, dev, xfer, client, crash, outside>>

\* msc_host_vfs_register(): the volume is mounted, which reads it, or formatted.
Mount ==
    /\ Call /\ "mount" \in env /\ MayCall("app") /\ app.given /\ ~app.mounted
    /\ Begins("app", "mount", <<Frame("start", "read"), Frame("mount", "read")>>)

MountEnd(t) ==
    /\ \E at \in {"mount", "format"} : Back(t, at)
    /\ \E formatted \in BOOLEAN :
          IF Ok(t) /\ Top(t).at = "mount" /\ ~formatted THEN Scsi(t, <<Frame("format", "write")>>, "write")
          ELSE /\ tsk' = [tsk EXCEPT ![t].stk = <<>>]
               /\ app' = [app EXCEPT !.mounted = Ok(t)]
               /\ UNCHANGED <<susp, msgs, disk, pipe, xfer, crash>>

\* msc_host_vfs_unregister()
Unmount ==
    /\ Runs("app") /\ AppIdle /\ app.mounted /\ app.told /\ "order" \notin env
    /\ app' = [app EXCEPT !.mounted = FALSE]
    /\ UNCHANGED <<susp, msgs, disk, pipe, dev, xfer, tsk, client, crash, outside>>

\* msc_host_uninstall_device(), when the application was told that the device is gone, or at
\* any time; with "stale" also by the handle it was told, which install may have freed.
Uninstalls(t) == tsk' = [tsk EXCEPT ![t] = [NoCall EXCEPT !.op = "uninstall", !.pc = "remove"]]

AppUninstalls ==
    /\ Runs("app") /\ AppIdle /\ client # "blocked" /\ (~app.mounted \/ "order" \in env)
    /\ \/ app.told /\ (app.given \/ "stale" \in env) /\ UNCHANGED outside
       \/ app.given /\ ~app.told /\ Call
    /\ Uninstalls("app")
    /\ UNCHANGED <<susp, msgs, disk, pipe, dev, xfer, client, app, crash>>

Ignores ==
    /\ Runs("app") /\ AppIdle /\ app.told /\ ~app.given /\ "stale" \notin env
    /\ app' = [app EXCEPT !.told = FALSE]
    /\ UNCHANGED <<susp, msgs, disk, pipe, dev, xfer, tsk, client, crash, outside>>

-----------------------------------------------------------------------------
(* client_event_cb(), msc_host_handle_events(), msc_host_uninstall() *)

Opened == dev.open \/ client = "new"
Event == drv # "down" /\ client = "idle" /\ xfer.st # "done" /\ msgs # <<>> /\ msgs' = Tail(msgs)
         /\ UNCHANGED <<outside, susp, disk, pipe, dev, xfer, crash>>

\* is_mass_storage_device() opens the device and closes it again.
NewDevice == Event /\ Head(msgs) = "new" /\ client' = (IF bus = "present" THEN "new" ELSE "idle") /\ UNCHANGED <<tsk, app>>

\* The application installs the device in its own task, or in the callback ("incall").
NewSeen ==
    /\ client = "new"
    /\ IF "incall" \in env THEN client' = "blocked" /\ Install("client")
       ELSE client' = "idle" /\ app' = [app EXCEPT !.news = TRUE] /\ UNCHANGED <<tsk, dev>>
    /\ UNCHANGED <<outside, susp, msgs, disk, pipe, xfer, crash>>

\* find_msc_device(): the application is told, and may uninstall the device in the callback.
Gone ==
    /\ Event /\ Head(msgs) = "gone"
    /\ IF dev.listed /\ dev.open /\ "incb" \in env /\ app.given
       THEN client' = "blocked" /\ Uninstalls("client") /\ app' = [app EXCEPT !.mounted = FALSE]
       ELSE app' = [app EXCEPT !.told = @ \/ (dev.listed /\ dev.open)] /\ UNCHANGED <<tsk, client>>

OtherEvent == Event /\ Head(msgs) \in {"susp", "res"} /\ UNCHANGED <<tsk, client, app>>

CallbackEnd ==
    /\ client = "blocked" /\ tsk["client"].op = "none" /\ client' = "idle"
    /\ UNCHANGED <<outside, susp, msgs, disk, pipe, dev, xfer, tsk, app, crash>>

Uninstall ==
    /\ drv = "up" /\ Runs("app") /\ ~dev.listed /\ ((AppIdle /\ client # "blocked") \/ "hurry" \in env)
    /\ drv' = "ending"
    /\ UNCHANGED <<bus, plugs, susp, msgs, disk, pipe, dev, xfer, tsk, client, app, calls, faults, crash, env>>

\* The client is deregistered, which is checked.
TaskEnds ==
    /\ drv = "ending" /\ client = "idle" /\ msgs = <<>> /\ xfer.st # "done"
    /\ drv' = "down" /\ Fails(~Opened, "client deregistered with an open device")
    /\ UNCHANGED <<bus, plugs, susp, msgs, disk, pipe, dev, xfer, tsk, client, app, calls, faults, env>>

-----------------------------------------------------------------------------
(* The disk and the USB Host Library *)

Calm == UNCHANGED <<drv, dev, tsk, client, app, calls, crash, env>>
Flushed == xfer' = IF xfer.st = "flight" THEN Ends(xfer, "fail") ELSE xfer

Plug ==
    /\ bus # "present" /\ ~Opened /\ plugs < MaxPlugs /\ drv = "up"
    /\ bus' = "present" /\ plugs' = plugs + 1 /\ disk' = NewDisk /\ msgs' = Append(msgs, "new")
    /\ UNCHANGED <<susp, pipe, xfer, faults>> /\ Calm

\* With a callback that uninstalls the device, only while no call is made, or "busy".
Unplug ==
    /\ bus = "present" /\ ("incb" \in env => AppIdle \/ ~app.given \/ "busy" \in env)
    /\ bus' = "gone" /\ susp' = FALSE /\ msgs' = IF Opened THEN Append(msgs, "gone") ELSE msgs
    /\ Flushed /\ UNCHANGED <<plugs, disk, pipe, faults>> /\ Calm

\* The port is suspended; all pipes are halted and flushed, and cleared when it is resumed.
Suspend ==
    /\ "suspend" \in env /\ bus = "present" /\ ~susp /\ Opened /\ client = "idle" /\ msgs = <<>>
    /\ faults < MaxFaults /\ faults' = faults + 1
    /\ susp' = TRUE /\ msgs' = <<"susp">> /\ Flushed /\ pipe' = [ep \in {"in", "out"} |-> "active"]
    /\ UNCHANGED <<bus, plugs, disk>> /\ Calm

Resume ==
    /\ susp /\ client = "idle" /\ susp' = FALSE /\ msgs' = IF Opened THEN Append(msgs, "res") ELSE msgs
    /\ UNCHANGED <<bus, plugs, disk, pipe, xfer, faults>> /\ Calm

\* The disk answers, faults or not; an error or a STALL halts the host's pipe too.
Complete ==
    /\ bus = "present" /\ ~susp /\ xfer.st = "flight" /\ ("mute" \in env => xfer.ep # "ctl")
    /\ \E f \in {"no"} \cup ({"error", "stall", "failed"} \cap env) :
          /\ f = "no" \/ faults < MaxFaults \/ "stuck" \in env
          /\ faults' = IF f # "no" /\ faults < MaxFaults THEN faults + 1 ELSE faults
          /\ \E a \in Answers(disk, xfer, f, "fifo" \in env) : disk' = a.disk /\ xfer' = a.xfer
    /\ pipe' = IF xfer'.res # "ok" /\ xfer.ep # "ctl" THEN [pipe EXCEPT ![xfer.ep] = "halted"] ELSE pipe
    /\ UNCHANGED <<bus, plugs, susp, msgs>> /\ Calm

-----------------------------------------------------------------------------
Execute(t) == WaitEnd(t) \/ TimeOut(t) \/ Flush(t) \/ CbwEnd(t) \/ DataEnd(t) \/ CswEnd(t) \/ ClearEnd(t)
              \/ Csw2End(t) \/ RecoveredEnd(t) \/ ScsiEnd(t) \/ SensedEnd(t) \/ ResetEnd(t) \/ ResetInEnd(t)
              \/ ResetOutEnd(t) \/ TrialEnd(t) \/ KeyEnd(t) \/ StartEnd(t) \/ RestartEnd(t) \/ CallEnd(t)
              \/ MountEnd(t) \/ InstallEnd(t) \/ OpenDevice(t) \/ ClaimInterface(t) \/ Remove(t)
              \/ Release(t) \/ CloseDevice(t) \/ Free(t)
Client == TransferCallback \/ NewDevice \/ NewSeen \/ Gone \/ OtherEvent \/ CallbackEnd \/ TaskEnds
App == AppInstalls \/ AppUninstalls \/ Mount \/ Uninstall \/ \E t \in Task : \E c \in {"read", "write"} : Command(t, c)
Reacts == Recover \/ Unmount \/ Ignores \/ (AppUninstalls /\ calls' = calls)
Bus == Plug \/ Unplug \/ Suspend \/ Resume \/ Complete

Init ==
    /\ drv = "up" /\ bus = "none" /\ plugs = 0 /\ susp = FALSE /\ msgs = <<>>
    /\ disk = NewDisk /\ pipe = [ep \in {"in", "out"} |-> "active"] /\ dev = NoDev /\ xfer = NoXfer
    /\ tsk = [t \in Task |-> NoCall] /\ client = "idle" /\ app = NoApp
    /\ calls = 0 /\ faults = 0 /\ crash = "none" /\ env \in Environments

Next == Client \/ App \/ Reacts \/ Bus \/ \E t \in Task : Execute(t)

\* All tasks run; the disk answers what it acknowledges; the application recovers from
\* failures, and uninstalls a device that it was told is gone.
Spec == Init /\ [][Next]_vars /\ WF_vars(Client) /\ WF_vars(Reacts) /\ WF_vars(Complete)
             /\ \A t \in Task : WF_vars(Execute(t))

-----------------------------------------------------------------------------
(* Properties *)

\* Nothing is used after it was freed, or by two calls at once; no stack overflows; a command
\* that succeeds has got its own data and status.
NoAbuse == crash = "none"

\* The disk expects a command and nothing is halted.
InStep == disk.ph = "cbw" /\ disk.halt = {} /\ ~disk.queued /\ \A ep \in {"in", "out"} : pipe[ep] = "active"

\* After a success the host and the disk are in step.
SuccessInStep == app.given /\ bus = "present" /\ AppIdle /\ app.last = "ok" => InStep

Consistent == TypeOK /\ NoAbuse /\ SuccessInStep

\* A disk that stops to fail answers commands again.
Recovers == app.given /\ bus = "present" ~> bus = "gone" \/ ~app.given \/ (AppIdle /\ InStep)

\* When the disk is gone, every call ends and the device is closed; only then can the next one
\* be enumerated.
GoneIsClosed == bus = "gone" ~> bus = "present" \/ (~Opened /\ ~dev.listed /\ AppIdle)
=============================================================================
