------------------------------ MODULE Endpoint -------------------------------
(***************************************************************************)
(* Transfers on the endpoints of a claimed interface: the pipe of the HCD  *)
(* (host/usb/src/hcd_dwc.c) with its queues and buffers, the endpoint of   *)
(* the USBH (usbh.c), and the client's bookkeeping in usb_host.c, which    *)
(* hands finished transfers to the client's callbacks.                     *)
(* Three tasks and an interrupt work on an endpoint: the one in            *)
(* usb_host_client_handle_events(), another of the client's that uses the  *)
(* API, the daemon, which halts the endpoints of a device that is gone or  *)
(* about to be suspended, and the channel's interrupt.                     *)
(***************************************************************************)
EXTENDS Transfers

CONSTANTS
    Ep, Urb,
    NumBuffers      \* NUM_BUFFERS

NoEp == "none"
NoUrb == "none"
fixed == <<dmaVars, env>>

Eps == env.eps
Urbs == env.urbs

Alive(e) == pipe[e].state # "none"

\* The places of usb_host_transfer_submit().
Submitting == {"check", "resume", "enqueue"}

\* The transfers that a pipe holds, in the order in which they were submitted.
Queue(e) == pipe[e].done \o pipe[e].buf \o pipe[e].pend

In(u, s) == \E i \in DOMAIN s : s[i] = u

NoPipe == [state |-> "none", pend |-> <<>>, buf |-> <<>>, done |-> <<>>, exec |-> FALSE,
           cmd |-> FALSE, waiter |-> "none", hasUrb |-> FALSE]
NoWrap == [pending |-> FALSE, count |-> 0, last |-> "done"]

EpTypeOK ==
    /\ port \in {"enabled", "suspended", "lost"}
    /\ gone \in BOOLEAN
    /\ acts \subseteq {"gone", "suspend", "resume", "resume_port"}
    /\ claimed \in BOOLEAN
    /\ pipe \in [Ep -> [state : {"none", "active", "halted"}, pend : Seq(Urb),
                        buf : Seq(Urb), done : Seq(Urb), exec : BOOLEAN, cmd : BOOLEAN,
                        waiter : {"none", "api", "daemon"}, hasUrb : BOOLEAN]]
    /\ \A e \in Ep : Len(pipe[e].buf) <= NumBuffers
    /\ wrap \in [Ep -> [pending : BOOLEAN, count : Nat, last : {"done", "error"}]]
    /\ pendingEps \in Seq(Eps)
    /\ sem \in BOOLEAN
    /\ inflight \in SUBSET Urb
    /\ task \in [{"handler", "api"} ->
                    [at : {"idle", "loop", "flush", "notify", "dequeue", "callback",
                           "count", "wait", "free", "abort"} \cup Submitting,
                     ep : Ep \cup {NoEp}, urb : Urb \cup {NoUrb}, to : Ep \cup {NoEp},
                     n : Nat, left : SUBSET Ep]]
    /\ dmn \in [at : {"idle", "walk", "wait", "flush", "notify", "suspend", "abort"},
                why : {"gone", "suspend", "resume"}, ep : Ep \cup {NoEp},
                left : SUBSET Ep]

-----------------------------------------------------------------------------
(* hcd_dwc.c: the pipe *)

\* The port is connected to a device that has been reset (conn_dev_ena).
Conn == port # "lost"

Least(a, b) == IF a < b THEN a ELSE b

\* _buffer_fill(), while _buffer_can_fill() and at most n times
Fill(p, n) ==
    LET k == Least(Least(n, NumBuffers - Len(p.buf)), Len(p.pend))
    IN  [p EXCEPT !.buf = @ \o SubSeq(p.pend, 1, k),
                  !.pend = SubSeq(@, k + 1, Len(@))]

\* _buffer_exec(), if _buffer_can_exec()
Exec(p) == [p EXCEPT !.exec = @ \/ p.buf # <<>>]

\* _buffer_done() and _buffer_parse() of the buffer that was executed
HeadDone(p) == [p EXCEPT !.done = Append(@, Head(p.buf)), !.buf = Tail(@), !.exec = FALSE]

\* hcd_urb_enqueue(), once accepted
Accepted(p, u, submit) ==
    LET q == [p EXCEPT !.pend = Append(@, u), !.hasUrb = TRUE]
    IN  IF submit THEN Exec(Fill(q, 1)) ELSE q

\* hcd_urb_dequeue() of an URB
Dequeued(p) ==
    LET q == [p EXCEPT !.done = Tail(@)]
    IN  [q EXCEPT !.hasUrb = q.done \o q.buf \o q.pend # <<>>]

\* Whether _pipe_cmd_flush() has to call the callback, while the command lasts
FlushMoves(p) == p.buf \o p.pend # <<>>

\* Bug: what is pending is flushed before what is in the buffers.
Flushed_Pending(p) ==
    [p EXCEPT !.done = @ \o p.pend \o p.buf, !.buf = <<>>, !.pend = <<>>, !.exec = FALSE,
              !.cmd = FlushMoves(p)]

\* _pipe_cmd_flush() of a halted pipe
Flushed(p) ==
    [p EXCEPT !.done = @ \o p.buf \o p.pend, !.buf = <<>>, !.pend = <<>>, !.exec = FALSE,
              !.cmd = FlushMoves(p)]

\* Bug: a pipe that is cleared does not go on with what is pending.
Cleared_Idle(p) ==
    [p EXCEPT !.cmd = FALSE, !.state = IF p.state = "halted" /\ Conn THEN "active" ELSE @]

\* _pipe_cmd_clear()
Cleared(p) ==
    IF p.state = "halted" /\ Conn
    THEN Exec(Fill([p EXCEPT !.state = "active", !.cmd = FALSE], NumBuffers))
    ELSE [p EXCEPT !.cmd = FALSE]

\* _pipe_cmd_halt() has to wait for the channel.
HaltWaits(p) == p.state = "active" /\ Conn /\ p.exec

\* endpoint_callback()
EndpointCallback(e, event) ==
    /\ wrap' = [wrap EXCEPT ![e].last = event, ![e].pending = TRUE]
    /\ pendingEps' = IF wrap[e].pending THEN pendingEps ELSE Append(pendingEps, e)
    /\ sem' = TRUE

\* _intr_hdlr_chan(): the channel works on a buffer ...
Running(e) == pipe[e].exec /\ pipe[e].state = "active" /\ port = "enabled"

\* ... that it completes (a device that left an external hub does not answer) ...
ChanDone(e) ==
    /\ Running(e) /\ pipe[e].waiter = "none" /\ ~gone
    /\ pipe' = [pipe EXCEPT ![e] = Fill(Exec(HeadDone(@)), 1)]
    /\ EndpointCallback(e, "done")
    /\ UNCHANGED <<port, gone, acts, claimed, inflight, task, dmn, fixed>>

\* ... fails with ...
ChanError(e) ==
    /\ Running(e) /\ pipe[e].waiter = "none" /\ ("errors" \in Uses \/ gone)
    /\ pipe' = [pipe EXCEPT ![e] = [HeadDone(@) EXCEPT !.state = "halted"]]
    /\ EndpointCallback(e, "error")
    /\ UNCHANGED <<port, gone, acts, claimed, inflight, task, dmn, fixed>>

\* ... or is halted with.
ChanHalted(e) ==
    /\ pipe[e].waiter # "none" /\ pipe[e].buf # <<>>
    /\ pipe' = [pipe EXCEPT ![e] = [HeadDone(@) EXCEPT !.state = "halted", !.waiter = "none"]]
    /\ EndpointCallback(e, "done")
    /\ UNCHANGED <<port, gone, acts, claimed, inflight, task, dmn, fixed>>

-----------------------------------------------------------------------------
(* usb_host_transfer_submit(), by the API task or in a transfer's callback *)

Handler == task["handler"]
Api == task["api"]

\* The application's part of a calm environment: an interface is released, and an
\* endpoint that failed cleared, when the client's other task has handled what
\* came before; no command is given while the daemon works on the endpoints of a
\* device whose port is still there; and no endpoint is cleared once the daemon
\* has halted it because the device is gone.
Calm == "races" \notin Uses
Walking == dmn.at \in {"walk", "wait", "flush", "notify"}

\* The endpoint's transfers in flight are counted, and the transfer marked ...
\* (Bound: once the handler has dequeued as many transfers as there are, none is
\* submitted until it is done with the endpoint.)
SubmitCount(t, u, e) ==
    /\ \/ t = "api" /\ Api.at = "idle"
       \/ t = "handler" /\ Handler.at = "callback" /\ u = Handler.urb
    /\ Alive(e) /\ u \notin inflight /\ Handler.n < Cardinality(Urbs)
    /\ inflight' = inflight \cup {u}
    /\ wrap' = [wrap EXCEPT ![e].count = @ + 1]
    /\ task' = [task EXCEPT ![t].at = "check", ![t].urb = u, ![t].to = e]
    /\ UNCHANGED <<port, gone, acts, claimed, pipe, pendingEps, sem, dmn, fixed>>

After(t) == IF t = "handler" THEN "dequeue" ELSE "idle"

\* The submission is over, ...
SubmitEnds(t) == task' = [task EXCEPT ![t].at = After(t), ![t].to = NoEp,
                                     ![t].urb = IF t = "api" THEN NoUrb ELSE @]

\* ... having failed.
SubmitErr(t) ==
    /\ inflight' = inflight \ {task[t].urb}
    /\ wrap' = [wrap EXCEPT ![task[t].to].count = @ - 1]
    /\ SubmitEnds(t)

\* ... it is looked whether the root port is suspended ...
SubmitCheck(t) ==
    /\ task[t].at = "check"
    /\ task' = [task EXCEPT ![t].at = IF port = "suspended" THEN "resume" ELSE "enqueue"]
    /\ UNCHANGED <<port, gone, acts, claimed, pipe, wrap, pendingEps, sem, inflight, dmn, fixed>>

\* ... and if so it is asked to resume, which a port that is not suspended any more,
\* or was lost, refuses ...
SubmitResume(t) ==
    /\ task[t].at = "resume"
    /\ \/ /\ port = "suspended"
          /\ acts' = acts \cup {"resume_port"}
          /\ task' = [task EXCEPT ![t].at = "enqueue"]
          /\ UNCHANGED <<wrap, inflight>>
       \/ port # "suspended" /\ SubmitErr(t) /\ UNCHANGED acts
    /\ UNCHANGED <<port, gone, claimed, pipe, pendingEps, sem, dmn, fixed>>

\* _check_port_pipe_state()
Submits(p) == port = "enabled" /\ p.state = "active" /\ ~p.cmd
Defers(p) == port = "suspended" /\ p.state = "halted"

\* ... and the URB is enqueued, if port and pipe take it now.
SubmitEnqueue(t) ==
    LET e == task[t].to
        u == task[t].urb
    IN  /\ task[t].at = "enqueue"
        /\ \/ /\ Submits(pipe[e]) \/ Defers(pipe[e])
              /\ pipe' = [pipe EXCEPT ![e] = Accepted(@, u, Submits(@))]
              /\ SubmitEnds(t)
              /\ UNCHANGED <<wrap, inflight>>
           \/ ~(Submits(pipe[e]) \/ Defers(pipe[e])) /\ SubmitErr(t) /\ UNCHANGED pipe
        /\ UNCHANGED <<port, gone, acts, claimed, pendingEps, sem, dmn, fixed>>

-----------------------------------------------------------------------------
(* usb_host_client_handle_events() and _handle_pending_ep() *)

At(t, step) == [task EXCEPT ![t].at = step]

HandleEvents ==
    /\ Handler.at = "idle" /\ sem
    /\ sem' = FALSE
    /\ task' = At("handler", "loop")
    /\ UNCHANGED <<port, gone, acts, claimed, pipe, wrap, pendingEps, inflight, dmn, fixed>>

\* Bug: the endpoint stays marked as pending.
NextEp_StillPending ==
    /\ Handler.at = "loop" /\ pendingEps # <<>>
    /\ LET e == Head(pendingEps)
       IN  task' = [task EXCEPT !["handler"] =
                      [@ EXCEPT !.at = IF wrap[e].last = "error" THEN "flush" ELSE "dequeue",
                                !.ep = e, !.n = 0]]
    /\ pendingEps' = Tail(pendingEps)
    /\ UNCHANGED <<port, gone, acts, claimed, pipe, wrap, sem, inflight, dmn, fixed>>

\* The first pending endpoint is taken from the list; its last event decides what
\* is done.
NextEp ==
    /\ Handler.at = "loop" /\ pendingEps # <<>>
    /\ LET e == Head(pendingEps)
       IN  /\ wrap' = [wrap EXCEPT ![e].pending = FALSE]
           /\ task' = [task EXCEPT !["handler"] =
                         [@ EXCEPT !.at = IF wrap[e].last = "error" THEN "flush" ELSE "dequeue",
                                   !.ep = e, !.n = 0]]
    /\ pendingEps' = Tail(pendingEps)
    /\ UNCHANGED <<port, gone, acts, claimed, pipe, sem, inflight, dmn, fixed>>

HandledEvents ==
    /\ Handler.at = "loop" /\ pendingEps = <<>>
    /\ task' = [task EXCEPT !["handler"].at = "idle"]
    /\ UNCHANGED <<port, gone, acts, claimed, pipe, wrap, pendingEps, sem, inflight, dmn, fixed>>

\* After an error all transfers are flushed; the command must not fail.
HandlerFlush ==
    /\ Handler.at = "flush"
    /\ LET e == Handler.ep
       IN  IF pipe[e].state # "halted"
           THEN task' = At("handler", "abort") /\ UNCHANGED pipe
           ELSE /\ pipe' = [pipe EXCEPT ![e] = Flushed(@)]
                /\ task' = At("handler", IF FlushMoves(pipe[e]) THEN "notify" ELSE "dequeue")
    /\ UNCHANGED <<port, gone, acts, claimed, wrap, pendingEps, sem, inflight, dmn, fixed>>

\* Each finished transfer is dequeued, marked as idle and given to its callback,
\* which may submit it again.
HandlerDequeue ==
    /\ Handler.at = "dequeue"
    /\ LET e == Handler.ep
       IN  IF pipe[e].done = <<>>
           THEN task' = At("handler", "count") /\ UNCHANGED <<pipe, inflight>>
           ELSE /\ pipe' = [pipe EXCEPT ![e] = Dequeued(@)]
                /\ inflight' = inflight \ {Head(pipe[e].done)}
                /\ task' = [task EXCEPT !["handler"] =
                              [Handler EXCEPT !.at = "callback", !.urb = Head(pipe[e].done),
                                              !.n = @ + 1]]
    /\ UNCHANGED <<port, gone, acts, claimed, wrap, pendingEps, sem, dmn, fixed>>

CallbackReturns ==
    /\ Handler.at = "callback"
    /\ task' = At("handler", "dequeue")
    /\ UNCHANGED <<port, gone, acts, claimed, pipe, wrap, pendingEps, sem, inflight, dmn, fixed>>

\* The endpoint's count is reduced by the number of transfers that came back.
HandlerCount ==
    /\ Handler.at = "count"
    /\ IF Handler.n > wrap[Handler.ep].count
       THEN task' = At("handler", "abort") /\ UNCHANGED wrap
       ELSE /\ wrap' = [wrap EXCEPT ![Handler.ep].count = @ - Handler.n]
            /\ task' = [task EXCEPT !["handler"] =
                          [@ EXCEPT !.at = "loop", !.ep = NoEp, !.urb = NoUrb, !.n = 0]]
    /\ UNCHANGED <<port, gone, acts, claimed, pipe, pendingEps, sem, inflight, dmn, fixed>>

-----------------------------------------------------------------------------
(* The client's API task *)

Rest == task' = [task EXCEPT !["api"] =
                   [@ EXCEPT !.at = "idle", !.ep = NoEp, !.left = {}]]

\* usb_host_interface_claim(): the endpoints are allocated one after the other,
\* and added to the list together, if the port has a device.
Claim ==
    /\ Api.at = "idle" /\ ~claimed /\ port = "enabled" /\ ~gone /\ ~Walking
    /\ acts \cap {"suspend", "resume"} = {}
    /\ claimed' = TRUE
    /\ pipe' = [e \in Ep |-> IF e \in Eps THEN [NoPipe EXCEPT !.state = "active"] ELSE pipe[e]]
    /\ wrap' = [e \in Ep |-> NoWrap]
    /\ UNCHANGED <<port, gone, acts, pendingEps, sem, inflight, task, dmn, fixed>>

Commanding(e) ==
    /\ "commands" \in Uses /\ Api.at = "idle" /\ Alive(e)

\* usb_host_endpoint_halt(): nothing to do, or marked as halted, or waits.
ApiHalt(e) ==
    /\ Commanding(e)
    /\ Calm => ~(Walking /\ Conn)
    /\ IF ~HaltWaits(pipe[e])
       THEN /\ pipe' = [pipe EXCEPT ![e].state = "halted", ![e].cmd = FALSE]
            /\ UNCHANGED task
       ELSE IF pipe[e].waiter # "none"
       THEN task' = At("api", "abort") /\ UNCHANGED pipe
       ELSE /\ pipe' = [pipe EXCEPT ![e].waiter = "api", ![e].cmd = TRUE]
            /\ task' = [task EXCEPT !["api"].at = "wait", !["api"].ep = e]
    /\ UNCHANGED <<port, gone, acts, claimed, wrap, pendingEps, sem, inflight, dmn, fixed>>

ApiHalted ==
    /\ Api.at = "wait" /\ pipe[Api.ep].waiter # "api"
    /\ IF pipe[Api.ep].state # "halted"
       THEN task' = At("api", "abort") /\ UNCHANGED pipe
       ELSE Rest /\ pipe' = [pipe EXCEPT ![Api.ep].cmd = FALSE]
    /\ UNCHANGED <<port, gone, acts, claimed, wrap, pendingEps, sem, inflight, dmn, fixed>>

\* usb_host_endpoint_flush(): the client is notified after the pipe was changed.
ApiFlush(e) ==
    /\ Commanding(e) /\ pipe[e].state = "halted"
    /\ pipe' = [pipe EXCEPT ![e] = Flushed(@)]
    /\ task' = IF FlushMoves(pipe[e])
               THEN [task EXCEPT !["api"].at = "notify", !["api"].ep = e] ELSE task
    /\ UNCHANGED <<port, gone, acts, claimed, wrap, pendingEps, sem, inflight, dmn, fixed>>

\* The end of _pipe_cmd_flush() in either task.
Notify(t) ==
    /\ task[t].at = "notify"
    /\ EndpointCallback(task[t].ep, "done")
    /\ pipe' = [pipe EXCEPT ![task[t].ep].cmd = FALSE]
    /\ IF t = "api" THEN Rest ELSE task' = At("handler", "dequeue")
    /\ UNCHANGED <<port, gone, acts, claimed, inflight, dmn, fixed>>

\* The handler has yet to deal with an error of the endpoint.
ErrorPending(e) ==
    \/ wrap[e].pending /\ wrap[e].last = "error"
    \/ Handler.at = "flush" /\ Handler.ep = e

\* usb_host_endpoint_clear()
ApiClear(e) ==
    /\ Commanding(e) /\ pipe[e].state = "halted"
    /\ Calm => ~ErrorPending(e) /\ ~(Walking /\ Conn) /\ (gone => "gone" \in acts)
    /\ pipe' = [pipe EXCEPT ![e] = Cleared(@)]
    /\ UNCHANGED <<port, gone, acts, claimed, wrap, pendingEps, sem, inflight, task, dmn, fixed>>

\* Bug: an endpoint on the pending list does not keep the interface from being
\* released.
Releasable_Pending(e) == wrap[e].count = 0

\* Whether interface_release() may free an endpoint.
Releasable(e) == wrap[e].count = 0 /\ ~wrap[e].pending

\* interface_release(): all endpoints are checked and taken off the list ...
Release ==
    /\ Api.at = "idle" /\ claimed
    /\ Calm => Handler.at \in {"idle", "loop"} /\ dmn.at # "notify"
    /\ \A e \in Eps : Releasable(e)
    /\ task' = [task EXCEPT !["api"].at = "free", !["api"].left = Eps]
    /\ UNCHANGED <<port, gone, acts, claimed, pipe, wrap, pendingEps, sem, inflight, dmn, fixed>>

\* ... and freed one by one, which must not fail.  (usbh_ep_free() waits for the
\* USBH's mutex, which the daemon holds while it goes through the endpoints.)
FreeEp(e) ==
    /\ Api.at = "free" /\ e \in Api.left /\ ~Walking
    /\ IF Queue(e) # <<>> \/ pipe[e].exec \/ pipe[e].hasUrb
       THEN task' = At("api", "abort") /\ UNCHANGED pipe
       ELSE /\ pipe' = [pipe EXCEPT ![e] = NoPipe]
            /\ task' = [task EXCEPT !["api"].left = @ \ {e}]
    /\ UNCHANGED <<port, gone, acts, claimed, wrap, pendingEps, sem, inflight, dmn, fixed>>

Released ==
    /\ Api.at = "free" /\ Api.left = {}
    /\ claimed' = FALSE
    /\ Rest
    /\ UNCHANGED <<port, gone, acts, pipe, wrap, pendingEps, sem, inflight, dmn, fixed>>

-----------------------------------------------------------------------------
(* The daemon: handle_epn_halt_flush() and handle_epn_clear() *)

\* usbh_devs_remove(), the root port having been lost or not
Unplug ==
    /\ "unplug" \in Uses /\ ~gone
    /\ gone' = TRUE
    /\ acts' = acts \cup {"gone"}
    /\ port' = IF "hub" \in Uses THEN port ELSE "lost"
    /\ UNCHANGED <<claimed, pipe, wrap, pendingEps, sem, inflight, task, dmn, fixed>>

\* usb_host_lib_root_port_suspend()
AskSuspend ==
    /\ "suspend" \in Uses /\ port = "enabled" /\ acts = {} /\ dmn.at = "idle"
    /\ acts' = {"suspend"}
    /\ UNCHANGED <<port, gone, claimed, pipe, wrap, pendingEps, sem, inflight, task, dmn, fixed>>

\* The root port is resumed, because of a transfer or by the user.
ResumePort ==
    /\ port = "suspended" /\ dmn.at = "idle"
    /\ port' = "enabled"
    /\ acts' = (acts \ {"resume_port"}) \cup {"resume"}
    /\ UNCHANGED <<gone, claimed, pipe, wrap, pendingEps, sem, inflight, task, dmn, fixed>>

\* usbh_process() starts with what is to be halted, and clears after that.
Walk(why) ==
    /\ dmn.at = "idle" /\ why \in acts
    /\ why = "resume" => acts \cap {"gone", "suspend"} = {}
    /\ Calm => \A e \in Eps : pipe[e].waiter = "none" /\ (why = "gone" \/ Api.at # "wait")
    /\ acts' = acts \ {why}
    /\ dmn' = [at |-> "walk", why |-> why, ep |-> NoEp, left |-> {e \in Eps : Alive(e)}]
    /\ UNCHANGED <<port, gone, claimed, pipe, wrap, pendingEps, sem, inflight, task, fixed>>

DmnHalt(e) ==
    /\ dmn.at = "walk" /\ dmn.why # "resume" /\ e \in dmn.left
    /\ Calm \/ ~Conn => pipe[e].waiter = "none"
    /\ IF ~HaltWaits(pipe[e])
       THEN /\ pipe' = [pipe EXCEPT ![e].state = "halted", ![e].cmd = FALSE]
            /\ dmn' = [dmn EXCEPT !.at = "flush", !.ep = e]
       ELSE IF pipe[e].waiter # "none"
       THEN dmn' = [dmn EXCEPT !.at = "abort"] /\ UNCHANGED pipe
       ELSE /\ pipe' = [pipe EXCEPT ![e].waiter = "daemon", ![e].cmd = TRUE]
            /\ dmn' = [dmn EXCEPT !.at = "wait", !.ep = e]
    /\ UNCHANGED <<port, gone, acts, claimed, wrap, pendingEps, sem, inflight, task, fixed>>

DmnHalted ==
    /\ dmn.at = "wait" /\ pipe[dmn.ep].waiter # "daemon"
    /\ IF pipe[dmn.ep].state # "halted"
       THEN dmn' = [dmn EXCEPT !.at = "abort"] /\ UNCHANGED pipe
       ELSE /\ dmn' = [dmn EXCEPT !.at = "flush"]
            /\ pipe' = [pipe EXCEPT ![dmn.ep].cmd = FALSE]
    /\ UNCHANGED <<port, gone, acts, claimed, wrap, pendingEps, sem, inflight, task, fixed>>

NextLeft == [dmn EXCEPT !.at = "walk", !.left = @ \ {dmn.ep}, !.ep = NoEp]

\* The flush must not fail.
DmnFlush ==
    /\ dmn.at = "flush"
    /\ LET e == dmn.ep
       IN  IF pipe[e].state # "halted"
           THEN dmn' = [dmn EXCEPT !.at = "abort"] /\ UNCHANGED pipe
           ELSE /\ pipe' = [pipe EXCEPT ![e] = Flushed(@)]
                /\ dmn' = IF FlushMoves(pipe[e]) THEN [dmn EXCEPT !.at = "notify"] ELSE NextLeft
    /\ UNCHANGED <<port, gone, acts, claimed, wrap, pendingEps, sem, inflight, task, fixed>>

DmnNotify ==
    /\ dmn.at = "notify"
    /\ EndpointCallback(dmn.ep, "done")
    /\ pipe' = [pipe EXCEPT ![dmn.ep].cmd = FALSE]
    /\ dmn' = NextLeft
    /\ UNCHANGED <<port, gone, acts, claimed, inflight, task, fixed>>

DmnClear(e) ==
    /\ dmn.at = "walk" /\ dmn.why = "resume" /\ e \in dmn.left
    /\ pipe' = [pipe EXCEPT ![e] = Cleared(@)]
    /\ dmn' = [dmn EXCEPT !.left = @ \ {e}]
    /\ UNCHANGED <<port, gone, acts, claimed, wrap, pendingEps, sem, inflight, task, fixed>>

\* After everything was halted for it, the port is suspended if it is still there.
WalkEnds ==
    /\ dmn.at = "walk" /\ dmn.left = {}
    /\ dmn' = [dmn EXCEPT !.at = IF dmn.why = "suspend" THEN "suspend" ELSE "idle"]
    /\ UNCHANGED <<port, gone, acts, claimed, pipe, wrap, pendingEps, sem, inflight, task, fixed>>

\* Unless "crossing", not between a submission's look at the port and its enqueueing.
SuspendPort ==
    /\ dmn.at = "suspend"
    /\ port # "enabled" \/ "crossing" \in Uses \/ \A t \in DOMAIN task : task[t].at # "enqueue"
    /\ port' = IF port = "enabled" THEN "suspended" ELSE port
    /\ dmn' = [dmn EXCEPT !.at = "idle"]
    /\ UNCHANGED <<gone, acts, claimed, pipe, wrap, pendingEps, sem, inflight, task, fixed>>

-----------------------------------------------------------------------------
EpInit ==
    /\ gone = ("buffers" \in Uses) /\ port = (IF gone THEN "lost" ELSE "enabled")
    /\ acts = {} /\ claimed = FALSE
    /\ pipe = [e \in Ep |-> NoPipe]
    /\ wrap = [e \in Ep |-> NoWrap]
    /\ pendingEps = <<>> /\ sem = FALSE /\ inflight = {}
    /\ task = [t \in {"handler", "api"} |->
                 [at |-> "idle", ep |-> NoEp, urb |-> NoUrb, to |-> NoEp, n |-> 0, left |-> {}]]
    /\ dmn = [at |-> "idle", why |-> "gone", ep |-> NoEp, left |-> {}]

Channel(e) == ChanDone(e) \/ ChanError(e) \/ ChanHalted(e)

SubmitGoesOn(t) == SubmitCheck(t) \/ SubmitResume(t) \/ SubmitEnqueue(t)

HandlerStep ==
    \/ HandleEvents \/ NextEp \/ HandledEvents \/ HandlerFlush \/ Notify("handler")
    \/ HandlerDequeue \/ CallbackReturns \/ HandlerCount \/ SubmitGoesOn("handler")

\* What the API task goes on with once it has begun.
ApiGoesOn == SubmitGoesOn("api") \/ ApiHalted \/ Notify("api") \/ Released
                \/ \E e \in Eps : FreeEp(e)

DaemonStep ==
    \/ \E why \in {"gone", "suspend", "resume"} : Walk(why)
    \/ \E e \in Eps : DmnHalt(e) \/ DmnClear(e)
    \/ DmnHalted \/ DmnFlush \/ DmnNotify \/ WalkEnds \/ SuspendPort

Application ==
    \/ Claim \/ Release \/ AskSuspend
    \/ \E e \in Eps : ApiHalt(e) \/ ApiFlush(e) \/ ApiClear(e)
    \/ \E t \in {"handler", "api"}, u \in Urbs, e \in Eps : SubmitCount(t, u, e)

\* The device is gone and the interface was released: nothing is left to do.
Ended ==
    /\ gone /\ ~claimed /\ acts \ {"resume_port"} = {} /\ dmn.at = "idle"
    /\ Handler.at = "idle" /\ Api.at = "idle"
    /\ UNCHANGED <<epVars, fixed>>

EpNext ==
    \/ HandlerStep \/ ApiGoesOn \/ DaemonStep \/ Application
    \/ Unplug \/ ResumePort \/ Ended
    \/ \E e \in Eps : Channel(e)

\* The tasks run, a channel halts when it is told to and gives up on a device that
\* is gone, and a port that a transfer waits for is resumed.  Where SuspendPort stays
\* out of submissions it comes between two of them at last.
EpFair ==
    /\ WF_vars(HandlerStep) /\ WF_vars(ApiGoesOn) /\ WF_vars(DaemonStep) /\ SF_vars(SuspendPort)
    /\ WF_vars("resume_port" \in acts /\ ResumePort)
    /\ \A e \in Ep : WF_vars(e \in Eps /\ ChanHalted(e))
                   /\ WF_vars(e \in Eps /\ gone /\ ChanError(e))

-----------------------------------------------------------------------------
(* Properties *)

\* An endpoint's transfers that a task has in hand: about to be enqueued, or dequeued
\* and not yet deducted.
One(x, e) == IF x = e THEN 1 ELSE 0
Owed(e) == One(Handler.to, e) + One(Api.to, e) + (IF Handler.ep = e THEN Handler.n ELSE 0)

\* An endpoint's num_urb_inflight is the number of transfers that its pipe has,
\* that are about to be enqueued, and that were dequeued but not yet deducted; and
\* a pipe is off the list of idle pipes, where hcd_pipe_free() looks for it, if and
\* only if it has transfers.
CountIsExact ==
    \A e \in Eps : Alive(e) =>
        /\ wrap[e].count = Len(Queue(e)) + Owed(e)
        /\ (pipe[e].hasUrb <=> Queue(e) # <<>>)

\* No finished transfer is forgotten: its endpoint is on the client's list, the
\* client is working on it or about to be notified; and a client with a list is
\* awake or has been woken.
DoneIsAnnounced ==
    /\ \A e \in Eps : pipe[e].done # <<>> =>
          \/ In(e, pendingEps)
          \/ Handler.ep = e /\ Handler.at \in {"flush", "notify", "dequeue", "callback"} \cup Submitting
          \/ Api.at = "notify" /\ Api.ep = e
          \/ dmn.at = "notify" /\ dmn.ep = e
    /\ pendingEps # <<>> /\ Handler.at = "idle" => sem

\* An active pipe with transfers is executing one, and has filled as many buffers
\* as it can.
NeverIdle ==
    \A e \in Eps : pipe[e].state = "active" /\ port = "enabled" =>
        /\ pipe[e].buf \o pipe[e].pend # <<>> => pipe[e].exec
        /\ pipe[e].pend # <<>> => Len(pipe[e].buf) = NumBuffers

\* No assertion fails, and no command of which ESP_ERROR_CHECK() demands success:
\* the flushes of handler and daemon, the freeing of endpoints, the halts.
NoAbort == dmn.at # "abort" /\ \A t \in DOMAIN task : task[t].at # "abort"

\* Nobody works on an endpoint that was freed.
NoUseAfterFree ==
    /\ \A i \in DOMAIN pendingEps : Alive(pendingEps[i])
    /\ \A t \in DOMAIN task : \A e \in {task[t].ep, task[t].to} \ {NoEp} : Alive(e)
    /\ dmn.ep # NoEp => Alive(dmn.ep)

\* When the device is gone, every transfer comes back.
GoneReturnsAll ==
    \A u \in Urb : (gone /\ \E e \in Ep : In(u, Queue(e))) ~> (\A e \in Ep : ~In(u, Queue(e)))

\* Transfers that were deferred because the port is suspended are started, unless
\* they are given back: whoever submits one has asked for the port to be resumed, and
\* it is, and the endpoint is cleared.  Where the port can be suspended between that
\* look at it and the enqueueing nobody may have asked; then the transfer waits for
\* the next that is submitted, or for the user, to do so.
DeferredIsStarted ==
    (/\ port = "suspended" /\ \E e \in Eps : pipe[e].pend # <<>>
     /\ "crossing" \in Uses => "resume_port" \in acts)
        ~> (\A e \in Eps : pipe[e].pend = <<>>)

\* The pipe, the endpoint object of the client and the tasks that work on them agree
\* at any time: on how many transfers there are, on who will see to the finished
\* ones, on what is being executed, and on what is still allocated.
EpConsistent ==
    /\ EpTypeOK /\ CountIsExact /\ DoneIsAnnounced
    /\ NeverIdle /\ NoAbort /\ NoUseAfterFree

=============================================================================
