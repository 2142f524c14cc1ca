------------------------------- MODULE TinyNet -------------------------------
(***************************************************************************)
(* The network interface of a device (tinyusb_net.c).  The application     *)
(* sends packets by functions that it defers to the stack's task:          *)
(* asynchronously, with the packet on the heap; or synchronously, with the *)
(* packet on its own stack, a pointer to it in s_net_obj, a semaphore that *)
(* is given while the pointer may be used, and an event bit for the end.   *)
(*                                                                         *)
(* Three tasks: "usb" is the stack's; "app" and "alt" send.                *)
(***************************************************************************)
EXTENDS Board

around == <<mscVars, cdcVars, tcVars, env>>

Sender == {"app", "alt"}
Packet == 1..MaxText
NoPacket == 0

\* sema, flag: not created, taken or clear, given or set; cur: packet_to_send.
NetType   == [on : BOOLEAN, attached : BOOLEAN, plugs : 0..MaxPlugs, busy : BOOLEAN,
              sema : {"null", "taken", "given"}, flag : {"null", "clear", "set"},
              cur : {NoPacket} \cup Packet]
DeferType == [how : {"sync", "async"}, p : {NoPacket} \cup Packet]
LaterType == [todo : Seq(DeferType), at : {"idle", "send", "give", "flag"}, p : {NoPacket} \cup Packet]
CallType  == [at : {"idle", "offer", "defer", "wait", "retake"}, p : {NoPacket} \cup Packet, done : BOOLEAN]
\* res: what is in packet.result; ret: what the sender was told; xmits: how often it
\* was transmitted; frees: how often its buffer was given back by the callback.
PktType   == [res : {"ok", "fail"}, ret : {"none", "ok", "fail", "timeout"},
              xmits : 0..3, frees : 0..3, how : {"none", "sync", "async"}]

NetTypeOK ==
    /\ net \in NetType /\ later \in LaterType
    /\ call \in [Sender -> CallType] /\ pkt \in [Packet -> PktType]

-----------------------------------------------------------------------------

Begins(t, p) == call' = [call EXCEPT ![t].at = p]
CallEnds(t)      == call' = [call EXCEPT ![t] = [at |-> "idle", p |-> NoPacket, done |-> FALSE]]
Lost(b)      == lost' = IF lost = "none" THEN b ELSE lost

\* usbd_defer_func()
Defer(how, p) == later' = [later EXCEPT !.todo = Append(@, [how |-> how, p |-> p])]

\* A sender that gives up may meet what it has deferred later; a patient one does not
\* send again before that has run, nor at the same time as another one.
Alone(t) ==
    /\ InUse("both") \/ \A s \in Sender : call[s].at = "idle"
    /\ InUse("hurry") \/ (later.todo = <<>> /\ later.at = "idle") \/ ~InUse("timeout")

-----------------------------------------------------------------------------
(* The application *)

\* tinyusb_net_init()
NetUp ==
    /\ InUse("net") /\ ~net.on
    /\ net' = [net EXCEPT !.on = TRUE]
    /\ UNCHANGED <<later, call, pkt, lost, around>>

\* tinyusb_net_deinit(): what is deferred stays so.
NetDown ==
    /\ net.on
    /\ InUse("cut") \/ (later.todo = <<>> /\ later.at = "idle" /\ \A t \in Sender : call[t].at = "idle")
    /\ net' = [net EXCEPT !.on = FALSE, !.sema = "null", !.flag = "null", !.cur = NoPacket]
    /\ UNCHANGED <<later, call, pkt, lost, around>>

\* tinyusb_net_send_async(): the packet is used before it is known to be there.
SendAsync(p) ==
    /\ net.on /\ net.attached /\ pkt[p].how = "none" /\ (p > 1 => pkt[p - 1].how # "none")
    /\ \E ok \in BOOLEAN :
         /\ ok \/ InUse("noHeap")
         /\ Lost(IF ok THEN "none" ELSE "null packet")
         /\ IF ok THEN Defer("async", p) ELSE UNCHANGED later
    /\ pkt' = [pkt EXCEPT ![p].how = "async", ![p].ret = "ok"]
    /\ UNCHANGED <<net, call, around>>

\* tinyusb_net_send_sync(): what it needs is created if it is not there ...
SendSync(t, p) ==
    /\ net.on /\ net.attached /\ call[t].at = "idle" /\ Alone(t)
    /\ pkt[p].how = "none" /\ (p > 1 => pkt[p - 1].how # "none")
    /\ net' = [net EXCEPT !.flag = IF @ = "null" THEN "clear" ELSE @,
                          !.sema = IF @ = "null" THEN "taken" ELSE @]
    /\ pkt' = [pkt EXCEPT ![p].how = "sync"]
    /\ call' = [call EXCEPT ![t] = [at |-> "offer", p |-> p, done |-> FALSE]]
    /\ UNCHANGED <<later, lost, around>>

\* ... the packet is offered, and the semaphore given, ...
Offer(t) ==
    /\ call[t].at = "offer"
    /\ net' = [net EXCEPT !.cur = call[t].p, !.sema = "given"]
    /\ Begins(t, "defer")
    /\ UNCHANGED <<later, pkt, lost, around>>

Deferring(t) ==
    /\ call[t].at = "defer"
    /\ Defer("sync", NoPacket)
    /\ Begins(t, "wait")
    /\ UNCHANGED <<net, pkt, lost, around>>

\* ... the event bit is waited for, and cleared, ...
Finished(t) ==
    /\ call[t].at = "wait" /\ net.flag = "set"
    /\ net' = [net EXCEPT !.flag = "clear"]
    /\ call' = [call EXCEPT ![t].at = "retake", ![t].done = TRUE]
    /\ UNCHANGED <<later, pkt, lost, around>>

\* ... until the time is up; in an environment of its own when the stack has begun to
\* send the packet, or begins before the sender has taken it back: the bit may then be
\* set when nobody waits any more ...
TimesOut(t) ==
    /\ InUse("timeout") /\ call[t].at = "wait" /\ net.flag # "set"
    /\ later.at = "idle" \/ InUse("late")
    /\ Begins(t, "retake")
    /\ UNCHANGED <<net, later, pkt, lost, around>>

\* Bug: a sender that gave up does not wait for the stack to leave its packet alone.
Retake_Impatient(t) ==
    /\ call[t].at = "retake"
    /\ net' = [net EXCEPT !.sema = "taken", !.cur = NoPacket]
    /\ pkt' = [pkt EXCEPT ![call[t].p].ret = IF call[t].done THEN pkt[call[t].p].res ELSE "timeout"]
    /\ CallEnds(t)
    /\ UNCHANGED <<later, lost, around>>

\* ... and the semaphore taken again, so that the packet is no longer in use.
Retake(t) ==
    /\ call[t].at = "retake" /\ net.sema = "given"
    /\ net' = [net EXCEPT !.sema = "taken", !.cur = NoPacket]
    /\ pkt' = [pkt EXCEPT ![call[t].p].ret = IF call[t].done THEN pkt[call[t].p].res ELSE "timeout"]
    /\ CallEnds(t)
    /\ UNCHANGED <<later, lost, around>>

-----------------------------------------------------------------------------
(* The stack's task *)

\* tud_network_can_xmit(): no frame is on the wire.
CanXmit == net.attached /\ ~net.busy

\* A packet lives as long as the call that it is a local variable of.
Lives(p) == pkt[p].how = "sync" => \E t \in Sender : call[t].p = p

\* tud_network_xmit(), tud_network_xmit_cb(): the buffer is copied and given back.
Transmitted(p) == [pkt EXCEPT ![p].xmits = @ + 1, ![p].frees = @ + 1, ![p].res = "ok"]

\* do_send_async(): a packet that cannot be transmitted is dropped.
AsyncRuns ==
    /\ later.at = "idle" /\ later.todo # <<>> /\ Head(later.todo).how = "async"
    /\ LET p == Head(later.todo).p
       IN  pkt' = IF CanXmit THEN Transmitted(p) ELSE [pkt EXCEPT ![p].frees = @ + 1]
    /\ net' = [net EXCEPT !.busy = @ \/ CanXmit]
    /\ later' = [later EXCEPT !.todo = Tail(@)]
    /\ UNCHANGED <<call, lost, around>>

\* do_send_sync(): it does nothing if the semaphore is taken ...
SyncRuns ==
    /\ later.at = "idle" /\ later.todo # <<>> /\ Head(later.todo).how = "sync"
    /\ InUse("late") \/ \A t \in Sender : call[t].at = "retake" => call[t].done
    /\ Lost(IF net.sema = "null" THEN "no semaphore" ELSE "none")
    /\ net' = IF net.sema = "given" THEN [net EXCEPT !.sema = "taken"] ELSE net
    /\ later' = [later EXCEPT !.todo = Tail(@), !.p = net.cur,
                   !.at = IF net.sema = "given" /\ net.cur # NoPacket THEN "send" ELSE "idle"]
    /\ UNCHANGED <<call, pkt, around>>

\* ... and otherwise transmits, or not, ...
SyncSends ==
    /\ later.at = "send"
    /\ Lost(IF Lives(later.p) THEN "none" ELSE "dead packet")
    /\ pkt' = IF CanXmit THEN Transmitted(later.p) ELSE [pkt EXCEPT ![later.p].res = "fail"]
    /\ net' = [net EXCEPT !.busy = @ \/ CanXmit]
    /\ later' = [later EXCEPT !.at = "give"]
    /\ UNCHANGED <<call, around>>

\* ... gives the semaphore back and sets the bit.
SyncGives ==
    /\ later.at = "give"
    /\ Lost(IF net.sema = "null" THEN "no semaphore" ELSE "none")
    /\ net' = [net EXCEPT !.sema = "given"]
    /\ later' = [later EXCEPT !.at = "flag"]
    /\ UNCHANGED <<call, pkt, around>>

SyncFlags ==
    /\ later.at = "flag"
    /\ Lost(IF net.flag = "null" THEN "no flags" ELSE "none")
    /\ net' = [net EXCEPT !.flag = "set"]
    /\ later' = [later EXCEPT !.at = "idle", !.p = NoPacket]
    /\ UNCHANGED <<call, pkt, around>>

-----------------------------------------------------------------------------
(* The host *)

HostPlugs ==
    /\ InUse("net")
    /\ net.attached \/ net.plugs < MaxPlugs
    /\ net' = [net EXCEPT !.attached = ~@, !.busy = FALSE, !.plugs = IF net.attached THEN @ ELSE @ + 1]
    /\ UNCHANGED <<later, call, pkt, lost, around>>

FrameTaken ==
    /\ net.busy
    /\ net' = [net EXCEPT !.busy = FALSE]
    /\ UNCHANGED <<later, call, pkt, lost, around>>

-----------------------------------------------------------------------------

NetInit ==
    /\ net = [on |-> FALSE, attached |-> FALSE, plugs |-> 0, busy |-> FALSE,
              sema |-> "null", flag |-> "null", cur |-> NoPacket]
    /\ later = [todo |-> <<>>, at |-> "idle", p |-> NoPacket]
    /\ call = [t \in Sender |-> [at |-> "idle", p |-> NoPacket, done |-> FALSE]]
    /\ pkt = [p \in Packet |-> [res |-> "ok", ret |-> "none", xmits |-> 0, frees |-> 0, how |-> "none"]]
    /\ lost = "none"

NetUsb == AsyncRuns \/ SyncRuns \/ SyncSends \/ SyncGives \/ SyncFlags
NetStep(t) == Offer(t) \/ Deferring(t) \/ Finished(t) \/ TimesOut(t) \/ Retake(t)

NetNext ==
    \/ NetUsb \/ NetUp \/ NetDown \/ HostPlugs \/ FrameTaken
    \/ \E p \in Packet : SendAsync(p)
    \/ \E t \in Sender : NetStep(t) \/ \E p \in Packet : SendSync(t, p)

NetFair == WF_vars(NetUsb) /\ \A t \in Sender : WF_vars(NetStep(t))

-----------------------------------------------------------------------------
(* Properties *)

\* What a sender is told of its packet is what happened to it; one that gave up knows
\* only that it was not transmitted twice.
ToldTheTruth ==
    \A p \in Packet :
        /\ pkt[p].how = "sync" /\ pkt[p].ret = "ok"   => pkt[p].xmits = 1
        /\ pkt[p].how = "sync" /\ pkt[p].ret = "fail" => pkt[p].xmits = 0
        /\ pkt[p].xmits <= 1

\* The buffer of an asynchronous packet is given back once, when it has been dealt
\* with; that of a synchronous one if it was transmitted.
BuffersReturn ==
    \A p \in Packet :
        CASE pkt[p].how = "async" ->
               pkt[p].frees = IF \E i \in DOMAIN later.todo : later.todo[i].p = p THEN 0 ELSE 1
          [] OTHER -> pkt[p].frees = pkt[p].xmits

\* Between calls the event bit is clear and the semaphore taken, so that the next call
\* waits for its own packet.
NothingIsLeft ==
    (\A t \in Sender : call[t].at = "idle") => net.flag # "set" /\ net.sema # "given" /\ net.cur = NoPacket

NetConsistent ==
    /\ NetTypeOK /\ lost = "none"
    /\ ToldTheTruth /\ BuffersReturn /\ NothingIsLeft

\* No packet is waited for, or waits.
NetDone == later.todo = <<>> /\ later.at = "idle" /\ \A t \in Sender : call[t].at = "idle"

=============================================================================
