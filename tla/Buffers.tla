------------------------------- MODULE Buffers -------------------------------
(***************************************************************************)
(* What a pipe of the HCD does with its two buffers (host/usb/src/         *)
(* hcd_dwc.c): an URB is taken from the pending ones and a list of DMA     *)
(* descriptors filled for it; the channel executes the lists in turn; and  *)
(* when it interrupts, the list is parsed for how much was transferred.    *)
(* While the channel works on one buffer, the other one can be filled.     *)
(*                                                                         *)
(* The hardware is modelled by what the driver knows of it: a channel goes *)
(* through a list from where it was told to start until a descriptor with  *)
(* the flag HOC, a short packet, or an error; a descriptor of an           *)
(* isochronous list is executed in the frame with its number.              *)
(***************************************************************************)
EXTENDS Transfers

LOCAL INSTANCE SequencesExt

CONSTANTS
    Xfer,           \* URBs
    IntrLen,        \* XFER_LIST_LEN_INTR
    IsocLen,        \* XFER_LIST_LEN_ISOC, which HFNUM wraps around at a multiple of
    IsocMargin      \* XFER_LIST_ISOC_MARGIN

SetupSize == 8      \* sizeof(usb_setup_packet_t)
Slot == 0..1        \* the buffers of a pipe

NoXfer == "none"
NoTransfer == [bytes |-> 0, w |-> 0, in |-> FALSE, zlp |-> FALSE, pkts |-> <<>>]
NoBlock == [urb |-> NoXfer, list |-> <<>>, num |-> 0, skip |-> FALSE, stage |-> 0,
            start |-> 0, next |-> 0, last |-> 1, ev |-> "none", stop |-> 0]
NoChan == [st |-> "off", idx |-> 0, why |-> "none"]

Wrong(d, what) == IF d.flaw = "none" THEN [d EXCEPT !.flaw = what] ELSE d

-----------------------------------------------------------------------------
(* Allocation: endpoints of env.pipes, with the constants of their devices *)

\* pipe_args_usb_compliance_verification()
SpeedsAgree(e) ==
    /\ ~(e.port = "low" /\ e.speed = "full")
    /\ e.speed = "low" => e.type \notin {"bulk", "isoc"}

\* pipe_alloc_hcd_support_verification(), but for the limits of the FIFOs; the
\* default pipe has no descriptor
IntervalIsSet(e) == e.type \in {"intr", "isoc"} => e.bInterval # 0

ListLen(e) == IF e.type = "intr" THEN IntrLen ELSE IsocLen

\* The interval of pipe_set_ep_char(), in (micro)frames
IntervalOf(e) ==
    IF e.type \notin {"intr", "isoc"} THEN 0
    ELSE IF e.type = "intr" /\ e.speed # "high" THEN e.bInterval
    ELSE 2 ^ (e.bInterval - 1)

\* hcd_pipe_alloc() of the pipe with the index i
PipeAlloc(e, i) ==
    /\ ch.st = "none" /\ ch.conn
    /\ SpeedsAgree(e) /\ IntervalIsSet(e)
    /\ ch' = [ch EXCEPT !.st = "active", !.ep = e, !.interval = IntervalOf(e),
                        !.offset = IF IntervalOf(e) = 0 THEN 0
                                   ELSE (i % ListLen(e)) % IntervalOf(e)]
    /\ UNCHANGED <<epVars, dma, env>>

\* hcd_pipe_free()
PipeFree ==
    /\ ch.st # "none" /\ ~ch.waits /\ ~dma.running /\ ~dma.hasUrb
    /\ ch' = [ch EXCEPT !.st = "none"]
    /\ UNCHANGED <<epVars, dma, env>>

\* hcd_pipe_update_mps()
UpdateMps(n) ==
    /\ ch.st # "none" /\ ch.ep.type = "ctrl" /\ ~ch.waits /\ ~dma.hasUrb
    /\ ch' = [ch EXCEPT !.ep.mps = n]
    /\ UNCHANGED <<epVars, dma, env>>

-----------------------------------------------------------------------------
(* _buffer_fill(): the list of descriptors for a transfer *)

Qtd(len, in, hoc) == [len |-> len, in |-> in, hoc |-> hoc, rem |-> len, sts |-> "none"]

ZeroPacket(t) == ~ch.ep.in /\ t.zlp /\ t.bytes % ch.ep.mps = 0

\* _buffer_fill_ctrl(): setup, data unless there are none, and status stage
FillCtrl(t) ==
    [NoBlock EXCEPT
        !.skip = t.w = 0,
        !.list = [i \in (IF t.w = 0 THEN {0, 2} ELSE 0..2) |->
                    CASE i = 0 -> Qtd(SetupSize, FALSE, TRUE)
                      [] i = 1 -> Qtd(t.bytes - SetupSize, t.in, TRUE)
                      [] i = 2 -> Qtd(0, ~(t.in /\ t.w # 0), TRUE)],
        !.last = 3]

\* _buffer_fill_bulk()
FillBulk(t) ==
    LET z == ZeroPacket(t)
    IN  [NoBlock EXCEPT !.list = [i \in (IF z THEN 0..1 ELSE {0}) |->
                                    IF i = 0 THEN Qtd(t.bytes, ch.ep.in, ~z) ELSE Qtd(0, FALSE, TRUE)],
                        !.last = IF z THEN 2 ELSE 1]

\* _buffer_fill_intr(): a descriptor for each packet
Packets(t) == (t.bytes + ch.ep.mps - 1) \div ch.ep.mps

FillIntr(t) ==
    LET n == Packets(t)
        z == ZeroPacket(t)
    IN  [NoBlock EXCEPT
            !.list = [i \in (0..(n - 2)) \cup {n - 1} \cup (IF z THEN {n} ELSE {}) |->
                        IF i = n THEN Qtd(0, FALSE, TRUE)
                        ELSE IF i = n - 1
                        THEN Qtd(t.bytes - (IF n = 0 THEN 0 ELSE n - 1) * ch.ep.mps, ch.ep.in, ~z)
                        ELSE Qtd(ch.ep.mps, ch.ep.in, FALSE)],
            !.num = n, !.last = IF z THEN n + 1 ELSE n]

\* _buffer_fill_isoc(): a packet's descriptor every so many ones
Interval == Min({ch.interval, IsocLen})

FillIsoc(t, start) ==
    LET at(k) == (start + (k - 1) * Interval) % IsocLen
        n == Len(t.pkts)
    IN  [NoBlock EXCEPT
            !.list = [i \in {at(k) : k \in 1..n} |->
                        LET k == Max({j \in 1..n : at(j) = i})
                        IN  Qtd(t.pkts[k], ch.ep.in, k = n)],
            !.num = n * Interval, !.start = start, !.next = at(n + 1), !.last = IsocLen]

\* Bug: the first packet of a transfer that follows none is not put into a frame of
\* the pipe.
StartIdx_Unaligned(d) ==
    IF d.exec # 0 THEN d.blk[(d.wr + 1) % 2].next ELSE (d.frame + 1 + IsocMargin) % IsocLen

\* The first descriptor: after those of the other buffer, if it is filled, or in the
\* first frame of the pipe after some margin.
StartIdx(d) ==
    LET s == d.frame + 1 + IsocMargin
        off == (s - ch.offset) % Interval
    IN  IF d.exec # 0 THEN d.blk[(d.wr + 1) % 2].next
        ELSE (IF off > 0 THEN s + Interval - off ELSE s) % IsocLen

Filled(d, t) ==
    CASE ch.ep.type = "ctrl" -> FillCtrl(t)
      [] ch.ep.type = "bulk" -> FillBulk(t)
      [] ch.ep.type = "intr" -> FillIntr(t)
      [] ch.ep.type = "isoc" -> FillIsoc(t, StartIdx(d))

\* Descriptors outside of the list, and the assertions of _buffer_fill_isoc().
Unfit(b) ==
    CASE ch.ep.type = "intr" /\ DOMAIN b.list \ (0..(IntrLen - 1)) # {} -> "overrun"
      [] ch.ep.type = "isoc" /\ b.num > IsocLen - IsocMargin -> "assert"
      [] OTHER -> "none"

Placed(d, u, b) ==
    [d EXCEPT !.pend = Tail(@), !.blk[d.wr] = b, !.xfer[u].st = "inflight",
              !.wr = (@ + 1) % 2, !.fill = @ - 1, !.exec = @ + 1]

DmaFill(d) ==
    LET u == Head(d.pend)
        b == [Filled(d, d.xfer[u].t) EXCEPT !.urb = u]
        e == Placed(d, u, b)
    IN  IF d.blk[d.wr].urb # NoXfer THEN Wrong(e, "filled twice")
        ELSE IF Unfit(b) # "none" THEN Wrong(e, Unfit(b)) ELSE e

CanFill(d) == d.pend # <<>> /\ d.fill > 0
FillOne(d) == IF CanFill(d) THEN DmaFill(d) ELSE d

-----------------------------------------------------------------------------
(* _buffer_exec() and _buffer_exec_cont() *)

CanExec(d) == ~d.running /\ d.exec > 0

DmaExec(d) ==
    IF ~CanExec(d) THEN d
    ELSE [d EXCEPT !.running = TRUE, !.chan = [NoChan EXCEPT !.st = "busy",
                                               !.idx = d.blk[d.rd].start]]

\* _buffer_check_done()
CheckDone(d) == ch.ep.type # "ctrl" \/ d.blk[d.rd].stage = 2

\* After the setup stage a control transfer has a data stage, or goes on to its status.
NextStage(b) == IF b.stage = 0 /\ ~b.skip THEN 1 ELSE 2

ExecCont(d) ==
    LET s == NextStage(d.blk[d.rd])
    IN  [d EXCEPT !.blk[d.rd].stage = s, !.chan = [NoChan EXCEPT !.st = "busy", !.idx = s]]

-----------------------------------------------------------------------------
(* _buffer_done() and _buffer_parse() *)

DoneWith(d, e) ==
    [d EXCEPT !.blk[d.rd] = [@ EXCEPT !.ev = e, !.stop = d.chan.idx],
              !.rd = (@ + 1) % 2, !.exec = @ - 1, !.parse = @ + 1, !.running = FALSE]

\* What the transfer is set to: its status, and the actual number of bytes, of each
\* packet if it is isochronous.
Statuses == [xfer |-> "error", bbl |-> "overflow", stall |-> "stall",
             canceled |-> "canceled", gone |-> "no_device"]

ParseError(b) == [status |-> Statuses[b.ev], actual |-> 0, pkts |-> <<>>]

ParseCtrl(b, t) ==
    [status |-> "completed", pkts |-> <<>>,
     actual |-> IF b.skip THEN SetupSize ELSE t.bytes - b.list[1].rem]

ParseBulk(b, t) == [status |-> "completed", pkts |-> <<>>, actual |-> t.bytes - b.list[0].rem]

\* An IN transfer that stopped early counts as one of full packets but for the last,
\* and two bytes less.
ParseIntr(b, t) ==
    [status |-> "completed", pkts |-> <<>>,
     actual |-> IF ~ch.ep.in THEN t.bytes
                ELSE IF b.stop > 0
                THEN (ch.ep.mps * b.stop - 2) + (ch.ep.mps - b.list[b.stop - 1].rem)
                ELSE t.bytes - b.list[b.num - 1].rem]

\* Each packet has a status of its own.
Packet(t, k, q) ==
    [status |-> CASE q.sts = "ok" -> "completed" [] q.sts = "none" -> "skipped" [] OTHER -> "error",
     actual |-> t.pkts[k] - q.rem]

Total(pkts) == FoldSet(LAMBDA k, n : n + pkts[k].actual, 0, DOMAIN pkts)

ParseIsoc(b, t) ==
    LET at(k) == (b.start + (k - 1) * Interval) % IsocLen
        pkts == [k \in DOMAIN t.pkts |-> Packet(t, k, b.list[at(k)])]
    IN  [status |-> "completed", pkts |-> pkts, actual |-> Total(pkts)]

Parsed(b, t) ==
    CASE b.ev # "done" -> ParseError(b)
      [] ch.ep.type = "ctrl" -> ParseCtrl(b, t)
      [] ch.ep.type = "bulk" -> ParseBulk(b, t)
      [] ch.ep.type = "intr" -> ParseIntr(b, t)
      [] ch.ep.type = "isoc" -> ParseIsoc(b, t)

\* The driver asserts that what precedes the last packet, or the short one, was
\* transmitted in full.
AssertsFull(b) ==
    LET n == IF ~ch.ep.in THEN b.num ELSE IF b.stop > 0 THEN b.stop - 1 ELSE b.num - 1
    IN  ch.ep.type = "intr" /\ b.ev = "done" => \A i \in 0..(n - 1) : b.list[i].rem = 0

DmaParse(d) ==
    LET b == d.blk[d.fr]
        u == b.urb
        r == Parsed(b, d.xfer[u].t)
        e == [d EXCEPT !.xfer[u] = [@ EXCEPT !.st = "done", !.status = r.status,
                                    !.actual = r.actual, !.pkts = r.pkts],
                       !.blk[d.fr] = NoBlock, !.done = Append(@, u),
                       !.fr = (@ + 1) % 2, !.parse = @ - 1, !.fill = @ + 1]
    IN  IF u = NoXfer THEN Wrong(d, "parsed twice")
        ELSE IF b.ev = "bna" THEN Wrong(d, "abort")
        ELSE IF ~AssertsFull(b) THEN Wrong(e, "assert") ELSE e

-----------------------------------------------------------------------------
(* The channel *)

Busy == dma.chan.st = "busy"
Current == dma.blk[dma.rd]
Keep == UNCHANGED <<epVars, env>>

\* What was really transferred is remembered, to be compared with what is told.
Moved(d, n) == [d EXCEPT !.xfer[d.blk[d.rd].urb].moved = Append(@, n)]

Executed(d, i, n, sts) ==
    [d EXCEPT !.blk[d.rd].list[i] = [@ EXCEPT !.rem = @ - n, !.sts = sts]]

Stops(d, st, i) == [d EXCEPT !.chan.st = st, !.chan.idx = i % d.blk[d.rd].last]

\* How much of a descriptor is transferred: a device may send less than is asked for.
Answers(q) ==
    IF ~q.in \/ q.len = 0 THEN {q.len}
    ELSE {n \in {0, q.len - 1, q.len} : ch.ep.type = "ctrl" => n <= dma.xfer[Current.urb].t.w}

\* A descriptor that is not isochronous is executed.  (A short packet before the last
\* one of an interrupt transfer is a matter of the environment "short".)
ChanStep ==
    /\ Busy /\ ch.conn /\ ch.ep.type # "isoc"
    /\ LET i == dma.chan.idx
           q == Current.list[i]
       IN  IF i \notin DOMAIN Current.list
           THEN dma' = [dma EXCEPT !.chan.st = "error", !.chan.why = "bna"]
           ELSE \E n \in Answers(q) :
                  /\ ch.ep.type = "intr" /\ n < q.len /\ ~q.hoc => "short" \in Uses
                  /\ LET d == Executed(Moved(dma, n), i, n, "ok")
                     IN  dma' = IF q.hoc \/ n < q.len THEN Stops(d, "cplt", i + 1)
                                ELSE [d EXCEPT !.chan.idx = i + 1]
    /\ UNCHANGED ch /\ Keep

\* Errors that are not of a single isochronous packet
ChanFails(why) ==
    /\ "errors" \in Uses /\ Busy /\ ch.conn /\ ch.ep.type # "isoc"
    /\ ch.waits => "late" \in Uses
    /\ dma' = [dma EXCEPT !.chan.st = "error", !.chan.why = why]
    /\ UNCHANGED ch /\ Keep

\* A frame: if it is the next descriptor's, the packet is transferred, fails, or is
\* skipped.
Frame ==
    /\ ch.st # "none" /\ ch.ep.type = "isoc" /\ ch.conn
    /\ LET i == dma.frame
           d == [dma EXCEPT !.frame = (i + 1) % IsocLen]
       IN  IF ~(Busy /\ i = dma.chan.idx) THEN dma' = d
           ELSE \E sts \in {"ok", "none"} \cup (IF "errors" \in Uses THEN {"pkterr"} ELSE {}) :
                  LET q == Current.list[i]
                      n == IF sts = "ok" THEN q.len ELSE 0
                      f == Executed(Moved(d, n), i, n, sts)
                  IN  dma' = IF q.hoc THEN Stops(f, "cplt", i + 1)
                             ELSE [f EXCEPT !.chan.idx = (i + Interval) % IsocLen]
    /\ UNCHANGED ch /\ Keep

\* The channel is off, and the buffer that it worked on marked.
ChanOff(d, e) == [DoneWith(d, e) EXCEPT !.chan = NoChan]

\* _intr_hdlr_chan(): the list is done; a control transfer goes on with its next
\* stage, or the other buffer is executed, this one parsed, and another one filled.
IntrComplete ==
    /\ dma.chan.st = "cplt" /\ ~ch.waits
    /\ dma' = IF ~CheckDone(dma) THEN ExecCont(dma)
              ELSE LET d == ChanOff(dma, "done")
                   IN  IF ch.conn THEN FillOne(DmaParse(DmaExec(d))) ELSE DmaParse(d)
    /\ UNCHANGED ch /\ Keep

\* An error halts the pipe.  Nobody who waits for that is notified.
IntrError ==
    /\ dma.chan.st = "error"
    /\ LET d == DmaParse(ChanOff(dma, dma.chan.why))
       IN  dma' = IF ch.waits THEN Wrong(d, "waits") ELSE d
    /\ ch' = [ch EXCEPT !.st = "halted"]
    /\ Keep

\* The channel has halted as requested, if only after it was done.
IntrHalted ==
    /\ ch.waits /\ dma.chan.st \in {"busy", "cplt"}
    /\ dma' = DmaParse(ChanOff(dma, "canceled"))
    /\ ch' = [ch EXCEPT !.st = "halted", !.waits = FALSE]
    /\ Keep

-----------------------------------------------------------------------------
(* What the USBH calls *)

\* urb_check_args() and transfer_check_usb_compliance()
Complies(t) ==
    CASE ch.ep.type = "ctrl" ->
           IF t.in THEN t.bytes >= SetupSize + t.w ELSE t.bytes = SetupSize + t.w
      [] ch.ep.type = "isoc" ->
           /\ t.pkts # <<>> /\ t.bytes = FoldSeq(+, 0, t.pkts)
           /\ ch.ep.in => \A k \in DOMAIN t.pkts : t.pkts[k] % ch.ep.mps = 0
      [] OTHER -> ch.ep.in => t.bytes % ch.ep.mps = 0

\* The transfer fits into the list, as hcd_urb_enqueue() has it.
Fits(t) == ch.ep.type = "isoc" => Len(t.pkts) * ch.interval <= IsocLen

\* An URB becomes the last of the pending ones.
Submitted(d, u, t) ==
    [d EXCEPT !.pend = Append(@, u), !.hasUrb = TRUE,
              !.xfer[u] = [st |-> "pending", t |-> t, moved |-> <<>>, status |-> "none",
                           actual |-> 0, pkts |-> <<>>]]

\* hcd_urb_enqueue() by usbh_ep_enqueue_urb(): the URB is submitted, or deferred
\* while the port is suspended.
UrbEnqueue(u, t) ==
    /\ dma.xfer[u].st = "idle" /\ ch.st # "none" /\ ch.conn /\ ~ch.waits
    /\ Complies(t) /\ Fits(t)
    /\ ch.asleep <=> ch.st = "halted"
    /\ LET d == Submitted(dma, u, t)
       IN  dma' = IF ch.asleep THEN d ELSE DmaExec(FillOne(d))
    /\ UNCHANGED ch /\ Keep

IdleXfer == [st |-> "idle", t |-> NoTransfer, moved |-> <<>>, status |-> "none",
             actual |-> 0, pkts |-> <<>>]

\* hcd_urb_dequeue()
Taken(d) ==
    [d EXCEPT !.done = Tail(@), !.xfer[Head(d.done)] = IdleXfer,
              !.hasUrb = ~(d.pend = <<>> /\ Len(d.done) = 1 /\ d.exec = 0 /\ d.parse = 0)]

UrbDequeue ==
    /\ dma.done # <<>>
    /\ dma' = Taken(dma)
    /\ UNCHANGED ch /\ Keep

\* hcd_urb_abort(): only what is pending, which goes ahead of what is not.
UrbAbort(u) ==
    /\ "abort" \in Uses /\ dma.xfer[u].st = "pending"
    /\ dma' = [dma EXCEPT !.pend = SelectSeq(@, LAMBDA v : v # u), !.done = Append(@, u),
                 !.xfer[u].st = "done",
                 !.xfer[u].status = IF ch.ep.type = "isoc" THEN @ ELSE "canceled"]
    /\ UNCHANGED ch /\ Keep

\* _pipe_cmd_halt() waits for a channel that is active.
PipeHalt ==
    /\ ch.st = "active" /\ ~ch.waits
    /\ IF ch.conn /\ dma.chan.st # "off"
       THEN /\ dma.chan.st = "error" => "late" \in Uses
            /\ ch' = [ch EXCEPT !.waits = TRUE] /\ UNCHANGED dma
       ELSE /\ ch' = [ch EXCEPT !.st = "halted"]
            /\ dma' = [dma EXCEPT !.chan = NoChan]
    /\ Keep

\* _pipe_cmd_flush(): _buffer_flush_all(), and then what is pending.
FlushBuffers(d, why) ==
    LET marked == IF d.exec = 0 THEN d
                  ELSE IF d.exec = 1 THEN DoneWith(d, why) ELSE DoneWith(DoneWith(d, why), why)
    IN  IF marked.parse = 0 THEN marked
        ELSE IF marked.parse = 1 THEN DmaParse(marked) ELSE DmaParse(DmaParse(marked))

FlushPending(d, why) ==
    [d EXCEPT !.done = @ \o d.pend, !.pend = <<>>,
              !.xfer = [u \in Xfer |-> IF ~(\E i \in DOMAIN d.pend : d.pend[i] = u) THEN @[u]
                                       ELSE [@[u] EXCEPT !.st = "done", !.status = Statuses[why]]]]

PipeFlush ==
    /\ ch.st = "halted" /\ ~ch.waits
    /\ LET why == IF ch.conn THEN "canceled" ELSE "gone"
       IN  dma' = FlushPending(FlushBuffers(dma, why), why)
    /\ UNCHANGED ch /\ Keep

\* _pipe_cmd_clear(): as many buffers are filled as there are.
PipeClear ==
    /\ ch.st = "halted" /\ ch.conn /\ ~ch.waits /\ ~ch.asleep
    /\ ch' = [ch EXCEPT !.st = "active"]
    /\ dma' = DmaExec(FillOne(FillOne(dma)))
    /\ Keep

\* The port is suspended when its pipes are halted, is resumed, and loses its device.
PortSuspend ==
    /\ "suspend" \in Uses /\ ch.conn /\ ch.st = "halted" /\ ~ch.waits
    /\ ch' = [ch EXCEPT !.asleep = ~@]
    /\ UNCHANGED dma /\ Keep

PortLost ==
    /\ "unplug" \in Uses /\ ch.conn /\ ch.st # "none" /\ ~ch.waits
    /\ ch' = [ch EXCEPT !.conn = FALSE, !.asleep = FALSE]
    /\ UNCHANGED dma /\ Keep

-----------------------------------------------------------------------------
DmaInit ==
    /\ ch = [st |-> "none", ep |-> [type |-> "none", in |-> FALSE, mps |-> 1, bInterval |-> 0,
                                    speed |-> "full", port |-> "full"],
             interval |-> 0, offset |-> 0, conn |-> "buffers" \in Uses, asleep |-> FALSE,
             waits |-> FALSE]
    /\ dma = [pend |-> <<>>, done |-> <<>>, fill |-> 2, exec |-> 0, parse |-> 0,
              wr |-> 0, rd |-> 0, fr |-> 0, running |-> FALSE, hasUrb |-> FALSE,
              blk |-> [i \in Slot |-> NoBlock], xfer |-> [u \in Xfer |-> IdleXfer],
              chan |-> NoChan, frame |-> 0, flaw |-> "none"]

ChannelStep == ChanStep \/ Frame \/ IntrComplete \/ IntrError \/ IntrHalted

\* Nothing runs on after a failed assertion.
DmaNext ==
    /\ dma.flaw = "none"
    /\ \/ ChannelStep \/ \E why \in {"xfer", "bbl", "stall"} : ChanFails(why)
       \/ \E e \in env.pipes, i \in env.index : PipeAlloc(e, i)
       \/ PipeFree \/ \E n \in env.mps : UpdateMps(n)
       \/ \E u \in env.ids : UrbAbort(u) \/ \E t \in env.xfers : UrbEnqueue(u, t)
       \/ UrbDequeue \/ PipeHalt \/ PipeFlush \/ PipeClear \/ PortSuspend \/ PortLost

\* The transfers that the pipe holds, in their order
DmaQueue ==
    dma.done \o [k \in 1..(dma.parse + dma.exec) |-> dma.blk[(dma.fr + k - 1) % 2].urb] \o dma.pend

-----------------------------------------------------------------------------
(* Properties *)

\* A transfer that was completed is told to have moved what it moved.
Exact(x) ==
    x.st = "done" /\ x.status = "completed" =>
        /\ x.actual = FoldSeq(+, 0, x.moved)
        /\ ch.ep.type = "isoc" => [k \in DOMAIN x.pkts |-> x.pkts[k].actual] = x.moved

\* Two buffers are used in turn, and each URB is in one place.
InTurn ==
    /\ dma.fill + dma.exec + dma.parse = 2
    /\ dma.wr = (dma.rd + dma.exec) % 2 /\ dma.rd = (dma.fr + dma.parse) % 2
    /\ \A i \in Slot : dma.blk[i].urb = NoXfer
          <=> \A k \in 0..(dma.exec + dma.parse - 1) : i # (dma.fr + k) % 2
    /\ \A u \in Xfer :
          Cardinality({i \in DOMAIN dma.pend : dma.pend[i] = u}
                      \cup {3 + i : i \in {j \in Slot : dma.blk[j].urb = u}}
                      \cup {-i : i \in {j \in DOMAIN dma.done : dma.done[j] = u}})
            = IF dma.xfer[u].st = "idle" THEN 0 ELSE 1

\* A pipe that is active and has transfers is executing one.
KeepsExecuting ==
    ch.st = "active" /\ ch.conn => (dma.running <=> dma.pend # <<>> \/ dma.exec > 0)

\* An isochronous list starts in a frame of the pipe.
OnSchedule ==
    ch.st # "none" /\ ch.ep.type = "isoc" =>
        \A i \in Slot : dma.blk[i].urb # NoXfer => (dma.blk[i].start - ch.offset) % Interval = 0

\* The pipe's buffers are used in turn, in the right frames, and for what was
\* transferred, and no assertion about them fails.
DmaConsistent ==
    /\ dma.flaw = "none" /\ InTurn /\ KeepsExecuting /\ OnSchedule
    /\ \A u \in Xfer : Exact(dma.xfer[u])
    /\ dma.hasUrb <=> \E u \in Xfer : dma.xfer[u].st # "idle"

=============================================================================
