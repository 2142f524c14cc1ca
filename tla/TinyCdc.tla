------------------------------- MODULE TinyCdc -------------------------------
(***************************************************************************)
(* The serial line of a device: the CDC objects (cdc.c), their CDC-ACM     *)
(* callbacks (tinyusb_cdc_acm.c), the file system over them                *)
(* (vfs_tinyusb.c) and the console (tinyusb_console.c), which moves the    *)
(* standard streams to it.                                                 *)
(*                                                                         *)
(* Three tasks: "usb" runs the stack, which calls back; "app" sets the     *)
(* line up and uses it; "log" only prints.  A character is "a", or a line  *)
(* ending: "n" in a program, "cr" and "lf" on the line.                    *)
(***************************************************************************)
EXTENDS Board

beside == <<mscVars, netVars, tcVars, env>>

EndingMode == {"CRLF", "CR", "LF"}
Stream   == {"in", "out", "err"}
CdcEvent == {"rx", "state", "coding"}
Printer  == {"app", "log"}
Room     == 3       \* of each FIFO

AcmType == [cdc : BOOLEAN, sub : {"null", "alive", "freed"}, gen : 0..MaxPlugs,
            cbs : SUBSET CdcEvent]
VfsType == [reg : BOOLEAN, set : BOOLEAN, tx : EndingMode, rx : EndingMode,
            std : [Stream -> {"uart", "usb", "closed"}],
            lock : Printer \cup {"free"}]
\* out: all that went to the host; due: what the printers count as written, as it
\* should arrive; heard: all that the application read, as it should have come.
SerType == [open : BOOLEAN, plugs : 0..MaxPlugs, told : {"none", "open", "closed"},
            tx : Seq({"a", "cr", "lf"}), out : Seq({"a", "cr", "lf"}), due : Seq({"a", "cr", "lf"}),
            rx : Seq({"a", "cr", "lf"}), typed : Seq({"a", "cr", "lf"}), heard : Seq({"a", "cr", "lf"}),
            evs : Seq([ev : CdcEvent, open : BOOLEAN])]
JobType == [at : {"idle", "alloc", "hook", "dealloc", "redirect", "restore", "unregister",
                  "write", "fetch", "callback"},
            todo : Seq({"a", "n"}), cr : BOOLEAN, left : SUBSET Stream,
            ev : [ev : CdcEvent, open : BOOLEAN], gen : 0..MaxPlugs]

CdcTypeOK ==
    /\ acm \in AcmType /\ vfs \in VfsType /\ ser \in SerType
    /\ job \in [Printer \cup {"usb"} -> JobType]

-----------------------------------------------------------------------------

NoJob == [at |-> "idle", todo |-> <<>>, cr |-> FALSE, left |-> {},
          ev |-> [ev |-> "rx", open |-> FALSE], gen |-> 0]

Doing(t, p)  == job[t].at = p
Does(t, p)   == job' = [job EXCEPT ![t].at = p]
Leave(t)     == job' = [job EXCEPT ![t] = [NoJob EXCEPT !.todo = job[t].todo]]
Ill(b)       == ill' = IF ill = "none" THEN b ELSE ill

\* get_acm() gives a pointer, if there is an object ...
HasAcm == acm.cdc /\ acm.sub # "null"
\* ... which is good for as long as the object lives.
Stale(gen) == acm.sub # "alive" \/ acm.gen # gen

\* A line ending on the line, and a text.
Ending(mode) == CASE mode = "CRLF" -> <<"cr", "lf">> [] mode = "CR" -> <<"cr">> [] OTHER -> <<"lf">>
OnLine(c, mode) == IF c = "n" THEN Ending(mode) ELSE <<c>>

\* Nobody calls back, and nothing is to be called back for.
Silent == Doing("usb", "idle") /\ ser.evs = <<>>
Careful(u) == Silent \/ InUse(u)

-----------------------------------------------------------------------------
(* The application sets the line up. *)

Calling(u) == InUse(u) /\ Doing("app", "idle")

\* tinyusb_cdcacm_init(): tinyusb_cdc_init() refuses an interface in use ...
AcmInit ==
    /\ Calling("serial") /\ acm.gen < MaxPlugs /\ ~acm.cdc
    /\ acm' = [acm EXCEPT !.cdc = TRUE, !.sub = "null", !.gen = @ + 1, !.cbs = {}]
    /\ ser' = [ser EXCEPT !.told = "none"]
    /\ Does("app", "alloc")
    /\ UNCHANGED <<vfs, ill, beside>>

\* ... and if there is no memory for its CDC-ACM object it is released.
AcmAlloc ==
    /\ Doing("app", "alloc")
    /\ \/ acm' = [acm EXCEPT !.sub = "alive"] /\ Does("app", "hook")
       \/ acm' = [acm EXCEPT !.cdc = FALSE] /\ Does("app", "idle")
    /\ UNCHANGED <<vfs, ser, ill, beside>>

\* The callbacks are registered one by one, in the order of the configuration.
AcmHook ==
    /\ Doing("app", "hook")
    /\ LET missing == CdcEvent \ acm.cbs
           next == IF "rx" \in missing THEN "rx" ELSE IF "state" \in missing THEN "state" ELSE "coding"
       IN  IF missing = {} \/ ~InUse("hooks")
           THEN Does("app", "idle") /\ UNCHANGED acm
           ELSE acm' = [acm EXCEPT !.cbs = @ \cup {next}] /\ UNCHANGED job
    /\ UNCHANGED <<vfs, ser, ill, beside>>

\* tinyusb_cdcacm_register_callback(), tinyusb_cdcacm_unregister_callback()
Hook(e) ==
    /\ Calling("rehook") /\ HasAcm /\ Careful("restless")
    /\ acm' = [acm EXCEPT !.cbs = IF e \in @ THEN @ \ {e} ELSE @ \cup {e}]
    /\ ser' = IF e = "state" THEN [ser EXCEPT !.told = "none"] ELSE ser
    /\ UNCHANGED <<vfs, job, ill, beside>>

\* tinyusb_cdcacm_deinit(): the CDC-ACM object is freed first, and the object that
\* refers to it after that.
AcmDeinit ==
    /\ Calling("deinit") /\ Careful("restless") /\ HasAcm
    /\ vfs.reg => InUse("under")
    /\ acm' = [acm EXCEPT !.sub = "freed", !.cbs = {}]
    /\ Does("app", "dealloc")
    /\ UNCHANGED <<vfs, ser, ill, beside>>

CdcDeinit ==
    /\ Doing("app", "dealloc")
    /\ acm' = [acm EXCEPT !.cdc = FALSE, !.sub = "null"]
    /\ Does("app", "idle")
    /\ UNCHANGED <<vfs, ser, ill, beside>>

\* tinyusb_console_init(), esp_vfs_tusb_cdc_register(): s_vfstusb is filled before
\* the registration, which may fail.
Register ==
    /\ Calling("console") /\ HasAcm /\ ~vfs.reg
    /\ \E mode \in EndingMode : \E ok \in BOOLEAN :
         /\ InUse(mode)
         /\ vfs' = [vfs EXCEPT !.reg = ok, !.set = TRUE, !.tx = mode, !.rx = mode]
         /\ job' = IF ok THEN [job EXCEPT !["app"].at = "redirect", !["app"].left = Stream] ELSE job
    /\ UNCHANGED <<acm, ser, ill, beside>>

\* The standard streams are opened anew one by one, those before the first failure.
Upcoming(left) == CHOOSE s \in left : s = "in" \/ ("in" \notin left /\ (s = "out" \/ "out" \notin left))

Move(to, from, next) ==
    /\ Doing("app", from) /\ job["app"].left # {}
    /\ LET s == Upcoming(job["app"].left)
       IN  /\ Ill(IF from = "restore" /\ vfs.std[s] = "closed" THEN "null stream" ELSE "none")
           /\ \E ok \in BOOLEAN :
                /\ ok \/ InUse("noFile")
                /\ vfs' = [vfs EXCEPT !.std[s] = IF ok THEN to ELSE "closed"]
                /\ job' = [job EXCEPT !["app"].left = @ \ {s},
                             !["app"].at = IF ~ok THEN "idle" ELSE IF job["app"].left = {s} THEN next ELSE from]
    /\ UNCHANGED <<acm, ser, beside>>

\* Bug: the file system is unregistered before the streams have left it.
ConsoleDeinit_Early ==
    /\ Calling("console") /\ vfs.reg
    /\ vfs' = [vfs EXCEPT !.reg = FALSE]
    /\ job' = [job EXCEPT !["app"].at = "restore", !["app"].left = Stream]
    /\ UNCHANGED <<acm, ser, ill, beside>>

\* tinyusb_console_deinit()
ConsoleDeinit ==
    /\ Calling("console") /\ vfs.reg
    /\ job' = [job EXCEPT !["app"].at = "restore", !["app"].left = Stream]
    /\ UNCHANGED <<acm, vfs, ser, ill, beside>>

\* esp_vfs_tusb_cdc_unregister(): s_vfstusb is cleared with its locks, whoever is in
\* a function of the file system.
Unregister ==
    /\ Doing("app", "unregister")
    /\ vfs.lock # "free" => InUse("under")
    /\ Ill(IF vfs.lock # "free" THEN "lock" ELSE "none")
    /\ vfs' = [vfs EXCEPT !.reg = FALSE, !.set = FALSE, !.lock = "free"]
    /\ Does("app", "idle")
    /\ UNCHANGED <<acm, ser, beside>>

\* esp_vfs_tusb_cdc_set_rx_line_endings(), esp_vfs_tusb_cdc_set_tx_line_endings()
SetEndings ==
    /\ Calling("endings") /\ vfs.reg /\ vfs.lock = "free" /\ ser.rx = <<>>
    /\ \E mode \in EndingMode : InUse(mode) /\ (vfs' = [vfs EXCEPT !.rx = mode] \/ vfs' = [vfs EXCEPT !.tx = mode])
    /\ UNCHANGED <<acm, ser, job, ill, beside>>

-----------------------------------------------------------------------------
(* Writing and reading *)

\* tinyusb_cdcacm_write_flush() is successful once the FIFO is empty.
Flushed == ser.tx = <<>>

\* tusb_write(), of what is left of a text, under the write lock.
WriteBegin(t) ==
    /\ InUse("print") /\ Doing(t, "idle") /\ vfs.std["out"] = "usb" /\ vfs.reg /\ vfs.lock = "free"
    /\ Len(ser.due) <= MaxText
    /\ InUse("CRLF") => (Flushed \/ InUse("tight"))
    /\ vfs' = [vfs EXCEPT !.lock = t]
    /\ job' = [job EXCEPT ![t] = [NoJob EXCEPT !.at = "write",
                 !.todo = IF job[t].todo = <<>> THEN <<"a", "n">> ELSE job[t].todo]]
    /\ UNCHANGED <<acm, ser, ill, beside>>

\* tinyusb_cdcacm_write_queue_char() of a byte.
Fits == HasAcm /\ Len(ser.tx) < Room

\* The bytes of the next character that are not queued yet.
Bytes(t) ==
    LET all == OnLine(Head(job[t].todo), vfs.tx) IN IF job[t].cr THEN Tail(all) ELSE all

\* A character counts as written when its last byte is queued.
WriteByte(t) ==
    /\ Doing(t, "write") /\ job[t].todo # <<>> /\ Fits
    /\ LET b == Bytes(t)
           whole == Len(b) = 1
       IN  /\ ser' = [ser EXCEPT !.tx = Append(@, b[1]),
                        !.due = IF whole THEN @ \o OnLine(Head(job[t].todo), vfs.tx) ELSE @]
           /\ job' = [job EXCEPT ![t].cr = ~whole, ![t].todo = IF whole THEN Tail(@) ELSE @]
    /\ UNCHANGED <<acm, vfs, ill, beside>>

\* Everything is written, or a byte was refused; the writer is told how many
\* characters were written and may write the rest later.
WriteEnd(t) ==
    /\ Doing(t, "write")
    /\ job[t].todo = <<>> \/ ~Fits
    /\ vfs' = [vfs EXCEPT !.lock = "free"]
    /\ Leave(t)
    /\ UNCHANGED <<acm, ser, ill, beside>>

\* tinyusb_cdcacm_write_queue(): as much as there is room for.
WriteQueue ==
    /\ Calling("raw") /\ HasAcm /\ Len(ser.due) < MaxText
    /\ LET n == IF Room - Len(ser.tx) < 2 THEN Room - Len(ser.tx) ELSE 2
           text == [i \in 1..n |-> "a"]
       IN  ser' = [ser EXCEPT !.tx = @ \o text, !.due = @ \o text]
    /\ UNCHANGED <<acm, vfs, job, ill, beside>>

\* What a read of at most size characters takes from the FIFO: it stops behind a line
\* ending, and makes one character of a "cr" and the "lf" that has arrived behind it.
Pair(i)  == vfs.rx = "CRLF" /\ i > 1 /\ ser.rx[i] = "lf" /\ ser.rx[i - 1] = "cr"
Stops(i) == ser.rx[i] = "lf" \/ (vfs.rx = "CR" /\ ser.rx[i] = "cr")

Taken(size) ==
    LET given(i) == Cardinality({k \in 1..i : ~Pair(k)})
        fits == {i \in 1..Len(ser.rx) : given(i) <= size /\ \A k \in 1..(i - 1) : ~Stops(k)}
    IN  CHOOSE i \in fits : \A k \in fits : k <= i

\* tusb_read().  A line ending that is read in two parts is not converted.
VfsRead(size) ==
    /\ Calling("keys") /\ vfs.std["in"] = "usb" /\ vfs.reg /\ ser.rx # <<>>
    /\ ser' = [ser EXCEPT !.rx = SubSeq(@, Taken(size) + 1, Len(@)),
                          !.heard = @ \o SubSeq(ser.rx, 1, Taken(size))]
    /\ Ill(IF vfs.rx = "CRLF" /\ ser.rx[1] = "lf" /\ ser.heard # <<>> /\ ser.heard[Len(ser.heard)] = "cr"
           THEN "torn" ELSE "none")
    /\ UNCHANGED <<acm, vfs, job, beside>>

-----------------------------------------------------------------------------
(* The stack's task *)

\* tud_cdc_line_state_cb(), tud_cdc_rx_cb(), tud_cdc_line_coding_cb(),
\* tud_cdc_rx_wanted_cb(): the object is looked up, ...
Callback ==
    /\ Doing("usb", "idle") /\ ser.evs # <<>>
    /\ ser' = [ser EXCEPT !.evs = Tail(@)]
    /\ job' = IF HasAcm THEN [job EXCEPT !["usb"] = [NoJob EXCEPT !.at = "fetch", !.ev = Head(ser.evs),
                                                       !.gen = acm.gen]]
              ELSE job
    /\ UNCHANGED <<acm, vfs, ill, beside>>

\* ... the callback is fetched from it under the spinlock ...
Fetch ==
    /\ Doing("usb", "fetch")
    /\ Ill(IF Stale(job["usb"].gen) THEN "freed" ELSE "none")
    /\ Does("usb", IF job["usb"].ev.ev \in acm.cbs THEN "callback" ELSE "idle")
    /\ UNCHANGED <<acm, vfs, ser, beside>>

\* ... and called, without it.  The application's callback for data reads them all
\* with tinyusb_cdcacm_read().
CallBack ==
    /\ Doing("usb", "callback")
    /\ LET e == job["usb"].ev
       IN  /\ Ill(IF e.ev \notin acm.cbs THEN "late" ELSE "none")
           /\ ser' = IF e.ev = "rx" /\ HasAcm
                     THEN [ser EXCEPT !.rx = <<>>, !.heard = @ \o ser.rx]
                     ELSE IF e.ev = "state"
                     THEN [ser EXCEPT !.told = IF e.open THEN "open" ELSE "closed"]
                     ELSE ser
    /\ Does("usb", "idle")
    /\ UNCHANGED <<acm, vfs, beside>>

-----------------------------------------------------------------------------
(* The host *)

Raised(e, open) == Append(ser.evs, [ev |-> e, open |-> open])

\* A terminal is opened; closed, too, and its line coding set, where that is called
\* back for.
Terminal ==
    /\ InUse("serial") /\ ser.plugs < MaxPlugs /\ Len(ser.evs) < 2
    /\ Doing("app", "dealloc") => InUse("restless")
    /\ ser.open => InUse("hooks") \/ InUse("rehook")
    /\ \/ ser' = [ser EXCEPT !.open = ~@, !.plugs = @ + 1, !.evs = Raised("state", ~ser.open)]
       \/ ser.open /\ ser' = [ser EXCEPT !.plugs = @ + 1, !.evs = Raised("coding", ser.open)]
    /\ UNCHANGED <<acm, vfs, job, ill, beside>>

\* A packet is typed, when there is room for it.  A line ending is one packet, or not.
Type(text) ==
    /\ ser.open /\ Len(ser.rx) + Len(text) <= Room /\ Len(ser.evs) < 2
    /\ Len(ser.typed) + Len(text) <= MaxText
    /\ HasAcm /\ Doing("app", "idle")
    /\ InUse("hooks") \/ InUse("keys")
    /\ ser' = [ser EXCEPT !.rx = @ \o text, !.typed = @ \o text, !.evs = Raised("rx", TRUE)]
    /\ UNCHANGED <<acm, vfs, job, ill, beside>>

\* It takes what is sent.
Receive ==
    /\ ser.open /\ ser.tx # <<>>
    /\ ser' = [ser EXCEPT !.tx = Tail(@), !.out = Append(@, Head(ser.tx))]
    /\ UNCHANGED <<acm, vfs, job, ill, beside>>

CdcHost ==
    \/ Terminal \/ Receive
    \/ \E text \in {<<"a">>, Ending(vfs.rx)} \cup
                    (IF InUse("split") THEN {<<"cr">>, <<"lf">>} ELSE {}) : Type(text)

-----------------------------------------------------------------------------

CdcInit ==
    /\ acm = [cdc |-> FALSE, sub |-> "null", gen |-> 0, cbs |-> {}]
    /\ vfs = [reg |-> FALSE, set |-> FALSE, tx |-> "LF", rx |-> "LF",
              std |-> [s \in Stream |-> "uart"], lock |-> "free"]
    /\ ser = [open |-> FALSE, plugs |-> 0, told |-> "none", tx |-> <<>>, out |-> <<>>, due |-> <<>>,
              rx |-> <<>>, typed |-> <<>>, heard |-> <<>>, evs |-> <<>>]
    /\ job = [t \in Printer \cup {"usb"} |-> NoJob]
    /\ ill = "none"

UsbStep == Callback \/ Fetch \/ CallBack
AcmStep == AcmAlloc \/ AcmHook \/ CdcDeinit \/ Move("usb", "redirect", "idle")
           \/ Move("uart", "restore", "unregister") \/ Unregister
AcmCall == AcmInit \/ AcmDeinit \/ Register \/ ConsoleDeinit \/ SetEndings \/ WriteQueue
           \/ (\E e \in CdcEvent : Hook(e)) \/ (\E size \in {1, Room} : VfsRead(size))
Printing(t) == WriteByte(t) \/ WriteEnd(t)

CdcNext ==
    \/ UsbStep \/ AcmStep \/ AcmCall \/ CdcHost
    \/ \E t \in Printer : WriteBegin(t) \/ Printing(t)

\* FreeRTOS runs the tasks; what is called is up to them.
CdcFair == WF_vars(UsbStep) /\ WF_vars(AcmStep) /\ \A t \in Printer : WF_vars(Printing(t))

-----------------------------------------------------------------------------
(* Properties *)

\* The host gets what the printers were told was written, character by character, and
\* no part of a line ending but that of a printer that is at it.
Begun(t) == IF Doing(t, "write") /\ job[t].cr THEN <<"cr">> ELSE <<>>
AllArrives == ser.out \o ser.tx = ser.due \o Begun("app") \o Begun("log")

\* The application reads what was typed.
AllIsHeard == ser.heard \o ser.rx = ser.typed

\* A standard stream is on the serial line only while that is registered.
StreamsAreReal == \A s \in Stream : vfs.std[s] = "usb" => vfs.reg

\* At rest the application has been told of the terminal whatever it was told last.
TerminalIsTold ==
    (Silent /\ ser.told # "none" /\ "state" \in acm.cbs) => ser.told = IF ser.open THEN "open" ELSE "closed"

CdcConsistent ==
    /\ CdcTypeOK /\ ill = "none"
    /\ AllArrives /\ AllIsHeard /\ StreamsAreReal /\ TerminalIsTold

\* No call is under way, nothing is to be called back, and what a callback is told of
\* has been read.
CdcDone ==
    /\ \A t \in Printer \cup {"usb"} : Doing(t, "idle")
    /\ ser.evs = <<>>
    /\ ("rx" \in acm.cbs /\ ~InUse("rehook")) => ser.rx = <<>>

=============================================================================
