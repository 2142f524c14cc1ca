--------------------------------- MODULE Uvc ---------------------------------
(***************************************************************************)
(* The host's UVC class driver (usb_host_uvc): the video streams of one    *)
(* camera, the driver's task, which handles the client's events and calls  *)
(* the transfers' callbacks, and the application's task, which opens,      *)
(* starts, stops and closes streams and returns the frames it was given.   *)
(* All streams share one control transfer and one mutex.                   *)
(***************************************************************************)
EXTENDS Naturals, UvcDescriptors, FiniteSetsExt

-----------------------------------------------------------------------------
(***************************************************************************)
(* One video stream of the UVC class driver (uvc_stream_t): its USB        *)
(* transfers, its frame buffers, and what a packet does to the frame that  *)
(* is being received.  Frame buffers are counted: empty ones are in        *)
(* empty_fb_queue, held ones are with the user.  The content of the        *)
(* current frame is reduced to one bit: whether it has everything since    *)
(* its first packet.                                                       *)
(***************************************************************************)

CONSTANTS
    XferNum,    \* number_of_urbs
    FrameNum    \* number_of_frame_buffers

ASSUME StreamConstants == XferNum \in Nat \ {0} /\ FrameNum \in Nat

Xfer  == 1..XferNum
\* ok, err: completed, well or not; no: cancelled, or the device is gone.
Done  == {"ok", "err", "no"}

StreamType ==
    [st : {"none", "opening", "listed"}, claimed : BOOLEAN, streaming : BOOLEAN, told : BOOLEAN,
     cur : BOOLEAN, whole : BOOLEAN, empty : 0..FrameNum, held : 0..FrameNum,
     skip : BOOLEAN, fresh : BOOLEAN, next : {"sof", "data", "eof"},
     x : [Xfer -> {"idle", "flight"} \cup Done]]

NoStream ==
    [st |-> "none", claimed |-> FALSE, streaming |-> FALSE, told |-> FALSE,
     cur |-> FALSE, whole |-> FALSE, empty |-> 0, held |-> 0,
     skip |-> FALSE, fresh |-> TRUE, next |-> "sof", x |-> [k \in Xfer |-> "idle"]]

-----------------------------------------------------------------------------
(* Frame buffers *)

\* uvc_host_frame_return() of the current frame, if there is one
CurReturned(s) == [s EXCEPT !.cur = FALSE, !.empty = IF s.cur THEN @ + 1 ELSE @]

\* uvc_frame_are_all_returned()
AllReturned(s) == s.empty = FrameNum

\* uvc_host_frame_return() of a frame that the user holds
UserReturned(s) == [s EXCEPT !.held = @ - 1, !.empty = @ + 1]

\* Bug: the frame that is being received stays with the stream.
Paused_Frame(s) == [s EXCEPT !.streaming = FALSE]

\* uvc_host_stream_pause(): a stream that is paused already is left alone.
Paused(s) == IF s.streaming THEN CurReturned([s EXCEPT !.streaming = FALSE]) ELSE s

\* uvc_host_stream_unpause(), before it submits the transfers.  current_frame_id is set to
\* a value that no packet has: the next packet begins a frame.
Unpaused(s) == [s EXCEPT !.streaming = TRUE, !.fresh = TRUE, !.next = "sof"]

-----------------------------------------------------------------------------
(* Packets.  A packet begins a frame if its frame ID is a new one ("new"). *)

\* A packet with an error, or with an invalid header.
Skipped(s) == [s EXCEPT !.skip = TRUE, !.whole = FALSE]

NeedsFrame(s) == s.streaming /\ ~s.cur

\* A frame begins, in an isochronous stream: a frame whose end was missed is thrown away
\* and the new one is skipped.  first: the packet is the first of the camera's frame.
IsocBegun(s, valid, first) ==
    [s EXCEPT !.fresh = FALSE, !.skip = ~valid \/ ~NeedsFrame(s), !.whole = first]

\* A frame begins, in a bulk stream: the frame buffer is used again.
BulkBegun(s, first) == [s EXCEPT !.skip = FALSE, !.next = "data", !.whole = first]

\* uvc_frame_get_empty()
FrameGot(s) == IF s.empty > 0 THEN [s EXCEPT !.cur = TRUE, !.empty = @ - 1] ELSE [s EXCEPT !.cur = FALSE, !.skip = TRUE]

\* uvc_frame_add_data(), which fails if there is no frame, or if the data does not fit.
DataAdded(s, fits) ==
    IF s.skip \/ (s.cur /\ fits) THEN s ELSE Skipped(s)

\* The end of a frame: is it passed to the user?  The stream gives it up in any case.
Deliverable(s) == s.streaming /\ s.cur /\ ~s.skip

\* What the user's frame callback does: the frame is kept or returned.
Delivered(s, keep) ==
    IF keep THEN [s EXCEPT !.held = @ + 1] ELSE [s EXCEPT !.empty = @ + 1]

-----------------------------------------------------------------------------
(* Transfers *)

TransfersIdle(s) == \A k \in Xfer : s.x[k] = "idle"
HasDone(s) == \E k \in Xfer : s.x[k] \in Done

\* Halted and flushed, because the device is gone or suspended, or a bulk stream stops.
StreamFlushed(s) == [s EXCEPT !.x = [k \in Xfer |-> IF @[k] = "flight" THEN "no" ELSE @[k]]]

-----------------------------------------------------------------------------

CONSTANTS
    Stream,         \* the streams
    Packets,        \* num_isoc_packets
    QueueLen,       \* max_num_event_msg
    MaxPlugs,       \* bound: how often the camera is plugged in
    MaxCalls,       \* bound: calls of the application
    Environments,   \* what may happen, see env
    Cameras,        \* the configurations of the kinds of cameras
    Reading(_, _),  \* what is read of a kind, given what is asked for: ReadCamera
    Kinds(_),       \* the kinds that there are in an environment,
    Wants(_)        \* and the formats that are asked for

ASSUME BoundsAreNat == Stream \subseteq Nat \ {0} /\ {Packets, QueueLen, MaxPlugs, MaxCalls} \subseteq Nat

VARIABLES
    drv,            \* p_uvc_host_driver and the driver's task: up, ending, down
    bus, plugs,     \* the camera: none, present, gone; which one
    cam,            \* its kind, what is asked of it, and what is read in its configuration
    shown,          \* what the application learnt of its frames: their numbers, and lists
    susp,           \* the root port is suspended
    msgs,           \* the client's event messages
    hdl,            \* the client has the USB device open: its number, or 0
    str,            \* uvc_stream_t of every stream
    ctl,            \* ctrl_transfer and its semaphore
    user,           \* the application's task: the call it is in
    client,         \* the driver's task
    calls, crash, env

vars == <<drv, bus, plugs, cam, shown, susp, msgs, hdl, str, ctl, user, client, calls, crash, env>>
outside == <<drv, bus, plugs, cam, shown, calls, env>>

conf    == Cameras[cam.kind]
Isoc    == "isoc" \in env
NoCall  == [op |-> "none", pc |-> "idle", i |-> 0, todo |-> <<>>, ok |-> FALSE, k |-> 1]
NothingShown == [counts |-> <<>>, lists |-> {}]
NoEvent == [pc |-> "idle", kind |-> "none", cur |-> 0, i |-> 0, k |-> 1, n |-> 0,
            eof |-> FALSE, more |-> FALSE]
Listed  == {i \in Stream : str[i].st = "listed"}
Pending == ctl.urb \in Done \/ \E i \in Stream : HasDone(str[i])

TypeOK ==
    /\ drv \in {"up", "ending", "down"} /\ bus \in {"none", "present", "gone"}
    /\ plugs \in 0..MaxPlugs /\ susp \in BOOLEAN /\ hdl \in 0..MaxPlugs /\ calls \in 0..MaxCalls
    /\ shown.counts \in Seq(Nat)
    /\ shown.lists \subseteq [index : Nat, size : Nat, frames : SUBSET ((DOMAIN conf) \X (DOMAIN conf))]
    /\ msgs \in Seq({"new", "gone", "susp", "res"}) /\ Len(msgs) <= QueueLen
    /\ str \in [Stream -> StreamType]
    /\ ctl \in [urb : {"idle", "flight"} \cup Done, sem : BOOLEAN, ok : BOOLEAN]
    /\ user \in [op : {"none", "open", "start", "unpause", "stop", "select", "close"},
                 pc : {"idle", "find", "claim", "ctl", "act", "insert", "submit", "drain",
                       "frames", "release"},
                 i : Stream \cup {0}, ok : BOOLEAN, k : 1..XferNum + 1,
                 todo : Seq({"alt0", "probe", "commit", "alt", "quiet"})]
    /\ client \in [pc : {"idle", "msgs", "new", "walk", "lock", "cb", "delay",
                         "packet", "sof", "get", "data", "frame"},
                   kind : {"none", "gone", "susp", "res"}, cur : Stream \cup {0},
                   i : Stream \cup {0}, k : Xfer, n : 0..Packets, eof : BOOLEAN, more : BOOLEAN]

Fails(ok, name) == crash' = IF ok \/ crash # "none" THEN crash ELSE name
Post(q, m) == IF Len(q) < QueueLen THEN Append(q, m) ELSE q

\* The application's task runs while the driver's task has nothing to do, waits for
\* open_close_mutex or for frames; on two cores ("race") at any time.
ClientIdle  == client.pc = "idle" /\ msgs = <<>> /\ ~Pending
UserLocks   == user.op \in {"open", "close"}
ClientWaits == UserLocks /\ (client.pc = "lock" \/ (client.pc = "cb" /\ "incb" \in env))
Others == "race" \in env \/ ClientIdle \/ ClientWaits \/ client.pc = "delay"

\* usb_host_transfer_submit() resumes a suspended root port.
Accepts(i, k) == bus = "present" /\ str[i].claimed /\ str[i].x[k] = "idle"
Woken(wakes) == IF wakes /\ susp THEN susp' = FALSE /\ msgs' = Post(msgs, "res")
                ELSE UNCHANGED <<susp, msgs>>

\* uvc_device_remove(): usb_host_device_close() fails while another stream has an
\* interface of the device.
Removed(i) ==
    /\ str' = [str EXCEPT ![i] = NoStream]
    /\ hdl' = IF \E j \in Stream \ {i} : str[j].claimed THEN hdl ELSE 0

-----------------------------------------------------------------------------
(* uvc_host_usb_ctrl() *)

Counted == drv = "up" /\ calls < MaxCalls /\ calls' = calls + 1 /\ UNCHANGED <<drv, bus, plugs, cam, env>>
Call == Counted /\ UNCHANGED shown
At(pc) == user.pc = pc /\ Others /\ UNCHANGED outside
Ends == user' = NoCall
Now(pc) == user' = [user EXCEPT !.pc = pc]

\* The first of the requests that are to be made is submitted, or fails at once.
Request(u) ==
    LET ok == bus = "present" /\ ctl.urb = "idle"
    IN  /\ user' = [u EXCEPT !.pc = IF ok THEN "ctl" ELSE "act", !.ok = FALSE]
        /\ ctl' = IF ok THEN [ctl EXCEPT !.urb = "flight"] ELSE ctl
        /\ Woken(ok)

\* After 5 s it gives up: the camera does not answer ("slow"), or the driver's task waits
\* for the mutex that is held meanwhile.
GivesUp == "slow" \in env \/ (ClientWaits /\ ctl.urb \in Done)

\* The result that is read must be this request's; a format that is not found is an error.
RequestEnd ==
    /\ At("ctl") /\ (ctl.sem \/ GivesUp)
    /\ LET found == user.op = "open" /\ Head(user.todo) = "probe" => cam.found[user.i].pick # None
       IN  user' = [user EXCEPT !.pc = "act", !.ok = ctl.sem /\ ctl.ok /\ found]
    /\ ctl' = [ctl EXCEPT !.sem = FALSE]
    /\ Fails(ctl.sem => ctl.urb = "idle", "result of another request")
    /\ UNCHANGED <<susp, msgs, hdl, str, client>>

\* ctrl_xfer_cb()
CtlCb ==
    /\ drv # "down" /\ client.pc = "idle" /\ ctl.urb \in Done
    /\ ctl' = [urb |-> "idle", sem |-> TRUE, ok |-> ctl.urb = "ok"]
    /\ UNCHANGED <<susp, msgs, hdl, str, user, client, crash, outside>>

\* Requests whose failure is ignored.
Ignored == \/ Head(user.todo) = "alt0" \/ (Head(user.todo) = "quiet" /\ user.op = "close")
           \/ (Head(user.todo) = "probe" /\ user.op = "select" /\ Len(user.todo) > 1)

\* What follows the last request.
After == CASE user.op = "open" -> "insert" [] user.op \in {"start", "select"} -> "submit"
           [] user.op = "close" -> "frames" [] user.op = "stop" -> "idle"

\* A new format is saved in all frame buffers, which must be there.
Saves == Head(user.todo) = "probe" /\ user.ok /\ user.op = "select"

\* The next request, if the last one succeeded; an open that fails releases the interface.
RequestAct ==
    /\ At("act")
    /\ Fails(Saves => AllReturned(str[user.i]), "assert(uvc_frame_are_all_returned)")
    /\ LET u == [user EXCEPT !.todo = Tail(@)]
           ends == After = "idle" \/ (Head(user.todo) = "probe" /\ user.op = "select")
       IN  IF ~user.ok /\ ~Ignored
           THEN /\ Ends /\ UNCHANGED <<ctl, susp, msgs>>
                /\ IF user.op = "open" THEN Removed(user.i) ELSE UNCHANGED <<str, hdl>>
           ELSE /\ UNCHANGED <<str, hdl>>
                /\ IF u.todo # <<>> THEN Request(u)
                   ELSE /\ user' = IF ends THEN NoCall ELSE [u EXCEPT !.pc = After]
                        /\ UNCHANGED <<ctl, susp, msgs>>
    /\ UNCHANGED client

-----------------------------------------------------------------------------
(* uvc_host_stream_open() *)

MayCall == user.op = "none" /\ client.pc # "delay"

OpenBegin(i) ==
    /\ Call /\ Others /\ MayCall /\ str[i].st = "none" /\ (i = Min(Stream) \/ {"pair", "confs"} \cap env # {})
    /\ user' = [NoCall EXCEPT !.op = "open", !.pc = "find", !.i = i]
    /\ str' = [str EXCEPT ![i].st = "opening"]
    /\ UNCHANGED <<susp, msgs, hdl, ctl, client, crash>>

\* uvc_find_and_open_usb_device(): the device of a stream that is open is shared; else
\* a device that has video is waited for.
OpenFind ==
    /\ At("find")
    /\ IF Listed # {} THEN hdl' = hdl /\ str' = str /\ Now("claim")
       ELSE IF bus = "present" /\ hdl = 0 /\ cam.video THEN hdl' = plugs /\ str' = str /\ Now("claim")
       ELSE hdl' = hdl /\ str' = [str EXCEPT ![user.i] = NoStream] /\ Ends
    /\ UNCHANGED <<susp, msgs, ctl, client, crash>>

\* uvc_claim_interface(): an interface of the stream's function that supports the format,
\* and the setting of it for the stream.  The claim fails if the device is gone, or the
\* interface is in use.
OpenClaim ==
    /\ At("claim")
    /\ LET found == cam.found[user.i]
           free  == \A j \in Stream : str[j].claimed => cam.found[j].num # found.num
       IN  /\ IF bus = "present" /\ found.at # 0 /\ free
              THEN /\ str' = [str EXCEPT ![user.i].claimed = TRUE] /\ hdl' = hdl
                   /\ Request([user EXCEPT !.todo = IF Isoc THEN <<"alt0", "probe">> ELSE <<"probe">>])
              ELSE Removed(user.i) /\ Ends /\ UNCHANGED <<ctl, susp, msgs>>
           /\ Fails(found.crash = "none", found.crash)
    /\ UNCHANGED client

\* Transfers and frame buffers are allocated; transfers that could not all be allocated
\* ("nomem") are freed, and then freed again.  Only then is the stream in the list.
OpenInsert ==
    /\ At("insert") /\ Ends
    /\ str' = [str EXCEPT ![user.i].st = "listed", ![user.i].empty = FrameNum]
    /\ Fails("nomem" \notin env, "transfers freed twice")
    /\ UNCHANGED <<susp, msgs, hdl, ctl, client>>

-----------------------------------------------------------------------------
(* Streaming *)

\* With many configurations ("confs") streams are opened and closed only.
MayStream(i) == MayCall /\ i \in Listed /\ ~str[i].told
CallOn(op, i, todo) == [NoCall EXCEPT !.op = op, !.i = i, !.todo = todo]
StartList == IF Isoc THEN <<"commit", "alt">> ELSE <<"commit">>

\* uvc_host_stream_start()
Start(i) ==
    /\ Call /\ Others /\ MayStream(i) /\ ~str[i].streaming /\ "confs" \notin env /\ Request(CallOn("start", i, StartList))
    /\ UNCHANGED <<hdl, str, client, crash>>

\* uvc_host_stream_unpause(), called by the application
Unpause(i) ==
    /\ Call /\ Others /\ MayStream(i) /\ ~str[i].streaming /\ "confs" \notin env
    /\ user' = [CallOn("unpause", i, <<>>) EXCEPT !.pc = "submit"]
    /\ UNCHANGED <<susp, msgs, hdl, str, ctl, client, crash>>

\* uvc_host_stream_unpause(): the transfers are submitted one by one; one that is refused
\* pauses the stream again.
Submit ==
    /\ At("submit")
    /\ LET s == IF user.k = 1 THEN Unpaused(str[user.i]) ELSE str[user.i]
           ok == Accepts(user.i, user.k)
       IN  /\ str' = [str EXCEPT ![user.i] = IF ok THEN [s EXCEPT !.x[user.k] = "flight"] ELSE Paused(s)]
           /\ Woken(ok)
           /\ user' = IF ok /\ user.k < XferNum THEN [user EXCEPT !.k = @ + 1] ELSE NoCall
    /\ UNCHANGED <<hdl, ctl, client, crash>>

\* uvc_host_stream_pause(), called by the application
Pause(i) ==
    /\ Call /\ Others /\ MayStream(i) /\ str[i].streaming /\ str' = [str EXCEPT ![i] = Paused(@)]
    /\ UNCHANGED <<susp, msgs, hdl, ctl, user, client, crash>>

\* uvc_host_stream_stop(), and what uvc_host_stream_close() and
\* uvc_host_stream_format_select() do while the stream is on: it is paused,
Halt(op, i, todo) ==
    /\ str' = [str EXCEPT ![i] = Paused(@)]
    /\ user' = [CallOn(op, i, todo) EXCEPT !.pc = "drain"]
    /\ UNCHANGED <<susp, msgs, hdl, ctl, client, crash>>

Stop(i) == Call /\ Others /\ MayStream(i) /\ str[i].streaming /\ Halt("stop", i, <<"quiet">>)

\* its transfers finish within 100 ms, or those of a bulk stream are flushed, and the
\* camera is told.
Drain ==
    /\ At("drain") /\ (Isoc => TransfersIdle(str[user.i]))
    /\ str' = [str EXCEPT ![user.i] = StreamFlushed(@)] /\ Request(user)
    /\ UNCHANGED <<hdl, client, crash>>

\* uvc_host_stream_format_select(), which restarts a stream that was on.
Select(i) ==
    /\ Call /\ Others /\ MayStream(i) /\ "select" \in env
    /\ str[i].held = 0 \/ "kept" \in env
    /\ IF str[i].streaming THEN Halt("select", i, <<"quiet", "probe">> \o StartList)
       ELSE Request(CallOn("select", i, <<"probe">>)) /\ UNCHANGED <<hdl, str, client, crash>>

\* The application returns a frame that it kept.
Return(i) ==
    /\ Others /\ str[i].held > 0 /\ str' = [str EXCEPT ![i] = UserReturned(@)]
    /\ UNCHANGED <<susp, msgs, hdl, ctl, user, client, crash, outside>>

-----------------------------------------------------------------------------
(* uvc_host_get_frame_list() *)

\* Of the first frames as many as the application has room for; with an empty array
\* ("empty") more are written.
ListFrames(index) ==
    /\ Counted /\ Others /\ MayCall /\ "confs" \in env /\ bus = "present" /\ hdl = 0
    /\ index < Len(shown.counts)
    /\ \E size \in {1, shown.counts[index + 1]} \cup (IF "empty" \in env THEN {0} ELSE {}) :
         /\ \E frames \in {Truncated(FrameList(conf, index), size)} :
                shown' = [shown EXCEPT !.lists = {[index |-> index, size |-> size, frames |-> frames]}]
         /\ Fails(size # 0, "frames behind the end of the array")
    /\ UNCHANGED <<susp, msgs, hdl, str, ctl, user, client>>

-----------------------------------------------------------------------------
(* uvc_host_stream_close() *)

CloseBegin(i) ==
    IF str[i].streaming THEN Halt("close", i, <<"quiet">>)
    ELSE /\ user' = [CallOn("close", i, <<>>) EXCEPT !.pc = "frames"]
         /\ UNCHANGED <<susp, msgs, hdl, str, ctl, client, crash>>

\* Frames are waited for, and if they are not returned the stream stays open.
CloseFrames ==
    /\ At("frames") /\ IF AllReturned(str[user.i]) THEN Now("release") ELSE Ends
    /\ UNCHANGED <<susp, msgs, hdl, str, ctl, client, crash>>

\* usb_host_interface_release() waits for the driver's task once; it must succeed.
CloseRelease ==
    /\ At("release") /\ (client.pc = "idle" => ~Pending)
    /\ Fails(TransfersIdle(str[user.i]), "interface not released in close")
    /\ Removed(user.i) /\ Ends
    /\ UNCHANGED <<susp, msgs, ctl, client>>

\* The application closes: when it likes, but not just after it paused the stream
\* ("hasty"); and once it was told that the camera is gone.
UserClose(i) ==
    /\ Call /\ Others /\ MayStream(i) /\ CloseBegin(i)
    /\ str[i].streaming \/ TransfersIdle(str[i]) \/ "hasty" \in env
CloseTold(i) ==
    Others /\ MayCall /\ i \in Listed /\ str[i].told /\ CloseBegin(i) /\ UNCHANGED outside

-----------------------------------------------------------------------------
(* The callbacks of the transfers *)

Step(pc) == client' = [client EXCEPT !.pc = pc]
Calls == UNCHANGED <<hdl, ctl, user, outside>>
S == str[client.i]
Sets(s) == str' = [str EXCEPT ![client.i] = s]

\* isoc_transfer_callback() and bulk_transfer_callback(): a transfer that was cancelled,
\* or a bulk transfer that failed, pauses the stream; the transfers of a stream that is
\* paused are not submitted again.
XferCb(i, k) ==
    /\ drv # "down" /\ client.pc = "idle" /\ str[i].x[k] \in Done
    /\ LET x == [str[i] EXCEPT !.x[k] = "idle"]
           s == IF str[i].x[k] = "ok" THEN x ELSE Paused(x)
       IN  /\ str' = [str EXCEPT ![i] = s]
           /\ client' = IF ~s.streaming THEN client
                        ELSE [client EXCEPT !.pc = "packet", !.i = i, !.k = k,
                                            !.n = IF Isoc THEN Packets ELSE 1]
    /\ UNCHANGED <<susp, msgs, crash>> /\ Calls

\* After the last packet the transfer is submitted again.
XferEnd ==
    /\ client.pc = "packet" /\ client.n = 0 /\ client' = NoEvent
    /\ LET ok == S.streaming /\ Accepts(client.i, client.k)
       IN  Sets(IF ok THEN [S EXCEPT !.x[client.k] = "flight"] ELSE S) /\ Woken(ok)
    /\ UNCHANGED crash /\ Calls

Packet == client.pc = "packet" /\ client.n > 0 /\ UNCHANGED <<susp, msgs>> /\ Calls
NextPacket == client' = [client EXCEPT !.pc = "packet", !.n = @ - 1]

\* The camera goes on in the middle of a frame if the stream was only paused ("middle").
First == IF S.fresh /\ "middle" \in env THEN BOOLEAN ELSE {TRUE}

\* Bug: a packet with an error does not spoil the frame.
BadPacket_Kept ==
    /\ Packet /\ (Isoc \/ S.next = "sof") /\ NextPacket
    /\ \E next \in {"data", "eof"} :
          Sets([S EXCEPT !.whole = FALSE, !.next = IF Isoc THEN @ ELSE next])
    /\ UNCHANGED crash

\* A packet with an error or with an invalid header; in a bulk stream its frame is skipped
\* up to the end.
BadPacket ==
    /\ Packet /\ (Isoc \/ S.next = "sof") /\ NextPacket
    /\ \E next \in {"data", "eof"} :
          Sets([Skipped(S) EXCEPT !.next = IF Isoc THEN @ ELSE next])
    /\ UNCHANGED crash

\* A packet of an isochronous stream that begins a frame, or belongs to the current one.
\* Without a frame, and with the stream paused meanwhile, there is none to be reset.
IsocPacket(new, eof) ==
    /\ Packet /\ Isoc /\ (S.fresh => new)
    /\ client' = [client EXCEPT !.pc = IF new /\ NeedsFrame(S) THEN "get" ELSE "data", !.eof = eof]
    /\ \E valid \in BOOLEAN, first \in First : Sets(IF new THEN IsocBegun(S, valid, first) ELSE S)
    /\ Fails(new => S.streaming \/ S.cur, "assert(frame) in uvc_frame_reset")

\* uvc_frame_get_empty() is called outside the critical section.  Without a frame the
\* rest of an isochronous packet is ignored.
GetFrame ==
    /\ client.pc = "get" /\ Sets(FrameGot(S))
    /\ IF Isoc /\ S.empty = 0 THEN NextPacket ELSE Step("data")
    /\ UNCHANGED <<susp, msgs, crash>> /\ Calls

\* A frame ends: it goes to the user, or is returned.
FrameEnds(s) ==
    /\ Sets(IF Deliverable(s) THEN [s EXCEPT !.cur = FALSE] ELSE CurReturned(s))
    /\ Fails(Deliverable(s) => s.whole, "part of a frame is passed to the user")

IsocData(fits) ==
    /\ client.pc = "data" /\ Isoc
    /\ LET s == DataAdded(S, fits)
       IN  IF s # S \/ ~client.eof THEN Sets(s) /\ NextPacket /\ UNCHANGED crash
           ELSE /\ FrameEnds(s)
                /\ IF Deliverable(s) THEN Step("frame") ELSE NextPacket
    /\ UNCHANGED <<susp, msgs>> /\ Calls

\* Bulk: data, up to a short packet; then a packet with a header is expected.
BulkData(fits, short) ==
    /\ client.pc = "data" /\ ~Isoc /\ NextPacket
    /\ Sets([DataAdded(S, fits) EXCEPT !.next = IF short THEN "eof" ELSE @])
    /\ UNCHANGED <<susp, msgs, crash>> /\ Calls

BulkMore == Packet /\ ~Isoc /\ S.next = "data" /\ Step("data") /\ UNCHANGED <<str, crash>>

\* Bulk: the packet that begins a frame, which may have only a header.
BulkSof ==
    /\ ~Isoc /\ (client.pc = "sof" \/ (client.pc = "packet" /\ client.n > 0 /\ S.next = "sof"))
    /\ Step(IF NeedsFrame(S) THEN "get" ELSE "data")
    /\ \E first \in First : Sets([BulkBegun(S, first) EXCEPT !.fresh = FALSE])
    /\ Fails(S.streaming \/ S.cur, "assert(frame) in uvc_frame_reset")
    /\ UNCHANGED <<susp, msgs>> /\ Calls

BulkHeader ==
    /\ Packet /\ ~Isoc /\ S.next = "sof" /\ (~S.cur \/ "header" \in env) /\ NextPacket
    /\ Sets([S EXCEPT !.skip = FALSE, !.fresh = FALSE, !.next = "eof"]) /\ UNCHANGED crash

\* Bulk: a packet with a header after a short one ends the frame (eof, or it begins another
\* one), or belongs to it.
BulkEof(new, eof, more) ==
    /\ Packet /\ ~Isoc /\ S.next = "eof" /\ (more => new)
    /\ \E err \in BOOLEAN :
         LET s == [S EXCEPT !.next = "sof", !.skip = @ \/ err]
         IN  IF new \/ eof
             THEN /\ FrameEnds(s)
                  /\ client' = [client EXCEPT !.more = more, !.n = IF Deliverable(s) \/ more THEN @ ELSE 0,
                                   !.pc = IF Deliverable(s) THEN "frame" ELSE IF more THEN "sof" ELSE @]
             ELSE \E fits \in BOOLEAN :
                      Sets([DataAdded(s, fits) EXCEPT !.next = "data"]) /\ NextPacket /\ UNCHANGED crash

BulkBadEof ==
    /\ Packet /\ ~Isoc /\ S.next = "eof" /\ NextPacket
    /\ Sets([Skipped(S) EXCEPT !.next = "sof"]) /\ UNCHANGED crash

\* The user's frame callback keeps the frame or not, and may pause the stream ("pausecb").
FrameCb ==
    /\ client.pc = "frame"
    /\ \E keep \in {FALSE, "keep" \in env} : \E pause \in {FALSE, "pausecb" \in env} :
          LET s == Delivered(S, keep) IN Sets(IF pause THEN Paused(s) ELSE s)
    /\ IF ~Isoc /\ client.more THEN Step("sof") ELSE NextPacket
    /\ UNCHANGED <<susp, msgs, crash>> /\ Calls

-----------------------------------------------------------------------------
(* The client's events *)

From(i) == IF \E j \in Listed : j >= i THEN Min({j \in Listed : j >= i}) ELSE 0

Message ==
    /\ drv # "down" /\ msgs # <<>> /\ (client.pc = "msgs" \/ (client.pc = "idle" /\ ~Pending))
    /\ msgs' = Tail(msgs)
    /\ IF Head(msgs) = "new"
       THEN LET open == bus = "present" /\ hdl = 0
            IN  client' = [NoEvent EXCEPT !.pc = IF open THEN "new" ELSE "msgs"]
                /\ hdl' = IF open THEN plugs ELSE hdl
       ELSE hdl' = hdl /\ client' = [NoEvent EXCEPT !.pc = "walk", !.kind = Head(msgs), !.cur = From(1)]
    /\ UNCHANGED <<susp, str, ctl, user, crash, outside>>

\* uvc_host_device_connected() has looked at the device, and closes it before it reads the
\* configuration: a device that is gone may be freed at once ("stale").
NewSeen ==
    /\ client.pc = "new" /\ Step("msgs") /\ hdl' = 0
    /\ shown' = [shown EXCEPT !.counts = cam.counts]
    /\ Fails(cam.header /\ (bus = "present" \/ "stale" \notin env), "configuration freed, or without a header")
    /\ UNCHANGED <<susp, msgs, str, ctl, user, drv, bus, plugs, cam, calls, env>>

\* Bug: a stream that is paused is not told.
Walk_Streaming ==
    /\ client.pc = "walk" /\ client.cur # 0
    /\ LET i == client.cur
           pc == CASE client.kind = "gone" -> "cb" [] client.kind = "susp" -> "lock" [] OTHER -> "walk"
       IN  /\ client' = [client EXCEPT !.pc = pc, !.i = i, !.cur = From(i + 1)]
           /\ str' = IF client.kind = "gone" THEN [str EXCEPT ![i] = [Paused(@) EXCEPT !.told = str[i].streaming]] ELSE str
           /\ Fails(i \in Listed, "walk over a freed stream")
    /\ UNCHANGED <<susp, msgs, hdl, ctl, user, outside>>

\* usb_event_cb(): one stream of the list; the next one is remembered.
Walk ==
    /\ client.pc = "walk" /\ client.cur # 0
    /\ LET i == client.cur
           pc == CASE client.kind = "gone" -> "cb" [] client.kind = "susp" -> "lock" [] OTHER -> "walk"
       IN  /\ client' = [client EXCEPT !.pc = pc, !.i = i, !.cur = From(i + 1)]
           /\ str' = IF client.kind = "gone" THEN [str EXCEPT ![i] = [Paused(@) EXCEPT !.told = TRUE]] ELSE str
           /\ Fails(i \in Listed, "walk over a freed stream")
    /\ UNCHANGED <<susp, msgs, hdl, ctl, user, outside>>

\* uvc_host_device_suspended()
SuspLock ==
    /\ client.pc = "lock" /\ ~UserLocks
    /\ IF S.st # "listed" THEN str' = str /\ Step("walk")
       ELSE Sets(Paused(S)) /\ Step(IF AllReturned(Paused(S)) THEN "walk" ELSE "delay")
    /\ UNCHANGED <<susp, msgs, hdl, ctl, user, crash, outside>>

\* uvc_host_stream_close() in the callback: only open and close take the mutex, so that
\* another call of the application may still use the stream.
ClosedInCb ==
    /\ Removed(client.i)
    /\ Fails(TransfersIdle(S) /\ (user.op = "none" \/ user.i # client.i), "stream freed in use")

\* The user closes the stream in the callback ("incb") or later.
Callback ==
    /\ client.pc = "cb" /\ ("incb" \in env => ~UserLocks)
    /\ IF "incb" \notin env \/ S.st # "listed" THEN Step("walk") /\ UNCHANGED <<str, hdl, crash>>
       ELSE IF ~AllReturned(S) THEN Step("delay") /\ UNCHANGED <<str, hdl, crash>>
       ELSE Step("walk") /\ ClosedInCb
    /\ UNCHANGED <<susp, msgs, ctl, user, outside>>

\* 70 ms are over.  A close goes on if the frames are there.
DelayEnd ==
    /\ client.pc = "delay" /\ Step("walk")
    /\ IF client.kind = "gone" /\ AllReturned(S)
       THEN ClosedInCb
       ELSE UNCHANGED <<str, hdl, crash>>
    /\ UNCHANGED <<susp, msgs, ctl, user, outside>>

MsgsEnd ==
    /\ \/ client.pc = "walk" /\ client.cur = 0 /\ Step("msgs")
       \/ client.pc = "msgs" /\ msgs = <<>> /\ client' = NoEvent
    /\ UNCHANGED <<susp, msgs, hdl, str, ctl, user, crash, outside>>

\* uvc_host_uninstall(), and the end of the driver's task
Uninstall ==
    /\ drv = "up" /\ Others /\ MayCall /\ calls = MaxCalls /\ Listed = {} /\ drv' = "ending"
    /\ UNCHANGED <<bus, plugs, cam, shown, susp, msgs, hdl, str, ctl, user, client, calls, crash, env>>

TaskEnds ==
    /\ drv = "ending" /\ client.pc = "idle" /\ drv' = "down" /\ Fails(hdl = 0, "deregister")
    /\ UNCHANGED <<bus, plugs, cam, shown, susp, msgs, hdl, str, ctl, user, client, calls, env>>

-----------------------------------------------------------------------------
(* The USB Host Library and the camera *)

Calm == UNCHANGED <<drv, cam, user, client, calls, crash, env>>

Plug ==
    /\ bus # "present" /\ hdl = 0 /\ msgs = <<>> /\ plugs < MaxPlugs /\ drv = "up"
    /\ plugs' = plugs + 1 /\ bus' = "present" /\ msgs' = <<"new">> /\ shown' = NothingShown
    /\ UNCHANGED <<susp, hdl, str, ctl>> /\ Calm

Flushes ==
    /\ str' = [i \in Stream |-> StreamFlushed(str[i])]
    /\ ctl' = [ctl EXCEPT !.urb = IF @ = "flight" THEN "no" ELSE @]

\* The driver survives a disconnection unless it just completes an open ("early"), or has
\* messages in hand ("loop") or a call in progress ("busy") and closes in its callback, or
\* closes one of several streams ("next").
Unplug ==
    /\ bus = "present"
    /\ (user.op = "open" => user.pc \in {"find", "claim"} \/ ctl.urb = "flight") \/ "early" \in env
    /\ ("incb" \in env => user.op = "none" \/ UserLocks) \/ "busy" \in env
    /\ (user.op = "close" => Listed = {user.i}) \/ "next" \in env
    /\ client.pc \in {"idle", "new"} \/ {"loop", "early"} \cap env # {}
    /\ bus' = "gone" /\ susp' = FALSE /\ msgs' = IF hdl # 0 THEN Post(msgs, "gone") ELSE msgs
    /\ Flushes /\ UNCHANGED <<plugs, shown, hdl>> /\ Calm

\* The root port is suspended, not while a stream is opened or closed ("locked"), nor so
\* often that the client's queue is full ("full").
Suspend ==
    /\ "suspend" \in env /\ bus = "present" /\ ~susp /\ hdl # 0
    /\ client.pc = "idle" \/ "loop" \in env
    /\ ~UserLocks \/ "locked" \in env
    /\ msgs = <<>> \/ "full" \in env
    /\ susp' = TRUE /\ msgs' = Post(msgs, "susp") /\ Flushes /\ UNCHANGED <<bus, plugs, shown, hdl>> /\ Calm

Resume ==
    /\ susp /\ client.pc = "idle" /\ susp' = FALSE
    /\ msgs' = IF hdl # 0 THEN Post(msgs, "res") ELSE msgs
    /\ UNCHANGED <<bus, plugs, shown, hdl, str, ctl>> /\ Calm

\* A transfer is completed; the errors of an isochronous one are those of its packets.
Complete(i, k) ==
    /\ bus = "present" /\ ~susp /\ str[i].x[k] = "flight"
    /\ \E ok \in {TRUE, "error" \notin env} : str' = [str EXCEPT ![i].x[k] = IF ok THEN "ok" ELSE "err"]
    /\ UNCHANGED <<bus, plugs, shown, susp, msgs, hdl, ctl>> /\ Calm

Answer ==
    /\ bus = "present" /\ ~susp /\ ctl.urb = "flight"
    /\ \E ok \in {TRUE, "error" \notin env} : ctl' = [ctl EXCEPT !.urb = IF ok THEN "ok" ELSE "err"]
    /\ UNCHANGED <<bus, plugs, shown, susp, msgs, hdl, str>> /\ Calm

-----------------------------------------------------------------------------
Packetwise ==
    \/ XferEnd \/ BadPacket \/ GetFrame \/ BulkMore \/ BulkSof \/ BulkHeader \/ BulkBadEof \/ FrameCb
    \/ \E a, b \in BOOLEAN : IsocPacket(a, b) \/ BulkData(a, b) \/ \E c \in BOOLEAN : BulkEof(a, b, c)
    \/ \E a \in BOOLEAN : IsocData(a)
Client == CtlCb \/ Message \/ NewSeen \/ Walk \/ SuspLock \/ Callback \/ DelayEnd \/ MsgsEnd \/ TaskEnds
          \/ Packetwise \/ \E i \in Stream : \E k \in Xfer : XferCb(i, k)
Task == RequestEnd \/ RequestAct \/ OpenFind \/ OpenClaim \/ OpenInsert \/ Submit \/ Drain
        \/ CloseFrames \/ CloseRelease
Told == \E i \in Stream : CloseTold(i)
Returns == \E i \in Stream : Return(i)
User == Uninstall \/ \E i \in Stream : \/ OpenBegin(i) \/ Start(i) \/ Unpause(i) \/ Pause(i) \/ Stop(i)
                                       \/ Select(i) \/ UserClose(i) \/ ListFrames(i - 1)
Bus == Plug \/ Unplug \/ Suspend \/ Resume \/ Answer \/ \E i \in Stream : \E k \in Xfer : Complete(i, k)

Init ==
    /\ env \in Environments /\ (\E k \in Kinds(env), want \in Wants(env) : cam = Reading(k, want))
    /\ shown = NothingShown
    /\ drv = "up" /\ bus = "none" /\ plugs = 0 /\ susp = FALSE /\ msgs = <<>> /\ hdl = 0
    /\ str = [i \in Stream |-> NoStream] /\ ctl = [urb |-> "idle", sem |-> FALSE, ok |-> FALSE]
    /\ user = NoCall /\ client = NoEvent /\ calls = 0 /\ crash = "none"

Next == Client \/ Task \/ Told \/ Returns \/ User \/ Bus

\* Both tasks run; the application returns the frames it keeps, and closes what it was told
\* is gone; the camera answers.
Spec == Init /\ [][Next]_vars /\ WF_vars(Client) /\ WF_vars(Task) /\ WF_vars(Told) /\ WF_vars(Returns)
             /\ WF_vars(Answer)

-----------------------------------------------------------------------------
(* Properties *)

\* No assertion fails and no call fails that must not, nothing is freed in use or twice, a
\* request reads its own result, and the user is only given frames that are complete.
NoAbuse == crash = "none"

InCallback(i) == IF client.pc = "frame" /\ client.i = i THEN 1 ELSE 0

\* Every frame buffer is at one place.
FramesConserved ==
    \A i \in Listed : str[i].empty + str[i].held + (IF str[i].cur THEN 1 ELSE 0) + InCallback(i) = FrameNum

\* The USB device is open exactly while a stream or somebody who looks at it needs it.
HandleShared ==
    /\ (\E i \in Stream : str[i].claimed) => hdl # 0
    /\ hdl # 0 => (\E i \in Stream : str[i].claimed) \/ client.pc = "new" \/ user.pc = "claim"

\* A stream has the setting with the largest payload that is allowed, of an interface of
\* its function, and the format that was asked for: a frame of that very format.
StreamFits(i) ==
    LET s == cam.found[i]
        eps == Inside(conf, s.at)
        all == {j \in DOMAIN conf : conf[j].type = "intf" /\ conf[j].num = s.num}
        allowed == {conf[k].mps : k \in {k \in UNION {Inside(conf, j) : j \in all} :
                                           conf[k].type = "ep" /\ conf[k].mps <= MaxMps}}
    IN  /\ conf[s.at].class = "stream" /\ \E j \in all : FunctionOf(conf, j) = i - 1
        /\ \E k \in eps : conf[k].type = "ep" /\ conf[k].mps = Max(allowed)
        /\ FormatOf(conf, StreamHeader(conf, s.num), s.pick.frame) = s.pick.format
        /\ cam.want.coding # "DEFAULT" => /\ Coding(conf[s.pick.format]) = cam.want.coding
                                      /\ Matches(conf[s.pick.frame], cam.want)

\* The frames that are listed are those the camera has, as many as were announced.
ListFits(l) ==
    /\ l.frames = Truncated(FramesOf(conf, l.index), l.size)
    /\ l.size = shown.counts[l.index + 1] => Cardinality(l.frames) = l.size

DescriptorsRead ==
    "confs" \in env => (\A i \in Listed : StreamFits(i)) /\ \A l \in shown.lists : ListFits(l)

Consistent == DescriptorsRead /\ TypeOK /\ NoAbuse /\ FramesConserved /\ HandleShared

Quiet == ClientIdle /\ user.op = "none"

\* While nobody works on a stream, all its transfers are in flight if it is on; if it is
\* off, none of its frame buffers is lost to it.
KeepsStreaming ==
    Quiet => \A i \in Listed :
        /\ str[i].streaming /\ bus = "present" /\ ~susp => \A k \in Xfer : str[i].x[k] = "flight"
        /\ ~str[i].streaming => ~str[i].cur
        /\ bus = "gone" => str[i].told /\ ~str[i].streaming

\* When the camera is gone its streams are closed, and so is the USB device itself, so that
\* the next one can be enumerated.
GoneIsClosed == bus = "gone" ~> hdl = 0 /\ Listed = {}
=============================================================================
