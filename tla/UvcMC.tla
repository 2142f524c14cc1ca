-------------------------------- MODULE UvcMC --------------------------------
EXTENDS Uvc, SequencesExt

Pair == 1..2

-----------------------------------------------------------------------------
(* Configurations.  A function: its association, the control interface num with what is    *)
(* behind it, and the streaming interface num + 1 with its classes and its settings.       *)

Function(num, classes, settings) ==
    <<Iad(num, 2, "video"), Intf(num, 0, 0, "control"), VcHeader(<<num + 1>>), Cs("unit", 0)>>
    \o <<Intf(num + 1, 0, IF settings[1] = <<>> THEN 0 ELSE 1, "stream")>> \o classes \o settings[1]
    \o FlattenSeq([i \in 1 .. Len(settings) - 1 |-> <<Intf(num + 1, i, 1, "stream")>> \o settings[i + 1]])
Camera(functions) == <<Plain>> \o FlattenSeq(functions)

In(xfer, mps) == <<Ep(1, "in", xfer, mps)>>
IsocSettings == <<<<>>, In("isoc", 1), In("isoc", 3), In("isoc", 2)>>   \* 3 is too large a payload
BulkSettings == <<In("bulk", 2)>>

Yuy2(index, frames)  == Format("format_uncompressed", "YUY2", index, frames)
Mjpeg(index, frames) == Format("format_mjpeg", "none", index, frames)
H264(index, frames)  == Format("format_frame_based", "H264", index, frames)
Dv(index)            == Format("format_dv", "none", index, 0)
FrameU(index, res, rates) == Frame("frame_uncompressed", index, res, rates)
FrameM(index, res, rates) == Frame("frame_mjpeg", index, res, rates)
FrameH(index, res, rates) == Frame("frame_frame_based", index, res, rates)
Still == Cs("still", 9)     \* still images and colours, which follow the frames of a format
Classes(s) == <<InputHeader(Len(s) + 1)>> \o s

Simple == Classes(<<Mjpeg(1, 1), FrameM(1, 1, Rates({1}))>>)
\* Two known formats and one that is not, rates in a list and in a range; what the first
\* format lacks, the second one lacks as well.
Rich == Classes(<<Dv(1), Yuy2(2, 2), FrameU(1, 1, Rates({2, 3})), FrameU(2, 2, RatesFrom(1, 3, 2)), Still,
                  Mjpeg(3, 2), FrameM(1, 1, Rates({3})), FrameM(2, 2, RatesFrom(1, 3, 2)), Still>>)
Coded == Classes(<<H264(1, 1), FrameH(1, 1, RatesFrom(2, 2, 1)), Still>>)

Isocs == Camera(<<Function(0, Simple, IsocSettings), Function(2, Simple, IsocSettings)>>)
Bulks == Camera(<<Function(0, Simple, BulkSettings), Function(2, Simple, BulkSettings)>>)
Mixed == Camera(<<Function(0, Rich, IsocSettings), Function(2, Coded, BulkSettings)>>)
\* With a microphone in front, and no settings whose payload is small enough.
Headset == <<Plain, Iad(0, 1, "audio"), Intf(0, 0, 1, "other"), Ep(2, "in", "isoc", 1)>>
           \o Function(1, Rich, <<<<>>, In("isoc", 3)>>)
Mouse == <<Plain, Intf(0, 0, 1, "other"), Ep(1, "in", "intr", 1)>>

\* Cameras that the driver misreads: the resolution is one of a later format; two formats
\* without anything between them; no class descriptor at all; a range without a step.
Later    == Classes(<<Yuy2(1, 2), FrameU(1, 1, Rates({1})), FrameU(2, 3, Rates({1})), Still, Mjpeg(2, 1), FrameM(2, 2, Rates({1}))>>)
Adjacent == Classes(<<Yuy2(1, 1), FrameU(1, 1, Rates({1})), Mjpeg(2, 1), FrameM(1, 2, Rates({1}))>>)
Bare     == <<Plain, Iad(0, 1, "video"), Intf(0, 0, 0, "control")>>
NoStep   == Classes(<<Yuy2(1, 1), FrameU(1, 1, RatesFrom(1, 3, 0)), Still>>)

AllCameras ==
    [isoc |-> Isocs, bulk |-> Bulks, mixed |-> Mixed, headset |-> Headset, mouse |-> Mouse, bare |-> Bare,
     later |-> Camera(<<Function(0, Later, IsocSettings)>>),
     adjacent |-> Camera(<<Function(0, Adjacent, IsocSettings)>>),
     nostep |-> Camera(<<Function(0, NoStep, IsocSettings)>>)]

CameraReading(kind, want) == LET c == AllCameras[kind] IN ReadCamera(c, kind, Pair, want)

CameraKinds(e) ==
    IF e \cap {"later", "adjacent", "bare", "nostep"} # {} THEN e \cap DOMAIN AllCameras
    ELSE IF "confs" \in e THEN {"mixed", "headset", "mouse"}
    ELSE IF "isoc" \in e THEN {"isoc"} ELSE {"bulk"}

CameraWants(e) ==
    IF "confs" \in e
    THEN [coding : {"YUY2", "MJPEG", "H264"}, res : {1, 2}, rate : {0, 2, 3}]
         \cup {[coding |-> "DEFAULT", res |-> 0, rate |-> 0]}
    ELSE {[coding |-> "MJPEG", res |-> 1, rate |-> 1]}
-----------------------------------------------------------------------------

\* An isochronous camera, unplugged or suspended; a bulk camera whose transfers and
\* requests fail; format changes; two streams; cameras of several kinds.  The application
\* closes in its callback or later, and keeps frames or returns them at once.
Tame == {{"isoc", "incb", "keep"}, {"isoc", "suspend"}, {"keep", "error"}, {"select", "incb"},
         {"pair", "incb"}, {"confs"}}

\* One environment for each hazard that the driver does not survive: a disconnection just
\* before an opened stream is listed, during another call, between two messages, or while
\* one of several streams is closed; a close right after a pause; a pause in the frame
\* callback; a camera that goes on in the middle of a frame; a header without data; not
\* enough memory; a request that times out; a format change while a frame is kept; too
\* many events; a suspension during an open or a close; two cores; a camera that leaves
\* while it is looked at; cameras that are misread; an empty array for the list.
Wild == {{"early"}, {"busy", "incb"}, {"loop", "incb", "suspend"}, {"pair", "incb", "next"},
         {"isoc", "hasty"}, {"isoc", "pausecb"}, {"pausecb"}, {"isoc", "middle"}, {"header"},
         {"nomem"}, {"slow"}, {"select", "keep", "kept"}, {"suspend", "full"},
         {"suspend", "locked"}, {"isoc", "race"},
         {"stale"}, {"confs", "later"}, {"confs", "adjacent"}, {"confs", "bare"},
         {"confs", "nostep"}, {"confs", "empty"}}
=============================================================================
