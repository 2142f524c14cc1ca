---------------------------- MODULE UvcDescriptors ----------------------------
(***************************************************************************)
(* What the UVC class driver reads in a camera's configuration             *)
(* (uvc_descriptor_parsing.c): its video functions, the streaming          *)
(* interfaces of each, the formats and frames of each interface.  A class  *)
(* descriptor (CS_INTERFACE) has a subtype, and an index at the place      *)
(* where a frame descriptor has its own.  Frame rates stand for the frame  *)
(* intervals; the size of a payload is that of its endpoint, mps.          *)
(***************************************************************************)
EXTENDS Descriptors
LOCAL INSTANCE FiniteSetsExt

CONSTANT MaxMps     \* MAX_MPS_IN

ASSUME PayloadIsBounded == MaxMps \in Nat

\* The classes of interfaces: Video Control, Video Streaming, others; a function's is "video".
Video == {"control", "stream"}
Cs(sub, index) == [type |-> "class", size |-> "ok", sub |-> sub, index |-> index]
VcHeader(ifs) == [type |-> "class", size |-> "ok", sub |-> "vc_header", index |-> 0, ifs |-> ifs]
\* total: how many descriptors wTotalLength covers, this one included
InputHeader(total) == [type |-> "class", size |-> "ok", sub |-> "input", index |-> 0, total |-> total]
Format(sub, guid, index, frames) ==
    [type |-> "class", size |-> "ok", sub |-> sub, guid |-> guid, index |-> index, frames |-> frames]
\* rates: a set of them, or (step) all from min to max
Frame(sub, index, res, rates) ==
    [type |-> "class", size |-> "ok", sub |-> sub, index |-> index, res |-> res, rates |-> rates]
Rates(S) == [all |-> S, min |-> 0, max |-> 0, step |-> 0]
RatesFrom(min, max, step) == [all |-> {}, min |-> min, max |-> max, step |-> step]

\* The first class descriptor behind at, and the descriptors that are read with a header h:
\* uvc_desc_get_safe_wTotalLength()
NextClass(c, at) == NextOfType(c, at, "class")
Covered(c, h) == SubSeq(c, 1, h + Min({c[h].total, Len(c) - h + 1}) - 1)

\* uvc_desc_get_streaming_input_header(): it is searched for behind the interface, even in
\* another one.
StreamHeader(c, n) ==
    LET at == Interface(c, n, 0)
        h  == IF at = 0 THEN 0 ELSE IF c[at].class # "stream" THEN 0 ELSE NextClass(c, at)
    IN  IF h = 0 THEN 0 ELSE IF c[h].sub = "input" THEN h ELSE 0

-----------------------------------------------------------------------------
(* Formats and frames *)

\* uvc_desc_is_format_desc() and uvc_desc_is_frame_desc()
IsFormat(d) == d.type = "class" /\ d.sub \in {"format_uncompressed", "format_mjpeg", "format_frame_based",
                                              "format_mpeg2ts", "format_dv", "format_stream_based"}
IsFrame(d)  == d.type = "class" /\ d.sub \in {"frame_uncompressed", "frame_mjpeg", "frame_frame_based"}

\* uvc_desc_parse_format(): "none" stands for -1
Coding(d) ==
    CASE d.sub = "format_mjpeg" -> "MJPEG"
      [] d.sub = "format_uncompressed" /\ d.guid \in {"YUY2", "NV12"} -> d.guid
      [] d.sub = "format_frame_based"  /\ d.guid \in {"H264", "H265"} -> d.guid
      [] OTHER -> "none"

\* The rates of a frame, tried one after the other; without a step that never ends.
Offers(rates, rate) ==
    \/ rate \in rates.all
    \/ rates.all = {} /\ rate <= rates.max /\ \E k \in 0 .. rate : rate = rates.min + k * rates.step
Endless(d, want) ==
    /\ IsFrame(d) /\ d.res = want.res /\ want.rate # 0 /\ d.rates.all = {}
    /\ d.rates.step = 0 /\ d.rates.min <= d.rates.max /\ ~Offers(d.rates, want.rate)

\* uvc_desc_format_is_equal(); the rate 0 stands for any.
Matches(d, want) == IsFrame(d) /\ d.res = want.res /\ (want.rate = 0 \/ Offers(d.rates, want.rate))

None == [format |-> 0, frame |-> 0]
LeastOf(S) == IF S = {} THEN 0 ELSE Min(S)

\* Of the descriptors s that a header h covers, the first format that fits, and the first
\* frame that does of all that come behind it.
Pick(s, h, formats, frames) ==
    LET format == LeastOf({j \in Reached(s, h, "class") : IsFormat(s[j])} \cap formats)
        frame  == IF format = 0 THEN 0 ELSE LeastOf(Reached(s, format, "class") \cap frames)
    IN  IF frame = 0 THEN None ELSE [format |-> format, frame |-> frame]

\* uvc_desc_get_frame_format_by_format()
ByFormat(c, n, want) ==
    LET h == StreamHeader(c, n)
        s == Covered(c, h)
    IN  IF h = 0 THEN None
        ELSE Pick(s, h, {j \in DOMAIN s : IsFormat(s[j]) /\ Coding(s[j]) = want.coding},
                  {j \in DOMAIN s : Matches(s[j], want)})

\* ... which does not return when it comes to a frame without a step.
Hangs(c, n, want) ==
    LET h == StreamHeader(c, n)
        s == Covered(c, h)
        found == ByFormat(c, n, want).frame
        format == LeastOf({j \in Reached(s, h, "class") : IsFormat(s[j]) /\ Coding(s[j]) = want.coding})
    IN  h # 0 /\ format # 0 /\ \E j \in Reached(s, format, "class") :
                                    Endless(s[j], want) /\ (found = 0 \/ j < found)

\* uvc_desc_get_frame_format_by_index(): any class descriptor with the index is taken for
\* the frame.
ByIndex(c, n, format, frame) ==
    LET h == StreamHeader(c, n)
        s == Covered(c, h)
        found == Pick(s, h, {j \in DOMAIN s : s[j].type = "class" /\ s[j].index = format},
                      {j \in DOMAIN s : s[j].type = "class" /\ s[j].index = frame})
    IN  IF h = 0 \/ format = 0 \/ frame = 0 THEN None
        ELSE IF found = None THEN None
        ELSE IF c[found.format].frames >= frame THEN found ELSE None

\* What a camera answers that does what it is asked: uvc_host_stream_control_probe().  The
\* default is its first frame; a format that it does not have is not asked of it.
Negotiated(c, n, want) ==
    LET default == ByIndex(c, n, 1, 1)
        asked == IF want.coding # "DEFAULT" \/ default = None THEN want
                 ELSE [coding |-> Coding(c[default.format]), res |-> c[default.frame].res, rate |-> 0]
        found == ByFormat(c, n, asked)
    IN  IF found = None THEN default ELSE ByIndex(c, n, c[found.format].index, c[found.frame].index)

-----------------------------------------------------------------------------
(* Functions and interfaces *)

\* uvc_desc_is_uvc_device()
IsUvc(c) == \E j \in Reached(c, 1, "intf") : c[j].class \in Video

\* The association of the function with an index (from 0 on).
FunctionAt(c, index) ==
    LET all == {j \in Reached(c, 1, "iad") : c[j].class = "video"}
    IN  LeastOf({j \in all : Cardinality({k \in all : k < j}) = index})

\* uvc_desc_get_control_interface_header(); without a class descriptor behind it a NULL
\* pointer is read.
NoHeader(c, index) == FunctionAt(c, index) # 0 /\ NextClass(c, FunctionAt(c, index)) = 0
ControlHeader(c, index) ==
    LET h == IF FunctionAt(c, index) = 0 THEN 0 ELSE NextClass(c, FunctionAt(c, index))
    IN  IF h = 0 THEN 0 ELSE IF c[h].sub = "vc_header" THEN h ELSE 0

\* uvc_desc_is_format_supported()
Supported(c, n, want) == want.coding = "DEFAULT" \/ ByFormat(c, n, want) # None

\* uvc_desc_get_streaming_interface_num(): the first interface of the function that
\* supports the format, as a set of at most one.
StreamInterface(c, index, want) ==
    LET h == ControlHeader(c, index)
        fits == {i \in 1 .. Len(c[h].ifs) : Supported(c, c[h].ifs[i], want)}
    IN  IF h = 0 THEN {} ELSE IF fits = {} THEN {} ELSE {c[h].ifs[Min(fits)]}

\* ... which does not return either from an interface that comes first.
SearchHangs(c, index, want) ==
    LET h == ControlHeader(c, index)
    IN  h # 0 /\ \E i \in DOMAIN c[h].ifs :
                     /\ Hangs(c, c[h].ifs[i], want)
                     /\ \A k \in 1 .. i - 1 : ~Supported(c, c[h].ifs[k], want)

\* uvc_desc_get_streaming_intf_and_ep(): the last of the settings with the largest payload
\* that is allowed, if every setting is as expected.
StreamSetting(c, n) ==
    LET Setting(i) == Interface(c, n, i)
        In(i)   == Endpoint(c, Setting(i), 0)
        all     == 0 .. Settings(c, n) - 1
        Idle(i) == i = 0 /\ c[Setting(i)].eps = 0
        Good(i) == IF Setting(i) = 0 THEN FALSE
                   ELSE c[Setting(i)].class = "stream" /\ (Idle(i) \/ (c[Setting(i)].eps = 1 /\ In(i) # 0))
        fits    == {i \in all : ~Idle(i) /\ c[In(i)].mps <= MaxMps}
        best    == {i \in fits : \A k \in fits : c[In(k)].mps <= c[In(i)].mps}
    IN  IF all = {} \/ \E i \in all : ~Good(i) THEN 0
        ELSE IF fits = {} THEN 0 ELSE Setting(Max(best))

-----------------------------------------------------------------------------
(* uvc_desc_get_frame_list() *)

ListHeader(c, index) ==
    LET h == ControlHeader(c, index)
    IN  IF h = 0 THEN 0 ELSE IF c[h].ifs = <<>> THEN 0 ELSE StreamHeader(c, Head(c[h].ifs))

Known(d) == IsFormat(d) /\ Coding(d) # "none"

\* How many frames the known formats have, in their own words.
FrameCount(c, index) ==
    LET h == ListHeader(c, index)
        s == Covered(c, h)
    IN  IF h = 0 THEN 0
        ELSE MapThenSumSet(LAMBDA j : s[j].frames, {j \in Reached(s, h, "class") : Known(s[j])})

\* The frames that are listed, each with its format: behind a known format all frames up
\* to the next descriptor of another kind, which is skipped even if it is a format.
FrameList(c, index) ==
    LET h == ListHeader(c, index)
        s == Covered(c, h)
        walk == Reached(s, h, "class")
        format[j \in h .. Len(s)] ==
            IF j = h THEN 0
            ELSE IF j \notin walk THEN format[j - 1]
            ELSE IF format[j - 1] = 0 THEN IF Known(s[j]) THEN j ELSE 0
            ELSE IF IsFrame(s[j]) THEN format[j - 1] ELSE 0
    IN  IF h = 0 THEN {}
        ELSE {<<format[j - 1], j>> : j \in {k \in walk : IsFrame(s[k]) /\ format[k - 1] # 0}}

\* An array of size entries takes that many of them, an array of none any number.
Truncated(frames, size) ==
    IF size = 0 THEN frames ELSE {x \in frames : Cardinality({y \in frames : y[2] < x[2]}) < size}

\* uvc_host_interface_check(): for each control interface the number of its frames, as long
\* as there is a header for it.
Controls(c) == Cardinality({j \in Reached(c, 1, "intf") : c[j].class = "control"})
Counts(c) ==
    LET good == {k \in 1 .. Controls(c) : \A l \in 1 .. k : ListHeader(c, l - 1) # 0}
    IN  [k \in 1 .. Cardinality(good) |-> FrameCount(c, k - 1)]

-----------------------------------------------------------------------------
(* All that is read *)

\* The interface and the setting for a stream, and what will be agreed upon.
Choose(c, index, want) ==
    LET n == StreamInterface(c, index, want)
        i == CHOOSE i \in n : TRUE
        end   == IF NoHeader(c, index) THEN "NULL header"
                 ELSE IF SearchHangs(c, index, want) THEN "loop without end" ELSE "none"
    IN  IF n = {} THEN [num |-> 0, at |-> 0, pick |-> None, crash |-> end]
        ELSE [num |-> i, at |-> StreamSetting(c, i), pick |-> Negotiated(c, i, want), crash |-> end]

\* What is read: whether there is video, the numbers of the frames, whether there is a
\* descriptor wherever a header is expected, and what is chosen for each stream.
ReadCamera(c, k, streams, want) ==
    [kind |-> k, want |-> want,
     video  |-> IsUvc(c), counts |-> IF IsUvc(c) THEN Counts(c) ELSE <<>>,
     header |-> IsUvc(c) /\ Len(Counts(c)) < Controls(c) => ~NoHeader(c, Len(Counts(c))),
     found  |-> [i \in streams |-> Choose(c, i - 1, want)]]

-----------------------------------------------------------------------------
(* Reference *)

\* The function (its index) that an interface descriptor belongs to.
FunctionOf(c, j) == Cardinality({k \in DOMAIN c : k < j /\ c[k].type = "iad" /\ c[k].class = "video"}) - 1

\* The format that a frame of the descriptors from h on belongs to.
FormatOf(c, h, j) == Max({k \in h .. j : k = h \/ IsFormat(c[k])})

\* The frames of all formats that the driver knows.
FramesOf(c, index) ==
    LET h == ListHeader(c, index)
    IN  {<<FormatOf(c, h, j), j>> :
            j \in {k \in h + 1 .. Len(Covered(c, h)) : IsFrame(c[k]) /\ Known(c[FormatOf(c, h, k)])}}
=============================================================================
