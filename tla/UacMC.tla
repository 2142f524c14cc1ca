------------------------------- MODULE UacMC -------------------------------
EXTENDS Uac

-----------------------------------------------------------------------------
(* Configurations: the control interface 0 with its units, the microphone 1, the speaker 2. *)

Both   == {"volume", "mute"}
Control0(units) == <<Plain, Intf(0, 0, 0, "control"), AcHeader(1, Len(units) + 1)>> \o units
Alt0(n) == <<Intf(n, 0, 0, "stream")>>
Alt(n, alt, link, format, dir, mps, freq) ==
    <<Intf(n, alt, 1, "stream"), General(link), format, Ep(n, dir, "isoc", mps), CsEp(freq)>>
\* An endpoint for feedback follows the class of the data's.
Feedback == <<Ep(3, "in", "isoc", 1)>>
Keys     == <<Intf(3, 0, 1, "other"), Ep(4, "in", "intr", 1)>>

Pcm(channels, freqs) == Format(1, channels, 16, freqs, 0, 0)
Span(channels, lower, upper) == Format(1, channels, 16, <<>>, lower, upper)

\* Terminals: 1 from the host, 3 the loudspeaker, 4 the microphone, 6 to the host.
SpeakerUnits == <<Unit("input", 1, <<0>>), Feature(2, 1, 1, <<{"mute"}, {"volume"}, {"volume"}>>),
                  Unit("output", 3, <<2>>)>>
MicUnits     == <<Unit("input", 4, <<0>>), Feature(5, 4, 1, <<Both>>), Unit("selector", 7, <<5>>),
                  Unit("output", 6, <<7>>)>>
Mic     == Alt0(1) \o Alt(1, 1, 6, Pcm(1, <<1, 2>>), "in", 2, FALSE)
Speaker == Alt0(2) \o Alt(2, 1, 1, Pcm(2, <<1>>), "out", 2, FALSE)
           \o Alt(2, 2, 1, Pcm(2, <<1, 2>>), "out", 4, TRUE) \o Feedback

Headset == Control0(SpeakerUnits \o MicUnits) \o Mic \o Speaker \o Keys
\* No controls, and all frequencies of a range.
Simple  == Control0(<<Unit("input", 1, <<0>>), Unit("mixer", 2, <<1>>), Unit("output", 3, <<2>>)>>)
           \o Alt0(2) \o Alt(2, 1, 1, Span(2, 1, 3), "out", 6, TRUE) \o Keys
Keyboard == <<Plain>> \o Keys

\* Devices that the driver misreads: the last interface has no other settings; the units
\* are linked in a circle; controls without a width; the units are the end of the
\* configuration; another version; another type of format; more frequencies than the
\* array has; the endpoint's class is missing; the setting with the frequency that is
\* listed last has too small an endpoint; the settings are not numbered in a row; a unit
\* of another branch comes first; only the second setting has a volume control.
Devices ==
    [headset |-> Headset, simple |-> Simple, keyboard |-> Keyboard,
     last    |-> Headset \o Alt0(4),
     circle  |-> Control0(<<Unit("mixer", 2, <<1, 3>>), Unit("mixer", 3, <<2>>)>>) \o Speaker \o Keys,
     width   |-> Control0(<<Feature(2, 1, 0, <<Both>>)>>) \o Speaker \o Keys,
     control |-> <<Plain>> \o Speaker \o Tail(Control0(SpeakerUnits)),
     version |-> <<Plain, Intf(0, 0, 0, "control"), AcHeader(2, 1)>> \o Speaker \o Keys,
     coded   |-> Control0(SpeakerUnits) \o Alt0(2)
                 \o Alt(2, 1, 1, [Pcm(2, <<1>>) EXCEPT !.kind = 2], "out", 2, FALSE) \o Keys,
     many    |-> Control0(SpeakerUnits) \o Alt0(2) \o Alt(2, 1, 1, Pcm(2, <<2, 3, 1>>), "out", 2, FALSE) \o Keys,
     open    |-> Control0(SpeakerUnits) \o Alt0(2)
                 \o <<Intf(2, 1, 1, "stream"), General(1), Pcm(2, <<1>>), Ep(2, "out", "isoc", 2)>> \o Keys,
     small   |-> Control0(SpeakerUnits) \o Alt0(2) \o Alt(2, 1, 1, Pcm(2, <<1>>), "out", 2, FALSE)
                 \o Alt(2, 2, 1, Pcm(2, <<1>>), "out", 1, FALSE) \o Keys,
     gap     |-> Control0(SpeakerUnits) \o Alt0(2) \o Alt(2, 2, 1, Pcm(2, <<1>>), "out", 2, FALSE) \o Keys,
     branch  |-> Control0(<<Unit("output", 8, <<1>>)>> \o SpeakerUnits) \o Speaker \o Keys,
     second  |-> Control0(SpeakerUnits) \o Alt0(2) \o Alt(2, 1, 9, Pcm(1, <<1>>), "out", 2, FALSE)
                 \o Alt(2, 2, 1, Pcm(2, <<1>>), "out", 2, FALSE) \o Keys]

DeviceReading(kind, want) == LET c == Devices[kind] IN ReadAudio(c, kind, want)

DeviceKinds(e) ==
    IF e \cap DOMAIN Devices # {} THEN e \cap DOMAIN Devices ELSE {"headset"}

\* What is wanted of the microphone and of the speaker.
Want(channels, freq) == [channels |-> channels, bits |-> 16, freq |-> freq]
StreamWants(kind) ==
    IF kind \in {"headset"} THEN {<<Want(1, 2), Want(2, 2)>>}
    ELSE IF kind = "simple" THEN {<<Want(1, 1), Want(2, 3)>>, <<Want(1, 1), Want(2, 4)>>}
    ELSE {<<Want(1, 1), Want(2, 1)>>}

\* The application closes in its callback, later, or has no callback; the streams start
\* suspended, or another device comes; volume and mute are set and asked for; transfers and
\* requests fail; a device has less to control, or no audio; it is opened by identifiers.
Tame == {{"incb"}, {"later", "ask"}, {"other"}, {"nocb", "ids"}, {"error"}, {"simple", "keyboard"}}

\* One environment for each hazard that the driver does not survive: a disconnection
\* while it looks at the device or opens it, while it closes it, while data is written, or
\* between two messages; where its task frees the interface, one while the volume range is
\* awaited, or data is read; an open of a device that is gone; a request that times out;
\* a reading or writing task besides the one that controls the streams; two cores; a volume
\* that one channel refuses, or that is set in dB, or whose range could not be read; two
\* devices, of which one is opened by its identifiers; and the devices that it misreads.
Wild == {{"early"}, {"closing"}, {"writing"}, {"loop", "other", "incb"}, {"stale"},
         {"loop", "other", "nocb"}, {"early", "incb"}, {"writing", "nocb"},
         {"slow"}, {"two"}, {"race"}, {"ask", "error"}, {"ask", "db"}, {"ids", "other"}}
        \cup {{kind} : kind \in DOMAIN Devices \ {"headset", "simple", "keyboard", "second"}}
        \cup {{"second", "ask"}}

-----------------------------------------------------------------------------
\* What the theorems of Uac_proof assume holds of this instance.
ASSUME TheoremsApply == Tamed
=============================================================================
