---------------------------- MODULE UacDescriptors ----------------------------
(***************************************************************************)
(* What the UAC class driver reads in the configuration of an audio device *)
(* (uac_host.c): the units of its control interface, and the alternate     *)
(* settings of its streaming interfaces.  An alternate setting is found by *)
(* its index among those that follow the setting 0.  A sampling frequency  *)
(* is a small number, and a packet takes channels times frequency of it.   *)
(***************************************************************************)
EXTENDS Descriptors
LOCAL INSTANCE FiniteSetsExt
LOCAL INSTANCE SequencesExt
LOCAL INSTANCE Functions

CONSTANT MaxFreqs   \* UAC_FREQ_NUM_MAX

ASSUME FreqsAreBounded == MaxFreqs \in Nat

\* The classes of interfaces: Audio Control, Audio Streaming, others.
Audio == {"control", "stream"}
AcHeader(version, total) ==
    [type |-> "class", size |-> "ok", sub |-> "ac_header", version |-> version, total |-> total]
\* width: bControlSize; controls: of the master channel and the channels
Unit(sub, id, sources) == [type |-> "class", size |-> "ok", sub |-> sub, id |-> id, sources |-> sources]
Feature(id, source, width, controls) ==
    [type |-> "class", size |-> "ok", sub |-> "feature", id |-> id, sources |-> <<source>>,
     width |-> width, controls |-> controls]
General(link) == [type |-> "class", size |-> "ok", sub |-> "as_general", link |-> link]
\* freqs: a list of them, or all from lower to upper
Format(kind, channels, bits, freqs, lower, upper) ==
    [type |-> "class", size |-> "ok", sub |-> "as_format", kind |-> kind, channels |-> channels,
     bits |-> bits, freqs |-> freqs, lower |-> lower, upper |-> upper]
CsEp(freq) == [type |-> "cs_ep", size |-> "ok", freq |-> freq]

Lowest(S) == IF S = {} THEN 0 ELSE Min(S)
Highest(S)  == IF S = {} THEN 0 ELSE Max(S)

\* The descriptors that calls of usb_parse_next_descriptor() come to.
Behind(c, at) == {j \in at + 1 .. Len(c) : \A k \in at .. j - 1 : c[k].size # "zero"}
IsCs(d, sub) == d.type = "class" /\ d.sub = sub

\* uac_interface_present()
IsUac(c) == \E j \in Reached(c, 1, "intf") : c[j].class \in Audio

-----------------------------------------------------------------------------
(* The control interface: _uac_host_device_add() *)

Control(c) == Lowest({j \in Reached(c, 1, "intf") : c[j].class = "control"})

\* The class descriptors in a row behind the first control interface.
ControlRun(c) ==
    LET first == IF Control(c) = 0 THEN 0 ELSE NextOfType(c, Control(c), "class")
    IN  IF first = 0 THEN {} ELSE {j \in first .. Len(c) : \A k \in first .. j : c[k].type = "class"}
Headers(c) == {j \in ControlRun(c) : c[j].sub = "ac_header"}

\* Only UAC 1.0, and a total length that fits, are supported; at the end of the
\* configuration a NULL pointer is read.
DeviceIsRead(c) == \A j \in Headers(c) : c[j].version = 1 /\ c[j].total <= Len(c) - j + 1
RunEndsBadly(c) == Len(c) \in ControlRun(c)

\* cs_ac_desc: what the last header covers.
Units(c) ==
    LET h == Highest(Headers(c))
    IN  IF h = 0 THEN {} ELSE {j \in Behind(c, h) : j < h + c[h].total}

Linked == {"output", "feature", "selector", "mixer"}

\* _uac_next_linked_uint_id(): the first unit that has the unit id as a source.
NextUnit(c, us, id) == Lowest({u \in us : c[u].sub \in Linked /\ id \in Range(c[u].sources)})

\* _uac_last_linked_uint_id(): the unit id itself.
LastUnit(c, us, id) == Lowest({u \in us : c[u].sub \in Linked /\ c[u].id = id})

\* Where _uac_host_device_find_feature_unit() ends, and what it finds, from a terminal
\* towards (out) or from (in) which the data goes: a step for each unit is enough to tell.
Linking(c, us, out, at) ==
    LET u == IF out THEN NextUnit(c, us, at.id) ELSE LastUnit(c, us, at.id)
    IN  IF at.id = 0 \/ at.feature # 0 THEN at
        ELSE [id |-> IF u = 0 THEN 0 ELSE IF out THEN c[u].id ELSE Head(c[u].sources),
              feature |-> IF u = 0 THEN 0 ELSE IF c[u].sub = "feature" THEN u ELSE 0]
Trail(c, terminal, out) ==
    LET us == Units(c)
        Follow(u, at) == Linking(c, us, out, at)
    IN  FoldSet(Follow, [id |-> terminal, feature |-> 0], us \cup {0})

FeatureUnit(c, terminal, out) == Trail(c, terminal, out).feature
\* ... which does not return from units that are linked in a circle.
Circles(c, terminal, out) == LET t == Trail(c, terminal, out) IN t.id # 0 /\ t.feature = 0

-----------------------------------------------------------------------------
(* The streaming interfaces: uac_host_interface_add() *)

\* The interface descriptors that follow the one at, as long as they have its number.
SameNumber(c, at) ==
    LET all == Reached(c, at, "intf")
    IN  {j \in all : \A k \in all : k <= j => c[k].num = c[at].num}

\* What is read for an alternate setting: up to the descriptor of its endpoint's class, or
\* without one to the end of the configuration.
ReadFor(c, at) ==
    LET ends == {j \in Behind(c, at) : c[j].type = "cs_ep"}
    IN  {j \in Behind(c, at) : ends = {} \/ j <= Min(ends)}

\* The terminal that an endpoint e is linked to, and its feature unit.
Link(c, at, e) ==
    LET g == Highest({j \in ReadFor(c, at) : j < e /\ IsCs(c[j], "as_general")})
    IN  IF g = 0 THEN 0 ELSE c[g].link
UnitOf(c, at, e) == FeatureUnit(c, Link(c, at, e), c[e].dir = "out")

\* uac_iface_alt_t: of every kind of descriptor the last one counts, of the channels with
\* a control all.
Setting(c, at) ==
    LET all     == ReadFor(c, at)
        eps     == {j \in all : c[j].type = "ep"}
        formats == {j \in all : IsCs(c[j], "as_format")}
        unit    == [e \in eps |-> UnitOf(c, at, e)]
        units   == {e \in eps : unit[e] # 0}
        With(control) == UNION {{ch \in DOMAIN c[unit[e]].controls : control \in c[unit[e]].controls[ch]} :
                                   e \in units}
    IN  [format |-> Highest(formats), ep |-> Highest(eps),
         unit |-> IF units = {} THEN 0 ELSE unit[Max(units)],
         vol |-> With("volume"), mute |-> With("mute"),
         freq |-> \E j \in all : c[j].type = "cs_ep" /\ c[j].freq]

\* usb_parse_interface_descriptor() finds the setting 0, whatever its class.
Alternates(c, n) ==
    LET at == Interface(c, n, 0)
    IN  IF at = 0 THEN <<>> ELSE SetToSortSeq(SameNumber(c, at), <)
AllSettings(c, n) == LET alts == Alternates(c, n) IN [i \in DOMAIN alts |-> Setting(c, alts[i])]

\* Why an interface cannot be opened: the driver does not survive any of these.
BadFormat(c, at) == \E j \in ReadFor(c, at) : IsCs(c[j], "as_format") /\ c[j].kind # 1
BadCircle(c, at) == \E e \in ReadFor(c, at) : c[e].type = "ep" /\ Circles(c, Link(c, at, e), c[e].dir = "out")
BadWidth(c, at) ==
    \E e \in ReadFor(c, at) : c[e].type = "ep" /\ (LET u == UnitOf(c, at, e) IN u # 0 /\ c[u].width = 0)
OpenCrash(c, n) ==
    LET alts == {Alternates(c, n)[i] : i \in DOMAIN Alternates(c, n)}
    IN  CASE RunEndsBadly(c) -> "NULL descriptor in _uac_host_device_add"
          [] ~DeviceIsRead(c) -> "NULL interface in the clean-up of open"
          [] alts = {} -> "NULL iface_alt"
          [] \E at \in alts : BadFormat(c, at) -> "NULL interface in the clean-up of open"
          [] \E at \in alts : BadCircle(c, at) -> "_uac_host_device_find_feature_unit does not return"
          [] \E at \in alts : BadWidth(c, at) -> "division by zero"
          [] OTHER -> "none"

\* dev_info.type: the direction of the last endpoint of all settings.
TypeOf(c, all) ==
    LET with == {i \in DOMAIN all : all[i].ep # 0}
    IN  IF with = {} THEN "out" ELSE c[all[Max(with)].ep].dir

-----------------------------------------------------------------------------
(* The setting that a stream uses: uac_host_device_start() *)

\* Only the channels and the bits are compared first; what was not read is 0.
Suits(c, s, want) ==
    s.format # 0 /\ c[s.format].channels = want.channels /\ c[s.format].bits = want.bits
InList(c, s, want) == \E i \in DOMAIN c[s.format].freqs : i <= MaxFreqs /\ c[s.format].freqs[i] = want.freq
InRange(c, s, want) ==
    c[s.format].freqs = <<>> /\ c[s.format].lower <= want.freq /\ want.freq <= c[s.format].upper

\* Of all settings the first that has a range of frequencies, or else the last that has a
\* list.
Chosen(c, all, want) ==
    LET suit   == {i \in DOMAIN all : Suits(c, all[i], want)}
        ranges == {i \in suit : InRange(c, all[i], want)}
    IN  IF ranges # {} THEN Min(ranges) ELSE Highest({i \in suit : InList(c, all[i], want)})

\* A packet must fit into the endpoint.
Fits(c, s, want) == s.ep # 0 /\ want.channels * want.freq <= c[s.ep].mps
Started(c, all, want) ==
    LET i == Chosen(c, all, want) IN IF i = 0 THEN 0 ELSE IF Fits(c, all[i], want) THEN i ELSE 0

\* A list that is longer than the array is searched beyond it.
StartCrash(c, all, want) ==
    LET i == Started(c, all, want)
    IN  CASE \E k \in DOMAIN all : /\ Suits(c, all[k], want) /\ Len(c[all[k].format].freqs) > MaxFreqs
                                   /\ ~InList(c, all[k], want) -> "reads behind sample_freq"
          [] i # 0 /\ c[all[i].ep].dir # TypeOf(c, all) -> "assert(direction)"
          [] OTHER -> "none"

-----------------------------------------------------------------------------
(* What is announced: uac_host_interface_check() *)

\* Of the interfaces in a row with one number the first that streams.
Streams(c) ==
    {j \in Reached(c, 1, "intf") :
        /\ c[j].class = "stream"
        /\ \A k \in Reached(c, 1, "intf") : k < j /\ c[k].class = "stream" => j \notin SameNumber(c, k)}

\* The direction of the first endpoint of the next interface descriptor.
NextIn(c, j) == NextOfType(c, j, "intf")
Announced(c) ==
    {<<c[j].num, c[Endpoint(c, NextIn(c, j), 0)].dir>> :
        j \in {k \in Streams(c) : IF NextIn(c, k) = 0 THEN FALSE ELSE Endpoint(c, NextIn(c, k), 0) # 0}}
CheckCrash(c) == IF \E j \in Streams(c) : NextIn(c, j) = 0 THEN "assert(intf_desc)" ELSE "none"

-----------------------------------------------------------------------------
(* Reference *)

\* The streaming interfaces with their directions, by the endpoints of their own settings.
StreamsOf(c) ==
    LET First(j) == Lowest({k \in Inside(c, j) : c[k].type = "ep"})
    IN  {<<c[j].num, c[First(j)].dir>> :
            j \in {k \in DOMAIN c : c[k].type = "intf" /\ c[k].class = "stream" /\ First(k) # 0}}

\* The settings of an interface that suit, read from its own descriptors only.
Suitable(c, n, want) ==
    {j \in DOMAIN c :
        /\ c[j].type = "intf" /\ c[j].num = n /\ c[j].alt # 0
        /\ \E f, e \in Inside(c, j) :
              /\ IsCs(c[f], "as_format") /\ c[f].kind = 1
              /\ c[f].channels = want.channels /\ c[f].bits = want.bits
              /\ \/ \E i \in DOMAIN c[f].freqs : c[f].freqs[i] = want.freq
                 \/ c[f].freqs = <<>> /\ c[f].lower <= want.freq /\ want.freq <= c[f].upper
              /\ c[e].type = "ep" /\ want.channels * want.freq <= c[e].mps}

\* The terminal of an interface descriptor's own class descriptors.
LinkOf(c, at) ==
    LET g == {j \in Inside(c, at) : IsCs(c[j], "as_general")} IN IF g = {} THEN 0 ELSE c[Min(g)].link

\* The feature units on the ways from the terminal, or to it.
UnitsOnTheWay(c, terminal, out) ==
    LET us == {u \in Units(c) : c[u].sub \in Linked}
        Step(u, ids) ==
            ids \cup (IF out THEN {c[v].id : v \in {w \in us : Range(c[w].sources) \cap ids # {}}}
                      ELSE UNION {Range(c[v].sources) : v \in {w \in us : c[w].id \in ids}})
        way == FoldSet(Step, {terminal}, us)
    IN  {u \in us : c[u].sub = "feature" /\ c[u].id \in way}

\* A setting is used if one suits, and then such a one, by its number; the unit it is controlled by is one
\* that its data comes through, if there is one; the stream has the direction of its data.
IsRight(c, i, all, at, dir, want) ==
    LET alt   == Alternates(c, i)[at]
        units == UnitsOnTheWay(c, LinkOf(c, alt), dir = "out")
    IN  /\ TypeOf(c, all) = dir
        /\ IF at = 0 THEN Suitable(c, i, want) = {}
           ELSE /\ alt \in Suitable(c, i, want) /\ c[alt].alt = at
                /\ IF units = {} THEN all[at].unit = 0 ELSE all[at].unit \in units

-----------------------------------------------------------------------------
(* All that is read *)

\* Of an interface, given what the application wants of its stream, and whether it is right.
StreamOf(c, i, want) ==
    LET all == AllSettings(c, i)
        at == Started(c, all, want)
        s == all[at]
        Says(dir) == IsUac(c) /\ <<i, dir>> \in Announced(c)
    IN  [dir |-> IF Says("in") THEN "in" ELSE IF Says("out") THEN "out" ELSE "none",
         open |-> OpenCrash(c, i), start |-> StartCrash(c, all, want), setting |-> at,
         range |-> IF all = <<>> THEN FALSE ELSE all[1].unit # 0 /\ all[1].vol # {},
         unit |-> at # 0 /\ s.unit # 0, vol |-> IF at = 0 THEN {} ELSE s.vol,
         mute |-> IF at = 0 THEN {} ELSE s.mute, freq |-> at # 0 /\ s.freq,
         right |-> IsRight(c, i, all, at, IF Says("in") THEN "in" ELSE "out", want)]

ReadAudio(c, kind, want) ==
    [kind |-> kind, want |-> want, check |-> CheckCrash(c),
     announced |-> IF IsUac(c) THEN Announced(c) ELSE {}, streams |-> StreamsOf(c),
     ifs |-> [i \in DOMAIN want |-> StreamOf(c, i, want[i])]]
=============================================================================
