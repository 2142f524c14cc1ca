------------------------------ MODULE Hid_proof ------------------------------
(***************************************************************************)
(* The HID driver frees nothing that is in use, loses no interface, and    *)
(* keeps listening: proved for any number of interfaces, devices and calls *)
(* in the environments that Tamed and OneAtATime leave.                    *)
(*                                                                         *)
(* HidInv says what an interface can be at all (Kinds), who has yet to be  *)
(* told that it closes (EachIsTold), what the two tasks may rely on where  *)
(* they are (TaskPlace, UserPlace), and what messages there can be.  That  *)
(* interfaces listen has an invariant of its own, ListenInv.               *)
(***************************************************************************)
EXTENDS Hid, WellFoundedInduction, SequenceTheorems, TLAPS

\* Environments without the hazards, each of which TLC shows to break Consistent: one
\* task runs at a time, no request times out or is made for an interface that waits to
\* be closed, no device leaves before it was opened, there is memory; and no port is
\* suspended while an interface waits.
Tamed ==
    \A e \in Environments : /\ e \cap {"race", "timeout", "stale", "fast", "nomem"} = {}
                            /\ ~({"later", "suspend"} \subseteq e)

\* What hid_iface_t can be: not in the list; never opened, or closed without having been;
\* open; closed, until its user closes it too.
Free(x)    == x = NoIface
Unused(x)  == /\ x.st \in {"IDLE", "READY"} \/ (x.st = "SUSPENDED" /\ x.last \in {"IDLE", "READY"})
              /\ ~x.cb /\ ~x.claimed /\ x.urb = "null" /\ x.told = 0
Used(x)    == /\ x.st \in {"READY", "ACTIVE"} \/ (x.st = "SUSPENDED" /\ x.last \in {"READY", "ACTIVE"})
              /\ x.cb /\ x.claimed /\ x.urb \in InDone \cup {"idle", "flight"} /\ x.told = 0
Closing(x) == x.st = "WAIT" /\ x.cb /\ ~x.claimed /\ x.urb = "dangling" /\ x.told \in {0, 1}

Kind(x) == Free(x) \/ Unused(x) \/ Used(x) \/ Closing(x)
Kinds == \A i \in Iface : Kind(iface[i])

\* An interface that waits is about to be reported, or was and is to be closed later.
EachIsTold ==
    \A i \in Iface : iface[i].st = "WAIT" =>
        IF (task.pc = "cb" /\ task.i = i) \/ (user.pc = "cb" /\ user.i = i)
        THEN iface[i].told = 0 ELSE iface[i].told = 1 /\ "later" \in env

\* The messages there can be, and what they tell of
NoNews   == msgs \in {<<>>, <<"susp">>, <<"res">>, <<"susp", "res">>}
GoneNews == msgs \in {<<"gone">>, <<"susp", "gone">>, <<"res", "gone">>, <<"susp", "res", "gone">>}
Messages ==
    /\ NoNews \/ GoneNews \/ msgs = <<"new">>
    /\ msgs = <<"new">> <=> bus = "present" /\ dev = "none"
    /\ GoneNews => bus = "gone" /\ dev = "listed"
    /\ NoNews /\ msgs # <<>> => dev = "listed"
    /\ susp => bus = "present" /\ dev = "listed" /\ msgs \in {<<>>, <<"susp">>}
    /\ susp \/ task.kind \in {"susp", "res"} \/ msgs \notin {<<>>, <<"new">>, <<"gone">>}
          => "suspend" \in env

\* The device and its interfaces
DeviceIs ==
    /\ dev \in {"none", "listed"} /\ (dev = "listed" => bus # "none")
    /\ bus # "none" => plugs # 0
    /\ msgs = <<"new">> => InList = {} /\ task.pc = "idle"
    /\ \A i \in Iface : /\ Listed(i) => Device(i) = plugs
                        /\ Listed(i) /\ iface[i].st # "WAIT" => dev = "listed"
                        /\ iface[i].urb = "flight" => bus = "present"
    /\ ctl.st = "flight" => bus = "present"

\* The driver's task is at an interface that is in the list; when it closes a device
\* nothing of it is under way, and all before it is closed.
TaskPlace ==
    /\ task.pc = "idle" <=> task.kind = "none"
    /\ task.pc # "idle" => user.pc \in {"idle", "wait"} /\ ~ctl.sem /\ dev = "listed"
    /\ task.pc = "cb" => /\ task.kind = "gone" /\ task.i \in Iface
                         /\ iface[task.i].st = "WAIT" /\ task.cur # task.i
    /\ task.pc # "idle" /\ task.cur # 0 => Listed(task.cur)
    /\ task.kind = "gone" =>
          /\ bus = "gone" /\ msgs = <<>> /\ ctl.st = "idle"
          /\ \A i \in Iface : iface[i].urb \notin InDone /\ (Listed(i) =>
                iface[i].st = "WAIT" \/ (task.cur # 0 /\ i >= task.cur))
    /\ task.kind = "susp" =>
          \A i \in Iface : Listed(i) =>
                iface[i].st = "SUSPENDED" \/ (task.cur # 0 /\ i >= task.cur)

\* What the application's task has found out still holds.
UserPlace ==
    /\ user.pc = "wait" <=> ctl.sem \/ ctl.st # "idle"
    /\ ctl.sem => ctl.st = "idle"
    /\ user.pc = "wait" => dev = "listed"
    /\ user.pc # "idle" => user.i \in Iface
    /\ user.pc = "start" => Used(iface[user.i]) /\ iface[user.i].st # "ACTIVE"
    /\ user.pc = "release" => iface[user.i].st = "READY"
    /\ user.pc = "cb" => iface[user.i].st = "WAIT"
    /\ user.pc = "ask" => iface[user.i].st \notin {"free", "WAIT"}

HidInv ==
    /\ Tamed /\ TypeOK /\ NoAbuse /\ env \in Environments
    /\ Kinds /\ EachIsTold /\ Messages /\ DeviceIs /\ TaskPlace /\ UserPlace
-----------------------------------------------------------------------------
(* The types, by name *)

HidIface == [st : {"free", "IDLE", "READY", "ACTIVE", "WAIT", "SUSPENDED"},
             last : {"IDLE", "READY", "ACTIVE", "WAIT"}, cb : BOOLEAN, told : 0..2,
             claimed : BOOLEAN, urb : InDone \cup {"null", "idle", "flight", "dangling"},
             failed : BOOLEAN]
TaskType == [pc : {"idle", "walk", "cb"}, kind : {"none", "new", "gone", "susp", "res"},
             cur : Iface \cup {0}, i : Iface \cup {0}]
UserType == [pc : {"idle", "start", "release", "cb", "ask", "wait"}, i : Iface \cup {0}]
CtlType  == [st : {"idle", "flight", "done"}, sem : BOOLEAN]

\* An interface that there can be
Sound(x) == x \in HidIface /\ Kind(x)

\* Interfaces are numbered from one.
LEMMA IfacesAreNumbers == Iface \subseteq Nat \ {0}
BY BoundsAreNat DEF Iface

\* What the proofs use of the invariant
LEMMA Known ==
    ASSUME HidInv
    PROVE  /\ iface \in [Iface -> HidIface] /\ (\A i \in Iface : Sound(iface[i]))
           /\ task \in TaskType /\ user \in UserType /\ ctl \in CtlType /\ crash = "none"
           /\ {"race", "timeout", "stale", "fast", "nomem"} \cap env = {}
           /\ ~({"later", "suspend"} \subseteq env)
BY DEF HidInv, TypeOK, HidIface, TaskType, UserType, CtlType, NoAbuse, Kinds, Sound, Tamed

\* ... and back
LEMMA TypesAre ==
    ASSUME drv \in {"up", "ending", "down"}, bus \in {"none", "present", "gone"},
           plugs \in 0..MaxPlugs, susp \in BOOLEAN, calls \in 0..MaxCalls,
           msgs \in Seq({"new", "gone", "susp", "res"}), dev \in {"none", "listed", "broken"},
           ctl \in CtlType, iface \in [Iface -> HidIface], task \in TaskType, user \in UserType
    PROVE  TypeOK
BY DEF TypeOK, HidIface, TaskType, UserType, CtlType

\* One interface changes.
OneIs(i, y) ==
    /\ iface' \in [Iface -> HidIface] /\ iface'[i] = y /\ Kinds'
    /\ \A j \in Iface : j # i => iface'[j] = iface[j]

\* The interface that changes stays one that there can be.
LEMMA OneChanges ==
    ASSUME HidInv, NEW i \in Iface, NEW y, Sound(y), iface' = [iface EXCEPT ![i] = y]
    PROVE  OneIs(i, y)
BY Known DEF OneIs, Sound, Kinds

\* A set of numbers has a least one.
LEMMA MinIsLeast ==
    ASSUME NEW S \in SUBSET Nat, S # {}
    PROVE  Min(S) \in S /\ \A y \in S : Min(S) <= y
<1>1. PICK R : R = OpToRel(<,Nat) OBVIOUS
<1>2. IsWellFoundedOn(R, Nat) BY <1>1, NatLessThanWellFounded
<1>3. PICK n \in S : \A m \in S : ~(<<m, n>> \in R) BY <1>2, WFMin
<1>4. \A m \in S : <<m, n>> \in R <=> m < n BY <1>1 DEF OpToRel
<1>5. \A m \in S : ~(m < n) BY <1>3, <1>4, Zenon
<1>6. \A m \in S : n <= m BY <1>5
<1> QED BY <1>6 DEF Min

\* STAILQ_FIRST() and STAILQ_NEXT(): the first interface of the list from one on
LEMMA FirstIs ==
    ASSUME NEW i \in Nat
    PROVE  /\ FirstFrom(i) \in Iface \cup {0}
           /\ FirstFrom(i) # 0 => Listed(FirstFrom(i)) /\ FirstFrom(i) >= i
           /\ \A j \in Iface : Listed(j) /\ j >= i => FirstFrom(i) # 0 /\ j >= FirstFrom(i)
<1>1. PICK S \in SUBSET Nat : S = {j \in InList : j >= i}
  BY IfacesAreNumbers DEF InList
<1>2. S # {} => Min(S) \in S /\ \A y \in S : Min(S) <= y BY MinIsLeast
<1>3. FirstFrom(i) = IF S # {} THEN Min(S) ELSE 0 BY <1>1 DEF FirstFrom
<1>4. \A j \in Iface : j \in S <=> Listed(j) /\ j >= i BY <1>1 DEF InList
<1>5. S \subseteq Iface BY <1>1 DEF InList
<1> QED BY <1>2, <1>3, <1>4, <1>5, IfacesAreNumbers

\* A device has interfaces.
LEMMA DeviceHasSome ==
    ASSUME plugs \in 1..MaxPlugs
    PROVE  \E i \in Iface : Device(i) = plugs
<1>1. PICK k \in Nat \ {0} : k = PerDevice BY BoundsAreNat
<1>2. PICK m \in Nat : m = MaxPlugs BY BoundsAreNat
<1>3. PICK p \in Nat : p + 1 = plugs
  <2>1. plugs - 1 \in Nat /\ (plugs - 1) + 1 = plugs BY <1>2
  <2> QED BY <2>1
<1>4. PICK d \in Nat : m = p + 1 + d
  <2>1. m - (p + 1) \in Nat /\ m = p + 1 + (m - (p + 1)) BY <1>2, <1>3
  <2> QED BY <2>1
<1>5. k * m = p * k + k + d * k /\ d * k \in Nat /\ p * k \in Nat BY <1>4
<1>6. p * k + 1 \in Iface BY <1>1, <1>2, <1>5 DEF Iface
<1>7. (p * k + 1) - 1 = p * k /\ (p * k) \div k = p BY <1>5
<1>8. Device(p * k + 1) = plugs BY <1>1, <1>3, <1>7 DEF Device
<1> QED BY <1>6, <1>8

\* The messages, as sequences: one more is appended to one.
LEMMA AppendToOne == ASSUME NEW a, NEW b PROVE Append(<<a>>, b) = <<a, b>>
<1> DEFINE T == {a, b}
<1>1. /\ <<a>> \in Seq(T) /\ b \in T /\ <<a, b>> \in Seq(T) /\ Len(<<a>>) = 1 /\ Len(<<a, b>>) = 2
      /\ <<a>>[1] = a /\ <<a, b>>[1] = a /\ <<a, b>>[2] = b
  OBVIOUS
<1>2. /\ Append(<<a>>, b) \in Seq(T) /\ Len(Append(<<a>>, b)) = 2
      /\ Append(<<a>>, b)[1] = a /\ Append(<<a>>, b)[2] = b
  BY <1>1, AppendProperties
<1>3. PICK s \in Seq(T) : s = Append(<<a>>, b) BY <1>2
<1>4. PICK t \in Seq(T) : t = <<a, b>> BY <1>1
<1>5. Len(s) = 2 /\ Len(t) = 2 /\ s[1] = t[1] /\ s[2] = t[2]
  BY <1>1, <1>2, <1>3, <1>4
<1>6. s = t BY <1>5, SeqEqual
<1> QED BY <1>3, <1>4, <1>6

\* ... and to two messages
LEMMA AppendToTwo == ASSUME NEW a, NEW b, NEW c PROVE Append(<<a, b>>, c) = <<a, b, c>>
<1> DEFINE T == {a, b, c}
<1>1. /\ <<a, b>> \in Seq(T) /\ c \in T /\ <<a, b, c>> \in Seq(T)
      /\ Len(<<a, b>>) = 2 /\ Len(<<a, b, c>>) = 3 /\ <<a, b>>[1] = a /\ <<a, b>>[2] = b
      /\ <<a, b, c>>[1] = a /\ <<a, b, c>>[2] = b /\ <<a, b, c>>[3] = c
  OBVIOUS
<1>2. /\ Append(<<a, b>>, c) \in Seq(T) /\ Len(Append(<<a, b>>, c)) = 3
      /\ Append(<<a, b>>, c)[1] = a /\ Append(<<a, b>>, c)[2] = b /\ Append(<<a, b>>, c)[3] = c
  BY <1>1, AppendProperties
<1>3. PICK s \in Seq(T) : s = Append(<<a, b>>, c) BY <1>2
<1>4. PICK t \in Seq(T) : t = <<a, b, c>> BY <1>1
<1>5. Len(s) = 3 /\ Len(t) = 3 /\ s[1] = t[1] /\ s[2] = t[2] /\ s[3] = t[3]
  BY <1>1, <1>2, <1>3, <1>4
<1>6. s = t BY <1>5, SeqEqual
<1> QED BY <1>3, <1>4, <1>6

\* A suspension, a resumption and the end of the device are appended.
LEMMA AppendsAre ==
    /\ Append(<<>>, "susp") = <<"susp">> /\ Append(<<>>, "res") = <<"res">>
    /\ Append(<<>>, "gone") = <<"gone">> /\ Append(<<"susp">>, "res") = <<"susp", "res">>
    /\ Append(<<"susp">>, "gone") = <<"susp", "gone">>
    /\ Append(<<"res">>, "gone") = <<"res", "gone">>
    /\ Append(<<"susp", "res">>, "gone") = <<"susp", "res", "gone">>
<1>1. /\ Append(<<>>, "susp") = <<"susp">> /\ Append(<<>>, "res") = <<"res">>
      /\ Append(<<>>, "gone") = <<"gone">>
  OBVIOUS
<1> QED BY <1>1, AppendToOne, AppendToTwo, Zenon

\* What client_event_cb() leaves of the messages
LEMMA TailsAre ==
    /\ Tail(<<"new">>) = <<>> /\ Tail(<<"susp">>) = <<>> /\ Tail(<<"res">>) = <<>>
    /\ Tail(<<"gone">>) = <<>> /\ Tail(<<"susp", "res">>) = <<"res">>
    /\ Tail(<<"susp", "gone">>) = <<"gone">> /\ Tail(<<"res", "gone">>) = <<"gone">>
    /\ Tail(<<"susp", "res", "gone">>) = <<"res", "gone">>
OBVIOUS

\* ... and which of them it handles
LEMMA HeadsAre ==
    /\ Head(<<"new">>) = "new" /\ Head(<<"susp">>) = "susp" /\ Head(<<"res">>) = "res"
    /\ Head(<<"gone">>) = "gone" /\ Head(<<"susp", "res">>) = "susp"
    /\ Head(<<"susp", "gone">>) = "susp" /\ Head(<<"res", "gone">>) = "res"
    /\ Head(<<"susp", "res", "gone">>) = "susp"
OBVIOUS

\* No two of these sequences are the same.
LEMMA MessagesDiffer ==
    /\ <<"new">> \notin {<<>>, <<"susp">>, <<"res">>, <<"susp", "res">>, <<"gone">>,
                         <<"susp", "gone">>, <<"res", "gone">>, <<"susp", "res", "gone">>}
    /\ <<"gone">> \notin {<<>>, <<"susp">>, <<"res">>, <<"susp", "res">>,
                         <<"susp", "gone">>, <<"res", "gone">>, <<"susp", "res", "gone">>}
    /\ <<"res", "gone">> \notin {<<>>, <<"susp">>, <<"res">>, <<"susp", "res">>,
                         <<"susp", "gone">>, <<"susp", "res", "gone">>}
    /\ <<"susp", "gone">> \notin {<<>>, <<"susp">>, <<"res">>, <<"susp", "res">>,
                         <<"susp", "res", "gone">>}
    /\ <<"susp", "res", "gone">> \notin {<<>>, <<"susp">>, <<"res">>, <<"susp", "res">>}
    /\ <<"susp", "res">> \notin {<<>>, <<"susp">>, <<"res">>}
    /\ <<"res">> \notin {<<>>, <<"susp">>} /\ <<"susp">> # <<>>
OBVIOUS

\* Each is a sequence of messages.
LEMMA MessagesAreTyped ==
    ASSUME NEW m \in {<<>>, <<"susp">>, <<"res">>, <<"susp", "res">>, <<"gone">>, <<"new">>,
                      <<"susp", "gone">>, <<"res", "gone">>, <<"susp", "res", "gone">>}
    PROVE  m \in Seq({"new", "gone", "susp", "res"})
<1> DEFINE T == {"new", "gone", "susp", "res"}
<1>1. <<>> \in Seq(T) /\ <<"susp">> \in Seq(T) /\ <<"res">> \in Seq(T) /\ <<"new">> \in Seq(T)
  OBVIOUS
<1>2. <<"gone">> \in Seq(T) /\ <<"susp", "res">> \in Seq(T) /\ <<"susp", "gone">> \in Seq(T)
  OBVIOUS
<1>3. <<"res", "gone">> \in Seq(T) /\ <<"susp", "res", "gone">> \in Seq(T)
  OBVIOUS
<1> HIDE DEF T
<1>4. m \in Seq(T) BY <1>1, <1>2, <1>3, Zenon
<1> QED BY <1>4 DEF T

-----------------------------------------------------------------------------
(* The operators on an interface *)

\* What a transfer does not change
Like(x, y) == y.st = x.st /\ y.last = x.last /\ y.cb = x.cb /\ y.claimed = x.claimed
              /\ y.told = x.told

\* A transfer of an interface in use moves, and its user may be told of an error.
LEMMA UrbMoves ==
    ASSUME NEW x, Sound(x), Used(x), NEW u \in InDone \cup {"idle", "flight"}
    PROVE  \E y \in HidIface : /\ y = [x EXCEPT !.urb = u] /\ Sound(y) /\ Used(y)
                               /\ Like(x, y) /\ y.urb = u /\ y.failed = x.failed
<1>1. PICK y : y = [x EXCEPT !.urb = u] OBVIOUS
<1>2. y \in HidIface /\ Like(x, y) /\ y.urb = u /\ y.failed = x.failed
  BY <1>1 DEF Sound, HidIface, Like, InDone
<1>3. Used(y) BY <1>2 DEF Used, Like
<1> QED BY <1>1, <1>2, <1>3 DEF Sound, Kind

\* A transfer that ends in an error leaves the user told of it.
LEMMA UrbFails ==
    ASSUME NEW x, Sound(x), Used(x)
    PROVE  \E y \in HidIface : /\ y = [[x EXCEPT !.urb = "idle"] EXCEPT !.failed = TRUE]
                               /\ Sound(y) /\ Used(y) /\ Like(x, y) /\ y.urb = "idle" /\ y.failed
<1>1. PICK y : y = [[x EXCEPT !.urb = "idle"] EXCEPT !.failed = TRUE]
  OBVIOUS
<1>2. y \in HidIface /\ Like(x, y) /\ y.urb = "idle" /\ y.failed
  BY <1>1 DEF Sound, HidIface, Like
<1>3. Used(y) BY <1>2 DEF Used, Like
<1> QED BY <1>1, <1>2, <1>3 DEF Sound, Kind

\* Only the transfer of an interface in use can be submitted, or called back.
LEMMA UrbIsUsed ==
    ASSUME NEW x, Sound(x), x.urb \in InDone \cup {"idle", "flight"}
    PROVE  Used(x)
BY DEF Sound, Kind, Free, Unused, Used, Closing, NoIface, InDone

\* What the kinds tell of the fields, and the fields of the kind
LEMMA KindsDiffer ==
    ASSUME NEW x, Sound(x)
    PROVE  /\ Used(x) => x.cb /\ x.claimed /\ x.st \notin {"free", "WAIT", "IDLE"} /\ ~Unused(x) /\ x.told = 0
           /\ Unused(x) => ~x.cb /\ ~x.claimed /\ x.st \notin {"free", "WAIT", "ACTIVE"} /\ x.urb = "null"
           /\ x.st = "WAIT" <=> Closing(x)
           /\ x.st = "free" <=> Free(x)
           /\ x.st = "IDLE" => Unused(x)
           /\ x.st = "ACTIVE" => Used(x)
           /\ x.claimed => Used(x)
           /\ Closing(x) => x.cb /\ ~x.claimed /\ x.urb = "dangling"
           /\ Free(x) => ~x.cb /\ ~x.claimed /\ x.urb = "null" /\ x.st = "free"
BY DEF Sound, Kind, Free, Unused, Used, Closing, NoIface, InDone

\* An interface that is not in the list
LEMMA FreeIsSound == Sound(NoIface) /\ Free(NoIface) /\ NoIface.st = "free" /\ NoIface.urb = "null"
BY DEF Sound, HidIface, Kind, Free, NoIface, InDone

\* hid_host_add_interface() makes one that nobody uses.
LEMMA NewIsSound == Sound(NewIface) /\ Unused(NewIface) /\ NewIface.st = "IDLE" /\ NewIface.urb = "null"
<1>1. PICK z : z = NoIface OBVIOUS
<1>2. PICK y : y = [z EXCEPT !.st = "IDLE"] OBVIOUS
<1>3. z \in HidIface /\ ~z.cb /\ ~z.claimed /\ z.urb = "null" /\ z.told = 0
  BY <1>1 DEF NoIface, HidIface, InDone
<1>4. y \in HidIface /\ y.st = "IDLE" /\ ~y.cb /\ ~y.claimed /\ y.urb = "null" /\ y.told = 0
  BY <1>2, <1>3 DEF HidIface
<1>5. y = NewIface BY <1>1, <1>2 DEF NewIface
<1> QED BY <1>4, <1>5 DEF Sound, Kind, Unused

\* A flush has the transfer called back, and changes nothing else.
LEMMA FlushedIs ==
    ASSUME NEW x, Sound(x)
    PROVE  \E y \in HidIface : /\ y = Flushed(x) /\ Sound(y) /\ Like(x, y) /\ y.failed = x.failed
                               /\ (Used(x) <=> Used(y)) /\ (Unused(x) <=> Unused(y))
                               /\ y.urb = IF x.urb = "flight" THEN "doneno" ELSE x.urb
<1>1. CASE x.urb # "flight" BY <1>1 DEF Flushed, Like, Sound
<1>2. CASE x.urb = "flight"
  <2>1. Used(x) BY <1>2, UrbIsUsed
  <2>2. PICK y : y = [x EXCEPT !.urb = "doneno"] OBVIOUS
  <2>3. y \in HidIface /\ Like(x, y) /\ y.urb = "doneno" /\ y.failed = x.failed
    BY <2>2 DEF Sound, HidIface, Like, InDone
  <2>4. Used(y) BY <2>1, <2>3 DEF Used, Like, InDone
  <2>5. Sound(y) /\ ~Unused(x) /\ ~Unused(y)
    BY <2>1, <2>3, <2>4 DEF Sound, Kind, Used, Unused
  <2> QED BY <1>2, <2>1, <2>2, <2>3, <2>4, <2>5 DEF Flushed
<1> QED BY <1>1, <1>2

\* An interface that is ready, listening or suspended is disabled.
LEMMA DisabledIs ==
    ASSUME NEW x, Sound(x), x.st \in {"ACTIVE", "SUSPENDED", "READY"}
    PROVE  \E y \in HidIface : /\ y = Disabled(x) /\ Sound(y) /\ y.st = "READY"
                               /\ y.claimed = x.claimed
                               /\ (Used(x) <=> Used(y)) /\ (Unused(x) <=> Unused(y))
                               /\ y.urb = IF x.st = "ACTIVE" /\ x.urb = "flight" THEN "doneno" ELSE x.urb
<1>1. PICK z \in HidIface :
          /\ z = (IF x.st = "ACTIVE" THEN Flushed(x) ELSE x) /\ Sound(z) /\ Like(x, z)
          /\ (Used(x) <=> Used(z)) /\ (Unused(x) <=> Unused(z))
          /\ z.urb = IF x.st = "ACTIVE" /\ x.urb = "flight" THEN "doneno" ELSE x.urb
  <2>1. CASE x.st = "ACTIVE" BY <2>1, FlushedIs
  <2>2. CASE x.st # "ACTIVE" BY <2>2 DEF Sound, Like
  <2> QED BY <2>1, <2>2
<1>2. PICK y : y = [z EXCEPT !.st = "READY"] OBVIOUS
<1>3. /\ y \in HidIface /\ y.st = "READY" /\ y.urb = z.urb /\ y.cb = z.cb
      /\ y.claimed = z.claimed /\ y.told = z.told
  BY <1>2 DEF HidIface
<1>4. Used(x) \/ Unused(x) BY DEF Sound, Kind, Free, NoIface, Closing
<1>5. (Used(z) => Used(y)) /\ (Unused(z) => Unused(y)) /\ ~(Used(y) /\ Unused(y)) /\ ~(Used(x) /\ Unused(x))
  BY <1>3 DEF Used, Unused
<1>6. Sound(y) BY <1>1, <1>3, <1>4, <1>5 DEF Sound, Kind
<1>7. y = Disabled(x) /\ y.claimed = x.claimed
  BY <1>1, <1>2, <1>3 DEF Disabled, Like
<1> QED BY <1>1, <1>3, <1>4, <1>5, <1>6, <1>7

\* An interface in use that its user closes waits for the second call.
LEMMA ReleasedCloses ==
    ASSUME NEW x, Sound(x), x.st = "READY", x.urb \notin InDone \cup {"flight"}
    PROVE  /\ Used(x) <=> MayRelease(x)
           /\ Used(x) => /\ Tells(Released(x))
                         /\ \E y \in HidIface : /\ y = Closed(Released(x)) /\ Sound(y)
                                                /\ Closing(y) /\ y.told = 0
<1>1. Used(x) <=> MayRelease(x)
  BY KindsDiffer DEF MayRelease, Sound, Kind, Free, NoIface, Unused, Closing
<1>2. ASSUME Used(x) PROVE Tells(Released(x)) /\ \E y \in HidIface : /\ y = Closed(Released(x)) /\ Sound(y) /\ Closing(y) /\ y.told = 0
  <2>1. PICK r : r = Released(x) OBVIOUS
  <2>2. r \in HidIface /\ r.st = "IDLE" /\ r.cb = x.cb /\ r.urb = "dangling" /\ ~r.claimed /\ r.told = x.told
    BY <2>1 DEF Released, Sound, HidIface
  <2>3. x.cb /\ x.told = 0 BY <1>2 DEF Used
  <2>4. PICK y : y = [r EXCEPT !.st = "WAIT"] OBVIOUS
  <2>5. y \in HidIface /\ y.st = "WAIT" /\ y.cb /\ y.urb = "dangling" /\ ~y.claimed /\ y.told = 0
    BY <2>2, <2>3, <2>4 DEF HidIface
  <2>6. y = Closed(r) /\ Tells(r) BY <2>2, <2>3, <2>4 DEF Closed, Tells
  <2>7. Closing(y) /\ Sound(y) BY <2>5 DEF Closing, Sound, Kind
  <2> QED BY <2>1, <2>5, <2>6, <2>7
<1> QED BY <1>1, <1>2

\* An interface that nobody uses, or that waits, is freed.
LEMMA ClosedFrees ==
    ASSUME NEW x, Sound(x), ~Used(x)
    PROVE  ~Tells(x) /\ Closed(x) = NoIface
<1>1. ~x.claimed /\ (x.cb => x.st = "WAIT") BY KindsDiffer DEF Sound, Kind
<1>2. [NoIface EXCEPT !.claimed = FALSE] = NoIface
  <2>1. PICK z : z = NoIface OBVIOUS
  <2>2. PICK y : y = [z EXCEPT !.claimed = FALSE] OBVIOUS
  <2>3. z \in HidIface /\ z.claimed = FALSE
    BY <2>1 DEF NoIface, HidIface, InDone
  <2>4. y = z BY <2>2, <2>3 DEF HidIface
  <2> QED BY <2>1, <2>2, <2>4
<1>3. x.claimed = FALSE BY <1>1 DEF Sound, HidIface
<1> QED BY <1>1, <1>2, <1>3 DEF Closed, Tells

\* A started, suspended or resumed interface
LEMMA StartedIs ==
    ASSUME NEW x, Sound(x), Used(x), NEW f \in BOOLEAN
    PROVE  \E y \in HidIface : /\ y = [x EXCEPT !.st = "ACTIVE", !.failed = f]
                               /\ Sound(y) /\ Used(y) /\ y.st = "ACTIVE" /\ y.failed = f
                               /\ y.urb = x.urb /\ y.claimed = x.claimed
<1>1. PICK y : y = [x EXCEPT !.st = "ACTIVE", !.failed = f] OBVIOUS
<1>2. /\ y \in HidIface /\ y.st = "ACTIVE" /\ y.failed = f /\ y.urb = x.urb
      /\ y.claimed = x.claimed /\ y.cb = x.cb /\ y.told = x.told
  BY <1>1 DEF Sound, HidIface
<1>3. Used(y) BY <1>2 DEF Used
<1> QED BY <1>1, <1>2, <1>3 DEF Sound, Kind

\* A submission moves an idle transfer of a device that is there.
LEMMA SubmittedIs ==
    ASSUME NEW x, Sound(x)
    PROVE  \E y \in HidIface : /\ y = Submitted(x) /\ Sound(y) /\ Like(x, y) /\ y.failed = x.failed
                               /\ (Used(x) <=> Used(y))
                               /\ y.urb = IF bus = "present" /\ x.urb = "idle" THEN "flight" ELSE x.urb
<1>1. CASE bus = "present" /\ x.urb = "idle"
  <2>1. Used(x) BY <1>1, UrbIsUsed
  <2>2. PICK y : y = [x EXCEPT !.urb = "flight"] OBVIOUS
  <2>3. y \in HidIface /\ Like(x, y) /\ y.urb = "flight" /\ y.failed = x.failed
    BY <2>2 DEF Sound, HidIface, Like
  <2>4. Used(y) BY <2>1, <2>3 DEF Used, Like
  <2> QED BY <1>1, <2>1, <2>2, <2>3, <2>4 DEF Submitted, Sound, Kind
<1>2. CASE ~(bus = "present" /\ x.urb = "idle")
  BY <1>2 DEF Submitted, Like, Sound
<1> QED BY <1>1, <1>2

\* A suspension remembers the state, so that the kind stays.
LEMMA SuspendedIs ==
    ASSUME NEW x, Sound(x), x.st \notin {"free", "WAIT"}
    PROVE  \E y \in HidIface : /\ y = Suspended(x) /\ Sound(y) /\ y.st = "SUSPENDED"
                               /\ (Used(x) <=> Used(y)) /\ y.urb = x.urb /\ y.claimed = x.claimed
<1>1. CASE x.st = "SUSPENDED" BY <1>1 DEF Suspended, Sound
<1>2. CASE x.st # "SUSPENDED"
  <2>1. PICK y : y = [x EXCEPT !.last = x.st, !.st = "SUSPENDED"] OBVIOUS
  <2>2. /\ y \in HidIface /\ y.st = "SUSPENDED" /\ y.last = x.st /\ y.urb = x.urb
        /\ y.claimed = x.claimed /\ y.cb = x.cb /\ y.told = x.told
    BY <1>2, <2>1 DEF Sound, HidIface
  <2>3. Used(x) \/ Unused(x) BY KindsDiffer DEF Sound, Kind
  <2>4. (Used(x) => Used(y)) /\ (Unused(x) => Unused(y)) /\ ~(Used(y) /\ Unused(y)) /\ ~(Used(x) /\ Unused(x))
    BY <1>2, <2>2 DEF Used, Unused
  <2> QED BY <1>2, <2>1, <2>2, <2>3, <2>4 DEF Suspended, Sound, Kind
<1> QED BY <1>1, <1>2

\* A resumption takes the state back, and an interface that listened asks for reports again.
LEMMA ResumedIs ==
    ASSUME NEW x, Sound(x)
    PROVE  \E y \in HidIface : /\ y = Resumed(x) /\ Sound(y) /\ y.claimed = x.claimed
                               /\ (Used(x) <=> Used(y)) /\ (Unused(x) <=> Unused(y))
                               /\ (x.st = "WAIT" <=> y.st = "WAIT") /\ (x.st = "free" <=> y.st = "free")
                               /\ (x.st # "SUSPENDED" => y = x)
                               /\ (y.urb = x.urb \/ (y.urb = "flight" /\ bus = "present" /\ x.urb = "idle"))
                               /\ (x.st = "SUSPENDED" /\ y.st = "ACTIVE" /\ bus = "present" =>
                                      y.urb \notin {"idle", "null", "dangling"})
                               /\ y.st = IF x.st = "SUSPENDED" THEN x.last ELSE x.st
<1>1. CASE x.st # "SUSPENDED" BY <1>1 DEF Resumed, Sound
<1>2. CASE x.st = "SUSPENDED"
  <2>1. PICK z : z = [x EXCEPT !.st = x.last] OBVIOUS
  <2>2. /\ z \in HidIface /\ z.st = x.last /\ z.last = x.last /\ z.urb = x.urb
        /\ z.claimed = x.claimed /\ z.cb = x.cb /\ z.told = x.told /\ z.failed = x.failed
    BY <2>1 DEF Sound, HidIface
  <2>3. Used(x) \/ Unused(x) BY <1>2, KindsDiffer DEF Sound, Kind
  <2>4. (Used(x) => Used(z)) /\ (Unused(x) => Unused(z)) /\ ~(Used(z) /\ Unused(z)) /\ ~(Used(x) /\ Unused(x))
    BY <1>2, <2>2 DEF Used, Unused
  <2>5. Sound(z) BY <2>2, <2>3, <2>4 DEF Sound, Kind
  <2>6. CASE x.last # "ACTIVE"
    <3>1. z = Resumed(x) BY <1>2, <2>1, <2>6 DEF Resumed
    <3>2. z.st \notin {"WAIT", "free"}
      BY <2>2, <2>3, <2>4, KindsDiffer, <2>5
    <3> QED BY <1>2, <2>2, <2>3, <2>4, <2>5, <2>6, <3>1, <3>2
  <2>7. CASE x.last = "ACTIVE"
    <3>1. PICK y \in HidIface : /\ y = Submitted(z) /\ Sound(y) /\ Like(z, y) /\ y.failed = z.failed
                               /\ (Used(z) <=> Used(y))
                               /\ y.urb = IF bus = "present" /\ z.urb = "idle" THEN "flight" ELSE z.urb
      BY <2>5, SubmittedIs
    <3>2. y = Resumed(x) BY <1>2, <2>1, <2>7, <3>1 DEF Resumed
    <3>3. Used(z) /\ y.st = "ACTIVE"
      BY <2>2, <2>5, <2>7, <3>1, KindsDiffer DEF Like
    <3>4. z.urb \in InDone \cup {"idle", "flight"} BY <3>3 DEF Used
    <3>5. ~Unused(y) /\ ~Unused(x)
      BY <2>3, <2>4, <3>1, <3>3 DEF Used, Unused
    <3>6. Used(x) /\ Used(y) BY <2>3, <3>1, <3>3, <3>5
    <3>7. bus = "present" => y.urb \notin {"idle", "null", "dangling"}
      BY <3>1, <3>4 DEF InDone
    <3>8. y.claimed = x.claimed /\ (y.urb = x.urb \/ (y.urb = "flight" /\ bus = "present" /\ x.urb = "idle"))
      BY <2>2, <3>1 DEF Like
    <3> QED BY <1>2, <2>7, <3>1, <3>2, <3>3, <3>5, <3>6, <3>7, <3>8
  <2> QED BY <2>6, <2>7
<1> QED BY <1>1, <1>2

\* What the end of a device does to an interface: one that is in use waits for its user,
\* and every other one is freed; neither frees a transfer that is under way.
LEMMA TornIs ==
    ASSUME NEW x, Sound(x), x.st # "free", x.urb \notin InDone \cup {"flight"}
    PROVE  /\ TearsSafely(x)
           /\ Used(x) => /\ Tells(Torn(x))
                         /\ \E y \in HidIface : /\ y = Closed(Torn(x)) /\ Sound(y)
                                                /\ Closing(y) /\ y.told = 0
           /\ ~Used(x) => ~Tells(Torn(x)) /\ Closed(Torn(x)) = NoIface
<1>1. CASE Used(x)
  <2>1. x.st \in {"ACTIVE", "SUSPENDED", "READY"} BY <1>1 DEF Used
  <2>2. PICK d \in HidIface : /\ d = Disabled(x) /\ Sound(d) /\ d.st = "READY" /\ Used(d)
                              /\ d.urb = x.urb
    BY <1>1, <2>1, DisabledIs
  <2>3. PICK r \in HidIface : /\ r = (IF x.st \in {"ACTIVE", "SUSPENDED"} THEN Disabled(x) ELSE x)
                              /\ Sound(r) /\ r.st = "READY" /\ Used(r) /\ r.urb = x.urb
    BY <1>1, <2>1, <2>2 DEF Sound
  <2>4. MayRelease(d) /\ MayRelease(r) BY <2>2, <2>3, ReleasedCloses
  <2>5. Torn(x) = Released(r) BY <2>3, <2>4 DEF Torn
  <2>6. TearsSafely(x) BY <2>2, <2>4 DEF TearsSafely
  <2>7. Tells(Released(r)) /\ \E y \in HidIface : /\ y = Closed(Released(r)) /\ Sound(y) /\ Closing(y) /\ y.told = 0
    BY <2>3, ReleasedCloses
  <2> QED BY <1>1, <2>5, <2>6, <2>7
<1>2. CASE Unused(x)
  <2>1. x.urb = "null" /\ ~x.cb /\ ~x.claimed /\ x.st \in {"IDLE", "READY", "SUSPENDED"} /\ ~Used(x)
    BY <1>2 DEF Unused, Used
  <2>2. TearsSafely(x) BY <2>1 DEF TearsSafely
  <2>3. CASE x.st = "IDLE"
    <3>1. Torn(x) = x BY <2>3 DEF Torn
    <3> QED BY <2>1, <2>2, <3>1, ClosedFrees
  <2>4. CASE x.st \in {"READY", "SUSPENDED"}
    <3>1. PICK r \in HidIface : /\ r = (IF x.st \in {"ACTIVE", "SUSPENDED"} THEN Disabled(x) ELSE x)
                                /\ Sound(r) /\ r.st = "READY" /\ Unused(r) /\ r.claimed = x.claimed
      BY <1>2, <2>4, DisabledIs DEF Sound
    <3>2. ~MayRelease(r) /\ Torn(x) = Forced(r)
      BY <2>1, <3>1 DEF Torn, MayRelease
    <3>3. PICK f : f = [r EXCEPT !.urb = "null", !.st = "IDLE"] OBVIOUS
    <3>4. /\ f \in HidIface /\ f.st = "IDLE" /\ f.urb = "null" /\ f.cb = r.cb
          /\ f.claimed = r.claimed /\ f.told = r.told
      BY <3>3 DEF HidIface, InDone
    <3>5. Unused(f) /\ ~Used(f) BY <3>1, <3>4 DEF Unused, Used
    <3>6. Sound(f) BY <3>4, <3>5 DEF Sound, Kind
    <3>7. Torn(x) = f BY <3>2, <3>3 DEF Forced
    <3> QED BY <2>1, <2>2, <3>5, <3>6, <3>7, ClosedFrees
  <2> QED BY <2>1, <2>3, <2>4
<1>3. CASE Closing(x)
  <2>1. x.st = "WAIT" /\ ~Used(x) BY <1>3 DEF Closing, Used
  <2>2. Torn(x) = x /\ TearsSafely(x) BY <2>1 DEF Torn, TearsSafely
  <2> QED BY <2>1, <2>2, ClosedFrees
<1> QED BY <1>1, <1>2, <1>3, KindsDiffer DEF Sound, Kind
-----------------------------------------------------------------------------
(* The steps *)

\* When the driver's task runs, the application's waits.
LEMMA WhoRuns ==
    ASSUME HidInv, Yields
    PROVE  \/ user.pc = "idle"
           \/ user.pc = "wait" /\ ~ctl.sem
           \/ user.pc = "release" /\ \E i \in Iface : iface[i].urb \in InDone
BY Known DEF Yields

\* A submission that may resume the port: what it does to the messages
LEMMA MayResume ==
    ASSUME HidInv, bus' = bus, dev' = dev, task' = task, env' = env,
           \/ msgs' = msgs /\ susp' = susp
           \/ susp /\ bus = "present" /\ susp' = FALSE /\ msgs' = Append(msgs, "res")
    PROVE  /\ Messages' /\ msgs' \in Seq({"new", "gone", "susp", "res"}) /\ susp' \in BOOLEAN
           /\ (msgs \in {<<"susp">>, <<"susp", "res">>} => msgs' \in {<<"susp">>, <<"susp", "res">>})
           /\ (msgs' = <<"new">> => msgs = <<"new">>)
<1>1. CASE msgs' = msgs /\ susp' = susp
  BY <1>1 DEF HidInv, TypeOK, Messages, NoNews, GoneNews
<1>2. CASE susp /\ bus = "present" /\ susp' = FALSE /\ msgs' = Append(msgs, "res")
  <2>1. msgs \in {<<>>, <<"susp">>} /\ dev = "listed" /\ "suspend" \in env
    BY <1>2 DEF HidInv, Messages
  <2>2. msgs' \in {<<"res">>, <<"susp", "res">>} /\ (msgs = <<"susp">> => msgs' = <<"susp", "res">>)
    BY <1>2, <2>1, AppendsAre, MessagesDiffer, Zenon
  <2>3. Messages'
    BY <1>2, <2>1, <2>2, MessagesDiffer DEF Messages, NoNews, GoneNews
  <2>4. msgs' \in Seq({"new", "gone", "susp", "res"})
    BY <2>2, MessagesAreTyped, Zenon
  <2>5. msgs' # <<"new">> /\ msgs # <<"susp", "res">>
    BY <2>1, <2>2, MessagesDiffer, Zenon
  <2> QED BY <1>2, <2>1, <2>2, <2>3, <2>4, <2>5
<1> QED BY <1>1, <1>2

\* in_xfer_done(): whoever listens submits again, is told of an error, or is being suspended.
LEMMA InDoneCbKeeps ==
    ASSUME HidInv, NEW i \in Iface, InDoneCb(i)
    PROVE  HidInv'
<1>1. /\ drv = "up" /\ task.pc = "idle" /\ Yields /\ iface[i].urb \in InDone
      /\ drv' = drv /\ bus' = bus /\ plugs' = plugs /\ dev' = dev /\ ctl' = ctl /\ task' = task
      /\ user' = user /\ calls' = calls /\ crash' = crash /\ env' = env
  BY DEF InDoneCb
<1>2. Sound(iface[i]) /\ Used(iface[i]) /\ iface[i] \in HidIface
  BY <1>1, Known, UrbIsUsed DEF Sound
<1>3. PICK x \in HidIface : /\ x = [iface[i] EXCEPT !.urb = "idle"] /\ Sound(x) /\ Used(x)
                            /\ Like(iface[i], x) /\ x.urb = "idle" /\ x.failed = iface[i].failed
  BY <1>2, UrbMoves
<1>4. PICK y \in HidIface :
          /\ iface' = [iface EXCEPT ![i] = y] /\ Sound(y) /\ Used(y) /\ Like(iface[i], y)
          /\ y.urb \in {"idle", "flight"} /\ (y.urb = "flight" => bus = "present")
          /\ \/ y.urb = "flight" /\ y.failed = iface[i].failed
             \/ y.failed
             \/ bus # "present"
             \/ iface[i].urb = "doneno" /\ y.failed = iface[i].failed /\ msgs' = msgs
          /\ \/ msgs' = msgs /\ susp' = susp
             \/ susp /\ bus = "present" /\ susp' = FALSE /\ msgs' = Append(msgs, "res")
  <2>1. CASE iface[i].urb = "doneok"
    <3>1. PICK y \in HidIface : /\ y = Submitted(x) /\ Sound(y) /\ Like(x, y) /\ y.failed = x.failed
                               /\ (Used(x) <=> Used(y))
                               /\ y.urb = IF bus = "present" /\ x.urb = "idle" THEN "flight" ELSE x.urb
      BY <1>3, SubmittedIs
    <3>2. /\ iface' = [iface EXCEPT ![i] = Submitted(x)]
          /\ IF Resumes(x) THEN susp' = FALSE /\ msgs' = Append(msgs, "res")
                           ELSE UNCHANGED <<susp, msgs>>
      BY <1>3, <2>1 DEF InDoneCb
    <3>3. Like(iface[i], y) BY <1>3, <3>1 DEF Like
    <3>4. \/ msgs' = msgs /\ susp' = susp
          \/ susp /\ bus = "present" /\ susp' = FALSE /\ msgs' = Append(msgs, "res")
      BY <3>2 DEF Resumes
    <3> QED BY <1>3, <3>1, <3>2, <3>3, <3>4
  <2>2. CASE iface[i].urb = "doneerr"
    <3>1. PICK y \in HidIface : /\ y = [[iface[i] EXCEPT !.urb = "idle"] EXCEPT !.failed = TRUE]
                                /\ Sound(y) /\ Used(y) /\ Like(iface[i], y) /\ y.urb = "idle" /\ y.failed
      BY <1>2, UrbFails
    <3>2. iface' = [iface EXCEPT ![i] = [x EXCEPT !.failed = TRUE]] /\ UNCHANGED <<susp, msgs>>
      BY <1>3, <2>2 DEF InDoneCb
    <3> QED BY <1>3, <3>1, <3>2
  <2>3. CASE iface[i].urb \notin {"doneok", "doneerr"}
    <3>1. iface' = [iface EXCEPT ![i] = x] /\ UNCHANGED <<susp, msgs>>
      BY <1>3, <2>3 DEF InDoneCb
    <3>2. iface[i].urb = "doneno" BY <1>1, <2>3 DEF InDone
    <3> QED BY <1>3, <3>1, <3>2
  <2> QED BY <2>1, <2>2, <2>3
<1>5. OneIs(i, y) BY <1>4, OneChanges
<1>6. /\ y.st = iface[i].st /\ y.last = iface[i].last /\ y.claimed = iface[i].claimed
      /\ y.told = iface[i].told /\ y.cb = iface[i].cb /\ y.st \notin {"WAIT", "free"}
      /\ Used(y) /\ iface'[i] = y /\ \A j \in Iface : j # i => iface'[j] = iface[j]
  BY <1>4, <1>5, KindsDiffer DEF Like, OneIs
<1>7. Messages' /\ TypeOK' /\ (msgs' = <<"new">> => msgs = <<"new">>)
      /\ (msgs \in {<<"susp">>, <<"susp", "res">>} => msgs' \in {<<"susp">>, <<"susp", "res">>})
  <2>1. /\ Messages' /\ msgs' \in Seq({"new", "gone", "susp", "res"}) /\ susp' \in BOOLEAN
        /\ (msgs \in {<<"susp">>, <<"susp", "res">>} => msgs' \in {<<"susp">>, <<"susp", "res">>})
        /\ (msgs' = <<"new">> => msgs = <<"new">>)
    BY <1>1, <1>4, MayResume
  <2> QED BY <1>1, <1>5, <2>1 DEF HidInv, TypeOK, OneIs, HidIface
<1>8. EachIsTold' BY <1>1, <1>6 DEF HidInv, EachIsTold
<1>9. DeviceIs'
  BY <1>1, <1>4, <1>6, <1>7, KindsDiffer DEF HidInv, DeviceIs, Listed, InList, Messages
<1>10. TaskPlace' BY <1>1, <1>6 DEF HidInv, TaskPlace, Listed
<1>11. UserPlace' BY <1>1, <1>6 DEF HidInv, UserPlace, Used, InDone
<1> QED BY <1>1, <1>5, <1>7, <1>8, <1>9, <1>10, <1>11 DEF HidInv, Tamed, NoAbuse, OneIs

\* ctrl_xfer_done() finds the device, because the request that waits keeps the task from closing it.
LEMMA CtlDoneCbKeeps ==
    ASSUME HidInv, CtlDoneCb
    PROVE  HidInv'
<1>1. /\ drv = "up" /\ task.pc = "idle" /\ ctl.st = "done"
      /\ drv' = drv /\ bus' = bus /\ plugs' = plugs /\ susp' = susp /\ msgs' = msgs /\ dev' = dev
      /\ iface' = iface /\ task' = task /\ user' = user /\ calls' = calls /\ env' = env
  BY DEF CtlDoneCb
<1>2. ctl' \in CtlType /\ ctl'.st = "idle" /\ ctl'.sem
  BY DEF CtlDoneCb, CtlType
<1>3. user.pc = "wait" /\ dev = "listed" BY <1>1 DEF HidInv, UserPlace
<1>4. crash' = "none" BY <1>3 DEF CtlDoneCb, Fails, HidInv, NoAbuse
<1>5. TypeOK' /\ Kinds' /\ EachIsTold' /\ Messages'
  BY <1>1, <1>2, <1>4 DEF HidInv, TypeOK, CtlType, Kinds, EachIsTold, Messages, NoNews, GoneNews
<1>6. DeviceIs' BY <1>1, <1>2 DEF HidInv, DeviceIs, Listed, InList
<1>7. TaskPlace' /\ UserPlace'
  <2>1. task.kind = "none" BY <1>1 DEF HidInv, TaskPlace
  <2> QED BY <1>1, <1>2, <1>3, <2>1 DEF HidInv, TaskPlace, UserPlace, Listed
<1> QED BY <1>1, <1>4, <1>5, <1>6, <1>7 DEF HidInv, Tamed, NoAbuse

\* After the walk of a disconnection every interface waits for its user, so none is claimed.
LEMMA WalkEndKeeps ==
    ASSUME HidInv, WalkEnd
    PROVE  HidInv'
<1>1. /\ task.pc = "walk" /\ task.cur = 0
      /\ drv' = drv /\ bus' = bus /\ plugs' = plugs /\ susp' = susp /\ msgs' = msgs /\ ctl' = ctl
      /\ iface' = iface /\ user' = user /\ calls' = calls /\ env' = env
  BY DEF WalkEnd
<1>2. PICK t : t = [task EXCEPT !.pc = "idle", !.kind = "none"] OBVIOUS
<1>3. t \in TaskType /\ t.pc = "idle" /\ t.kind = "none" /\ t.cur = 0 /\ task' = t
  BY <1>1, <1>2, Known DEF WalkEnd, TaskType
<1>4. user.pc \in {"idle", "wait"} /\ ~ctl.sem /\ dev = "listed"
  BY <1>1 DEF HidInv, TaskPlace
<1>5. /\ task.kind # "gone" => dev' = dev /\ crash' = crash
      /\ task.kind = "gone" => dev' = "none" /\ crash' = crash /\ bus = "gone" /\ msgs = <<>>
                               /\ user.pc = "idle" /\ \A i \in Iface : Listed(i) => iface[i].st = "WAIT"
  <2>1. CASE task.kind # "gone" BY <2>1 DEF WalkEnd
  <2>2. CASE task.kind = "gone"
    <3>1. /\ bus = "gone" /\ msgs = <<>> /\ ctl.st = "idle"
          /\ \A i \in Iface : Listed(i) => iface[i].st = "WAIT"
      BY <1>1, <2>2 DEF HidInv, TaskPlace
    <3>2. ASSUME NEW i \in Iface PROVE ~iface[i].claimed
      BY <3>1, Known, KindsDiffer DEF Listed, Used
    <3>3. dev' = "none" /\ crash' = crash
      BY <2>2, <3>1, <3>2 DEF WalkEnd, Fails
    <3>4. user.pc = "idle" BY <1>4, <3>1 DEF HidInv, UserPlace
    <3> QED BY <2>2, <3>1, <3>3, <3>4
  <2> QED BY <2>1, <2>2
<1>6. TypeOK' /\ Kinds'
  BY <1>1, <1>3, <1>5 DEF HidInv, TypeOK, TaskType, Kinds
<1>7. EachIsTold' BY <1>1, <1>3 DEF HidInv, EachIsTold
<1>8. Messages'
  <2>1. CASE task.kind = "gone"
    BY <1>1, <1>3, <1>5, <2>1, MessagesDiffer DEF HidInv, Messages, NoNews, GoneNews
  <2>2. CASE task.kind # "gone"
    BY <1>1, <1>3, <1>5, <2>2 DEF HidInv, Messages, NoNews, GoneNews
  <2> QED BY <2>1, <2>2
<1>9. DeviceIs' BY <1>1, <1>3, <1>5 DEF HidInv, DeviceIs, Listed, InList
<1>10. TaskPlace' /\ UserPlace'
  BY <1>1, <1>3, <1>4, <1>5 DEF HidInv, TaskPlace, UserPlace, Used, InDone
<1> QED BY <1>1, <1>5, <1>6, <1>7, <1>8, <1>9, <1>10 DEF HidInv, Tamed, NoAbuse

\* The end of the driver concerns no interface.
LEMMA TaskEndsKeeps ==
    ASSUME HidInv, TaskEnds
    PROVE  HidInv'
<1>1. /\ drv' = "down" /\ bus' = bus /\ plugs' = plugs /\ susp' = susp /\ msgs' = msgs /\ ctl' = ctl
      /\ iface' = iface /\ user' = user /\ calls' = calls /\ env' = env /\ crash' = crash
      /\ task' = task /\ dev' = dev
  BY DEF TaskEnds
<1>2. TypeOK' /\ Kinds' /\ EachIsTold' /\ Messages' /\ NoAbuse'
  BY <1>1 DEF HidInv, TypeOK, Kinds, EachIsTold, Messages, NoNews, GoneNews, NoAbuse
<1>3. DeviceIs' /\ TaskPlace' /\ UserPlace'
  BY <1>1 DEF HidInv, DeviceIs, TaskPlace, UserPlace, Listed, InList
<1> QED BY <1>1, <1>2, <1>3 DEF HidInv, Tamed

\* What a call needs: neither task is in anything.
LEMMA CallIs ==
    ASSUME HidInv, Call
    PROVE  /\ drv = "up" /\ user.pc = "idle" /\ task.pc = "idle" /\ task.kind = "none"
           /\ calls' \in 0..MaxCalls /\ env' = env /\ ctl.st = "idle" /\ ~ctl.sem
<1>1. calls' \in 0..MaxCalls BY BoundsAreNat DEF Call, HidInv, TypeOK
<1> QED BY <1>1, Known DEF Call, HidInv, TaskPlace, UserPlace, CtlType

\* What hid_host_device_start() and the class requests have checked holds when they go on.
LEMMA ChecksKeep ==
    ASSUME HidInv, NEW i \in Iface, StartCheck(i) \/ AskCheck(i)
    PROVE  HidInv'
<1>1. /\ Call /\ drv' = drv /\ bus' = bus /\ plugs' = plugs /\ susp' = susp /\ msgs' = msgs
      /\ ctl' = ctl /\ iface' = iface /\ crash' = crash /\ task' = task /\ dev' = dev
  BY DEF StartCheck, AskCheck, world
<1>2. /\ drv = "up" /\ user.pc = "idle" /\ task.pc = "idle" /\ task.kind = "none"
      /\ calls' \in 0..MaxCalls /\ env' = env /\ ctl.st = "idle" /\ ~ctl.sem
  BY <1>1, CallIs
<1>3. /\ user' \in UserType /\ user'.pc \in {"start", "ask"} /\ user'.i = i
      /\ user'.pc = "start" => Used(iface[i]) /\ iface[i].st # "ACTIVE"
      /\ user'.pc = "ask" => iface[i].st \notin {"free", "WAIT"}
  <2>1. CASE StartCheck(i)
    <3>1. Used(iface[i]) /\ iface[i].st # "ACTIVE"
      BY <2>1, Known, KindsDiffer DEF StartCheck, Sound, Kind
    <3> QED BY <2>1, <3>1 DEF StartCheck, UserType
  <2>2. CASE AskCheck(i) BY <2>2, Known DEF AskCheck, UserType, Listed
  <2> QED BY <2>1, <2>2
<1>4. TypeOK' /\ Kinds' /\ NoAbuse'
  BY <1>1, <1>2, <1>3 DEF HidInv, TypeOK, Kinds, NoAbuse, UserType
<1>5. EachIsTold' /\ Messages'
  BY <1>1, <1>2, <1>3 DEF HidInv, EachIsTold, Messages, NoNews, GoneNews
<1>6. DeviceIs' /\ TaskPlace'
  BY <1>1, <1>2 DEF HidInv, DeviceIs, TaskPlace, Listed, InList
<1>7. UserPlace' BY <1>1, <1>2, <1>3 DEF HidInv, UserPlace
<1> QED BY <1>2, <1>4, <1>5, <1>6, <1>7 DEF HidInv, Tamed

\* hid_host_uninstall() concerns no interface.
LEMMA UninstallKeeps ==
    ASSUME HidInv, Uninstall
    PROVE  HidInv'
<1>1. /\ Call /\ drv' = "ending" /\ bus' = bus /\ plugs' = plugs /\ susp' = susp /\ msgs' = msgs
      /\ ctl' = ctl /\ iface' = iface /\ crash' = crash /\ task' = task /\ dev' = dev /\ user' = user
  BY DEF Uninstall
<1>2. calls' \in 0..MaxCalls /\ env' = env BY <1>1, CallIs
<1>3. TypeOK' /\ Kinds' /\ EachIsTold' /\ Messages' /\ NoAbuse'
  BY <1>1, <1>2 DEF HidInv, TypeOK, Kinds, EachIsTold, Messages, NoNews, GoneNews, NoAbuse
<1>4. DeviceIs' /\ TaskPlace' /\ UserPlace'
  BY <1>1 DEF HidInv, DeviceIs, TaskPlace, UserPlace, Listed, InList
<1> QED BY <1>2, <1>3, <1>4 DEF HidInv, Tamed

\* A request finds its device and its transfer idle.
LEMMA AskSubmitKeeps ==
    ASSUME HidInv, AskSubmit
    PROVE  HidInv'
<1>1. /\ user.pc = "ask" /\ drv' = drv /\ bus' = bus /\ plugs' = plugs /\ susp' = susp /\ msgs' = msgs
      /\ iface' = iface /\ task' = task /\ dev' = dev /\ calls' = calls /\ env' = env
  BY DEF AskSubmit, InCall
<1>2. task.pc = "idle" /\ ctl.st = "idle" /\ ~ctl.sem /\ task.kind = "none"
  BY <1>1, Known DEF HidInv, TaskPlace, UserPlace, CtlType
<1>3. user.i \in Iface /\ Listed(user.i) /\ dev = "listed" /\ ~ParentFreed(user.i)
  BY <1>1 DEF HidInv, UserPlace, DeviceIs, Listed, ParentFreed
<1>4. crash' = "none" BY <1>3 DEF AskSubmit, Fails, HidInv, NoAbuse
<1>5. /\ user' \in UserType /\ ctl' \in CtlType /\ ~ctl'.sem
      /\ \/ user'.pc = "wait" /\ user'.i \in Iface /\ ctl'.st = "flight" /\ bus = "present"
         \/ user'.pc = "idle" /\ ctl'.st = "idle"
  <2>1. CASE bus = "present" /\ ctl.st = "idle"
    <3>1. ctl' = [ctl EXCEPT !.st = "flight"] /\ user' = [user EXCEPT !.pc = "wait"]
      BY <2>1 DEF AskSubmit
    <3> QED BY <1>2, <1>3, <2>1, <3>1, Known DEF CtlType, UserType
  <2>2. CASE ~(bus = "present" /\ ctl.st = "idle")
    <3>1. ctl' = ctl /\ user' = Idle BY <2>2 DEF AskSubmit
    <3> QED BY <1>2, <3>1, Known DEF CtlType, UserType, Idle
  <2> QED BY <2>1, <2>2
<1>6. TypeOK' /\ Kinds'
  BY <1>1, <1>5 DEF HidInv, TypeOK, Kinds, UserType, CtlType
<1>7. EachIsTold' /\ Messages'
  BY <1>1, <1>2, <1>5 DEF HidInv, EachIsTold, Messages, NoNews, GoneNews
<1>8. DeviceIs' /\ TaskPlace'
  BY <1>1, <1>2, <1>5 DEF HidInv, DeviceIs, TaskPlace, Listed, InList
<1>9. UserPlace' BY <1>1, <1>3, <1>5 DEF UserPlace
<1> QED BY <1>1, <1>4, <1>6, <1>7, <1>8, <1>9 DEF HidInv, Tamed, NoAbuse

\* A request that is woken reads its own answer.
LEMMA AskDoneKeeps ==
    ASSUME HidInv, AskDone
    PROVE  HidInv'
<1>1. /\ user.pc = "wait" /\ drv' = drv /\ bus' = bus /\ plugs' = plugs /\ susp' = susp /\ msgs' = msgs
      /\ iface' = iface /\ task' = task /\ dev' = dev /\ calls' = calls /\ env' = env
  BY DEF AskDone, InCall
<1>2. ctl.sem /\ ctl.st = "idle" /\ dev = "listed" /\ task.pc = "idle" /\ task.kind = "none"
  BY <1>1, Known DEF AskDone, HidInv, TaskPlace, UserPlace
<1>3. crash' = "none" BY <1>2 DEF AskDone, Fails, HidInv, NoAbuse
<1>4. ctl' \in CtlType /\ ~ctl'.sem /\ ctl'.st = "idle" /\ user' \in UserType /\ user'.pc = "idle"
  <2>1. ctl' = [ctl EXCEPT !.sem = FALSE] /\ user' = Idle BY DEF AskDone
  <2> QED BY <1>2, <2>1, Known DEF CtlType, UserType, Idle
<1>5. TypeOK' /\ Kinds'
  BY <1>1, <1>4 DEF HidInv, TypeOK, Kinds, UserType, CtlType
<1>6. EachIsTold' /\ Messages'
  BY <1>1, <1>4 DEF HidInv, EachIsTold, Messages, NoNews, GoneNews
<1>7. DeviceIs' /\ TaskPlace'
  BY <1>1, <1>2, <1>4 DEF HidInv, DeviceIs, TaskPlace, Listed, InList
<1>8. UserPlace' BY <1>1, <1>4 DEF UserPlace
<1> QED BY <1>1, <1>3, <1>5, <1>6, <1>7, <1>8 DEF HidInv, Tamed, NoAbuse

\* An interface that can be opened belongs to the device that is listed.
LEMMA OpenKeeps ==
    ASSUME HidInv, NEW i \in Iface, NEW memory \in BOOLEAN, Open(i, memory)
    PROVE  HidInv'
<1>1. /\ Call /\ iface[i].st = "IDLE" /\ bus = "present" /\ memory = TRUE
      /\ drv' = drv /\ bus' = bus /\ plugs' = plugs /\ susp' = susp /\ msgs' = msgs /\ ctl' = ctl
      /\ crash' = crash /\ task' = task /\ dev' = dev /\ user' = user
  BY Known DEF Open, world
<1>2. /\ drv = "up" /\ user.pc = "idle" /\ task.pc = "idle" /\ task.kind = "none"
      /\ calls' \in 0..MaxCalls /\ env' = env /\ ctl.st = "idle" /\ ~ctl.sem
  BY <1>1, CallIs
<1>3. PICK x : x = iface[i] /\ Sound(x) /\ x \in HidIface /\ Unused(x) /\ x.st = "IDLE"
  BY <1>1, Known, KindsDiffer DEF Sound
<1>4. PICK y : y = [x EXCEPT !.claimed = TRUE, !.urb = "idle", !.st = "READY", !.cb = TRUE]
  OBVIOUS
<1>5. y \in HidIface /\ y.claimed /\ y.urb = "idle" /\ y.st = "READY" /\ y.cb /\ y.told = 0
  BY <1>3, <1>4 DEF HidIface, Unused
<1>6. Used(y) /\ Sound(y) BY <1>5 DEF Used, Sound, Kind
<1>7. iface' = [iface EXCEPT ![i] = y] BY <1>1, <1>3, <1>4 DEF Open
<1>8. OneIs(i, y) /\ iface'[i] = y /\ \A j \in Iface : j # i => iface'[j] = iface[j]
  BY <1>6, <1>7, OneChanges DEF OneIs
<1>9. dev = "listed" /\ Listed(i) /\ Device(i) = plugs
  BY <1>1 DEF HidInv, DeviceIs, Listed
<1>10. TypeOK' BY <1>1, <1>2, <1>8 DEF HidInv, TypeOK, OneIs, HidIface
<1>11. EachIsTold' /\ Messages'
  BY <1>1, <1>2, <1>5, <1>8 DEF HidInv, EachIsTold, Messages, NoNews, GoneNews
<1>12. DeviceIs'
  BY <1>1, <1>2, <1>5, <1>8, <1>9 DEF HidInv, DeviceIs, Listed, InList
<1>13. TaskPlace' /\ UserPlace'
  BY <1>1, <1>2, <1>5, <1>8 DEF HidInv, TaskPlace, UserPlace, Listed
<1> QED BY <1>1, <1>2, <1>8, <1>10, <1>11, <1>12, <1>13 DEF HidInv, Tamed, NoAbuse, OneIs

\* A stopped interface does not listen; its transfer is called back.
LEMMA StopKeeps ==
    ASSUME HidInv, NEW i \in Iface, Stop(i)
    PROVE  HidInv'
<1>1. /\ Call /\ iface[i].st \in {"ACTIVE", "SUSPENDED"}
      /\ drv' = drv /\ bus' = bus /\ plugs' = plugs /\ susp' = susp /\ msgs' = msgs /\ ctl' = ctl
      /\ crash' = crash /\ task' = task /\ dev' = dev /\ user' = user
  BY DEF Stop, world
<1>2. /\ drv = "up" /\ user.pc = "idle" /\ task.pc = "idle" /\ task.kind = "none"
      /\ calls' \in 0..MaxCalls /\ env' = env /\ ctl.st = "idle" /\ ~ctl.sem
  BY <1>1, CallIs
<1>3. PICK x : x = iface[i] /\ Sound(x) /\ x \in HidIface BY Known DEF Sound
<1>4. PICK y : /\ Sound(y) /\ iface' = [iface EXCEPT ![i] = y]
               /\ y.st \notin {"ACTIVE", "WAIT", "free"} /\ (y.urb = "flight" => x.urb = "flight")
  <2>1. CASE x.st = "SUSPENDED"
    <3>1. PICK y : y = [x EXCEPT !.last = "READY"] OBVIOUS
    <3>2. /\ y \in HidIface /\ y.st = "SUSPENDED" /\ y.last = "READY" /\ y.cb = x.cb
          /\ y.claimed = x.claimed /\ y.urb = x.urb /\ y.told = x.told
      BY <1>3, <2>1, <3>1 DEF HidIface
    <3>3. Sound(y)
      BY <1>3, <2>1, <3>2 DEF Sound, Kind, Used, Unused, Free, NoIface, Closing
    <3>4. iface' = [iface EXCEPT ![i] = y] BY <1>3, <2>1, <3>1 DEF Stop
    <3> QED BY <3>2, <3>3, <3>4
  <2>2. CASE x.st = "ACTIVE"
    <3>1. PICK y \in HidIface : /\ y = Disabled(x) /\ Sound(y) /\ y.st = "READY"
                               /\ y.urb = IF x.st = "ACTIVE" /\ x.urb = "flight" THEN "doneno" ELSE x.urb
      BY <1>3, <2>2, DisabledIs
    <3>2. iface' = [iface EXCEPT ![i] = y] BY <1>3, <2>2, <3>1 DEF Stop
    <3> QED BY <2>2, <3>1, <3>2
  <2> QED BY <1>1, <1>3, <2>1, <2>2
<1>5. OneIs(i, y) /\ iface'[i] = y /\ \A j \in Iface : j # i => iface'[j] = iface[j]
  BY <1>4, OneChanges DEF OneIs
<1>6. TypeOK' BY <1>1, <1>2, <1>5 DEF HidInv, TypeOK, OneIs, HidIface
<1>7. EachIsTold' /\ Messages'
  BY <1>1, <1>2, <1>4, <1>5 DEF HidInv, EachIsTold, Messages, NoNews, GoneNews
<1>8. DeviceIs'
  BY <1>1, <1>2, <1>3, <1>4, <1>5 DEF HidInv, DeviceIs, Listed, InList
<1>9. TaskPlace' /\ UserPlace'
  BY <1>1, <1>2, <1>4, <1>5 DEF HidInv, TaskPlace, UserPlace, Listed
<1> QED BY <1>1, <1>2, <1>5, <1>6, <1>7, <1>8, <1>9 DEF HidInv, Tamed, NoAbuse, OneIs

\* An interface that is closed is made ready first, or is freed if nobody uses it.
LEMMA CloseKeeps ==
    ASSUME HidInv, NEW i \in Iface, Close(i)
    PROVE  HidInv'
<1>1. /\ Call /\ Listed(i)
      /\ drv' = drv /\ bus' = bus /\ plugs' = plugs /\ susp' = susp /\ msgs' = msgs /\ ctl' = ctl
      /\ crash' = crash /\ task' = task /\ dev' = dev
  BY DEF Close, world
<1>2. /\ drv = "up" /\ user.pc = "idle" /\ task.pc = "idle" /\ task.kind = "none"
      /\ calls' \in 0..MaxCalls /\ env' = env /\ ctl.st = "idle" /\ ~ctl.sem
  BY <1>1, CallIs
<1>3. PICK x : x = iface[i] /\ Sound(x) /\ x \in HidIface BY Known DEF Sound
<1>4. PICK y : /\ Sound(y) /\ iface' = [iface EXCEPT ![i] = y] /\ user' \in UserType
               /\ y.st \notin {"ACTIVE", "WAIT"} /\ (y.urb = "flight" => x.urb = "flight")
               /\ \/ user'.pc = "release" /\ user'.i = i /\ y.st = "READY" /\ x.st # "WAIT"
                  \/ user'.pc = "idle" /\ y.st = "free"
  <2>1. CASE x.st \in {"ACTIVE", "SUSPENDED", "READY"}
    <3>1. PICK y \in HidIface : /\ y = Disabled(x) /\ Sound(y) /\ y.st = "READY"
                               /\ y.urb = IF x.st = "ACTIVE" /\ x.urb = "flight" THEN "doneno" ELSE x.urb
      BY <1>3, <2>1, DisabledIs
    <3>2. iface' = [iface EXCEPT ![i] = y] /\ user' = [pc |-> "release", i |-> i]
      BY <1>3, <2>1, <3>1 DEF Close
    <3> QED BY <2>1, <3>1, <3>2 DEF UserType
  <2>2. CASE x.st \notin {"ACTIVE", "SUSPENDED", "READY"}
    <3>1. ~Used(x) BY <2>2 DEF Used
    <3>2. ~Tells(x) /\ Closed(x) = NoIface BY <1>3, <3>1, ClosedFrees
    <3>3. iface' = [iface EXCEPT ![i] = NoIface] /\ user' = Idle
      BY <1>3, <2>2, <3>2 DEF Close
    <3> QED BY <3>3, FreeIsSound DEF UserType, Idle
  <2> QED BY <2>1, <2>2
<1>5. OneIs(i, y) /\ iface'[i] = y /\ \A j \in Iface : j # i => iface'[j] = iface[j]
  BY <1>4, OneChanges DEF OneIs
<1>6. TypeOK'
  BY <1>1, <1>2, <1>4, <1>5 DEF HidInv, TypeOK, OneIs, HidIface, UserType
<1>7. EachIsTold' /\ Messages'
  BY <1>1, <1>2, <1>4, <1>5 DEF HidInv, EachIsTold, Messages, NoNews, GoneNews
<1>8. DeviceIs'
  <2>1. msgs # <<"new">> /\ (y.st = "READY" => dev = "listed" /\ Device(i) = plugs)
    BY <1>1, <1>3, <1>4 DEF HidInv, DeviceIs, Listed, InList
  <2> QED BY <1>1, <1>2, <1>3, <1>4, <1>5, <2>1 DEF HidInv, DeviceIs, Listed
<1>9. TaskPlace' /\ UserPlace'
  BY <1>1, <1>2, <1>4, <1>5 DEF HidInv, TaskPlace, UserPlace, Listed
<1> QED BY <1>1, <1>2, <1>5, <1>6, <1>7, <1>8, <1>9 DEF HidInv, Tamed, NoAbuse, OneIs

\* The release is refused while the transfer is to be called back; then the user is told.
LEMMA CloseReleaseKeeps ==
    ASSUME HidInv, CloseRelease
    PROVE  HidInv'
<1>1. /\ user.pc = "release" /\ calls' = calls /\ env' = env
      /\ drv' = drv /\ bus' = bus /\ plugs' = plugs /\ susp' = susp /\ msgs' = msgs /\ ctl' = ctl
      /\ crash' = crash /\ task' = task /\ dev' = dev
  BY DEF CloseRelease, InCall, world
<1>2. task.pc = "idle" /\ task.kind = "none" /\ user.i \in Iface /\ iface[user.i].st = "READY"
      /\ ctl.st = "idle" /\ ~ctl.sem
  BY <1>1, Known DEF HidInv, TaskPlace, UserPlace, CtlType
<1>3. PICK i \in Iface : i = user.i BY <1>2
<1>4. PICK x : x = iface[i] /\ Sound(x) /\ x \in HidIface /\ x.st = "READY" /\ x.urb \notin InDone
  BY <1>2, <1>3, Known DEF Sound, CloseRelease
<1>5. CASE MayRelease(x)
  <2>1. x.urb \notin InDone \cup {"flight"} /\ x.claimed
    BY <1>5 DEF MayRelease
  <2>2. Used(x) BY <1>4, <2>1, KindsDiffer
  <2>3. PICK y \in HidIface : y = Closed(Released(x)) /\ Sound(y) /\ Closing(y) /\ y.told = 0
    BY <1>4, <2>1, <2>2, ReleasedCloses
  <2>4. Tells(Released(x)) BY <1>4, <2>1, <2>2, ReleasedCloses
  <2>5. iface' = [iface EXCEPT ![i] = y] /\ user' = [user EXCEPT !.pc = "cb"]
    BY <1>3, <1>4, <1>5, <2>3, <2>4 DEF CloseRelease
  <2>6. user' \in UserType /\ user'.pc = "cb" /\ user'.i = i
    BY <1>3, <2>5, Known DEF UserType
  <2>7. OneIs(i, y) /\ iface'[i] = y /\ \A j \in Iface : j # i => iface'[j] = iface[j]
    BY <2>3, <2>5, OneChanges DEF OneIs
  <2>8. y.st = "WAIT" /\ y.urb = "dangling" BY <2>3 DEF Closing
  <2>9. TypeOK'
    BY <1>1, <2>6, <2>7 DEF HidInv, TypeOK, OneIs, HidIface, UserType
  <2>10. EachIsTold' /\ Messages'
    BY <1>1, <1>2, <2>3, <2>6, <2>7 DEF HidInv, EachIsTold, Messages, NoNews, GoneNews
  <2>11. DeviceIs'
    <3>1. Listed(i) /\ msgs # <<"new">>
      BY <1>4 DEF HidInv, DeviceIs, Listed, InList
    <3> QED BY <1>1, <1>2, <2>7, <2>8, <3>1 DEF HidInv, DeviceIs, Listed
  <2>12. TaskPlace' /\ UserPlace'
    BY <1>1, <1>2, <2>6, <2>7, <2>8 DEF HidInv, TaskPlace, UserPlace, Listed
  <2> QED BY <1>1, <2>7, <2>9, <2>10, <2>11, <2>12 DEF HidInv, Tamed, NoAbuse, OneIs
<1>6. CASE ~MayRelease(x)
  <2>1. iface' = iface /\ user' = Idle BY <1>3, <1>4, <1>6 DEF CloseRelease
  <2>2. user' \in UserType /\ user'.pc = "idle" BY <2>1 DEF UserType, Idle
  <2>3. TypeOK' /\ Kinds'
    BY <1>1, <2>1, <2>2 DEF HidInv, TypeOK, Kinds, UserType
  <2>4. EachIsTold' /\ Messages'
    BY <1>1, <1>2, <2>1, <2>2 DEF HidInv, EachIsTold, Messages, NoNews, GoneNews
  <2>5. DeviceIs' /\ TaskPlace' /\ UserPlace'
    BY <1>1, <1>2, <2>1, <2>2 DEF HidInv, DeviceIs, TaskPlace, UserPlace, Listed, InList
  <2> QED BY <1>1, <2>3, <2>4, <2>5 DEF HidInv, Tamed, NoAbuse
<1> QED BY <1>5, <1>6

\* The callback: the interface is closed in it, or is to be closed later.
LEMMA CallbackIs ==
    ASSUME HidInv, NEW i \in Iface, iface[i].st = "WAIT", iface[i].told = 0, iface' = Callback(i)
    PROVE  \E y : /\ Sound(y) /\ OneIs(i, y) /\ y.urb \in {"null", "dangling"}
                  /\ \/ y.st = "WAIT" /\ y.told = 1 /\ "later" \in env
                     \/ y.st = "free"
<1>1. PICK x : x = iface[i] /\ Sound(x) /\ x \in HidIface /\ x.told = 0 /\ Closing(x) /\ ~Used(x)
  BY Known, KindsDiffer DEF Sound
<1>2. CASE "later" \in env
  <2>1. PICK y : y = [x EXCEPT !.told = 1] OBVIOUS
  <2>2. /\ y \in HidIface /\ y.told = 1 /\ y.st = x.st /\ y.cb = x.cb /\ y.claimed = x.claimed
        /\ y.urb = x.urb
    BY <1>1, <2>1 DEF HidIface
  <2>3. Sound(y) /\ y.st = "WAIT" /\ y.urb = "dangling"
    BY <1>1, <2>2 DEF Sound, Kind, Closing
  <2>4. iface' = [iface EXCEPT ![i].told = @ + 1] BY <1>2 DEF Callback
  <2>5. iface' = [iface EXCEPT ![i] = y]
    <3>1. x.told + 1 = 1 BY <1>1
    <3> QED BY <1>1, <2>1, <2>4, <3>1, Zenon
  <2> QED BY <1>2, <2>2, <2>3, <2>5, OneChanges
<1>3. CASE "later" \notin env
  <2>1. Closed(x) = NoIface BY <1>1, ClosedFrees
  <2>2. iface' = [iface EXCEPT ![i] = NoIface]
    BY <1>1, <1>3, <2>1 DEF Callback
  <2> QED BY <2>2, FreeIsSound, OneChanges
<1> QED BY <1>2, <1>3

\* The callback of the closing task finds the interface: nobody closed it meanwhile.
LEMMA UserCallbackKeeps ==
    ASSUME HidInv, UserCallback
    PROVE  HidInv'
<1>1. /\ user.pc = "cb" /\ calls' = calls /\ env' = env /\ user' = Idle
      /\ drv' = drv /\ bus' = bus /\ plugs' = plugs /\ susp' = susp /\ msgs' = msgs /\ ctl' = ctl
      /\ task' = task /\ dev' = dev
  BY DEF UserCallback, InCall
<1>2. /\ task.pc = "idle" /\ task.kind = "none" /\ user.i \in Iface /\ iface[user.i].st = "WAIT"
      /\ ctl.st = "idle" /\ ~ctl.sem
  BY <1>1, Known DEF HidInv, TaskPlace, UserPlace, CtlType
<1>3. iface[user.i].told = 0 BY <1>1, <1>2 DEF HidInv, EachIsTold
<1>4. PICK i \in Iface : i = user.i BY <1>2
<1>5. PICK y : /\ Sound(y) /\ OneIs(i, y) /\ y.urb \in {"null", "dangling"}
               /\ \/ y.st = "WAIT" /\ y.told = 1 /\ "later" \in env
                  \/ y.st = "free"
  BY <1>2, <1>3, <1>4, CallbackIs DEF UserCallback
<1>6. iface'[i] = y /\ \A j \in Iface : j # i => iface'[j] = iface[j]
  BY <1>5 DEF OneIs
<1>7. crash' = "none" /\ Listed(i)
  BY <1>2, <1>4 DEF UserCallback, Fails, Listed, HidInv, NoAbuse
<1>8. user' \in UserType /\ user'.pc = "idle" BY <1>1 DEF UserType, Idle
<1>9. TypeOK'
  BY <1>1, <1>5, <1>8 DEF HidInv, TypeOK, OneIs, HidIface, UserType
<1>10. EachIsTold' /\ Messages'
  BY <1>1, <1>2, <1>4, <1>5, <1>6, <1>8 DEF HidInv, EachIsTold, Messages, NoNews, GoneNews
<1>11. DeviceIs'
  <2>1. msgs # <<"new">> /\ Device(i) = plugs
    BY <1>7 DEF HidInv, DeviceIs, Listed, InList
  <2> QED BY <1>1, <1>2, <1>5, <1>6, <2>1 DEF HidInv, DeviceIs, Listed
<1>12. TaskPlace' /\ UserPlace'
  BY <1>1, <1>2, <1>5, <1>6, <1>8 DEF HidInv, TaskPlace, UserPlace, Listed
<1> QED BY <1>1, <1>5, <1>7, <1>9, <1>10, <1>11, <1>12 DEF HidInv, Tamed, NoAbuse, OneIs

\* The callback of the driver's task finds it, and frees it neither under the walk nor twice.
LEMMA TaskCallbackKeeps ==
    ASSUME HidInv, TaskCallback
    PROVE  HidInv'
<1>1. /\ task.pc = "cb" /\ calls' = calls /\ env' = env /\ user' = user
      /\ drv' = drv /\ bus' = bus /\ plugs' = plugs /\ susp' = susp /\ msgs' = msgs /\ ctl' = ctl
      /\ dev' = dev
  BY DEF TaskCallback
<1>2. /\ task.kind = "gone" /\ task.i \in Iface /\ iface[task.i].st = "WAIT" /\ task.cur # task.i
      /\ user.pc \in {"idle", "wait"} /\ bus = "gone" /\ msgs = <<>>
  BY <1>1 DEF HidInv, TaskPlace
<1>3. iface[task.i].told = 0 BY <1>1, <1>2 DEF HidInv, EachIsTold
<1>4. PICK i \in Iface : i = task.i BY <1>2
<1>5. PICK y : /\ Sound(y) /\ OneIs(i, y) /\ y.urb \in {"null", "dangling"}
               /\ \/ y.st = "WAIT" /\ y.told = 1 /\ "later" \in env
                  \/ y.st = "free"
  BY <1>2, <1>3, <1>4, CallbackIs DEF TaskCallback
<1>6. iface'[i] = y /\ \A j \in Iface : j # i => iface'[j] = iface[j]
  BY <1>5 DEF OneIs
<1>7. crash' = "none" /\ Listed(i)
  BY <1>2, <1>4 DEF TaskCallback, Fails, Listed, HidInv, NoAbuse
<1>8. PICK t : t = [task EXCEPT !.pc = "walk", !.i = 0] OBVIOUS
<1>9. task' = t /\ t \in TaskType /\ t.pc = "walk" /\ t.kind = "gone" /\ t.cur = task.cur /\ t.cur # i
  BY <1>2, <1>4, <1>8, Known DEF TaskCallback, TaskType
<1>10. TypeOK'
  BY <1>1, <1>5, <1>9 DEF HidInv, TypeOK, OneIs, HidIface, TaskType
<1>11. EachIsTold' /\ Messages'
  BY <1>1, <1>2, <1>4, <1>5, <1>6, <1>9 DEF HidInv, EachIsTold, Messages, NoNews, GoneNews
<1>12. DeviceIs'
  <2>1. msgs # <<"new">> /\ Device(i) = plugs
    BY <1>7 DEF HidInv, DeviceIs, Listed, InList
  <2> QED BY <1>1, <1>2, <1>5, <1>6, <2>1 DEF HidInv, DeviceIs, Listed
<1>13. TaskPlace'
  <2>1. t.cur # 0 => iface'[t.cur].st # "free"
    BY <1>1, <1>2, <1>6, <1>9, Known DEF HidInv, TaskPlace, Listed, TaskType
  <2>2. \A j \in Iface : iface'[j].urb \notin InDone
    BY <1>2, <1>5, <1>6 DEF HidInv, TaskPlace, InDone
  <2>3. \A j \in Iface : Listed(j)' => iface'[j].st = "WAIT" \/ (task'.cur # 0 /\ j >= task'.cur)
    BY <1>2, <1>5, <1>6, <1>9 DEF HidInv, TaskPlace, Listed
  <2>4. ~ctl.sem /\ dev = "listed" /\ ctl.st = "idle"
    BY <1>1, <1>2 DEF HidInv, TaskPlace
  <2> QED BY <1>1, <1>2, <1>9, <2>1, <2>2, <2>3, <2>4 DEF TaskPlace, Listed
<1>14. UserPlace' BY <1>1, <1>2, <1>5, <1>6, <1>9 DEF HidInv, UserPlace
<1> QED BY <1>1, <1>5, <1>7, <1>10, <1>11, <1>12, <1>13, <1>14 DEF HidInv, Tamed, NoAbuse, OneIs

\* A start finds its interface, submits its transfer, or tells the caller.
LEMMA StartActKeeps ==
    ASSUME HidInv, StartAct
    PROVE  HidInv'
<1>1. /\ user.pc = "start" /\ calls' = calls /\ env' = env /\ user' = Idle
      /\ drv' = drv /\ bus' = bus /\ plugs' = plugs /\ ctl' = ctl /\ task' = task /\ dev' = dev
  BY DEF StartAct, InCall
<1>2. /\ task.pc = "idle" /\ task.kind = "none" /\ user.i \in Iface /\ Used(iface[user.i])
      /\ ctl.st = "idle" /\ ~ctl.sem
  BY <1>1, Known DEF HidInv, TaskPlace, UserPlace, CtlType
<1>3. PICK i \in Iface : i = user.i BY <1>2
<1>4. PICK x : x = iface[i] /\ Sound(x) /\ x \in HidIface /\ Used(x)
  BY <1>2, <1>3, Known DEF Sound
<1>5. PICK f \in BOOLEAN : f = (x.urb # "idle" \/ bus # "present") OBVIOUS
<1>6. PICK z \in HidIface : /\ z = [x EXCEPT !.st = "ACTIVE", !.failed = f]
                            /\ Sound(z) /\ Used(z) /\ z.st = "ACTIVE" /\ z.failed = f
                            /\ z.urb = x.urb /\ z.claimed = x.claimed
  BY <1>4, <1>5, StartedIs
<1>7. PICK y \in HidIface : /\ y = Submitted(z) /\ Sound(y) /\ Like(z, y) /\ y.failed = z.failed
                            /\ (Used(z) <=> Used(y))
                            /\ y.urb = IF bus = "present" /\ z.urb = "idle" THEN "flight" ELSE z.urb
  BY <1>6, SubmittedIs
<1>8. /\ Listed(i) /\ dev = "listed" /\ ~ParentFreed(i) /\ z.urb # "dangling" /\ msgs # <<"new">>
      /\ Device(i) = plugs
  <2>1. x.st \notin {"free", "WAIT"} BY <1>4, KindsDiffer
  <2>2. Listed(i) BY <1>4, <2>1 DEF Listed
  <2>3. dev = "listed" /\ Device(i) = plugs /\ msgs # <<"new">>
    BY <1>4, <2>1, <2>2 DEF HidInv, DeviceIs, InList
  <2> QED BY <1>4, <1>6, <2>2, <2>3 DEF ParentFreed, Used, InDone
<1>9. /\ crash' = crash /\ iface' = [iface EXCEPT ![i] = y]
      /\ IF Resumes(z) THEN susp' = FALSE /\ msgs' = Append(msgs, "res") ELSE UNCHANGED <<susp, msgs>>
  <2>1. z = [iface[user.i] EXCEPT !.st = "ACTIVE", !.failed = iface[user.i].urb # "idle" \/ bus # "present"]
    BY <1>3, <1>4, <1>5, <1>6
  <2>2. /\ Fails(Listed(i) /\ z.urb # "dangling" /\ ~ParentFreed(i), "start")
        /\ iface' = [iface EXCEPT ![i] = IF Listed(i) THEN Submitted(z) ELSE @]
        /\ IF Listed(i) /\ Resumes(z) THEN susp' = FALSE /\ msgs' = Append(msgs, "res")
                                      ELSE UNCHANGED <<susp, msgs>>
    BY <1>3, <2>1, Zenon DEF StartAct
  <2> QED BY <1>7, <1>8, <2>2 DEF Fails
<1>10. \/ msgs' = msgs /\ susp' = susp
       \/ susp /\ bus = "present" /\ susp' = FALSE /\ msgs' = Append(msgs, "res")
  BY <1>9 DEF Resumes
<1>11. /\ OneIs(i, y) /\ iface'[i] = y /\ (\A j \in Iface : j # i => iface'[j] = iface[j])
       /\ y.st = "ACTIVE" /\ (bus = "present" /\ ~y.failed => y.urb = "flight")
       /\ (y.urb = "flight" => bus = "present" \/ x.urb = "flight")
  BY <1>5, <1>6, <1>7, <1>9, OneChanges DEF OneIs, Like
<1>12. user' \in UserType /\ user'.pc = "idle" BY <1>1 DEF UserType, Idle
<1>13. Messages' /\ msgs' \in Seq({"new", "gone", "susp", "res"}) /\ susp' \in BOOLEAN
       /\ (msgs \in {<<"susp">>, <<"susp", "res">>} => msgs' \in {<<"susp">>, <<"susp", "res">>})
       /\ msgs' # <<"new">>
  BY <1>1, <1>8, <1>10, MayResume
<1>14. TypeOK'
  BY <1>1, <1>11, <1>12, <1>13 DEF HidInv, TypeOK, OneIs, HidIface, UserType
<1>15. EachIsTold' BY <1>1, <1>2, <1>11, <1>12 DEF HidInv, EachIsTold
<1>16. DeviceIs'
  BY <1>1, <1>2, <1>4, <1>8, <1>11, <1>13 DEF HidInv, DeviceIs, Listed
<1>17. TaskPlace' /\ UserPlace'
  BY <1>1, <1>2, <1>11, <1>12 DEF HidInv, TaskPlace, UserPlace, Listed
<1> QED BY <1>1, <1>9, <1>11, <1>13, <1>14, <1>15, <1>16, <1>17 DEF HidInv, Tamed, NoAbuse, OneIs

\* A device comes when nothing is left of the last one.
LEMMA PlugKeeps ==
    ASSUME HidInv, Plug
    PROVE  HidInv'
<1>1. /\ dev = "none" /\ msgs = <<>> /\ task.pc = "idle" /\ plugs < MaxPlugs /\ InList = {}
      /\ bus # "present" /\ plugs' = plugs + 1 /\ bus' = "present" /\ msgs' = <<"new">>
      /\ susp' = susp /\ ctl' = ctl /\ iface' = iface /\ drv' = drv /\ dev' = dev /\ task' = task
      /\ user' = user /\ calls' = calls /\ crash' = crash /\ env' = env
  BY Known DEF Plug, Calm
<1>2. \A i \in Iface : ~Listed(i) /\ iface[i].st = "free" /\ iface[i].urb = "null"
  BY <1>1, Known, KindsDiffer DEF InList, Listed
<1>3. plugs' \in 0..MaxPlugs /\ plugs' # 0
  BY <1>1, BoundsAreNat DEF HidInv, TypeOK
<1>4. msgs' \in Seq({"new", "gone", "susp", "res"})
  BY <1>1, MessagesAreTyped, Zenon
<1>5. TypeOK' /\ Kinds' /\ EachIsTold'
  BY <1>1, <1>3, <1>4 DEF HidInv, TypeOK, Kinds, EachIsTold
<1>6. Messages'
  <2>1. ~susp /\ task.kind = "none" BY <1>1 DEF HidInv, Messages, TaskPlace
  <2> QED BY <1>1, <2>1, MessagesDiffer DEF Messages, NoNews, GoneNews
<1>7. DeviceIs' BY <1>1, <1>2, <1>3 DEF HidInv, DeviceIs, Listed, InList
<1>8. TaskPlace' /\ UserPlace'
  <2>1. task.kind = "none" BY <1>1 DEF HidInv, TaskPlace
  <2> QED BY <1>1, <1>2, <2>1 DEF HidInv, TaskPlace, UserPlace, Listed
<1> QED BY <1>1, <1>5, <1>6, <1>7, <1>8 DEF HidInv, Tamed, NoAbuse

\* An answer is for the one request under way.
LEMMA AnswerKeeps ==
    ASSUME HidInv, Answer
    PROVE  HidInv'
<1>1. /\ bus = "present" /\ ctl.st = "flight" /\ ctl' = [ctl EXCEPT !.st = "done"]
      /\ plugs' = plugs /\ bus' = bus /\ msgs' = msgs
      /\ susp' = susp /\ iface' = iface /\ drv' = drv /\ dev' = dev /\ task' = task
      /\ user' = user /\ calls' = calls /\ crash' = crash /\ env' = env
  BY DEF Answer, Calm
<1>2. ctl' \in CtlType /\ ctl'.st = "done" /\ ctl'.sem = ctl.sem
  BY <1>1, Known DEF CtlType
<1>3. TypeOK' /\ Kinds' BY <1>1, <1>2 DEF HidInv, TypeOK, Kinds, CtlType
<1>4. EachIsTold' /\ Messages'
  BY <1>1 DEF HidInv, EachIsTold, Messages, NoNews, GoneNews
<1>5. DeviceIs' /\ TaskPlace' /\ UserPlace'
  BY <1>1, <1>2 DEF HidInv, DeviceIs, TaskPlace, UserPlace, Listed, InList
<1> QED BY <1>1, <1>3, <1>4, <1>5 DEF HidInv, Tamed, NoAbuse

\* A resumption follows the suspension in the messages.
LEMMA ResumeKeeps ==
    ASSUME HidInv, Resume
    PROVE  HidInv'
<1>1. /\ susp /\ susp' = FALSE /\ msgs' = Append(msgs, "res")
      /\ plugs' = plugs /\ bus' = bus /\ ctl' = ctl
      /\ iface' = iface /\ drv' = drv /\ dev' = dev /\ task' = task
      /\ user' = user /\ calls' = calls /\ crash' = crash /\ env' = env
  BY DEF Resume, Calm
<1>2. bus = "present" BY <1>1 DEF HidInv, Messages
<1>3. Messages' /\ msgs' \in Seq({"new", "gone", "susp", "res"}) /\ susp' \in BOOLEAN
      /\ (msgs \in {<<"susp">>, <<"susp", "res">>} => msgs' \in {<<"susp">>, <<"susp", "res">>})
      /\ (msgs' = <<"new">> => msgs = <<"new">>)
  BY <1>1, <1>2, MayResume
<1>4. TypeOK' /\ Kinds' /\ EachIsTold'
  BY <1>1, <1>3 DEF HidInv, TypeOK, Kinds, EachIsTold
<1>5. DeviceIs' BY <1>1, <1>3 DEF HidInv, DeviceIs, Listed, InList
<1>6. TaskPlace' /\ UserPlace'
  BY <1>1, <1>2 DEF HidInv, TaskPlace, UserPlace, Listed
<1> QED BY <1>1, <1>3, <1>4, <1>5, <1>6 DEF HidInv, Tamed, NoAbuse

\* A report is for an interface in use.
LEMMA ReportKeeps ==
    ASSUME HidInv, NEW i \in Iface, Report(i)
    PROVE  HidInv'
<1>1. /\ bus = "present" /\ iface[i].urb = "flight"
      /\ plugs' = plugs /\ bus' = bus /\ ctl' = ctl /\ msgs' = msgs /\ susp' = susp
      /\ drv' = drv /\ dev' = dev /\ task' = task
      /\ user' = user /\ calls' = calls /\ crash' = crash /\ env' = env
  BY DEF Report, Calm
<1>2. PICK u \in {"doneok", "doneerr"} : iface' = [iface EXCEPT ![i].urb = u]
  <2>1. PICK ok \in {TRUE, "error" \notin env} :
            iface' = [iface EXCEPT ![i].urb = IF ok THEN "doneok" ELSE "doneerr"]
    BY DEF Report
  <2>2. CASE ok BY <2>1, <2>2, Zenon
  <2>3. CASE ~ok BY <2>1, <2>3, Zenon
  <2> QED BY <2>2, <2>3
<1>3. PICK x : x = iface[i] /\ Sound(x) /\ x \in HidIface /\ Used(x)
  BY <1>1, Known, UrbIsUsed DEF Sound
<1>4. PICK y \in HidIface : y = [x EXCEPT !.urb = u] /\ Sound(y) /\ Used(y)
                            /\ Like(x, y) /\ y.urb = u /\ y.failed = x.failed
  <2>1. u \in InDone \cup {"idle", "flight"} BY DEF InDone
  <2> QED BY <1>3, <2>1, UrbMoves
<1>5. iface' = [iface EXCEPT ![i] = y] BY <1>2, <1>3, <1>4, Zenon
<1>6. /\ OneIs(i, y) /\ iface'[i] = y /\ (\A j \in Iface : j # i => iface'[j] = iface[j])
      /\ y.st = x.st /\ y.told = x.told /\ y.st \notin {"free", "WAIT"}
  BY <1>3, <1>4, <1>5, OneChanges, KindsDiffer DEF OneIs, Like
<1>7. TypeOK' BY <1>1, <1>6 DEF HidInv, TypeOK, OneIs, HidIface
<1>8. EachIsTold' /\ Messages'
  BY <1>1, <1>3, <1>6 DEF HidInv, EachIsTold, Messages, NoNews, GoneNews
<1>9. DeviceIs'
  <2>1. msgs # <<"new">> /\ Device(i) = plugs /\ dev = "listed"
    BY <1>3, <1>6 DEF HidInv, DeviceIs, Listed, InList
  <2> QED BY <1>1, <1>6, <2>1 DEF HidInv, DeviceIs, Listed
<1>10. TaskPlace' /\ UserPlace'
  <2>1. task.kind # "gone" BY <1>1 DEF HidInv, TaskPlace
  <2>2. TaskPlace'
    BY <1>1, <1>3, <1>6, <2>1, Known DEF HidInv, TaskPlace, Listed, TaskType
  <2>3. UserPlace' BY <1>1, <1>3, <1>4, <1>6 DEF HidInv, UserPlace
  <2> QED BY <2>2, <2>3
<1> QED BY <1>1, <1>6, <1>7, <1>8, <1>9, <1>10 DEF HidInv, Tamed, NoAbuse, OneIs

\* What the library gives back when the device goes or the port is suspended
LEMMA AllGivenBack ==
    ASSUME HidInv, iface' = GivenBack
    PROVE  /\ iface' \in [Iface -> HidIface] /\ Kinds'
           /\ \A j \in Iface : /\ iface'[j].st = iface[j].st /\ iface'[j].told = iface[j].told
                               /\ iface'[j].failed = iface[j].failed
                               /\ (Used(iface[j]) => Used(iface'[j]))
                               /\ iface'[j].urb # "flight"
<1>1. ASSUME NEW j \in Iface
      PROVE  /\ iface'[j] = Flushed(iface[j]) /\ Sound(iface'[j])
             /\ iface'[j].st = iface[j].st /\ iface'[j].told = iface[j].told
             /\ iface'[j].failed = iface[j].failed /\ (Used(iface[j]) => Used(iface'[j]))
             /\ iface'[j].urb # "flight"
  <2>1. iface'[j] = Flushed(iface[j]) BY DEF GivenBack
  <2>2. Sound(iface[j]) BY Known
  <2> QED BY <2>1, <2>2, FlushedIs DEF Like
<1>2. iface' = [j \in Iface |-> iface'[j]] BY DEF GivenBack
<1>3. iface' \in [Iface -> HidIface] BY <1>1, <1>2 DEF Sound
<1> QED BY <1>1, <1>3 DEF Kinds, Sound

\* When the device goes, all its transfers are given back, and one message tells of it.
LEMMA UnplugKeeps ==
    ASSUME HidInv, Unplug
    PROVE  HidInv'
<1>1. /\ bus = "present" /\ dev = "listed" /\ bus' = "gone" /\ susp' = FALSE
      /\ msgs' = Append(msgs, "gone") /\ iface' = GivenBack
      /\ ctl' = [ctl EXCEPT !.st = IF @ = "flight" THEN "done" ELSE @]
      /\ plugs' = plugs /\ drv' = drv /\ dev' = dev /\ task' = task
      /\ user' = user /\ calls' = calls /\ crash' = crash /\ env' = env
  BY Known DEF Unplug, Calm
<1>2. /\ iface' \in [Iface -> HidIface] /\ Kinds'
      /\ \A j \in Iface : /\ iface'[j].st = iface[j].st /\ iface'[j].told = iface[j].told
                          /\ iface'[j].failed = iface[j].failed
                          /\ (Used(iface[j]) => Used(iface'[j]))
                          /\ iface'[j].urb # "flight"
  BY <1>1, AllGivenBack
<1>3. /\ ctl' \in CtlType /\ ctl'.sem = ctl.sem /\ ctl'.st # "flight"
      /\ (ctl'.st = "idle" <=> ctl.st = "idle")
  BY <1>1, Known DEF CtlType
<1>4. NoNews /\ task.kind # "gone" BY <1>1 DEF HidInv, Messages, TaskPlace
<1>5. /\ msgs' \in {<<"gone">>, <<"susp", "gone">>, <<"res", "gone">>, <<"susp", "res", "gone">>}
      /\ (msgs' # <<"gone">> => msgs \notin {<<>>, <<"new">>, <<"gone">>})
  BY <1>1, <1>4, AppendsAre, MessagesDiffer, Zenon DEF NoNews
<1>6. msgs' \in Seq({"new", "gone", "susp", "res"}) /\ msgs' \notin {<<>>, <<"new">>}
  BY <1>5, MessagesAreTyped, MessagesDiffer, Zenon
<1>7. TypeOK' /\ EachIsTold'
  <2>1. ctl'.st \in {"idle", "flight", "done"} /\ ctl' \in [st : {"idle", "flight", "done"}, sem : BOOLEAN]
    BY <1>3 DEF CtlType
  <2>2. TypeOK' BY <1>1, <1>2, <1>6, <2>1 DEF HidInv, TypeOK, HidIface
  <2>3. EachIsTold' BY <1>1, <1>2 DEF HidInv, EachIsTold
  <2> QED BY <2>2, <2>3
<1>8. Messages'
  <2>1. ~NoNews' /\ GoneNews'
    BY <1>5, MessagesDiffer, Zenon DEF NoNews, GoneNews
  <2>2. task.kind \in {"susp", "res"} \/ msgs \notin {<<>>, <<"new">>, <<"gone">>} => "suspend" \in env
    BY DEF HidInv, Messages
  <2> QED BY <1>1, <1>5, <1>6, <2>1, <2>2 DEF Messages
<1>9. DeviceIs' BY <1>1, <1>2, <1>3, <1>6 DEF HidInv, DeviceIs, Listed
<1>10. TaskPlace'
  BY <1>1, <1>2, <1>3, <1>4, Known DEF HidInv, TaskPlace, Listed, TaskType
<1>11. UserPlace' BY <1>1, <1>2, <1>3 DEF HidInv, UserPlace
<1> QED BY <1>1, <1>2, <1>7, <1>8, <1>9, <1>10, <1>11 DEF HidInv, Tamed, NoAbuse

\* A suspension gives the reports back and announces itself.
LEMMA SuspendKeeps ==
    ASSUME HidInv, Suspend
    PROVE  HidInv'
<1>1. /\ "suspend" \in env /\ bus = "present" /\ ~susp /\ dev = "listed" /\ msgs = <<>>
      /\ susp' = TRUE /\ msgs' = Append(msgs, "susp") /\ iface' = GivenBack
      /\ plugs' = plugs /\ drv' = drv /\ dev' = dev /\ task' = task /\ bus' = bus /\ ctl' = ctl
      /\ user' = user /\ calls' = calls /\ crash' = crash /\ env' = env
  BY DEF Suspend, Calm
<1>2. /\ iface' \in [Iface -> HidIface] /\ Kinds'
      /\ \A j \in Iface : /\ iface'[j].st = iface[j].st /\ iface'[j].told = iface[j].told
                          /\ iface'[j].failed = iface[j].failed
                          /\ (Used(iface[j]) => Used(iface'[j]))
                          /\ iface'[j].urb # "flight"
  BY <1>1, AllGivenBack
<1>3. msgs' = <<"susp">> /\ task.kind # "gone"
  BY <1>1, AppendsAre DEF HidInv, TaskPlace
<1>4. msgs' \in Seq({"new", "gone", "susp", "res"}) /\ msgs' \notin {<<>>, <<"new">>}
  BY <1>3, MessagesAreTyped, MessagesDiffer, Zenon
<1>5. TypeOK' /\ EachIsTold'
  BY <1>1, <1>2, <1>4 DEF HidInv, TypeOK, EachIsTold, HidIface
<1>6. Messages'
  <2>1. NoNews' /\ ~GoneNews'
    BY <1>3, MessagesDiffer, Zenon DEF NoNews, GoneNews
  <2> QED BY <1>1, <1>3, <1>4, <2>1 DEF Messages
<1>7. DeviceIs' BY <1>1, <1>2, <1>4 DEF HidInv, DeviceIs, Listed
<1>8. TaskPlace'
  BY <1>1, <1>2, <1>3, Known DEF HidInv, TaskPlace, Listed, TaskType
<1>9. UserPlace' BY <1>1, <1>2, <1>3 DEF HidInv, UserPlace
<1> QED BY <1>1, <1>2, <1>5, <1>6, <1>7, <1>8, <1>9 DEF HidInv, Tamed, NoAbuse

\* A new device: its interfaces are listed, and the walk over them begins.
LEMMA NewDeviceKeeps ==
    ASSUME HidInv, Message, msgs = <<"new">>
    PROVE  HidInv'
<1>1. /\ task.pc = "idle" /\ Yields /\ msgs' = <<>> /\ InitAttempt
      /\ drv' = drv /\ bus' = bus /\ plugs' = plugs /\ susp' = susp /\ user' = user
      /\ calls' = calls /\ env' = env
  BY HeadsAre, TailsAre DEF Message
<1>2. bus = "present" /\ dev = "none" /\ InList = {} /\ plugs # 0 /\ ~susp
  BY MessagesDiffer DEF HidInv, Messages, DeviceIs
<1>3. user.pc = "idle"
  <2>1. \A i \in Iface : iface[i].urb \notin InDone BY Known DEF Message
  <2>2. user.pc # "wait" BY <1>2 DEF HidInv, UserPlace
  <2> QED BY <1>1, <2>1, <2>2, WhoRuns
<1>4. PICK found : found = {i \in Iface : Device(i) = plugs} /\ found \in SUBSET Nat /\ found # {}
  <2>1. plugs \in 1..MaxPlugs BY <1>2, BoundsAreNat DEF HidInv, TypeOK
  <2>2. \E i \in Iface : Device(i) = plugs BY <2>1, DeviceHasSome
  <2> QED BY <2>2, IfacesAreNumbers
<1>5. PICK m \in found : m = Min(InList \cup found)
  <2>1. InList \cup found = found BY <1>2
  <2> QED BY <1>4, <2>1, MinIsLeast
<1>6. /\ dev' = "listed" /\ ctl' = [st |-> "idle", sem |-> FALSE] /\ crash' = crash
      /\ iface' = [i \in Iface |-> IF i \in found THEN NewIface ELSE iface[i]]
      /\ task' = [pc |-> "walk", kind |-> "new", cur |-> m, i |-> 0]
  BY <1>1, <1>2, <1>4, <1>5 DEF InitAttempt, Walk
<1>7. /\ ctl' \in CtlType /\ ctl'.st = "idle" /\ ~ctl'.sem /\ m \in Iface
      /\ task' \in TaskType /\ task'.pc = "walk" /\ task'.kind = "new" /\ task'.cur = m
  BY <1>4, <1>6 DEF CtlType, TaskType
<1>8. \A i \in Iface : ~Listed(i) /\ iface[i].st = "free" /\ iface[i].urb = "null"
  BY <1>2, Known, KindsDiffer DEF InList, Listed
<1>9. \A i \in Iface : /\ Sound(iface'[i]) /\ iface'[i].urb = "null"
                       /\ iface'[i].st = IF i \in found THEN "IDLE" ELSE "free"
  BY <1>6, <1>8, Known, NewIsSound
<1>10. /\ iface' \in [Iface -> HidIface] /\ Kinds' /\ iface'[m].st = "IDLE"
       /\ \A i \in Iface : /\ iface'[i].st \in {"IDLE", "free"} /\ iface'[i].urb = "null"
                           /\ iface'[i].st # "free" => Device(i) = plugs
  BY <1>4, <1>5, <1>6, <1>7, <1>9 DEF Sound, Kinds
<1>11. TypeOK'
  BY <1>1, <1>6, <1>7, <1>10 DEF HidInv, TypeOK, HidIface, CtlType, TaskType
<1>12. EachIsTold' /\ Messages'
  <2>1. EachIsTold' BY <1>10 DEF EachIsTold
  <2>2. Messages'
    BY <1>1, <1>2, <1>6, <1>7, MessagesDiffer DEF Messages, NoNews, GoneNews
  <2> QED BY <2>1, <2>2
<1>13. DeviceIs'
  BY <1>1, <1>2, <1>6, <1>7, <1>10, MessagesDiffer DEF DeviceIs, Listed
<1>14. TaskPlace' BY <1>1, <1>3, <1>6, <1>7, <1>10 DEF TaskPlace, Listed
<1>15. UserPlace' BY <1>1, <1>3, <1>7, <1>10 DEF UserPlace
<1> QED BY <1>1, <1>6, <1>10, <1>11, <1>12, <1>13, <1>14, <1>15 DEF HidInv, Tamed, NoAbuse

\* Any other message: what is taken, and what is left
LEMMA TakenIs ==
    ASSUME HidInv, Message, msgs # <<"new">>
    PROVE  /\ dev = "listed" /\ Head(msgs) \in {"gone", "susp", "res"} /\ task.pc = "idle" /\ Yields
           /\ dev' = dev /\ ctl' = ctl /\ iface' = iface /\ crash' = crash
           /\ drv' = drv /\ bus' = bus /\ plugs' = plugs /\ susp' = susp /\ user' = user
           /\ calls' = calls /\ env' = env
           /\ task' = [pc |-> "walk", kind |-> Head(msgs), cur |-> FirstFrom(1), i |-> 0]
           /\ ctl.st # "done" /\ \A i \in Iface : iface[i].urb \notin InDone
           /\ msgs' \in {<<>>, <<"res">>, <<"gone">>, <<"res", "gone">>}
           /\ (Head(msgs) = "gone" => msgs = <<"gone">> /\ msgs' = <<>>)
           /\ (Head(msgs) = "susp" <=> msgs \in {<<"susp">>, <<"susp", "res">>, <<"susp", "gone">>,
                                                 <<"susp", "res", "gone">>})
           /\ (Head(msgs) # "gone" => msgs # <<"gone">>)
           /\ (msgs' \in {<<"gone">>, <<"res", "gone">>} => GoneNews)
           /\ (GoneNews /\ Head(msgs) # "gone" => msgs' \in {<<"gone">>, <<"res", "gone">>})
           /\ (msgs \in {<<>>, <<"susp">>} => msgs' = <<>>)
<1>1. /\ task.pc = "idle" /\ Yields /\ msgs # <<>> /\ msgs' = Tail(msgs)
      /\ ctl.st # "done" /\ \A i \in Iface : iface[i].urb \notin InDone
      /\ drv' = drv /\ bus' = bus /\ plugs' = plugs /\ susp' = susp /\ user' = user
      /\ calls' = calls /\ env' = env
  BY Known DEF Message
<1>2. dev = "listed" BY <1>1 DEF HidInv, Messages
<1>3. msgs \in {<<"susp">>, <<"res">>, <<"susp", "res">>, <<"gone">>,
                <<"susp", "gone">>, <<"res", "gone">>, <<"susp", "res", "gone">>}
  BY <1>1 DEF HidInv, Messages, NoNews, GoneNews
<1>4. Head(msgs) \in {"gone", "susp", "res"} BY <1>3, HeadsAre, Zenon
<1>5. /\ dev' = dev /\ ctl' = ctl /\ iface' = iface /\ crash' = crash
      /\ task' = [pc |-> "walk", kind |-> Head(msgs), cur |-> FirstFrom(1), i |-> 0]
  BY <1>2, <1>4 DEF Message, Walk
<1>6. msgs' \in {<<>>, <<"res">>, <<"gone">>, <<"res", "gone">>}
  BY <1>1, <1>3, TailsAre, Zenon
<1>7. /\ (Head(msgs) = "gone" => msgs = <<"gone">> /\ msgs' = <<>>)
      /\ (Head(msgs) # "gone" => msgs # <<"gone">>)
  BY <1>1, <1>3, HeadsAre, TailsAre
<1>8. (Head(msgs) = "susp" <=> msgs \in {<<"susp">>, <<"susp", "res">>, <<"susp", "gone">>,
                                         <<"susp", "res", "gone">>})
  BY <1>3, HeadsAre
<1>9. msgs' \in {<<"gone">>, <<"res", "gone">>} => GoneNews
  BY <1>1, <1>3, TailsAre, MessagesDiffer DEF GoneNews
<1>10. GoneNews /\ Head(msgs) # "gone" => msgs' \in {<<"gone">>, <<"res", "gone">>}
  BY <1>1, <1>3, HeadsAre, TailsAre DEF GoneNews
<1>11. msgs \in {<<>>, <<"susp">>} => msgs' = <<>> BY <1>1, TailsAre
<1> QED BY <1>1, <1>2, <1>4, <1>5, <1>6, <1>7, <1>8, <1>9, <1>10, <1>11

\* The walk for a message begins at the first interface of the list.
LEMMA MessageKeeps ==
    ASSUME HidInv, Message
    PROVE  HidInv'
<1>1. CASE msgs = <<"new">> BY <1>1, NewDeviceKeeps
<1>2. CASE msgs # <<"new">>
  <2>1. PICK k \in {"gone", "susp", "res"} : k = Head(msgs) BY <1>2, TakenIs
  <2>2. /\ dev = "listed" /\ task.pc = "idle" /\ Yields
        /\ dev' = dev /\ ctl' = ctl /\ iface' = iface /\ crash' = crash
        /\ drv' = drv /\ bus' = bus /\ plugs' = plugs /\ susp' = susp /\ user' = user
        /\ calls' = calls /\ env' = env
        /\ task' = [pc |-> "walk", kind |-> k, cur |-> FirstFrom(1), i |-> 0]
        /\ ctl.st # "done" /\ \A i \in Iface : iface[i].urb \notin InDone
    BY <1>2, <2>1, TakenIs
  <2>3. /\ msgs' \in {<<>>, <<"res">>, <<"gone">>, <<"res", "gone">>}
        /\ (k = "gone" => msgs = <<"gone">> /\ msgs' = <<>>)
        /\ (k = "susp" <=> msgs \in {<<"susp">>, <<"susp", "res">>, <<"susp", "gone">>,
                                     <<"susp", "res", "gone">>})
        /\ (k # "gone" => msgs # <<"gone">>)
        /\ (msgs' \in {<<"gone">>, <<"res", "gone">>} => GoneNews)
        /\ (GoneNews /\ k # "gone" => msgs' \in {<<"gone">>, <<"res", "gone">>})
        /\ (msgs \in {<<>>, <<"susp">>} => msgs' = <<>>)
    BY <1>2, <2>1, TakenIs
  <2>4. PICK f \in Iface \cup {0} :
            /\ f = FirstFrom(1) /\ (f # 0 => Listed(f))
            /\ \A j \in Iface : Listed(j) => f # 0 /\ j >= f
    <3>1. PICK one \in Nat : one = 1 OBVIOUS
    <3>2. \A j \in Iface : j >= one BY <3>1, IfacesAreNumbers
    <3> QED BY <3>1, <3>2, FirstIs
  <2>5. /\ task' \in TaskType /\ task'.pc = "walk" /\ task'.kind = k /\ task'.cur = f
    BY <2>1, <2>2, <2>4 DEF TaskType
  <2>6. user.pc \in {"idle", "wait"} /\ ~ctl.sem
    <3>1. user.pc = "idle" \/ (user.pc = "wait" /\ ~ctl.sem)
      BY <2>2, WhoRuns
    <3> QED BY <3>1 DEF HidInv, UserPlace
  <2>7. msgs \notin {<<>>, <<"new">>} BY <1>2 DEF Message
  <2>8. TypeOK' /\ Kinds'
    <3>1. msgs' \in Seq({"new", "gone", "susp", "res"})
      BY <2>3, MessagesAreTyped, Zenon
    <3> QED BY <2>2, <2>5, <3>1 DEF HidInv, TypeOK, TaskType, Kinds
  <2>9. EachIsTold' BY <2>2, <2>5 DEF HidInv, EachIsTold
  <2>10. Messages'
    <3>1. msgs' # <<"new">> /\ (NoNews' \/ GoneNews') /\ (GoneNews' => GoneNews)
      BY <2>3, MessagesDiffer, Zenon DEF NoNews, GoneNews
    <3>2. GoneNews => bus = "gone" BY DEF HidInv, Messages
    <3>3. susp => bus = "present" /\ msgs' = <<>>
      BY <2>3 DEF HidInv, Messages
    <3>4. susp \/ k \in {"susp", "res"} => "suspend" \in env
      BY <2>3, <2>7 DEF HidInv, Messages
    <3>5. k = "gone" => msgs' = <<>> BY <2>3
    <3> QED BY <2>1, <2>2, <2>5, <3>1, <3>2, <3>3, <3>4, <3>5 DEF Messages
  <2>11. DeviceIs'
    <3>1. msgs' # <<"new">> BY <2>3, MessagesDiffer, Zenon
    <3> QED BY <2>2, <3>1 DEF HidInv, DeviceIs, Listed
  <2>12. TaskPlace'
    <3>1. k = "gone" => bus = "gone" /\ msgs' = <<>> /\ ctl.st = "idle"
      <4>1. CASE k = "gone"
        <5>1. GoneNews /\ msgs' = <<>> BY <2>3, <4>1 DEF GoneNews
        <5>2. bus = "gone" BY <5>1 DEF HidInv, Messages
        <5> QED BY <2>2, <5>1, <5>2, Known DEF HidInv, DeviceIs, CtlType
      <4> QED BY <4>1
    <3> QED BY <2>2, <2>4, <2>5, <2>6, <3>1 DEF TaskPlace, Listed
  <2>13. UserPlace' BY <2>2 DEF HidInv, UserPlace
  <2> QED BY <2>2, <2>8, <2>9, <2>10, <2>11, <2>12, <2>13 DEF HidInv, Tamed, NoAbuse
<1> QED BY <1>1, <1>2

\* Where the walk goes on
LEMMA NextOnes ==
    ASSUME HidInv, task.pc = "walk", task.cur # 0
    PROVE  \E i \in Iface, n \in Iface \cup {0} :
              /\ i = task.cur /\ n = FirstFrom(i + 1) /\ Listed(i) /\ Device(i) = plugs /\ n # i
              /\ (n # 0 => Listed(n))
              /\ \A j \in Iface : Listed(j) /\ j >= i /\ j # i => n # 0 /\ j >= n
<1>1. PICK i \in Iface : i = task.cur /\ Listed(i)
  BY Known DEF TaskType, HidInv, TaskPlace
<1>2. PICK k \in Nat : k = i + 1 /\ \A j \in Iface : j >= i /\ j # i => j >= k
  BY IfacesAreNumbers
<1>3. PICK n \in Iface \cup {0} :
          /\ n = FirstFrom(k) /\ (n # 0 => Listed(n) /\ n >= k)
          /\ \A j \in Iface : Listed(j) /\ j >= k => n # 0 /\ j >= n
  BY FirstIs
<1>4. n # i BY <1>2, <1>3, IfacesAreNumbers
<1>5. Device(i) = plugs BY <1>1 DEF HidInv, DeviceIs
<1> QED BY <1>1, <1>2, <1>3, <1>4, <1>5

\* One step of a walk: it frees no transfer under way, and goes on at an interface in the list.
LEMMA WalkStepKeeps ==
    ASSUME HidInv, WalkStep
    PROVE  HidInv'
<1>1. /\ task.pc = "walk" /\ task.cur # 0
      /\ drv' = drv /\ bus' = bus /\ plugs' = plugs /\ susp' = susp /\ msgs' = msgs /\ ctl' = ctl
      /\ user' = user /\ calls' = calls /\ env' = env /\ dev' = dev
  BY DEF WalkStep
<1>2. PICK i \in Iface, n \in Iface \cup {0} :
          /\ i = task.cur /\ n = FirstFrom(i + 1) /\ Listed(i) /\ Device(i) = plugs /\ n # i
          /\ (n # 0 => Listed(n))
          /\ \A j \in Iface : Listed(j) /\ j >= i /\ j # i => n # 0 /\ j >= n
  BY <1>1, NextOnes
<1>3. user.pc \in {"idle", "wait"} /\ ~ctl.sem /\ dev = "listed"
  BY <1>1 DEF HidInv, TaskPlace
<1>4. PICK x : x = iface[i] /\ Sound(x) /\ x \in HidIface /\ x.st # "free"
  BY <1>2, Known DEF Sound, Listed
<1>5. PICK on : on = [task EXCEPT !.cur = n] OBVIOUS
<1>6. /\ on \in TaskType /\ on.pc = "walk" /\ on.cur = n /\ on.kind = task.kind
      /\ on.i = task.i
  BY <1>1, <1>5, Known DEF TaskType
<1>7. msgs # <<"new">> BY <1>1 DEF HidInv, DeviceIs
<1>8. Messages'
  <2>1. task'.kind = task.kind
    <3>1. CASE task.kind = "gone"
      <4>1. task' = IF Tells(Torn(x)) THEN [on EXCEPT !.pc = "cb", !.i = i] ELSE on
        BY <1>2, <1>4, <1>5, <3>1 DEF WalkStep
      <4>2. [on EXCEPT !.pc = "cb", !.i = i].kind = on.kind
        BY <1>6 DEF TaskType
      <4> QED BY <1>6, <4>1, <4>2
    <3>2. CASE task.kind # "gone"
      <4>1. task' = on BY <1>2, <1>5, <3>2 DEF WalkStep
      <4> QED BY <1>6, <4>1
    <3> QED BY <3>1, <3>2
  <2> QED BY <1>1, <2>1 DEF HidInv, Messages, NoNews, GoneNews
<1>9. CASE task.kind = "gone"
  <2>1. /\ bus = "gone" /\ msgs = <<>> /\ ctl.st = "idle"
        /\ \A j \in Iface : iface[j].urb \notin InDone \cup {"flight"}
        /\ \A j \in Iface : Listed(j) => iface[j].st = "WAIT" \/ j >= i
    BY <1>1, <1>2, <1>9 DEF HidInv, TaskPlace, DeviceIs
  <2>2. /\ TearsSafely(x)
        /\ Used(x) => /\ Tells(Torn(x))
                      /\ \E y \in HidIface : /\ y = Closed(Torn(x)) /\ Sound(y)
                                             /\ Closing(y) /\ y.told = 0
        /\ ~Used(x) => ~Tells(Torn(x)) /\ Closed(Torn(x)) = NoIface
    BY <1>4, <2>1, TornIs
  <2>3. /\ iface' = [iface EXCEPT ![i] = Closed(Torn(x))]
        /\ task' = IF Tells(Torn(x)) THEN [on EXCEPT !.pc = "cb", !.i = i] ELSE on
        /\ Fails(Listed(i) /\ ~ParentFreed(i) /\ (task.kind = "gone" => TearsSafely(x)), "walk")
    BY <1>2, <1>4, <1>5, <1>9 DEF WalkStep
  <2>4. crash' = crash BY <1>2, <1>3, <2>2, <2>3 DEF Fails, ParentFreed
  <2>5. PICK y, t :
            /\ Sound(y) /\ iface' = [iface EXCEPT ![i] = y] /\ task' = t /\ t \in TaskType
            /\ t.kind = "gone" /\ t.cur = n /\ y.urb \in {"null", "dangling"}
            /\ \/ y.st = "WAIT" /\ y.told = 0 /\ t.pc = "cb" /\ t.i = i
               \/ y.st = "free" /\ t.pc = "walk"
    <3>1. CASE Used(x)
      <4>1. PICK y \in HidIface : y = Closed(Torn(x)) /\ Sound(y) /\ Closing(y) /\ y.told = 0
        BY <2>2, <3>1
      <4>2. y.st = "WAIT" /\ y.urb = "dangling" BY <4>1 DEF Closing
      <4>3. PICK t : t = [on EXCEPT !.pc = "cb", !.i = i] OBVIOUS
      <4>4. t \in TaskType /\ t.pc = "cb" /\ t.i = i /\ t.kind = "gone" /\ t.cur = n
        BY <1>6, <1>9, <4>3 DEF TaskType
      <4>5. task' = t BY <2>2, <2>3, <3>1, <4>3
      <4> QED BY <2>3, <4>1, <4>2, <4>4, <4>5
    <3>2. CASE ~Used(x)
      <4>1. iface' = [iface EXCEPT ![i] = NoIface] /\ task' = on
        BY <2>2, <2>3, <3>2
      <4> QED BY <1>6, <1>9, <4>1, FreeIsSound
    <3> QED BY <3>1, <3>2
  <2>6. OneIs(i, y) /\ iface'[i] = y /\ \A j \in Iface : j # i => iface'[j] = iface[j]
    BY <2>5, OneChanges DEF OneIs
  <2>7. TypeOK'
    BY <1>1, <2>4, <2>5, <2>6 DEF HidInv, TypeOK, OneIs, HidIface, TaskType
  <2>8. EachIsTold' BY <1>1, <1>3, <2>5, <2>6 DEF HidInv, EachIsTold
  <2>9. DeviceIs'
    BY <1>1, <1>2, <1>3, <1>7, <2>1, <2>5, <2>6 DEF HidInv, DeviceIs, Listed
  <2>10. TaskPlace'
    <3>1. n # 0 => iface'[n].st # "free" BY <1>2, <2>6 DEF Listed
    <3>2. \A j \in Iface : iface'[j].urb \notin InDone
      BY <2>1, <2>5, <2>6 DEF InDone
    <3>3. \A j \in Iface : Listed(j)' => iface'[j].st = "WAIT" \/ (n # 0 /\ j >= n)
      BY <1>2, <2>1, <2>5, <2>6 DEF Listed
    <3> QED BY <1>1, <1>2, <1>3, <2>1, <2>5, <2>6, <3>1, <3>2, <3>3 DEF TaskPlace, Listed
  <2>11. UserPlace' BY <1>1, <1>3, <2>1, <2>5, <2>6 DEF HidInv, UserPlace
  <2> QED
    BY <1>1, <1>8, <2>4, <2>6, <2>7, <2>8, <2>9, <2>10, <2>11 DEF HidInv, Tamed, NoAbuse, OneIs
<1>10. CASE task.kind # "gone"
  <2>1. /\ iface' = [iface EXCEPT ![i] = Follows(task.kind, x)] /\ task' = on
        /\ Fails(Listed(i) /\ ~ParentFreed(i) /\ (task.kind = "gone" => TearsSafely(x)), "walk")
    BY <1>2, <1>4, <1>5, <1>10 DEF WalkStep
  <2>2. crash' = crash BY <1>2, <1>3, <1>10, <2>1 DEF Fails, ParentFreed
  <2>3. task.kind \in {"susp", "res"} => "suspend" \in env
    BY DEF HidInv, Messages
  <2>4. "suspend" \in env => x.st # "WAIT"
    <3>1. ~((task.pc = "cb" /\ task.i = i) \/ (user.pc = "cb" /\ user.i = i))
      BY <1>1, <1>3
    <3>2. x.st = "WAIT" => "later" \in env
      BY <1>4, <3>1 DEF HidInv, EachIsTold
    <3> QED BY <3>2, Known
  <2>5. PICK y :
            /\ Sound(y) /\ iface' = [iface EXCEPT ![i] = y] /\ y.st # "free"
            /\ (y.st = "WAIT" <=> x.st = "WAIT") /\ (y.st = "WAIT" => y = x)
            /\ (y.urb = x.urb \/ (y.urb = "flight" /\ bus = "present"))
            /\ (task.kind = "susp" => y.st = "SUSPENDED")
            /\ \/ y = x
               \/ y.st # "ACTIVE"
               \/ bus = "present" => y.urb \in InDone \cup {"flight"}
            /\ \/ y = x
               \/ y.st = "SUSPENDED"
               \/ task.kind = "res"
    <3>1. CASE task.kind = "susp"
      <4>1. x.st \notin {"free", "WAIT"} BY <1>4, <2>3, <2>4, <3>1
      <4>2. PICK y \in HidIface : /\ y = Suspended(x) /\ Sound(y) /\ y.st = "SUSPENDED"
                                  /\ (Used(x) <=> Used(y)) /\ y.urb = x.urb
        BY <1>4, <4>1, SuspendedIs
      <4>3. iface' = [iface EXCEPT ![i] = y] BY <2>1, <3>1, <4>2 DEF Follows
      <4> QED BY <4>1, <4>2, <4>3
    <3>2. CASE task.kind = "res"
      <4>1. PICK y \in HidIface :
                /\ y = Resumed(x) /\ Sound(y)
                /\ (x.st = "WAIT" <=> y.st = "WAIT") /\ (x.st = "free" <=> y.st = "free")
                /\ (x.st # "SUSPENDED" => y = x)
                /\ (y.urb = x.urb \/ (y.urb = "flight" /\ bus = "present" /\ x.urb = "idle"))
                /\ (x.st = "SUSPENDED" /\ y.st = "ACTIVE" /\ bus = "present" =>
                       y.urb \notin {"idle", "null", "dangling"})
        BY <1>4, ResumedIs
      <4>2. iface' = [iface EXCEPT ![i] = y] BY <2>1, <3>2, <4>1 DEF Follows
      <4>3. y.urb \in InDone \cup {"null", "idle", "flight", "dangling"}
        BY DEF HidIface
      <4> QED BY <1>4, <3>2, <4>1, <4>2, <4>3
    <3>3. CASE task.kind \notin {"susp", "res"}
      <4>1. iface' = [iface EXCEPT ![i] = x] BY <2>1, <3>3 DEF Follows
      <4> QED BY <1>4, <3>3, <4>1
    <3> QED BY <3>1, <3>2, <3>3
  <2>6. OneIs(i, y) /\ iface'[i] = y /\ \A j \in Iface : j # i => iface'[j] = iface[j]
    BY <2>5, OneChanges DEF OneIs
  <2>7. TypeOK'
    BY <1>1, <1>6, <2>1, <2>2, <2>6 DEF HidInv, TypeOK, OneIs, HidIface, TaskType
  <2>8. EachIsTold'
    BY <1>1, <1>3, <1>4, <1>6, <2>1, <2>5, <2>6 DEF HidInv, EachIsTold
  <2>9. DeviceIs'
    BY <1>1, <1>2, <1>3, <1>4, <1>7, <2>5, <2>6 DEF HidInv, DeviceIs, Listed
  <2>10. TaskPlace'
    <3>1. n # 0 => iface'[n].st # "free" BY <1>2, <2>6 DEF Listed
    <3>2. task.kind = "susp" => \A j \in Iface : Listed(j)' =>
              iface'[j].st = "SUSPENDED" \/ (n # 0 /\ j >= n)
      <4>1. ASSUME task.kind = "susp", NEW j \in Iface, iface'[j].st # "free", j # i
            PROVE  iface'[j].st = "SUSPENDED" \/ (n # 0 /\ j >= n)
        <5>1. Listed(j) /\ (iface[j].st = "SUSPENDED" \/ j >= i)
          BY <1>1, <1>2, <2>6, <4>1 DEF HidInv, TaskPlace, Listed
        <5> QED BY <1>2, <2>6, <4>1, <5>1
      <4> QED BY <2>5, <2>6, <4>1 DEF Listed
    <3>3. task.kind # "none" BY <1>1 DEF HidInv, TaskPlace
    <3> QED BY <1>1, <1>3, <1>6, <1>10, <2>1, <3>1, <3>2, <3>3 DEF TaskPlace, Listed
  <2>11. UserPlace' BY <1>1, <1>3 DEF HidInv, UserPlace
  <2> QED
    BY <1>1, <1>8, <2>2, <2>6, <2>7, <2>8, <2>9, <2>10, <2>11 DEF HidInv, Tamed, NoAbuse, OneIs
<1> QED BY <1>9, <1>10

\* hid_host_install()
LEMMA InitHolds == ASSUME Tamed, Init PROVE HidInv
<1>1. \A i \in Iface : iface[i] = NoIface BY DEF Init
<1>2. NoIface \in HidIface BY FreeIsSound DEF Sound
<1>3. iface \in [Iface -> HidIface] /\ \A i \in Iface : iface[i].st = "free" /\ iface[i].urb = "null"
  BY <1>1, <1>2, FreeIsSound DEF Init
<1>4. Kinds BY <1>1, FreeIsSound DEF Kinds, Sound
<1>5. msgs \in Seq({"new", "gone", "susp", "res"})
  BY MessagesAreTyped, Zenon DEF Init
<1>6. TypeOK
  <2>1. plugs \in 0..MaxPlugs /\ calls \in 0..MaxCalls
    BY BoundsAreNat DEF Init
  <2>2. ctl \in CtlType /\ user \in UserType
    BY DEF Init, CtlType, UserType, Idle
  <2>3. task \in TaskType BY DEF Init, TaskType
  <2> QED BY <1>3, <1>5, <2>1, <2>2, <2>3, TypesAre DEF Init
<1>7. NoAbuse /\ env \in Environments BY DEF Init, NoAbuse
<1>8. Messages BY MessagesDiffer DEF Init, Messages, NoNews, GoneNews
<1>9. EachIsTold /\ DeviceIs
  BY <1>3, MessagesDiffer DEF Init, EachIsTold, DeviceIs, Listed
<1>10. TaskPlace /\ UserPlace BY <1>3 DEF Init, TaskPlace, UserPlace, Idle
<1> QED BY <1>4, <1>6, <1>7, <1>8, <1>9, <1>10 DEF HidInv

\* A step that changes nothing
LEMMA NothingKeeps == ASSUME HidInv, UNCHANGED vars PROVE HidInv'
<1>1. /\ drv' = drv /\ bus' = bus /\ plugs' = plugs /\ susp' = susp /\ msgs' = msgs /\ ctl' = ctl
      /\ user' = user /\ calls' = calls /\ env' = env /\ dev' = dev /\ task' = task
      /\ iface' = iface /\ crash' = crash
  BY DEF vars
<1>2. TypeOK' /\ Kinds' /\ EachIsTold' /\ Messages' /\ NoAbuse'
  BY <1>1 DEF HidInv, TypeOK, Kinds, EachIsTold, Messages, NoNews, GoneNews, NoAbuse
<1>3. DeviceIs' /\ TaskPlace' /\ UserPlace'
  BY <1>1 DEF HidInv, DeviceIs, TaskPlace, UserPlace, Listed, InList
<1> QED BY <1>1, <1>2, <1>3 DEF HidInv, Tamed

\* Every step keeps the invariant.
LEMMA StepKeeps == ASSUME HidInv, [Next]_vars PROVE HidInv'
<1>1. CASE Task
  BY <1>1, CtlDoneCbKeeps, MessageKeeps, WalkStepKeeps, TaskCallbackKeeps, WalkEndKeeps,
     TaskEndsKeeps, InDoneCbKeeps DEF Task
<1>2. CASE UserGoesOn
  BY <1>2, StartActKeeps, CloseReleaseKeeps, UserCallbackKeeps, AskSubmitKeeps, AskDoneKeeps
  DEF UserGoesOn
<1>3. CASE UserCalls
  BY <1>3, UninstallKeeps, ChecksKeep, StopKeeps, CloseKeeps, OpenKeeps DEF UserCalls
<1>4. CASE Bus
  BY <1>4, PlugKeeps, UnplugKeeps, AnswerKeeps, SuspendKeeps, ResumeKeeps, ReportKeeps DEF Bus
<1>5. CASE UNCHANGED vars BY <1>5, NothingKeeps
<1> QED BY <1>1, <1>2, <1>3, <1>4, <1>5 DEF Next

\* What the invariant says of the properties
LEMMA InvImplies == ASSUME HidInv PROVE Consistent
<1>1. TransferHasOwner /\ ClaimHasDevice
  <2>1. ASSUME NEW i \in Iface, Busy(i) \/ iface[i].claimed
        PROVE  Listed(i) /\ iface[i].claimed /\ dev = "listed" /\ Device(i) = plugs
    <3>1. Used(iface[i]) BY <2>1, Known, UrbIsUsed, KindsDiffer DEF Busy
    <3>2. iface[i].claimed /\ iface[i].st \notin {"free", "WAIT"}
      BY <3>1, Known, KindsDiffer
    <3> QED BY <3>2 DEF HidInv, DeviceIs, Listed
  <2> QED BY <2>1 DEF TransferHasOwner, ClaimHasDevice
<1> QED BY <1>1 DEF HidInv, Consistent

-----------------------------------------------------------------------------

\* hid_host.c uses nothing that it freed, frees no transfer that is under way, calls no
\* callback of an interface that is gone and takes no other request's answer for its own;
\* a transfer always finds its interface, and a device is closed only when nothing of it is
\* claimed: for any number of devices, interfaces and calls.
THEOREM NothingIsLost == Tamed => (Spec => []Consistent)
<1> SUFFICES ASSUME Tamed PROVE Spec => []Consistent
  OBVIOUS
<1>1. Init => HidInv BY InitHolds
<1>2. HidInv /\ [Next]_vars => HidInv' BY StepKeeps
<1>3. HidInv => Consistent BY InvImplies
<1> QED BY <1>1, <1>2, <1>3, PTL DEF Spec

-----------------------------------------------------------------------------
(* An interface that is started listens: ListenInv, which asks less than HidInv      *)

\* The one hazard that is excluded here: the two tasks run at the same time.  Requests may
\* time out, ports be suspended while interfaces wait, devices leave before they were opened.
OneAtATime == \A e \in Environments : "race" \notin e

State    == {"free", "IDLE", "READY", "ACTIVE", "WAIT", "SUSPENDED"}
AnyIface == [st : State, last : State, cb : BOOLEAN, told : Nat, claimed : BOOLEAN,
             urb : InDone \cup {"null", "idle", "flight", "dangling"}, failed : BOOLEAN]

\* A suspension is to be handled; the task walks for one kind of message, and an
\* interface is still to come in its walk.
Suspending  == msgs \in {<<"susp">>, <<"susp", "res">>}
Walks(kind) == task.pc # "idle" /\ task.kind = kind
Left(i)     == task.cur # 0 /\ i >= task.cur

\* An interface that listens, or will when the port is resumed
Live(x) == ~x.failed /\ (x.st = "ACTIVE" \/ (x.st = "SUSPENDED" /\ x.last = "ACTIVE"))
Shut(x) == x.st \in {"free", "WAIT"}

\* What holds of an interface: without a device, and where a disconnection has passed, it
\* is closed; who is to listen has a transfer, under way unless a suspension is at hand;
\* in a walk no transfer waits to be called back that was flushed.
Fit(i, x) ==
    /\ dev = "none" => Shut(x)
    /\ Walks("gone") => Shut(x) \/ Left(i)
    /\ Live(x) => x.urb \notin {"null", "dangling"}
    /\ bus = "present" /\ x.st = "ACTIVE" /\ ~x.failed =>
          x.urb \in {"flight", "doneok", "doneerr"} \/ Suspending \/ (Walks("susp") /\ Left(i))
    /\ bus = "present" /\ task.pc # "idle" /\ x.urb = "doneno" => Suspending

ListenTypes ==
    /\ iface \in [Iface -> AnyIface] /\ task \in TaskType /\ user \in UserType
    /\ msgs \in Seq({"new", "gone", "susp", "res"}) /\ susp \in BOOLEAN /\ "race" \notin env
    /\ plugs \in 0..MaxPlugs
ListenPlaces ==
    /\ bus = "present" => plugs # 0 /\ (Suspending \/ msgs \in {<<>>, <<"res">>, <<"new">>})
    /\ susp => bus = "present" /\ msgs \in {<<>>, <<"susp">>}
    /\ task.pc # "idle" => user.pc \in {"idle", "wait"} /\ dev # "none"
    /\ Walks("gone") => bus # "present"
    /\ user.pc = "start" => dev # "none"
ListenInv == ListenTypes /\ ListenPlaces /\ \A i \in Iface : Fit(i, iface[i])

\* What the operators make of an interface
LEMMA Makes ==
    ASSUME NEW x \in AnyIface
    PROVE  /\ Flushed(x) \in AnyIface /\ Flushed(x).st = x.st /\ Flushed(x).last = x.last
           /\ Flushed(x).failed = x.failed
           /\ Flushed(x).urb = IF x.urb = "flight" THEN "doneno" ELSE x.urb
           /\ Submitted(x) \in AnyIface /\ Submitted(x).st = x.st /\ Submitted(x).last = x.last
           /\ Submitted(x).failed = x.failed
           /\ Submitted(x).urb = IF bus = "present" /\ x.urb = "idle" THEN "flight" ELSE x.urb
BY DEF AnyIface, State, Flushed, Submitted, InDone

LEMMA Shuts ==
    ASSUME NEW x \in AnyIface
    PROVE  /\ Closed(x) \in AnyIface /\ Shut(Closed(x)) /\ Closed(x).urb \in {x.urb, "null"}
           /\ Disabled(x) \in AnyIface /\ Disabled(x).st = "READY"
           /\ Released(x) \in AnyIface /\ Torn(x) \in AnyIface
<1>1. NoIface \in AnyIface /\ NoIface.st = "free" /\ NoIface.urb = "null"
  BY DEF NoIface, AnyIface, State, InDone
<1>2. Closed(x) \in AnyIface /\ Shut(Closed(x)) /\ Closed(x).urb \in {x.urb, "null"}
  BY <1>1 DEF AnyIface, State, Closed, Shut
<1>3. \A z \in AnyIface : [z EXCEPT !.st = "READY"] \in AnyIface /\ Flushed(z) \in AnyIface
  BY Makes DEF AnyIface, State
<1>4. \A z \in AnyIface : Disabled(z) \in AnyIface /\ Disabled(z).st = "READY"
  BY <1>3 DEF AnyIface, Disabled
<1>5. \A z \in AnyIface : Released(z) \in AnyIface /\ Forced(z) \in AnyIface
  BY DEF AnyIface, State, Released, Forced
<1> QED BY <1>2, <1>4, <1>5 DEF Torn

\* Interfaces change that stay fit, and a suspended port may be resumed.
Told == \/ susp' = susp /\ msgs' = msgs
        \/ susp /\ bus = "present" /\ susp' = FALSE /\ msgs' = Append(msgs, "res")

LEMMA AllFit ==
    ASSUME ListenInv, Told, UNCHANGED <<bus, plugs, dev, task, env>>, iface' \in [Iface -> AnyIface],
           \A j \in Iface : iface'[j] = iface[j] \/ Fit(j, iface'[j]), user' \in UserType,
           task.pc # "idle" => user'.pc \in {"idle", "wait"}, user'.pc = "start" => dev # "none"
    PROVE  ListenInv'
<1>1. /\ msgs' \in Seq({"new", "gone", "susp", "res"}) /\ (Suspending => Suspending')
      /\ bus = "present" => Suspending' \/ msgs' \in {<<>>, <<"res">>, <<"new">>}
      /\ susp' \in BOOLEAN /\ (susp' => bus = "present" /\ msgs' \in {<<>>, <<"susp">>})
  <2>1. CASE susp' = susp /\ msgs' = msgs
    BY <2>1 DEF ListenInv, ListenTypes, ListenPlaces, Suspending
  <2>2. CASE susp /\ bus = "present" /\ susp' = FALSE /\ msgs' = Append(msgs, "res")
    <3>1. msgs \in {<<>>, <<"susp">>}
      BY <2>2, Zenon DEF ListenInv, ListenPlaces
    <3>2. msgs' \in {<<"res">>, <<"susp", "res">>} /\ (msgs = <<"susp">> => msgs' = <<"susp", "res">>)
      BY <2>2, <3>1, AppendsAre, Zenon
    <3>3. Suspending => msgs = <<"susp">>
      BY <3>1, MessagesDiffer DEF Suspending
    <3> QED BY <2>2, <3>2, <3>3, MessagesAreTyped, Zenon DEF Suspending
  <2> QED BY <2>1, <2>2 DEF Told
<1>2. \A j \in Iface : Fit(j, iface'[j]) BY DEF ListenInv
<1>3. \A j \in Iface : Fit(j, iface[j])' BY <1>1, <1>2 DEF Fit, Walks, Left
<1>4. ListenPlaces' /\ ListenTypes'
  BY <1>1 DEF ListenInv, ListenPlaces, ListenTypes, Walks
<1> QED BY <1>3, <1>4 DEF ListenInv

\* ... one of them, while the driver's task is idle or goes on where it was
LEMMA OneFits ==
    ASSUME ListenInv, Told, UNCHANGED <<bus, plugs, dev, task, env>>, NEW i, NEW y,
           i \in Iface => y \in AnyIface /\ Fit(i, y),
           iface' = [iface EXCEPT ![i] = y], user' \in UserType,
           task.pc # "idle" => user'.pc \in {"idle", "wait"}, user'.pc = "start" => dev # "none"
    PROVE  ListenInv'
<1>1. iface' \in [Iface -> AnyIface] /\ \A j \in Iface : iface'[j] = IF j = i THEN y ELSE iface[j]
  BY DEF ListenInv, ListenTypes
<1> QED BY <1>1, AllFit

\* What an interface has to be while the driver's task is idle
LEMMA FitsIdle ==
    ASSUME task.pc = "idle", NEW i, NEW y, dev = "none" => Shut(y),
           Live(y) => y.urb \notin {"null", "dangling"},
           bus = "present" /\ y.st = "ACTIVE" /\ ~y.failed =>
              y.urb \in {"flight", "doneok", "doneerr"} \/ Suspending
    PROVE  Fit(i, y)
BY DEF Fit, Walks

LEMMA InDoneCbListens == ASSUME ListenInv, NEW i \in Iface, InDoneCb(i) PROVE ListenInv'
<1>1. PICK x \in AnyIface : x = [iface[i] EXCEPT !.urb = "idle"]
  BY DEF ListenInv, ListenTypes, AnyIface, State
<1>2. x.st = iface[i].st /\ x.last = iface[i].last /\ x.failed = iface[i].failed /\ x.urb = "idle"
  BY <1>1 DEF ListenInv, ListenTypes, AnyIface
<1>3. /\ task.pc = "idle" /\ iface[i].urb \in InDone /\ UNCHANGED <<bus, plugs, dev, task, user, env>>
      /\ user \in UserType /\ (user.pc = "start" => dev # "none")
  BY Zenon DEF InDoneCb, ListenInv, ListenTypes, ListenPlaces
<1>4. /\ dev = "none" => Shut(x)
      /\ bus = "present" /\ x.st = "ACTIVE" /\ ~x.failed /\ iface[i].urb = "doneno" => Suspending
  BY <1>2, <1>3 DEF ListenInv, Fit, Walks, Shut
<1>5. CASE iface[i].urb = "doneok"
  <2>1. iface' = [iface EXCEPT ![i] = Submitted(x)] /\ Told
    BY <1>1, <1>5, Zenon DEF InDoneCb, Told, Resumes
  <2>2. Submitted(x) \in AnyIface /\ Fit(i, Submitted(x))
    BY <1>2, <1>3, <1>4, Makes, FitsIdle DEF Shut, Live
  <2> QED BY <1>3, <2>1, <2>2, OneFits
<1>6. CASE iface[i].urb = "doneerr"
  <2>1. PICK y \in AnyIface : y = [x EXCEPT !.failed = TRUE] BY DEF AnyIface
  <2>2. iface' = [iface EXCEPT ![i] = y] /\ Told
    BY <1>1, <1>6, <2>1 DEF InDoneCb, Told
  <2>3. y.failed /\ y.st = x.st BY <2>1 DEF AnyIface
  <2>4. Fit(i, y) BY <1>3, <1>4, <2>3, FitsIdle DEF Shut, Live
  <2> QED BY <1>3, <2>2, <2>4, OneFits
<1>7. CASE iface[i].urb = "doneno"
  <2>1. iface' = [iface EXCEPT ![i] = x] /\ Told
    BY <1>1, <1>7 DEF InDoneCb, Told
  <2>2. Fit(i, x) BY <1>2, <1>3, <1>4, <1>7, FitsIdle DEF Live
  <2> QED BY <1>3, <2>1, <2>2, OneFits
<1> QED BY <1>3, <1>5, <1>6, <1>7 DEF InDone

\* A call begins while the driver's task is idle.
LEMMA CallListens ==
    ASSUME ListenInv, Call, UNCHANGED world
    PROVE  /\ task.pc = "idle" /\ user.pc = "idle" /\ Told /\ UNCHANGED <<bus, plugs, dev, env>>
           /\ \A i \in Iface : /\ dev = "none" => Shut(iface[i])
                               /\ Live(iface[i]) => iface[i].urb \notin {"null", "dangling"}
BY Zenon DEF ListenInv, ListenTypes, Fit, Call, world, Told

LEMMA OpenListens ==
    ASSUME ListenInv, NEW i \in Iface, NEW memory \in BOOLEAN, Open(i, memory)
    PROVE  ListenInv'
<1>1. PICK x \in AnyIface : x = [iface[i] EXCEPT !.claimed = TRUE]
  BY DEF ListenInv, ListenTypes, AnyIface
<1>2. PICK z \in AnyIface :
        z = [iface[i] EXCEPT !.claimed = TRUE, !.urb = "idle", !.st = "READY", !.cb = TRUE]
  BY DEF ListenInv, ListenTypes, AnyIface, State
<1>3. x.st = iface[i].st /\ x.last = iface[i].last /\ x.failed = iface[i].failed /\ z.st = "READY"
  BY <1>1, <1>2 DEF ListenInv, ListenTypes, AnyIface
<1>4. iface' = [iface EXCEPT ![i] = z] \/ iface' = [iface EXCEPT ![i] = x]
  BY <1>1, <1>2 DEF Open
<1>5. iface[i].st = "IDLE" /\ Call /\ UNCHANGED <<world, task, user>>
  BY Zenon DEF Open
<1>6. Fit(i, x) /\ Fit(i, z)
  BY <1>3, <1>5, CallListens, FitsIdle DEF Shut, Live
<1> QED BY <1>4, <1>5, <1>6, CallListens, OneFits DEF ListenInv, ListenTypes

LEMMA StopListens == ASSUME ListenInv, NEW i \in Iface, Stop(i) PROVE ListenInv'
<1>1. PICK x \in AnyIface : x = iface[i] BY DEF ListenInv, ListenTypes
<1>2. PICK y \in AnyIface : y = [x EXCEPT !.last = "READY"]
  BY DEF AnyIface, State
<1>3. y.st = x.st /\ y.last = "READY" BY <1>2 DEF AnyIface
<1>4. /\ x.st \in {"ACTIVE", "SUSPENDED"} /\ Call /\ UNCHANGED <<world, task, user>>
      /\ iface' = [iface EXCEPT ![i] = IF x.st = "SUSPENDED" THEN y ELSE Disabled(x)]
  BY <1>1, <1>2 DEF Stop
<1>5. x.st = "SUSPENDED" => Fit(i, y)
  BY <1>1, <1>3, <1>4, CallListens, FitsIdle DEF Shut, Live
<1>6. Fit(i, Disabled(x)) /\ Disabled(x) \in AnyIface
  BY <1>1, <1>4, CallListens, FitsIdle, Shuts DEF Shut, Live
<1> QED BY <1>4, <1>5, <1>6, CallListens, OneFits DEF ListenInv, ListenTypes

\* A closed interface fits wherever its transfer is called back.
LEMMA ClosedFits ==
    ASSUME NEW i, NEW x \in AnyIface, task.pc # "idle" /\ bus = "present" /\ x.urb = "doneno" => Suspending
    PROVE  Fit(i, Closed(x)) /\ Closed(x) \in AnyIface
BY Shuts DEF Fit, Shut, Live

\* The callbacks of the application
LEMMA CallbackListens ==
    ASSUME ListenInv, NEW i, iface' = Callback(i)
    PROVE  /\ iface' \in [Iface -> AnyIface]
           /\ \A j \in Iface : Fit(j, iface'[j]) /\ (Shut(iface[j]) => Shut(iface'[j]))
<1>1. \A j \in Iface : Fit(j, iface[j]) /\ iface[j] \in AnyIface
  BY DEF ListenInv, ListenTypes
<1>2. CASE "later" \in env
  <2>1. iface' = [iface EXCEPT ![i].told = @ + 1] BY <1>2 DEF Callback
  <2>2. \A x \in AnyIface : LET y == [x EXCEPT !.told = @ + 1] IN y \in AnyIface
           /\ y.st = x.st /\ y.last = x.last /\ y.urb = x.urb /\ y.failed = x.failed
    BY DEF AnyIface
  <2>3. /\ DOMAIN iface' = Iface /\ iface' = [j \in Iface |-> iface'[j]]
        /\ \A j \in Iface : iface'[j] = IF j = i THEN [iface[j] EXCEPT !.told = @ + 1] ELSE iface[j]
    BY <2>1 DEF ListenInv, ListenTypes
  <2>4. \A j \in Iface : LET x == iface[j] y == iface'[j] IN y \in AnyIface
           /\ y.st = x.st /\ y.last = x.last /\ y.urb = x.urb /\ y.failed = x.failed
    <3> SUFFICES ASSUME NEW j \in Iface
                 PROVE  LET x == iface[j] y == iface'[j] IN y \in AnyIface
                     /\ y.st = x.st /\ y.last = x.last /\ y.urb = x.urb /\ y.failed = x.failed
      OBVIOUS
    <3>1. PICK x \in AnyIface : x = iface[j] BY <1>1
    <3>2. PICK y \in AnyIface : y = [x EXCEPT !.told = @ + 1] BY <2>2
    <3>3. iface'[j] = y \/ iface'[j] = x BY <2>3, <3>1, <3>2, Zenon
    <3> QED BY <2>2, <3>1, <3>2, <3>3
  <2> QED BY <1>1, <2>3, <2>4 DEF Fit, Shut, Live
<1>3. CASE "later" \notin env
  <2>1. iface' = [iface EXCEPT ![i] = Closed(iface[i])] BY <1>3 DEF Callback
  <2>2. \A j \in Iface : Fit(j, Closed(iface[j])) /\ Closed(iface[j]) \in AnyIface /\ Shut(Closed(iface[j]))
    BY <1>1, ClosedFits, Shuts DEF Fit
  <2> QED BY <1>1, <2>1, <2>2 DEF ListenInv, ListenTypes
<1> QED BY <1>2, <1>3

LEMMA CloseListens == ASSUME ListenInv, NEW i \in Iface, Close(i) PROVE ListenInv'
<1>1. PICK x \in AnyIface : x = iface[i] BY DEF ListenInv, ListenTypes
<1>2. Call /\ UNCHANGED <<world, task>> /\ x.st # "free"
  BY <1>1, Zenon DEF Close, Listed
<1>3. user' \in UserType /\ user'.pc # "start" BY DEF Close, UserType, Idle
<1>4. CASE x.st \in {"ACTIVE", "SUSPENDED", "READY"}
  <2>1. iface' = [iface EXCEPT ![i] = Disabled(x)] BY <1>1, <1>4 DEF Close
  <2>2. Fit(i, Disabled(x)) /\ Disabled(x) \in AnyIface
    BY <1>1, <1>2, <1>4, CallListens, FitsIdle, Shuts DEF Shut, Live
  <2> QED BY <1>2, <1>3, <2>1, <2>2, CallListens, OneFits
<1>5. CASE x.st \notin {"ACTIVE", "SUSPENDED", "READY"}
  <2>1. iface' = [iface EXCEPT ![i] = Closed(x)] BY <1>1, <1>5 DEF Close
  <2>2. Fit(i, Closed(x)) /\ Closed(x) \in AnyIface
    BY <1>2, CallListens, ClosedFits
  <2> QED BY <1>2, <1>3, <2>1, <2>2, CallListens, OneFits
<1> QED BY <1>4, <1>5

\* The application's task goes on.
LEMMA GoesOnListens ==
    ASSUME ListenInv, CloseRelease \/ UserCallback \/ AskSubmit \/ AskDone
    PROVE  ListenInv'
<1>1. /\ UNCHANGED <<bus, plugs, dev, task, env>> /\ Told /\ user' \in UserType
      /\ user.pc # "wait" => task.pc = "idle"
      /\ user'.pc \in {"idle", "cb", "wait"} /\ (user.pc = "wait" => user'.pc = "idle")
  <2>1. /\ UNCHANGED <<bus, plugs, dev, task, env>> /\ Told /\ user.pc \in {"release", "cb", "ask", "wait"}
    BY Zenon DEF CloseRelease, UserCallback, AskSubmit, AskDone, InCall, world, Told
  <2>2. /\ user' \in UserType /\ user'.pc \in {"idle", "cb", "wait"}
        /\ user.pc = "wait" => user'.pc = "idle"
    <3>1. \/ user' = Idle
          \/ user' = [user EXCEPT !.pc = "cb"] /\ user.pc = "release"
          \/ user' = [user EXCEPT !.pc = "wait"] /\ user.pc = "ask"
      BY Zenon DEF CloseRelease, UserCallback, AskSubmit, AskDone
    <3> QED BY <3>1 DEF UserType, Idle, ListenInv, ListenTypes
  <2> QED BY <2>1, <2>2 DEF ListenInv, ListenPlaces
<1>2. CASE CloseRelease
  <2>1. CASE MayRelease(iface[user.i])
    <3>1. iface' = [iface EXCEPT ![user.i] = Closed(Released(iface[user.i]))] /\ task.pc = "idle"
      BY <1>1, <1>2, <2>1 DEF CloseRelease
    <3>2. \A j \in Iface : LET y == Closed(Released(iface[j])) IN y \in AnyIface /\ Fit(j, y)
      BY <3>1, Shuts, ClosedFits DEF ListenInv, ListenTypes
    <3> QED BY <1>1, <3>1, <3>2, OneFits
  <2>2. CASE ~MayRelease(iface[user.i])
    <3>1. iface' = iface BY <1>2, <2>2 DEF CloseRelease
    <3> QED BY <1>1, <3>1, AllFit DEF ListenInv, ListenTypes
  <2> QED BY <2>1, <2>2
<1>3. CASE UserCallback
  <2>1. iface' = Callback(user.i) /\ task.pc = "idle"
    BY <1>1, <1>3 DEF UserCallback
  <2> QED BY <1>1, <2>1, CallbackListens, AllFit
<1>4. CASE AskSubmit \/ AskDone
  <2>1. iface' = iface BY <1>4 DEF AskSubmit, AskDone
  <2> QED BY <1>1, <2>1, AllFit DEF ListenInv, ListenTypes
<1> QED BY <1>2, <1>3, <1>4

LEMMA StartActListens == ASSUME ListenInv, StartAct PROVE ListenInv'
<1> DEFINE i == user.i
           x == [iface[i] EXCEPT !.st = "ACTIVE", !.failed = iface[i].urb # "idle" \/ bus # "present"]
<1>1. /\ UNCHANGED <<bus, plugs, dev, task, env>> /\ task.pc = "idle" /\ dev # "none"
      /\ user' \in UserType /\ user'.pc = "idle"
  <2>1. UNCHANGED <<bus, plugs, dev, task, env>> /\ user.pc = "start" /\ user' = Idle
    BY Zenon DEF StartAct, InCall
  <2> QED BY <2>1 DEF Idle, UserType, ListenInv, ListenPlaces
<1>2. Told /\ iface' = [iface EXCEPT ![i] = IF Listed(i) THEN Submitted(x) ELSE @]
  BY Zenon DEF StartAct, Told, Resumes
<1>3. i \in Iface => /\ x \in AnyIface /\ x.st = "ACTIVE" /\ x.urb = iface[i].urb
                     /\ x.failed <=> x.urb # "idle" \/ bus # "present"
  BY DEF ListenInv, ListenTypes, AnyIface, State
<1> HIDE DEF x, i
<1>4. i \in Iface => Submitted(x) \in AnyIface /\ Fit(i, Submitted(x))
  BY <1>1, <1>3, Makes, FitsIdle DEF Live
<1>5. PICK y : y = IF Listed(i) THEN Submitted(x) ELSE iface[i] OBVIOUS
<1>6. iface' = [iface EXCEPT ![i] = y] /\ (i \in Iface => y \in AnyIface /\ Fit(i, y))
  BY <1>2, <1>4, <1>5 DEF ListenInv, ListenTypes
<1> QED BY <1>1, <1>2, <1>6, OneFits

\* The device, the port, and calls that change no interface
LEMMA BusListens ==
    ASSUME ListenInv, Plug \/ Unplug \/ Suspend \/ Resume \/ \E i \in Iface : Report(i)
    PROVE  ListenInv'
<1>1. UNCHANGED <<dev, task, user, env>>
  BY Zenon DEF Plug, Unplug, Suspend, Resume, Report, Calm
<1>2. CASE Plug
  <2>1. /\ bus' = "present" /\ msgs' = <<"new">> /\ UNCHANGED <<iface, susp>> /\ ~susp
        /\ task.pc = "idle" /\ dev = "none" /\ plugs < MaxPlugs /\ plugs' = plugs + 1
    BY <1>2 DEF Plug, ListenInv, ListenPlaces, ListenTypes
  <2>2. \A i \in Iface : Fit(i, iface[i])'
    BY <1>1, <2>1 DEF ListenInv, Fit, Shut, Walks
  <2>3. plugs' \in 0..MaxPlugs /\ plugs' # 0
    BY <2>1, BoundsAreNat DEF ListenInv, ListenTypes
  <2> QED BY <1>1, <2>1, <2>2, <2>3, MessagesAreTyped DEF ListenInv, ListenPlaces, ListenTypes, Walks
<1>3. GivenBack \in [Iface -> AnyIface] /\ \A i \in Iface : GivenBack[i] = Flushed(iface[i])
  BY Makes DEF GivenBack, ListenInv, ListenTypes
<1>4. CASE Unplug
  <2>1. /\ bus' = "gone" /\ plugs' = plugs /\ susp' = FALSE /\ iface' = GivenBack
        /\ msgs' = Append(msgs, "gone") \/ msgs' = msgs
    BY <1>4 DEF Unplug
  <2>2. \A i \in Iface : Fit(i, iface[i])'
    BY <1>1, <1>3, <2>1, Makes DEF ListenInv, ListenTypes, Fit, Shut, Live, Walks, Left
  <2>3. msgs' \in Seq({"new", "gone", "susp", "res"})
    BY <2>1 DEF ListenInv, ListenTypes
  <2> QED BY <1>1, <1>3, <2>1, <2>2, <2>3 DEF ListenInv, ListenPlaces, ListenTypes, Walks
<1>5. CASE Suspend
  <2>1. /\ UNCHANGED <<bus, plugs>> /\ bus = "present" /\ susp' /\ msgs' = <<"susp">>
        /\ iface' = GivenBack /\ susp' \in BOOLEAN
    BY <1>5, AppendsAre DEF Suspend
  <2>2. \A i \in Iface : Fit(i, iface[i])'
    BY <1>1, <1>3, <2>1, Makes DEF ListenInv, ListenTypes, Fit, Shut, Live, Walks, Left, Suspending
  <2> QED BY <1>1, <1>3, <2>1, <2>2, MessagesAreTyped
          DEF ListenInv, ListenPlaces, ListenTypes, Walks, Suspending
<1>6. CASE Resume
  <2>1. Told /\ UNCHANGED <<bus, plugs, iface>>
    BY <1>6 DEF Resume, Told, ListenInv, ListenPlaces
  <2> QED BY <1>1, <2>1, AllFit DEF ListenInv, ListenTypes, ListenPlaces
<1>7. CASE \E i \in Iface : Report(i)
  <2>1. PICK i \in Iface, u \in {"doneok", "doneerr"} :
           UNCHANGED <<bus, plugs, susp, msgs>> /\ iface[i].urb = "flight" /\ iface' = [iface EXCEPT ![i].urb = u]
    BY <1>7 DEF Report
  <2>2. PICK x \in AnyIface : x = [iface[i] EXCEPT !.urb = u]
    BY DEF ListenInv, ListenTypes, AnyIface, InDone
  <2>3. x.st = iface[i].st /\ x.last = iface[i].last /\ x.failed = iface[i].failed /\ x.urb = u
    BY <2>2 DEF ListenInv, ListenTypes, AnyIface
  <2>4. Fit(i, x) BY <2>1, <2>3 DEF ListenInv, Fit, Shut, Live
  <2>5. iface' = [iface EXCEPT ![i] = x] BY <2>1, <2>2
  <2> QED BY <1>1, <2>1, <2>4, <2>5, OneFits DEF Told, ListenInv, ListenTypes, ListenPlaces
<1> QED BY <1>2, <1>4, <1>5, <1>6, <1>7

LEMMA RestListens ==
    ASSUME ListenInv,
           \/ CtlDoneCb \/ TaskEnds \/ Uninstall \/ Answer \/ UNCHANGED vars
           \/ \E i \in Iface : StartCheck(i) \/ AskCheck(i)
    PROVE  ListenInv'
<1>1. UNCHANGED <<bus, plugs, dev, task, env, iface>> /\ Told
  BY Zenon DEF CtlDoneCb, TaskEnds, Uninstall, Answer, StartCheck, AskCheck, Call, Calm, world, vars, Told
<1>2. /\ user' \in UserType /\ (user'.pc = "start" => dev # "none")
      /\ task.pc # "idle" => user'.pc \in {"idle", "wait"}
  <2>1. CASE user' = user BY <2>1 DEF ListenInv, ListenTypes, ListenPlaces
  <2>2. CASE \E i \in Iface : StartCheck(i) \/ AskCheck(i)
    <3>1. PICK i \in Iface : StartCheck(i) \/ AskCheck(i) BY <2>2
    <3>2. Call /\ \/ user' = [pc |-> "ask", i |-> i]
                  \/ user' = [pc |-> "start", i |-> i] /\ iface[i].st \in {"READY", "SUSPENDED"}
      BY <3>1, Zenon DEF StartCheck, AskCheck
    <3>3. user' \in UserType /\ (user'.pc = "start" => ~Shut(iface[i]))
      BY <3>2 DEF UserType, Shut
    <3> QED BY <3>2, <3>3 DEF Call, ListenInv, ListenTypes, Fit
  <2>3. user' = user \/ \E i \in Iface : StartCheck(i) \/ AskCheck(i)
    BY Zenon DEF CtlDoneCb, TaskEnds, Uninstall, Answer, Call, Calm, vars
  <2> QED BY <2>1, <2>2, <2>3
<1> QED BY <1>1, <1>2, AllFit DEF ListenInv, ListenTypes

\* The driver's task: the callback of a walk, and its end
LEMMA TaskCallbackListens == ASSUME ListenInv, TaskCallback PROVE ListenInv'
<1>1. /\ UNCHANGED <<bus, plugs, dev, msgs, susp, user, env>> /\ task.pc = "cb" /\ iface' = Callback(task.i)
      /\ task' = [task EXCEPT !.pc = "walk", !.i = 0]
  BY Zenon DEF TaskCallback
<1>2. /\ task' \in TaskType /\ task'.pc = "walk" /\ task'.kind = task.kind /\ task'.cur = task.cur
  BY <1>1 DEF ListenInv, ListenTypes, TaskType
<1>3. \A i \in Iface : Fit(i, iface[i])'
  BY <1>1, <1>2, CallbackListens DEF Fit, Walks, Left, Suspending
<1> QED BY <1>1, <1>2, <1>3, CallbackListens DEF ListenInv, ListenTypes, ListenPlaces, Walks, Suspending

LEMMA WalkEndListens == ASSUME ListenInv, WalkEnd PROVE ListenInv'
<1>1. /\ UNCHANGED <<bus, plugs, msgs, susp, iface, user, env>> /\ task.pc = "walk" /\ task.cur = 0
      /\ task' = [task EXCEPT !.pc = "idle", !.kind = "none"]
      /\ task.kind = "gone" \/ dev' = dev
  BY Zenon DEF WalkEnd
<1>2. task' \in TaskType /\ task'.pc = "idle"
  BY <1>1 DEF ListenInv, ListenTypes, TaskType
<1>3. \A i \in Iface : Fit(i, iface[i])'
  BY <1>1, <1>2 DEF ListenInv, Fit, Walks, Left, Suspending
<1>4. user.pc # "start" \/ dev' = dev BY <1>1 DEF ListenInv, ListenPlaces
<1> QED BY <1>1, <1>2, <1>3, <1>4 DEF ListenInv, ListenTypes, ListenPlaces, Walks, Suspending

\* A message begins a walk, or makes interfaces of a new device.
LEMMA MessageListens == ASSUME ListenInv, Message PROVE ListenInv'
<1>1. /\ UNCHANGED <<bus, plugs, susp, user, env>> /\ task.pc = "idle" /\ user.pc \in {"idle", "wait"}
      /\ msgs # <<>> /\ msgs' = Tail(msgs) /\ \A i \in Iface : iface[i].urb \notin InDone
  BY Zenon DEF Message, Yields, ListenInv, ListenTypes
<1>2. Head(msgs) \in {"new", "gone", "susp", "res"} /\ msgs' \in Seq({"new", "gone", "susp", "res"})
  BY <1>1 DEF ListenInv, ListenTypes
<1>3. bus = "present" => /\ Head(msgs) # "gone" /\ (Suspending <=> Head(msgs) = "susp")
                         /\ msgs' \in {<<>>, <<"res">>}
  <2>1. bus = "present" => Suspending \/ msgs = <<"res">> \/ msgs = <<"new">>
    BY <1>1 DEF ListenInv, ListenPlaces
  <2> QED BY <1>1, <2>1, HeadsAre, TailsAre, MessagesDiffer DEF Suspending
<1>4. susp' => bus = "present" /\ msgs' = <<>>
  BY <1>1, TailsAre DEF ListenInv, ListenPlaces
<1>5. \A i \in Iface : Fit(i, iface[i]) /\ (Listed(i) => FirstFrom(1) # 0 /\ i >= FirstFrom(1))
  BY FirstIs, IfacesAreNumbers DEF ListenInv
<1>6. /\ task' \in TaskType /\ iface' \in [Iface -> AnyIface]
      /\ task'.pc # "idle" => dev' # "none" /\ task'.kind = Head(msgs)
      /\ dev' # "none" \/ dev' = dev
      /\ \A i \in Iface : Fit(i, iface[i])'
  <2>1. CASE Head(msgs) = "new" /\ bus = "present"
    <3> DEFINE found == {i \in Iface : Device(i) = plugs}
    <3>1. /\ dev' = "listed" /\ iface' = [i \in Iface |-> IF i \in found THEN NewIface ELSE iface[i]]
          /\ Walk("new", Min(InList \cup found))
      BY <2>1, Zenon DEF Message, InitAttempt
    <3>2. NewIface \in AnyIface /\ NewIface.st = "IDLE" /\ NewIface.urb = "null"
      BY DEF NewIface, NoIface, AnyIface, State, InDone
    <3>3. /\ iface' \in [Iface -> AnyIface]
          /\ \A i \in Iface : iface'[i] = NewIface \/ iface'[i] = iface[i]
      BY <3>1, <3>2 DEF ListenInv, ListenTypes
    <3>4. Min(InList \cup found) \in Iface \cup {0}
      <4>1. PICK i \in Iface : i \in found
        BY <2>1, DeviceHasSome, BoundsAreNat DEF ListenInv, ListenTypes, ListenPlaces
      <4>2. InList \cup found \subseteq Iface /\ InList \cup found # {}
        BY <4>1 DEF InList
      <4> QED BY <4>2, MinIsLeast, IfacesAreNumbers
    <3>5. task' \in TaskType /\ task'.pc = "walk" /\ task'.kind = "new"
      BY <3>1, <3>4 DEF Walk, TaskType
    <3>6. \A i \in Iface : Fit(i, iface[i])'
      BY <1>1, <1>3, <1>5, <2>1, <3>1, <3>2, <3>3, <3>5 DEF Fit, Walks, Shut, Live, InDone
    <3> QED BY <2>1, <3>1, <3>3, <3>5, <3>6
  <2>2. CASE UNCHANGED <<iface, dev, task>> /\ (bus = "present" => dev = "none")
    <3>1. \A i \in Iface : Fit(i, iface[i])'
      BY <1>1, <1>5, <2>2 DEF Fit, Walks, Shut
    <3> QED BY <1>1, <2>2, <3>1 DEF ListenInv, ListenTypes
  <2>3. CASE UNCHANGED <<iface, dev>> /\ dev # "none" /\ Walk(Head(msgs), FirstFrom(1)) /\ Head(msgs) # "new"
    <3>1. /\ task' \in TaskType /\ task'.pc = "walk" /\ task'.kind = Head(msgs) /\ task'.cur = FirstFrom(1)
      BY <1>2, <2>3, FirstIs DEF Walk, TaskType
    <3>2. \A i \in Iface : Shut(iface[i]) \/ Left(i)'
      BY <1>5, <3>1 DEF Left, Shut, Listed
    <3>3. \A i \in Iface : Fit(i, iface[i])'
      BY <1>1, <1>3, <1>5, <2>3, <3>1, <3>2 DEF Fit, Walks, Shut, InDone
    <3> QED BY <2>3, <3>1, <3>3 DEF ListenInv, ListenTypes
  <2> QED BY <2>1, <2>2, <2>3, Zenon DEF Message, InitAttempt
<1> QED BY <1>1, <1>2, <1>3, <1>4, <1>6 DEF ListenInv, ListenTypes, ListenPlaces, Walks

LEMMA WalkStepListens == ASSUME ListenInv, WalkStep PROVE ListenInv'
<1>1. /\ UNCHANGED <<bus, plugs, dev, msgs, susp, user, env>> /\ task.pc = "walk" /\ task.cur # 0
      /\ dev # "none" /\ user.pc \in {"idle", "wait"}
  BY Zenon DEF WalkStep, ListenInv, ListenPlaces
<1>2. PICK i \in Iface : i = task.cur /\ i \in Nat /\ iface[i] \in AnyIface
  BY <1>1, IfacesAreNumbers DEF ListenInv, ListenTypes, TaskType
<1>3. PICK next \in Iface \cup {0} :
        next = FirstFrom(i + 1) /\ \A j \in Iface : j >= i + 1 /\ Listed(j) => next # 0 /\ j >= next
  <2>1. i + 1 \in Nat BY <1>2
  <2> QED BY <2>1, FirstIs
<1>4. \A j \in Iface \ {i} : Left(j) /\ Listed(j) => next # 0 /\ j >= next
  BY <1>2, <1>3, IfacesAreNumbers DEF Left
<1>5. PICK x \in AnyIface : x = iface[i] BY <1>2
<1>6. PICK y : y = IF task.kind = "gone" THEN Closed(Torn(x)) ELSE Follows(task.kind, x)
  OBVIOUS
<1>7. iface' = [iface EXCEPT ![i] = y]
  BY <1>2, <1>5, <1>6, Zenon DEF WalkStep
<1>8. task' \in TaskType /\ task'.pc # "idle" /\ task'.kind = task.kind /\ task'.cur = next
  <2>1. task' \in {[task EXCEPT !.cur = next], [[task EXCEPT !.cur = next] EXCEPT !.pc = "cb", !.i = i]}
    BY <1>2, <1>3, Zenon DEF WalkStep
  <2> QED BY <1>1, <1>2, <1>3, <2>1 DEF ListenInv, ListenTypes, TaskType
<1>9. Fit(i, x) /\ \A j \in Iface : Fit(j, iface[j])
  BY <1>2, <1>5 DEF ListenInv
<1>10. y \in AnyIface /\ Fit(i, y)'
  <2>1. CASE task.kind = "gone"
    <3>1. y \in AnyIface /\ Shut(y) BY <1>6, <2>1, Shuts
    <3>2. bus # "present" BY <1>1, <2>1 DEF ListenInv, ListenPlaces, Walks
    <3> QED BY <1>1, <3>1, <3>2 DEF Fit, Shut, Live
  <2>2. CASE task.kind = "susp"
    <3>1. y = Suspended(x) BY <1>6, <2>2 DEF Follows
    <3>2. /\ y \in AnyIface /\ y.st = "SUSPENDED" /\ y.urb = x.urb /\ y.failed = x.failed
          /\ y.last = IF x.st = "SUSPENDED" THEN x.last ELSE x.st
      BY <3>1 DEF Suspended, AnyIface, State
    <3> QED BY <1>1, <1>8, <1>9, <2>2, <3>2 DEF Fit, Live, Walks, Suspending
  <2>3. CASE task.kind = "res" /\ x.st = "SUSPENDED"
    <3>1. PICK b \in AnyIface : b = [x EXCEPT !.st = x.last] BY DEF AnyIface
    <3>2. b.st = x.last /\ b.urb = x.urb /\ b.failed = x.failed /\ b.last = x.last
      BY <3>1 DEF AnyIface
    <3>3. y = IF x.last = "ACTIVE" THEN Submitted(b) ELSE b
      BY <1>6, <2>3, <3>1 DEF Follows, Resumed
    <3>4. /\ y \in AnyIface /\ y.st = x.last /\ y.last = x.last /\ y.failed = x.failed
          /\ y.urb = IF x.last = "ACTIVE" /\ bus = "present" /\ x.urb = "idle" THEN "flight" ELSE x.urb
      BY <3>2, <3>3, Makes
    <3>5. x.urb \in InDone \cup {"null", "idle", "flight", "dangling"}
      BY DEF AnyIface
    <3> QED BY <1>1, <1>8, <1>9, <2>3, <3>4, <3>5 DEF Fit, Live, Walks, Suspending, InDone
  <2>4. CASE task.kind \notin {"gone", "susp"} /\ ~(task.kind = "res" /\ x.st = "SUSPENDED")
    <3>1. y = x BY <1>6, <2>4 DEF Follows, Resumed
    <3> QED BY <1>1, <1>8, <1>9, <2>4, <3>1 DEF Fit, Walks, Suspending
  <2> QED BY <2>1, <2>2, <2>3, <2>4
<1>11. \A j \in Iface \ {i} : Fit(j, iface[j])'
  <2>1. \A j \in Iface \ {i} : iface'[j] = iface[j] /\ (Left(j) => Left(j)' \/ iface[j].st = "free")
    BY <1>4, <1>7, <1>8 DEF Left, Listed, ListenInv, ListenTypes
  <2> QED BY <1>1, <1>8, <1>9, <2>1 DEF Fit, Shut, Walks, Suspending
<1>12. iface' \in [Iface -> AnyIface] /\ iface'[i] = y
  BY <1>2, <1>7, <1>10 DEF ListenInv, ListenTypes
<1>13. \A j \in Iface : Fit(j, iface[j])' BY <1>10, <1>11, <1>12 DEF Fit
<1> QED BY <1>1, <1>8, <1>12, <1>13 DEF ListenInv, ListenTypes, ListenPlaces, Walks, Suspending

LEMMA ListenInits == ASSUME OneAtATime, Init PROVE ListenInv
<1>1. NoIface \in AnyIface /\ NoIface.st = "free"
  BY DEF NoIface, AnyIface, State, InDone
<1>2. \A i \in Iface : Fit(i, iface[i])
  BY <1>1 DEF Init, Fit, Shut, Live, Walks
<1>3. iface \in [Iface -> AnyIface] /\ task \in TaskType /\ user \in UserType
  BY <1>1 DEF Init, TaskType, UserType, Idle
<1>4. ListenTypes /\ ListenPlaces
  <2>1. "race" \notin env /\ plugs \in 0..MaxPlugs /\ msgs \in Seq({"new", "gone", "susp", "res"})
    BY BoundsAreNat DEF OneAtATime, Init
  <2> QED BY <1>3, <2>1 DEF Init, ListenTypes, ListenPlaces, Idle, Walks
<1> QED BY <1>2, <1>4 DEF ListenInv

LEMMA ListenSteps == ASSUME ListenInv, [Next]_vars PROVE ListenInv'
BY InDoneCbListens, OpenListens, StopListens, CloseListens, GoesOnListens, StartActListens, BusListens,
   RestListens, TaskCallbackListens, WalkEndListens, MessageListens, WalkStepListens, Zenon
   DEF Next, Task, UserGoesOn, UserCalls, Bus

LEMMA ListenImplies == ASSUME ListenInv PROVE KeepsListening
BY MessagesDiffer DEF ListenInv, Fit, Suspending, KeepsListening, Busy, Walks, InDone

\* in_xfer_done(), hid_host_device_start() and hid_host_resume_interface() keep a started
\* interface listening: in every environment in which one task runs at a time, the wild ones
\* included.  (With "race" and "suspend", TLC finds an interface that went deaf.)
THEOREM StartedInterfacesListen == OneAtATime => (Spec => []KeepsListening)
<1>1. OneAtATime /\ Init => ListenInv BY ListenInits
<1>2. ListenInv /\ [Next]_vars => ListenInv' BY ListenSteps
<1>3. ListenInv => KeepsListening BY ListenImplies
<1> QED BY <1>1, <1>2, <1>3, PTL DEF Spec
===============================================================================
