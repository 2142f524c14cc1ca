------------------------------ MODULE Uac_proof ------------------------------
(***************************************************************************)
(* The UAC host driver keeps its count of interfaces, the handle of the    *)
(* USB device, its two lists of transfers and the volume that it remembers *)
(* consistent, and an active stream streams: proved for any number of      *)
(* transfers, sizes of the ring buffer, calls and disconnections, for      *)
(* devices that are read well, in environments without the hazards that    *)
(* the driver does not survive.                                            *)
(*                                                                         *)
(* UacInv says what an interface can be at all (IfcsAre), what each of the *)
(* tasks may rely on where it is (UserPlace, ClientPlace, AuxPlace), where *)
(* the control transfer is (CtlPlace), who has the handle of the USB       *)
(* device (Handle), what messages there can be (Messages), where the       *)
(* transfers of the streams are (Streaming), and what is known of the      *)
(* volume and its range (VolumeKnown, RangeKnown).                         *)
(***************************************************************************)
EXTENDS Uac, FiniteSetTheorems, TLAPS

-----------------------------------------------------------------------------
(* The inductive invariant *)

Held(i)    == ifc[i].st # "free"
Leaving(i) == user.pc = "delay" /\ user.i = i
Ready      == [list |-> "free", urb |-> "idle"]
Halts      == {"suspend", "stop", "close"}
Asks       == {"setvol", "getvol", "setdb", "other"}
Waiting    == {"ctl", "act"}
Running    == {"flight", "doneok", "doneerr"}
AllIdle    == phys.ctl.urb = "idle" /\ \A i \in Ifc : \A k \in Xfer : ifc[i].x[k].urb = "idle"
GoneNews   == \E n \in 1 .. Len(msgs) : msgs[n] = "gone"
Walking    == client.pc \in {"lock", "cb"} \/ client.cur # 0

\* What uac_iface_t can be
IfcIs(i, x) ==
    /\ x.st = "free" => x = NoIfc
    /\ x.st \in {"free", "NOT_INIT", "IDLE"} => \A k \in Xfer : x.x[k] = NoXfer
    /\ Claimed(x) => \A k \in Xfer : x.x[k].list # "none"
    /\ x.st = "READY" => \A k \in Xfer : x.x[k].urb # "flight"
    /\ x.st \notin {"ACTIVE", "SUSPENDING"} => x.buf = 0
    /\ x.told => x.st = "IDLE" /\ x.cb
    /\ x.st = "NOT_INIT" => x.vol = 0 /\ ~x.wait
    /\ x.st \notin {"free", "NOT_INIT"} /\ ~x.cb => "nocb" \in env
    /\ x.st # "free" => dev.ifs[i].dir # "none"
IfcsAre == \A i \in Ifc : IfcIs(i, ifc[i])

\* Where the controlling task is, and what it may rely on there
UserPlace ==
    /\ user.op = "none" => user = NoCall
    /\ user.pc = "idle" => user.op = "none"
    /\ user.op = "open" => /\ user.pc \in {"add", "insert", "count"} \cup Waiting
                           /\ dev.ifs[user.i].dir # "none" /\ (AtOnce => bus = "present")
    /\ user.pc \in {"add", "insert", "count"} => user.op = "open" /\ bus = "present"
    /\ user.pc = "add" => phys.st = "none"
    /\ user.pc \in {"insert", "count"} => phys.st = "listed"
    /\ user.pc \in {"add", "insert"} => ifc[user.i].st = "free"
    /\ \A i \in Ifc : ifc[i].st = "NOT_INIT" <=> user.pc = "count" /\ user.i = i
    /\ user.op = "open" /\ user.pc \in Waiting => ifc[user.i].st = "IDLE"
    /\ user.op \in {"start", "resume"} =>
          user.pc \in Waiting /\ ifc[user.i].st = "READY" /\ \A k \in Xfer : ifc[user.i].x[k] = Ready
    /\ \A i \in Ifc : ifc[i].st = "SUSPENDING" <=> user.op \in Halts /\ user.pc \in Waiting /\ user.i = i
    /\ user.op = "suspend" => user.pc \in Waiting
    /\ user.op = "stop" => user.pc \in Waiting \cup {"release"}
    /\ user.op = "close" => user.pc \in Waiting \cup {"release", "final", "delay"}
    /\ user.pc = "release" => ifc[user.i].st = "READY"
    /\ user.pc \in {"final", "delay"} => ifc[user.i].st = "IDLE"
    /\ user.op \in Asks => user.pc \in Waiting /\ ifc[user.i].st \in {"READY", "ACTIVE"} /\ "ask" \in env
    /\ user.pc = "ctl" => user.left # {}
    /\ user.op # "none" => bus # "none"

\* The control transfer is in use while the controlling task waits for it; it fails if the
\* device is gone, or refuses.
CtlPlace ==
    /\ phys.ctl.urb # "idle" \/ phys.ctl.sem => user.pc = "ctl"
    /\ phys.ctl.sem => phys.ctl.urb = "idle"
    /\ phys.ctl.urb = "flight" => bus = "present"
    /\ phys.ctl.urb = "doneerr" => "error" \in env
    /\ phys.ctl.urb = "doneno" => bus = "gone"
    /\ phys.ctl.sem /\ ~phys.ctl.ok => bus = "gone" \/ "error" \in env
    /\ user.pc = "act" /\ ~user.ok =>
          bus = "gone" \/ "error" \in env \/ (user.op = "open" /\ ~dev.ifs[user.i].range)

\* opened_cnt is exact but for an interface that is about to come or go; the handle of the
\* USB device is there for those who need it.
Num(i) == IF ifc[i].st = "free" THEN 0 ELSE 1
Handle ==
    /\ phys.st = "none" => phys = NoPhys
    /\ phys.cnt + (IF user.pc \in {"count", "delay"} THEN 1 ELSE 0) = Num(RX) + Num(TX)
    /\ phys.st = "listed" => hdl # 0
    /\ hdl # 0 => bus # "none" /\ (phys.st = "listed" \/ client.pc = "new" \/ user.pc = "add")
    /\ user.pc = "add" => hdl # 0
    /\ client.pc = "new" => phys.st = "none" /\ user.pc # "add"
    /\ bus # "none" => plugs # 0
    /\ drv # "up" => hdl = 0 /\ msgs = <<>> /\ client.pc = "idle" /\ user.op = "none" /\ aux.pc = "idle"

\* That the device is gone is told once, while it is in the list; what was under way was
\* called back before.
Messages ==
    /\ GoneNews => /\ bus = "gone" /\ phys.st = "listed" /\ client.pc \in {"idle", "msgs"}
                   /\ user.pc \notin {"final", "delay"} /\ (client.pc = "msgs" => AllIdle)
    /\ \A m, n \in 1 .. Len(msgs) : msgs[m] = "gone" /\ msgs[n] = "gone" => m = n
    /\ "other" \notin env /\ bus = "present" =>
          Len(msgs) <= 1 /\ (msgs # <<>> \/ client.pc \notin {"idle", "new"} => hdl = 0)

\* The driver's task walks over the interfaces of a device that is gone, while nothing is
\* under way; those that it has passed are free, or left to the user, who was told.
ClientPlace ==
    /\ client.pc \in {"idle", "msgs", "new"} => client.cur = 0
    /\ client.cur # 0 => Held(client.cur) /\ (client.pc \in {"lock", "cb"} => client.cur > client.i)
    /\ client.pc \in {"lock", "cb"} => Held(client.i)
    /\ client.pc = "cb" => ifc[client.i].st = "IDLE"
    /\ \A i \in Ifc : ifc[i].wait <=> client.pc = "lock" /\ client.i = i
    /\ Walking => bus = "gone"
    /\ client.pc \in {"walk", "lock", "cb"} => AllIdle
    /\ user.pc = "final" /\ Walking => client.pc = "lock" /\ client.i = user.i
    /\ user.pc = "delay" => ~Walking
    /\ \A i \in Ifc : /\ bus = "gone" /\ Held(i) /\ ~GoneNews =>
                            \/ ifc[i].told
                            \/ client.pc = "lock" /\ client.i = i
                            \/ client.cur # 0 /\ i >= client.cur
                      /\ ifc[i].told => bus = "gone" \/ Leaving(i)

\* Who writes writes to a stream that is active, of a device that is there.
AuxPlace ==
    /\ aux.pc # "idle" => user.op = "none"
    /\ aux.pc \in {"scan", "submit"} => bus = "present" /\ ifc[TX].st = "ACTIVE"
    /\ aux.pc = "submit" => aux.k \in Xfer /\ ifc[TX].x[aux.k].list = "busy" /\ ifc[TX].x[aux.k].urb = "idle"
    /\ aux.pc = "read" /\ AtOnce => bus = "present"

\* A speaker's transfer is free, or in use, or about to be submitted; while there is data
\* one is in use, or will be.
TxIs(k) ==
    LET x == ifc[TX].x[k]
    IN  \/ x = Ready
        \/ x.list = "busy" /\ x.urb \in Running
        \/ aux.pc = "submit" /\ aux.k = k /\ x.list = "busy" /\ x.urb = "idle"
TxRuns ==
    \/ \E k \in Xfer : ifc[TX].x[k].urb \in Running
    \/ aux.pc = "submit"
    \/ aux.pc = "scan" /\ \E k \in Xfer : k >= aux.k /\ ifc[TX].x[k].list = "free"

Streaming ==
    /\ \A i \in Ifc : \A k \in Xfer : ifc[i].x[k].urb = "flight" => bus = "present"
    /\ bus = "present" =>
          /\ \A i \in Ifc : ifc[i].st = "READY" => \A k \in Xfer : ifc[i].x[k].list = "free"
          /\ ifc[RX].st = "ACTIVE" /\ ~ifc[RX].failed => \A k \in Xfer : ifc[RX].x[k].urb \in Running
          /\ ifc[TX].st = "ACTIVE" => \A k \in Xfer : TxIs(k)
          /\ ifc[TX].st = "ACTIVE" /\ ~ifc[TX].failed /\ ifc[TX].buf > 0 => TxRuns

\* All channels have the volume that is remembered, or those that were set the one that is
\* about to be.
IsSet(i) == user.op = "setvol" /\ user.i = i
VolumeKnown ==
    /\ \A i \in Ifc : ifc[i].vol # 0 /\ bus = "present" /\ ~IsSet(i) /\ ~Leaving(i) =>
          \A ch \in dev.ifs[i].vol : level[i][ch] = ifc[i].vol
    /\ user.op = "setvol" /\ bus = "present" =>
          /\ user.pc = "ctl" => \A ch \in dev.ifs[user.i].vol \ user.left : level[user.i][ch] = user.v
          /\ user.pc = "act" /\ user.ok => \A ch \in dev.ifs[user.i].vol : level[user.i][ch] = user.v
    /\ user.op = "setdb" => ifc[user.i].vol = 0

\* The range is known of whatever has one and is open.
RangeKnown ==
    "ask" \in env =>
        \A i \in Ifc : dev.ifs[i].range =>
            /\ bus = "present" /\ Held(i) /\ ~(user.op = "open" /\ user.i = i) /\ ~Leaving(i) => ifc[i].range
            /\ Claimed(ifc[i]) => ifc[i].range

UacInv ==
    /\ IsTame(env) /\ IsReadWell(dev, env) /\ TypeOK /\ NoAbuse
    /\ IfcsAre /\ UserPlace /\ CtlPlace /\ Handle /\ Messages /\ ClientPlace /\ AuxPlace
    /\ Streaming /\ VolumeKnown /\ RangeKnown

-----------------------------------------------------------------------------
(* The types, by name *)

XferType == [list : {"none", "free", "busy"}, urb : {"idle", "flight"} \cup Done]
IfcType == [st : {"free", "NOT_INIT", "IDLE", "READY", "ACTIVE", "SUSPENDING"},
            wait : BOOLEAN, cb : BOOLEAN, told : BOOLEAN, failed : BOOLEAN,
            buf : 0..BufSize, range : BOOLEAN, vol : Volumes \cup {0}, x : [Xfer -> XferType]]
CtlType == [urb : {"idle", "flight"} \cup Done, sem : BOOLEAN, ok : BOOLEAN]
PhysType == [st : {"none", "listed"}, cnt : 0..255, ctl : CtlType]
UserType == [op : {"none", "open", "start", "suspend", "resume", "stop", "close", "setvol", "getvol",
                   "setdb", "other"},
             pc : {"idle", "add", "insert", "count", "ctl", "act", "release", "final", "delay"},
             i : Ifc, ok : BOOLEAN, left : SUBSET Channel, v : Volumes \cup {0}]
AuxType == [pc : {"idle", "read", "scan", "submit"}, i : Ifc, k : 1..XferNum + 1, got : 0..2]
ClientType == [pc : {"idle", "msgs", "new", "walk", "lock", "cb"}, i : Ifc, cur : Ifc \cup {0}]
LevelType == [Ifc -> [Channel -> Volumes \cup {0}]]

\* What the proofs use of the types
LEMMA Known ==
    ASSUME UacInv
    PROVE  /\ drv \in {"up", "ending", "down"} /\ bus \in {"none", "present", "gone"}
           /\ plugs \in 0..MaxPlugs /\ hdl \in 0..MaxPlugs /\ calls \in 0..MaxCalls
           /\ msgs \in Seq({"new", "gone"}) /\ phys \in PhysType /\ ifc \in [Ifc -> IfcType]
           /\ user \in UserType /\ level \in LevelType /\ aux \in AuxType /\ client \in ClientType
           /\ crash = "none"
BY DEF UacInv, TypeOK, NoAbuse, XferType, IfcType, CtlType, PhysType, UserType, AuxType, ClientType, LevelType

\* ... and what they must show of them
LEMMA TypesWillBe ==
    ASSUME drv' \in {"up", "ending", "down"}, bus' \in {"none", "present", "gone"},
           plugs' \in 0..MaxPlugs, hdl' \in 0..MaxPlugs, calls' \in 0..MaxCalls,
           msgs' \in Seq({"new", "gone"}), phys' \in PhysType, ifc' \in [Ifc -> IfcType],
           user' \in UserType, level' \in LevelType, aux' \in AuxType, client' \in ClientType
    PROVE  TypeOK'
BY DEF TypeOK, XferType, IfcType, CtlType, PhysType, UserType, AuxType, ClientType, LevelType

\* Which interface each task is at
LEMMA HereIs ==
    ASSUME UacInv
    PROVE  user.i \in Ifc /\ aux.i \in Ifc /\ client.i \in Ifc /\ client.cur \in Ifc \cup {0}
BY Known DEF UserType, AuxType, ClientType

\* The constants
LEMMA ConstantsAre ==
    /\ XferNum \in Nat \ {0} /\ BufSize \in Nat /\ MaxPlugs \in Nat /\ MaxCalls \in Nat
    /\ Volumes \subseteq Nat \ {0} /\ RX \in Ifc /\ TX \in Ifc /\ Ifc \subseteq Nat \ {0}
    /\ \A i \in Ifc : (i = RX \/ i = TX) /\ i >= RX
BY BoundsAreNat DEF RX, TX, Ifc

\* Nothing and nobody is of the types.
LEMMA NothingIs ==
    /\ NoXfer \in XferType /\ Ready \in XferType /\ NoIfc \in IfcType /\ NoPhys \in PhysType
    /\ NoCall \in UserType /\ NoAux \in AuxType
<1>1. NoXfer \in XferType /\ Ready \in XferType
  BY DEF NoXfer, Ready, XferType
<1>2. NoIfc \in IfcType BY <1>1, ConstantsAre DEF NoIfc, IfcType
<1>3. NoPhys \in PhysType BY DEF NoPhys, NoCtl, PhysType, CtlType
<1>4. NoCall \in UserType /\ NoAux \in AuxType
  BY ConstantsAre DEF NoCall, UserType, NoAux, AuxType, Xfer
<1> QED BY <1>1, <1>2, <1>3, <1>4

\* What the environment spares
LEMMA Spared ==
    ASSUME UacInv
    PROVE  /\ "race" \notin env /\ "two" \notin env /\ "early" \notin env /\ "closing" \notin env
           /\ "writing" \notin env /\ "slow" \notin env /\ "stale" \notin env
           /\ "ask" \in env => "error" \notin env /\ "db" \notin env
           /\ "other" \in env => "ids" \notin env /\ "loop" \notin env
BY DEF UacInv, IsTame

\* What was read of the device
LEMMA ReadIs ==
    ASSUME UacInv, NEW i \in Ifc
    PROVE  /\ dev.check = "none" /\ dev.ifs[i].range \in BOOLEAN /\ dev.ifs[i].freq \in BOOLEAN
           /\ dev.ifs[i].vol \in SUBSET Channel /\ dev.ifs[i].mute \in SUBSET Channel
           /\ dev.ifs[i].dir # "none" => dev.ifs[i].open = "none" /\ dev.ifs[i].start = "none" /\ dev.ifs[i].right
           /\ "ask" \in env /\ dev.ifs[i].unit /\ dev.ifs[i].vol # {} => dev.ifs[i].range
BY DEF UacInv, IsReadWell

-----------------------------------------------------------------------------
(* When the tasks run *)

\* The application's tasks run while the driver's task has nothing to do, or waits for the
\* controlling task.
LEMMA OthersAre ==
    ASSUME UacInv, Others
    PROVE  ClientIdle \/ ClientWaits
BY Spared DEF Others

\* Nothing is left to handle: a device that is gone is known to be.
LEMMA IdleIs ==
    ASSUME UacInv, ClientIdle
    PROVE  /\ client.pc = "idle" /\ client.cur = 0 /\ msgs = <<>> /\ ~GoneNews /\ ~Walking
           /\ phys.ctl.urb \notin Done /\ \A i \in Ifc : \A k \in Xfer : ifc[i].x[k].urb \notin Done
           /\ \A i \in Ifc : ~ifc[i].wait
           /\ \A i \in Ifc : bus = "gone" /\ Held(i) => ifc[i].told
<1>1. client.pc = "idle" /\ msgs = <<>> /\ ~Pending BY DEF ClientIdle
<1>2. ~GoneNews BY <1>1 DEF GoneNews
<1>3. phys.ctl.urb \notin Done /\ \A i \in Ifc : \A k \in Xfer : ifc[i].x[k].urb \notin Done
  BY <1>1 DEF Pending
<1> QED BY <1>1, <1>2, <1>3 DEF UacInv, ClientPlace, Walking

\* The driver's task waits for the lock of an interface of a device that is gone.
LEMMA WaitsIs ==
    ASSUME UacInv, ClientWaits
    PROVE  /\ client.pc = "lock" /\ client.i = user.i /\ user.op \notin {"none", "open"} /\ Walking
           /\ bus = "gone" /\ ~GoneNews /\ AllIdle /\ aux.pc = "idle" /\ user.pc # "delay"
           /\ ifc[user.i].wait
<1>1. client.pc = "lock" /\ client.i = user.i /\ user.op \notin {"none", "open"}
  BY DEF ClientWaits, Locked
<1>2. Walking BY <1>1 DEF Walking
<1>3. user.i \in Ifc BY Known DEF UserType
<1> QED BY <1>1, <1>2, <1>3 DEF UacInv, ClientPlace, Messages, AuxPlace

\* A call begins while nothing else is under way.
LEMMA CallIs ==
    ASSUME UacInv, Others, MayCall
    PROVE  /\ ClientIdle /\ user = NoCall /\ user.op = "none" /\ user.pc = "idle" /\ aux.pc = "idle"
           /\ phys.ctl.urb = "idle" /\ ~phys.ctl.sem
<1>1. user.op = "none" /\ aux.pc = "idle" BY Spared DEF MayCall
<1>2. ClientIdle BY <1>1, OthersAre, WaitsIs
<1>3. user = NoCall BY <1>1 DEF UacInv, UserPlace
<1>4. user.pc = "idle" BY <1>3 DEF NoCall
<1>5. phys.ctl \in CtlType BY Known DEF PhysType
<1> QED BY <1>1, <1>2, <1>3, <1>4, <1>5 DEF UacInv, CtlPlace, CtlType

\* An interface that is there belongs to a device in the list, but for one that leaves.
LEMMA HeldIs ==
    ASSUME UacInv, NEW i \in Ifc, Held(i), ~Leaving(i)
    PROVE  phys.st = "listed" /\ hdl # 0 /\ bus # "none" /\ (user.pc # "count" => phys.cnt \in 1..2)
<1>1. /\ phys.cnt \in 0..255 /\ user.i \in Ifc
      /\ phys.cnt + (IF user.pc \in {"count", "delay"} THEN 1 ELSE 0) = Num(RX) + Num(TX)
      /\ user.pc = "delay" => ifc[user.i].st = "IDLE"
      /\ phys.st = "none" => phys = NoPhys
  BY Known DEF UacInv, Handle, UserPlace, PhysType, UserType
<1>2. Num(i) = 1 /\ Num(RX) \in {0, 1} /\ Num(TX) \in {0, 1} /\ (user.pc = "delay" => Num(user.i) = 1)
  BY <1>1 DEF Num, Held
<1>3. i # user.i \/ user.pc # "delay" BY DEF Leaving
<1>4. CASE user.pc = "delay"
  <2>1. Num(RX) = 1 /\ Num(TX) = 1 BY <1>1, <1>2, <1>3, <1>4, ConstantsAre
  <2>2. phys.cnt = 1 BY <1>1, <1>4, <2>1
  <2> QED BY <1>1, <1>4, <2>2, Known DEF UacInv, Handle, NoPhys, PhysType
<1>5. CASE user.pc # "delay" /\ user.pc # "count"
  <2>1. phys.cnt \in 1..2
    <3>1. Num(RX) = 1 \/ Num(TX) = 1 BY <1>2, ConstantsAre
    <3> QED BY <1>1, <1>2, <1>5, <3>1
  <2> QED BY <1>1, <1>5, <2>1, Known DEF UacInv, Handle, NoPhys, PhysType
<1>6. CASE user.pc = "count"
  <2>1. phys.st = "listed" BY <1>6 DEF UacInv, UserPlace
  <2> QED BY <1>6, <2>1 DEF UacInv, Handle
<1> QED BY <1>4, <1>5, <1>6

\* The control transfer is that of a device in the list.
LEMMA TransferIs ==
    ASSUME UacInv
    PROVE  /\ phys.ctl.urb # "idle" \/ phys.ctl.sem => phys.st = "listed"
           /\ phys.ctl \in CtlType
           /\ bus = "gone" => phys.ctl.urb # "flight" /\ \A i \in Ifc : \A k \in Xfer : ifc[i].x[k].urb # "flight"
<1>1. phys \in PhysType /\ (phys.st = "none" => phys = NoPhys)
  BY Known DEF UacInv, Handle
<1>2. phys.st = "none" => phys.ctl.urb = "idle" /\ phys.ctl.sem = FALSE
  BY <1>1 DEF NoPhys, NoCtl
<1> QED BY <1>1, <1>2 DEF PhysType, UacInv, CtlPlace, Streaming

-----------------------------------------------------------------------------
(* One interface changes *)

OneIs(i, y) ==
    /\ ifc' \in [Ifc -> IfcType] /\ ifc'[i] = y
    /\ \A j \in Ifc : j # i => ifc'[j] = ifc[j]

LEMMA OneChanges ==
    ASSUME UacInv, NEW i \in Ifc, NEW y \in IfcType, ifc' = [ifc EXCEPT ![i] = y]
    PROVE  OneIs(i, y)
BY Known DEF OneIs

-----------------------------------------------------------------------------
(* The numbers of interfaces *)

\* A set of numbers of channels has a least one; interfaces are such numbers, too.
LEMMA MinIsLeast ==
    ASSUME NEW S \in SUBSET Channel, S # {}
    PROVE  Min(S) \in S /\ \A y \in S : Min(S) <= y
<1>1. \E n \in S : \A y \in S : n <= y
  <2>1. \A y \in S : y \in 1..8 BY DEF Channel
  <2>2. CASE 1 \in S BY <2>1, <2>2
  <2>3. CASE 1 \notin S /\ 2 \in S BY <2>1, <2>3
  <2>4. CASE 1 \notin S /\ 2 \notin S /\ 3 \in S BY <2>1, <2>4
  <2>5. CASE 1 \notin S /\ 2 \notin S /\ 3 \notin S /\ 4 \in S BY <2>1, <2>5
  <2>6. CASE 1 \notin S /\ 2 \notin S /\ 3 \notin S /\ 4 \notin S
    <3>1. \A y \in S : y \in 5..8 BY <2>1, <2>6
    <3>2. CASE 5 \in S BY <3>1, <3>2
    <3>3. CASE 5 \notin S /\ 6 \in S BY <3>1, <3>3
    <3>4. CASE 5 \notin S /\ 6 \notin S /\ 7 \in S BY <3>1, <3>4
    <3>5. CASE 5 \notin S /\ 6 \notin S /\ 7 \notin S BY <3>1, <3>5
    <3> QED BY <3>2, <3>3, <3>4, <3>5
  <2> QED BY <2>2, <2>3, <2>4, <2>5, <2>6
<1> QED BY <1>1 DEF Min

\* STAILQ_FIRST() and STAILQ_NEXT(): the first interface of the list from one on
LEMMA FirstIs ==
    ASSUME NEW n \in Nat
    PROVE  /\ From(n) \in Ifc \cup {0}
           /\ From(n) # 0 => Held(From(n)) /\ From(n) >= n
           /\ \A j \in Ifc : Held(j) /\ j >= n => From(n) # 0 /\ j >= From(n)
<1>1. PICK S \in SUBSET Channel : S = {j \in Ifc : j >= n /\ ifc[j].st # "free"}
  <2>1. {j \in Ifc : j >= n /\ ifc[j].st # "free"} \in SUBSET Channel
    BY DEF Ifc, RX, TX, Channel
  <2> QED BY <2>1
<1>2. S # {} => Min(S) \in S /\ \A y \in S : Min(S) <= y BY MinIsLeast
<1>3. From(n) = IF S # {} THEN Min(S) ELSE 0 BY <1>1 DEF From
<1>4. \A j \in Ifc : j \in S <=> j >= n /\ Held(j) BY <1>1 DEF Held
<1>5. S \subseteq Ifc BY <1>1
<1> QED BY <1>2, <1>3, <1>4, <1>5, ConstantsAre

\* opened_cnt counts down.
LEMMA CountedIs ==
    ASSUME phys.cnt \in 1..2
    PROVE  Counted = phys.cnt - 1 /\ Counted \in 0..1
<1>1. CASE phys.cnt = 1 BY <1>1 DEF Counted
<1>2. CASE phys.cnt = 2 BY <1>2 DEF Counted
<1> QED BY <1>1, <1>2

-----------------------------------------------------------------------------
(* What stays *)

\* The controlling task is where it was, and so are the interfaces.
LEMMA UserStays ==
    ASSUME UacInv, UNCHANGED <<dev, bus, env, user>>, phys'.st = phys.st,
           \A j \in Ifc : ifc'[j].st = ifc[j].st,
           user.op \in {"start", "resume"} => \A k \in Xfer : ifc'[user.i].x[k] = ifc[user.i].x[k]
    PROVE  UserPlace'
<1>1. UserPlace /\ user.i \in Ifc BY HereIs DEF UacInv
<1>2. ifc'[user.i].st = ifc[user.i].st BY <1>1
<1> QED BY <1>1, <1>2 DEF UserPlace, Waiting, Halts, Asks, AtOnce

\* ... but for one interface, which the controlling task is not at, unless it waits for the
\* volume range.
LEMMA UserStaysBut ==
    ASSUME UacInv, NEW i \in Ifc, UNCHANGED <<dev, bus, env, user>>, bus = "gone",
           \A j \in Ifc : j # i => ifc'[j] = ifc[j],
           ifc'[i].st \in {"free", "IDLE"}, ifc[i].st \in {"IDLE", "READY", "ACTIVE"},
           user.op = "none" \/ user.i # i \/ (user.op = "open" /\ ifc'[i].st = "IDLE")
    PROVE  UserPlace'
<1>1. UserPlace /\ user.i \in Ifc BY HereIs DEF UacInv
<1>2. user.pc \notin {"add", "insert", "count"} BY <1>1 DEF UserPlace
<1>3. CASE user.op = "none"
  <2>1. user.pc = "idle" BY <1>1, <1>3 DEF UserPlace, NoCall
  <2> QED BY <1>1, <1>2, <1>3, <2>1 DEF UserPlace, Waiting, Halts, Asks, AtOnce
<1>4. CASE user.i # i
  BY <1>1, <1>2, <1>4 DEF UserPlace, Waiting, Halts, Asks, AtOnce
<1>5. CASE user.op = "open" /\ ifc'[i].st = "IDLE" /\ user.i = i
  BY <1>1, <1>2, <1>5 DEF UserPlace, Waiting, Halts, Asks, AtOnce
<1> QED BY <1>3, <1>4, <1>5

\* How many interfaces there are when one changes
Nums == Num(RX) + Num(TX)

LEMMA NumsAre ==
    ASSUME NEW i \in Ifc, \A j \in Ifc : j # i => ifc'[j].st = ifc[j].st
    PROVE  /\ Nums \in 0..2 /\ Nums' \in 0..2
           /\ Nums' = IF (ifc[i].st = "free") = (ifc'[i].st = "free") THEN Nums
                      ELSE IF ifc[i].st = "free" THEN Nums + 1 ELSE Nums - 1
<1>1. PICK j \in Ifc : j # i /\ {RX, TX} = {i, j} BY DEF Ifc, RX, TX
<1>2. Num(j)' = Num(j) /\ Num(j) \in {0, 1} /\ Num(i) \in {0, 1} /\ Num(i)' \in {0, 1}
  BY <1>1 DEF Num
<1>3. Nums = Num(i) + Num(j) /\ Nums' = Num(i)' + Num(j)'
  <2>1. (RX = i /\ TX = j) \/ (RX = j /\ TX = i) BY <1>1
  <2> QED BY <1>2, <2>1 DEF Nums
<1>4. Num(i) = (IF ifc[i].st = "free" THEN 0 ELSE 1) /\ Num(i)' = IF ifc'[i].st = "free" THEN 0 ELSE 1
  BY DEF Num
<1> QED BY <1>2, <1>3, <1>4

-----------------------------------------------------------------------------
(* The driver's task *)

\* The control transfer is called back.
LEMMA CtlCbKeeps ==
    ASSUME UacInv,
           CtlCb
    PROVE  UacInv'
<1>1. UNCHANGED <<dev, drv, bus, plugs, calls, env, level, msgs, hdl, ifc, user, aux, client, crash>>
  BY DEF CtlCb, outside
<1>2. drv # "down" /\ client.pc = "idle" /\ phys.ctl.urb \in Done
  BY DEF CtlCb
<1>3. phys' = [phys EXCEPT !.ctl = [urb |-> "idle", sem |-> TRUE, ok |-> @.urb = "doneok"]]
  BY DEF CtlCb
<1>4. phys \in PhysType /\ phys.ctl \in CtlType BY Known DEF PhysType
<1>5. /\ phys'.st = phys.st /\ phys'.cnt = phys.cnt /\ phys'.ctl.urb = "idle" /\ phys'.ctl.sem = TRUE
      /\ phys'.ctl.ok = (phys.ctl.urb = "doneok")
  BY <1>3, <1>4 DEF PhysType, CtlType
<1>6. TypeOK'
  BY <1>1, <1>2, <1>3, <1>4, <1>5, Known, NothingIs, ConstantsAre, TypesWillBe DEF PhysType, CtlType
<1>7. IfcsAre'
  BY <1>1, <1>2, <1>3, <1>4, <1>5, ConstantsAre, HereIs DEF UacInv, IfcsAre, IfcIs, Claimed, Done
<1>8. UserPlace'
  BY <1>1, <1>2, <1>3, <1>4, <1>5, ConstantsAre, HereIs DEF UacInv, UserPlace, Waiting, Halts, Asks,
    AtOnce, Done
<1>9. CtlPlace'
  BY <1>1, <1>2, <1>3, <1>4, <1>5, ConstantsAre, HereIs DEF UacInv, CtlPlace, Done
<1>10. Handle'
  BY <1>1, <1>2, <1>3, <1>4, <1>5, ConstantsAre, HereIs, TransferIs DEF UacInv, Handle, Num, Done, Done
<1>11. Messages'
  BY <1>1, <1>2, <1>3, <1>4, <1>5, ConstantsAre, HereIs DEF UacInv, Messages, GoneNews, AllIdle, Done
<1>12. ClientPlace'
  BY <1>1, <1>2, <1>3, <1>4, <1>5, ConstantsAre, HereIs DEF UacInv, ClientPlace, Held, Leaving,
    Walking, AllIdle, GoneNews, Done
<1>13. AuxPlace'
  BY <1>1, <1>2, <1>3, <1>4, <1>5, ConstantsAre, HereIs DEF UacInv, AuxPlace, AtOnce, Done
<1>14. Streaming'
  BY <1>1, <1>2, <1>3, <1>4, <1>5, ConstantsAre, HereIs DEF UacInv, Streaming, TxIs, TxRuns, Ready,
    Running, Done
<1>15. VolumeKnown'
  BY <1>1, <1>2, <1>3, <1>4, <1>5, ConstantsAre, HereIs DEF UacInv, VolumeKnown, IsSet, Leaving, Done
<1>16. RangeKnown'
  BY <1>1, <1>2, <1>3, <1>4, <1>5, ConstantsAre, HereIs DEF UacInv, RangeKnown, Held, Leaving, Claimed,
    Done
<1> QED
  BY <1>1, <1>6, <1>7, <1>8, <1>9, <1>10, <1>11, <1>12, <1>13, <1>14, <1>15, <1>16 DEF UacInv, NoAbuse

\* A request is answered.
LEMMA AnswerKeeps ==
    ASSUME UacInv,
           Answer
    PROVE  UacInv'
<1>1. UNCHANGED <<dev, drv, bus, plugs, calls, env, level, msgs, hdl, ifc, user, aux, client, crash>>
  BY DEF Answer, Calm
<1>2. bus = "present" /\ phys.ctl.urb = "flight" BY DEF Answer
<1>3. PICK u \in {"doneok", "doneerr"} :
         phys' = [phys EXCEPT !.ctl.urb = u] /\ (u = "doneerr" => "error" \in env)
  BY DEF Answer
<1>4. phys \in PhysType /\ phys.ctl \in CtlType BY Known DEF PhysType
<1>5. phys'.st = phys.st /\ phys'.cnt = phys.cnt /\ phys'.ctl.urb = u /\ phys'.ctl.sem = phys.ctl.sem
  BY <1>3, <1>4 DEF PhysType, CtlType
<1>6. TypeOK'
  BY <1>1, <1>2, <1>3, <1>4, <1>5, Known, NothingIs, ConstantsAre, TypesWillBe DEF PhysType, CtlType,
    Done
<1>7. IfcsAre'
  BY <1>1, <1>2, <1>3, <1>4, <1>5, ConstantsAre, HereIs DEF UacInv, IfcsAre, IfcIs, Claimed, Done
<1>8. UserPlace'
  BY <1>1, <1>2, <1>3, <1>4, <1>5, ConstantsAre, HereIs DEF UacInv, UserPlace, Waiting, Halts, Asks,
    AtOnce, Done
<1>9. CtlPlace'
  BY <1>1, <1>2, <1>3, <1>4, <1>5, ConstantsAre, HereIs DEF UacInv, CtlPlace, Done
<1>10. Handle'
  BY <1>1, <1>2, <1>3, <1>4, <1>5, ConstantsAre, HereIs, TransferIs DEF UacInv, Handle, Num, Done, Done
<1>11. Messages'
  BY <1>1, <1>2, <1>3, <1>4, <1>5, ConstantsAre, HereIs DEF UacInv, Messages, GoneNews, AllIdle, Done
<1>12. ClientPlace'
  BY <1>1, <1>2, <1>3, <1>4, <1>5, ConstantsAre, HereIs DEF UacInv, ClientPlace, Held, Leaving,
    Walking, AllIdle, GoneNews, Done
<1>13. AuxPlace'
  BY <1>1, <1>2, <1>3, <1>4, <1>5, ConstantsAre, HereIs DEF UacInv, AuxPlace, AtOnce, Done
<1>14. Streaming'
  BY <1>1, <1>2, <1>3, <1>4, <1>5, ConstantsAre, HereIs DEF UacInv, Streaming, TxIs, TxRuns, Ready,
    Running, Done
<1>15. VolumeKnown'
  BY <1>1, <1>2, <1>3, <1>4, <1>5, ConstantsAre, HereIs DEF UacInv, VolumeKnown, IsSet, Leaving, Done
<1>16. RangeKnown'
  BY <1>1, <1>2, <1>3, <1>4, <1>5, ConstantsAre, HereIs DEF UacInv, RangeKnown, Held, Leaving, Claimed,
    Done
<1> QED
  BY <1>1, <1>6, <1>7, <1>8, <1>9, <1>10, <1>11, <1>12, <1>13, <1>14, <1>15, <1>16 DEF UacInv, NoAbuse

\* The driver has looked at the device.
LEMMA NewSeenKeeps ==
    ASSUME UacInv,
           NewSeen
    PROVE  UacInv'
<1>1. UNCHANGED <<dev, drv, bus, plugs, calls, env, level, msgs, phys, ifc, user, aux>> /\ crash' = "none"
  BY Known, ReadIs, ConstantsAre DEF NewSeen, outside, Fails
<1>2. client.pc = "new" /\ client' = [client EXCEPT !.pc = "msgs"] /\ hdl' = 0
  BY DEF NewSeen
<1>3. client \in ClientType /\ phys \in PhysType BY Known
<1>4. client'.pc = "msgs" /\ client'.i = client.i /\ client'.cur = client.cur
  BY <1>2, <1>3 DEF ClientType
<1>5. TypeOK'
  BY <1>1, <1>2, <1>3, <1>4, Known, NothingIs, ConstantsAre, TypesWillBe DEF ClientType
<1>6. IfcsAre'
  BY <1>1, <1>2, <1>3, <1>4, ConstantsAre, HereIs DEF UacInv, IfcsAre, IfcIs, Claimed
<1>7. UserPlace'
  BY <1>1, <1>2, <1>3, <1>4, ConstantsAre, HereIs DEF UacInv, UserPlace, Waiting, Halts, Asks, AtOnce
<1>8. CtlPlace'
  BY <1>1, <1>2, <1>3, <1>4, ConstantsAre, HereIs DEF UacInv, CtlPlace
<1>9. Handle'
  BY <1>1, <1>2, <1>3, <1>4, ConstantsAre, HereIs DEF UacInv, Handle, Num
<1>10. Messages'
  BY <1>1, <1>2, <1>3, <1>4, ConstantsAre, HereIs DEF UacInv, Messages, GoneNews, AllIdle
<1>11. ClientPlace'
  BY <1>1, <1>2, <1>3, <1>4, ConstantsAre, HereIs DEF UacInv, ClientPlace, Held, Leaving, Walking,
    AllIdle, GoneNews
<1>12. AuxPlace'
  BY <1>1, <1>2, <1>3, <1>4, ConstantsAre, HereIs DEF UacInv, AuxPlace, AtOnce
<1>13. Streaming'
  BY <1>1, <1>2, <1>3, <1>4, ConstantsAre, HereIs DEF UacInv, Streaming, TxIs, TxRuns, Ready, Running
<1>14. VolumeKnown'
  BY <1>1, <1>2, <1>3, <1>4, ConstantsAre, HereIs DEF UacInv, VolumeKnown, IsSet, Leaving
<1>15. RangeKnown'
  BY <1>1, <1>2, <1>3, <1>4, ConstantsAre, HereIs DEF UacInv, RangeKnown, Held, Leaving, Claimed
<1> QED
  BY <1>1, <1>5, <1>6, <1>7, <1>8, <1>9, <1>10, <1>11, <1>12, <1>13, <1>14, <1>15 DEF UacInv, NoAbuse

\* The driver's task is at the end of the list, or of the messages.
LEMMA MsgsEndKeeps ==
    ASSUME UacInv,
           MsgsEnd
    PROVE  UacInv'
<1>1. UNCHANGED <<dev, drv, bus, plugs, calls, env, level, msgs, hdl, phys, ifc, user, aux, crash>>
  BY DEF MsgsEnd, outside
<1>2. \/ client.pc = "walk" /\ client.cur = 0 /\ client' = [client EXCEPT !.pc = "msgs"]
      \/ client.pc = "msgs" /\ msgs = <<>> /\ client' = [pc |-> "idle", i |-> RX, cur |-> 0]
  BY DEF MsgsEnd
<1>3. client \in ClientType BY Known
<1>4. /\ \/ client.pc = "walk" /\ client'.pc = "msgs"
         \/ client.pc = "msgs" /\ client'.pc = "idle" /\ msgs = <<>>
      /\ client.cur = 0 /\ client'.cur = 0 /\ client'.i \in Ifc
  BY <1>2, <1>3, ConstantsAre DEF ClientType, UacInv, ClientPlace
<1>5. client' \in ClientType BY <1>2, <1>3, ConstantsAre DEF ClientType
<1>6. TypeOK'
  BY <1>1, <1>2, <1>3, <1>4, <1>5, Known, NothingIs, ConstantsAre, TypesWillBe
<1>7. IfcsAre'
  BY <1>1, <1>2, <1>3, <1>4, <1>5, ConstantsAre, HereIs DEF UacInv, IfcsAre, IfcIs, Claimed
<1>8. UserPlace'
  BY <1>1, <1>2, <1>3, <1>4, <1>5, ConstantsAre, HereIs DEF UacInv, UserPlace, Waiting, Halts, Asks,
    AtOnce
<1>9. CtlPlace'
  BY <1>1, <1>2, <1>3, <1>4, <1>5, ConstantsAre, HereIs DEF UacInv, CtlPlace
<1>10. Handle'
  BY <1>1, <1>2, <1>3, <1>4, <1>5, ConstantsAre, HereIs DEF UacInv, Handle, Num
<1>11. Messages'
  BY <1>1, <1>2, <1>3, <1>4, <1>5, ConstantsAre, HereIs DEF UacInv, Messages, GoneNews, AllIdle
<1>12. ClientPlace'
  BY <1>1, <1>2, <1>3, <1>4, <1>5, ConstantsAre, HereIs DEF UacInv, ClientPlace, Held, Leaving,
    Walking, AllIdle, GoneNews
<1>13. AuxPlace'
  BY <1>1, <1>2, <1>3, <1>4, <1>5, ConstantsAre, HereIs DEF UacInv, AuxPlace, AtOnce
<1>14. Streaming'
  BY <1>1, <1>2, <1>3, <1>4, <1>5, ConstantsAre, HereIs DEF UacInv, Streaming, TxIs, TxRuns, Ready,
    Running
<1>15. VolumeKnown'
  BY <1>1, <1>2, <1>3, <1>4, <1>5, ConstantsAre, HereIs DEF UacInv, VolumeKnown, IsSet, Leaving
<1>16. RangeKnown'
  BY <1>1, <1>2, <1>3, <1>4, <1>5, ConstantsAre, HereIs DEF UacInv, RangeKnown, Held, Leaving, Claimed
<1> QED
  BY <1>1, <1>6, <1>7, <1>8, <1>9, <1>10, <1>11, <1>12, <1>13, <1>14, <1>15, <1>16 DEF UacInv, NoAbuse

\* The driver's task ends.
LEMMA TaskEndsKeeps ==
    ASSUME UacInv,
           TaskEnds
    PROVE  UacInv'
<1>1. UNCHANGED <<dev, bus, plugs, calls, env, level, msgs, hdl, phys, ifc, user, aux, client>>
  BY DEF TaskEnds
<1>2. drv = "ending" /\ drv' = "down" /\ hdl = 0
  BY DEF TaskEnds, UacInv, Handle
<1>3. crash' = "none" BY <1>2, Known DEF TaskEnds, Fails
<1>4. TypeOK'
  BY <1>1, <1>2, <1>3, Known, NothingIs, ConstantsAre, TypesWillBe
<1>5. IfcsAre'
  BY <1>1, <1>2, <1>3, ConstantsAre, HereIs DEF UacInv, IfcsAre, IfcIs, Claimed
<1>6. UserPlace'
  BY <1>1, <1>2, <1>3, ConstantsAre, HereIs DEF UacInv, UserPlace, Waiting, Halts, Asks, AtOnce
<1>7. CtlPlace'
  BY <1>1, <1>2, <1>3, ConstantsAre, HereIs DEF UacInv, CtlPlace
<1>8. Handle'
  BY <1>1, <1>2, <1>3, ConstantsAre, HereIs DEF UacInv, Handle, Num
<1>9. Messages'
  BY <1>1, <1>2, <1>3, ConstantsAre, HereIs DEF UacInv, Messages, GoneNews, AllIdle
<1>10. ClientPlace'
  BY <1>1, <1>2, <1>3, ConstantsAre, HereIs DEF UacInv, ClientPlace, Held, Leaving, Walking, AllIdle,
    GoneNews
<1>11. AuxPlace'
  BY <1>1, <1>2, <1>3, ConstantsAre, HereIs DEF UacInv, AuxPlace, AtOnce
<1>12. Streaming'
  BY <1>1, <1>2, <1>3, ConstantsAre, HereIs DEF UacInv, Streaming, TxIs, TxRuns, Ready, Running
<1>13. VolumeKnown'
  BY <1>1, <1>2, <1>3, ConstantsAre, HereIs DEF UacInv, VolumeKnown, IsSet, Leaving
<1>14. RangeKnown'
  BY <1>1, <1>2, <1>3, ConstantsAre, HereIs DEF UacInv, RangeKnown, Held, Leaving, Claimed
<1> QED
  BY <1>1, <1>3, <1>4, <1>5, <1>6, <1>7, <1>8, <1>9, <1>10, <1>11, <1>12, <1>13, <1>14 DEF UacInv,
    NoAbuse

\* A transfer is completed.
LEMMA CompleteKeeps ==
    ASSUME UacInv,
           NEW i \in Ifc,
           NEW k \in Xfer,
           Complete(i, k)
    PROVE  UacInv'
<1>1. UNCHANGED <<dev, drv, bus, plugs, calls, env, level, msgs, hdl, phys, user, aux, client, crash>>
  BY DEF Complete, Calm
<1>2. bus = "present" /\ ifc[i].x[k].urb = "flight" BY DEF Complete
<1>3. PICK u \in {"doneok", "doneerr"} : ifc' = [ifc EXCEPT ![i].x[k].urb = u]
  BY DEF Complete
<1>4. ifc[i] \in IfcType /\ ifc[i].x[k] \in XferType /\ ifc[i].x \in [Xfer -> XferType]
  BY Known DEF IfcType
<1>5. PICK y : y = [ifc[i] EXCEPT !.x[k].urb = u] OBVIOUS
<1>6. y \in IfcType
  <2>1. [ifc[i].x[k] EXCEPT !.urb = u] \in XferType
    BY <1>4 DEF XferType, Done
  <2> QED BY <1>4, <1>5, <2>1 DEF IfcType
<1>7. /\ y.st = ifc[i].st /\ y.told = ifc[i].told /\ y.cb = ifc[i].cb /\ y.wait = ifc[i].wait
      /\ y.vol = ifc[i].vol /\ y.range = ifc[i].range /\ \A j \in Xfer : j # k => y.x[j] = ifc[i].x[j]
  BY <1>4, <1>5 DEF IfcType
<1>8. y.x[k].urb = u /\ y.x[k].list = ifc[i].x[k].list /\ y.buf = ifc[i].buf /\ y.failed = ifc[i].failed
  BY <1>4, <1>5 DEF IfcType, XferType
<1>9. OneIs(i, y)
  <2>1. ifc' = [ifc EXCEPT ![i] = y] BY <1>3, <1>5, Known
  <2> QED BY <1>6, <2>1, OneChanges
<1>10. /\ ifc[i].st \in {"READY", "ACTIVE", "SUSPENDING"} /\ ifc[i].st # "READY"
  BY <1>2, <1>4, ConstantsAre DEF UacInv, IfcsAre, IfcIs, NoXfer, IfcType
<1>11. TypeOK'
  BY <1>1, <1>2, <1>3, <1>4, <1>5, <1>6, <1>7, <1>8, <1>9, <1>10, Known, NothingIs, ConstantsAre,
    TypesWillBe DEF OneIs
<1>12. IfcsAre'
  BY <1>1, <1>2, <1>3, <1>4, <1>5, <1>6, <1>7, <1>8, <1>9, <1>10, ConstantsAre, HereIs DEF UacInv,
    IfcsAre, IfcIs, Claimed, OneIs
<1>13. UserPlace'
  BY <1>1, <1>2, <1>3, <1>4, <1>5, <1>6, <1>7, <1>8, <1>9, <1>10, ConstantsAre, HereIs DEF UacInv,
    UserPlace, Waiting, Halts, Asks, AtOnce, OneIs
<1>14. CtlPlace'
  BY <1>1, <1>2, <1>3, <1>4, <1>5, <1>6, <1>7, <1>8, <1>9, <1>10, ConstantsAre, HereIs DEF UacInv,
    CtlPlace, OneIs
<1>15. Handle'
  BY <1>1, <1>2, <1>3, <1>4, <1>5, <1>6, <1>7, <1>8, <1>9, <1>10, ConstantsAre, HereIs DEF UacInv,
    Handle, Num, OneIs
<1>16. Messages'
  BY <1>1, <1>2, <1>3, <1>4, <1>5, <1>6, <1>7, <1>8, <1>9, <1>10, ConstantsAre, HereIs DEF UacInv,
    Messages, GoneNews, AllIdle, OneIs
<1>17. ClientPlace'
  BY <1>1, <1>2, <1>3, <1>4, <1>5, <1>6, <1>7, <1>8, <1>9, <1>10, ConstantsAre, HereIs DEF UacInv,
    ClientPlace, Held, Leaving, Walking, AllIdle, GoneNews, OneIs
<1>18. AuxPlace'
  BY <1>1, <1>2, <1>3, <1>4, <1>5, <1>6, <1>7, <1>8, <1>9, <1>10, ConstantsAre, HereIs DEF UacInv,
    AuxPlace, AtOnce, OneIs
<1>19. Streaming'
  BY <1>1, <1>2, <1>3, <1>4, <1>5, <1>6, <1>7, <1>8, <1>9, <1>10, ConstantsAre, HereIs DEF UacInv,
    Streaming, TxIs, TxRuns, Ready, Running, OneIs
<1>20. VolumeKnown'
  BY <1>1, <1>2, <1>3, <1>4, <1>5, <1>6, <1>7, <1>8, <1>9, <1>10, ConstantsAre, HereIs DEF UacInv,
    VolumeKnown, IsSet, Leaving, OneIs
<1>21. RangeKnown'
  BY <1>1, <1>2, <1>3, <1>4, <1>5, <1>6, <1>7, <1>8, <1>9, <1>10, ConstantsAre, HereIs DEF UacInv,
    RangeKnown, Held, Leaving, Claimed, OneIs
<1> QED
  BY <1>1, <1>11, <1>12, <1>13, <1>14, <1>15, <1>16, <1>17, <1>18, <1>19, <1>20, <1>21 DEF UacInv,
    NoAbuse

\* What becomes of a stream when a transfer of its was called back
CalledBack(i, k, y) ==
    /\ y \in IfcType /\ y.st = ifc[i].st /\ y.told = ifc[i].told /\ y.cb = ifc[i].cb /\ y.wait = ifc[i].wait
    /\ y.vol = ifc[i].vol /\ y.range = ifc[i].range /\ \A j \in Xfer : j # k => y.x[j] = ifc[i].x[j]
    /\ \/ /\ y.st # "ACTIVE" \/ ifc[i].x[k].urb = "doneno"
          /\ y.x[k].list = ifc[i].x[k].list /\ y.x[k].urb = "idle" /\ y.buf = ifc[i].buf /\ y.failed = ifc[i].failed
       \/ /\ y.st = "ACTIVE" /\ ifc[i].x[k].urb = "doneerr" /\ y.failed
          /\ y.x[k].urb = "idle" /\ y.x[k].list = (IF i = TX THEN "free" ELSE ifc[i].x[k].list) /\ y.buf = ifc[i].buf
       \/ /\ y.st = "ACTIVE" /\ i = RX /\ y.x[k].list = ifc[i].x[k].list /\ y.failed = ifc[i].failed
          /\ y.x[k].urb = IF bus = "present" THEN "flight" ELSE "idle"
       \/ /\ y.st = "ACTIVE" /\ i # RX /\ y.failed = ifc[i].failed
          /\ \/ /\ ifc[i].buf > 0 /\ y.buf = ifc[i].buf - 1 /\ y.x[k].list = ifc[i].x[k].list
                /\ y.x[k].urb = IF bus = "present" THEN "flight" ELSE "idle"
             \/ ifc[i].buf = 0 /\ y.buf = 0 /\ y.x[k] = Ready

\* usb_host_transfer_submit()
LEMMA SubmittedIs ==
    ASSUME NEW x \in IfcType, NEW k \in Xfer, x.st = "ACTIVE", x.x[k].urb = "idle"
    PROVE  /\ Submitted(x, k) \in IfcType /\ Submitted(x, k).st = x.st /\ Submitted(x, k).told = x.told
           /\ Submitted(x, k).cb = x.cb /\ Submitted(x, k).wait = x.wait /\ Submitted(x, k).vol = x.vol
           /\ Submitted(x, k).range = x.range /\ Submitted(x, k).buf = x.buf /\ Submitted(x, k).failed = x.failed
           /\ \A j \in Xfer : j # k => Submitted(x, k).x[j] = x.x[j]
           /\ Submitted(x, k).x[k].list = x.x[k].list
           /\ Submitted(x, k).x[k].urb = IF bus = "present" THEN "flight" ELSE "idle"
<1>1. Submitted(x, k) = IF bus = "present" THEN [x EXCEPT !.x[k].urb = "flight"] ELSE x
  BY DEF Submitted, Accepts, Claimed
<1>2. x.x \in [Xfer -> XferType] /\ x.x[k] \in XferType /\ [x.x[k] EXCEPT !.urb = "flight"] \in XferType
  BY DEF IfcType, XferType
<1>3. CASE bus = "present"
  <2>1. PICK xs : xs = [x.x EXCEPT ![k].urb = "flight"] OBVIOUS
  <2>2. /\ xs \in [Xfer -> XferType] /\ xs[k] = [x.x[k] EXCEPT !.urb = "flight"]
        /\ \A j \in Xfer : j # k => xs[j] = x.x[j]
    BY <1>2, <2>1
  <2>3. xs[k].list = x.x[k].list /\ xs[k].urb = "flight"
    BY <1>2, <2>2 DEF XferType
  <2>4. Submitted(x, k) = [x EXCEPT !.x = xs]
    BY <1>1, <1>3, <2>1 DEF IfcType
  <2> QED BY <1>3, <2>2, <2>3, <2>4 DEF IfcType
<1>4. CASE bus # "present" BY <1>1, <1>4
<1> QED BY <1>3, <1>4

\* stream_rx_xfer_done() and stream_tx_xfer_done()
LEMMA XferCbIs ==
    ASSUME UacInv, NEW i \in Ifc, NEW k \in Xfer, XferCb(i, k)
    PROVE  \E y : ifc' = [ifc EXCEPT ![i] = y] /\ CalledBack(i, k, y)
<1> DEFINE x == ifc[i]
           z == [x EXCEPT !.x[k].urb = "idle"]
<1>1. x \in IfcType /\ x.x \in [Xfer -> XferType] /\ x.x[k] \in XferType
  BY Known DEF IfcType
<1>2. /\ x.x[k].urb \in Done
      /\ ifc' = [ifc EXCEPT ![i] =
              IF x.st # "ACTIVE" \/ x.x[k].urb = "doneno" THEN z
              ELSE IF x.x[k].urb = "doneerr" THEN ErrorDone(i, x, k)
              ELSE IF i = RX THEN RxDone(x, k) ELSE TxDone(x, k)]
  BY DEF XferCb
<1>3. /\ z \in IfcType /\ z.st = x.st /\ z.told = x.told /\ z.cb = x.cb /\ z.wait = x.wait /\ z.vol = x.vol
      /\ z.range = x.range /\ z.buf = x.buf /\ z.failed = x.failed
      /\ \A j \in Xfer : j # k => z.x[j] = x.x[j]
      /\ z.x[k].list = x.x[k].list /\ z.x[k].urb = "idle"
  <2>1. [x.x[k] EXCEPT !.urb = "idle"] \in XferType BY <1>1 DEF XferType
  <2> QED BY <1>1, <2>1 DEF IfcType, XferType
<1>4. CASE x.st # "ACTIVE" \/ x.x[k].urb = "doneno"
  <2>1. CalledBack(i, k, z) BY <1>3, <1>4 DEF CalledBack
  <2> QED BY <1>2, <1>4, <2>1
<1>5. CASE x.st = "ACTIVE" /\ x.x[k].urb = "doneerr"
  <2>1. PICK y : y = ErrorDone(i, x, k) OBVIOUS
  <2>2. PICK t : t = [urb |-> "idle", list |-> IF i = TX THEN "free" ELSE x.x[k].list]
    OBVIOUS
  <2>3. t \in XferType /\ t.urb = "idle" /\ t.list = IF i = TX THEN "free" ELSE x.x[k].list
    BY <1>1, <2>2 DEF XferType
  <2>4. y = [x EXCEPT !.x[k] = t, !.failed = TRUE]
    BY <1>1, <2>1, <2>2 DEF ErrorDone, IfcType
  <2>5. CalledBack(i, k, y)
    BY <1>1, <1>5, <2>3, <2>4 DEF CalledBack, IfcType
  <2> QED BY <1>2, <1>5, <2>1, <2>5
<1>6. CASE x.st = "ACTIVE" /\ x.x[k].urb = "doneok" /\ i = RX
  <2>0. PICK b \in 0..BufSize : b = IF x.buf < BufSize THEN x.buf + 1 ELSE x.buf
    BY <1>1, ConstantsAre DEF IfcType
  <2>1. PICK v : v = [x EXCEPT !.x[k].urb = "idle", !.buf = b] OBVIOUS
  <2>2. /\ v \in IfcType /\ v.st = x.st /\ v.told = x.told /\ v.cb = x.cb /\ v.wait = x.wait /\ v.vol = x.vol
        /\ v.range = x.range /\ v.failed = x.failed /\ \A j \in Xfer : j # k => v.x[j] = x.x[j]
        /\ v.x[k].list = x.x[k].list /\ v.x[k].urb = "idle"
    <3>1. [x.x[k] EXCEPT !.urb = "idle"] \in XferType BY <1>1 DEF XferType
    <3> QED BY <1>1, <2>1, <3>1 DEF IfcType, XferType
  <2>3. RxDone(x, k) = Submitted(v, k)
    BY <1>1, <2>0, <2>1 DEF RxDone, IfcType
  <2>4. CalledBack(i, k, Submitted(v, k))
    BY <1>6, <2>2, SubmittedIs DEF CalledBack
  <2> QED BY <1>2, <1>6, <2>3, <2>4
<1>7. CASE x.st = "ACTIVE" /\ x.x[k].urb = "doneok" /\ i # RX
  <2>1. TxDone(x, k) = TxSubmitted(z, k) BY DEF TxDone
  <2>2. x.buf \in 0..BufSize BY <1>1 DEF IfcType
  <2>3. CASE x.buf > 0
    <3>0. PICK b \in 0..BufSize : b = x.buf - 1 BY <2>2, <2>3, ConstantsAre
    <3>1. PICK v : v = [z EXCEPT !.buf = b] OBVIOUS
    <3>2. /\ v \in IfcType /\ v.st = x.st /\ v.told = x.told /\ v.cb = x.cb /\ v.wait = x.wait /\ v.vol = x.vol
          /\ v.range = x.range /\ v.failed = x.failed /\ v.x = z.x /\ v.buf = x.buf - 1
      BY <1>3, <3>0, <3>1 DEF IfcType
    <3>3. TxSubmitted(z, k) = Submitted(v, k)
      BY <1>3, <2>3, <3>0, <3>1 DEF TxSubmitted, IfcType
    <3>4. CalledBack(i, k, Submitted(v, k))
      <4>1. v.x[k].urb = "idle" /\ v.x[k].list = x.x[k].list /\ \A j \in Xfer : j # k => v.x[j] = x.x[j]
        BY <1>3, <3>2
      <4>2. PICK y : y = Submitted(v, k) OBVIOUS
      <4>3. /\ y \in IfcType /\ y.st = v.st /\ y.told = v.told /\ y.cb = v.cb /\ y.wait = v.wait /\ y.vol = v.vol
            /\ y.range = v.range /\ y.buf = v.buf /\ y.failed = v.failed /\ y.x[k].list = v.x[k].list
            /\ \A j \in Xfer : j # k => y.x[j] = v.x[j]
            /\ y.x[k].urb = IF bus = "present" THEN "flight" ELSE "idle"
        BY <1>7, <3>2, <4>1, <4>2, SubmittedIs
      <4> QED BY <1>7, <2>3, <3>2, <4>1, <4>2, <4>3 DEF CalledBack
    <3> QED BY <1>2, <1>7, <2>1, <3>3, <3>4
  <2>4. CASE x.buf = 0
    <3>1. PICK v : v = [z EXCEPT !.x[k].list = "free"] OBVIOUS
    <3>2. TxSubmitted(z, k) = v BY <1>3, <2>4, <3>1 DEF TxSubmitted
    <3>3. /\ z.x \in [Xfer -> XferType] /\ z.x[k] \in XferType
          /\ [z.x[k] EXCEPT !.list = "free"] \in XferType /\ [z.x[k] EXCEPT !.list = "free"] = Ready
      <4>1. z.x \in [Xfer -> XferType] /\ z.x[k] \in XferType /\ z.x[k].urb = "idle"
        BY <1>3 DEF IfcType
      <4>2. z.x[k] = [list |-> z.x[k].list, urb |-> "idle"]
        BY <4>1 DEF XferType
      <4>3. [z.x[k] EXCEPT !.list = "free"] = Ready BY <4>2 DEF Ready
      <4> QED BY <4>1, <4>3, NothingIs
    <3>4. CalledBack(i, k, v)
      BY <1>3, <1>7, <2>4, <3>1, <3>3 DEF CalledBack, IfcType
    <3> QED BY <1>2, <1>7, <2>1, <3>2, <3>4
  <2> QED BY <2>2, <2>3, <2>4
<1> QED BY <1>2, <1>4, <1>5, <1>6, <1>7, ConstantsAre DEF Done

\* A transfer of a stream is called back.
LEMMA XferCbKeeps ==
    ASSUME UacInv,
           NEW i \in Ifc,
           NEW k \in Xfer,
           XferCb(i, k)
    PROVE  UacInv'
<1>1. UNCHANGED <<dev, drv, bus, plugs, calls, env, level, msgs, hdl, phys, user, aux, client, crash>>
  BY DEF XferCb, outside
<1>2. drv # "down" /\ client.pc = "idle" /\ ifc[i].x[k].urb \in Done
  BY DEF XferCb
<1>3. ifc[i] \in IfcType /\ ifc[i].x[k] \in XferType /\ ifc[i].x \in [Xfer -> XferType]
  BY Known DEF IfcType
<1>4. /\ ifc[i].st \in {"READY", "ACTIVE", "SUSPENDING"} /\ ifc[i].x[k].list # "none"
      /\ ifc[i].st # "ACTIVE" => ifc[i].x[k].urb # "idle"
  BY <1>2, <1>3, ConstantsAre DEF UacInv, IfcsAre, IfcIs, NoXfer, IfcType, Claimed, Done
<1>5. PICK y : ifc' = [ifc EXCEPT ![i] = y] /\ CalledBack(i, k, y)
  BY <1>2, <1>3, <1>4, XferCbIs
<1>6. y \in IfcType /\ OneIs(i, y) BY <1>5, OneChanges DEF CalledBack
<1>7. /\ y.st = ifc[i].st /\ y.told = ifc[i].told /\ y.cb = ifc[i].cb /\ y.wait = ifc[i].wait
      /\ y.vol = ifc[i].vol /\ y.range = ifc[i].range /\ \A j \in Xfer : j # k => y.x[j] = ifc[i].x[j]
  BY <1>5 DEF CalledBack
<1>8. /\ y.x[k].list \in {"free", "busy"}
      /\ y.x[k].urb = "flight" => bus = "present" /\ y.st = "ACTIVE"
      /\ y.st # "ACTIVE" => y.buf = ifc[i].buf /\ y.x[k].list = ifc[i].x[k].list
  BY <1>3, <1>4, <1>5 DEF CalledBack, XferType, Ready
<1>9. ~(user.op \in {"start", "resume"} /\ user.i = i)
  BY <1>2 DEF UacInv, UserPlace, Ready, Done
<1>10. aux.pc = "submit" => ifc'[TX].x[aux.k] = ifc[TX].x[aux.k] /\ ifc'[TX].st = ifc[TX].st
  <2> SUFFICES ASSUME aux.pc = "submit" PROVE ifc'[TX].x[aux.k] = ifc[TX].x[aux.k] /\ ifc'[TX].st = ifc[TX].st
    OBVIOUS
  <2>1. aux.k \in Xfer /\ ifc[TX].x[aux.k].urb = "idle"
    BY DEF UacInv, AuxPlace
  <2>2. i # TX \/ k # aux.k BY <1>2, <2>1 DEF Done
  <2> QED BY <1>6, <1>7, <2>1, <2>2, ConstantsAre DEF OneIs
<1>11. TypeOK'
  BY <1>1, <1>2, <1>3, <1>4, <1>5, <1>6, <1>7, <1>8, <1>9, <1>10, Known, NothingIs, ConstantsAre,
    TypesWillBe DEF OneIs
<1>12. IfcsAre'
  BY <1>1, <1>2, <1>3, <1>4, <1>5, <1>6, <1>7, <1>8, <1>9, <1>10, ConstantsAre, HereIs DEF UacInv,
    IfcsAre, IfcIs, Claimed, OneIs
<1>13. UserPlace'
  BY <1>1, <1>2, <1>3, <1>4, <1>5, <1>6, <1>7, <1>8, <1>9, <1>10, ConstantsAre, HereIs DEF UacInv,
    UserPlace, Waiting, Halts, Asks, AtOnce, OneIs
<1>14. CtlPlace'
  BY <1>1, <1>2, <1>3, <1>4, <1>5, <1>6, <1>7, <1>8, <1>9, <1>10, ConstantsAre, HereIs DEF UacInv,
    CtlPlace, OneIs
<1>15. Handle'
  BY <1>1, <1>2, <1>3, <1>4, <1>5, <1>6, <1>7, <1>8, <1>9, <1>10, ConstantsAre, HereIs DEF UacInv,
    Handle, Num, OneIs
<1>16. Messages'
  BY <1>1, <1>2, <1>3, <1>4, <1>5, <1>6, <1>7, <1>8, <1>9, <1>10, ConstantsAre, HereIs DEF UacInv,
    Messages, GoneNews, AllIdle, OneIs
<1>17. ClientPlace'
  BY <1>1, <1>2, <1>3, <1>4, <1>5, <1>6, <1>7, <1>8, <1>9, <1>10, ConstantsAre, HereIs DEF UacInv,
    ClientPlace, Held, Leaving, Walking, AllIdle, GoneNews, OneIs
<1>18. AuxPlace'
  BY <1>1, <1>2, <1>3, <1>4, <1>5, <1>6, <1>7, <1>8, <1>9, <1>10, ConstantsAre, HereIs DEF UacInv,
    AuxPlace, AtOnce, OneIs
<1>19. Streaming'
  <2>1. \A j \in Ifc : \A n \in Xfer : ifc'[j].x[n].urb = "flight" => bus = "present"
    BY <1>1, <1>2, <1>3, <1>4, <1>5, <1>6, <1>7, <1>8, <1>9, <1>10, ConstantsAre DEF UacInv, Streaming, OneIs
  <2> SUFFICES ASSUME bus = "present" PROVE Streaming'
    BY <1>1, <2>1 DEF Streaming
  <2>2. CASE ifc[i].st # "ACTIVE"
    <3>1. /\ ifc'[RX].st = ifc[RX].st /\ ifc'[TX].st = ifc[TX].st
          /\ \A j \in Ifc : j # i => ifc'[j] = ifc[j]
      BY <1>1, <1>2, <1>3, <1>4, <1>5, <1>6, <1>7, <1>8, <1>9, <1>10, ConstantsAre DEF OneIs
    <3> QED
      BY <1>1, <1>2, <1>3, <1>4, <1>5, <1>6, <1>7, <1>8, <1>9, <1>10, <2>1, <2>2, <3>1, ConstantsAre DEF UacInv, Streaming, TxIs, TxRuns, Ready, Running, OneIs
  <2>3. CASE ifc[i].st = "ACTIVE" /\ i = RX
    <3>1. ifc'[TX] = ifc[TX] /\ ifc'[RX] = y /\ y.st = "ACTIVE" /\ TX # RX
      BY <1>6, <1>7, <2>3, ConstantsAre DEF OneIs, RX, TX
    <3>2. ASSUME ~y.failed PROVE \A n \in Xfer : y.x[n].urb \in Running
      <4>1. ~ifc[i].failed BY <1>5, <2>3, <3>2 DEF CalledBack
      <4>2. \A n \in Xfer : ifc[i].x[n].urb \in Running
        BY <2>3, <4>1 DEF UacInv, Streaming
      <4>3. y.x[k].urb = "flight"
        BY <1>5, <2>3, <3>1, <3>2, <4>2 DEF CalledBack, Running
      <4> QED BY <1>7, <4>2, <4>3 DEF Running
    <3> QED
      BY <1>1, <2>1, <2>3, <3>1, <3>2, ConstantsAre DEF UacInv, Streaming, TxIs, TxRuns, Ready, Running, OneIs
  <2>4. CASE ifc[i].st = "ACTIVE" /\ i = TX
    <3>1. ifc'[RX] = ifc[RX] /\ ifc'[TX] = y /\ y.st = "ACTIVE" /\ TX # RX
      BY <1>6, <1>7, <2>4, ConstantsAre DEF OneIs, RX, TX
    <3>2. \A n \in Xfer : TxIs(n) BY <2>4 DEF UacInv, Streaming
    <3>3. ifc[i].x[k].list = "busy" /\ ifc[i].x[k].urb \in Running
      BY <1>2, <2>4, <3>2 DEF TxIs, Ready, Done, Running
    <3>4. \/ y.failed /\ y.x[k].urb = "idle" /\ y.x[k].list = "free"
          \/ y.x[k].urb = "flight" /\ y.x[k].list = "busy"
          \/ y.buf = 0 /\ y.x[k] = Ready
      BY <1>5, <2>4, <3>1, <3>3 DEF CalledBack, Running
    <3>5. y.x[k] \in XferType BY <1>6 DEF IfcType
    <3>6. y.x[k] = Ready \/ (y.x[k].list = "busy" /\ y.x[k].urb \in Running)
      BY <3>4, <3>5 DEF XferType, Ready, Running
    <3>7. \A n \in Xfer : TxIs(n)'
      BY <1>1, <1>7, <2>4, <3>1, <3>2, <3>6 DEF TxIs
    <3>8. ~y.failed /\ y.buf > 0 => TxRuns'
      BY <3>1, <3>4 DEF TxRuns, Running
    <3> QED BY <1>1, <2>1, <2>4, <3>1, <3>7, <3>8, ConstantsAre DEF UacInv, Streaming
  <2> QED BY <2>2, <2>3, <2>4, ConstantsAre
<1>20. VolumeKnown'
  BY <1>1, <1>2, <1>3, <1>4, <1>5, <1>6, <1>7, <1>8, <1>9, <1>10, ConstantsAre, HereIs DEF UacInv,
    VolumeKnown, IsSet, Leaving, OneIs
<1>21. RangeKnown'
  BY <1>1, <1>2, <1>3, <1>4, <1>5, <1>6, <1>7, <1>8, <1>9, <1>10, ConstantsAre, HereIs DEF UacInv,
    RangeKnown, Held, Leaving, Claimed, OneIs
<1> QED
  BY <1>1, <1>11, <1>12, <1>13, <1>14, <1>15, <1>16, <1>17, <1>18, <1>19, <1>20, <1>21 DEF UacInv,
    NoAbuse

\* A message is handled: of a device that is new, or gone.
LEMMA MessageKeeps ==
    ASSUME UacInv,
           Message
    PROVE  UacInv'
<1>1. UNCHANGED <<dev, drv, bus, plugs, calls, env, level, phys, ifc, user, aux>> /\ msgs' = Tail(msgs)
  BY DEF Message, outside
<1>2. /\ drv # "down" /\ msgs # <<>> /\ client \in ClientType /\ msgs \in Seq({"new", "gone"})
      /\ client.pc \in {"msgs", "idle"} /\ (client.pc = "idle" => ~Pending)
  BY Known DEF Message
<1>3. /\ Head(msgs) = msgs[1] /\ Len(msgs) \in Nat \ {0} /\ Tail(msgs) \in Seq({"new", "gone"})
      /\ Len(msgs') = Len(msgs) - 1 /\ \A n \in 1 .. Len(msgs') : msgs'[n] = msgs[n + 1]
  BY <1>1, <1>2
<1>4. drv = "up" /\ client.cur = 0 BY <1>2 DEF UacInv, Handle, ClientPlace
<1>5. \A m, n \in 1 .. Len(msgs') : msgs'[m] = "gone" /\ msgs'[n] = "gone" => m = n
  <2> SUFFICES ASSUME NEW m \in 1 .. Len(msgs'), NEW n \in 1 .. Len(msgs'), msgs'[m] = "gone", msgs'[n] = "gone"
               PROVE  m = n
    OBVIOUS
  <2>1. m + 1 \in 1 .. Len(msgs) /\ n + 1 \in 1 .. Len(msgs) /\ msgs[m + 1] = "gone" /\ msgs[n + 1] = "gone"
    BY <1>3
  <2>2. m + 1 = n + 1 BY <2>1 DEF UacInv, Messages
  <2> QED BY <2>2
<1>6. GoneNews' => GoneNews BY <1>3 DEF GoneNews
<1>7. GoneNews => bus = "gone" /\ AllIdle
  <2> SUFFICES ASSUME GoneNews PROVE bus = "gone" /\ AllIdle
    OBVIOUS
  <2>1. bus = "gone" /\ (client.pc = "msgs" => AllIdle)
    BY DEF UacInv, Messages
  <2>2. ASSUME client.pc = "idle" PROVE AllIdle
    <3>1. phys.ctl.urb \notin Done /\ \A i \in Ifc : \A k \in Xfer : ifc[i].x[k].urb \notin Done
      BY <1>2, <2>2 DEF Pending
    <3>2. phys.ctl.urb # "flight" /\ \A i \in Ifc : \A k \in Xfer : ifc[i].x[k].urb # "flight"
      BY <2>1, TransferIs
    <3>3. phys.ctl \in CtlType /\ \A i \in Ifc : \A k \in Xfer : ifc[i].x[k] \in XferType
      BY Known, TransferIs DEF IfcType
    <3> QED BY <3>1, <3>2, <3>3 DEF AllIdle, CtlType, XferType
  <2> QED BY <1>2, <2>1, <2>2
<1>8. \/ /\ Head(msgs) = "gone" /\ bus = "gone" /\ phys.st = "listed" /\ AllIdle /\ user.pc \notin {"final", "delay"}
         /\ ~GoneNews' /\ client' = [pc |-> "walk", i |-> RX, cur |-> From(RX)] /\ hdl' = hdl /\ crash' = "none"
      \/ /\ Head(msgs) # "gone" /\ client' = [client EXCEPT !.pc = "msgs"] /\ hdl' = hdl /\ crash' = "none"
         /\ ~(bus = "present" /\ hdl = 0)
      \/ /\ Head(msgs) # "gone" /\ client' = [client EXCEPT !.pc = "new"] /\ hdl' = plugs /\ crash' = "none"
         /\ bus = "present" /\ hdl = 0 /\ phys.st = "none" /\ user.pc # "add"
  <2>1. CASE Head(msgs) = "gone"
    <3>1. msgs[1] = "gone" /\ 1 \in 1 .. Len(msgs) BY <1>3, <2>1
    <3>2. GoneNews BY <3>1 DEF GoneNews
    <3>3. bus = "gone" /\ phys.st = "listed" /\ user.pc \notin {"final", "delay"} /\ (client.pc = "msgs" => AllIdle)
      BY <3>2 DEF UacInv, Messages
    <3>4. AllIdle BY <1>7, <3>2
    <3>5. ~GoneNews'
      <4> SUFFICES ASSUME NEW n \in 1 .. Len(msgs'), msgs'[n] = "gone" PROVE FALSE
        BY DEF GoneNews
      <4>1. n + 1 \in 1 .. Len(msgs) /\ msgs[n + 1] = "gone" BY <1>3
      <4>2. n + 1 = 1 BY <3>1, <4>1 DEF UacInv, Messages
      <4> QED BY <4>2
    <3> QED BY <1>2, <2>1, <3>3, <3>4, <3>5, Known DEF Message, Fails
  <2>2. CASE Head(msgs) # "gone"
    <3>1. Head(msgs) = "new" BY <1>2, <1>3, <2>2
    <3>2. hdl = 0 => phys.st = "none" /\ user.pc # "add"
      BY Known DEF UacInv, Handle, PhysType
    <3> QED BY <1>2, <2>2, <3>1, <3>2, Known DEF Message
  <2> QED BY <2>1, <2>2
<1>9. /\ client' \in ClientType /\ client'.pc \in {"walk", "msgs", "new"}
      /\ client'.pc = "walk" => Head(msgs) = "gone" /\ client'.cur = From(RX)
      /\ client'.pc # "walk" => Head(msgs) # "gone" /\ client'.cur = 0
      /\ client'.pc = "msgs" => ~(bus = "present" /\ hdl = 0)
      /\ client'.pc = "new" <=> Head(msgs) # "gone" /\ bus = "present" /\ hdl = 0
  BY <1>2, <1>4, <1>8, FirstIs, ConstantsAre DEF ClientType
<1>10. /\ Head(msgs) = "gone" => bus = "gone" /\ phys.st = "listed" /\ AllIdle /\ user.pc \notin {"final", "delay"} /\ ~GoneNews'
       /\ hdl' = IF client'.pc = "new" THEN plugs ELSE hdl
  BY <1>8, <1>9
<1>11. crash' = "none" BY <1>8
<1>12. TypeOK'
  BY <1>1, <1>2, <1>3, <1>4, <1>5, <1>6, <1>7, <1>8, <1>9, <1>10, <1>11, Known, NothingIs,
    ConstantsAre, TypesWillBe
<1>13. IfcsAre'
  BY <1>1, <1>2, <1>3, <1>4, <1>5, <1>6, <1>7, <1>8, <1>9, <1>10, <1>11, ConstantsAre, HereIs DEF
    UacInv, IfcsAre, IfcIs, Claimed
<1>14. UserPlace'
  BY <1>1, <1>2, <1>3, <1>4, <1>5, <1>6, <1>7, <1>8, <1>9, <1>10, <1>11, ConstantsAre, HereIs DEF
    UacInv, UserPlace, Waiting, Halts, Asks, AtOnce
<1>15. CtlPlace'
  BY <1>1, <1>2, <1>3, <1>4, <1>5, <1>6, <1>7, <1>8, <1>9, <1>10, <1>11, ConstantsAre, HereIs DEF
    UacInv, CtlPlace
<1>16. Handle'
  BY <1>1, <1>2, <1>3, <1>4, <1>5, <1>6, <1>7, <1>8, <1>9, <1>10, <1>11, ConstantsAre, HereIs DEF
    UacInv, Handle, Num
<1>17. Messages'
  <2>1. GoneNews' => /\ bus = "gone" /\ phys.st = "listed" /\ user.pc \notin {"final", "delay"}
                    /\ AllIdle /\ client'.pc = "msgs"
    BY <1>6, <1>7, <1>9, <1>10 DEF UacInv, Messages
  <2>2. "other" \notin env /\ bus = "present" =>
           /\ Len(msgs') <= 1 /\ msgs' = <<>>
           /\ client'.pc \notin {"idle", "new"} => hdl' = 0
    BY <1>1, <1>2, <1>3, <1>9, <1>10 DEF UacInv, Messages
  <2> QED BY <1>1, <1>5, <2>1, <2>2 DEF Messages, GoneNews, AllIdle
<1>18. ClientPlace'
  <2>1. /\ client'.cur # 0 => Held(client'.cur) /\ client'.pc = "walk"
        /\ client'.pc \in {"msgs", "new"} => client'.cur = 0
    BY <1>9, FirstIs, ConstantsAre
  <2>2. Walking' => bus = "gone" /\ user.pc \notin {"final", "delay"}
    BY <1>9, <1>10, <2>1 DEF Walking
  <2>3. \A i \in Ifc : ~ifc[i].wait /\ (ifc[i].told => bus = "gone" \/ Leaving(i))
    BY <1>2 DEF UacInv, ClientPlace
  <2>4. ASSUME NEW i \in Ifc, bus = "gone", Held(i), ~GoneNews', ~ifc[i].told
        PROVE  client'.cur # 0 /\ i >= client'.cur
    <3>1. CASE client'.pc = "walk"
      BY <1>9, <2>4, <3>1, FirstIs, ConstantsAre
    <3>2. CASE client'.pc # "walk"
      <4>1. GoneNews BY <1>2, <1>4, <2>4 DEF UacInv, ClientPlace
      <4>2. PICK n \in 1 .. Len(msgs) : msgs[n] = "gone"
        BY <4>1 DEF GoneNews
      <4>3. n # 1 BY <1>3, <1>9, <3>2, <4>2
      <4>4. n - 1 \in 1 .. Len(msgs') /\ msgs'[n - 1] = "gone"
        BY <1>3, <4>2, <4>3
      <4> QED BY <2>4, <4>4 DEF GoneNews
    <3> QED BY <3>1, <3>2
  <2> QED
    BY <1>1, <1>9, <1>10, <2>1, <2>2, <2>3, <2>4 DEF ClientPlace, Held, Leaving, Walking, AllIdle, GoneNews
<1>19. AuxPlace'
  BY <1>1, <1>2, <1>3, <1>4, <1>5, <1>6, <1>7, <1>8, <1>9, <1>10, <1>11, ConstantsAre, HereIs DEF
    UacInv, AuxPlace, AtOnce
<1>20. Streaming'
  BY <1>1, <1>2, <1>3, <1>4, <1>5, <1>6, <1>7, <1>8, <1>9, <1>10, <1>11, ConstantsAre, HereIs DEF
    UacInv, Streaming, TxIs, TxRuns, Ready, Running
<1>21. VolumeKnown'
  BY <1>1, <1>2, <1>3, <1>4, <1>5, <1>6, <1>7, <1>8, <1>9, <1>10, <1>11, ConstantsAre, HereIs DEF
    UacInv, VolumeKnown, IsSet, Leaving
<1>22. RangeKnown'
  BY <1>1, <1>2, <1>3, <1>4, <1>5, <1>6, <1>7, <1>8, <1>9, <1>10, <1>11, ConstantsAre, HereIs DEF
    UacInv, RangeKnown, Held, Leaving, Claimed
<1> QED
  BY <1>1, <1>8, <1>11, <1>12, <1>13, <1>14, <1>15, <1>16, <1>17, <1>18, <1>19, <1>20, <1>21, <1>22 DEF
    UacInv, NoAbuse

\* The driver's task comes to an interface of a device that is gone.
LEMMA WalkKeeps ==
    ASSUME UacInv,
           Walk
    PROVE  UacInv'
<1>1. PICK i : i = client.cur OBVIOUS
<1>2. client.pc = "walk" /\ i # 0 /\ i \in Ifc /\ ifc[i] \in IfcType /\ client \in ClientType
  BY <1>1, Known DEF Walk, ClientType
<1>3. /\ Held(i) /\ bus = "gone" /\ AllIdle /\ user.pc \notin {"final", "delay", "count"} /\ ~GoneNews
      /\ Walking /\ \A j \in Ifc : ~ifc[j].wait
  BY <1>1, <1>2 DEF UacInv, ClientPlace, UserPlace, Messages, Walking
<1>4. phys.st = "listed" /\ ~Leaving(i) /\ ifc[i].st # "NOT_INIT"
  BY <1>2, <1>3, HeldIs DEF Leaving, UacInv, UserPlace
<1>5. UNCHANGED <<dev, drv, bus, plugs, calls, env, level, msgs, hdl, phys, user, aux>>
  BY DEF Walk, outside
<1>6. crash' = "none" BY <1>1, <1>3, <1>4, Known DEF Walk, Fails, Held
<1>7. client' = [pc |-> "lock", i |-> i, cur |-> From(i + 1)]
  BY <1>1 DEF Walk
<1>8. /\ client' \in ClientType /\ client'.pc = "lock" /\ client'.i = i /\ client'.cur \in Ifc \cup {0}
      /\ client'.cur # 0 => Held(client'.cur) /\ client'.cur > i
      /\ \A j \in Ifc : Held(j) /\ j > i => client'.cur # 0 /\ j >= client'.cur
  <2>1. i + 1 \in Nat /\ \A j \in Ifc : (j > i <=> j >= i + 1)
    BY <1>2, ConstantsAre
  <2> QED BY <1>2, <1>7, <2>1, FirstIs, ConstantsAre DEF ClientType
<1>9. PICK y : y = [ifc[i] EXCEPT !.wait = TRUE] OBVIOUS
<1>10. /\ y \in IfcType /\ y.st = ifc[i].st /\ y.told = ifc[i].told /\ y.cb = ifc[i].cb /\ y.wait = TRUE /\ y.vol = ifc[i].vol
       /\ y.range = ifc[i].range /\ y.x = ifc[i].x /\ y.buf = ifc[i].buf /\ y.failed = ifc[i].failed
  BY <1>2, <1>9 DEF IfcType
<1>11. OneIs(i, y)
  <2>1. ifc' = [ifc EXCEPT ![i] = y] BY <1>1, <1>9, Known DEF Walk
  <2> QED BY <1>2, <1>10, <2>1, OneChanges
<1>12. \A j \in Ifc :
          /\ ifc'[j].st = ifc[j].st /\ ifc'[j].told = ifc[j].told /\ ifc'[j].cb = ifc[j].cb
          /\ ifc'[j].vol = ifc[j].vol /\ ifc'[j].range = ifc[j].range /\ ifc'[j].x = ifc[j].x
          /\ ifc'[j].buf = ifc[j].buf /\ ifc'[j].failed = ifc[j].failed /\ (j # i => ifc'[j] = ifc[j])
          /\ ifc'[j].wait <=> i = j
  BY <1>2, <1>3, <1>10, <1>11 DEF OneIs
<1>13. TypeOK'
  BY <1>1, <1>2, <1>3, <1>4, <1>5, <1>6, <1>7, <1>8, <1>9, <1>10, <1>11, <1>12, Known, NothingIs,
    ConstantsAre, TypesWillBe DEF OneIs
<1>14. IfcsAre'
  <2> SUFFICES ASSUME NEW j \in Ifc PROVE IfcIs(j, ifc[j])'
    BY DEF IfcsAre
  <2>1. IfcIs(j, ifc[j]) BY DEF UacInv, IfcsAre
  <2>2. CASE j = i
    BY <1>3, <1>4, <1>5, <1>12, <2>1, <2>2 DEF IfcIs, Claimed, Held
  <2>3. CASE j # i BY <1>5, <1>12, <2>1, <2>3 DEF IfcIs, Claimed
  <2> QED BY <2>2, <2>3
<1>15. UserPlace' BY <1>5, <1>12, HereIs, UserStays
<1>16. CtlPlace'
  BY <1>2, <1>3, <1>4, <1>5, <1>8, <1>12, ConstantsAre, HereIs DEF UacInv, CtlPlace
<1>17. Handle'
  BY <1>2, <1>3, <1>4, <1>5, <1>8, <1>12, ConstantsAre, HereIs DEF UacInv, Handle, Num
<1>18. Messages'
  BY <1>2, <1>3, <1>4, <1>5, <1>8, <1>12, ConstantsAre, HereIs DEF UacInv, Messages, GoneNews, AllIdle
<1>19. ClientPlace'
  <2>1. \A j \in Ifc : (ifc'[j].wait <=> j = i) /\ (Held(j)' <=> Held(j)) /\ (ifc'[j].told <=> ifc[j].told)
    BY <1>12 DEF Held
  <2>2. AllIdle' BY <1>3, <1>5, <1>12 DEF AllIdle
  <2>3. client'.cur # 0 => Held(client.cur)' BY <1>8, <1>12 DEF Held
  <2>4. \A j \in Ifc : Held(j) => ifc[j].told \/ j >= i
    BY <1>1, <1>2, <1>3 DEF UacInv, ClientPlace
  <2>5. \A j \in Ifc : j >= i => j = i \/ j > i BY <1>2, ConstantsAre
  <2> QED BY <1>2, <1>3, <1>5, <1>8, <2>1, <2>2, <2>3, <2>4, <2>5 DEF ClientPlace, Leaving
<1>20. AuxPlace'
  BY <1>2, <1>3, <1>4, <1>5, <1>8, <1>12, ConstantsAre, HereIs DEF UacInv, AuxPlace, AtOnce
<1>21. Streaming'
  BY <1>2, <1>3, <1>4, <1>5, <1>8, <1>12, ConstantsAre, HereIs DEF UacInv, Streaming, TxIs, TxRuns,
    Ready, Running
<1>22. VolumeKnown'
  BY <1>2, <1>3, <1>4, <1>5, <1>8, <1>12, ConstantsAre, HereIs DEF UacInv, VolumeKnown, IsSet, Leaving
<1>23. RangeKnown'
  BY <1>2, <1>3, <1>4, <1>5, <1>8, <1>12, ConstantsAre, HereIs DEF UacInv, RangeKnown, Held, Leaving,
    Claimed
<1> QED
  BY <1>5, <1>6, <1>13, <1>14, <1>15, <1>16, <1>17, <1>18, <1>19, <1>20, <1>21, <1>22, <1>23 DEF
    UacInv, NoAbuse

\* uac_host_interface_suspend() and uac_host_interface_release_and_free_transfer()
LEMMA SuspendedIs ==
    ASSUME NEW x \in IfcType
    PROVE  /\ Suspended(x) \in IfcType /\ Suspended(x).st = "READY" /\ Suspended(x).told = x.told
           /\ Suspended(x).cb = x.cb /\ Suspended(x).wait = x.wait /\ Suspended(x).vol = x.vol
           /\ Suspended(x).range = x.range /\ Suspended(x).buf = 0 /\ Suspended(x).failed = x.failed
           /\ \A k \in Xfer : /\ Suspended(x).x[k].list = "free"
                              /\ Suspended(x).x[k].urb = IF x.x[k].urb = "flight" THEN "doneno" ELSE x.x[k].urb
<1>1. PICK f : f = [k \in Xfer |-> IF x.x[k].urb = "flight" THEN [x.x[k] EXCEPT !.urb = "doneno"] ELSE x.x[k]]
  OBVIOUS
<1>2. \A k \in Xfer : x.x[k] \in XferType BY DEF IfcType
<1>3. \A k \in Xfer : /\ f[k] \in XferType /\ f[k].list = x.x[k].list
                      /\ f[k].urb = IF x.x[k].urb = "flight" THEN "doneno" ELSE x.x[k].urb
  BY <1>1, <1>2 DEF XferType, Done
<1>4. Flushed(x) = [x EXCEPT !.x = f] BY <1>1 DEF Flushed, IfcType
<1>5. PICK g : g = [k \in Xfer |-> [f[k] EXCEPT !.list = "free"]] OBVIOUS
<1>6. \A k \in Xfer : g[k] \in XferType /\ g[k].list = "free" /\ g[k].urb = f[k].urb
  BY <1>3, <1>5 DEF XferType
<1>7. g \in [Xfer -> XferType] BY <1>5, <1>6
<1>8. Suspended(x) = [x EXCEPT !.x = g, !.st = "READY", !.buf = 0]
  BY <1>4, <1>5 DEF Suspended, IfcType
<1>9. PICK z : z = Suspended(x) OBVIOUS
<1>10. 0 \in 0..BufSize BY ConstantsAre
<1>11. z \in IfcType /\ z.x = g BY <1>7, <1>8, <1>9, <1>10 DEF IfcType
<1>12. /\ z.st = "READY" /\ z.told = x.told /\ z.cb = x.cb /\ z.wait = x.wait /\ z.vol = x.vol
       /\ z.range = x.range /\ z.buf = 0 /\ z.failed = x.failed
  BY <1>8, <1>9 DEF IfcType
<1> QED BY <1>3, <1>6, <1>9, <1>11, <1>12

\* Where the driver's task is at an interface
LEMMA WalkingIs ==
    ASSUME UacInv, client.pc \in {"lock", "cb"}, ~Locked(client.i)
    PROVE  /\ Held(client.i) /\ bus = "gone" /\ AllIdle /\ Walking /\ ~GoneNews
           /\ user.pc \notin {"final", "delay", "add", "insert", "count"} /\ aux.pc \notin {"scan", "submit"}
           /\ user.op = "open" \/ aux.pc = "read" => ~AtOnce
           /\ user.op \in {"none", "open"} \/ user.i # client.i
           /\ ifc[client.i].st \in {"IDLE", "READY", "ACTIVE"}
           /\ phys.cnt \in 1..2 /\ phys.st = "listed" /\ hdl # 0
<1>1. /\ Held(client.i) /\ bus = "gone" /\ AllIdle /\ Walking /\ ~GoneNews /\ user.pc # "delay"
      /\ user.pc = "final" => user.i = client.i
  BY DEF UacInv, ClientPlace, Walking, Messages
<1>2. user.pc \notin {"add", "insert", "count"} /\ (user.pc = "final" => user.op = "close")
  BY <1>1, Known DEF UacInv, UserPlace, UserType, Waiting, Asks, NoCall
<1>3. user.op \in {"none", "open"} \/ user.i # client.i BY DEF Locked
<1>4. user.pc # "final" BY <1>1, <1>2, <1>3
<1>5. aux.pc \notin {"scan", "submit"} /\ (user.op = "open" \/ aux.pc = "read" => ~AtOnce)
  BY <1>1 DEF UacInv, UserPlace, AuxPlace
<1>6. ifc[client.i] \in IfcType /\ client.i \in Ifc BY HereIs, Known
<1>7. ifc[client.i].st \notin {"NOT_INIT", "SUSPENDING"}
  BY <1>2, <1>3, <1>6 DEF UacInv, UserPlace, Halts
<1>8. ifc[client.i].st \in {"IDLE", "READY", "ACTIVE"}
  BY <1>1, <1>6, <1>7 DEF IfcType, Held
<1>9. phys.cnt \in 1..2 /\ phys.st = "listed" /\ hdl # 0
  BY <1>1, <1>2, <1>6, HeldIs DEF Leaving
<1> QED BY <1>1, <1>2, <1>3, <1>4, <1>5, <1>8, <1>9

\* The driver's task frees an interface.
LEMMA FreedKeeps ==
    ASSUME UacInv,
           client.pc \in {"lock", "cb"},
           ~Locked(client.i),
           AtOnce,
           UNCHANGED <<dev, drv, bus, plugs, calls, env, level, msgs, user, aux>>,
           crash' = "none",
           client' = [client EXCEPT !.pc = "walk"],
           ifc' = [ifc EXCEPT ![client.i] = NoIfc],
           PhysClosed(TRUE)
    PROVE  UacInv'
<1>1. PICK i \in Ifc : i = client.i BY HereIs
<1>2. /\ Held(i) /\ bus = "gone" /\ AllIdle /\ Walking /\ ~GoneNews
      /\ user.pc \notin {"final", "delay", "add", "insert", "count"} /\ aux.pc = "idle"
      /\ user.op = "none" \/ user.i # i
  BY <1>1, WalkingIs, Known DEF AuxType
<1>3. ifc[i].st \in {"IDLE", "READY", "ACTIVE"} BY <1>1, WalkingIs
<1>4. UNCHANGED <<dev, drv, bus, plugs, calls, env, level, msgs, user, aux>> /\ crash' = "none"
  OBVIOUS
<1>5. /\ client' \in ClientType /\ client'.pc = "walk" /\ client'.i = client.i /\ client'.cur = client.cur
      /\ client'.cur # 0 => Held(client'.cur) /\ client'.cur > i
  BY <1>1, Known DEF ClientType, UacInv, ClientPlace
<1>6. ifc' \in [Ifc -> IfcType] /\ ifc'[i] = NoIfc /\ \A j \in Ifc : j # i => ifc'[j] = ifc[j]
  BY <1>1, Known, NothingIs
<1>7. \/ phys.cnt = 2 /\ phys' = [phys EXCEPT !.cnt = 1] /\ hdl' = hdl
      \/ phys.cnt = 1 /\ phys' = NoPhys /\ hdl' = 0
  <2>1. phys.cnt \in 1..2 /\ Counted = phys.cnt - 1 BY WalkingIs, CountedIs
  <2> QED BY <2>1 DEF PhysClosed
<1>8. /\ phys' \in PhysType /\ phys'.cnt = phys.cnt - 1 /\ hdl' \in 0..MaxPlugs
      /\ phys'.ctl.urb = "idle" /\ (phys'.ctl.sem => phys'.ctl = phys.ctl)
      /\ \/ phys.cnt = 2 /\ phys'.st = phys.st /\ hdl' = hdl
         \/ phys.cnt = 1 /\ phys' = NoPhys /\ hdl' = 0
  <2>1. phys.ctl.urb = "idle" BY <1>2 DEF AllIdle
  <2>2. phys \in PhysType /\ hdl \in 0..MaxPlugs BY Known
  <2>3. CASE phys.cnt = 2 /\ phys' = [phys EXCEPT !.cnt = 1] /\ hdl' = hdl
    BY <2>1, <2>2, <2>3 DEF PhysType
  <2>4. CASE phys.cnt = 1 /\ phys' = NoPhys /\ hdl' = 0
    <3>1. NoPhys.cnt = 0 /\ NoPhys.ctl.urb = "idle" /\ ~NoPhys.ctl.sem
      BY DEF NoPhys, NoCtl
    <3> QED BY <2>4, <3>1, NothingIs, ConstantsAre
  <2> QED BY <1>7, <2>3, <2>4
<1>9. NoIfc.st = "free" /\ ~NoIfc.told /\ ~NoIfc.wait /\ NoIfc.vol = 0 /\ NoIfc.buf = 0 /\ \A k \in Xfer : NoIfc.x[k] = NoXfer
  BY DEF NoIfc
<1>10. TypeOK'
  BY <1>1, <1>2, <1>3, <1>4, <1>5, <1>6, <1>7, <1>8, <1>9, Known, NothingIs, ConstantsAre, TypesWillBe
<1>11. IfcsAre'
  <2> SUFFICES ASSUME NEW j \in Ifc PROVE IfcIs(j, ifc[j])'
    BY DEF IfcsAre
  <2>1. IfcIs(j, ifc[j]) BY DEF UacInv, IfcsAre
  <2>2. CASE j = i BY <1>4, <1>6, <1>9, <2>2 DEF IfcIs, Claimed
  <2>3. CASE j # i BY <1>4, <1>6, <2>1, <2>3 DEF IfcIs, Claimed
  <2> QED BY <2>2, <2>3
<1>12. UserPlace' BY <1>2, <1>3, <1>4, <1>6, <1>9, UserStaysBut
<1>13. CtlPlace'
  <2>1. phys'.ctl.sem => phys'.ctl = phys.ctl BY <1>8
  <2> QED BY <1>2, <1>4, <1>8, <2>1 DEF UacInv, CtlPlace
<1>14. Handle'
  <2>1. phys.cnt = Num(RX) + Num(TX) /\ Num(i) = 1 /\ Num(RX) \in {0, 1} /\ Num(TX) \in {0, 1}
    BY <1>2, WalkingIs DEF UacInv, Handle, Num, Held
  <2>2. Num(i)' = 0 /\ \A j \in Ifc : j # i => Num(j)' = Num(j)
    BY <1>6, <1>9 DEF Num
  <2>3. phys'.cnt = Num(RX)' + Num(TX)' /\ RX # TX
    BY <1>1, <1>8, <2>1, <2>2, ConstantsAre DEF RX, TX
  <2>4. phys'.st = "none" => phys' = NoPhys BY <1>8, WalkingIs
  <2> QED
    <3>1. client.pc \in {"lock", "cb"} /\ phys.cnt \in 1..2 /\ hdl # 0
      BY WalkingIs
    <3>2. drv = "up" /\ plugs # 0 BY <1>2, <3>1, Known DEF UacInv, Handle
    <3>3. phys'.cnt + (IF user'.pc \in {"count", "delay"} THEN 1 ELSE 0) = Num(RX)' + Num(TX)'
      BY <1>2, <1>4, <1>8, <2>3, <3>1
    <3>4. CASE phys.cnt = 2
      BY <1>2, <1>4, <1>5, <1>8, <2>4, <3>1, <3>2, <3>3, <3>4 DEF UacInv, Handle
    <3>5. CASE phys.cnt = 1
      <4>1. phys' = NoPhys /\ hdl' = 0 /\ NoPhys.st = "none"
        BY <1>8, <3>5 DEF NoPhys
      <4> QED BY <1>2, <1>4, <1>5, <3>2, <3>3, <4>1 DEF Handle
    <3> QED BY <3>1, <3>4, <3>5
<1>15. Messages' BY <1>2, <1>4, <1>8 DEF UacInv, Messages, GoneNews
<1>16. ClientPlace'
  <2>1. AllIdle'
    <3>1. \A j \in Ifc : \A k \in Xfer : ifc'[j].x[k].urb = "idle"
      BY <1>2, <1>6, <1>9 DEF AllIdle, NoXfer
    <3> QED BY <1>8, <3>1 DEF AllIdle
  <2>2. \A j \in Ifc : Held(j)' => Held(j) /\ j # i /\ ifc'[j] = ifc[j]
    BY <1>6, <1>9 DEF Held
  <2>3. \A j \in Ifc : ~ifc'[j].wait
    BY <1>1, <1>6, <1>9 DEF UacInv, ClientPlace
  <2>4. client'.cur # 0 => Held(client.cur)'
    BY <1>5, <1>6, HereIs, ConstantsAre DEF Held
  <2>5. ~GoneNews' BY <1>2, <1>4 DEF GoneNews
  <2>6. \A j \in Ifc : Held(j)' => ifc'[j].told \/ (client'.cur # 0 /\ j >= client'.cur)
    BY <1>1, <1>2, <1>5, <2>2 DEF UacInv, ClientPlace
  <2> QED BY <1>2, <1>4, <1>5, <2>1, <2>3, <2>4, <2>5, <2>6 DEF ClientPlace, Walking, Leaving, Held
<1>17. AuxPlace' BY <1>2, <1>4 DEF AuxPlace, UacInv
<1>18. Streaming'
  <2>1. \A j \in Ifc : \A k \in Xfer : ifc'[j].x[k].urb # "flight"
    BY <1>2, <1>6, <1>9 DEF AllIdle, NoXfer
  <2> QED BY <1>2, <1>4, <2>1 DEF Streaming
<1>19. VolumeKnown'
  <2>1. ifc'[user.i].vol = 0 \/ ifc'[user.i].vol = ifc[user.i].vol
    BY <1>6, <1>9, HereIs
  <2> QED BY <1>2, <1>4, <2>1 DEF VolumeKnown, UacInv
<1>20. RangeKnown' BY <1>2, <1>4, <1>6, <1>9 DEF UacInv, RangeKnown, Claimed
<1> QED
  BY <1>4, <1>10, <1>11, <1>12, <1>13, <1>14, <1>15, <1>16, <1>17, <1>18, <1>19, <1>20 DEF UacInv,
    NoAbuse

\* The driver's task releases an interface and tells the user.
LEMMA ToldKeeps ==
    ASSUME UacInv,
           client.pc = "lock",
           ~Locked(client.i),
           ifc[client.i].cb,
           UNCHANGED <<dev, drv, bus, plugs, calls, env, level, msgs, hdl, phys, user, aux>>,
           crash' = "none",
           client' = [client EXCEPT !.pc = "cb"],
           NEW z \in IfcType,
           ifc' = [ifc EXCEPT ![client.i] = z],
           z.st = "IDLE" /\ z.told /\ z.cb /\ ~z.wait /\ z.buf = 0 /\ z.vol = ifc[client.i].vol /\ z.range = ifc[client.i].range,
           \A k \in Xfer : z.x[k] = NoXfer
    PROVE  UacInv'
<1>1. PICK i \in Ifc : i = client.i BY HereIs
<1>2. /\ Held(i) /\ bus = "gone" /\ AllIdle /\ Walking /\ ~GoneNews
      /\ user.pc \notin {"final", "delay", "add", "insert", "count"} /\ aux.pc \notin {"scan", "submit"}
      /\ user.op \in {"none", "open"} \/ user.i # i
  BY <1>1, WalkingIs
<1>3. ifc[i].st \in {"IDLE", "READY", "ACTIVE"} BY <1>1, WalkingIs
<1>4. UNCHANGED <<dev, drv, bus, plugs, calls, env, level, msgs, hdl, phys, user, aux>> /\ crash' = "none"
  OBVIOUS
<1>5. /\ client' \in ClientType /\ client'.pc = "cb" /\ client'.i = i /\ client'.cur = client.cur
      /\ client'.cur # 0 => Held(client'.cur) /\ client'.cur > i
  BY <1>1, Known DEF ClientType, UacInv, ClientPlace
<1>6. ifc' \in [Ifc -> IfcType] /\ ifc'[i] = z /\ \A j \in Ifc : j # i => ifc'[j] = ifc[j]
  BY <1>1, Known
<1>7. /\ z.st = "IDLE" /\ z.told /\ z.cb /\ ~z.wait /\ z.buf = 0 /\ z.vol = ifc[i].vol /\ z.range = ifc[i].range
      /\ \A k \in Xfer : z.x[k] = NoXfer
  BY <1>1
<1>8. TypeOK'
  BY <1>1, <1>2, <1>3, <1>4, <1>5, <1>6, <1>7, Known, NothingIs, ConstantsAre, TypesWillBe
<1>9. IfcsAre'
  <2> SUFFICES ASSUME NEW j \in Ifc PROVE IfcIs(j, ifc[j])'
    BY DEF IfcsAre
  <2>1. IfcIs(j, ifc[j]) BY DEF UacInv, IfcsAre
  <2>2. CASE j = i
    BY <1>2, <1>4, <1>6, <1>7, <2>1, <2>2 DEF IfcIs, Claimed, Held
  <2>3. CASE j # i BY <1>4, <1>6, <2>1, <2>3 DEF IfcIs, Claimed
  <2> QED BY <2>2, <2>3
<1>10. UserPlace' BY <1>2, <1>3, <1>4, <1>6, <1>7, UserStaysBut
<1>11. CtlPlace' BY <1>2, <1>4 DEF UacInv, CtlPlace
<1>12. Handle'
  <2>1. Num(RX)' = Num(RX) /\ Num(TX)' = Num(TX)
    BY <1>2, <1>6, <1>7, ConstantsAre DEF Num, Held
  <2> QED BY <1>2, <1>4, <1>5, <2>1 DEF UacInv, Handle
<1>13. Messages' BY <1>2, <1>4 DEF UacInv, Messages, GoneNews
<1>14. ClientPlace'
  <2>1. AllIdle' BY <1>2, <1>4, <1>6, <1>7 DEF AllIdle, NoXfer
  <2>2. \A j \in Ifc : Held(j)' <=> Held(j) BY <1>2, <1>6, <1>7 DEF Held
  <2>3. \A j \in Ifc : ~ifc'[j].wait
    BY <1>1, <1>6, <1>7 DEF UacInv, ClientPlace
  <2>4. client'.cur # 0 => Held(client.cur)'
    BY <1>5, <1>6, HereIs, ConstantsAre DEF Held
  <2>5. ~GoneNews' BY <1>2, <1>4 DEF GoneNews
  <2>6. \A j \in Ifc : Held(j)' => ifc'[j].told \/ (client'.cur # 0 /\ j >= client'.cur)
    BY <1>1, <1>2, <1>5, <1>6, <1>7, <2>2 DEF UacInv, ClientPlace
  <2> QED
    BY <1>1, <1>2, <1>4, <1>5, <1>6, <1>7, <2>1, <2>2, <2>3, <2>4, <2>5, <2>6 DEF ClientPlace, Walking, Leaving
<1>15. AuxPlace' BY <1>2, <1>4 DEF AuxPlace, AtOnce, UacInv
<1>16. Streaming'
  <2>1. \A j \in Ifc : \A k \in Xfer : ifc'[j].x[k].urb # "flight"
    BY <1>2, <1>6, <1>7 DEF AllIdle, NoXfer
  <2> QED BY <1>2, <1>4, <2>1 DEF Streaming
<1>17. VolumeKnown'
  <2>1. ifc'[user.i].vol = ifc[user.i].vol BY <1>6, <1>7, HereIs
  <2> QED BY <1>2, <1>4, <2>1 DEF VolumeKnown, UacInv
<1>18. RangeKnown' BY <1>2, <1>4, <1>6, <1>7 DEF UacInv, RangeKnown, Claimed
<1> QED
  BY <1>4, <1>8, <1>9, <1>10, <1>11, <1>12, <1>13, <1>14, <1>15, <1>16, <1>17, <1>18 DEF UacInv,
    NoAbuse

\* The user's callback leaves the interface alone.
LEMMA CalledKeeps ==
    ASSUME UacInv,
           client.pc = "cb",
           client' = [client EXCEPT !.pc = "walk"],
           UNCHANGED <<dev, drv, bus, plugs, calls, env, level, msgs, user, aux, ifc, phys, hdl, crash>>
    PROVE  UacInv'
<1>1. UNCHANGED <<dev, drv, bus, plugs, calls, env, level, msgs, user, aux, ifc, phys, hdl, crash>>
  OBVIOUS
<1>2. /\ client' \in ClientType /\ client.pc = "cb" /\ client'.pc = "walk" /\ client'.i = client.i /\ client'.cur = client.cur
  BY Known DEF ClientType
<1>3. user.pc \notin {"final", "delay"} /\ bus = "gone" /\ AllIdle
  BY <1>2 DEF UacInv, ClientPlace, Walking
<1>4. TypeOK'
  BY <1>1, <1>2, <1>3, Known, NothingIs, ConstantsAre, TypesWillBe
<1>5. IfcsAre'
  BY <1>1, <1>2, <1>3, ConstantsAre, HereIs DEF UacInv, IfcsAre, IfcIs, Claimed
<1>6. UserPlace'
  BY <1>1, <1>2, <1>3, ConstantsAre, HereIs DEF UacInv, UserPlace, Waiting, Halts, Asks, AtOnce
<1>7. CtlPlace'
  BY <1>1, <1>2, <1>3, ConstantsAre, HereIs DEF UacInv, CtlPlace
<1>8. Handle'
  BY <1>1, <1>2, <1>3, ConstantsAre, HereIs DEF UacInv, Handle, Num
<1>9. Messages'
  BY <1>1, <1>2, <1>3, ConstantsAre, HereIs DEF UacInv, Messages, GoneNews, AllIdle
<1>10. ClientPlace'
  BY <1>1, <1>2, <1>3, ConstantsAre, HereIs DEF UacInv, ClientPlace, Held, Leaving, Walking, AllIdle,
    GoneNews
<1>11. AuxPlace'
  BY <1>1, <1>2, <1>3, ConstantsAre, HereIs DEF UacInv, AuxPlace, AtOnce
<1>12. Streaming'
  BY <1>1, <1>2, <1>3, ConstantsAre, HereIs DEF UacInv, Streaming, TxIs, TxRuns, Ready, Running
<1>13. VolumeKnown'
  BY <1>1, <1>2, <1>3, ConstantsAre, HereIs DEF UacInv, VolumeKnown, IsSet, Leaving
<1>14. RangeKnown'
  BY <1>1, <1>2, <1>3, ConstantsAre, HereIs DEF UacInv, RangeKnown, Held, Leaving, Claimed
<1> QED
  BY <1>1, <1>4, <1>5, <1>6, <1>7, <1>8, <1>9, <1>10, <1>11, <1>12, <1>13, <1>14 DEF UacInv, NoAbuse

\* ... and so uac_host_interface_shutdown() keeps the invariant.
LEMMA WalkShutKeeps ==
    ASSUME UacInv, WalkShut
    PROVE  UacInv'
<1>1. PICK i \in Ifc : i = client.i BY HereIs
<1>2. client.pc = "lock" /\ AllIdle /\ ifc[i] \in IfcType
  BY <1>1, Known DEF WalkShut, UacInv, ClientPlace
<1>3. ~Locked(i) BY <1>1, <1>2 DEF WalkShut, AllIdle, Done
<1>4. PICK y : y = IF ifc[i].st = "ACTIVE" THEN Suspended(ifc[i]) ELSE ifc[i]
  OBVIOUS
<1>5. /\ y \in IfcType /\ y.cb = ifc[i].cb /\ y.vol = ifc[i].vol /\ y.range = ifc[i].range /\ y.buf = 0
      /\ \A k \in Xfer : y.x[k].urb = "idle"
  <2>1. CASE ifc[i].st = "ACTIVE"
    BY <1>2, <1>4, <2>1, SuspendedIs DEF AllIdle
  <2>2. CASE ifc[i].st # "ACTIVE"
    <3>1. ifc[i].st \in {"IDLE", "READY"}
      BY <1>1, <1>2, <1>3, <2>2, WalkingIs
    <3> QED BY <1>2, <1>4, <2>2, <3>1 DEF UacInv, IfcsAre, IfcIs, AllIdle
  <2> QED BY <2>1, <2>2
<1>6. Idle(y) BY <1>5 DEF Idle
<1>7. /\ ifc' = [ifc EXCEPT ![i] = Shut(i, y)]
      /\ IF ~y.cb THEN PhysClosed(TRUE) ELSE UNCHANGED <<phys, hdl>>
      /\ client' = [client EXCEPT !.pc = IF y.cb THEN "cb" ELSE "walk"]
      /\ UNCHANGED <<dev, drv, bus, plugs, calls, env, level, msgs, user, aux>>
      /\ Fails(~y.cb => phys.ctl.urb = "idle" /\ Counted < 255 /\ Unused(i),
               "closed more often than opened, or in use")
  <2>1. /\ ifc' = [ifc EXCEPT ![i] = IF ~Locked(i) /\ Idle(y) THEN Shut(i, y) ELSE IF Locked(i) THEN @ ELSE y]
        /\ IF ~Locked(i) /\ Idle(y) /\ ~y.cb THEN PhysClosed(TRUE) ELSE UNCHANGED <<phys, hdl>>
        /\ client' = [client EXCEPT !.pc = IF ~(~Locked(i) /\ Idle(y)) THEN "msgs" ELSE IF y.cb THEN "cb" ELSE "walk"]
        /\ UNCHANGED <<dev, drv, bus, plugs, calls, env, level, msgs, user, aux>>
        /\ Fails(~Locked(i) /\ Idle(y) /\ ~y.cb => phys.ctl.urb = "idle" /\ Counted < 255 /\ Unused(i),
                 "closed more often than opened, or in use")
    BY <1>1, <1>4 DEF WalkShut, outside
  <2> QED BY <1>3, <1>6, <2>1
<1>8. CASE y.cb
  <2>1. PICK z : z = Shut(i, y) OBVIOUS
  <2>2. z = [y EXCEPT !.st = "IDLE", !.x = [k \in Xfer |-> NoXfer], !.wait = FALSE, !.told = TRUE]
    BY <1>5, <1>8, <2>1 DEF Shut, Released, IfcType
  <2>3. /\ z \in IfcType /\ z.st = "IDLE" /\ z.told /\ z.cb /\ ~z.wait /\ z.buf = 0
        /\ z.vol = ifc[i].vol /\ z.range = ifc[i].range /\ \A k \in Xfer : z.x[k] = NoXfer
    BY <1>5, <1>8, <2>2, NothingIs DEF IfcType
  <2>4. crash' = "none" BY <1>7, <1>8, Known DEF Fails
  <2> QED BY <1>1, <1>2, <1>3, <1>5, <1>7, <1>8, <2>1, <2>3, <2>4, ToldKeeps
<1>9. CASE ~y.cb
  <2>1. Shut(i, y) = NoIfc BY <1>9 DEF Shut
  <2>2. AtOnce /\ ifc[i].st # "free" /\ phys.cnt \in 1..2
    <3>1. ifc[i].st \notin {"free", "NOT_INIT"} /\ phys.cnt \in 1..2
      BY <1>1, <1>2, <1>3, WalkingIs
    <3> QED BY <1>5, <1>9, <3>1 DEF UacInv, IfcsAre, IfcIs, AtOnce
  <2>3. Unused(i)
    BY <1>1, <1>2, <1>3, <2>2, WalkingIs, Known DEF Unused, AuxType
  <2>4. crash' = "none"
    <3>1. phys.ctl.urb = "idle" /\ Counted < 255
      BY <1>2, <2>2, CountedIs DEF AllIdle
    <3> QED BY <1>7, <2>3, <3>1, Known DEF Fails
  <2> QED BY <1>1, <1>2, <1>3, <1>7, <1>9, <2>1, <2>2, <2>4, FreedKeeps
<1> QED BY <1>8, <1>9

\* The user's callback, which may close the interface, is called.
LEMMA CallbackKeeps ==
    ASSUME UacInv, Callback
    PROVE  UacInv'
<1>1. PICK i \in Ifc : i = client.i BY HereIs
<1>2. /\ client.pc = "cb" /\ ("incb" \in env => ~Locked(i)) /\ client' = [client EXCEPT !.pc = "walk"]
      /\ UNCHANGED <<dev, drv, bus, plugs, calls, env, level, msgs, user, aux>>
  BY <1>1 DEF Callback, outside
<1>3. CASE "incb" \in env /\ ifc[i].st # "free" /\ ~ifc[i].wait
  <2>1. /\ ~Locked(client.i) /\ AtOnce /\ ifc' = [ifc EXCEPT ![client.i] = NoIfc] /\ PhysClosed(Closable)
        /\ Fails(Unused(i), "interface freed in use")
    BY <1>1, <1>2, <1>3 DEF Callback, AtOnce
  <2>2. Unused(i) BY <1>1, <1>2, <2>1, WalkingIs, Known DEF Unused, AuxType
  <2>3. crash' = "none" BY <2>1, <2>2, Known DEF Fails
  <2>4. phys.cnt \in 1..2 /\ hdl # 0 /\ user.pc \notin {"count", "delay"} /\ Counted = phys.cnt - 1
    BY <1>2, <2>1, WalkingIs, CountedIs
  <2>5. Counted = 0 => Closable
    <3> SUFFICES ASSUME Counted = 0, NEW j \in Ifc, Claimed(ifc[j]) PROVE FALSE
      BY <2>4 DEF Closable
    <3>1. ifc[i].st = "IDLE" BY <1>1, <1>2 DEF UacInv, ClientPlace
    <3>2. Num(i) = 1 /\ Num(j) = 1 /\ i # j BY <3>1 DEF Num, Claimed
    <3>3. Num(RX) = 1 /\ Num(TX) = 1 BY <3>2, ConstantsAre
    <3>4. phys.cnt = 2 BY <2>4, <3>3 DEF UacInv, Handle
    <3> QED BY <2>4, <3>4
  <2>6. PhysClosed(TRUE) BY <2>1, <2>5 DEF PhysClosed
  <2> QED BY <1>2, <2>1, <2>3, <2>6, FreedKeeps
<1>4. CASE ~("incb" \in env /\ ifc[i].st # "free" /\ ~ifc[i].wait)
  <2>1. UNCHANGED <<ifc, phys, hdl, crash>> BY <1>1, <1>4 DEF Callback
  <2> QED BY <1>2, <2>1, CalledKeeps
<1> QED BY <1>3, <1>4

-----------------------------------------------------------------------------
(* The device *)

\* usb_host_endpoint_halt() and usb_host_endpoint_flush()
LEMMA FlushedIs ==
    ASSUME NEW x \in IfcType
    PROVE  /\ Flushed(x) \in IfcType /\ Flushed(x).st = x.st /\ Flushed(x).told = x.told
           /\ Flushed(x).cb = x.cb /\ Flushed(x).wait = x.wait /\ Flushed(x).vol = x.vol
           /\ Flushed(x).range = x.range /\ Flushed(x).buf = x.buf /\ Flushed(x).failed = x.failed
           /\ \A k \in Xfer : /\ Flushed(x).x[k].list = x.x[k].list
                              /\ Flushed(x).x[k].urb = IF x.x[k].urb = "flight" THEN "doneno" ELSE x.x[k].urb
                              /\ x.x[k].urb # "flight" => Flushed(x).x[k] = x.x[k]
           /\ (\A k \in Xfer : x.x[k].urb # "flight") => Flushed(x) = x
<1>1. PICK f : f = [k \in Xfer |-> IF x.x[k].urb = "flight" THEN [x.x[k] EXCEPT !.urb = "doneno"] ELSE x.x[k]]
  OBVIOUS
<1>2. x.x \in [Xfer -> XferType] /\ \A k \in Xfer : x.x[k] \in XferType
  BY DEF IfcType
<1>3. \A k \in Xfer : /\ f[k] \in XferType /\ f[k].list = x.x[k].list
                      /\ f[k].urb = IF x.x[k].urb = "flight" THEN "doneno" ELSE x.x[k].urb
                      /\ x.x[k].urb # "flight" => f[k] = x.x[k]
  BY <1>1, <1>2 DEF XferType, Done
<1>4. Flushed(x) = [x EXCEPT !.x = f] BY <1>1 DEF Flushed, IfcType
<1>5. f \in [Xfer -> XferType] BY <1>1, <1>3
<1>6. ASSUME \A k \in Xfer : x.x[k].urb # "flight" PROVE Flushed(x) = x
  <2>1. f = x.x BY <1>1, <1>2, <1>6
  <2> QED BY <1>4, <2>1 DEF IfcType
<1>7. PICK z : z = Flushed(x) OBVIOUS
<1>8. z \in IfcType /\ z.x = f BY <1>4, <1>5, <1>7 DEF IfcType
<1>9. /\ z.st = x.st /\ z.told = x.told /\ z.cb = x.cb /\ z.wait = x.wait /\ z.vol = x.vol
      /\ z.range = x.range /\ z.buf = x.buf /\ z.failed = x.failed
  BY <1>4, <1>7 DEF IfcType
<1>10. \A k \in Xfer : /\ z.x[k].list = x.x[k].list
                       /\ z.x[k].urb = IF x.x[k].urb = "flight" THEN "doneno" ELSE x.x[k].urb
                       /\ x.x[k].urb # "flight" => z.x[k] = x.x[k]
  BY <1>3, <1>8
<1> QED BY <1>6, <1>7, <1>8, <1>9, <1>10

\* A device is plugged in: nothing is left of the one before.
LEMMA PlugKeeps ==
    ASSUME UacInv,
           Plug
    PROVE  UacInv'
<1>1. UNCHANGED <<dev, drv, user, aux, client, calls, crash, env, hdl, phys, ifc>>
  BY DEF Plug, Calm
<1>2. /\ bus # "present" /\ hdl = 0 /\ msgs = <<>> /\ drv = "up" /\ plugs' = plugs + 1 /\ plugs' \in 0..MaxPlugs
      /\ plugs' # 0 /\ bus' = "present" /\ level' \in LevelType
  BY Known, ConstantsAre DEF Plug, LevelType
<1>3. msgs' = <<"new">> BY DEF Plug
<1>4. msgs' \in Seq({"new", "gone"}) /\ ~GoneNews' /\ Len(msgs') = 1 /\ \A n \in 1 .. Len(msgs') : msgs'[n] = "new"
  BY <1>3 DEF GoneNews
<1>5. \A i \in Ifc : Held(i) => Leaving(i) BY <1>2, HeldIs
<1>6. user.i \in Ifc /\ \A i \in Ifc : ifc[i].st \in {"free", "IDLE"} /\ (ifc[i].st = "free" => ifc[i].vol = 0 /\ ~ifc[i].told)
  <2>1. \A i \in Ifc : Held(i) => ifc[i].st = "IDLE"
    BY <1>5 DEF Leaving, UacInv, UserPlace
  <2>2. NoIfc.vol = 0 /\ ~NoIfc.told BY DEF NoIfc
  <2> QED BY <2>1, <2>2, HereIs DEF Held, UacInv, IfcsAre, IfcIs
<1>7. user.op = "none" \/ user.pc = "delay"
  <2> SUFFICES ASSUME user.op # "none", user.pc # "delay" PROVE FALSE
    OBVIOUS
  <2>1. phys.st = "none" /\ user.pc # "add" /\ user \in UserType
    BY <1>2, Known DEF UacInv, Handle, PhysType
  <2>2. ifc[user.i].st = "free" BY <1>5, <1>6 DEF Held, Leaving
  <2> QED BY <2>1, <2>2 DEF UacInv, UserPlace, UserType, Waiting, Halts, Asks
<1>8. ~Walking /\ client.cur = 0 /\ client.pc \notin {"lock", "cb"}
  <2>1. user.pc = "delay" => ~Walking BY DEF UacInv, ClientPlace
  <2>2. Walking => \E i \in Ifc : Held(i)
    BY HereIs DEF UacInv, ClientPlace, Walking
  <2> QED BY <1>5, <2>1, <2>2 DEF Leaving, Walking
<1>9. /\ user.pc # "ctl" /\ user.pc # "act" /\ phys.ctl.urb = "idle" /\ ~phys.ctl.sem
      /\ user.op \in {"none", "close"} /\ aux.pc \notin {"scan", "submit"}
  BY <1>2, <1>7, Known DEF UacInv, UserPlace, CtlPlace, AuxPlace, UserType, NoCall, Waiting, Asks
<1>10. TypeOK'
  BY <1>1, <1>2, <1>3, <1>4, <1>5, <1>6, <1>7, <1>8, <1>9, Known, NothingIs, ConstantsAre, TypesWillBe
<1>11. IfcsAre'
  BY <1>1, <1>2, <1>3, <1>4, <1>5, <1>6, <1>7, <1>8, <1>9, ConstantsAre, HereIs DEF UacInv, IfcsAre,
    IfcIs, Claimed
<1>12. UserPlace'
  BY <1>1, <1>2, <1>7, <1>9 DEF UacInv, UserPlace, Waiting, Halts, Asks, AtOnce
<1>13. CtlPlace'
  BY <1>1, <1>2, <1>3, <1>4, <1>5, <1>6, <1>7, <1>8, <1>9, ConstantsAre, HereIs DEF UacInv, CtlPlace
<1>14. Handle'
  BY <1>1, <1>2, <1>3, <1>4, <1>5, <1>6, <1>7, <1>8, <1>9, ConstantsAre, HereIs DEF UacInv, Handle, Num
<1>15. Messages'
  BY <1>1, <1>2, <1>3, <1>4, <1>5, <1>6, <1>7, <1>8, <1>9, ConstantsAre, HereIs DEF UacInv, Messages,
    GoneNews, AllIdle
<1>16. ClientPlace'
  <2>1. AllIdle' <=> AllIdle BY <1>1 DEF AllIdle
  <2> QED
    BY <1>1, <1>2, <1>4, <1>5, <1>6, <1>8, <2>1 DEF UacInv, ClientPlace, Held, Leaving, Walking
<1>17. AuxPlace'
  BY <1>1, <1>2, <1>3, <1>4, <1>5, <1>6, <1>7, <1>8, <1>9, ConstantsAre, HereIs DEF UacInv, AuxPlace,
    AtOnce
<1>18. Streaming'
  BY <1>1, <1>2, <1>3, <1>4, <1>5, <1>6, <1>7, <1>8, <1>9, ConstantsAre, HereIs DEF UacInv, Streaming,
    TxIs, TxRuns, Ready, Running
<1>19. VolumeKnown'
  <2>1. \A i \in Ifc : ifc[i].vol # 0 => Leaving(i) BY <1>5, <1>6 DEF Held
  <2> QED BY <1>1, <1>9, <2>1 DEF VolumeKnown, Leaving
<1>20. RangeKnown'
  BY <1>1, <1>2, <1>3, <1>4, <1>5, <1>6, <1>7, <1>8, <1>9, ConstantsAre, HereIs DEF UacInv, RangeKnown,
    Held, Leaving, Claimed
<1> QED
  BY <1>1, <1>10, <1>11, <1>12, <1>13, <1>14, <1>15, <1>16, <1>17, <1>18, <1>19, <1>20 DEF UacInv,
    NoAbuse

\* Another device is plugged in.
LEMMA PlugOtherKeeps ==
    ASSUME UacInv,
           PlugOther
    PROVE  UacInv'
<1>1. UNCHANGED <<dev, drv, bus, plugs, env, level, hdl, phys, ifc, user, aux, client, crash>>
  BY DEF PlugOther, Call
<1>2. "other" \in env /\ drv = "up" /\ calls' \in 0..MaxCalls /\ msgs' = Append(msgs, "new")
  BY Known, ConstantsAre DEF PlugOther, Call
<1>3. /\ msgs' \in Seq({"new", "gone"}) /\ Len(msgs') = Len(msgs) + 1 /\ Len(msgs) \in Nat /\ msgs'[Len(msgs')] = "new"
      /\ \A n \in 1 .. Len(msgs) : msgs'[n] = msgs[n]
  BY <1>2, Known
<1>4. \A n \in 1 .. Len(msgs') : msgs'[n] = "gone" => n \in 1 .. Len(msgs) /\ msgs[n] = "gone"
  BY <1>3
<1>5. \A n \in 1 .. Len(msgs) : msgs[n] = "gone" => n \in 1 .. Len(msgs') /\ msgs'[n] = "gone"
  BY <1>3
<1>6. GoneNews' <=> GoneNews BY <1>4, <1>5 DEF GoneNews
<1>7. TypeOK'
  BY <1>1, <1>2, <1>3, <1>4, <1>5, <1>6, Known, NothingIs, ConstantsAre, TypesWillBe
<1>8. IfcsAre'
  BY <1>1, <1>2, <1>3, <1>4, <1>5, <1>6, ConstantsAre, HereIs DEF UacInv, IfcsAre, IfcIs, Claimed
<1>9. UserPlace'
  BY <1>1, <1>2, <1>3, <1>4, <1>5, <1>6, ConstantsAre, HereIs DEF UacInv, UserPlace, Waiting, Halts,
    Asks, AtOnce
<1>10. CtlPlace'
  BY <1>1, <1>2, <1>3, <1>4, <1>5, <1>6, ConstantsAre, HereIs DEF UacInv, CtlPlace
<1>11. Handle'
  BY <1>1, <1>2, <1>3, <1>4, <1>5, <1>6, ConstantsAre, HereIs DEF UacInv, Handle, Num
<1>12. Messages'
  <2>1. \A m, n \in 1 .. Len(msgs') : msgs'[m] = "gone" /\ msgs'[n] = "gone" => m = n
    BY <1>4 DEF UacInv, Messages
  <2>2. AllIdle' <=> AllIdle BY <1>1 DEF AllIdle
  <2> QED BY <1>1, <1>2, <1>6, <2>1, <2>2 DEF UacInv, Messages
<1>13. ClientPlace'
  <2>1. AllIdle' <=> AllIdle BY <1>1 DEF AllIdle
  <2> QED BY <1>1, <1>6, <2>1 DEF UacInv, ClientPlace, Held, Leaving, Walking
<1>14. AuxPlace'
  BY <1>1, <1>2, <1>3, <1>4, <1>5, <1>6, ConstantsAre, HereIs DEF UacInv, AuxPlace, AtOnce
<1>15. Streaming'
  BY <1>1, <1>2, <1>3, <1>4, <1>5, <1>6, ConstantsAre, HereIs DEF UacInv, Streaming, TxIs, TxRuns,
    Ready, Running
<1>16. VolumeKnown'
  BY <1>1, <1>2, <1>3, <1>4, <1>5, <1>6, ConstantsAre, HereIs DEF UacInv, VolumeKnown, IsSet, Leaving
<1>17. RangeKnown'
  BY <1>1, <1>2, <1>3, <1>4, <1>5, <1>6, ConstantsAre, HereIs DEF UacInv, RangeKnown, Held, Leaving,
    Claimed
<1> QED
  BY <1>1, <1>7, <1>8, <1>9, <1>10, <1>11, <1>12, <1>13, <1>14, <1>15, <1>16, <1>17 DEF UacInv, NoAbuse

\* The device goes: its transfers end, and the client is told.
LEMMA UnplugKeeps ==
    ASSUME UacInv,
           Unplug
    PROVE  UacInv'
<1>1. UNCHANGED <<dev, drv, user, aux, client, calls, crash, env, level, plugs, hdl>> /\ bus = "present" /\ bus' = "gone"
  BY DEF Unplug, Calm
<1>2. /\ user.op # "open" \/ (user.pc \in {"ctl", "act"} /\ ~AtOnce)
      /\ client.pc # "new" /\ user.pc \notin {"final", "delay"}
      /\ aux.pc = "idle" \/ (aux.pc = "read" /\ ~AtOnce)
      /\ client.pc = "idle" \/ "loop" \in env
  BY Spared DEF Unplug
<1>3. user.pc \notin {"add", "insert", "count", "final", "delay"}
  BY <1>2 DEF UacInv, UserPlace
<1>4. client.pc # "idle" => hdl = 0 /\ "other" \notin env
  BY <1>1, <1>2, Spared DEF UacInv, Messages
<1>5. hdl # 0 => phys.st = "listed" /\ client.pc = "idle"
  BY <1>1, <1>2, <1>3, <1>4 DEF UacInv, Handle
<1>6. \A i \in Ifc : Held(i) => hdl # 0 BY <1>3, HeldIs DEF Leaving
<1>7. ~GoneNews BY <1>1 DEF UacInv, Messages
<1>8. msgs' = IF hdl # 0 THEN Append(msgs, "gone") ELSE msgs BY DEF Unplug
<1>9. /\ msgs' \in Seq({"new", "gone"}) /\ (GoneNews' <=> hdl # 0)
      /\ \A m, n \in 1 .. Len(msgs') : msgs'[m] = "gone" /\ msgs'[n] = "gone" => m = n
  <2>1. \A n \in 1 .. Len(msgs) : msgs[n] # "gone" BY <1>7 DEF GoneNews
  <2>2. CASE hdl = 0 BY <1>8, <2>1, <2>2, Known DEF GoneNews
  <2>3. CASE hdl # 0
    <3>1. msgs' = Append(msgs, "gone") /\ msgs \in Seq({"new", "gone"}) /\ Len(msgs) \in Nat
      BY <1>8, <2>3, Known
    <3>2. /\ msgs' \in Seq({"new", "gone"}) /\ Len(msgs') = Len(msgs) + 1 /\ msgs'[Len(msgs) + 1] = "gone"
          /\ \A n \in 1 .. Len(msgs) : msgs'[n] = msgs[n]
      BY <3>1
    <3>3. Len(msgs) + 1 \in 1 .. Len(msgs') BY <3>1, <3>2
    <3>4. \A n \in 1 .. Len(msgs') : msgs'[n] = "gone" => n = Len(msgs) + 1
      BY <2>1, <3>1, <3>2
    <3> QED BY <2>3, <3>2, <3>3, <3>4 DEF GoneNews
  <2> QED BY <2>2, <2>3
<1>10. /\ ifc' \in [Ifc -> IfcType]
       /\ \A i \in Ifc :
             /\ ifc'[i].st = ifc[i].st /\ ifc'[i].told = ifc[i].told /\ ifc'[i].cb = ifc[i].cb
             /\ ifc'[i].wait = ifc[i].wait /\ ifc'[i].vol = ifc[i].vol /\ ifc'[i].range = ifc[i].range
             /\ ifc'[i].buf = ifc[i].buf /\ ifc'[i].failed = ifc[i].failed
             /\ \A k \in Xfer : /\ ifc'[i].x[k].list = ifc[i].x[k].list /\ ifc'[i].x[k].urb # "flight"
                                /\ ifc[i].x[k].urb # "flight" => ifc'[i].x[k] = ifc[i].x[k]
             /\ (\A k \in Xfer : ifc[i].x[k].urb # "flight") => ifc'[i] = ifc[i]
  <2>1. ifc' = [i \in Ifc |-> Flushed(ifc[i])] /\ \A i \in Ifc : ifc[i] \in IfcType
    BY Known DEF Unplug
  <2>2. \A i \in Ifc : ifc'[i] = Flushed(ifc[i]) /\ Flushed(ifc[i]) \in IfcType
    BY <2>1, FlushedIs
  <2>3. ifc' \in [Ifc -> IfcType] BY <2>1, <2>2
  <2> SUFFICES ASSUME NEW i \in Ifc
               PROVE  /\ ifc'[i].st = ifc[i].st /\ ifc'[i].told = ifc[i].told /\ ifc'[i].cb = ifc[i].cb
                      /\ ifc'[i].wait = ifc[i].wait /\ ifc'[i].vol = ifc[i].vol /\ ifc'[i].range = ifc[i].range
                      /\ ifc'[i].buf = ifc[i].buf /\ ifc'[i].failed = ifc[i].failed
                      /\ \A k \in Xfer : /\ ifc'[i].x[k].list = ifc[i].x[k].list /\ ifc'[i].x[k].urb # "flight"
                                         /\ ifc[i].x[k].urb # "flight" => ifc'[i].x[k] = ifc[i].x[k]
                      /\ (\A k \in Xfer : ifc[i].x[k].urb # "flight") => ifc'[i] = ifc[i]
    BY <2>3
  <2>4. PICK x \in IfcType : x = ifc[i] BY <2>1
  <2>5. ifc'[i] = Flushed(x) BY <2>2, <2>4
  <2> QED BY <2>4, <2>5, FlushedIs
<1>11. /\ phys' \in PhysType /\ phys'.st = phys.st /\ phys'.cnt = phys.cnt /\ phys'.ctl.sem = phys.ctl.sem
       /\ phys'.ctl.ok = phys.ctl.ok /\ phys'.ctl.urb # "flight"
       /\ phys'.ctl.urb = IF phys.ctl.urb = "flight" THEN "doneno" ELSE phys.ctl.urb
       /\ phys.ctl.urb # "flight" => phys' = phys
  <2>1. phys \in PhysType /\ phys.ctl \in CtlType BY Known DEF PhysType
  <2>2. phys' = [phys EXCEPT !.ctl.urb = IF phys.ctl.urb = "flight" THEN "doneno" ELSE phys.ctl.urb]
    BY DEF Unplug
  <2>3. CASE phys.ctl.urb = "flight"
    BY <2>1, <2>2, <2>3 DEF PhysType, CtlType, Done
  <2>4. CASE phys.ctl.urb # "flight"
    BY <2>1, <2>2, <2>4 DEF PhysType, CtlType
  <2> QED BY <2>3, <2>4
<1>12. AllIdle => AllIdle' BY <1>10, <1>11 DEF AllIdle
<1>13. TypeOK'
  BY <1>1, <1>2, <1>3, <1>4, <1>5, <1>6, <1>7, <1>8, <1>9, <1>10, <1>11, <1>12, Known, NothingIs,
    ConstantsAre, TypesWillBe
<1>14. IfcsAre'
  <2> SUFFICES ASSUME NEW j \in Ifc PROVE IfcIs(j, ifc[j])'
    BY DEF IfcsAre
  <2>1. IfcIs(j, ifc[j]) BY DEF UacInv, IfcsAre
  <2>2. ifc[j].st \in {"free", "NOT_INIT", "IDLE"} => ifc'[j] = ifc[j]
    BY <1>10, <2>1 DEF IfcIs, NoXfer
  <2>3. CASE ifc[j].st \in {"free", "NOT_INIT", "IDLE"}
    BY <1>1, <2>1, <2>2, <2>3 DEF IfcIs, Claimed
  <2>4. CASE ifc[j].st \notin {"free", "NOT_INIT", "IDLE"}
    BY <1>1, <1>10, <2>1, <2>4 DEF IfcIs, Claimed
  <2> QED BY <2>3, <2>4
<1>15. UserPlace'
  <2>1. ifc'[user.i].st = ifc[user.i].st BY <1>10, HereIs
  <2>2. user.op \in {"start", "resume"} => \A k \in Xfer : ifc'[user.i].x[k] = ifc[user.i].x[k]
    BY <1>10, HereIs DEF UacInv, UserPlace, Ready
  <2> QED
    BY <1>1, <1>2, <1>3, <1>10, <1>11, <2>1, <2>2 DEF UacInv, UserPlace, Waiting, Halts, Asks, AtOnce
<1>16. CtlPlace' BY <1>1, <1>11 DEF UacInv, CtlPlace
<1>17. Handle'
  <2>1. Num(RX)' = Num(RX) /\ Num(TX)' = Num(TX)
    BY <1>10, ConstantsAre DEF Num
  <2>2. phys.st = "none" => phys' = phys BY <1>11, TransferIs
  <2> QED BY <1>1, <1>3, <1>5, <1>7, <1>8, <1>11, <2>1, <2>2 DEF UacInv, Handle
<1>18. Messages' BY <1>1, <1>3, <1>5, <1>9, <1>11 DEF UacInv, Messages
<1>19. ClientPlace'
  <2>1. ~Walking BY <1>1 DEF UacInv, ClientPlace
  <2>2. \A j \in Ifc : Held(j)' <=> Held(j) BY <1>10 DEF Held
  <2> QED
    BY <1>1, <1>3, <1>6, <1>9, <1>10, <1>12, <2>1, <2>2, HereIs DEF UacInv, ClientPlace, Walking, Leaving
<1>20. AuxPlace' BY <1>1, <1>2 DEF UacInv, AuxPlace, AtOnce
<1>21. Streaming'
  <2>1. \A i \in Ifc : \A k \in Xfer : ifc'[i].x[k].urb # "flight" BY <1>10
  <2> QED BY <1>1, <2>1 DEF Streaming
<1>22. VolumeKnown'
  <2>1. ifc'[user.i].vol = ifc[user.i].vol BY <1>10, HereIs
  <2> QED BY <1>1, <2>1 DEF UacInv, VolumeKnown
<1>23. RangeKnown' BY <1>1, <1>10 DEF UacInv, RangeKnown, Claimed
<1> QED
  BY <1>1, <1>13, <1>14, <1>15, <1>16, <1>17, <1>18, <1>19, <1>20, <1>21, <1>22, <1>23 DEF UacInv,
    NoAbuse

-----------------------------------------------------------------------------
(* The controlling task: what it does next *)

\* The controlling task takes a step while the driver's task has nothing to do, or waits.
LEMMA TaskIs ==
    ASSUME UacInv, Others, user.op # "none"
    PROVE  /\ drv = "up" /\ aux.pc = "idle" /\ user \in UserType /\ bus \in {"present", "gone"}
           /\ \/ ClientIdle /\ client.pc = "idle" /\ msgs = <<>>
              \/ client.pc = "lock" /\ client.i = user.i /\ bus = "gone" /\ AllIdle /\ user.op # "open" /\ user.pc # "delay"
           /\ ~GoneNews
<1>1. drv = "up" /\ aux.pc = "idle" /\ user \in UserType /\ bus \in {"present", "gone"}
  BY Known DEF UacInv, Handle, AuxPlace, UserPlace
<1>2. CASE ClientIdle BY <1>1, <1>2, IdleIs
<1>3. CASE ClientWaits BY <1>1, <1>3, WaitsIs
<1> QED BY <1>2, <1>3, OthersAre

\* The device is added to the list.
LEMMA OpenAddKeeps ==
    ASSUME UacInv,
           OpenAdd
    PROVE  UacInv'
<1>1. UNCHANGED <<dev, drv, bus, plugs, calls, env, level, msgs, hdl, ifc, aux, client, crash>>
  BY DEF OpenAdd, At, outside
<1>2. user.op = "open" /\ user.pc = "add" /\ Others BY DEF OpenAdd, At
<1>3. phys' = [NoPhys EXCEPT !.st = "listed"] /\ user' = [user EXCEPT !.pc = "insert"]
  BY DEF OpenAdd, Now
<1>4. user \in UserType /\ ClientIdle /\ ~GoneNews
  BY <1>2, OthersAre, WaitsIs, IdleIs, Known
<1>5. /\ user' \in UserType /\ user'.op = "open" /\ user'.pc = "insert" /\ user'.i = user.i /\ user'.left = user.left
      /\ user'.ok = user.ok /\ user'.v = user.v
  BY <1>2, <1>3, <1>4 DEF UserType
<1>6. /\ phys' \in PhysType /\ phys'.st = "listed" /\ phys'.cnt = 0 /\ phys'.ctl.urb = "idle" /\ ~phys'.ctl.sem
      /\ phys'.st # "none"
  <2>1. phys' = [st |-> "listed", cnt |-> 0, ctl |-> NoCtl]
    BY <1>3 DEF NoPhys
  <2>2. NoCtl \in CtlType /\ NoCtl.urb = "idle" /\ ~NoCtl.sem
    BY DEF NoCtl, CtlType
  <2> QED BY <2>1, <2>2 DEF PhysType
<1>7. phys.st = "none" /\ phys.cnt = 0 /\ ifc[user.i].st = "free" /\ bus = "present" /\ hdl # 0
  BY <1>2 DEF UacInv, UserPlace, Handle, NoPhys
<1>8. client.pc = "idle" /\ client.cur = 0 BY <1>4, IdleIs
<1>9. TypeOK'
  BY <1>1, <1>2, <1>3, <1>4, <1>5, <1>6, <1>7, <1>8, Known, NothingIs, ConstantsAre, TypesWillBe
<1>10. IfcsAre'
  BY <1>1, <1>2, <1>3, <1>4, <1>5, <1>6, <1>7, <1>8, ConstantsAre, HereIs DEF UacInv, IfcsAre, IfcIs,
    Claimed
<1>11. UserPlace'
  BY <1>1, <1>2, <1>3, <1>4, <1>5, <1>6, <1>7, <1>8, ConstantsAre, HereIs DEF UacInv, UserPlace,
    Waiting, Halts, Asks, AtOnce
<1>12. CtlPlace'
  BY <1>1, <1>2, <1>3, <1>4, <1>5, <1>6, <1>7, <1>8, ConstantsAre, HereIs DEF UacInv, CtlPlace
<1>13. Handle'
  BY <1>1, <1>2, <1>3, <1>4, <1>5, <1>6, <1>7, <1>8, ConstantsAre, HereIs DEF UacInv, Handle, Num
<1>14. Messages'
  BY <1>1, <1>2, <1>3, <1>4, <1>5, <1>6, <1>7, <1>8, ConstantsAre, HereIs DEF UacInv, Messages,
    GoneNews, AllIdle
<1>15. ClientPlace'
  BY <1>1, <1>2, <1>3, <1>4, <1>5, <1>6, <1>7, <1>8, ConstantsAre, HereIs DEF UacInv, ClientPlace,
    Held, Leaving, Walking, AllIdle, GoneNews
<1>16. AuxPlace'
  BY <1>1, <1>2, <1>3, <1>4, <1>5, <1>6, <1>7, <1>8, ConstantsAre, HereIs DEF UacInv, AuxPlace, AtOnce
<1>17. Streaming'
  BY <1>1, <1>2, <1>3, <1>4, <1>5, <1>6, <1>7, <1>8, ConstantsAre, HereIs DEF UacInv, Streaming, TxIs,
    TxRuns, Ready, Running
<1>18. VolumeKnown'
  BY <1>1, <1>2, <1>3, <1>4, <1>5, <1>6, <1>7, <1>8, ConstantsAre, HereIs DEF UacInv, VolumeKnown,
    IsSet, Leaving
<1>19. RangeKnown'
  BY <1>1, <1>2, <1>3, <1>4, <1>5, <1>6, <1>7, <1>8, ConstantsAre, HereIs DEF UacInv, RangeKnown, Held,
    Leaving, Claimed
<1> QED
  BY <1>1, <1>9, <1>10, <1>11, <1>12, <1>13, <1>14, <1>15, <1>16, <1>17, <1>18, <1>19 DEF UacInv,
    NoAbuse

\* The interface is added to the list.
LEMMA OpenInsertKeeps ==
    ASSUME UacInv,
           OpenInsert
    PROVE  UacInv'
<1>1. UNCHANGED <<dev, drv, bus, plugs, calls, env, level, msgs, hdl, phys, aux, client>>
  BY DEF OpenInsert, At, outside
<1>2. user.op = "open" /\ user.pc = "insert" /\ Others BY DEF OpenInsert, At
<1>3. PICK i \in Ifc : i = user.i BY HereIs
<1>4. user' = [user EXCEPT !.pc = "count"] /\ ifc' = [ifc EXCEPT ![i] = [NoIfc EXCEPT !.st = "NOT_INIT"]]
  BY <1>3 DEF OpenInsert, Now
<1>5. user \in UserType /\ ClientIdle /\ ~GoneNews
  BY <1>2, OthersAre, WaitsIs, IdleIs, Known
<1>6. /\ user' \in UserType /\ user'.op = "open" /\ user'.pc = "count" /\ user'.i = i /\ user'.left = user.left
      /\ user'.ok = user.ok /\ user'.v = user.v
  BY <1>2, <1>3, <1>4, <1>5 DEF UserType
<1>7. PICK y : y = [NoIfc EXCEPT !.st = "NOT_INIT"] OBVIOUS
<1>8. /\ y \in IfcType /\ y.st = "NOT_INIT" /\ y.vol = 0 /\ ~y.wait /\ ~y.told /\ ~y.range /\ y.buf = 0
      /\ \A k \in Xfer : y.x[k] = NoXfer
  BY <1>7, ConstantsAre, NothingIs DEF NoIfc, IfcType
<1>9. ifc' \in [Ifc -> IfcType] /\ ifc'[i] = y /\ \A j \in Ifc : j # i => ifc'[j] = ifc[j]
  BY <1>4, <1>7, <1>8, Known
<1>10. /\ phys.st = "listed" /\ ifc[i].st = "free" /\ ifc[i].vol = 0 /\ ~ifc[i].told /\ ~ifc[i].wait /\ bus = "present"
       /\ dev.ifs[i].dir # "none" /\ \A k \in Xfer : ifc[i].x[k] = NoXfer
  <2>1. phys.st = "listed" /\ ifc[i].st = "free" /\ bus = "present" /\ dev.ifs[i].dir # "none"
    BY <1>2, <1>3 DEF UacInv, UserPlace
  <2> QED BY <2>1 DEF UacInv, IfcsAre, IfcIs, NoIfc
<1>11. client.pc = "idle" /\ client.cur = 0 BY <1>5, IdleIs
<1>12. crash' = "none" BY <1>3, <1>10, ReadIs, Known DEF OpenInsert, Fails
<1>13. TypeOK'
  BY <1>1, <1>2, <1>3, <1>4, <1>5, <1>6, <1>7, <1>8, <1>9, <1>10, <1>11, <1>12, Known, NothingIs,
    ConstantsAre, TypesWillBe
<1>14. IfcsAre'
  BY <1>1, <1>2, <1>3, <1>4, <1>5, <1>6, <1>7, <1>8, <1>9, <1>10, <1>11, <1>12, ConstantsAre, HereIs
    DEF UacInv, IfcsAre, IfcIs, Claimed
<1>15. UserPlace'
  BY <1>1, <1>2, <1>3, <1>4, <1>5, <1>6, <1>7, <1>8, <1>9, <1>10, <1>11, <1>12, ConstantsAre, HereIs
    DEF UacInv, UserPlace, Waiting, Halts, Asks, AtOnce
<1>16. CtlPlace'
  BY <1>1, <1>2, <1>3, <1>4, <1>5, <1>6, <1>7, <1>8, <1>9, <1>10, <1>11, <1>12, ConstantsAre, HereIs
    DEF UacInv, CtlPlace
<1>17. Handle'
  <2>1. Nums' = Nums + 1 /\ Nums \in 0..2 BY <1>9, <1>10, <1>8, NumsAre
  <2>2. phys.cnt = Nums
    <3>1. Num(RX) \in {0, 1} /\ Num(TX) \in {0, 1} BY DEF Num
    <3>2. phys.cnt \in 0..255 BY Known DEF PhysType
    <3> QED BY <1>2, <3>1, <3>2 DEF UacInv, Handle, Nums
  <2>3. phys'.cnt + (IF user'.pc \in {"count", "delay"} THEN 1 ELSE 0) = Nums'
    BY <1>1, <1>6, <2>1, <2>2
  <2>4. phys'.cnt + (IF user'.pc \in {"count", "delay"} THEN 1 ELSE 0) = Num(RX)' + Num(TX)'
    BY <2>3 DEF Nums
  <2> QED BY <1>1, <1>2, <1>6, <1>10, <1>11, <2>4 DEF UacInv, Handle
<1>18. Messages'
  BY <1>1, <1>2, <1>3, <1>4, <1>5, <1>6, <1>7, <1>8, <1>9, <1>10, <1>11, <1>12, ConstantsAre, HereIs
    DEF UacInv, Messages, GoneNews, AllIdle
<1>19. ClientPlace'
  BY <1>1, <1>2, <1>3, <1>4, <1>5, <1>6, <1>7, <1>8, <1>9, <1>10, <1>11, <1>12, ConstantsAre, HereIs
    DEF UacInv, ClientPlace, Held, Leaving, Walking, AllIdle, GoneNews
<1>20. AuxPlace'
  BY <1>1, <1>2, <1>3, <1>4, <1>5, <1>6, <1>7, <1>8, <1>9, <1>10, <1>11, <1>12, ConstantsAre, HereIs
    DEF UacInv, AuxPlace, AtOnce
<1>21. Streaming'
  BY <1>1, <1>2, <1>3, <1>4, <1>5, <1>6, <1>7, <1>8, <1>9, <1>10, <1>11, <1>12, ConstantsAre, HereIs
    DEF UacInv, Streaming, TxIs, TxRuns, Ready, Running
<1>22. VolumeKnown'
  BY <1>1, <1>2, <1>3, <1>4, <1>5, <1>6, <1>7, <1>8, <1>9, <1>10, <1>11, <1>12, ConstantsAre, HereIs
    DEF UacInv, VolumeKnown, IsSet, Leaving
<1>23. RangeKnown'
  BY <1>1, <1>2, <1>3, <1>4, <1>5, <1>6, <1>7, <1>8, <1>9, <1>10, <1>11, <1>12, ConstantsAre, HereIs
    DEF UacInv, RangeKnown, Held, Leaving, Claimed
<1> QED
  BY <1>1, <1>12, <1>13, <1>14, <1>15, <1>16, <1>17, <1>18, <1>19, <1>20, <1>21, <1>22, <1>23 DEF
    UacInv, NoAbuse

\* The interface counts, and its volume range is asked for.
LEMMA OpenCountKeeps ==
    ASSUME UacInv,
           OpenCount
    PROVE  UacInv'
<1>1. UNCHANGED <<dev, drv, bus, plugs, calls, env, level, msgs, hdl, aux, client, crash>>
  BY DEF OpenCount, At, outside
<1>2. user.op = "open" /\ user.pc = "count" /\ Others BY DEF OpenCount, At
<1>3. PICK i \in Ifc : i = user.i BY HereIs
<1>4. user \in UserType /\ ClientIdle /\ ~GoneNews /\ client.pc = "idle" /\ client.cur = 0
  BY <1>2, OthersAre, WaitsIs, IdleIs, Known
<1>5. /\ bus = "present" /\ phys.st = "listed" /\ ifc[i].st = "NOT_INIT" /\ phys.ctl.urb = "idle" /\ ~phys.ctl.sem
      /\ dev.ifs[i].dir # "none" /\ ifc[i].vol = 0 /\ ~ifc[i].told /\ \A k \in Xfer : ifc[i].x[k] = NoXfer
  <2>1. bus = "present" /\ phys.st = "listed" /\ ifc[i].st = "NOT_INIT" /\ dev.ifs[i].dir # "none"
    BY <1>2, <1>3 DEF UacInv, UserPlace
  <2> QED BY <1>2, <2>1, TransferIs DEF UacInv, IfcsAre, IfcIs, CtlPlace, CtlType
<1>6. /\ phys \in PhysType /\ phys.cnt + 1 = Nums /\ Nums \in 0..2 /\ phys.ctl \in CtlType
  <2>1. Num(RX) \in {0, 1} /\ Num(TX) \in {0, 1} BY DEF Num
  <2> QED BY <1>2, <2>1, Known, TransferIs DEF UacInv, Handle, Nums
<1>7. PICK ok \in BOOLEAN : ok = (dev.ifs[i].range /\ bus = "present" /\ phys.ctl.urb = "idle")
  OBVIOUS
<1>8. /\ phys' = [phys EXCEPT !.cnt = @ + 1, !.ctl.urb = IF ok THEN "flight" ELSE @]
      /\ user' = [user EXCEPT !.pc = IF ok THEN "ctl" ELSE "act", !.left = IF ok THEN 1..3 ELSE {}]
      /\ ifc' = [ifc EXCEPT ![i].st = "IDLE", ![i].cb = "nocb" \notin env]
  BY <1>3, <1>7 DEF OpenCount
<1>9. ok <=> dev.ifs[i].range BY <1>5, <1>7
<1>10. /\ phys' \in PhysType /\ phys'.st = "listed" /\ phys'.cnt = phys.cnt + 1 /\ phys'.ctl.urb = (IF ok THEN "flight" ELSE "idle")
       /\ phys'.ctl.sem = phys.ctl.sem
  <2>4. PICK c : c = [phys.ctl EXCEPT !.urb = IF ok THEN "flight" ELSE "idle"]
    OBVIOUS
  <2>1. phys' = [phys EXCEPT !.cnt = phys.cnt + 1, !.ctl = c]
    BY <1>5, <1>6, <1>8, <2>4 DEF PhysType, CtlType
  <2>2. c \in CtlType /\ c.urb = (IF ok THEN "flight" ELSE "idle") /\ c.sem = phys.ctl.sem
    BY <1>6, <2>4 DEF CtlType
  <2>3. phys.cnt + 1 \in 0..255 BY <1>6 DEF PhysType
  <2> QED BY <1>5, <1>6, <2>1, <2>2, <2>3 DEF PhysType
<1>11. /\ user' \in UserType /\ user'.op = "open" /\ user'.i = i /\ user'.pc = (IF ok THEN "ctl" ELSE "act")
       /\ user'.ok = user.ok /\ user'.v = user.v /\ (ok => user'.left # {})
  <2>1. (IF ok THEN 1..3 ELSE {}) \in SUBSET Channel /\ (ok => (IF ok THEN 1..3 ELSE {}) # {})
    BY DEF Channel
  <2> QED BY <1>2, <1>3, <1>4, <1>8, <2>1 DEF UserType
<1>12. PICK y : y = [ifc[i] EXCEPT !.st = "IDLE", !.cb = "nocb" \notin env]
  OBVIOUS
<1>13. y \in IfcType
  <2>1. ("nocb" \notin env) \in BOOLEAN OBVIOUS
  <2> QED BY <1>12, <2>1, Known DEF IfcType
<1>14. /\ y.st = "IDLE" /\ (y.cb <=> "nocb" \notin env) /\ y.vol = ifc[i].vol /\ y.wait = ifc[i].wait /\ y.told = ifc[i].told
       /\ y.range = ifc[i].range /\ y.buf = ifc[i].buf /\ y.x = ifc[i].x
  BY <1>12, Known DEF IfcType
<1>15. ifc' \in [Ifc -> IfcType] /\ ifc'[i] = y /\ \A j \in Ifc : j # i => ifc'[j] = ifc[j]
  BY <1>8, <1>12, <1>13, Known
<1>16. ~phys'.ctl.sem /\ bus' = "present" BY <1>1, <1>5, <1>10
<1>17. TypeOK'
  BY <1>1, <1>2, <1>3, <1>4, <1>5, <1>6, <1>7, <1>8, <1>9, <1>10, <1>11, <1>12, <1>13, <1>14, <1>15,
    <1>16, Known, NothingIs, ConstantsAre, TypesWillBe
<1>18. IfcsAre'
  BY <1>1, <1>2, <1>3, <1>4, <1>5, <1>9, <1>10, <1>11, <1>14, <1>15, <1>16, ConstantsAre, HereIs DEF
    UacInv, IfcsAre, IfcIs, Claimed
<1>19. UserPlace'
  BY <1>1, <1>2, <1>3, <1>4, <1>5, <1>9, <1>10, <1>11, <1>14, <1>15, <1>16, ConstantsAre, HereIs DEF
    UacInv, UserPlace, Waiting, Halts, Asks, AtOnce
<1>20. CtlPlace'
  BY <1>1, <1>2, <1>3, <1>4, <1>5, <1>9, <1>10, <1>11, <1>14, <1>15, <1>16, ConstantsAre, HereIs DEF
    UacInv, CtlPlace
<1>21. Handle'
  <2>1. Nums' = Nums BY <1>5, <1>14, <1>15, NumsAre
  <2>2. phys'.cnt + (IF user'.pc \in {"count", "delay"} THEN 1 ELSE 0) = Nums'
    BY <1>6, <1>10, <1>11, <2>1
  <2>3. phys'.cnt + (IF user'.pc \in {"count", "delay"} THEN 1 ELSE 0) = Num(RX)' + Num(TX)'
    BY <2>2 DEF Nums
  <2> QED BY <1>1, <1>2, <1>4, <1>5, <1>10, <1>11, <2>3 DEF UacInv, Handle
<1>22. Messages'
  BY <1>1, <1>2, <1>3, <1>4, <1>5, <1>9, <1>10, <1>11, <1>14, <1>15, <1>16, ConstantsAre, HereIs DEF
    UacInv, Messages, GoneNews, AllIdle
<1>23. ClientPlace'
  BY <1>1, <1>2, <1>3, <1>4, <1>5, <1>9, <1>10, <1>11, <1>14, <1>15, <1>16, ConstantsAre, HereIs DEF
    UacInv, ClientPlace, Held, Leaving, Walking, AllIdle, GoneNews
<1>24. AuxPlace'
  BY <1>1, <1>2, <1>3, <1>4, <1>5, <1>9, <1>10, <1>11, <1>14, <1>15, <1>16, ConstantsAre, HereIs DEF
    UacInv, AuxPlace, AtOnce
<1>25. Streaming'
  BY <1>1, <1>2, <1>3, <1>4, <1>5, <1>9, <1>10, <1>11, <1>14, <1>15, <1>16, ConstantsAre, HereIs DEF
    UacInv, Streaming, TxIs, TxRuns, Ready, Running
<1>26. VolumeKnown'
  BY <1>1, <1>2, <1>3, <1>4, <1>5, <1>9, <1>10, <1>11, <1>14, <1>15, <1>16, ConstantsAre, HereIs DEF
    UacInv, VolumeKnown, IsSet, Leaving
<1>27. RangeKnown'
  BY <1>1, <1>2, <1>3, <1>4, <1>5, <1>9, <1>10, <1>11, <1>14, <1>15, <1>16, ConstantsAre, HereIs DEF
    UacInv, RangeKnown, Held, Leaving, Claimed
<1> QED
  BY <1>1, <1>17, <1>18, <1>19, <1>20, <1>21, <1>22, <1>23, <1>24, <1>25, <1>26, <1>27 DEF UacInv,
    NoAbuse

\* A call for the volume, or the opening, is done.
LEMMA RequestDoneKeeps ==
    ASSUME UacInv,
           RequestDone
    PROVE  UacInv'
<1>1. UNCHANGED <<dev, drv, bus, plugs, calls, env, level, msgs, hdl, phys, aux, client, crash>>
  BY DEF RequestDone, AtAct, outside
<1>2. user.op \in {"open", "setvol", "getvol", "setdb", "other"} /\ user.pc = "act" /\ Others /\ user' = NoCall
  BY DEF RequestDone, AtAct, Ends
<1>3. PICK i \in Ifc : i = user.i BY HereIs
<1>4. user \in UserType /\ ifc[i] \in IfcType /\ user.v \in Volumes \cup {0}
  BY Known DEF UserType
<1>5. /\ user' \in UserType /\ user'.op = "none" /\ user'.pc = "idle"
  BY <1>2, NothingIs DEF NoCall
<1>6. /\ phys.ctl.urb = "idle" /\ ~phys.ctl.sem /\ bus # "none"
  BY <1>2, TransferIs DEF UacInv, CtlPlace, CtlType, UserPlace
<1>7. PICK y : /\ ifc' = [ifc EXCEPT ![i] = y]
               /\ y = CASE user.op = "open" /\ user.ok -> [ifc[i] EXCEPT !.range = TRUE]
                        [] user.op = "setvol" /\ user.ok -> [ifc[i] EXCEPT !.vol = user.v]
                        [] OTHER -> ifc[i]
  <2>1. CASE user.op = "open" /\ user.ok
    BY <1>3, <1>4, <2>1, Known DEF RequestDone
  <2>2. CASE user.op = "setvol" /\ user.ok
    BY <1>3, <1>4, <2>2, Known DEF RequestDone
  <2>3. CASE ~(user.op = "open" /\ user.ok) /\ ~(user.op = "setvol" /\ user.ok)
    BY <1>3, <1>4, <2>3, Known DEF RequestDone
  <2> QED BY <2>1, <2>2, <2>3
<1>8. /\ y \in IfcType /\ y.st = ifc[i].st /\ y.told = ifc[i].told /\ y.cb = ifc[i].cb /\ y.wait = ifc[i].wait
      /\ y.x = ifc[i].x /\ y.buf = ifc[i].buf /\ y.failed = ifc[i].failed
  <2>1. CASE user.op = "open" /\ user.ok BY <1>4, <1>7, <2>1 DEF IfcType
  <2>2. CASE user.op = "setvol" /\ user.ok BY <1>4, <1>7, <2>2 DEF IfcType
  <2>3. CASE ~(user.op = "open" /\ user.ok) /\ ~(user.op = "setvol" /\ user.ok)
    BY <1>4, <1>7, <2>3
  <2> QED BY <2>1, <2>2, <2>3
<1>9. /\ y.range = (IF user.op = "open" /\ user.ok THEN TRUE ELSE ifc[i].range)
      /\ y.vol = (IF user.op = "setvol" /\ user.ok THEN user.v ELSE ifc[i].vol)
  <2>1. CASE user.op = "open" /\ user.ok BY <1>4, <1>7, <2>1 DEF IfcType
  <2>2. CASE user.op = "setvol" /\ user.ok BY <1>4, <1>7, <2>2 DEF IfcType
  <2>3. CASE ~(user.op = "open" /\ user.ok) /\ ~(user.op = "setvol" /\ user.ok)
    BY <1>4, <1>7, <2>3
  <2> QED BY <2>1, <2>2, <2>3
<1>10. ifc' \in [Ifc -> IfcType] /\ ifc'[i] = y /\ \A j \in Ifc : j # i => ifc'[j] = ifc[j]
  BY <1>7, <1>8, Known
<1>11. \A j \in Ifc : /\ ifc'[j].st = ifc[j].st /\ ifc'[j].told = ifc[j].told /\ ifc'[j].cb = ifc[j].cb
                   /\ ifc'[j].wait = ifc[j].wait /\ ifc'[j].x = ifc[j].x /\ ifc'[j].buf = ifc[j].buf /\ ifc'[j].failed = ifc[j].failed
  BY <1>8, <1>10
<1>12. ifc[i].st \in {"IDLE", "READY", "ACTIVE"} /\ (user.op = "open" => ifc[i].st = "IDLE")
  BY <1>2, <1>3 DEF UacInv, UserPlace, Waiting, Asks
<1>13. TypeOK'
  BY <1>1, <1>2, <1>3, <1>4, <1>5, <1>6, <1>7, <1>8, <1>9, <1>10, <1>11, <1>12, Known, NothingIs,
    ConstantsAre, TypesWillBe
<1>14. IfcsAre'
  BY <1>1, <1>2, <1>3, <1>5, <1>6, <1>10, <1>11, <1>12, ConstantsAre, HereIs DEF UacInv, IfcsAre,
    IfcIs, Claimed
<1>15. UserPlace'
  BY <1>1, <1>2, <1>3, <1>5, <1>6, <1>10, <1>11, <1>12, ConstantsAre, HereIs DEF UacInv, UserPlace,
    Waiting, Halts, Asks, AtOnce
<1>16. CtlPlace'
  BY <1>1, <1>2, <1>3, <1>5, <1>6, <1>10, <1>11, <1>12, ConstantsAre, HereIs DEF UacInv, CtlPlace
<1>17. Handle'
  BY <1>1, <1>2, <1>3, <1>5, <1>6, <1>10, <1>11, <1>12, ConstantsAre, HereIs DEF UacInv, Handle, Num
<1>18. Messages'
  BY <1>1, <1>2, <1>3, <1>5, <1>6, <1>10, <1>11, <1>12, ConstantsAre, HereIs DEF UacInv, Messages,
    GoneNews, AllIdle
<1>19. ClientPlace'
  BY <1>1, <1>2, <1>3, <1>5, <1>6, <1>10, <1>11, <1>12, ConstantsAre, HereIs DEF UacInv, ClientPlace,
    Held, Leaving, Walking, AllIdle, GoneNews
<1>20. AuxPlace'
  BY <1>1, <1>2, <1>3, <1>5, <1>6, <1>10, <1>11, <1>12, ConstantsAre, HereIs DEF UacInv, AuxPlace,
    AtOnce
<1>21. Streaming'
  BY <1>1, <1>2, <1>3, <1>5, <1>6, <1>10, <1>11, <1>12, ConstantsAre, HereIs DEF UacInv, Streaming,
    TxIs, TxRuns, Ready, Running
<1>22. VolumeKnown'
  <2>1. user.op = "setvol" /\ bus = "present" => user.ok /\ \A ch \in dev.ifs[i].vol : level[i][ch] = user.v
    BY <1>2, <1>3, Spared DEF UacInv, UserPlace, Asks, CtlPlace, VolumeKnown
  <2>2. \A j \in Ifc : j # i => ~IsSet(j) /\ ~Leaving(j)
    BY <1>2, <1>3 DEF IsSet, Leaving
  <2>3. ~Leaving(i) /\ (IsSet(i) <=> user.op = "setvol")
    BY <1>2, <1>3 DEF IsSet, Leaving
  <2> SUFFICES ASSUME NEW j \in Ifc, ifc'[j].vol # 0, bus = "present"
               PROVE  \A ch \in dev.ifs[j].vol : level[j][ch] = ifc'[j].vol
    BY <1>1, <1>5 DEF VolumeKnown
  <2>4. CASE j # i BY <1>10, <2>2, <2>4 DEF UacInv, VolumeKnown
  <2>5. CASE j = i /\ user.op = "setvol" BY <1>9, <1>10, <2>1, <2>5
  <2>6. CASE j = i /\ user.op # "setvol"
    BY <1>9, <1>10, <2>3, <2>6 DEF UacInv, VolumeKnown
  <2> QED BY <2>4, <2>5, <2>6
<1>23. RangeKnown'
  <2> SUFFICES ASSUME "ask" \in env, NEW j \in Ifc, dev.ifs[j].range
               PROVE  /\ bus = "present" /\ Held(j) => ifc'[j].range
                      /\ Claimed(ifc[j]) => ifc'[j].range
    BY <1>1, <1>11 DEF RangeKnown, Held, Claimed
  <2>1. CASE j # i
    BY <1>2, <1>3, <1>10, <2>1 DEF UacInv, RangeKnown, Leaving
  <2>2. CASE j = i /\ user.op = "open"
    <3>1. bus = "present" => user.ok
      BY <1>2, <1>3, <2>2, Spared DEF UacInv, CtlPlace
    <3> QED BY <1>9, <1>10, <1>12, <2>2, <3>1 DEF Claimed
  <2>3. CASE j = i /\ user.op # "open"
    BY <1>2, <1>9, <1>10, <2>3 DEF UacInv, RangeKnown, Leaving
  <2> QED BY <2>1, <2>2, <2>3
<1> QED
  BY <1>1, <1>13, <1>14, <1>15, <1>16, <1>17, <1>18, <1>19, <1>20, <1>21, <1>22, <1>23 DEF UacInv,
    NoAbuse

\* A request has ended, and the next one of the call is sent.
LEMMA RequestEndKeeps ==
    ASSUME UacInv,
           RequestEnd
    PROVE  UacInv'
<1>1. UNCHANGED <<dev, drv, bus, plugs, calls, env, msgs, hdl, ifc, aux, client>>
  BY DEF RequestEnd, outside
<1>2. user.pc = "ctl" /\ Others /\ user \in UserType /\ user.op # "none"
  <2>1. user.pc = "ctl" /\ Others BY DEF RequestEnd
  <2> QED BY <2>1, Known DEF UacInv, UserPlace, NoCall
<1>3. phys.ctl.sem /\ phys.ctl.urb = "idle"
  <2>1. ~GivesUp BY Spared, WaitsIs DEF GivesUp, AllIdle, Done
  <2> QED BY <2>1 DEF RequestEnd, UacInv, CtlPlace
<1>4. crash' = "none" BY <1>3, Known DEF RequestEnd, Fails
<1>5. /\ ~GoneNews /\ bus \in {"present", "gone"}
      /\ \/ client.pc = "idle"
         \/ client.pc = "lock" /\ client.i = user.i /\ bus = "gone"
  BY <1>2, TaskIs
<1>6. PICK i \in Ifc : i = user.i BY HereIs
<1>7. PICK ch : ch = ChannelNow OBVIOUS
<1>8. ch \in user.left /\ user.left \in SUBSET Channel
  BY <1>2, <1>7, MinIsLeast DEF ChannelNow, UserType, UacInv, UserPlace
<1>9. PICK left \in SUBSET Channel : left = user.left \ {ch} BY <1>8
<1>10. PICK ok \in BOOLEAN : ok = phys.ctl.ok BY TransferIs DEF CtlType
<1>11. PICK sent \in BOOLEAN : sent = (ok /\ left # {} /\ bus = "present")
  OBVIOUS
<1>12. /\ user' = [user EXCEPT !.pc = IF sent THEN "ctl" ELSE "act", !.ok = (ok /\ left = {}), !.left = IF sent THEN left ELSE {}]
       /\ phys' = [phys EXCEPT !.ctl.sem = FALSE, !.ctl.urb = IF sent THEN "flight" ELSE @]
       /\ level' = IF ok /\ user.op \in {"setvol", "setdb"} THEN [level EXCEPT ![i][ch] = user.v] ELSE level
  <2>1. /\ (phys.ctl.sem /\ phys.ctl.ok) = ok
        /\ (ok /\ ~(ok /\ left # {})) = (ok /\ left = {})
        /\ ((ok /\ left # {}) /\ bus = "present" /\ phys.ctl.urb = "idle") = sent
    BY <1>3, <1>10, <1>11
  <2>2. /\ user' = [user EXCEPT !.pc = IF (((phys.ctl.sem /\ phys.ctl.ok) /\ left # {}) /\ bus = "present" /\ phys.ctl.urb = "idle") THEN "ctl" ELSE "act",
                                 !.ok = (phys.ctl.sem /\ phys.ctl.ok) /\ ~((phys.ctl.sem /\ phys.ctl.ok) /\ left # {}),
                                 !.left = IF (((phys.ctl.sem /\ phys.ctl.ok) /\ left # {}) /\ bus = "present" /\ phys.ctl.urb = "idle") THEN left ELSE {}]
        /\ phys' = [phys EXCEPT !.ctl.sem = FALSE,
                                 !.ctl.urb = IF (((phys.ctl.sem /\ phys.ctl.ok) /\ left # {}) /\ bus = "present" /\ phys.ctl.urb = "idle") THEN "flight" ELSE @]
        /\ level' = IF (phys.ctl.sem /\ phys.ctl.ok) /\ user.op \in {"setvol", "setdb"}
                    THEN [level EXCEPT ![i][ch] = user.v] ELSE level
    BY <1>6, <1>7, <1>9 DEF RequestEnd
  <2> QED BY <2>1, <2>2
<1>13. /\ user' \in UserType /\ user'.op = user.op /\ user'.i = i /\ user'.v = user.v
       /\ user'.pc = (IF sent THEN "ctl" ELSE "act") /\ (user'.ok <=> ok /\ left = {})
       /\ user'.left = (IF sent THEN left ELSE {})
  <2>1. (ok /\ left = {}) \in BOOLEAN /\ (IF sent THEN left ELSE {}) \in SUBSET Channel
    BY <1>9
  <2> QED BY <1>2, <1>6, <1>12, <2>1 DEF UserType
<1>14. /\ phys' \in PhysType /\ phys'.st = phys.st /\ phys'.cnt = phys.cnt /\ ~phys'.ctl.sem
       /\ phys'.ctl.urb = (IF sent THEN "flight" ELSE "idle")
  <2>1. PICK c : c = [phys.ctl EXCEPT !.sem = FALSE, !.urb = IF sent THEN "flight" ELSE phys.ctl.urb]
    OBVIOUS
  <2>2. phys' = [phys EXCEPT !.ctl = c]
    BY <1>12, <2>1, Known, TransferIs DEF PhysType, CtlType
  <2>3. c \in CtlType /\ c.urb = (IF sent THEN "flight" ELSE "idle") /\ ~c.sem
    BY <1>3, <2>1, TransferIs DEF CtlType
  <2> QED BY <2>2, <2>3, Known DEF PhysType
<1>15. phys.st = "listed" BY <1>3, TransferIs
<1>16. /\ level' \in LevelType /\ \A j \in Ifc : j # i => level'[j] = level[j]
       /\ ~(user.op \in {"setvol", "setdb"}) => level' = level
       /\ ok /\ user.op = "setvol" => \A c \in Channel : level'[i][c] = IF c = ch THEN user.v ELSE level[i][c]
       /\ ~ok => level' = level
  <2>1. level \in [Ifc -> [Channel -> Volumes \cup {0}]] /\ user.v \in Volumes \cup {0} /\ ch \in Channel
    BY <1>2, <1>8, Known DEF LevelType, UserType
  <2>2. CASE ok /\ user.op \in {"setvol", "setdb"}
    <3>1. level' = [level EXCEPT ![i] = [level[i] EXCEPT ![ch] = user.v]]
      BY <1>12, <2>1, <2>2
    <3>2. [level[i] EXCEPT ![ch] = user.v] \in [Channel -> Volumes \cup {0}]
      BY <2>1
    <3> QED BY <2>1, <2>2, <3>1, <3>2 DEF LevelType
  <2>3. CASE ~(ok /\ user.op \in {"setvol", "setdb"})
    BY <1>12, <2>1, <2>3 DEF LevelType
  <2> QED BY <2>2, <2>3
<1>17. ~ok => bus = "gone" \/ "error" \in env
  BY <1>3, <1>10 DEF UacInv, CtlPlace
<1>18. TypeOK'
  BY <1>1, <1>2, <1>3, <1>4, <1>5, <1>6, <1>7, <1>8, <1>9, <1>10, <1>11, <1>12, <1>13, <1>14, <1>15,
    <1>16, <1>17, Known, NothingIs, ConstantsAre, TypesWillBe
<1>19. IfcsAre'
  BY <1>1, <1>2, <1>3, <1>5, <1>6, <1>11, <1>13, <1>14, <1>15, <1>17, ConstantsAre, HereIs DEF UacInv,
    IfcsAre, IfcIs, Claimed
<1>20. UserPlace'
  BY <1>1, <1>2, <1>3, <1>5, <1>6, <1>11, <1>13, <1>14, <1>15, <1>17, ConstantsAre, HereIs DEF UacInv,
    UserPlace, Waiting, Halts, Asks, AtOnce
<1>21. CtlPlace'
  BY <1>1, <1>2, <1>3, <1>5, <1>6, <1>11, <1>13, <1>14, <1>15, <1>17, ConstantsAre, HereIs DEF UacInv,
    CtlPlace
<1>22. Handle'
  BY <1>1, <1>2, <1>3, <1>5, <1>6, <1>11, <1>13, <1>14, <1>15, <1>17, ConstantsAre, HereIs DEF UacInv,
    Handle, Num
<1>23. Messages'
  BY <1>1, <1>2, <1>3, <1>5, <1>6, <1>11, <1>13, <1>14, <1>15, <1>17, ConstantsAre, HereIs DEF UacInv,
    Messages, GoneNews, AllIdle
<1>24. ClientPlace'
  <2>1. AllIdle => phys'.ctl.urb = "idle" \/ client.pc = "idle"
    BY <1>5, <1>11, <1>14
  <2>2. client.pc # "idle" /\ AllIdle => AllIdle' BY <1>1, <2>1 DEF AllIdle
  <2> QED
    BY <1>1, <1>2, <1>5, <1>6, <1>13, <2>2 DEF UacInv, ClientPlace, Held, Leaving, Walking, GoneNews
<1>25. AuxPlace'
  BY <1>1, <1>2, <1>3, <1>5, <1>6, <1>11, <1>13, <1>14, <1>15, <1>17, ConstantsAre, HereIs DEF UacInv,
    AuxPlace, AtOnce
<1>26. Streaming'
  BY <1>1, <1>2, <1>3, <1>5, <1>6, <1>11, <1>13, <1>14, <1>15, <1>17, ConstantsAre, HereIs DEF UacInv,
    Streaming, TxIs, TxRuns, Ready, Running
<1>27. VolumeKnown'
  <2>1. \A c \in dev.ifs[i].vol : c \in Channel BY ReadIs
  <2>2. ASSUME user.op = "setvol", bus = "present", ok
        PROVE  \A c \in dev.ifs[i].vol \ left : level'[i][c] = user.v
    <3>1. \A c \in dev.ifs[i].vol \ user.left : level[i][c] = user.v
      BY <1>2, <1>6, <2>2 DEF UacInv, VolumeKnown
    <3> QED BY <1>9, <1>16, <2>1, <2>2, <3>1
  <2>3. \A j \in Ifc : ifc[j].vol # 0 /\ bus = "present" /\ ~IsSet(j) =>
             \A c \in dev.ifs[j].vol : level'[j][c] = ifc[j].vol
    <3> SUFFICES ASSUME NEW j \in Ifc, ifc[j].vol # 0, bus = "present", ~IsSet(j)
                 PROVE  \A c \in dev.ifs[j].vol : level'[j][c] = ifc[j].vol
      OBVIOUS
    <3>1. \A c \in dev.ifs[j].vol : level[j][c] = ifc[j].vol
      BY <1>2 DEF UacInv, VolumeKnown, Leaving
    <3>2. user.op = "setdb" => j # i BY <1>6 DEF UacInv, VolumeKnown
    <3>3. level'[j] = level[j] BY <1>6, <1>16, <3>2 DEF IsSet
    <3> QED BY <3>1, <3>3
  <2> QED BY <1>1, <1>2, <1>6, <1>11, <1>13, <2>2, <2>3 DEF UacInv, VolumeKnown, IsSet, Leaving
<1>28. RangeKnown'
  BY <1>1, <1>2, <1>3, <1>5, <1>6, <1>11, <1>13, <1>14, <1>15, <1>17, ConstantsAre, HereIs DEF UacInv,
    RangeKnown, Held, Leaving, Claimed
<1> QED
  BY <1>1, <1>4, <1>18, <1>19, <1>20, <1>21, <1>22, <1>23, <1>24, <1>25, <1>26, <1>27, <1>28 DEF
    UacInv, NoAbuse

\* The driver's task stays where it is, and so does what it relies on.
LEMMA ClientStays ==
    ASSUME UacInv, UNCHANGED <<bus, client, msgs>>,
           \A j \in Ifc : /\ ifc'[j].st = "free" <=> ifc[j].st = "free"
                          /\ ifc'[j].told <=> ifc[j].told
                          /\ ifc'[j].wait <=> ifc[j].wait,
           client.pc = "cb" => ifc'[client.i].st = "IDLE",
           client.pc \in {"walk", "lock", "cb"} /\ AllIdle => AllIdle',
           user'.pc = "final" /\ Walking => client.pc = "lock" /\ client.i = user'.i,
           user'.pc = "delay" => ~Walking,
           \A j \in Ifc : Leaving(j) => Leaving(j)'
    PROVE  ClientPlace'
<1>1. ClientPlace /\ client.i \in Ifc /\ client.cur \in Ifc \cup {0}
  BY HereIs DEF UacInv
<1>2. (GoneNews' <=> GoneNews) /\ (Walking' <=> Walking)
  BY DEF GoneNews, Walking
<1>3. client.cur # 0 => (Held(client.cur)' <=> Held(client.cur))
  BY <1>1 DEF Held
<1>4. \A j \in Ifc : Held(j)' <=> Held(j) BY DEF Held
<1> QED BY <1>1, <1>2, <1>3, <1>4 DEF ClientPlace

\* uac_host_interface_resume()
LEMMA ResumedIs ==
    ASSUME NEW i \in Ifc, NEW x \in IfcType, x.st = "READY", \A k \in Xfer : x.x[k] = Ready
    PROVE  /\ Resumed(i, x) \in IfcType /\ Resumed(i, x).told = x.told /\ Resumed(i, x).cb = x.cb
           /\ Resumed(i, x).wait = x.wait /\ Resumed(i, x).vol = x.vol /\ Resumed(i, x).range = x.range
           /\ Resumed(i, x).buf = x.buf
           /\ \/ i = TX /\ Resumed(i, x).st = "ACTIVE" /\ \A k \in Xfer : Resumed(i, x).x[k] = Ready
              \/ /\ i = RX /\ bus = "present" /\ Resumed(i, x).st = "ACTIVE"
                 /\ \A k \in Xfer : Resumed(i, x).x[k] = [list |-> "busy", urb |-> "flight"]
              \/ /\ i = RX /\ bus # "present" /\ Resumed(i, x).st = "READY"
                 /\ \A k \in Xfer : Resumed(i, x).x[k].list # "none" /\ Resumed(i, x).x[k].urb = "idle"
<1> DEFINE upto(k) == i = TX \/ \A j \in 1..k : Accepts(x, j)
           xs == [k \in Xfer |-> IF i = TX THEN x.x[k]
                                 ELSE IF upto(k) THEN [list |-> "busy", urb |-> "flight"]
                                 ELSE IF k = 1 \/ upto(k - 1) THEN [x.x[k] EXCEPT !.list = "busy"]
                                 ELSE x.x[k]]
<1>1. XferNum \in Xfer /\ 1 \in Xfer /\ \A k \in Xfer : 1 \in 1..k /\ 1..k \subseteq Xfer
  BY ConstantsAre DEF Xfer
<1>2. \A k \in Xfer : Accepts(x, k) <=> bus = "present"
  BY DEF Accepts, Claimed, Ready
<1>3. \A k \in Xfer : upto(k) <=> i = TX \/ bus = "present" BY <1>1, <1>2
<1>4. Resumed(i, x) = [x EXCEPT !.x = xs, !.failed = FALSE, !.st = IF upto(XferNum) THEN "ACTIVE" ELSE @]
  BY DEF Resumed
<1>5. PICK f : f = xs OBVIOUS
<1>6. \A k \in Xfer : f[k] = IF i = TX THEN x.x[k]
                              ELSE IF upto(k) THEN [list |-> "busy", urb |-> "flight"]
                              ELSE IF k = 1 \/ upto(k - 1) THEN [x.x[k] EXCEPT !.list = "busy"]
                              ELSE x.x[k]
  BY <1>5
<1>7. \A k \in Xfer : [x.x[k] EXCEPT !.list = "busy"] = [list |-> "busy", urb |-> "idle"]
  BY DEF Ready
<1>8. [list |-> "busy", urb |-> "idle"] \in XferType /\ [list |-> "busy", urb |-> "flight"] \in XferType
  BY DEF XferType
<1>9. \A k \in Xfer : /\ f[k] \in XferType
                      /\ i = TX => f[k] = Ready
                      /\ i # TX /\ bus = "present" => f[k] = [list |-> "busy", urb |-> "flight"]
                      /\ i # TX /\ bus # "present" => f[k].list # "none" /\ f[k].urb = "idle"
  <2> SUFFICES ASSUME NEW k \in Xfer
               PROVE  /\ f[k] \in XferType
                      /\ i = TX => f[k] = Ready
                      /\ i # TX /\ bus = "present" => f[k] = [list |-> "busy", urb |-> "flight"]
                      /\ i # TX /\ bus # "present" => f[k].list # "none" /\ f[k].urb = "idle"
    OBVIOUS
  <2>1. x.x[k] = Ready /\ Ready \in XferType /\ Ready.list # "none" /\ Ready.urb = "idle"
    BY NothingIs DEF Ready
  <2>2. CASE i = TX BY <1>6, <2>1, <2>2
  <2>3. CASE i # TX /\ bus = "present" BY <1>3, <1>6, <1>8, <2>3
  <2>4. CASE i # TX /\ bus # "present"
    <3>1. f[k] = [list |-> "busy", urb |-> "idle"] \/ f[k] = Ready
      BY <1>3, <1>6, <1>7, <2>1, <2>4
    <3> QED BY <1>8, <2>1, <2>4, <3>1
  <2> QED BY <2>2, <2>3, <2>4
<1>10. f \in [Xfer -> XferType] BY <1>5, <1>9
<1>11. PICK s \in {"ACTIVE", "READY"} : s = (IF upto(XferNum) THEN "ACTIVE" ELSE x.st)
  OBVIOUS
<1>12. s = IF i = TX \/ bus = "present" THEN "ACTIVE" ELSE "READY"
  BY <1>1, <1>3, <1>11
<1>13. PICK y : y = Resumed(i, x) OBVIOUS
<1>14. y = [x EXCEPT !.x = f, !.failed = FALSE, !.st = s]
  BY <1>4, <1>5, <1>11, <1>13
<1>15. /\ y \in IfcType /\ y.told = x.told /\ y.cb = x.cb /\ y.wait = x.wait /\ y.vol = x.vol /\ y.range = x.range
       /\ y.buf = x.buf /\ y.st = s /\ y.x = f
  BY <1>10, <1>14 DEF IfcType
<1>16. i = RX \/ i = TX BY ConstantsAre
<1> QED BY <1>9, <1>12, <1>13, <1>15, <1>16

\* The stream is resumed, or its start failed.
LEMMA ResumeActKeeps ==
    ASSUME UacInv,
           ResumeAct
    PROVE  UacInv'
<1>1. UNCHANGED <<dev, drv, bus, plugs, calls, env, level, msgs, hdl, phys, aux, client>>
  BY DEF ResumeAct, AtAct, outside
<1>2. user.op \in {"start", "resume"} /\ user.pc = "act" /\ Others /\ user' = NoCall
  BY DEF ResumeAct, AtAct, Ends
<1>3. PICK i \in Ifc : i = user.i BY HereIs
<1>4. /\ ifc[i] \in IfcType /\ ifc[i].st = "READY" /\ (\A k \in Xfer : ifc[i].x[k] = Ready) /\ ifc[i].buf = 0 /\ ~ifc[i].told
      /\ \A j \in Ifc : ifc[j].st \notin {"NOT_INIT", "SUSPENDING"}
  <2>1. /\ ifc[i] \in IfcType /\ ifc[i].st = "READY" /\ \A k \in Xfer : ifc[i].x[k] = Ready
    BY <1>2, <1>3, Known DEF UacInv, UserPlace
  <2>2. ifc[i].buf = 0 /\ ~ifc[i].told BY <2>1 DEF UacInv, IfcsAre, IfcIs
  <2>3. \A j \in Ifc : ifc[j].st \notin {"NOT_INIT", "SUSPENDING"}
    BY <1>2 DEF UacInv, UserPlace, Halts
  <2> QED BY <2>1, <2>2, <2>3
<1>5. /\ drv = "up" /\ aux.pc = "idle" /\ bus \in {"present", "gone"} /\ ~GoneNews
      /\ \/ client.pc = "idle" /\ client.cur = 0 /\ ~Walking
         \/ client.pc = "lock" /\ client.i = i /\ bus = "gone" /\ AllIdle
  BY <1>2, <1>3, TaskIs, IdleIs
<1>6. PICK y : y = LET z == IF user.ok THEN Resumed(i, ifc[i]) ELSE ifc[i]
                   IN  IF user.op = "start" /\ z.st = "READY" /\ Idle(z) THEN Released(z) ELSE z
  OBVIOUS
<1>7. ifc' = [ifc EXCEPT ![i] = y] BY <1>3, <1>6 DEF ResumeAct
<1>8. crash' = "none" BY <1>3, <1>4, Known DEF ResumeAct, Fails, Ready
<1>9. PICK z : /\ z \in IfcType /\ z = (IF user.ok THEN Resumed(i, ifc[i]) ELSE ifc[i])
               /\ z.told = ifc[i].told /\ z.cb = ifc[i].cb /\ z.wait = ifc[i].wait /\ z.vol = ifc[i].vol
               /\ z.range = ifc[i].range /\ z.buf = ifc[i].buf
               /\ \/ i = TX /\ z.st = "ACTIVE" /\ \A k \in Xfer : z.x[k] = Ready
                  \/ i = RX /\ bus = "present" /\ z.st = "ACTIVE" /\ \A k \in Xfer : z.x[k] = [list |-> "busy", urb |-> "flight"]
                  \/ /\ z.st = "READY" /\ \A k \in Xfer : z.x[k].list # "none" /\ z.x[k].urb = "idle"
                     /\ bus = "present" => \A k \in Xfer : z.x[k] = Ready
  <2>1. CASE user.ok BY <1>4, <2>1, ResumedIs
  <2>2. CASE ~user.ok BY <1>4, <2>2 DEF Ready
  <2> QED BY <2>1, <2>2
<1>10. /\ y \in IfcType /\ y.told = ifc[i].told /\ y.cb = ifc[i].cb /\ y.wait = ifc[i].wait /\ y.vol = ifc[i].vol
       /\ y.range = ifc[i].range /\ y.buf = 0 /\ y.st \in {"IDLE", "READY", "ACTIVE"}
       /\ \/ y.st = "IDLE" /\ \A k \in Xfer : y.x[k] = NoXfer
          \/ i = TX /\ y.st = "ACTIVE" /\ \A k \in Xfer : y.x[k] = Ready
          \/ i = RX /\ bus = "present" /\ y.st = "ACTIVE" /\ \A k \in Xfer : y.x[k] = [list |-> "busy", urb |-> "flight"]
          \/ /\ y.st = "READY" /\ \A k \in Xfer : y.x[k].list # "none" /\ y.x[k].urb = "idle"
             /\ bus = "present" => \A k \in Xfer : y.x[k] = Ready
  <2>1. CASE user.op = "start" /\ z.st = "READY" /\ Idle(z)
    <3>1. y = [z EXCEPT !.st = "IDLE", !.x = [k \in Xfer |-> NoXfer]]
      BY <1>6, <1>9, <2>1 DEF Released
    <3>2. y \in IfcType /\ y.st = "IDLE" /\ \A k \in Xfer : y.x[k] = NoXfer
      BY <1>9, <3>1, NothingIs DEF IfcType
    <3>3. /\ y.told = z.told /\ y.cb = z.cb /\ y.wait = z.wait /\ y.vol = z.vol /\ y.range = z.range /\ y.buf = z.buf
      BY <1>9, <3>1 DEF IfcType
    <3> QED BY <1>4, <1>9, <3>2, <3>3
  <2>2. CASE ~(user.op = "start" /\ z.st = "READY" /\ Idle(z))
    <3>1. y = z BY <1>6, <1>9, <2>2
    <3> QED BY <1>4, <1>9, <3>1
  <2> QED BY <2>1, <2>2
<1>11. ifc' \in [Ifc -> IfcType] /\ ifc'[i] = y /\ \A j \in Ifc : j # i => ifc'[j] = ifc[j]
  BY <1>7, <1>10, Known
<1>12. \A k \in Xfer : /\ y.x[k].urb \in {"idle", "flight"} /\ (y.x[k].urb = "flight" => y.st = "ACTIVE" /\ bus = "present")
                       /\ y.st # "IDLE" => y.x[k].list # "none"
                       /\ bus = "present" /\ y.st = "READY" => y.x[k].list = "free"
                       /\ i = TX /\ y.st = "ACTIVE" => y.x[k] = Ready
  BY <1>10, ConstantsAre DEF Ready, NoXfer, RX, TX
<1>13. user' \in UserType /\ user'.op = "none" /\ user'.pc = "idle" /\ phys.ctl.urb = "idle" /\ ~phys.ctl.sem
  BY <1>2, NothingIs, TransferIs DEF NoCall, UacInv, CtlPlace, CtlType
<1>14. TypeOK'
  BY <1>1, <1>2, <1>3, <1>4, <1>5, <1>6, <1>7, <1>8, <1>9, <1>10, <1>11, <1>12, <1>13, Known,
    NothingIs, ConstantsAre, TypesWillBe
<1>15. IfcsAre'
  BY <1>1, <1>2, <1>3, <1>4, <1>5, <1>10, <1>11, <1>12, <1>13, ConstantsAre, HereIs DEF UacInv,
    IfcsAre, IfcIs, Claimed
<1>16. UserPlace'
  BY <1>1, <1>2, <1>3, <1>4, <1>5, <1>10, <1>11, <1>12, <1>13, ConstantsAre, HereIs DEF UacInv,
    UserPlace, Waiting, Halts, Asks, AtOnce
<1>17. CtlPlace'
  BY <1>1, <1>2, <1>3, <1>4, <1>5, <1>10, <1>11, <1>12, <1>13, ConstantsAre, HereIs DEF UacInv,
    CtlPlace
<1>18. Handle'
  <2>1. Num(RX)' = Num(RX) /\ Num(TX)' = Num(TX)
    BY <1>4, <1>10, <1>11, ConstantsAre DEF Num
  <2> QED BY <1>1, <1>2, <1>5, <1>13, <2>1 DEF UacInv, Handle
<1>19. Messages'
  BY <1>1, <1>2, <1>3, <1>4, <1>5, <1>10, <1>11, <1>12, <1>13, ConstantsAre, HereIs DEF UacInv,
    Messages, GoneNews, AllIdle
<1>20. ClientPlace'
  <2>1. AllIdle /\ client.pc # "idle" => AllIdle'
    <3> SUFFICES ASSUME AllIdle, bus = "gone" PROVE AllIdle'
      BY <1>5
    <3>1. \A j \in Ifc : \A k \in Xfer : ifc'[j].x[k].urb = "idle"
      BY <1>11, <1>12 DEF AllIdle
    <3> QED BY <1>1, <3>1 DEF AllIdle
  <2>2. \A j \in Ifc : /\ ifc'[j].st = "free" <=> ifc[j].st = "free"
                       /\ ifc'[j].told <=> ifc[j].told
                       /\ ifc'[j].wait <=> ifc[j].wait
    BY <1>4, <1>10, <1>11
  <2>3. client.pc # "cb" BY <1>5
  <2> QED BY <1>1, <1>2, <1>13, <2>1, <2>2, <2>3, ClientStays DEF Leaving
<1>21. AuxPlace'
  BY <1>1, <1>2, <1>3, <1>4, <1>5, <1>10, <1>11, <1>12, <1>13, ConstantsAre, HereIs DEF UacInv,
    AuxPlace, AtOnce
<1>22. Streaming'
  <2>0. /\ \A j \in Ifc : \A k \in Xfer : ifc[j].x[k].urb = "flight" => bus = "present"
        /\ bus = "present" => \A j \in Ifc : ifc[j].st = "READY" => \A k \in Xfer : ifc[j].x[k].list = "free"
    BY DEF UacInv, Streaming
  <2>1. \A j \in Ifc : \A k \in Xfer : ifc'[j].x[k].urb = "flight" => bus = "present"
    BY <1>11, <1>12, <2>0
  <2> SUFFICES ASSUME bus = "present" PROVE Streaming'
    BY <1>1, <2>1 DEF Streaming
  <2>2. \A j \in Ifc : ifc'[j].st = "READY" => \A k \in Xfer : ifc'[j].x[k].list = "free"
    BY <1>11, <1>12, <2>0
  <2>3. ifc'[RX].st = "ACTIVE" /\ ~ifc'[RX].failed => \A k \in Xfer : ifc'[RX].x[k].urb \in Running
    <3>1. CASE i = RX BY <1>10, <1>11, <3>1 DEF Running, RX, TX
    <3>2. CASE i # RX BY <1>11, <3>2, ConstantsAre DEF UacInv, Streaming
    <3> QED BY <3>1, <3>2
  <2>4. /\ ifc'[TX].st = "ACTIVE" => \A k \in Xfer : TxIs(k)'
        /\ ifc'[TX].st = "ACTIVE" /\ ~ifc'[TX].failed /\ ifc'[TX].buf > 0 => TxRuns'
    <3>1. CASE i = TX
      <4>1. ifc'[TX].buf = 0 /\ (ifc'[TX].st = "ACTIVE" => \A k \in Xfer : ifc'[TX].x[k] = Ready)
        BY <1>10, <1>11, <1>12, <3>1
      <4> QED BY <4>1 DEF TxIs, Ready
    <3>2. CASE i # TX
      <4>1. ifc'[TX] = ifc[TX] BY <1>11, <3>2, ConstantsAre
      <4> QED BY <1>1, <4>1 DEF UacInv, Streaming, TxIs, TxRuns
    <3> QED BY <3>1, <3>2
  <2> QED BY <1>1, <2>1, <2>2, <2>3, <2>4 DEF Streaming
<1>23. VolumeKnown'
  BY <1>1, <1>2, <1>3, <1>4, <1>5, <1>10, <1>11, <1>12, <1>13, ConstantsAre, HereIs DEF UacInv,
    VolumeKnown, IsSet, Leaving
<1>24. RangeKnown'
  BY <1>1, <1>2, <1>3, <1>4, <1>5, <1>10, <1>11, <1>12, <1>13, ConstantsAre, HereIs DEF UacInv,
    RangeKnown, Held, Leaving, Claimed
<1> QED
  BY <1>1, <1>8, <1>14, <1>15, <1>16, <1>17, <1>18, <1>19, <1>20, <1>21, <1>22, <1>23, <1>24 DEF
    UacInv, NoAbuse

\* The stream is suspended: its transfers are cancelled.
LEMMA SuspendActKeeps ==
    ASSUME UacInv,
           SuspendAct
    PROVE  UacInv'
<1>1. UNCHANGED <<dev, drv, bus, plugs, calls, env, level, msgs, hdl, phys, aux, client, crash>>
  BY DEF SuspendAct, AtAct, outside
<1>2. user.op \in {"suspend", "stop", "close"} /\ user.pc = "act" /\ Others
  BY DEF SuspendAct, AtAct
<1>3. PICK i \in Ifc : i = user.i BY HereIs
<1>4. /\ ifc[i] \in IfcType /\ ifc[i].st = "SUSPENDING" /\ ~ifc[i].told /\ user \in UserType
      /\ \A j \in Ifc : ifc[j].st # "NOT_INIT" /\ (j # i => ifc[j].st # "SUSPENDING")
  <2>1. ifc[i] \in IfcType /\ ifc[i].st = "SUSPENDING" /\ user \in UserType
    BY <1>2, <1>3, Known DEF UacInv, UserPlace, Halts, Waiting
  <2>2. ~ifc[i].told BY <2>1 DEF UacInv, IfcsAre, IfcIs
  <2>3. \A j \in Ifc : ifc[j].st # "NOT_INIT" /\ (j # i => ifc[j].st # "SUSPENDING")
    BY <1>2, <1>3 DEF UacInv, UserPlace, Halts
  <2> QED BY <2>1, <2>2, <2>3
<1>5. /\ drv = "up" /\ aux.pc = "idle" /\ bus \in {"present", "gone"} /\ ~GoneNews
      /\ \/ client.pc = "idle" /\ client.cur = 0 /\ ~Walking
         \/ client.pc = "lock" /\ client.i = i /\ bus = "gone" /\ AllIdle
  BY <1>2, <1>3, TaskIs, IdleIs
<1>6. PICK y : y = Suspended(ifc[i]) /\ ifc' = [ifc EXCEPT ![i] = y]
  BY <1>3, Known DEF SuspendAct
<1>7. /\ y \in IfcType /\ y.told = ifc[i].told /\ y.cb = ifc[i].cb /\ y.wait = ifc[i].wait /\ y.vol = ifc[i].vol
      /\ y.range = ifc[i].range /\ y.buf = 0 /\ y.st = "READY"
      /\ \A k \in Xfer : /\ y.x[k].list = "free" /\ y.x[k].urb # "flight" /\ (ifc[i].x[k].urb = "idle" => y.x[k].urb = "idle")
  BY <1>4, <1>6, SuspendedIs
<1>8. ifc' \in [Ifc -> IfcType] /\ ifc'[i] = y /\ \A j \in Ifc : j # i => ifc'[j] = ifc[j]
  BY <1>6, <1>7, Known
<1>9. /\ user' \in UserType
      /\ \/ user' = NoCall /\ user'.op = "none" /\ user'.pc = "idle"
         \/ user'.op \in {"stop", "close"} /\ user'.pc = "release" /\ user'.i = i
  <2>1. CASE user.op = "suspend"
    <3>1. user' = NoCall BY <2>1 DEF SuspendAct, Ends
    <3>2. NoCall.op = "none" /\ NoCall.pc = "idle" BY DEF NoCall
    <3> QED BY <3>1, <3>2, NothingIs
  <2>2. CASE user.op # "suspend"
    <3>1. user' = [user EXCEPT !.pc = "release"] BY <2>2 DEF SuspendAct, Now
    <3> QED BY <1>2, <1>3, <1>4, <2>2, <3>1 DEF UserType
  <2> QED BY <2>1, <2>2
<1>10. phys.ctl.urb = "idle" /\ ~phys.ctl.sem
  BY <1>2, TransferIs DEF UacInv, CtlPlace, CtlType
<1>11. TypeOK'
  BY <1>1, <1>2, <1>3, <1>4, <1>5, <1>6, <1>7, <1>8, <1>9, <1>10, Known, NothingIs, ConstantsAre,
    TypesWillBe
<1>12. IfcsAre'
  BY <1>1, <1>2, <1>3, <1>4, <1>5, <1>7, <1>8, <1>9, <1>10, ConstantsAre, HereIs DEF UacInv, IfcsAre,
    IfcIs, Claimed
<1>13. UserPlace'
  BY <1>1, <1>2, <1>3, <1>4, <1>5, <1>7, <1>8, <1>9, <1>10, ConstantsAre, HereIs DEF UacInv, UserPlace,
    Waiting, Halts, Asks, AtOnce
<1>14. CtlPlace'
  BY <1>1, <1>2, <1>3, <1>4, <1>5, <1>7, <1>8, <1>9, <1>10, ConstantsAre, HereIs DEF UacInv, CtlPlace
<1>15. Handle'
  <2>1. Num(RX)' = Num(RX) /\ Num(TX)' = Num(TX)
    BY <1>4, <1>7, <1>8, ConstantsAre DEF Num
  <2> QED BY <1>1, <1>2, <1>5, <1>9, <1>10, <2>1 DEF UacInv, Handle
<1>16. Messages'
  BY <1>1, <1>2, <1>3, <1>4, <1>5, <1>7, <1>8, <1>9, <1>10, ConstantsAre, HereIs DEF UacInv, Messages,
    GoneNews, AllIdle
<1>17. ClientPlace'
  BY <1>1, <1>2, <1>3, <1>4, <1>5, <1>7, <1>8, <1>9, <1>10, ConstantsAre, HereIs DEF UacInv,
    ClientPlace, Held, Leaving, Walking, AllIdle, GoneNews
<1>18. AuxPlace'
  BY <1>1, <1>2, <1>3, <1>4, <1>5, <1>7, <1>8, <1>9, <1>10, ConstantsAre, HereIs DEF UacInv, AuxPlace,
    AtOnce
<1>19. Streaming'
  BY <1>1, <1>2, <1>3, <1>4, <1>5, <1>7, <1>8, <1>9, <1>10, ConstantsAre, HereIs DEF UacInv, Streaming,
    TxIs, TxRuns, Ready, Running
<1>20. VolumeKnown'
  BY <1>1, <1>2, <1>3, <1>4, <1>5, <1>7, <1>8, <1>9, <1>10, ConstantsAre, HereIs DEF UacInv,
    VolumeKnown, IsSet, Leaving
<1>21. RangeKnown'
  BY <1>1, <1>2, <1>3, <1>4, <1>5, <1>7, <1>8, <1>9, <1>10, ConstantsAre, HereIs DEF UacInv,
    RangeKnown, Held, Leaving, Claimed
<1> QED
  BY <1>1, <1>11, <1>12, <1>13, <1>14, <1>15, <1>16, <1>17, <1>18, <1>19, <1>20, <1>21 DEF UacInv,
    NoAbuse

\* The interface is released, since its transfers were called back.
LEMMA ReleaseActKeeps ==
    ASSUME UacInv,
           ReleaseAct
    PROVE  UacInv'
<1>1. UNCHANGED <<dev, drv, bus, plugs, calls, env, level, msgs, hdl, phys, aux, client>>
  BY DEF ReleaseAct, outside
<1>2. user.pc = "release" /\ Others /\ (client.pc = "idle" => ~Pending) /\ user \in UserType
  BY Known DEF ReleaseAct
<1>3. user.op \in {"stop", "close"}
  BY <1>2 DEF UacInv, UserPlace, NoCall, UserType, Waiting, Asks
<1>4. PICK i \in Ifc : i = user.i BY HereIs
<1>5. /\ ifc[i] \in IfcType /\ ifc[i].st = "READY" /\ ~ifc[i].told /\ ifc[i].buf = 0
      /\ \A j \in Ifc : ifc[j].st \notin {"NOT_INIT", "SUSPENDING"}
  <2>1. ifc[i] \in IfcType /\ ifc[i].st = "READY"
    BY <1>2, <1>4, Known DEF UacInv, UserPlace
  <2>2. ~ifc[i].told /\ ifc[i].buf = 0 BY <2>1 DEF UacInv, IfcsAre, IfcIs
  <2>3. \A j \in Ifc : ifc[j].st \notin {"NOT_INIT", "SUSPENDING"}
    BY <1>2 DEF UacInv, UserPlace, Waiting
  <2> QED BY <2>1, <2>2, <2>3
<1>6. /\ drv = "up" /\ aux.pc = "idle" /\ bus \in {"present", "gone"} /\ ~GoneNews
      /\ \/ client.pc = "idle" /\ client.cur = 0 /\ ~Walking
         \/ client.pc = "lock" /\ client.i = i /\ bus = "gone" /\ AllIdle
  BY <1>2, <1>3, <1>4, TaskIs, IdleIs
<1>7. Idle(ifc[i])
  <2>1. CASE client.pc = "idle"
    <3>1. \A k \in Xfer : ifc[i].x[k] \in XferType /\ ifc[i].x[k].urb \notin Done /\ ifc[i].x[k].urb # "flight"
      BY <1>2, <1>5, <2>1 DEF Pending, IfcType, UacInv, IfcsAre, IfcIs
    <3> QED BY <3>1 DEF Idle, XferType
  <2>2. CASE client.pc = "lock" /\ AllIdle BY <2>2 DEF AllIdle, Idle
  <2> QED BY <1>6, <2>1, <2>2
<1>8. PICK y : y = Released(ifc[i]) /\ ifc' = [ifc EXCEPT ![i] = y]
  BY <1>4, <1>7, Known DEF ReleaseAct
<1>9. /\ y \in IfcType /\ y.told = ifc[i].told /\ y.cb = ifc[i].cb /\ y.wait = ifc[i].wait /\ y.vol = ifc[i].vol
      /\ y.range = ifc[i].range /\ y.buf = ifc[i].buf /\ y.st = "IDLE" /\ \A k \in Xfer : y.x[k] = NoXfer
  BY <1>5, <1>8, NothingIs DEF Released, IfcType
<1>10. ifc' \in [Ifc -> IfcType] /\ ifc'[i] = y /\ \A j \in Ifc : j # i => ifc'[j] = ifc[j]
  BY <1>8, <1>9, Known
<1>11. /\ user' \in UserType
       /\ \/ user' = NoCall /\ user'.op = "none" /\ user'.pc = "idle"
          \/ user'.op = "close" /\ user'.pc = "final" /\ user'.i = i
  <2>1. CASE user.op # "close"
    <3>1. user' = NoCall BY <1>4, <1>7, <2>1 DEF ReleaseAct, Ends
    <3>2. NoCall.op = "none" /\ NoCall.pc = "idle" BY DEF NoCall
    <3> QED BY <3>1, <3>2, NothingIs
  <2>2. CASE user.op = "close"
    <3>1. user' = [user EXCEPT !.pc = "final"]
      BY <1>4, <1>7, <2>2 DEF ReleaseAct, Now
    <3> QED BY <1>2, <1>4, <2>2, <3>1 DEF UserType
  <2> QED BY <2>1, <2>2
<1>12. phys.ctl.urb = "idle" /\ ~phys.ctl.sem /\ \A k \in Xfer : y.x[k].urb = "idle"
  BY <1>2, <1>9, TransferIs DEF UacInv, CtlPlace, CtlType, NoXfer
<1>13. crash' = "none" BY <1>6, Known DEF ReleaseAct, Fails
<1>14. TypeOK'
  BY <1>1, <1>2, <1>3, <1>4, <1>5, <1>6, <1>7, <1>8, <1>9, <1>10, <1>11, <1>12, <1>13, Known,
    NothingIs, ConstantsAre, TypesWillBe
<1>15. IfcsAre'
  BY <1>1, <1>2, <1>3, <1>5, <1>6, <1>9, <1>10, <1>11, <1>12, ConstantsAre, HereIs DEF UacInv, IfcsAre,
    IfcIs, Claimed
<1>16. UserPlace'
  BY <1>1, <1>2, <1>3, <1>5, <1>6, <1>9, <1>10, <1>11, <1>12, ConstantsAre, HereIs DEF UacInv,
    UserPlace, Waiting, Halts, Asks, AtOnce
<1>17. CtlPlace'
  BY <1>1, <1>2, <1>3, <1>5, <1>6, <1>9, <1>10, <1>11, <1>12, ConstantsAre, HereIs DEF UacInv, CtlPlace
<1>18. Handle'
  <2>1. Num(RX)' = Num(RX) /\ Num(TX)' = Num(TX)
    BY <1>5, <1>9, <1>10, ConstantsAre DEF Num
  <2> QED BY <1>1, <1>2, <1>6, <1>11, <1>12, <2>1 DEF UacInv, Handle
<1>19. Messages'
  BY <1>1, <1>2, <1>3, <1>5, <1>6, <1>9, <1>10, <1>11, <1>12, ConstantsAre, HereIs DEF UacInv,
    Messages, GoneNews, AllIdle
<1>20. ClientPlace'
  <2>1. AllIdle => AllIdle' BY <1>1, <1>10, <1>12 DEF AllIdle
  <2>2. /\ \A j \in Ifc : ifc'[j].st = "free" <=> ifc[j].st = "free"
        /\ \A j \in Ifc : ifc'[j].told <=> ifc[j].told
        /\ \A j \in Ifc : ifc'[j].wait <=> ifc[j].wait
    BY <1>5, <1>9, <1>10
  <2> QED BY <1>1, <1>2, <1>6, <1>11, <2>1, <2>2, ClientStays DEF Leaving
<1>21. AuxPlace'
  BY <1>1, <1>2, <1>3, <1>5, <1>6, <1>9, <1>10, <1>11, <1>12, ConstantsAre, HereIs DEF UacInv,
    AuxPlace, AtOnce
<1>22. Streaming'
  <2>1. \A j \in Ifc : \A k \in Xfer : ifc'[j].x[k].urb = "flight" => bus = "present"
    BY <1>10, <1>12 DEF UacInv, Streaming
  <2>2. \A j \in Ifc : ifc'[j].st \in {"READY", "ACTIVE"} => ifc'[j] = ifc[j]
    BY <1>9, <1>10
  <2> QED BY <1>1, <1>6, <2>1, <2>2, ConstantsAre DEF UacInv, Streaming, TxIs, TxRuns
<1>23. VolumeKnown'
  BY <1>1, <1>2, <1>3, <1>5, <1>6, <1>9, <1>10, <1>11, <1>12, ConstantsAre, HereIs DEF UacInv,
    VolumeKnown, IsSet, Leaving
<1>24. RangeKnown'
  BY <1>1, <1>2, <1>3, <1>5, <1>6, <1>9, <1>10, <1>11, <1>12, ConstantsAre, HereIs DEF UacInv,
    RangeKnown, Held, Leaving, Claimed
<1> QED
  BY <1>1, <1>13, <1>14, <1>15, <1>16, <1>17, <1>18, <1>19, <1>20, <1>21, <1>22, <1>23, <1>24 DEF
    UacInv, NoAbuse

\* The interface no longer counts, and the device is closed with its last one.
LEMMA CloseFinalKeeps ==
    ASSUME UacInv,
           CloseFinal
    PROVE  UacInv'
<1>1. UNCHANGED <<dev, drv, bus, plugs, calls, env, level, msgs, ifc, aux, client>>
  BY DEF CloseFinal, At, outside
<1>2. user.op = "close" /\ user.pc = "final" /\ Others /\ user \in UserType
  BY Known DEF CloseFinal, At
<1>3. PICK i \in Ifc : i = user.i BY HereIs
<1>4. /\ ifc[i] \in IfcType /\ ifc[i].st = "IDLE" /\ phys \in PhysType
      /\ \A j \in Ifc : ifc[j].st \notin {"NOT_INIT", "SUSPENDING"}
  BY <1>2, <1>3, Known DEF UacInv, UserPlace, Waiting
<1>5. /\ drv = "up" /\ aux.pc = "idle" /\ bus \in {"present", "gone"} /\ ~GoneNews
      /\ \/ client.pc = "idle" /\ client.cur = 0 /\ ~Walking
         \/ client.pc = "lock" /\ client.i = i /\ bus = "gone" /\ AllIdle
  BY <1>2, <1>3, TaskIs, IdleIs
<1>6. /\ phys.cnt \in 1..2 /\ hdl # 0 /\ phys.st = "listed" /\ phys.cnt = Nums /\ Counted = phys.cnt - 1
      /\ phys.ctl.urb = "idle" /\ ~phys.ctl.sem
  <2>1. phys.cnt \in 1..2 /\ hdl # 0 /\ phys.st = "listed"
    BY <1>2, <1>4, HeldIs DEF Held, Leaving
  <2>2. phys.cnt = Nums BY <1>2, <2>1 DEF UacInv, Handle, Nums
  <2>3. phys.ctl.urb = "idle" /\ ~phys.ctl.sem
    BY <1>2, TransferIs DEF UacInv, CtlPlace, CtlType
  <2> QED BY <2>1, <2>2, <2>3, CountedIs
<1>7. phys.cnt = 1 => Closable
  <2> SUFFICES ASSUME phys.cnt = 1, NEW j \in Ifc, Claimed(ifc[j]) PROVE FALSE
    BY <1>6 DEF Closable
  <2>1. Num(i) = 1 /\ Num(j) = 1 /\ i # j BY <1>4 DEF Num, Claimed
  <2>2. Num(RX) = 1 /\ Num(TX) = 1 BY <2>1, ConstantsAre
  <2> QED BY <1>6, <2>2 DEF Nums
<1>8. crash' = "none" BY <1>6, Known DEF CloseFinal, Fails
<1>9. \/ /\ ifc[i].wait /\ user' = NoCall /\ user'.op = "none" /\ user'.pc = "idle" /\ UNCHANGED <<phys, hdl>>
      \/ /\ ~ifc[i].wait /\ user' = [user EXCEPT !.pc = "delay"]
         /\ \/ phys.cnt = 2 /\ phys' = [phys EXCEPT !.cnt = 1] /\ hdl' = hdl
            \/ phys.cnt = 1 /\ phys' = NoPhys /\ hdl' = 0
  <2>1. CASE ifc[i].wait
    <3>1. user' = NoCall /\ UNCHANGED <<phys, hdl>>
      BY <1>3, <2>1 DEF CloseFinal, Ends
    <3>2. NoCall.op = "none" /\ NoCall.pc = "idle" BY DEF NoCall
    <3> QED BY <2>1, <3>1, <3>2
  <2>2. CASE ~ifc[i].wait
    <3>0. ~(Counted = 0 /\ ~Closable) BY <1>6, <1>7
    <3>1. PhysClosed(Closable) /\ user' = [user EXCEPT !.pc = "delay"]
      BY <1>3, <2>2, <3>0 DEF CloseFinal, Now
    <3>2. CASE phys.cnt = 2 BY <1>6, <2>2, <3>1, <3>2 DEF PhysClosed
    <3>3. CASE phys.cnt = 1 BY <1>6, <1>7, <2>2, <3>1, <3>3 DEF PhysClosed
    <3> QED BY <1>6, <3>2, <3>3
  <2> QED BY <2>1, <2>2
<1>10. ~ifc[i].wait => client.pc = "idle" /\ client.cur = 0 /\ ~Walking
  BY <1>3, <1>5 DEF UacInv, ClientPlace
<1>11. /\ user' \in UserType
       /\ \/ user'.op = "none" /\ user'.pc = "idle" /\ user' = NoCall
          \/ user'.op = "close" /\ user'.pc = "delay" /\ user'.i = i /\ ~ifc[i].wait
  BY <1>2, <1>3, <1>9, NothingIs DEF UserType
<1>12. /\ phys' \in PhysType /\ phys'.ctl.urb = "idle" /\ ~phys'.ctl.sem /\ (phys'.st = "none" => phys' = NoPhys /\ hdl' = 0)
       /\ phys'.st # "none" => phys'.st = phys.st /\ hdl' = hdl
       /\ phys'.cnt + (IF user'.pc = "delay" THEN 1 ELSE 0) = Nums /\ hdl' \in {0, hdl}
  <2>1. NoPhys.st = "none" /\ NoPhys.cnt = 0 /\ NoPhys.ctl.urb = "idle" /\ ~NoPhys.ctl.sem
    BY DEF NoPhys, NoCtl
  <2>2. CASE UNCHANGED <<phys, hdl>> /\ user'.pc = "idle"
    BY <1>4, <1>6, <2>2
  <2>3. CASE user' = [user EXCEPT !.pc = "delay"]
    <3>1. user'.pc = "delay" BY <1>2, <2>3 DEF UserType
    <3>2. CASE phys.cnt = 2 /\ phys' = [phys EXCEPT !.cnt = 1] /\ hdl' = hdl
      <4>1. phys' \in PhysType /\ phys'.st = phys.st /\ phys'.ctl = phys.ctl /\ phys'.cnt = 1
        BY <1>4, <3>2 DEF PhysType
      <4> QED BY <1>6, <3>1, <3>2, <4>1
    <3>3. CASE phys.cnt = 1 /\ phys' = NoPhys /\ hdl' = 0
      BY <1>6, <2>1, <3>1, <3>3, NothingIs
    <3> QED BY <1>6, <1>9, <2>3, <3>2, <3>3
  <2> QED BY <1>9, <2>2, <2>3
<1>13. hdl' \in 0..MaxPlugs BY <1>12, Known, ConstantsAre
<1>14. TypeOK'
  BY <1>1, <1>2, <1>3, <1>4, <1>5, <1>6, <1>7, <1>8, <1>9, <1>10, <1>11, <1>12, <1>13, Known,
    NothingIs, ConstantsAre, TypesWillBe
<1>15. IfcsAre'
  BY <1>1, <1>2, <1>3, <1>4, <1>5, <1>6, <1>10, <1>11, <1>12, ConstantsAre, HereIs DEF UacInv, IfcsAre,
    IfcIs, Claimed
<1>16. UserPlace'
  BY <1>1, <1>2, <1>3, <1>4, <1>5, <1>6, <1>10, <1>11, <1>12, ConstantsAre, HereIs DEF UacInv,
    UserPlace, Waiting, Halts, Asks, AtOnce
<1>17. CtlPlace'
  BY <1>1, <1>2, <1>3, <1>4, <1>5, <1>6, <1>10, <1>11, <1>12, ConstantsAre, HereIs DEF UacInv, CtlPlace
<1>18. Handle'
  <2>1. Num(RX)' = Num(RX) /\ Num(TX)' = Num(TX) BY <1>1 DEF Num
  <2>2. phys'.cnt + (IF user'.pc \in {"count", "delay"} THEN 1 ELSE 0) = Num(RX)' + Num(TX)'
    BY <1>11, <1>12, <2>1 DEF Nums
  <2> QED BY <1>1, <1>2, <1>5, <1>6, <1>11, <1>12, <2>2 DEF UacInv, Handle
<1>19. Messages'
  BY <1>1, <1>2, <1>3, <1>4, <1>5, <1>6, <1>10, <1>11, <1>12, ConstantsAre, HereIs DEF UacInv,
    Messages, GoneNews, AllIdle
<1>20. ClientPlace'
  <2>1. AllIdle => AllIdle' BY <1>1, <1>12 DEF AllIdle
  <2> QED BY <1>1, <1>2, <1>4, <1>10, <1>11, <2>1, ClientStays DEF Leaving, UacInv, ClientPlace
<1>21. AuxPlace'
  BY <1>1, <1>2, <1>3, <1>4, <1>5, <1>6, <1>10, <1>11, <1>12, ConstantsAre, HereIs DEF UacInv,
    AuxPlace, AtOnce
<1>22. Streaming'
  BY <1>1, <1>2, <1>3, <1>4, <1>5, <1>6, <1>10, <1>11, <1>12, ConstantsAre, HereIs DEF UacInv,
    Streaming, TxIs, TxRuns, Ready, Running
<1>23. VolumeKnown'
  BY <1>1, <1>2, <1>3, <1>4, <1>5, <1>6, <1>10, <1>11, <1>12, ConstantsAre, HereIs DEF UacInv,
    VolumeKnown, IsSet, Leaving
<1>24. RangeKnown'
  BY <1>1, <1>2, <1>3, <1>4, <1>5, <1>6, <1>10, <1>11, <1>12, ConstantsAre, HereIs DEF UacInv,
    RangeKnown, Held, Leaving, Claimed
<1> QED
  BY <1>1, <1>8, <1>9, <1>14, <1>15, <1>16, <1>17, <1>18, <1>19, <1>20, <1>21, <1>22, <1>23, <1>24 DEF
    UacInv, NoAbuse

\* The interface is freed, after its reader has ended.
LEMMA CloseDelayKeeps ==
    ASSUME UacInv,
           CloseDelay
    PROVE  UacInv'
<1>1. UNCHANGED <<dev, drv, bus, plugs, calls, env, level, msgs, hdl, phys, aux, client>>
  BY DEF CloseDelay, At, outside
<1>2. user.op = "close" /\ user.pc = "delay" /\ Others /\ user \in UserType /\ user' = NoCall
  BY Known DEF CloseDelay, At, Ends
<1>3. PICK i \in Ifc : i = user.i BY HereIs
<1>4. /\ ifc[i].st = "IDLE" /\ phys \in PhysType /\ \A j \in Ifc : ifc[j].st \notin {"NOT_INIT", "SUSPENDING"}
  BY <1>2, <1>3, Known DEF UacInv, UserPlace, Waiting
<1>5. /\ drv = "up" /\ aux.pc = "idle" /\ bus \in {"present", "gone"} /\ ~GoneNews /\ ~ClientWaits
      /\ client.pc = "idle" /\ client.cur = 0 /\ ~Walking
  BY <1>2, TaskIs, WaitsIs, OthersAre, IdleIs
<1>6. crash' = "none" BY <1>5, Known DEF CloseDelay, Fails
<1>7. ifc' \in [Ifc -> IfcType] /\ ifc'[i] = NoIfc /\ \A j \in Ifc : j # i => ifc'[j] = ifc[j]
  BY <1>3, Known, NothingIs DEF CloseDelay
<1>8. NoIfc.st = "free" /\ ~NoIfc.told /\ ~NoIfc.wait /\ NoIfc.vol = 0 /\ NoIfc.buf = 0 /\ \A k \in Xfer : NoIfc.x[k] = NoXfer
  BY DEF NoIfc
<1>9. user' \in UserType /\ user'.op = "none" /\ user'.pc = "idle"
  BY <1>2, NothingIs DEF NoCall
<1>10. phys.ctl.urb = "idle" /\ ~phys.ctl.sem
  BY <1>2, TransferIs DEF UacInv, CtlPlace, CtlType
<1>11. TypeOK'
  BY <1>1, <1>2, <1>3, <1>4, <1>5, <1>6, <1>7, <1>8, <1>9, <1>10, Known, NothingIs, ConstantsAre,
    TypesWillBe
<1>12. IfcsAre'
  <2> SUFFICES ASSUME NEW j \in Ifc PROVE IfcIs(j, ifc[j])'
    BY DEF IfcsAre
  <2>1. IfcIs(j, ifc[j]) BY DEF UacInv, IfcsAre
  <2>2. CASE j = i BY <1>1, <1>7, <1>8, <2>2 DEF IfcIs, Claimed
  <2>3. CASE j # i BY <1>1, <1>7, <2>1, <2>3 DEF IfcIs, Claimed
  <2> QED BY <2>2, <2>3
<1>13. UserPlace'
  BY <1>1, <1>2, <1>3, <1>4, <1>5, <1>7, <1>8, <1>9, <1>10, ConstantsAre, HereIs DEF UacInv, UserPlace,
    Waiting, Halts, Asks, AtOnce
<1>14. CtlPlace'
  BY <1>1, <1>2, <1>3, <1>4, <1>5, <1>7, <1>8, <1>9, <1>10, ConstantsAre, HereIs DEF UacInv, CtlPlace
<1>15. Handle'
  <2>1. Nums' = Nums - 1 /\ Nums \in 0..2 BY <1>4, <1>7, <1>8, NumsAre
  <2>2. phys.cnt + 1 = Nums BY <1>2 DEF UacInv, Handle, Nums
  <2>3. phys.cnt = Num(RX)' + Num(TX)'
    <3>1. phys.cnt = Nums' BY <1>4, <2>1, <2>2 DEF PhysType
    <3> QED BY <3>1 DEF Nums
  <2>4. phys'.cnt + (IF user'.pc \in {"count", "delay"} THEN 1 ELSE 0) = Num(RX)' + Num(TX)'
    BY <1>1, <1>4, <1>9, <2>3 DEF PhysType
  <2> QED BY <1>1, <1>2, <1>5, <1>9, <1>10, <2>4 DEF UacInv, Handle
<1>16. Messages'
  BY <1>1, <1>2, <1>3, <1>4, <1>5, <1>7, <1>8, <1>9, <1>10, ConstantsAre, HereIs DEF UacInv, Messages,
    GoneNews, AllIdle
<1>17. ClientPlace'
  BY <1>1, <1>2, <1>3, <1>4, <1>5, <1>7, <1>8, <1>9, <1>10, ConstantsAre, HereIs DEF UacInv,
    ClientPlace, Held, Leaving, Walking, AllIdle, GoneNews
<1>18. AuxPlace'
  BY <1>1, <1>2, <1>3, <1>4, <1>5, <1>7, <1>8, <1>9, <1>10, ConstantsAre, HereIs DEF UacInv, AuxPlace,
    AtOnce
<1>19. Streaming'
  <2>1. \A j \in Ifc : \A k \in Xfer : ifc'[j].x[k].urb = "flight" => bus = "present"
    BY <1>7, <1>8 DEF UacInv, Streaming, NoXfer
  <2>2. \A j \in Ifc : ifc'[j].st \in {"READY", "ACTIVE"} => ifc'[j] = ifc[j]
    BY <1>7, <1>8
  <2> QED BY <1>1, <1>5, <2>1, <2>2, ConstantsAre DEF UacInv, Streaming, TxIs, TxRuns
<1>20. VolumeKnown'
  BY <1>1, <1>2, <1>3, <1>4, <1>5, <1>7, <1>8, <1>9, <1>10, ConstantsAre, HereIs DEF UacInv,
    VolumeKnown, IsSet, Leaving
<1>21. RangeKnown'
  BY <1>1, <1>2, <1>3, <1>4, <1>5, <1>7, <1>8, <1>9, <1>10, ConstantsAre, HereIs DEF UacInv,
    RangeKnown, Held, Leaving, Claimed
<1> QED
  BY <1>1, <1>6, <1>11, <1>12, <1>13, <1>14, <1>15, <1>16, <1>17, <1>18, <1>19, <1>20, <1>21 DEF
    UacInv, NoAbuse

-----------------------------------------------------------------------------
(* The reading or writing task *)

\* It runs while nothing else is under way.
LEMMA AuxIs ==
    ASSUME UacInv, Others, user.op = "none" \/ "two" \in env
    PROVE  /\ ClientIdle /\ client.pc = "idle" /\ client.cur = 0 /\ msgs = <<>> /\ ~GoneNews /\ ~Walking
           /\ user = NoCall /\ user.op = "none" /\ user.pc = "idle" /\ aux \in AuxType
           /\ \A j \in Ifc : ~ifc[j].wait /\ ifc[j].st \notin {"NOT_INIT", "SUSPENDING"}
<1>1. user.op = "none" /\ user = NoCall /\ user.pc = "idle"
  BY Spared DEF UacInv, UserPlace, NoCall
<1>2. ClientIdle BY <1>1, OthersAre, WaitsIs
<1>3. \A j \in Ifc : ifc[j].st \notin {"NOT_INIT", "SUSPENDING"}
  BY <1>1 DEF UacInv, UserPlace, Halts
<1> QED BY <1>1, <1>2, <1>3, IdleIs, Known

\* A transfer worth of data is read, or waited for.
LEMMA ReadKeeps ==
    ASSUME UacInv,
           Read
    PROVE  UacInv'
<1>1. UNCHANGED <<dev, drv, bus, plugs, calls, env, level, msgs, hdl, phys, user, client, crash>>
  BY DEF Read, AuxStep, outside
<1>2. aux.pc = "read" BY DEF Read
<1>3. /\ client.pc = "idle" /\ client.cur = 0 /\ msgs = <<>> /\ ~GoneNews /\ ~Walking
      /\ user = NoCall /\ user.op = "none" /\ user.pc = "idle" /\ aux \in AuxType
  BY AuxIs DEF Read, AuxStep
<1>4. PICK i \in Ifc : i = RX BY ConstantsAre
<1>5. ifc[i] \in IfcType /\ ifc[i].buf \in 0..BufSize BY Known DEF IfcType
<1>6. PICK b \in 0..BufSize : b = (IF ifc[i].buf > 0 THEN ifc[i].buf - 1 ELSE 0) /\ (ifc[i].buf = 0 => b = 0)
  BY <1>5, ConstantsAre
<1>7. PICK y : y = [ifc[i] EXCEPT !.buf = b] OBVIOUS
<1>8. /\ y \in IfcType /\ y.st = ifc[i].st /\ y.told = ifc[i].told /\ y.cb = ifc[i].cb /\ y.wait = ifc[i].wait
      /\ y.vol = ifc[i].vol /\ y.range = ifc[i].range /\ y.failed = ifc[i].failed /\ y.x = ifc[i].x /\ y.buf = b
  BY <1>5, <1>7 DEF IfcType
<1>9. ifc' \in [Ifc -> IfcType] /\ ifc'[i] = y /\ \A j \in Ifc : j # i => ifc'[j] = ifc[j]
  <2>1. ifc' = [ifc EXCEPT ![i] = y] BY <1>4, <1>6, <1>7, Known DEF Read
  <2> QED BY <1>8, <2>1, Known
<1>10. aux' \in AuxType /\ aux'.pc \in {"idle", "read"}
  <2>1. NoAux \in AuxType /\ NoAux.pc = "idle" BY NothingIs DEF NoAux
  <2>2. [aux EXCEPT !.got = 1] \in AuxType /\ [aux EXCEPT !.got = 1].pc = "read"
    BY <1>2, <1>3 DEF AuxType
  <2>3. aux' = [aux EXCEPT !.got = 1] \/ aux' = NoAux BY DEF Read
  <2> QED BY <2>1, <2>2, <2>3
<1>11. \A j \in Ifc : /\ ifc'[j].st = ifc[j].st /\ ifc'[j].told = ifc[j].told /\ ifc'[j].cb = ifc[j].cb
                      /\ ifc'[j].wait = ifc[j].wait /\ ifc'[j].vol = ifc[j].vol /\ ifc'[j].range = ifc[j].range
                      /\ ifc'[j].x = ifc[j].x /\ ifc'[j].failed = ifc[j].failed /\ (ifc[j].buf = 0 => ifc'[j].buf = 0)
                      /\ j # RX => ifc'[j].buf = ifc[j].buf
  BY <1>4, <1>5, <1>6, <1>8, <1>9
<1>12. RX # TX BY DEF RX, TX
<1>13. TypeOK'
  BY <1>1, <1>2, <1>3, <1>4, <1>5, <1>6, <1>7, <1>8, <1>9, <1>10, <1>11, <1>12, Known, NothingIs,
    ConstantsAre, TypesWillBe
<1>14. IfcsAre'
  <2> SUFFICES ASSUME NEW j \in Ifc PROVE IfcIs(j, ifc[j])'
    BY DEF IfcsAre
  <2>1. IfcIs(j, ifc[j]) BY DEF UacInv, IfcsAre
  <2>2. CASE ifc[j].st = "free"
    <3>1. ifc'[j] = ifc[j]
      <4>1. NoIfc.buf = 0 BY DEF NoIfc
      <4>2. j = i => y = ifc[i]
        BY <1>5, <1>6, <1>7, <2>1, <2>2, <4>1 DEF IfcIs, IfcType
      <4> QED BY <1>9, <4>2
    <3> QED BY <1>1, <2>1, <3>1 DEF IfcIs, Claimed
  <2>3. CASE ifc[j].st # "free"
    BY <1>1, <1>11, <2>1, <2>3 DEF IfcIs, Claimed
  <2> QED BY <2>2, <2>3
<1>15. UserPlace' BY <1>1, <1>11, HereIs, UserStays
<1>16. CtlPlace'
  BY <1>1, <1>2, <1>3, <1>10, <1>11, <1>12, ConstantsAre, HereIs DEF UacInv, CtlPlace
<1>17. Handle'
  BY <1>1, <1>2, <1>3, <1>10, <1>11, <1>12, ConstantsAre, HereIs DEF UacInv, Handle, Num
<1>18. Messages'
  BY <1>1, <1>2, <1>3, <1>10, <1>11, <1>12, ConstantsAre, HereIs DEF UacInv, Messages, GoneNews,
    AllIdle
<1>19. ClientPlace'
  BY <1>1, <1>2, <1>3, <1>10, <1>11, <1>12, ConstantsAre, HereIs DEF UacInv, ClientPlace, Held,
    Leaving, Walking, AllIdle, GoneNews
<1>20. AuxPlace'
  BY <1>1, <1>2, <1>3, <1>10, <1>11, <1>12, ConstantsAre, HereIs DEF UacInv, AuxPlace, AtOnce
<1>21. Streaming'
  BY <1>1, <1>2, <1>3, <1>10, <1>11, <1>12, ConstantsAre, HereIs DEF UacInv, Streaming, TxIs, TxRuns,
    Ready, Running
<1>22. VolumeKnown'
  BY <1>1, <1>2, <1>3, <1>10, <1>11, <1>12, ConstantsAre, HereIs DEF UacInv, VolumeKnown, IsSet,
    Leaving
<1>23. RangeKnown'
  BY <1>1, <1>2, <1>3, <1>10, <1>11, <1>12, ConstantsAre, HereIs DEF UacInv, RangeKnown, Held, Leaving,
    Claimed
<1> QED
  BY <1>1, <1>13, <1>14, <1>15, <1>16, <1>17, <1>18, <1>19, <1>20, <1>21, <1>22, <1>23 DEF UacInv,
    NoAbuse

\* The next transfer of the free list is taken, if there is data for it.
LEMMA WriteScanKeeps ==
    ASSUME UacInv,
           WriteScan
    PROVE  UacInv'
<1>1. UNCHANGED <<dev, drv, bus, plugs, calls, env, level, msgs, hdl, phys, user, client>>
  BY DEF WriteScan, AuxStep, outside
<1>2. aux.pc = "scan" BY DEF WriteScan
<1>3. /\ client.pc = "idle" /\ client.cur = 0 /\ msgs = <<>> /\ ~GoneNews /\ ~Walking
      /\ user = NoCall /\ user.op = "none" /\ user.pc = "idle" /\ aux \in AuxType
  BY AuxIs DEF WriteScan, AuxStep
<1>4. bus = "present" /\ ifc[TX].st = "ACTIVE" /\ ifc[TX] \in IfcType
  BY <1>2, Known, ConstantsAre DEF UacInv, AuxPlace
<1>5. crash' = "none" BY <1>4, Known DEF WriteScan, Fails, Claimed
<1>6. PICK k \in 1 .. XferNum + 1 : k = aux.k BY <1>3 DEF AuxType
<1>7. PICK take \in BOOLEAN : take = (k \in Xfer /\ ifc[TX].x[k].list = "free" /\ ifc[TX].buf > 0)
  OBVIOUS
<1>8. \/ k > XferNum /\ aux' = NoAux /\ ifc' = ifc
      \/ take /\ aux' = [aux EXCEPT !.pc = "submit"] /\ ifc' = [ifc EXCEPT ![TX].x[k].list = "busy"]
      \/ k \in Xfer /\ ~take /\ aux' = [aux EXCEPT !.k = k + 1] /\ ifc' = ifc
  <2>1. CASE k > XferNum BY <1>6, <2>1 DEF WriteScan
  <2>2. CASE ~(k > XferNum)
    <3>1. k \in Xfer BY <2>2, ConstantsAre DEF Xfer
    <3>2. take <=> (ifc[TX].x[k].list = "free" /\ ifc[TX].buf > 0 /\ ifc[TX].st = "ACTIVE")
      BY <1>4, <1>7, <3>1
    <3>3. CASE take BY <1>6, <2>2, <3>1, <3>2, <3>3 DEF WriteScan
    <3>4. CASE ~take BY <1>6, <2>2, <3>1, <3>2, <3>4 DEF WriteScan
    <3> QED BY <3>3, <3>4
  <2> QED BY <2>1, <2>2
<1>9. \/ k > XferNum /\ ~take /\ aux'.pc = "idle"
      \/ k \in Xfer /\ take /\ aux'.pc = "submit" /\ aux'.k = k
      \/ k \in Xfer /\ ~take /\ aux'.pc = "scan" /\ aux'.k = k + 1
  <2>1. k > XferNum => ~(k \in Xfer) BY ConstantsAre DEF Xfer
  <2> QED
    <3>1. CASE k > XferNum /\ aux' = NoAux BY <1>7, <2>1, <3>1 DEF NoAux
    <3>2. CASE take /\ aux' = [aux EXCEPT !.pc = "submit"]
      BY <1>3, <1>6, <1>7, <3>2 DEF AuxType
    <3>3. CASE k \in Xfer /\ ~take /\ aux' = [aux EXCEPT !.k = k + 1]
      BY <1>2, <1>3, <3>3 DEF AuxType
    <3> QED BY <1>8, <3>1, <3>2, <3>3
<1>10. aux' \in AuxType
  <2>1. k \in Xfer => k + 1 \in 1 .. XferNum + 1 BY ConstantsAre DEF Xfer
  <2> QED BY <1>3, <1>8, <2>1, NothingIs DEF AuxType
<1>11. \A n \in Xfer : TxIs(n) /\ ifc[TX].x[n] \in XferType
  BY <1>4 DEF UacInv, Streaming, IfcType
<1>12. take => k \in Xfer /\ ifc[TX].x[k] = Ready /\ [Ready EXCEPT !.list = "busy"] = [list |-> "busy", urb |-> "idle"]
  <2>1. [Ready EXCEPT !.list = "busy"] = [list |-> "busy", urb |-> "idle"]
    BY DEF Ready
  <2>2. ASSUME take PROVE k \in Xfer /\ ifc[TX].x[k] = Ready
    <3>1. k \in Xfer /\ ifc[TX].x[k].list = "free" BY <1>7, <2>2
    <3>2. TxIs(k) BY <1>11, <3>1
    <3> QED BY <3>1, <3>2 DEF TxIs
  <2> QED BY <2>1, <2>2
<1>13. PICK y \in IfcType : /\ ifc' = [ifc EXCEPT ![TX] = y]
                           /\ y.st = "ACTIVE" /\ y.told = ifc[TX].told /\ y.cb = ifc[TX].cb /\ y.wait = ifc[TX].wait
                           /\ y.vol = ifc[TX].vol /\ y.range = ifc[TX].range /\ y.failed = ifc[TX].failed /\ y.buf = ifc[TX].buf
                           /\ \A n \in Xfer : y.x[n] = IF take /\ n = k THEN [list |-> "busy", urb |-> "idle"] ELSE ifc[TX].x[n]
  <2>1. CASE take
    <3>1. PICK t \in XferType : t = [list |-> "busy", urb |-> "idle"]
      BY DEF XferType
    <3>2. ifc' = [ifc EXCEPT ![TX].x[k] = t]
      <4>1. ifc' = [ifc EXCEPT ![TX].x[k].list = "busy"] /\ k \in Xfer
        <5>1. k \in Xfer /\ ~(k > XferNum)
          BY <1>12, <2>1, ConstantsAre DEF Xfer
        <5> QED BY <1>8, <2>1, <5>1
      <4>2. [ifc[TX].x[k] EXCEPT !.list = "busy"] = t BY <1>12, <2>1, <3>1
      <4> QED BY <4>1, <4>2, Known, ConstantsAre DEF IfcType
    <3>3. PICK y : y = [ifc[TX] EXCEPT !.x[k] = t] OBVIOUS
    <3>4. /\ y \in IfcType /\ y.st = "ACTIVE" /\ y.told = ifc[TX].told /\ y.cb = ifc[TX].cb /\ y.wait = ifc[TX].wait
          /\ y.vol = ifc[TX].vol /\ y.range = ifc[TX].range /\ y.failed = ifc[TX].failed /\ y.buf = ifc[TX].buf
          /\ \A n \in Xfer : y.x[n] = IF n = k THEN t ELSE ifc[TX].x[n]
      BY <1>4, <1>12, <2>1, <3>1, <3>3 DEF IfcType
    <3>5. ifc' = [ifc EXCEPT ![TX] = y] BY <3>2, <3>3, Known, ConstantsAre
    <3> QED BY <2>1, <3>1, <3>4, <3>5
  <2>2. CASE ~take
    <3>1. ifc' = ifc BY <1>8, <2>2
    <3>2. ifc' = [ifc EXCEPT ![TX] = ifc[TX]] BY <3>1, Known, ConstantsAre
    <3> QED BY <1>4, <2>2, <3>2
  <2> QED BY <2>1, <2>2
<1>14. ifc' \in [Ifc -> IfcType] /\ ifc'[TX] = y /\ ifc'[RX] = ifc[RX] /\ \A j \in Ifc : j # TX => ifc'[j] = ifc[j]
  BY <1>13, Known, ConstantsAre DEF RX, TX
<1>15. \A j \in Ifc : /\ ifc'[j].st = ifc[j].st /\ ifc'[j].told = ifc[j].told /\ ifc'[j].cb = ifc[j].cb
                      /\ ifc'[j].wait = ifc[j].wait /\ ifc'[j].vol = ifc[j].vol /\ ifc'[j].range = ifc[j].range
                      /\ ifc'[j].failed = ifc[j].failed /\ ifc'[j].buf = ifc[j].buf
                      /\ \A n \in Xfer : ifc'[j].x[n].urb = ifc[j].x[n].urb
  BY <1>4, <1>12, <1>13, <1>14 DEF Ready
<1>16. \A n \in Xfer : y.x[n].list # "none" BY <1>11, <1>13 DEF TxIs, Ready
<1>17. TypeOK'
  BY <1>1, <1>2, <1>3, <1>4, <1>5, <1>6, <1>7, <1>8, <1>9, <1>10, <1>11, <1>12, <1>13, <1>14, <1>15,
    <1>16, Known, NothingIs, ConstantsAre, TypesWillBe
<1>18. IfcsAre'
  <2> SUFFICES ASSUME NEW j \in Ifc PROVE IfcIs(j, ifc[j])'
    BY DEF IfcsAre
  <2>1. IfcIs(j, ifc[j]) BY DEF UacInv, IfcsAre
  <2>2. CASE j = TX
    BY <1>1, <1>4, <1>13, <1>14, <1>16, <2>1, <2>2 DEF IfcIs, Claimed
  <2>3. CASE j # TX BY <1>1, <1>14, <2>1, <2>3 DEF IfcIs, Claimed
  <2> QED BY <2>2, <2>3
<1>19. UserPlace' BY <1>1, <1>3, <1>15, HereIs, UserStays
<1>20. CtlPlace'
  BY <1>1, <1>2, <1>3, <1>4, <1>9, <1>10, <1>14, <1>15, ConstantsAre, HereIs DEF UacInv, CtlPlace
<1>21. Handle'
  BY <1>1, <1>2, <1>3, <1>4, <1>9, <1>10, <1>14, <1>15, ConstantsAre, HereIs DEF UacInv, Handle, Num
<1>22. Messages'
  BY <1>1, <1>2, <1>3, <1>4, <1>9, <1>10, <1>14, <1>15, ConstantsAre, HereIs DEF UacInv, Messages,
    GoneNews, AllIdle
<1>23. ClientPlace'
  BY <1>1, <1>2, <1>3, <1>4, <1>9, <1>10, <1>14, <1>15, ConstantsAre, HereIs DEF UacInv, ClientPlace,
    Held, Leaving, Walking, AllIdle, GoneNews
<1>24. AuxPlace'
  <2>1. take => ifc'[TX].x[k].list = "busy" /\ ifc'[TX].x[k].urb = "idle" /\ k \in Xfer
    BY <1>12, <1>13, <1>14
  <2> QED BY <1>1, <1>3, <1>4, <1>9, <1>13, <1>14, <2>1 DEF AuxPlace
<1>25. Streaming'
  <2>1. \A n \in Xfer : TxIs(n)'
    <3> SUFFICES ASSUME NEW n \in Xfer PROVE TxIs(n)'
      OBVIOUS
    <3>1. CASE take /\ n = k BY <1>9, <1>13, <1>14, <3>1 DEF TxIs
    <3>2. CASE ~(take /\ n = k) BY <1>2, <1>11, <1>13, <1>14, <3>2 DEF TxIs
    <3> QED BY <3>1, <3>2
  <2>2. ~ifc[TX].failed /\ ifc[TX].buf > 0 => TxRuns'
    <3> SUFFICES ASSUME ~ifc[TX].failed, ifc[TX].buf > 0 PROVE TxRuns'
      OBVIOUS
    <3>1. \/ \E n \in Xfer : ifc[TX].x[n].urb \in Running
          \/ \E n \in Xfer : n >= k /\ ifc[TX].x[n].list = "free"
      BY <1>2, <1>4, <1>6 DEF UacInv, Streaming, TxRuns
    <3>2. CASE \E n \in Xfer : ifc[TX].x[n].urb \in Running
      BY <1>15, <3>2, ConstantsAre DEF TxRuns
    <3>3. CASE take BY <1>9, <3>3 DEF TxRuns
    <3>4. CASE ~take /\ \E n \in Xfer : n >= k /\ ifc[TX].x[n].list = "free"
      <4>1. PICK n \in Xfer : n >= k /\ ifc[TX].x[n].list = "free" BY <3>4
      <4>2. k \in Xfer /\ n \in Nat /\ n <= XferNum
        BY <4>1, ConstantsAre DEF Xfer
      <4>3. n # k BY <1>7, <3>4, <4>1, <4>2
      <4>4. n >= k + 1 /\ ~(k > XferNum)
        BY <4>1, <4>2, <4>3, ConstantsAre DEF Xfer
      <4>5. aux'.pc = "scan" /\ aux'.k = k + 1 /\ ifc'[TX].x[n] = ifc[TX].x[n]
        BY <1>9, <1>13, <1>14, <3>4, <4>4
      <4> QED BY <4>1, <4>4, <4>5 DEF TxRuns
    <3> QED BY <3>1, <3>2, <3>3, <3>4
  <2>3. \A j \in Ifc : \A n \in Xfer : ifc'[j].x[n].list = ifc[j].x[n].list \/ j = TX
    BY <1>14
  <2> QED BY <1>1, <1>4, <1>15, <2>1, <2>2, <2>3, ConstantsAre DEF UacInv, Streaming
<1>26. VolumeKnown'
  BY <1>1, <1>2, <1>3, <1>4, <1>9, <1>10, <1>14, <1>15, ConstantsAre, HereIs DEF UacInv, VolumeKnown,
    IsSet, Leaving
<1>27. RangeKnown'
  BY <1>1, <1>2, <1>3, <1>4, <1>9, <1>10, <1>14, <1>15, ConstantsAre, HereIs DEF UacInv, RangeKnown,
    Held, Leaving, Claimed
<1> QED
  BY <1>1, <1>5, <1>17, <1>18, <1>19, <1>20, <1>21, <1>22, <1>23, <1>24, <1>25, <1>26, <1>27 DEF
    UacInv, NoAbuse

\* The transfer that was taken is submitted, or given back.
LEMMA WriteSubmitKeeps ==
    ASSUME UacInv,
           WriteSubmit
    PROVE  UacInv'
<1>1. UNCHANGED <<dev, drv, bus, plugs, calls, env, level, msgs, hdl, phys, user, client>>
  BY DEF WriteSubmit, AuxStep, outside
<1>2. aux.pc = "submit" BY DEF WriteSubmit
<1>3. /\ client.pc = "idle" /\ client.cur = 0 /\ msgs = <<>> /\ ~GoneNews /\ ~Walking
      /\ user = NoCall /\ user.op = "none" /\ user.pc = "idle" /\ aux \in AuxType
  BY AuxIs DEF WriteSubmit, AuxStep
<1>4. PICK k \in Xfer : k = aux.k BY <1>2 DEF UacInv, AuxPlace
<1>5. /\ bus = "present" /\ ifc[TX].st = "ACTIVE" /\ ifc[TX] \in IfcType
      /\ ifc[TX].x[k].list = "busy" /\ ifc[TX].x[k].urb = "idle"
  BY <1>2, <1>4, Known, ConstantsAre DEF UacInv, AuxPlace
<1>6. crash' = "none" BY <1>4, <1>5, Known DEF WriteSubmit, Fails
<1>7. aux' \in AuxType /\ aux'.pc = "scan" /\ aux'.k = k + 1
  <2>1. k + 1 \in 1 .. XferNum + 1 BY ConstantsAre DEF Xfer
  <2>2. aux' = [aux EXCEPT !.pc = "scan", !.k = k + 1]
    BY <1>4 DEF WriteSubmit
  <2> QED BY <1>3, <2>1, <2>2 DEF AuxType
<1>8. \A n \in Xfer : TxIs(n) /\ ifc[TX].x[n] \in XferType
  BY <1>5 DEF UacInv, Streaming, IfcType
<1>9. PICK y : y = TxSubmitted(ifc[TX], k) /\ ifc' = [ifc EXCEPT ![TX] = y]
  BY <1>4, Known, ConstantsAre DEF WriteSubmit
<1>10. /\ y \in IfcType /\ y.st = "ACTIVE" /\ y.told = ifc[TX].told /\ y.cb = ifc[TX].cb /\ y.wait = ifc[TX].wait
       /\ y.vol = ifc[TX].vol /\ y.range = ifc[TX].range /\ y.failed = ifc[TX].failed
       /\ \A n \in Xfer : n # k => y.x[n] = ifc[TX].x[n]
       /\ \/ y.x[k].list = "busy" /\ y.x[k].urb = "flight"
          \/ y.x[k] = Ready /\ y.buf = 0
  <2>1. CASE ifc[TX].buf > 0
    <3>1. PICK b \in 0..BufSize : b = ifc[TX].buf - 1
      BY <1>5, <2>1, ConstantsAre DEF IfcType
    <3>2. PICK v : v = [ifc[TX] EXCEPT !.buf = b] OBVIOUS
    <3>3. /\ v \in IfcType /\ v.st = "ACTIVE" /\ v.told = ifc[TX].told /\ v.cb = ifc[TX].cb /\ v.wait = ifc[TX].wait
          /\ v.vol = ifc[TX].vol /\ v.range = ifc[TX].range /\ v.failed = ifc[TX].failed /\ v.x = ifc[TX].x
      BY <1>5, <3>1, <3>2 DEF IfcType
    <3>4. y = Submitted(v, k)
      BY <1>5, <1>9, <2>1, <3>1, <3>2 DEF TxSubmitted, IfcType
    <3>5. /\ y \in IfcType /\ y.st = v.st /\ y.told = v.told /\ y.cb = v.cb /\ y.wait = v.wait /\ y.vol = v.vol
          /\ y.range = v.range /\ y.failed = v.failed /\ y.x[k].list = v.x[k].list
          /\ \A j \in Xfer : j # k => y.x[j] = v.x[j]
          /\ y.x[k].urb = IF bus = "present" THEN "flight" ELSE "idle"
      BY <1>5, <3>3, <3>4, SubmittedIs
    <3> QED BY <1>5, <3>3, <3>5
  <2>2. CASE ~(ifc[TX].buf > 0)
    <3>1. ifc[TX].buf = 0 /\ ifc[TX].x \in [Xfer -> XferType]
      BY <1>5, <2>2 DEF IfcType
    <3>2. y = [ifc[TX] EXCEPT !.x[k].list = "free"]
      BY <1>9, <2>2 DEF TxSubmitted
    <3>3. [ifc[TX].x[k] EXCEPT !.list = "free"] = Ready
      BY <1>5, <1>8 DEF XferType, Ready
    <3>4. Ready \in XferType BY NothingIs
    <3>5. y.x = [ifc[TX].x EXCEPT ![k] = Ready]
      BY <1>5, <3>2, <3>3 DEF IfcType
    <3>6. /\ y \in IfcType /\ y.st = "ACTIVE" /\ y.told = ifc[TX].told /\ y.cb = ifc[TX].cb /\ y.wait = ifc[TX].wait
          /\ y.vol = ifc[TX].vol /\ y.range = ifc[TX].range /\ y.failed = ifc[TX].failed /\ y.buf = ifc[TX].buf
      BY <1>5, <3>2, <3>3, <3>4 DEF IfcType
    <3> QED BY <3>1, <3>5, <3>6
  <2> QED BY <2>1, <2>2
<1>11. ifc' \in [Ifc -> IfcType] /\ ifc'[TX] = y /\ ifc'[RX] = ifc[RX] /\ \A j \in Ifc : j # TX => ifc'[j] = ifc[j]
  BY <1>9, <1>10, Known, ConstantsAre DEF RX, TX
<1>12. \A j \in Ifc : /\ ifc'[j].st = ifc[j].st /\ ifc'[j].told = ifc[j].told /\ ifc'[j].cb = ifc[j].cb
                      /\ ifc'[j].wait = ifc[j].wait /\ ifc'[j].vol = ifc[j].vol /\ ifc'[j].range = ifc[j].range
  BY <1>5, <1>10, <1>11
<1>13. \A n \in Xfer : y.x[n] = Ready \/ (y.x[n].list = "busy" /\ y.x[n].urb \in Running)
  <2> SUFFICES ASSUME NEW n \in Xfer PROVE y.x[n] = Ready \/ (y.x[n].list = "busy" /\ y.x[n].urb \in Running)
    OBVIOUS
  <2>1. CASE n = k BY <1>10, <2>1 DEF Running
  <2>2. CASE n # k BY <1>4, <1>8, <1>10, <2>2 DEF TxIs
  <2> QED BY <2>1, <2>2
<1>14. \A n \in Xfer : y.x[n].list # "none" BY <1>13 DEF Ready
<1>15. TypeOK'
  BY <1>1, <1>2, <1>3, <1>4, <1>5, <1>6, <1>7, <1>8, <1>9, <1>10, <1>11, <1>12, <1>13, <1>14, Known,
    NothingIs, ConstantsAre, TypesWillBe
<1>16. IfcsAre'
  <2> SUFFICES ASSUME NEW j \in Ifc PROVE IfcIs(j, ifc[j])'
    BY DEF IfcsAre
  <2>1. IfcIs(j, ifc[j]) BY DEF UacInv, IfcsAre
  <2>2. CASE j = TX
    BY <1>1, <1>5, <1>10, <1>11, <1>14, <2>1, <2>2 DEF IfcIs, Claimed
  <2>3. CASE j # TX BY <1>1, <1>11, <2>1, <2>3 DEF IfcIs, Claimed
  <2> QED BY <2>2, <2>3
<1>17. UserPlace' BY <1>1, <1>3, <1>12, HereIs, UserStays
<1>18. CtlPlace'
  BY <1>1, <1>2, <1>3, <1>5, <1>7, <1>11, <1>12, ConstantsAre, HereIs DEF UacInv, CtlPlace
<1>19. Handle'
  BY <1>1, <1>2, <1>3, <1>5, <1>7, <1>11, <1>12, ConstantsAre, HereIs DEF UacInv, Handle, Num
<1>20. Messages'
  BY <1>1, <1>2, <1>3, <1>5, <1>7, <1>11, <1>12, ConstantsAre, HereIs DEF UacInv, Messages, GoneNews,
    AllIdle
<1>21. ClientPlace'
  BY <1>1, <1>2, <1>3, <1>5, <1>7, <1>11, <1>12, ConstantsAre, HereIs DEF UacInv, ClientPlace, Held,
    Leaving, Walking, AllIdle, GoneNews
<1>22. AuxPlace'
  BY <1>1, <1>2, <1>3, <1>5, <1>7, <1>11, <1>12, ConstantsAre, HereIs DEF UacInv, AuxPlace, AtOnce
<1>23. Streaming'
  <2>1. \A n \in Xfer : TxIs(n)' BY <1>11, <1>13 DEF TxIs
  <2>2. ~y.failed /\ y.buf > 0 => TxRuns'
    BY <1>10, <1>11 DEF TxRuns, Running
  <2>3. y.st = "ACTIVE" /\ RX # TX BY <1>10 DEF RX, TX
  <2> QED BY <1>1, <1>5, <1>11, <2>1, <2>2, <2>3, ConstantsAre DEF UacInv, Streaming
<1>24. VolumeKnown'
  BY <1>1, <1>2, <1>3, <1>5, <1>7, <1>11, <1>12, ConstantsAre, HereIs DEF UacInv, VolumeKnown, IsSet,
    Leaving
<1>25. RangeKnown'
  BY <1>1, <1>2, <1>3, <1>5, <1>7, <1>11, <1>12, ConstantsAre, HereIs DEF UacInv, RangeKnown, Held,
    Leaving, Claimed
<1> QED
  BY <1>1, <1>6, <1>15, <1>16, <1>17, <1>18, <1>19, <1>20, <1>21, <1>22, <1>23, <1>24, <1>25 DEF
    UacInv, NoAbuse

-----------------------------------------------------------------------------
(* The application's calls *)

\* The device of an interface that is open is there, unless the user was told.
LEMMA PresentIs ==
    ASSUME UacInv, ClientIdle, user.op = "none", NEW i \in Ifc, Held(i), ~ifc[i].told
    PROVE  bus = "present" /\ drv = "up" /\ hdl # 0 /\ phys.st = "listed"
<1>1. user.pc = "idle" BY DEF UacInv, UserPlace, NoCall
<1>2. hdl # 0 /\ bus # "none" /\ phys.st = "listed"
  BY <1>1, HeldIs DEF Leaving
<1>3. bus # "gone" BY IdleIs
<1> QED BY <1>2, <1>3, Known DEF UacInv, Handle

\* uac_control_transfer(), when nothing is under way
LEMMA RequestIs ==
    ASSUME UacInv, NEW u \in UserType, Request(u), phys.ctl.urb = "idle"
    PROVE  /\ user' \in UserType /\ user'.op = u.op /\ user'.i = u.i /\ user'.left = u.left /\ user'.v = u.v /\ ~user'.ok
           /\ user'.pc = IF bus = "present" THEN "ctl" ELSE "act"
           /\ phys' \in PhysType /\ phys'.st = phys.st /\ phys'.cnt = phys.cnt /\ phys'.ctl.sem = phys.ctl.sem
           /\ phys'.ctl.urb = IF bus = "present" THEN "flight" ELSE "idle"
<1>1. user' = [u EXCEPT !.pc = IF bus = "present" THEN "ctl" ELSE "act", !.ok = FALSE]
  BY DEF Request
<1>2. /\ user' \in UserType /\ user'.op = u.op /\ user'.i = u.i /\ user'.left = u.left /\ user'.v = u.v /\ ~user'.ok
      /\ user'.pc = IF bus = "present" THEN "ctl" ELSE "act"
  BY <1>1 DEF UserType
<1>3. phys \in PhysType /\ phys.ctl \in CtlType BY Known, TransferIs
<1>4. CASE bus = "present"
  <2>1. PICK c : c = [phys.ctl EXCEPT !.urb = "flight"] OBVIOUS
  <2>2. c \in CtlType /\ c.urb = "flight" /\ c.sem = phys.ctl.sem
    BY <1>3, <2>1 DEF CtlType
  <2>3. phys' = [phys EXCEPT !.ctl = c]
    BY <1>3, <1>4, <2>1 DEF Request, PhysType
  <2> QED BY <1>2, <1>3, <1>4, <2>2, <2>3 DEF PhysType
<1>5. CASE bus # "present"
  <2>1. phys' = phys BY <1>5 DEF Request
  <2> QED BY <1>2, <1>3, <1>5, <2>1
<1> QED BY <1>4, <1>5

\* What a call is when it begins
LEMMA CallOnIs ==
    ASSUME NEW op \in {"start", "suspend", "resume", "stop", "close", "setvol", "getvol", "setdb", "other"},
           NEW i \in Ifc, NEW left \in SUBSET Channel
    PROVE  /\ CallOn(op, i, left) \in UserType /\ CallOn(op, i, left).op = op /\ CallOn(op, i, left).i = i
           /\ CallOn(op, i, left).left = left
<1>1. CallOn(op, i, left) = [NoCall EXCEPT !.op = op, !.i = i, !.left = left]
  BY DEF CallOn
<1> QED BY <1>1, NothingIs DEF UserType

\* The application begins to read.
LEMMA ReadBeginKeeps ==
    ASSUME UacInv,
           ReadBegin
    PROVE  UacInv'
<1>1. UNCHANGED <<dev, drv, bus, plugs, env, level, msgs, hdl, phys, ifc, user, client, crash>>
  BY DEF ReadBegin, Call
<1>2. calls' \in 0..MaxCalls /\ drv = "up"
  BY Known, ConstantsAre DEF ReadBegin, Call
<1>3. /\ client.pc = "idle" /\ client.cur = 0 /\ msgs = <<>> /\ ~GoneNews /\ ~Walking
      /\ user = NoCall /\ user.op = "none" /\ user.pc = "idle" /\ aux \in AuxType
  BY AuxIs DEF ReadBegin, MayStream
<1>4. aux' \in AuxType /\ aux'.pc = "read"
  BY NothingIs DEF ReadBegin, NoAux, AuxType
<1>5. bus = "present" /\ aux.pc = "idle"
  <2>1. ClientIdle /\ ifc[RX].st = "ACTIVE" /\ aux.pc = "idle"
    BY AuxIs DEF ReadBegin, MayStream
  <2>2. ~ifc[RX].told BY <2>1, ConstantsAre DEF UacInv, IfcsAre, IfcIs
  <2> QED BY <1>3, <2>1, <2>2, PresentIs, ConstantsAre DEF Held
<1>6. TypeOK'
  BY <1>1, <1>2, <1>3, <1>4, <1>5, Known, NothingIs, ConstantsAre, TypesWillBe
<1>7. IfcsAre'
  BY <1>1, <1>2, <1>3, <1>4, <1>5, ConstantsAre, HereIs DEF UacInv, IfcsAre, IfcIs, Claimed
<1>8. UserPlace'
  BY <1>1, <1>2, <1>3, <1>4, <1>5, ConstantsAre, HereIs DEF UacInv, UserPlace, Waiting, Halts, Asks,
    AtOnce
<1>9. CtlPlace'
  BY <1>1, <1>2, <1>3, <1>4, <1>5, ConstantsAre, HereIs DEF UacInv, CtlPlace
<1>10. Handle'
  BY <1>1, <1>2, <1>3, <1>4, <1>5, ConstantsAre, HereIs DEF UacInv, Handle, Num
<1>11. Messages'
  BY <1>1, <1>2, <1>3, <1>4, <1>5, ConstantsAre, HereIs DEF UacInv, Messages, GoneNews, AllIdle
<1>12. ClientPlace'
  BY <1>1, <1>2, <1>3, <1>4, <1>5, ConstantsAre, HereIs DEF UacInv, ClientPlace, Held, Leaving,
    Walking, AllIdle, GoneNews
<1>13. AuxPlace'
  BY <1>1, <1>2, <1>3, <1>4, <1>5, ConstantsAre, HereIs DEF UacInv, AuxPlace, AtOnce
<1>14. Streaming'
  BY <1>1, <1>2, <1>3, <1>4, <1>5, ConstantsAre, HereIs DEF UacInv, Streaming, TxIs, TxRuns, Ready,
    Running
<1>15. VolumeKnown'
  BY <1>1, <1>2, <1>3, <1>4, <1>5, ConstantsAre, HereIs DEF UacInv, VolumeKnown, IsSet, Leaving
<1>16. RangeKnown'
  BY <1>1, <1>2, <1>3, <1>4, <1>5, ConstantsAre, HereIs DEF UacInv, RangeKnown, Held, Leaving, Claimed
<1> QED
  BY <1>1, <1>6, <1>7, <1>8, <1>9, <1>10, <1>11, <1>12, <1>13, <1>14, <1>15, <1>16 DEF UacInv, NoAbuse

\* The application puts data into the ring buffer.
LEMMA WriteBeginKeeps ==
    ASSUME UacInv,
           WriteBegin
    PROVE  UacInv'
<1>1. UNCHANGED <<dev, drv, bus, plugs, env, level, msgs, hdl, phys, user, client, crash>>
  BY DEF WriteBegin, Call
<1>2. calls' \in 0..MaxCalls /\ drv = "up"
  BY Known, ConstantsAre DEF WriteBegin, Call
<1>3. /\ client.pc = "idle" /\ client.cur = 0 /\ msgs = <<>> /\ ~GoneNews /\ ~Walking
      /\ user = NoCall /\ user.op = "none" /\ user.pc = "idle" /\ aux \in AuxType
  BY AuxIs DEF WriteBegin, MayStream
<1>4. /\ bus = "present" /\ aux.pc = "idle" /\ ifc[TX] \in IfcType /\ ifc[TX].st = "ACTIVE" /\ ~ifc[TX].told
      /\ ifc[TX].buf \in 0..BufSize
  <2>1. ClientIdle /\ ifc[TX].st = "ACTIVE" /\ aux.pc = "idle"
    BY AuxIs DEF WriteBegin, MayStream
  <2>2. ~ifc[TX].told BY <2>1, ConstantsAre DEF UacInv, IfcsAre, IfcIs
  <2>3. ifc[TX] \in IfcType /\ ifc[TX].buf \in 0..BufSize
    BY Known, ConstantsAre DEF IfcType
  <2> QED BY <1>3, <2>1, <2>2, <2>3, PresentIs, ConstantsAre DEF Held
<1>5. PICK b \in 0..BufSize : b = IF ifc[TX].buf < BufSize THEN ifc[TX].buf + 1 ELSE ifc[TX].buf
  BY <1>4, ConstantsAre
<1>6. PICK y : y = [ifc[TX] EXCEPT !.buf = b] OBVIOUS
<1>7. /\ y \in IfcType /\ y.st = "ACTIVE" /\ y.told = ifc[TX].told /\ y.cb = ifc[TX].cb /\ y.wait = ifc[TX].wait
      /\ y.vol = ifc[TX].vol /\ y.range = ifc[TX].range /\ y.failed = ifc[TX].failed /\ y.x = ifc[TX].x /\ y.buf = b
  BY <1>4, <1>6 DEF IfcType
<1>8. ifc' \in [Ifc -> IfcType] /\ ifc'[TX] = y /\ \A j \in Ifc : j # TX => ifc'[j] = ifc[j]
  <2>1. ifc' = [ifc EXCEPT ![TX] = y]
    BY <1>4, <1>5, <1>6, Known, ConstantsAre DEF WriteBegin, IfcType
  <2> QED BY <1>7, <2>1, Known, ConstantsAre
<1>9. \A j \in Ifc : /\ ifc'[j].st = ifc[j].st /\ ifc'[j].told = ifc[j].told /\ ifc'[j].cb = ifc[j].cb
                     /\ ifc'[j].wait = ifc[j].wait /\ ifc'[j].vol = ifc[j].vol /\ ifc'[j].range = ifc[j].range
                     /\ ifc'[j].failed = ifc[j].failed /\ ifc'[j].x = ifc[j].x
                     /\ j # TX => ifc'[j] = ifc[j]
  BY <1>4, <1>7, <1>8
<1>10. \/ ifc[TX].buf < BufSize /\ aux'.pc = "scan" /\ aux'.k = 1 /\ aux' \in AuxType
       \/ b = ifc[TX].buf /\ aux' = aux
  <2>1. [NoAux EXCEPT !.pc = "scan", !.i = TX] \in AuxType
    BY NothingIs, ConstantsAre DEF AuxType
  <2>2. [NoAux EXCEPT !.pc = "scan", !.i = TX].pc = "scan" /\ [NoAux EXCEPT !.pc = "scan", !.i = TX].k = 1
    BY DEF NoAux
  <2>3. CASE ifc[TX].buf < BufSize
    <3>1. aux' = [NoAux EXCEPT !.pc = "scan", !.i = TX]
      BY <2>3 DEF WriteBegin
    <3> QED BY <2>1, <2>2, <2>3, <3>1
  <2>4. CASE ~(ifc[TX].buf < BufSize) BY <1>5, <2>4 DEF WriteBegin
  <2> QED BY <2>3, <2>4
<1>11. RX # TX BY DEF RX, TX
<1>12. aux' \in AuxType /\ aux'.pc \in {"idle", "scan"} BY <1>3, <1>4, <1>10
<1>13. TypeOK'
  BY <1>1, <1>2, <1>3, <1>4, <1>5, <1>6, <1>7, <1>8, <1>9, <1>10, <1>11, <1>12, Known, NothingIs,
    ConstantsAre, TypesWillBe
<1>14. IfcsAre'
  <2> SUFFICES ASSUME NEW j \in Ifc PROVE IfcIs(j, ifc[j])'
    BY DEF IfcsAre
  <2>1. IfcIs(j, ifc[j]) BY DEF UacInv, IfcsAre
  <2>2. CASE j = TX BY <1>1, <1>4, <1>7, <1>8, <2>1, <2>2 DEF IfcIs, Claimed
  <2>3. CASE j # TX BY <1>1, <1>8, <2>1, <2>3 DEF IfcIs, Claimed
  <2> QED BY <2>2, <2>3
<1>15. UserPlace' BY <1>1, <1>9, HereIs, UserStays
<1>16. CtlPlace'
  BY <1>1, <1>2, <1>3, <1>4, <1>9, <1>11, <1>12, ConstantsAre, HereIs DEF UacInv, CtlPlace
<1>17. Handle'
  BY <1>1, <1>2, <1>3, <1>4, <1>9, <1>11, <1>12, ConstantsAre, HereIs DEF UacInv, Handle, Num
<1>18. Messages'
  BY <1>1, <1>2, <1>3, <1>4, <1>9, <1>11, <1>12, ConstantsAre, HereIs DEF UacInv, Messages, GoneNews,
    AllIdle
<1>19. ClientPlace'
  BY <1>1, <1>2, <1>3, <1>4, <1>9, <1>11, <1>12, ConstantsAre, HereIs DEF UacInv, ClientPlace, Held,
    Leaving, Walking, AllIdle, GoneNews
<1>20. AuxPlace'
  BY <1>1, <1>2, <1>3, <1>4, <1>9, <1>11, <1>12, ConstantsAre, HereIs DEF UacInv, AuxPlace, AtOnce
<1>21. Streaming'
  <2>1. \A n \in Xfer : TxIs(n) /\ TxIs(n)'
    BY <1>4, <1>9, ConstantsAre DEF UacInv, Streaming, TxIs
  <2>2. ~y.failed /\ y.buf > 0 => TxRuns'
    <3> SUFFICES ASSUME ~y.failed, y.buf > 0 PROVE TxRuns'
      OBVIOUS
    <3>1. CASE b = ifc[TX].buf /\ aux' = aux
      BY <1>4, <1>7, <1>9, <3>1, ConstantsAre DEF UacInv, Streaming, TxRuns
    <3>2. CASE aux'.pc = "scan" /\ aux'.k = 1
      <4>1. 1 \in Xfer /\ (TxIs(1) \/ FALSE) BY <2>1, ConstantsAre DEF Xfer
      <4>2. ifc[TX].x[1].list = "free" \/ ifc[TX].x[1].urb \in Running
        BY <1>4, <4>1 DEF TxIs, Ready
      <4>3. ifc'[TX].x = ifc[TX].x /\ 1 >= aux'.k
        BY <1>9, <3>2, ConstantsAre
      <4> QED BY <3>2, <4>1, <4>2, <4>3 DEF TxRuns
    <3> QED BY <1>10, <3>1, <3>2
  <2> QED BY <1>1, <1>4, <1>7, <1>8, <1>9, <1>11, <2>1, <2>2, ConstantsAre DEF UacInv, Streaming
<1>22. VolumeKnown'
  BY <1>1, <1>2, <1>3, <1>4, <1>9, <1>11, <1>12, ConstantsAre, HereIs DEF UacInv, VolumeKnown, IsSet,
    Leaving
<1>23. RangeKnown'
  BY <1>1, <1>2, <1>3, <1>4, <1>9, <1>11, <1>12, ConstantsAre, HereIs DEF UacInv, RangeKnown, Held,
    Leaving, Claimed
<1> QED
  BY <1>1, <1>13, <1>14, <1>15, <1>16, <1>17, <1>18, <1>19, <1>20, <1>21, <1>22, <1>23 DEF UacInv,
    NoAbuse

\* The driver is uninstalled.
LEMMA UninstallKeeps ==
    ASSUME UacInv,
           Uninstall
    PROVE  UacInv'
<1>1. UNCHANGED <<dev, level, bus, plugs, msgs, hdl, phys, ifc, user, aux, client, calls, crash, env>>
  BY DEF Uninstall
<1>2. /\ ClientIdle /\ client.pc = "idle" /\ client.cur = 0 /\ msgs = <<>> /\ ~GoneNews /\ ~Walking
      /\ user = NoCall /\ user.op = "none" /\ user.pc = "idle" /\ aux.pc = "idle"
      /\ phys.ctl.urb = "idle" /\ ~phys.ctl.sem /\ \A j \in Ifc : ~ifc[j].wait /\ ifc[j].st \notin {"NOT_INIT", "SUSPENDING"}
  <2>1. Others /\ MayCall BY DEF Uninstall
  <2>2. ClientIdle /\ user.op = "none" BY <2>1, CallIs
  <2>3. \A j \in Ifc : ifc[j].st \notin {"NOT_INIT", "SUSPENDING"}
    BY <2>1, CallIs DEF UacInv, UserPlace, Halts
  <2> QED BY <2>1, <2>2, <2>3, CallIs, IdleIs
<1>3. drv' = "ending" /\ phys.st = "none" /\ hdl = 0
  BY <1>2 DEF Uninstall, UacInv, Handle
<1>4. TypeOK'
  BY <1>1, <1>2, <1>3, Known, NothingIs, ConstantsAre, TypesWillBe
<1>5. IfcsAre'
  BY <1>1, <1>2, <1>3, ConstantsAre, HereIs DEF UacInv, IfcsAre, IfcIs, Claimed
<1>6. UserPlace'
  BY <1>1, <1>2, <1>3, ConstantsAre, HereIs DEF UacInv, UserPlace, Waiting, Halts, Asks, AtOnce
<1>7. CtlPlace'
  BY <1>1, <1>2, <1>3, ConstantsAre, HereIs DEF UacInv, CtlPlace
<1>8. Handle'
  BY <1>1, <1>2, <1>3, ConstantsAre, HereIs DEF UacInv, Handle, Num
<1>9. Messages'
  BY <1>1, <1>2, <1>3, ConstantsAre, HereIs DEF UacInv, Messages, GoneNews, AllIdle
<1>10. ClientPlace'
  BY <1>1, <1>2, <1>3, ConstantsAre, HereIs DEF UacInv, ClientPlace, Held, Leaving, Walking, AllIdle,
    GoneNews
<1>11. AuxPlace'
  BY <1>1, <1>2, <1>3, ConstantsAre, HereIs DEF UacInv, AuxPlace, AtOnce
<1>12. Streaming'
  BY <1>1, <1>2, <1>3, ConstantsAre, HereIs DEF UacInv, Streaming, TxIs, TxRuns, Ready, Running
<1>13. VolumeKnown'
  BY <1>1, <1>2, <1>3, ConstantsAre, HereIs DEF UacInv, VolumeKnown, IsSet, Leaving
<1>14. RangeKnown'
  BY <1>1, <1>2, <1>3, ConstantsAre, HereIs DEF UacInv, RangeKnown, Held, Leaving, Claimed
<1> QED
  BY <1>1, <1>4, <1>5, <1>6, <1>7, <1>8, <1>9, <1>10, <1>11, <1>12, <1>13, <1>14 DEF UacInv, NoAbuse

\* The application opens an interface.
LEMMA OpeningKeeps ==
    ASSUME UacInv,
           NEW i \in Ifc,
           Opening(i),
           bus = "present",
           crash' = "none"
    PROVE  UacInv'
<1>1. UNCHANGED <<dev, drv, bus, plugs, env, level, msgs, phys, ifc, aux, client>> /\ crash' = "none"
  BY DEF Opening, Call
<1>2. calls' \in 0..MaxCalls /\ drv = "up" /\ plugs # 0 /\ plugs \in 0..MaxPlugs /\ bus = "present"
  BY Known, ConstantsAre DEF Opening, Call, UacInv, Handle
<1>3. /\ ClientIdle /\ client.pc = "idle" /\ client.cur = 0 /\ msgs = <<>> /\ ~GoneNews /\ ~Walking
      /\ user = NoCall /\ user.op = "none" /\ user.pc = "idle" /\ aux.pc = "idle"
      /\ phys.ctl.urb = "idle" /\ ~phys.ctl.sem /\ \A j \in Ifc : ~ifc[j].wait /\ ifc[j].st \notin {"NOT_INIT", "SUSPENDING"}
  <2>1. Others /\ MayCall BY DEF Opening
  <2>2. ClientIdle /\ user.op = "none" BY <2>1, CallIs
  <2>3. \A j \in Ifc : ifc[j].st \notin {"NOT_INIT", "SUSPENDING"}
    BY <2>1, CallIs DEF UacInv, UserPlace, Halts
  <2> QED BY <2>1, <2>2, <2>3, CallIs, IdleIs
<1>4. /\ ifc[i].st = "free" /\ dev.ifs[i].dir # "none" /\ (phys.st = "none" => hdl = 0)
      /\ phys.st \in {"none", "listed"}
  BY <1>3, Known DEF Opening, UacInv, Handle, PhysType
<1>5. PICK pc \in {"add", "insert"} : pc = (IF phys.st = "none" THEN "add" ELSE "insert")
  OBVIOUS
<1>6. /\ user' = [NoCall EXCEPT !.op = "open", !.i = i, !.pc = pc]
      /\ hdl' = IF phys.st = "none" THEN plugs ELSE hdl
  BY <1>2, <1>4, <1>5 DEF Opening
<1>7. user' \in UserType /\ user'.op = "open" /\ user'.i = i /\ user'.pc = pc
  BY <1>6, NothingIs DEF UserType
<1>8. hdl' \in 0..MaxPlugs BY <1>2, <1>6, Known
<1>9. TypeOK'
  BY <1>1, <1>2, <1>3, <1>4, <1>5, <1>6, <1>7, <1>8, Known, NothingIs, ConstantsAre, TypesWillBe
<1>10. IfcsAre'
  BY <1>1, <1>2, <1>3, <1>4, <1>5, <1>6, <1>7, ConstantsAre, HereIs DEF UacInv, IfcsAre, IfcIs, Claimed
<1>11. UserPlace'
  BY <1>1, <1>2, <1>3, <1>4, <1>5, <1>6, <1>7, ConstantsAre, HereIs DEF UacInv, UserPlace, Waiting,
    Halts, Asks, AtOnce
<1>12. CtlPlace'
  BY <1>1, <1>2, <1>3, <1>4, <1>5, <1>6, <1>7, ConstantsAre, HereIs DEF UacInv, CtlPlace
<1>13. Handle'
  BY <1>1, <1>2, <1>3, <1>4, <1>5, <1>6, <1>7, ConstantsAre, HereIs DEF UacInv, Handle, Num
<1>14. Messages'
  BY <1>1, <1>2, <1>3, <1>4, <1>5, <1>6, <1>7, ConstantsAre, HereIs DEF UacInv, Messages, GoneNews,
    AllIdle
<1>15. ClientPlace'
  BY <1>1, <1>2, <1>3, <1>4, <1>5, <1>6, <1>7, ConstantsAre, HereIs DEF UacInv, ClientPlace, Held,
    Leaving, Walking, AllIdle, GoneNews
<1>16. AuxPlace'
  BY <1>1, <1>2, <1>3, <1>4, <1>5, <1>6, <1>7, ConstantsAre, HereIs DEF UacInv, AuxPlace, AtOnce
<1>17. Streaming'
  BY <1>1, <1>2, <1>3, <1>4, <1>5, <1>6, <1>7, ConstantsAre, HereIs DEF UacInv, Streaming, TxIs,
    TxRuns, Ready, Running
<1>18. VolumeKnown'
  BY <1>1, <1>2, <1>3, <1>4, <1>5, <1>6, <1>7, ConstantsAre, HereIs DEF UacInv, VolumeKnown, IsSet,
    Leaving
<1>19. RangeKnown'
  BY <1>1, <1>2, <1>3, <1>4, <1>5, <1>6, <1>7, ConstantsAre, HereIs DEF UacInv, RangeKnown, Held,
    Leaving, Claimed
<1> QED
  BY <1>1, <1>9, <1>10, <1>11, <1>12, <1>13, <1>14, <1>15, <1>16, <1>17, <1>18, <1>19 DEF UacInv,
    NoAbuse

\* uac_host_device_open() and uac_host_device_open_with_vid_pid() begin.
LEMMA OpenBeginKeeps ==
    ASSUME UacInv, NEW i \in Ifc, OpenBegin(i) \/ OpenByIds(i)
    PROVE  UacInv'
<1>1. bus = "present" /\ Opening(i) /\ (OpenByIds(i) => "ids" \in env)
  BY Spared DEF OpenBegin, OpenByIds
<1>2. hdl # 0 => phys.st = "listed"
  <2>1. client.pc = "idle" /\ user.pc = "idle"
    BY <1>1, CallIs, IdleIs DEF Opening
  <2> QED BY <2>1 DEF UacInv, Handle
<1>3. user'.op = "open"
  <2>1. user' = [NoCall EXCEPT !.op = "open", !.i = i, !.pc = IF phys.st = "none" THEN "add" ELSE "insert"]
    BY <1>1, <1>2 DEF Opening
  <2> QED BY <2>1 DEF NoCall
<1>4. crash' = "none"
  BY <1>1, <1>3, Spared, Known DEF OpenBegin, OpenByIds, Fails
<1> QED BY <1>1, <1>4, OpeningKeeps

\* A call asks the device for something.
LEMMA AskingKeeps ==
    ASSUME UacInv,
           NEW i \in Ifc,
           NEW u \in UserType,
           Others,
           MayCall,
           u.i = i,
           u.left # {},
           UNCHANGED <<dev, drv, bus, plugs, env, level, msgs, hdl, ifc, aux, client>>,
           calls' \in 0..MaxCalls,
           crash' = "none",
           Request(u),
           ifc[i].st \in {"READY", "ACTIVE"},
           (u.op \in Asks /\ "ask" \in env) \/ (u.op = "resume" /\ ifc[i].st = "READY"),
           u.op = "setvol" => u.left = dev.ifs[i].vol,
           u.op = "setdb" => ifc[i].vol = 0
    PROVE  UacInv'
<1>1. UNCHANGED <<dev, drv, bus, plugs, env, level, msgs, hdl, ifc, aux, client>> /\ crash' = "none"
  OBVIOUS
<1>2. /\ ClientIdle /\ client.pc = "idle" /\ client.cur = 0 /\ msgs = <<>> /\ ~GoneNews /\ ~Walking
      /\ user = NoCall /\ user.op = "none" /\ user.pc = "idle" /\ aux.pc = "idle"
      /\ phys.ctl.urb = "idle" /\ ~phys.ctl.sem /\ \A j \in Ifc : ~ifc[j].wait /\ ifc[j].st \notin {"NOT_INIT", "SUSPENDING"}
  BY CallIs, IdleIs DEF UacInv, UserPlace, Halts
<1>3. ~ifc[i].told BY DEF UacInv, IfcsAre, IfcIs
<1>4. bus = "present" /\ drv = "up" /\ phys.st = "listed" /\ hdl # 0
  BY <1>2, <1>3, PresentIs DEF Held
<1>5. /\ user' \in UserType /\ user'.op = u.op /\ user'.i = i /\ user'.left = u.left /\ user'.pc = "ctl" /\ user'.left # {}
      /\ phys' \in PhysType /\ phys'.st = "listed" /\ phys'.cnt = phys.cnt /\ ~phys'.ctl.sem /\ phys'.ctl.urb = "flight"
  BY <1>2, <1>4, RequestIs
<1>6. u.op = "resume" => \A k \in Xfer : ifc[i].x[k] = Ready
  <2> SUFFICES ASSUME u.op = "resume", NEW k \in Xfer PROVE ifc[i].x[k] = Ready
    OBVIOUS
  <2>1. ifc[i].st = "READY" BY DEF Asks
  <2>2. ifc[i].x[k] \in XferType /\ ifc[i].x[k].urb \notin Done
    BY <1>2, IdleIs, Known DEF IfcType
  <2>3. ifc[i].x[k].urb # "flight" /\ ifc[i].x[k].list = "free"
    BY <1>4, <2>1 DEF UacInv, IfcsAre, IfcIs, Streaming
  <2> QED BY <2>2, <2>3 DEF XferType, Ready
<1>7. /\ user'.op \in Asks \cup {"resume"} /\ (user'.op \in Asks => "ask" \in env /\ ifc[i].st \in {"READY", "ACTIVE"})
      /\ user'.op = "resume" => ifc[i].st = "READY" /\ \A k \in Xfer : ifc[i].x[k] = Ready
      /\ user'.op = "setvol" => user'.left = dev.ifs[i].vol
      /\ user'.op = "setdb" => ifc[i].vol = 0
  BY <1>5, <1>6 DEF Asks
<1>8. TypeOK'
  BY <1>1, <1>2, <1>3, <1>4, <1>5, <1>6, <1>7, Known, NothingIs, ConstantsAre, TypesWillBe
<1>9. IfcsAre'
  BY <1>1, <1>2, <1>4, <1>5, <1>7, ConstantsAre, HereIs DEF UacInv, IfcsAre, IfcIs, Claimed
<1>10. UserPlace'
  BY <1>1, <1>2, <1>4, <1>5, <1>7, ConstantsAre, HereIs DEF UacInv, UserPlace, Waiting, Halts, Asks,
    AtOnce, Asks, Halts, Waiting
<1>11. CtlPlace'
  BY <1>1, <1>2, <1>4, <1>5, <1>7, ConstantsAre, HereIs DEF UacInv, CtlPlace
<1>12. Handle'
  BY <1>1, <1>2, <1>4, <1>5, <1>7, ConstantsAre, HereIs DEF UacInv, Handle, Num
<1>13. Messages'
  BY <1>1, <1>2, <1>4, <1>5, <1>7, ConstantsAre, HereIs DEF UacInv, Messages, GoneNews, AllIdle
<1>14. ClientPlace'
  BY <1>1, <1>2, <1>4, <1>5, <1>7, ConstantsAre, HereIs DEF UacInv, ClientPlace, Held, Leaving,
    Walking, AllIdle, GoneNews
<1>15. AuxPlace'
  BY <1>1, <1>2, <1>4, <1>5, <1>7, ConstantsAre, HereIs DEF UacInv, AuxPlace, AtOnce
<1>16. Streaming'
  BY <1>1, <1>2, <1>4, <1>5, <1>7, ConstantsAre, HereIs DEF UacInv, Streaming, TxIs, TxRuns, Ready,
    Running
<1>17. VolumeKnown'
  BY <1>1, <1>2, <1>4, <1>5, <1>7, ConstantsAre, HereIs DEF UacInv, VolumeKnown, IsSet, Leaving
<1>18. RangeKnown'
  BY <1>1, <1>2, <1>4, <1>5, <1>7, ConstantsAre, HereIs DEF UacInv, RangeKnown, Held, Leaving, Claimed
<1> QED
  BY <1>1, <1>8, <1>9, <1>10, <1>11, <1>12, <1>13, <1>14, <1>15, <1>16, <1>17, <1>18 DEF UacInv,
    NoAbuse

\* A stream is to be suspended.
LEMMA HaltKeeps ==
    ASSUME UacInv,
           NEW i \in Ifc,
           NEW op \in Halts,
           Others,
           MayCall,
           UNCHANGED <<dev, drv, bus, plugs, env>>,
           calls' \in 0..MaxCalls,
           Halt(op, i)
    PROVE  UacInv'
<1>1. UNCHANGED <<dev, drv, bus, plugs, env, level, msgs, hdl, aux, client, crash>>
  BY DEF Halt
<1>2. /\ ClientIdle /\ client.pc = "idle" /\ client.cur = 0 /\ msgs = <<>> /\ ~GoneNews /\ ~Walking
      /\ user = NoCall /\ user.op = "none" /\ user.pc = "idle" /\ aux.pc = "idle"
      /\ phys.ctl.urb = "idle" /\ ~phys.ctl.sem /\ \A j \in Ifc : ~ifc[j].wait /\ ifc[j].st \notin {"NOT_INIT", "SUSPENDING"}
  BY CallIs, IdleIs DEF UacInv, UserPlace, Halts
<1>3. ifc[i].st = "ACTIVE" /\ ~ifc[i].told /\ ifc[i] \in IfcType
  BY Known DEF Halt, UacInv, IfcsAre, IfcIs
<1>4. bus = "present" /\ drv = "up" /\ phys.st = "listed" /\ hdl # 0
  BY <1>2, <1>3, PresentIs DEF Held
<1>5. PICK u \in UserType : u.op = op /\ u.i = i /\ u.left = {1} /\ Request(u)
  BY CallOnIs DEF Halt, Halts, Channel
<1>6. /\ user' \in UserType /\ user'.op = op /\ user'.i = i /\ user'.left = {1} /\ user'.pc = "ctl" /\ user'.left # {}
      /\ phys' \in PhysType /\ phys'.st = "listed" /\ phys'.cnt = phys.cnt /\ ~phys'.ctl.sem /\ phys'.ctl.urb = "flight"
  BY <1>2, <1>4, <1>5, RequestIs
<1>7. PICK y : y = [ifc[i] EXCEPT !.st = "SUSPENDING"] /\ ifc' = [ifc EXCEPT ![i] = y]
  BY Known DEF Halt
<1>8. /\ y \in IfcType /\ y.st = "SUSPENDING" /\ y.told = ifc[i].told /\ y.cb = ifc[i].cb /\ y.wait = ifc[i].wait
      /\ y.vol = ifc[i].vol /\ y.range = ifc[i].range /\ y.failed = ifc[i].failed /\ y.x = ifc[i].x /\ y.buf = ifc[i].buf
  BY <1>3, <1>7 DEF IfcType
<1>9. ifc' \in [Ifc -> IfcType] /\ ifc'[i] = y /\ \A j \in Ifc : j # i => ifc'[j] = ifc[j]
  BY <1>7, <1>8, Known
<1>10. user'.op \in Halts /\ user'.op \notin {"none", "open", "start", "resume"} \cup Asks
  BY <1>6 DEF Halts, Asks
<1>11. TypeOK'
  BY <1>1, <1>2, <1>3, <1>4, <1>5, <1>6, <1>7, <1>8, <1>9, <1>10, Known, NothingIs, ConstantsAre,
    TypesWillBe
<1>12. IfcsAre'
  BY <1>1, <1>2, <1>3, <1>4, <1>6, <1>8, <1>9, <1>10, ConstantsAre, HereIs DEF UacInv, IfcsAre, IfcIs,
    Claimed
<1>13. UserPlace'
  BY <1>1, <1>2, <1>3, <1>4, <1>6, <1>8, <1>9, <1>10, ConstantsAre, HereIs DEF UacInv, UserPlace,
    Waiting, Halts, Asks, AtOnce
<1>14. CtlPlace'
  BY <1>1, <1>2, <1>3, <1>4, <1>6, <1>8, <1>9, <1>10, ConstantsAre, HereIs DEF UacInv, CtlPlace
<1>15. Handle'
  <2>1. Num(RX)' = Num(RX) /\ Num(TX)' = Num(TX)
    BY <1>3, <1>8, <1>9, ConstantsAre DEF Num
  <2> QED BY <1>1, <1>2, <1>4, <1>6, <2>1 DEF UacInv, Handle
<1>16. Messages'
  BY <1>1, <1>2, <1>3, <1>4, <1>6, <1>8, <1>9, <1>10, ConstantsAre, HereIs DEF UacInv, Messages,
    GoneNews, AllIdle
<1>17. ClientPlace'
  BY <1>1, <1>2, <1>3, <1>4, <1>6, <1>8, <1>9, <1>10, ConstantsAre, HereIs DEF UacInv, ClientPlace,
    Held, Leaving, Walking, AllIdle, GoneNews
<1>18. AuxPlace'
  BY <1>1, <1>2, <1>3, <1>4, <1>6, <1>8, <1>9, <1>10, ConstantsAre, HereIs DEF UacInv, AuxPlace, AtOnce
<1>19. Streaming'
  BY <1>1, <1>2, <1>3, <1>4, <1>6, <1>8, <1>9, <1>10, ConstantsAre, HereIs DEF UacInv, Streaming, TxIs,
    TxRuns, Ready, Running
<1>20. VolumeKnown'
  BY <1>1, <1>2, <1>3, <1>4, <1>6, <1>8, <1>9, <1>10, ConstantsAre, HereIs DEF UacInv, VolumeKnown,
    IsSet, Leaving, Asks
<1>21. RangeKnown'
  BY <1>1, <1>2, <1>3, <1>4, <1>6, <1>8, <1>9, <1>10, ConstantsAre, HereIs DEF UacInv, RangeKnown,
    Held, Leaving, Claimed
<1> QED
  BY <1>1, <1>11, <1>12, <1>13, <1>14, <1>15, <1>16, <1>17, <1>18, <1>19, <1>20, <1>21 DEF UacInv,
    NoAbuse

\* An interface that does not stream is to be released, and closed.
LEMMA ReleaseNowKeeps ==
    ASSUME UacInv,
           NEW i \in Ifc,
           NEW op \in {"stop", "close"},
           Others,
           MayCall,
           UNCHANGED <<dev, drv, bus, plugs, env>>,
           calls' \in 0..MaxCalls,
           ReleaseNow(op, i),
           ifc[i].st = "READY" \/ (ifc[i].st = "IDLE" /\ op = "close")
    PROVE  UacInv'
<1>1. UNCHANGED <<dev, drv, bus, plugs, env, level, msgs, hdl, phys, ifc, aux, client, crash>>
  BY DEF ReleaseNow
<1>2. /\ ClientIdle /\ client.pc = "idle" /\ client.cur = 0 /\ msgs = <<>> /\ ~GoneNews /\ ~Walking
      /\ user = NoCall /\ user.op = "none" /\ user.pc = "idle" /\ aux.pc = "idle"
      /\ phys.ctl.urb = "idle" /\ ~phys.ctl.sem /\ \A j \in Ifc : ~ifc[j].wait /\ ifc[j].st \notin {"NOT_INIT", "SUSPENDING"}
  BY CallIs, IdleIs DEF UacInv, UserPlace, Halts
<1>3. phys.st = "listed" /\ hdl # 0 /\ bus # "none"
  BY <1>2, HeldIs DEF Held, Leaving
<1>4. drv = "up" BY <1>3, Known DEF UacInv, Handle
<1>5. /\ user' \in UserType /\ user'.op = op /\ user'.i = i
      /\ user'.pc = (IF ifc[i].st = "READY" THEN "release" ELSE "final") /\ user'.op \in {"stop", "close"}
  <2>1. PICK u \in UserType : u = CallOn(op, i, {}) /\ u.op = op /\ u.i = i
    BY CallOnIs DEF Channel
  <2>2. user' = [u EXCEPT !.pc = IF ifc[i].st = "READY" THEN "release" ELSE "final"]
    BY <2>1 DEF ReleaseNow
  <2> QED BY <2>1, <2>2 DEF UserType
<1>6. user'.pc = "final" => user'.op = "close" /\ ifc[i].st = "IDLE" BY <1>5
<1>7. TypeOK'
  BY <1>1, <1>2, <1>3, <1>4, <1>5, <1>6, Known, NothingIs, ConstantsAre, TypesWillBe
<1>8. IfcsAre'
  BY <1>1, <1>2, <1>3, <1>4, <1>5, <1>6, ConstantsAre, HereIs DEF UacInv, IfcsAre, IfcIs, Claimed
<1>9. UserPlace'
  BY <1>1, <1>2, <1>3, <1>4, <1>5, <1>6, ConstantsAre, HereIs DEF UacInv, UserPlace, Waiting, Halts,
    Asks, AtOnce
<1>10. CtlPlace'
  BY <1>1, <1>2, <1>3, <1>4, <1>5, <1>6, ConstantsAre, HereIs DEF UacInv, CtlPlace
<1>11. Handle'
  BY <1>1, <1>2, <1>3, <1>4, <1>5, <1>6, ConstantsAre, HereIs DEF UacInv, Handle, Num
<1>12. Messages'
  BY <1>1, <1>2, <1>3, <1>4, <1>5, <1>6, ConstantsAre, HereIs DEF UacInv, Messages, GoneNews, AllIdle
<1>13. ClientPlace'
  BY <1>1, <1>2, <1>3, <1>4, <1>5, <1>6, ConstantsAre, HereIs DEF UacInv, ClientPlace, Held, Leaving,
    Walking, AllIdle, GoneNews
<1>14. AuxPlace'
  BY <1>1, <1>2, <1>3, <1>4, <1>5, <1>6, ConstantsAre, HereIs DEF UacInv, AuxPlace, AtOnce
<1>15. Streaming'
  BY <1>1, <1>2, <1>3, <1>4, <1>5, <1>6, ConstantsAre, HereIs DEF UacInv, Streaming, TxIs, TxRuns,
    Ready, Running
<1>16. VolumeKnown'
  BY <1>1, <1>2, <1>3, <1>4, <1>5, <1>6, ConstantsAre, HereIs DEF UacInv, VolumeKnown, IsSet, Leaving
<1>17. RangeKnown'
  BY <1>1, <1>2, <1>3, <1>4, <1>5, <1>6, ConstantsAre, HereIs DEF UacInv, RangeKnown, Held, Leaving,
    Claimed
<1> QED
  BY <1>1, <1>7, <1>8, <1>9, <1>10, <1>11, <1>12, <1>13, <1>14, <1>15, <1>16, <1>17 DEF UacInv, NoAbuse

\* A stream is started: its interface is claimed.
LEMMA StartKeeps ==
    ASSUME UacInv,
           NEW i \in Ifc,
           Start(i)
    PROVE  UacInv'
<1>1. UNCHANGED <<dev, drv, bus, plugs, env, level, msgs, hdl, aux, client>>
  BY DEF Start, Call
<1>2. calls' \in 0..MaxCalls /\ drv = "up"
  BY Known, ConstantsAre DEF Start, Call
<1>3. /\ ClientIdle /\ client.pc = "idle" /\ client.cur = 0 /\ msgs = <<>> /\ ~GoneNews /\ ~Walking
      /\ user = NoCall /\ user.op = "none" /\ user.pc = "idle" /\ aux.pc = "idle"
      /\ phys.ctl.urb = "idle" /\ ~phys.ctl.sem /\ \A j \in Ifc : ~ifc[j].wait /\ ifc[j].st \notin {"NOT_INIT", "SUSPENDING"}
  <2>1. Others /\ MayCall BY DEF Start
  <2>2. ClientIdle /\ user.op = "none" BY <2>1, CallIs
  <2>3. \A j \in Ifc : ifc[j].st \notin {"NOT_INIT", "SUSPENDING"}
    BY <2>1, CallIs DEF UacInv, UserPlace, Halts
  <2> QED BY <2>1, <2>2, <2>3, CallIs, IdleIs
<1>4. ifc[i].st = "IDLE" /\ ~ifc[i].told /\ ifc[i] \in IfcType /\ ifc[i].buf = 0 /\ dev.ifs[i].dir # "none"
  BY Known DEF Start, UacInv, IfcsAre, IfcIs
<1>5. bus = "present" /\ phys.st = "listed" /\ hdl # 0
  BY <1>3, <1>4, PresentIs DEF Held
<1>6. crash' = "none" BY <1>4, ReadIs, Known DEF Start, Fails
<1>7. PICK y : y = [Prepared(ifc[i]) EXCEPT !.failed = FALSE] OBVIOUS
<1>8. /\ y \in IfcType /\ y.st = "READY" /\ y.told = ifc[i].told /\ y.cb = ifc[i].cb /\ y.wait = ifc[i].wait
      /\ y.vol = ifc[i].vol /\ y.range = ifc[i].range /\ y.buf = 0 /\ \A k \in Xfer : y.x[k] = Ready
  <2>1. y = [ifc[i] EXCEPT !.st = "READY", !.x = [k \in Xfer |-> Ready], !.failed = FALSE]
    BY <1>4, <1>7 DEF Prepared, Ready, IfcType
  <2> QED BY <1>4, <2>1, NothingIs DEF IfcType
<1>9. \/ UNCHANGED <<ifc, user, phys>>
      \/ /\ ifc' = [ifc EXCEPT ![i] = y]
         /\ UNCHANGED <<user, phys>> \/ Resuming("start", i)
  <2>1. CASE bus # "present" \/ dev.ifs[i].setting = 0 BY <2>1 DEF Start
  <2>2. CASE ~(bus # "present" \/ dev.ifs[i].setting = 0)
    <3>1. ifc' = [ifc EXCEPT ![i] = y] BY <1>7, <2>2, Known DEF Start
    <3>2. UNCHANGED <<user, phys>> \/ Resuming("start", i) BY <2>2 DEF Start
    <3> QED BY <3>1, <3>2
  <2> QED BY <2>1, <2>2
<1>10. /\ user' \in UserType /\ phys' \in PhysType /\ phys'.st = "listed" /\ phys'.cnt = phys.cnt /\ ~phys'.ctl.sem
       /\ \/ ifc' = [ifc EXCEPT ![i] = ifc[i]] /\ user' = user /\ phys'.ctl.urb = "idle"
          \/ ifc' = [ifc EXCEPT ![i] = y] /\ user' = user /\ phys'.ctl.urb = "idle"
          \/ /\ ifc' = [ifc EXCEPT ![i] = y] /\ user'.op = "start" /\ user'.i = i /\ user'.pc = "ctl" /\ user'.left # {}
             /\ phys'.ctl.urb = "flight"
  <2>1. CASE UNCHANGED <<ifc, user, phys>>
    <3>1. ifc' = [ifc EXCEPT ![i] = ifc[i]] BY <2>1, Known
    <3> QED BY <1>3, <1>5, <2>1, <3>1, Known
  <2>2. CASE ifc' = [ifc EXCEPT ![i] = y] /\ UNCHANGED <<user, phys>>
    BY <1>3, <1>5, <2>2, Known
  <2>3. CASE ifc' = [ifc EXCEPT ![i] = y] /\ Resuming("start", i)
    <3>0. 1..2 \in SUBSET Channel /\ 1..2 # {} /\ {1} \in SUBSET Channel
      BY DEF Channel
    <3>1. PICK l \in SUBSET Channel : l = (IF dev.ifs[i].freq THEN 1..2 ELSE {1}) /\ l # {}
      BY <3>0
    <3>2. PICK u \in UserType : u.op = "start" /\ u.i = i /\ u.left = l /\ Request(u)
      BY <2>3, <3>1, CallOnIs DEF Resuming
    <3> QED BY <1>3, <1>5, <2>3, <3>1, <3>2, RequestIs
  <2> QED BY <1>9, <2>1, <2>2, <2>3
<1>11. PICK z \in IfcType : /\ ifc' = [ifc EXCEPT ![i] = z] /\ z.told = ifc[i].told /\ z.cb = ifc[i].cb /\ z.wait = ifc[i].wait
                           /\ z.vol = ifc[i].vol /\ z.range = ifc[i].range /\ z.buf = 0
                           /\ \/ z = ifc[i] /\ z.st = "IDLE" /\ user' = user /\ phys'.ctl.urb = "idle"
                              \/ /\ z.st = "READY" /\ \A k \in Xfer : z.x[k] = Ready
                                 /\ \/ user' = user /\ phys'.ctl.urb = "idle"
                                    \/ /\ user'.op = "start" /\ user'.i = i /\ user'.pc = "ctl" /\ user'.left # {}
                                       /\ phys'.ctl.urb = "flight"
  BY <1>4, <1>8, <1>10
<1>12. ifc' \in [Ifc -> IfcType] /\ ifc'[i] = z /\ \A j \in Ifc : j # i => ifc'[j] = ifc[j]
  BY <1>11, Known
<1>13. \A k \in Xfer : Ready.list = "free" /\ Ready.urb = "idle"
  BY DEF Ready
<1>14. \A k \in Xfer : ifc[i].x[k] = NoXfer
  BY <1>4 DEF UacInv, IfcsAre, IfcIs
<1>15. user'.op \in {"none", "start"} /\ user'.pc \in {"idle", "ctl"}
  BY <1>3, <1>10
<1>16. \A j \in Ifc : ifc[j].told => ifc[j].st = "IDLE"
  BY DEF UacInv, IfcsAre, IfcIs
<1>17. ~phys'.ctl.sem /\ phys'.st = "listed" /\ phys'.cnt = phys.cnt
  BY <1>10
<1>18. TypeOK'
  BY <1>1, <1>2, <1>3, <1>4, <1>5, <1>6, <1>7, <1>8, <1>9, <1>10, <1>11, <1>12, <1>13, <1>14, <1>15,
    <1>16, <1>17, Known, NothingIs, ConstantsAre, TypesWillBe
<1>19. IfcsAre'
  BY <1>1, <1>2, <1>3, <1>4, <1>5, <1>11, <1>12, <1>13, <1>14, <1>15, <1>17, ConstantsAre, HereIs DEF
    UacInv, IfcsAre, IfcIs, Claimed
<1>20. UserPlace'
  BY <1>1, <1>2, <1>3, <1>4, <1>5, <1>11, <1>12, <1>13, <1>14, <1>15, <1>17, ConstantsAre, HereIs DEF
    UacInv, UserPlace, Waiting, Halts, Asks, AtOnce
<1>21. CtlPlace'
  BY <1>1, <1>2, <1>3, <1>4, <1>5, <1>11, <1>12, <1>13, <1>14, <1>15, <1>17, ConstantsAre, HereIs DEF
    UacInv, CtlPlace
<1>22. Handle'
  <2>1. Num(RX)' = Num(RX) /\ Num(TX)' = Num(TX)
    BY <1>4, <1>11, <1>12, ConstantsAre DEF Num
  <2>2. phys.cnt \in Int /\ Num(RX) \in {0, 1} /\ Num(TX) \in {0, 1}
    <3>1. phys.cnt \in 0..255 BY Known DEF PhysType
    <3>2. Num(RX) \in {0, 1} /\ Num(TX) \in {0, 1} BY DEF Num
    <3> QED BY <3>1, <3>2
  <2>3. user.pc \notin {"count", "delay"} /\ user'.pc \notin {"count", "delay"}
    BY <1>3, <1>15
  <2>4. phys.cnt = Num(RX) + Num(TX) /\ plugs # 0
    BY <1>5, <2>2, <2>3 DEF UacInv, Handle
  <2>5. phys'.cnt + (IF user'.pc \in {"count", "delay"} THEN 1 ELSE 0) = Num(RX)' + Num(TX)'
    BY <1>17, <2>1, <2>2, <2>3, <2>4
  <2> QED BY <1>1, <1>2, <1>3, <1>5, <1>15, <1>17, <2>4, <2>5 DEF Handle
<1>23. Messages'
  BY <1>1, <1>2, <1>3, <1>4, <1>5, <1>11, <1>12, <1>13, <1>14, <1>15, <1>17, ConstantsAre, HereIs DEF
    UacInv, Messages, GoneNews, AllIdle
<1>24. ClientPlace'
  BY <1>1, <1>2, <1>3, <1>4, <1>5, <1>11, <1>12, <1>13, <1>14, <1>15, <1>17, ConstantsAre, HereIs DEF
    UacInv, ClientPlace, Held, Leaving, Walking, AllIdle, GoneNews
<1>25. AuxPlace'
  BY <1>1, <1>2, <1>3, <1>4, <1>5, <1>11, <1>12, <1>13, <1>14, <1>15, <1>17, ConstantsAre, HereIs DEF
    UacInv, AuxPlace, AtOnce
<1>26. Streaming'
  BY <1>1, <1>2, <1>3, <1>4, <1>5, <1>11, <1>12, <1>13, <1>14, <1>15, <1>17, ConstantsAre, HereIs DEF
    UacInv, Streaming, TxIs, TxRuns, Ready, Running
<1>27. VolumeKnown'
  BY <1>1, <1>2, <1>3, <1>4, <1>5, <1>11, <1>12, <1>13, <1>14, <1>15, <1>17, ConstantsAre, HereIs DEF
    UacInv, VolumeKnown, IsSet, Leaving
<1>28. RangeKnown'
  BY <1>1, <1>2, <1>3, <1>4, <1>5, <1>11, <1>12, <1>13, <1>14, <1>15, <1>17, ConstantsAre, HereIs DEF
    UacInv, RangeKnown, Held, Leaving, Claimed
<1> QED
  BY <1>1, <1>6, <1>9, <1>18, <1>19, <1>20, <1>21, <1>22, <1>23, <1>24, <1>25, <1>26, <1>27, <1>28 DEF
    UacInv, NoAbuse

\* A call is refused.
LEMMA NothingAskedKeeps ==
    ASSUME UacInv,
           Others,
           MayCall,
           drv = "up",
           UNCHANGED <<dev, drv, bus, plugs, env, level, msgs, hdl, ifc, aux, client, user, phys>>,
           calls' \in 0..MaxCalls,
           crash' = "none"
    PROVE  UacInv'
<1>1. UNCHANGED <<dev, drv, bus, plugs, env, level, msgs, hdl, ifc, aux, client, user, phys>> /\ crash' = "none"
  OBVIOUS
<1>2. TypeOK' BY <1>1, Known, NothingIs, ConstantsAre, TypesWillBe
<1>3. IfcsAre'
  BY <1>1, ConstantsAre, HereIs DEF UacInv, IfcsAre, IfcIs, Claimed
<1>4. UserPlace'
  BY <1>1, ConstantsAre, HereIs DEF UacInv, UserPlace, Waiting, Halts, Asks, AtOnce
<1>5. CtlPlace' BY <1>1, ConstantsAre, HereIs DEF UacInv, CtlPlace
<1>6. Handle' BY <1>1, ConstantsAre, HereIs DEF UacInv, Handle, Num
<1>7. Messages'
  BY <1>1, ConstantsAre, HereIs DEF UacInv, Messages, GoneNews, AllIdle
<1>8. ClientPlace'
  BY <1>1, ConstantsAre, HereIs DEF UacInv, ClientPlace, Held, Leaving, Walking, AllIdle, GoneNews
<1>9. AuxPlace' BY <1>1, ConstantsAre, HereIs DEF UacInv, AuxPlace, AtOnce
<1>10. Streaming'
  BY <1>1, ConstantsAre, HereIs DEF UacInv, Streaming, TxIs, TxRuns, Ready, Running
<1>11. VolumeKnown'
  BY <1>1, ConstantsAre, HereIs DEF UacInv, VolumeKnown, IsSet, Leaving
<1>12. RangeKnown'
  BY <1>1, ConstantsAre, HereIs DEF UacInv, RangeKnown, Held, Leaving, Claimed
<1> QED
  BY <1>1, <1>2, <1>3, <1>4, <1>5, <1>6, <1>7, <1>8, <1>9, <1>10, <1>11, <1>12 DEF UacInv, NoAbuse

\* uac_host_device_resume(), and the functions that ask for the volume and the mute
LEMMA ResumeKeeps ==
    ASSUME UacInv, NEW i \in Ifc, Resume(i)
    PROVE  UacInv'
<1>1. /\ Others /\ MayCall /\ ifc[i].st = "READY" /\ Resuming("resume", i) /\ calls' \in 0..MaxCalls /\ crash' = "none"
      /\ UNCHANGED <<dev, drv, bus, plugs, env, level, msgs, hdl, ifc, aux, client>>
  BY Known, ConstantsAre DEF Resume, Call
<1>2. 1..2 \in SUBSET Channel /\ 1..2 # {} /\ {1} \in SUBSET Channel
  BY DEF Channel
<1>3. PICK l \in SUBSET Channel : l = (IF dev.ifs[i].freq THEN 1..2 ELSE {1}) /\ l # {}
  BY <1>2
<1>4. PICK u \in UserType : u.op = "resume" /\ u.i = i /\ u.left = l /\ Request(u)
  BY <1>1, <1>3, CallOnIs DEF Resuming
<1> QED BY <1>1, <1>3, <1>4, AskingKeeps

\* uac_host_device_set_volume() and the like, given what they ask for
LEMMA AskKeeps ==
    ASSUME UacInv, NEW i \in Ifc, NEW op \in Asks, NEW left \in SUBSET Channel, NEW v \in Volumes \cup {0}, NEW has,
           Ask(op, left, v, i, has), has => left # {}, op = "setvol" => left = dev.ifs[i].vol,
           op = "setdb" => ifc[i].vol = 0, has /\ op \in {"setvol", "getvol"} => HasVolume(i)
    PROVE  UacInv'
<1>1. /\ Others /\ MayCall /\ ifc[i].st \in {"READY", "ACTIVE"} /\ calls' \in 0..MaxCalls /\ "ask" \in env /\ drv = "up"
      /\ UNCHANGED <<dev, drv, bus, plugs, env, level, msgs, hdl, ifc, aux, client>>
  <2>1. /\ Call /\ Others /\ MayCall /\ "ask" \in env /\ ifc[i].st \in {"READY", "ACTIVE"}
        /\ UNCHANGED <<level, msgs, hdl, ifc, aux, client>>
    BY DEF Ask
  <2> QED BY <2>1, Known, ConstantsAre DEF Call
<1>2. has /\ op \in {"setvol", "getvol"} => ifc[i].range
  BY <1>1, ReadIs DEF HasVolume, UacInv, RangeKnown, Claimed
<1>3. crash' = "none" BY <1>2, Known DEF Ask, Fails
<1>4. CASE has
  <2>1. op \in {"start", "suspend", "resume", "stop", "close", "setvol", "getvol", "setdb", "other"}
    BY DEF Asks
  <2>2. PICK w \in UserType : w = CallOn(op, i, left) /\ w.op = op /\ w.i = i /\ w.left = left
    BY <2>1, CallOnIs
  <2>3. PICK u : u = [w EXCEPT !.v = v] OBVIOUS
  <2>4. u \in UserType /\ u.op = op /\ u.i = i /\ u.left = left
    BY <2>2, <2>3 DEF UserType
  <2>5. Request(u) BY <1>4, <2>2, <2>3 DEF Ask
  <2> QED BY <1>1, <1>3, <1>4, <2>4, <2>5, AskingKeeps
<1>5. CASE ~has
  <2>1. UNCHANGED <<user, phys>> BY <1>5 DEF Ask
  <2> QED BY <1>1, <1>3, <2>1, NothingAskedKeeps
<1> QED BY <1>4, <1>5

\* ... each of which asks for something
LEMMA AsksKeep ==
    ASSUME UacInv, NEW i \in Ifc,
           \/ SetVolume(i) \/ SetVolumeDb(i) \/ SetMute(i)
           \/ GetVolume(i) \/ GetVolumeDb(i) \/ GetMute(i)
    PROVE  UacInv'
<1>1. /\ dev.ifs[i].vol \in SUBSET Channel /\ dev.ifs[i].mute \in SUBSET Channel /\ {1} \in SUBSET Channel
      /\ HasVolume(i) => dev.ifs[i].vol # {}
  BY ReadIs DEF Channel, HasVolume
<1>2. {"setvol", "getvol", "setdb", "other"} = Asks BY DEF Asks
<1>3. CASE SetVolume(i)
  <2>1. PICK v \in Volumes : Ask("setvol", dev.ifs[i].vol, v, i, HasVolume(i))
    BY <1>3 DEF SetVolume, AskAll
  <2> QED BY <1>1, <1>2, <2>1, AskKeeps
<1>4. CASE SetVolumeDb(i)
  <2>1. PICK v \in Volumes : Ask("setdb", dev.ifs[i].vol, v, i, HasVolume(i))
    BY <1>4 DEF SetVolumeDb, AskAll
  <2>2. ifc[i].vol = 0 BY <1>4, <2>1, Spared DEF SetVolumeDb, Ask
  <2> QED BY <1>1, <1>2, <2>1, <2>2, AskKeeps
<1>5. CASE SetMute(i) BY <1>1, <1>2, <1>5, AskKeeps DEF SetMute
<1>6. CASE GetVolume(i) BY <1>1, <1>2, <1>6, AskKeeps DEF GetVolume
<1>7. CASE GetVolumeDb(i) BY <1>1, <1>2, <1>7, AskKeeps DEF GetVolumeDb
<1>8. CASE GetMute(i) BY <1>1, <1>2, <1>8, AskKeeps DEF GetMute
<1> QED BY <1>3, <1>4, <1>5, <1>6, <1>7, <1>8

\* uac_host_device_suspend(), uac_host_device_stop(), uac_host_device_close()
LEMMA SuspendKeeps ==
    ASSUME UacInv, NEW i \in Ifc, Suspend(i) \/ Stop(i) \/ UserClose(i) \/ CloseTold(i)
    PROVE  UacInv'
<1>1. /\ Others /\ MayCall /\ calls' \in 0..MaxCalls /\ UNCHANGED <<dev, drv, bus, plugs, env>>
      /\ ifc[i].st \in {"IDLE", "READY", "ACTIVE"}
  <2>1. CloseTold(i) => ifc[i].st = "IDLE"
    BY DEF CloseTold, UacInv, IfcsAre, IfcIs
  <2> QED BY <2>1, Known, ConstantsAre DEF Suspend, Stop, UserClose, CloseTold, Call, outside, Halt
<1>2. {"suspend", "stop", "close"} = Halts BY DEF Halts
<1>3. \/ \E op \in Halts : Halt(op, i)
      \/ ifc[i].st # "ACTIVE" /\ ReleaseNow("close", i)
      \/ ifc[i].st = "READY" /\ ReleaseNow("stop", i)
  <2>1. CASE Suspend(i) BY <1>2, <2>1 DEF Suspend
  <2>2. CASE Stop(i) BY <1>2, <2>2 DEF Stop
  <2>3. CASE UserClose(i) \/ CloseTold(i)
    BY <1>2, <2>3 DEF UserClose, CloseTold, CloseBegin
  <2> QED BY <2>1, <2>2, <2>3
<1>4. CASE \E op \in Halts : Halt(op, i) BY <1>1, <1>4, HaltKeeps
<1>5. CASE ifc[i].st # "ACTIVE" /\ ReleaseNow("close", i)
  BY <1>1, <1>5, ReleaseNowKeeps
<1>6. CASE ifc[i].st = "READY" /\ ReleaseNow("stop", i)
  BY <1>1, <1>6, ReleaseNowKeeps
<1> QED BY <1>3, <1>4, <1>5, <1>6

\* Nothing happens.
LEMMA SameKeeps ==
    ASSUME UacInv,
           UNCHANGED <<dev, level, drv, bus, plugs, msgs, hdl, phys, ifc, user, aux, client, calls, crash, env>>
    PROVE  UacInv'
<1>1. UNCHANGED <<dev, level, drv, bus, plugs, msgs, hdl, phys, ifc, user, aux, client, calls, crash, env>>
  OBVIOUS
<1>2. TypeOK' BY <1>1, Known, NothingIs, ConstantsAre, TypesWillBe
<1>3. IfcsAre'
  BY <1>1, ConstantsAre, HereIs DEF UacInv, IfcsAre, IfcIs, Claimed
<1>4. UserPlace'
  BY <1>1, ConstantsAre, HereIs DEF UacInv, UserPlace, Waiting, Halts, Asks, AtOnce
<1>5. CtlPlace' BY <1>1, ConstantsAre, HereIs DEF UacInv, CtlPlace
<1>6. Handle' BY <1>1, ConstantsAre, HereIs DEF UacInv, Handle, Num
<1>7. Messages'
  BY <1>1, ConstantsAre, HereIs DEF UacInv, Messages, GoneNews, AllIdle
<1>8. ClientPlace'
  BY <1>1, ConstantsAre, HereIs DEF UacInv, ClientPlace, Held, Leaving, Walking, AllIdle, GoneNews
<1>9. AuxPlace' BY <1>1, ConstantsAre, HereIs DEF UacInv, AuxPlace, AtOnce
<1>10. Streaming'
  BY <1>1, ConstantsAre, HereIs DEF UacInv, Streaming, TxIs, TxRuns, Ready, Running
<1>11. VolumeKnown'
  BY <1>1, ConstantsAre, HereIs DEF UacInv, VolumeKnown, IsSet, Leaving
<1>12. RangeKnown'
  BY <1>1, ConstantsAre, HereIs DEF UacInv, RangeKnown, Held, Leaving, Claimed
<1> QED
  BY <1>1, <1>2, <1>3, <1>4, <1>5, <1>6, <1>7, <1>8, <1>9, <1>10, <1>11, <1>12 DEF UacInv, NoAbuse

-----------------------------------------------------------------------------
(* The theorems *)

\* Before anything happened, the invariant holds.
LEMMA InitIsFine ==
    ASSUME Tamed, Init
    PROVE  UacInv
<1>1. IsTame(env) /\ IsReadWell(dev, env)
  <2>1. PICK kind \in Kinds(env) : \E want \in Wants(kind) : dev = Reading(kind, want)
    BY DEF Init
  <2>2. PICK want \in Wants(kind) : dev = Reading(kind, want) BY <2>1
  <2> QED BY <2>1, <2>2 DEF Init, Tamed
<1>2. /\ level = [i \in Ifc |-> [ch \in Channel |-> 0]]
      /\ drv = "up" /\ bus = "none" /\ plugs = 0 /\ msgs = <<>> /\ hdl = 0
      /\ phys = NoPhys /\ ifc = [i \in Ifc |-> NoIfc] /\ user = NoCall /\ aux = NoAux
      /\ client = [pc |-> "idle", i |-> RX, cur |-> 0]
      /\ calls = 0 /\ crash = "none"
  BY DEF Init
<1>3. /\ NoIfc.st = "free" /\ ~NoIfc.told /\ ~NoIfc.wait /\ NoIfc.vol = 0 /\ NoIfc.buf = 0
      /\ \A k \in Xfer : NoIfc.x[k] = NoXfer
  BY DEF NoIfc
<1>4. /\ NoCall.op = "none" /\ NoCall.pc = "idle" /\ NoCall.i = RX /\ NoAux.pc = "idle"
      /\ NoPhys.st = "none" /\ NoPhys.cnt = 0 /\ NoPhys.ctl.urb = "idle" /\ ~NoPhys.ctl.sem
  BY DEF NoCall, NoAux, NoPhys, NoCtl
<1>5. /\ \A i \in Ifc : ifc[i] = NoIfc /\ ifc[i].st = "free" /\ ~ifc[i].told /\ ~ifc[i].wait /\ ifc[i].vol = 0
      /\ \A i \in Ifc : \A k \in Xfer : ifc[i].x[k] = NoXfer
      /\ user.op = "none" /\ user.pc = "idle" /\ user.i = RX /\ aux.pc = "idle" /\ phys.st = "none" /\ phys.cnt = 0
      /\ phys.ctl.urb = "idle" /\ ~phys.ctl.sem /\ client.pc = "idle" /\ client.i = RX /\ client.cur = 0
      /\ NoXfer.urb = "idle" /\ Len(msgs) = 0
  BY <1>2, <1>3, <1>4 DEF NoXfer
<1>6. TypeOK
  <2>1. level \in LevelType /\ client \in ClientType
    BY <1>2, ConstantsAre DEF LevelType, ClientType
  <2>2. ifc \in [Ifc -> IfcType] /\ phys \in PhysType /\ user \in UserType /\ aux \in AuxType
    BY <1>2, NothingIs
  <2>3. plugs \in 0..MaxPlugs /\ hdl \in 0..MaxPlugs /\ calls \in 0..MaxCalls /\ msgs \in Seq({"new", "gone"})
    BY <1>2, ConstantsAre
  <2> QED
    BY <1>2, <2>1, <2>2, <2>3
      DEF TypeOK, XferType, IfcType, CtlType, PhysType, UserType, AuxType, ClientType, LevelType
<1>7. IfcsAre BY <1>3, <1>5 DEF IfcsAre, IfcIs, Claimed
<1>8. UserPlace /\ CtlPlace
  BY <1>2, <1>5 DEF UserPlace, CtlPlace, Waiting, Halts, Asks
<1>9. Handle BY <1>2, <1>5, ConstantsAre DEF Handle, Num
<1>10. Messages /\ ClientPlace /\ AuxPlace
  BY <1>2, <1>5 DEF Messages, ClientPlace, AuxPlace, GoneNews, Walking, Held
<1>11. Streaming /\ VolumeKnown /\ RangeKnown
  BY <1>2, <1>5 DEF Streaming, VolumeKnown, RangeKnown, Held, Claimed
<1> QED BY <1>1, <1>2, <1>6, <1>7, <1>8, <1>9, <1>10, <1>11 DEF UacInv, NoAbuse

\* Every step keeps the invariant.
LEMMA StepKeeps ==
    ASSUME UacInv, [Next]_vars
    PROVE  UacInv'
<1>1. CASE Client
  BY <1>1, CtlCbKeeps, MessageKeeps, NewSeenKeeps, WalkKeeps, WalkShutKeeps, CallbackKeeps, MsgsEndKeeps,
     TaskEndsKeeps, XferCbKeeps DEF Client
<1>2. CASE Task
  BY <1>2, RequestEndKeeps, OpenAddKeeps, OpenInsertKeeps, OpenCountKeeps, RequestDoneKeeps, ResumeActKeeps,
     SuspendActKeeps, ReleaseActKeeps, CloseFinalKeeps, CloseDelayKeeps DEF Task
<1>3. CASE Aux BY <1>3, ReadKeeps, WriteScanKeeps, WriteSubmitKeeps DEF Aux
<1>4. CASE Told BY <1>4, SuspendKeeps DEF Told
<1>5. CASE User
  <2>1. CASE ReadBegin \/ WriteBegin \/ Uninstall
    BY <2>1, ReadBeginKeeps, WriteBeginKeeps, UninstallKeeps
  <2>2. CASE \E i \in Ifc : \/ OpenBegin(i) \/ Start(i) \/ Resume(i) \/ Suspend(i) \/ Stop(i)
                            \/ UserClose(i) \/ OpenByIds(i)
    BY <2>2, OpenBeginKeeps, StartKeeps, ResumeKeeps, SuspendKeeps
  <2>3. CASE \E i \in Ifc : \/ SetVolume(i) \/ SetVolumeDb(i) \/ SetMute(i)
                            \/ GetVolume(i) \/ GetVolumeDb(i) \/ GetMute(i)
    BY <2>3, AsksKeep
  <2> QED BY <1>5, <2>1, <2>2, <2>3 DEF User
<1>6. CASE Bus
  BY <1>6, PlugKeeps, PlugOtherKeeps, UnplugKeeps, AnswerKeeps, CompleteKeeps DEF Bus
<1>7. CASE UNCHANGED vars
  <2>1. UNCHANGED <<dev, level, drv, bus, plugs, msgs, hdl, phys, ifc, user, aux, client, calls, crash, env>>
    BY <1>7 DEF vars
  <2> QED BY <2>1, SameKeeps
<1> QED BY <1>1, <1>2, <1>3, <1>4, <1>5, <1>6, <1>7 DEF Next

\* How many interfaces there are
LEMMA HeldNumber ==
    Cardinality({i \in Ifc : Held(i)}) = Num(RX) + Num(TX)
<1>1. RX # TX /\ Ifc = {RX, TX} BY DEF RX, TX, Ifc
<1>2. CASE Held(RX) /\ Held(TX)
  <2>1. {i \in Ifc : Held(i)} = {RX} \cup {TX} BY <1>1, <1>2
  <2>2. Cardinality({RX} \cup {TX}) = 2
    <3>1. IsFiniteSet({RX}) /\ Cardinality({RX}) = 1 /\ TX \notin {RX}
      BY <1>1, FS_Singleton
    <3> QED BY <3>1, FS_AddElement
  <2>3. Num(RX) = 1 /\ Num(TX) = 1 BY <1>2 DEF Num, Held
  <2> QED BY <2>1, <2>2, <2>3
<1>3. CASE Held(RX) /\ ~Held(TX)
  <2>1. {i \in Ifc : Held(i)} = {RX} BY <1>1, <1>3
  <2>2. Cardinality({RX}) = 1 BY FS_Singleton
  <2>3. Num(RX) = 1 /\ Num(TX) = 0 BY <1>3 DEF Num, Held
  <2> QED BY <2>1, <2>2, <2>3
<1>4. CASE ~Held(RX) /\ Held(TX)
  <2>1. {i \in Ifc : Held(i)} = {TX} BY <1>1, <1>4
  <2>2. Cardinality({TX}) = 1 BY FS_Singleton
  <2>3. Num(RX) = 0 /\ Num(TX) = 1 BY <1>4 DEF Num, Held
  <2> QED BY <2>1, <2>2, <2>3
<1>5. CASE ~Held(RX) /\ ~Held(TX)
  <2>1. {i \in Ifc : Held(i)} = {} BY <1>1, <1>5
  <2>2. Num(RX) = 0 /\ Num(TX) = 0 BY <1>5 DEF Num, Held
  <2> QED BY <2>1, <2>2, FS_EmptySet
<1> QED BY <1>2, <1>3, <1>4, <1>5

\* The invariant gives what the run checks.
LEMMA ItIsConsistent ==
    ASSUME UacInv
    PROVE  Consistent
<1>1. CountIsExact
  <2>1. {i \in Ifc : ifc[i].st # "free"} = {i \in Ifc : Held(i)} BY DEF Held
  <2>2. user.pc \notin {"count", "delay"} => phys.cnt = Num(RX) + Num(TX)
    <3>1. phys.cnt \in 0..255 BY Known DEF PhysType
    <3>2. phys.cnt + (IF user.pc \in {"count", "delay"} THEN 1 ELSE 0) = Num(RX) + Num(TX)
      BY DEF UacInv, Handle
    <3> QED BY <3>1, <3>2
  <2>3. /\ phys.st = "listed" => hdl # 0
        /\ hdl # 0 => phys.st = "listed" \/ client.pc = "new" \/ user.pc = "add"
    BY DEF UacInv, Handle
  <2> QED BY <2>1, <2>2, <2>3, HeldNumber DEF CountIsExact
<1>2. DescriptorsRead BY DEF UacInv, IsReadWell, DescriptorsRead
<1>3. VolumeIsKnown
  <2> SUFFICES ASSUME NEW i \in Ifc, Claimed(ifc[i]), ifc[i].vol # 0, bus = "present",
                      ~(user.op \in {"setvol", "setdb"} /\ user.i = i)
               PROVE  \A ch \in dev.ifs[i].vol : level[i][ch] = ifc[i].vol
    BY DEF VolumeIsKnown
  <2>1. ~IsSet(i) BY DEF IsSet
  <2>2. ~Leaving(i) BY DEF Leaving, Claimed, UacInv, UserPlace
  <2> QED BY <2>1, <2>2 DEF UacInv, VolumeKnown
<1> QED BY <1>1, <1>2, <1>3 DEF Consistent, UacInv

\* ... both of it.
LEMMA ItStreams ==
    ASSUME UacInv
    PROVE  KeepsStreaming
<1> SUFFICES ASSUME Quiet, NEW i \in Ifc
             PROVE  LET x == ifc[i].x
                    IN  /\ ifc[i].st # "SUSPENDING"
                        /\ ifc[i].st = "ACTIVE" /\ i = RX /\ ~ifc[i].failed => \A k \in Xfer : x[k].urb = "flight"
                        /\ ifc[i].st = "ACTIVE" /\ i = TX =>
                              /\ \A k \in Xfer : (x[k].list = "busy") = (x[k].urb = "flight")
                              /\ ifc[i].buf > 0 /\ ~ifc[i].failed => \E k \in Xfer : x[k].urb = "flight"
                        /\ ifc[i].st = "READY" => \A k \in Xfer : x[k] = [list |-> "free", urb |-> "idle"]
  BY DEF KeepsStreaming
<1>1. /\ user.op = "none" /\ aux.pc = "idle" /\ bus = "present"
      /\ \A k \in Xfer : ifc[i].x[k].urb \notin Done
  BY IdleIs DEF Quiet
<1>2. \A k \in Xfer : ifc[i].x[k] \in XferType BY Known DEF IfcType
<1>3. ifc[i].st # "SUSPENDING" BY <1>1 DEF UacInv, UserPlace, Halts
<1>4. \A k \in Xfer : ifc[i].x[k].urb \in Running => ifc[i].x[k].urb = "flight"
  BY <1>1 DEF Running, Done
<1>5. ifc[i].st = "ACTIVE" /\ i = RX /\ ~ifc[i].failed => \A k \in Xfer : ifc[i].x[k].urb = "flight"
  BY <1>1, <1>4 DEF UacInv, Streaming
<1>6. ifc[i].st = "ACTIVE" /\ i = TX => \A k \in Xfer : (ifc[i].x[k].list = "busy") = (ifc[i].x[k].urb = "flight")
  <2> SUFFICES ASSUME ifc[i].st = "ACTIVE", i = TX, NEW k \in Xfer
               PROVE  ifc[i].x[k].list = "busy" <=> ifc[i].x[k].urb = "flight"
    OBVIOUS
  <2>1. \/ ifc[i].x[k] = Ready
        \/ ifc[i].x[k].list = "busy" /\ ifc[i].x[k].urb \in Running
    BY <1>1 DEF UacInv, Streaming, TxIs
  <2> QED BY <1>4, <2>1 DEF Ready
<1>7. ifc[i].st = "ACTIVE" /\ i = TX /\ ifc[i].buf > 0 /\ ~ifc[i].failed => \E k \in Xfer : ifc[i].x[k].urb = "flight"
  BY <1>1, <1>4 DEF UacInv, Streaming, TxRuns
<1>8. ifc[i].st = "READY" => \A k \in Xfer : ifc[i].x[k] = [list |-> "free", urb |-> "idle"]
  <2> SUFFICES ASSUME ifc[i].st = "READY", NEW k \in Xfer
               PROVE  ifc[i].x[k] = [list |-> "free", urb |-> "idle"]
    OBVIOUS
  <2>1. ifc[i].x[k].list = "free" /\ ifc[i].x[k].urb # "flight"
    BY <1>1 DEF UacInv, Streaming, IfcsAre, IfcIs
  <2> QED BY <1>1, <1>2, <2>1 DEF XferType
<1> QED BY <1>3, <1>5, <1>6, <1>7, <1>8

\* For every number of transfers, size of the ring buffer, number of calls and of
\* disconnections: while the application and the device keep to Tamed, no assertion of the
\* UAC driver fails and it uses nothing that it freed, opened_cnt is the number of open
\* interfaces, the USB device is open exactly while there is one, what was read of the
\* streams is right, and the volume that is remembered is that of all channels.
THEOREM UacConsistent ==
    ASSUME Tamed
    PROVE  Spec => []Consistent
<1>1. Init => UacInv BY InitIsFine
<1>2. UacInv /\ [Next]_vars => UacInv' BY StepKeeps
<1>3. UacInv => Consistent BY ItIsConsistent
<1> QED BY <1>1, <1>2, <1>3, PTL DEF Spec

\* ... and whenever nobody works on a stream, an active microphone has all its transfers in
\* flight unless it reported an error, an active speaker with data has one in flight, and a
\* stream that is ready has its transfers free, as uac_host_interface_resume() needs them.
THEOREM UacKeepsStreaming ==
    ASSUME Tamed
    PROVE  Spec => []KeepsStreaming
<1>1. Init => UacInv BY InitIsFine
<1>2. UacInv /\ [Next]_vars => UacInv' BY StepKeeps
<1>3. UacInv => KeepsStreaming BY ItStreams
<1> QED BY <1>1, <1>2, <1>3, PTL DEF Spec
=============================================================================
