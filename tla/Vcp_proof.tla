------------------------------ MODULE Vcp_proof ------------------------------
(***************************************************************************)
(* The CDC-ACM host driver and the Virtual COM Port drivers above it keep  *)
(* what they have open, and what their devices are told, in step, and      *)
(* every open pseudo-device keeps polling: proved for any number of        *)
(* pseudo-devices, calls, disconnections, drivers and products, in         *)
(* environments without the hazards that the drivers do not survive.       *)
(*                                                                         *)
(* AcmInv says what a pseudo-device can be at all (DevicesAre), what each  *)
(* of the tasks may rely on where it is (OpPlace, ClientPlace,             *)
(* WriterPlace), who has the handle of the USB device, what messages there *)
(* can be, and what will start the poll again (Polling); VcpInv what the   *)
(* registers will be like when the requests that are left have been sent   *)
(* (Jobs).                                                                 *)
(***************************************************************************)
EXTENDS Vcp, WellFoundedInduction, SequenceTheorems, TLAPS

-----------------------------------------------------------------------------
(* The inductive invariant *)

\* A transfer that nobody uses, and room for whole packets in the IN buffer
AtRest(t) == t.urb = "idle" /\ ~t.sem /\ ~t.ok
HasRoom(x) == x.pos + x.num <= Size /\ x.num > 0 /\ x.num % Mps = 0

\* What cdc_dev_t can be: not claimed (yet); or with its interfaces and transfers, in the
\* list or about to be.
Blank(x) == /\ x.st # "listed" /\ ~x.claimed /\ x.urb = "null" /\ ~x.cb /\ ~x.told /\ ~x.poll /\ ~x.wake
            /\ x.pos = 0 /\ AtRest(x.out) /\ AtRest(x.ctl)
Used(x)  == /\ x.st # "free" /\ x.claimed /\ x.urb # "null" /\ HasRoom(x)
            /\ x.urb = "idle" => ~x.poll
            /\ x.urb = "doneok" => x.len <= x.num
            /\ x.st = "opening" => x.cb /\ ~x.told /\ ~x.wake /\ AtRest(x.out) /\ AtRest(x.ctl)

\* A pseudo-device is opened by the task that has the mutex, runs on the device that is
\* there, and is told only of one that is gone.
DevicesAre ==
    \A i \in Dev : /\ Blank(dev[i]) \/ Used(dev[i])
                   /\ dev[i].st = "opening" => op.i = i
                   /\ dev[i].claimed => info[i].ok
                   /\ dev[i].urb = "flight" => bus = "present"
                   /\ dev[i].told => bus = "gone"

\* Where the task with the mutex is, and what it may rely on there
Closing == {"flush", "release"}
OpPlace ==
    /\ op.by = "none" <=> op.pc = "none"
    /\ op.by = "none" => op.i = 0
    /\ op.by # "none" => op.i \in Dev
    /\ op.by = "client" => op.pc \in Closing /\ client.pc = "closing" /\ op.i = client.i
    /\ op.pc \in {"find", "claim"} => dev[op.i].st = "opening" /\ ~dev[op.i].claimed
    /\ op.pc \in {"submit", "notif", "insert"} =>
          dev[op.i].st = "opening" /\ dev[op.i].claimed /\ bus = "present"
    /\ op.pc = "submit" => dev[op.i].urb = "idle"
    /\ op.pc \in {"notif", "insert"} => ~susp
    /\ op.pc \in Closing => dev[op.i].st = "listed" /\ ~dev[op.i].cb /\ writer.i # op.i
    /\ op.pc = "release" => dev[op.i].urb \in {"idle", "doneno"}

\* The handle of the USB device is there for those who need it, and only then; and who
\* uninstalls leaves nothing behind.
Handle ==
    /\ hdl = 0 => op.pc \in {"none", "find"} /\ \A i \in Dev : ~dev[i].claimed
    /\ hdl # 0 => bus # "none" /\ (client.pc = "new" \/ op.pc \notin {"none", "find"} \/ Listed # {})
    /\ bus # "none" => plugs # 0
    /\ client.pc = "new" => op.pc \in {"none", "find"} /\ hdl # 0 /\ \A i \in Dev : ~dev[i].claimed
    /\ drv # "up" => hdl = 0 /\ op = NoOp /\ msgs = <<>> /\ client.pc = "idle"

\* The messages there can be: of devices that come and go, the end of this one before the
\* others; or of a suspension and a resumption.
Resumes  == msgs \in {<<"res">>, <<"susp", "res">>}
Suspends == msgs \in {<<"susp">>, <<"susp", "res">>}
News(m)  == \A n \in 1 .. Len(m) : m[n] = "new" \/ (n = 1 /\ m[n] = "gone")
GoneNews == msgs # <<>> /\ Head(msgs) = "gone"

\* A suspended port has nothing in flight on it, and while it is suspended or resumed
\* nobody closes; when a device went, the only one who was closing has the only one.
Messages ==
    /\ News(msgs) \/ (Suspends \/ Resumes)
    /\ susp \/ Suspends \/ Resumes \/ client.kind \in {"susp", "res"} => "suspend" \in env /\ bus = "present"
    /\ Suspends => client.pc = "idle"
    /\ Suspends \/ client.kind = "susp" => op.by = "none"
    /\ Resumes \/ client.kind = "res" => op.pc \in {"none", "notif", "insert"} /\ ~susp
    /\ susp => msgs \in {<<>>, <<"susp">>} /\ \A i \in Dev : dev[i].urb \notin {"flight", "doneok", "doneerr"}
    /\ GoneNews => client.pc = "idle" /\ bus = "gone" /\ hdl # 0
    /\ (GoneNews \/ client.kind = "gone") /\ op.by = "user" /\ op.pc \in Closing => Listed = {op.i}

\* The driver's task is at a pseudo-device of the list; those of a device that is gone, and
\* in a walk those that were flushed, have been called back.
ClientPlace ==
    /\ client.kind = "none" <=> client.pc \in {"idle", "msgs", "new"}
    /\ client.pc \in {"cb", "closing"} => client.kind = "gone" /\ client.i \in Dev
    /\ client.kind # "none" /\ client.cur # 0 => dev[client.cur].st = "listed" /\ client.cur > client.i
    /\ client.pc = "cb" => dev[client.i].st = "listed" /\ dev[client.i].cb
    /\ client.pc = "closing" => "incb" \in env /\ op.by \in {"client", "none"}
    /\ client.kind = "gone" => \A i \in Dev : dev[i].urb \notin InDone
    /\ client.kind = "gone" /\ bus # "gone" => hdl = 0 /\ client.cur = 0
    /\ client.pc # "idle" => \A i \in Dev : dev[i].urb # "doneno"

\* The writing task waits for the transfer that it submitted, on an open pseudo-device;
\* only one that timed out is called back to nobody.
Waits(i, k) == writer.pc = "wait" /\ writer.i = i /\ writer.k = k
Asks == {"ctl", "wake"}
WriterPlace ==
    /\ writer.pc = "idle" <=> writer.i = 0
    /\ writer.pc = "wait" => writer.i \in Dev /\ dev[writer.i].st = "listed"
    /\ writer.pc = "wait" => env \cap ({"out"} \cup Asks) # {}
    /\ writer.pc = "wait" /\ writer.k = "ctl" =>
          env \cap Asks # {} /\ (dev[writer.i].ctl.urb # "idle" \/ dev[writer.i].ctl.sem)
    /\ \A i \in Dev : /\ dev[i].out.want = "none"
                      /\ dev[i].out.urb = "flight" => Waits(i, "out")
                      /\ dev[i].out.urb # "idle" => "out" \in env
                      /\ dev[i].out.sem /\ Waits(i, "out") => dev[i].out.urb = "idle"
                      /\ dev[i].ctl.urb # "idle" \/ dev[i].ctl.sem => Waits(i, "ctl")
                      /\ dev[i].ctl.sem => dev[i].ctl.urb = "idle"
                      /\ dev[i].ctl.urb = "flight" \/ ~Waits(i, "ctl") => ~dev[i].ctl.ok

\* The device was told of the remote wakeup, and the pseudo-devices will be; a pseudo-device
\* that closes does not take what they know along.
Answered == writer.pc = "wait" /\ writer.k = "ctl" /\ dev[writer.i].ctl.ok /\ dev[writer.i].ctl.want # "none"
WakeKnown ==
    bus = "present" =>
        /\ Answered => (wakes <=> dev[writer.i].ctl.want = "on")
        /\ ~Answered => (wakes <=> WakeStatus)
        /\ op.pc \in Closing /\ dev[op.i].wake =>
              \/ Answered /\ dev[writer.i].ctl.want = "off"
              \/ \E j \in Dev : j # op.i /\ dev[j].st = "listed" /\ dev[j].wake

\* Who polls has a transfer under way, or a message is on its way that starts it again.
Polls(x) == x.urb \in {"flight", "doneok", "doneerr"}
Polling ==
    bus = "present" /\ ~susp =>
        \A i \in Dev : dev[i].claimed /\ dev[i].cb /\ ~dev[i].failed =>
            \/ Polls(dev[i])
            \/ op.pc = "submit" /\ op.i = i
            \/ dev[i].st = "listed" /\ Resumes
            \/ dev[i].st = "listed" /\ client.kind = "res" /\ client.cur # 0 /\ i >= client.cur

AcmInv ==
    /\ Tamed /\ IsTame(env) /\ ReadWell(info) /\ TypeOK /\ NoAbuse
    /\ DevicesAre /\ OpPlace /\ Handle /\ Messages /\ ClientPlace /\ WriterPlace /\ WakeKnown /\ Polling

-----------------------------------------------------------------------------
(* The types, by name *)

DevType == [st : {"free", "opening", "listed"}, claimed : BOOLEAN, cb : BOOLEAN,
            told : BOOLEAN, poll : BOOLEAN, failed : BOOLEAN,
            urb : InDone \cup {"null", "idle", "flight"},
            wake : BOOLEAN, pos : 0..InBuffer, num : 0..InBuffer + 1, len : 0..InBuffer + 1,
            out : XferType, ctl : XferType]
OpType == [by : {"none", "user", "client"}, i : Dev \cup {0},
           pc : {"none", "find", "claim", "submit", "notif", "insert", "flush", "release"}]
ClientType == [pc : {"idle", "msgs", "new", "walk", "cb", "closing"},
               kind : {"none", "gone", "susp", "res"}, cur : Dev \cup {0}, i : Dev \cup {0}]
WriterType == [pc : {"idle", "wait"}, k : Transfers, i : Dev \cup {0}]
News4 == {"new", "gone", "susp", "res"}

\* A pseudo-device that there can be
Sound(x) == x \in DevType /\ (Blank(x) \/ Used(x))

\* The constants
LEMMA ConstantsAre ==
    /\ Dev \subseteq Nat \ {0} /\ MaxPlugs \in Nat /\ MaxCalls \in Nat /\ QueueLen \in Nat
    /\ InBuffer \in Nat \ {0} /\ Mps \in Nat \ {0} /\ InBuffer % Mps = 0
BY BoundsAreNat, BufferIsPackets

\* What the proofs use of the invariant
LEMMA Known ==
    ASSUME AcmInv
    PROVE  /\ drv \in {"up", "ending", "down"} /\ bus \in {"none", "present", "gone"}
           /\ plugs \in 0..MaxPlugs /\ susp \in BOOLEAN /\ hdl \in 0..MaxPlugs /\ calls \in 0..MaxCalls
           /\ msgs \in Seq(News4) /\ Len(msgs) <= QueueLen
           /\ dev \in [Dev -> DevType] /\ wakes \in BOOLEAN
           /\ op \in OpType /\ client \in ClientType /\ writer \in WriterType /\ crash = "none"
BY DEF AcmInv, TypeOK, NoAbuse, DevType, OpType, ClientType, WriterType, News4

\* ... and what they must show of it
LEMMA TypesWillBe ==
    ASSUME drv' \in {"up", "ending", "down"}, bus' \in {"none", "present", "gone"},
           plugs' \in 0..MaxPlugs, susp' \in BOOLEAN, hdl' \in 0..MaxPlugs, calls' \in 0..MaxCalls,
           msgs' \in Seq(News4), Len(msgs') <= QueueLen, dev' \in [Dev -> DevType], wakes' \in BOOLEAN,
           op' \in OpType, client' \in ClientType, writer' \in WriterType
    PROVE  TypeOK'
BY DEF TypeOK, DevType, OpType, ClientType, WriterType, News4

\* Every pseudo-device is one that there can be.
LEMMA AllSound ==
    ASSUME AcmInv
    PROVE  \A i \in Dev : Sound(dev[i])
BY Known DEF AcmInv, DevicesAre, Sound

\* What the environment spares
LEMMA Spared ==
    ASSUME AcmInv
    PROVE  /\ "race" \notin env /\ "early" \notin env /\ "closing" \notin env /\ "loop" \notin env
           /\ "unin" \notin env /\ "both" \notin env /\ "odd" \notin env /\ "late" \notin env
           /\ "incb" \in env => "out" \notin env /\ env \cap Asks = {}
           /\ "slow" \in env => env \cap Asks = {}
           /\ "suspend" \in env => "other" \notin env
           /\ QueueLen >= 2
BY DEF AcmInv, IsTame, Asks, Tamed

\* What the kinds tell of the fields
LEMMA KindsDiffer ==
    ASSUME NEW x, Sound(x)
    PROVE  /\ Used(x) <=> x.claimed
           /\ x.claimed <=> x.urb # "null"
           /\ x.st = "listed" => x.claimed
           /\ x.st = "free" => ~x.claimed
           /\ x.st # "listed" => x.out.urb = "idle" /\ x.ctl.urb = "idle" /\ ~x.out.sem /\ ~x.ctl.sem /\ ~x.wake
           /\ x.cb => x.claimed
BY DEF Sound, Blank, Used, AtRest, DevType

\* The IN buffer is of whole packets.
LEMMA SizeIs ==
    ASSUME AcmInv
    PROVE  Size = InBuffer /\ Size - (Size % Mps) = InBuffer
<1>1. Size = InBuffer BY Spared DEF Size
<1> QED BY <1>1, ConstantsAre

\* Nothing is handled while the application's tasks run, but for a task that finds its
\* device gone while a callback waits for it.
LEMMA OthersAre ==
    ASSUME AcmInv, Others
    PROVE  \/ ClientIdle
           \/ /\ bus = "gone" /\ op.by = "user" /\ op.pc \in {"find", "claim"}
              /\ client.pc = "cb" /\ "incb" \in env
<1>1. CASE ~ClientIdle
  <2>1. "incb" \in env /\ client.pc = "cb" /\ op.by = "user"
    BY <1>1, Spared DEF Others
  <2>2. client.kind = "gone" /\ client.i \in Dev /\ dev[client.i].st = "listed" /\ dev[client.i].cb
    BY <2>1 DEF AcmInv, ClientPlace
  <2>3. dev[client.i].claimed BY <2>2, AllSound, KindsDiffer
  <2>4. hdl # 0 /\ bus = "gone"
    BY <2>2, <2>3 DEF AcmInv, Handle, ClientPlace
  <2>5. op.pc \notin Closing
    <3> SUFFICES ASSUME op.pc \in Closing PROVE FALSE
      OBVIOUS
    <3>1. Listed = {op.i} BY <2>1, <2>2 DEF AcmInv, Messages
    <3>2. client.i = op.i BY <2>2, <3>1 DEF Listed
    <3> QED BY <2>2, <3>2 DEF AcmInv, OpPlace
  <2>6. op.pc \notin {"submit", "notif", "insert", "none"}
    BY <2>1, <2>4, Known DEF AcmInv, OpPlace
  <2> QED BY <2>1, <2>4, <2>5, <2>6, Known DEF OpType, Closing
<1> QED BY <1>1

\* What it means that nothing is left to handle
LEMMA IdleIs ==
    ASSUME AcmInv, ClientIdle
    PROVE  /\ client.pc = "idle" /\ client.kind = "none" /\ msgs = <<>>
           /\ \A i \in Dev : /\ dev[i].urb \notin InDone
                             /\ dev[i].out.urb # "done" /\ dev[i].ctl.urb # "done"
           /\ ~Suspends /\ ~Resumes /\ ~GoneNews
<1>1. client.pc = "idle" /\ msgs = <<>> /\ ~Pending BY DEF ClientIdle
<1>2. client.kind = "none" BY <1>1 DEF AcmInv, ClientPlace
<1>3. \A i \in Dev : dev[i].urb \notin InDone /\ dev[i]["out"].urb # "done" /\ dev[i]["ctl"].urb # "done"
  BY <1>1 DEF Pending, Transfers
<1>4. ~Suspends /\ ~Resumes /\ ~GoneNews
  BY <1>1 DEF Suspends, Resumes, GoneNews
<1> QED BY <1>1, <1>2, <1>3, <1>4

-----------------------------------------------------------------------------
(* One pseudo-device changes *)

OneIs(i, y) ==
    /\ dev' \in [Dev -> DevType] /\ dev'[i] = y
    /\ \A j \in Dev : j # i => dev'[j] = dev[j]

\* ... when it is replaced.
LEMMA OneChanges ==
    ASSUME AcmInv, NEW i \in Dev, NEW y \in DevType, dev' = [dev EXCEPT ![i] = y]
    PROVE  OneIs(i, y)
BY Known DEF OneIs

\* All but the poll transfer is the same.
Alike(x, y) ==
    /\ y.st = x.st /\ y.claimed = x.claimed /\ y.cb = x.cb /\ y.told = x.told /\ y.wake = x.wake
    /\ y.out = x.out /\ y.ctl = x.ctl

\* cdc_acm_submit_poll() submits a transfer that is idle.
LEMMA PolledIs ==
    ASSUME AcmInv, NEW x \in DevType, Used(x)
    PROVE  \E y \in DevType : /\ y = Polled(x) /\ Used(y) /\ Alike(x, y) /\ y.failed = x.failed
                              /\ y.urb = IF x.urb = "idle" /\ bus = "present" THEN "flight" ELSE x.urb
<1>1. CASE x.poll BY <1>1 DEF Polled, Alike, Used
<1>2. CASE ~x.poll /\ x.urb # "idle"
  <2>1. PICK y : y = [x EXCEPT !.poll = TRUE] OBVIOUS
  <2>2. y \in DevType /\ Alike(x, y) /\ y.failed = x.failed /\ y.urb = x.urb /\ y.pos = x.pos /\ y.num = x.num /\ y.len = x.len
    BY <2>1 DEF DevType, Alike
  <2>3. Used(y) BY <1>2, <2>2 DEF Used, Alike, HasRoom
  <2> QED BY <1>2, <2>1, <2>2, <2>3 DEF Polled
<1>3. CASE ~x.poll /\ x.urb = "idle" /\ bus = "present"
  <2>1. PICK y : y = [x EXCEPT !.poll = TRUE, !.urb = "flight"] OBVIOUS
  <2>2. /\ y \in DevType /\ Alike(x, y) /\ y.failed = x.failed /\ y.urb = "flight"
        /\ y.pos = x.pos /\ y.num = x.num /\ y.len = x.len
    BY <2>1 DEF DevType, Alike
  <2>3. Used(y) BY <1>3, <2>2 DEF Used, Alike, HasRoom
  <2>4. CanPoll(x) BY <1>3 DEF CanPoll, Used, HasRoom
  <2> QED BY <1>3, <2>1, <2>2, <2>3, <2>4 DEF Polled
<1>4. CASE ~x.poll /\ x.urb = "idle" /\ bus # "present"
  BY <1>4 DEF Polled, CanPoll, Alike
<1> QED BY <1>1, <1>2, <1>3, <1>4

\* Whole packets that fit
LEMMA RoomIs ==
    ASSUME NEW n \in Nat, NEW r, r = (n \div Mps) * Mps
    PROVE  r \in Nat /\ r <= n /\ r % Mps = 0
<1>1. n \div Mps \in Nat /\ Mps \in Nat \ {0} BY ConstantsAre
<1>2. PICK q \in Nat : q = n \div Mps BY <1>1
<1>3. (q * Mps) % Mps = 0 BY <1>1, <1>2
<1>4. (n \div Mps) * Mps <= n BY <1>1
<1> QED BY <1>1, <1>2, <1>3, <1>4

\* The data callback leaves room for whole packets.
LEMMA TakenIs ==
    ASSUME AcmInv, NEW x \in DevType, Used(x), x.len <= x.num, NEW kept \in BOOLEAN
    PROVE  \E y \in DevType : /\ y = Taken(x, kept) /\ Alike(x, y) /\ y.failed = x.failed
                              /\ y.urb = x.urb /\ y.poll = x.poll /\ HasRoom(y) /\ y.len = x.len
<1>1. PICK p \in Nat : p = x.pos + x.len BY DEF DevType
<1>2. p <= Size /\ Size = InBuffer /\ InBuffer \in Nat \ {0} /\ Mps \in Nat \ {0} /\ InBuffer % Mps = 0
  BY <1>1, SizeIs, ConstantsAre DEF Used, HasRoom, DevType
<1>3. PICK n \in Nat : n = Size - p BY <1>1, <1>2
<1>4. PICK r : r = (n \div Mps) * Mps OBVIOUS
<1>5. r \in Nat /\ r <= n /\ r % Mps = 0 BY <1>4, RoomIs
<1>6. CASE ~x.cb BY <1>6 DEF Taken, Alike, Used
<1>7. CASE x.cb /\ (~kept \/ r = 0)
  <2>1. PICK y : y = [x EXCEPT !.pos = 0, !.num = Size - (Size % Mps)]
    OBVIOUS
  <2>2. y = [x EXCEPT !.pos = 0, !.num = InBuffer] BY <2>1, SizeIs
  <2>4. 0 \in 0..InBuffer /\ InBuffer \in 0 .. InBuffer + 1 BY <1>2
  <2>5. /\ y \in DevType /\ Alike(x, y) /\ y.failed = x.failed /\ y.urb = x.urb /\ y.poll = x.poll
        /\ y.pos = 0 /\ y.num = InBuffer /\ y.len = x.len
    BY <2>2, <2>4 DEF DevType, Alike
  <2>3. HasRoom(y) BY <1>2, <2>5 DEF HasRoom
  <2> QED BY <1>1, <1>3, <1>4, <1>7, <2>1, <2>5, <2>3 DEF Taken, Emptied
<1>8. CASE x.cb /\ kept /\ r # 0
  <2>1. PICK y : y = [x EXCEPT !.pos = p, !.num = r] OBVIOUS
  <2>4. p \in 0..InBuffer /\ r \in 0 .. InBuffer + 1
    BY <1>1, <1>2, <1>3, <1>5
  <2>2. /\ y \in DevType /\ Alike(x, y) /\ y.failed = x.failed /\ y.urb = x.urb /\ y.poll = x.poll
        /\ y.pos = p /\ y.num = r /\ y.len = x.len
    BY <2>1, <2>4 DEF DevType, Alike
  <2>3. HasRoom(y) BY <1>1, <1>2, <1>3, <1>5, <1>8, <2>2 DEF HasRoom
  <2> QED BY <1>1, <1>3, <1>4, <1>8, <2>1, <2>2, <2>3 DEF Taken
<1> QED BY <1>6, <1>7, <1>8

-----------------------------------------------------------------------------
(* What a step must show *)

Parts ==
    DevicesAre /\ OpPlace /\ Handle /\ Messages /\ ClientPlace /\ WriterPlace /\ WakeKnown /\ Polling

\* ... of which the invariant consists
LEMMA PartsAre ==
    ASSUME AcmInv
    PROVE  Parts
BY DEF AcmInv, Parts

\* The environment, and what is read of a device, do not change.
LEMMA InvIs ==
    ASSUME AcmInv, env' = env, info' = info, TypeOK', crash' = crash, Parts'
    PROVE  AcmInv'
<1>1. IsTame(env)' /\ ReadWell(info)' /\ Tamed'
  BY DEF AcmInv, IsTame, ReadWell, Tamed
<1>2. NoAbuse' BY DEF AcmInv, NoAbuse
<1> QED BY <1>1, <1>2 DEF AcmInv, Parts

\* No assertion that holds is recorded as one that failed.
LEMMA NothingFails ==
    ASSUME AcmInv, NEW ok, NEW name, Fails(ok, name), ok
    PROVE  crash' = crash
BY DEF Fails

\* The list, and what it tells of the remote wakeup, while nothing is put in or taken out
LEMMA ListIs ==
    ASSUME AcmInv, dev' \in [Dev -> DevType],
           \A j \in Dev : dev'[j].st = dev[j].st /\ dev'[j].wake = dev[j].wake
    PROVE  Listed' = Listed /\ (WakeStatus' <=> WakeStatus)
<1>1. Listed' = Listed BY DEF Listed
<1> QED BY <1>1 DEF WakeStatus, Listed

\* ... for those whose poll transfer moves
LEMMA PollMoves ==
    ASSUME AcmInv, NEW i \in Dev, NEW y \in DevType, OneIs(i, y),
           Used(y), Used(dev[i]), Alike(dev[i], y),
           UNCHANGED <<drv, bus, plugs, susp, msgs, hdl, info, wakes, client, writer, env>>,
           op' = op \/ (op.pc = "flush" /\ op.i = i /\ op' = [op EXCEPT !.pc = "release"]),
           y.urb # "flight" \/ bus = "present",
           op.pc # "submit" \/ op.i # i,
           op'.pc # "release" \/ op.i # i \/ y.urb \in {"idle", "doneno"},
           ~susp \/ ~Polls(y),
           client.pc = "idle" \/ y.urb # "doneno",
           client.kind # "gone" \/ y.urb \notin InDone,
           Polls(y) \/ susp \/ bus # "present" \/ y.failed \/ ~y.cb \/ (~Polls(dev[i]) /\ ~dev[i].failed)
    PROVE  Parts'
<1>1. \A j \in Dev : j # i => dev'[j] = dev[j] BY DEF OneIs
<1>2. dev'[i] = y /\ dev' \in [Dev -> DevType] BY DEF OneIs
<1>3. \A j \in Dev : Alike(dev[j], dev'[j]) BY <1>1, <1>2 DEF Alike
<1>4. Listed' = Listed /\ (WakeStatus' <=> WakeStatus)
  BY <1>2, <1>3, ListIs DEF Alike
<1>5. /\ op'.by = op.by /\ op'.i = op.i /\ (op.pc \notin Closing => op'.pc = op.pc)
      /\ op.pc \in Closing <=> op'.pc \in Closing
      /\ op'.pc = op.pc \/ op.i = i
  BY Known DEF OpType, Closing
<1>a. DevicesAre'
  BY <1>1, <1>2, <1>5 DEF AcmInv, DevicesAre, Used, Blank, Alike, HasRoom, Size
<1>b. OpPlace'
  <2>1. op.by # "none" => op.i \in Dev /\ Alike(dev[op.i], dev'[op.i])
    BY <1>3 DEF AcmInv, OpPlace
  <2>2. op.i = i => dev'[op.i] = y BY <1>2
  <2>3. op.i # i /\ op.by # "none" => dev'[op.i] = dev[op.i] BY <1>1, <2>1
  <2>4. op.pc # "none" => op.by # "none" BY DEF AcmInv, OpPlace
  <2>5. (op'.pc = "submit" => dev'[op.i].urb = "idle") /\ (op'.pc = "release" => dev'[op.i].urb \in {"idle", "doneno"})
    BY <1>5, <2>2, <2>3, <2>4 DEF AcmInv, OpPlace, Closing
  <2>6. client' = client /\ bus' = bus /\ susp' = susp /\ writer' = writer
    OBVIOUS
  <2> QED BY <1>5, <2>1, <2>4, <2>5, <2>6, Known DEF AcmInv, OpPlace, Alike, OpType, Closing
<1>c. Handle'
  <2>1. (op'.pc \in {"none", "find"} <=> op.pc \in {"none", "find"}) /\ (op = NoOp => op' = op)
    BY <1>5, Known DEF OpType, Closing, NoOp
  <2> QED BY <1>2, <1>3, <1>4, <2>1 DEF AcmInv, Handle, Alike
<1>d. Messages'
  <2>1. op'.pc \in {"none", "notif", "insert"} <=> op.pc \in {"none", "notif", "insert"}
    BY <1>5, Known DEF OpType, Closing
  <2> QED
    BY <1>1, <1>2, <1>4, <1>5, <2>1 DEF AcmInv, Messages, Polls, News, Suspends, Resumes, GoneNews
<1>e. ClientPlace'
  BY <1>1, <1>2, <1>3, <1>5, Known DEF AcmInv, ClientPlace, Alike, ClientType
<1>f. WriterPlace'
  BY <1>2, <1>3, Known DEF AcmInv, WriterPlace, Alike, Waits, WriterType
<1>g. WakeKnown'
  <2>1. Answered' <=> Answered
    BY <1>3, Known DEF Answered, AcmInv, WriterPlace, Alike, WriterType
  <2>2. Answered => dev'[writer.i].ctl = dev[writer.i].ctl
    BY <1>3 DEF Answered, AcmInv, WriterPlace, Alike
  <2>3. op.pc \in Closing => op.i \in Dev /\ dev'[op.i].wake = dev[op.i].wake
    BY <1>3 DEF AcmInv, OpPlace, Alike, Closing
  <2>4. \A j \in Dev : dev'[j].st = dev[j].st /\ dev'[j].wake = dev[j].wake
    BY <1>3 DEF Alike
  <2>5. writer' = writer /\ bus' = bus /\ wakes' = wakes OBVIOUS
  <2> QED BY <1>4, <1>5, <2>1, <2>2, <2>3, <2>4, <2>5 DEF AcmInv, WakeKnown
<1>h. Polling'
  <2>1. op'.pc = "submit" <=> op.pc = "submit"
    BY <1>5, Known DEF OpType, Closing
  <2> QED BY <1>1, <1>2, <1>5, <2>1 DEF AcmInv, Polling, Polls, Alike, Resumes
<1> QED BY <1>a, <1>b, <1>c, <1>d, <1>e, <1>f, <1>g, <1>h DEF Parts

\* in_xfer_cb(): the transfer has ended, with an error or not.
LEMMA EndedIs ==
    ASSUME NEW d \in DevType, Used(d), d.urb \in InDone
    PROVE  \E y \in DevType :
              /\ y = [d EXCEPT !.poll = FALSE, !.urb = "idle", !.len = 0, !.failed = @ \/ d.urb = "doneerr"]
              /\ Used(y) /\ Alike(d, y) /\ y.urb = "idle" /\ ~y.poll /\ y.pos = d.pos /\ y.num = d.num
              /\ (d.urb = "doneerr" => y.failed) /\ (d.urb # "doneerr" => y.failed = d.failed)
<1>1. PICK y : y = [d EXCEPT !.poll = FALSE, !.urb = "idle", !.len = 0, !.failed = @ \/ d.urb = "doneerr"]
  OBVIOUS
<1>4. PICK f \in BOOLEAN : f = (d.failed \/ d.urb = "doneerr") OBVIOUS
<1>5. y = [d EXCEPT !.poll = FALSE, !.urb = "idle", !.len = 0, !.failed = f]
  BY <1>1, <1>4, Zenon
<1>6. (d.urb = "doneerr" => f) /\ (d.urb # "doneerr" => f = d.failed)
  BY <1>4 DEF DevType
<1>2. /\ y \in DevType /\ Alike(d, y) /\ y.urb = "idle" /\ ~y.poll /\ y.pos = d.pos /\ y.num = d.num
      /\ (d.urb = "doneerr" => y.failed) /\ (d.urb # "doneerr" => y.failed = d.failed)
  <2>1. 0 \in 0 .. InBuffer + 1 BY ConstantsAre
  <2> QED BY <1>5, <1>6, <2>1 DEF DevType, Alike
<1>3. Used(y) BY <1>2 DEF Used, Alike, HasRoom
<1> QED BY <1>1, <1>2, <1>3

\* Data was received: the transfer is submitted again.
LEMMA ReceivedIs ==
    ASSUME AcmInv, NEW d \in DevType, Used(d), d.urb = "doneok", NEW kept \in BOOLEAN, NEW x \in DevType,
           Alike(d, x), x.failed = d.failed, x.urb = "idle", ~x.poll, x.pos = d.pos, x.num = d.num
    PROVE  \E y \in DevType :
              /\ y = Polled([Taken([x EXCEPT !.len = d.len], kept) EXCEPT !.len = 0])
              /\ Used(y) /\ Alike(d, y) /\ y.failed = d.failed
              /\ y.urb = IF bus = "present" THEN "flight" ELSE "idle"
<1>1. PICK e : e = [x EXCEPT !.len = d.len] OBVIOUS
<1>2. /\ e \in DevType /\ Alike(d, e) /\ e.failed = d.failed /\ e.urb = "idle" /\ ~e.poll
      /\ e.pos = d.pos /\ e.num = d.num /\ e.len = d.len
  BY <1>1 DEF DevType, Alike
<1>3. Used(e) /\ e.len <= e.num BY <1>2 DEF Used, Alike, HasRoom
<1>4. PICK t \in DevType : /\ t = Taken(e, kept) /\ Alike(e, t) /\ t.failed = e.failed
                           /\ t.urb = e.urb /\ t.poll = e.poll /\ HasRoom(t)
  BY <1>2, <1>3, TakenIs
<1>5. PICK u : u = [t EXCEPT !.len = 0] OBVIOUS
<1>10. /\ u \in DevType /\ Alike(t, u) /\ u.failed = t.failed /\ u.urb = t.urb /\ u.poll = t.poll
       /\ u.pos = t.pos /\ u.num = t.num
  <2>1. 0 \in 0 .. InBuffer + 1 BY ConstantsAre
  <2> QED BY <1>5, <2>1 DEF DevType, Alike
<1>6. /\ u \in DevType /\ Alike(d, u) /\ u.failed = d.failed /\ u.urb = "idle" /\ ~u.poll
      /\ u.pos = t.pos /\ u.num = t.num
  BY <1>2, <1>4, <1>10 DEF Alike
<1>7. Used(u) BY <1>4, <1>6 DEF Used, Alike, HasRoom
<1>8. PICK y \in DevType : /\ y = Polled(u) /\ Used(y) /\ Alike(u, y) /\ y.failed = u.failed
                           /\ y.urb = IF u.urb = "idle" /\ bus = "present" THEN "flight" ELSE u.urb
  BY <1>6, <1>7, PolledIs
<1>9. y = Polled([Taken([x EXCEPT !.len = d.len], kept) EXCEPT !.len = 0])
  BY <1>1, <1>4, <1>5, <1>8
<1> QED BY <1>6, <1>8, <1>9 DEF Alike

\* in_xfer_cb() and notif_xfer_cb()
LEMMA InXferCbKeeps ==
    ASSUME AcmInv, NEW i \in Dev, InXferCb(i)
    PROVE  AcmInv'
<1>1. /\ drv # "down" /\ client.pc = "idle" /\ dev[i].urb \in InDone
      /\ UNCHANGED <<hdl, op, client, writer, outside>>
  BY DEF InXferCb
<1>2. /\ UNCHANGED <<drv, bus, plugs, info, wakes, calls, env, hdl, op, client, writer>>
  BY <1>1 DEF outside, fixed
<1>3. Sound(dev[i]) /\ Used(dev[i]) /\ dev[i] \in DevType /\ dev[i].claimed
  BY <1>1, AllSound, KindsDiffer DEF Sound, InDone
<1>4. client.kind = "none" BY <1>1 DEF AcmInv, ClientPlace
<1>5. dev[i].urb = "doneok" => ~susp BY DEF AcmInv, Messages
<1>6. op.pc = "submit" => op.i # i BY <1>1 DEF AcmInv, OpPlace, InDone
<1>7. op.pc = "release" /\ op.i = i => dev[i].urb = "doneno"
  BY <1>1 DEF AcmInv, OpPlace, InDone
<1>8. crash' = crash BY <1>3, NothingFails, Zenon DEF InXferCb
<1>9. \E y \in DevType : /\ dev' = [dev EXCEPT ![i] = y] /\ Used(y) /\ Alike(dev[i], y)
                         /\ y.urb = IF dev[i].urb = "doneok" /\ bus = "present" THEN "flight" ELSE "idle"
                         /\ (dev[i].urb = "doneerr" => y.failed)
                         /\ (dev[i].urb # "doneerr" => y.failed = dev[i].failed)
  <2>1. PICK d : d = dev[i] OBVIOUS
  <2>2. PICK x : x = [d EXCEPT !.poll = FALSE, !.urb = "idle", !.len = 0, !.failed = @ \/ d.urb = "doneerr"]
    OBVIOUS
  <2>5. d \in DevType /\ Used(d) /\ d.urb \in InDone BY <1>1, <1>3, <2>1
  <2>6. /\ x \in DevType /\ Used(x) /\ Alike(d, x) /\ x.urb = "idle" /\ ~x.poll /\ x.pos = d.pos /\ x.num = d.num
        /\ (d.urb = "doneerr" => x.failed) /\ (d.urb # "doneerr" => x.failed = d.failed)
    <3>1. PICK y \in DevType :
              /\ y = [d EXCEPT !.poll = FALSE, !.urb = "idle", !.len = 0, !.failed = @ \/ d.urb = "doneerr"]
              /\ Used(y) /\ Alike(d, y) /\ y.urb = "idle" /\ ~y.poll /\ y.pos = d.pos /\ y.num = d.num
              /\ (d.urb = "doneerr" => y.failed) /\ (d.urb # "doneerr" => y.failed = d.failed)
      BY <2>5, EndedIs, Zenon
    <3>2. x = y BY <2>2, <3>1, Zenon
    <3> QED BY <3>1, <3>2
  <2>3. CASE d.urb = "doneok"
    <3>1. PICK kept \in {FALSE, "keep" \in env} :
             dev' = [dev EXCEPT ![i] = Polled([Taken([x EXCEPT !.len = d.len], kept) EXCEPT !.len = 0])]
      BY <2>1, <2>2, <2>3, Zenon DEF InXferCb
    <3>2. kept \in BOOLEAN
      <4>1. CASE kept = FALSE BY <4>1
      <4>2. CASE kept = ("keep" \in env) BY <4>2
      <4> QED BY <3>1, <4>1, <4>2, Zenon
    <3>3. PICK y \in DevType :
              /\ y = Polled([Taken([x EXCEPT !.len = d.len], kept) EXCEPT !.len = 0])
              /\ Used(y) /\ Alike(d, y) /\ y.failed = d.failed
              /\ y.urb = IF bus = "present" THEN "flight" ELSE "idle"
      BY <2>5, <2>6, <2>3, <3>2, ReceivedIs
    <3> QED BY <2>1, <2>3, <3>1, <3>3
  <2>4. CASE d.urb # "doneok"
    <3>1. dev' = [dev EXCEPT ![i] = x]
      BY <2>1, <2>2, <2>4, Zenon DEF InXferCb
    <3> QED BY <1>1, <2>1, <2>4, <2>6, <3>1 DEF InDone
  <2> QED BY <2>3, <2>4
<1>10. PICK y \in DevType :
          /\ dev' = [dev EXCEPT ![i] = y] /\ Used(y) /\ Alike(dev[i], y)
          /\ y.urb = IF dev[i].urb = "doneok" /\ bus = "present" THEN "flight" ELSE "idle"
          /\ (dev[i].urb = "doneerr" => y.failed) /\ (dev[i].urb # "doneerr" => y.failed = dev[i].failed)
  BY <1>9
<1>11. OneIs(i, y) BY <1>10, OneChanges
<1>12. UNCHANGED <<susp, msgs>>
  <2>1. ~(dev[i].urb = "doneok" /\ susp) BY <1>5
  <2>2. \E x : Woken(dev[i].urb = "doneok" /\ WakesPort(x))
    BY Zenon DEF InXferCb
  <2> QED BY <2>1, <2>2, Zenon DEF Woken, WakesPort
<1>13. Parts'
  <2>1. /\ y.urb # "flight" \/ bus = "present"
        /\ op.pc # "release" \/ op.i # i \/ y.urb \in {"idle", "doneno"}
        /\ ~susp \/ ~Polls(y)
        /\ y.urb # "doneno" /\ y.urb \notin InDone
    BY <1>5, <1>7, <1>10 DEF Polls, InDone
  <2>2. Polls(y) \/ susp \/ bus # "present" \/ y.failed \/ ~y.cb \/ (~Polls(dev[i]) /\ ~dev[i].failed)
    BY <1>1, <1>10 DEF Polls, InDone
  <2> QED BY <1>2, <1>3, <1>6, <1>10, <1>11, <1>12, <2>1, <2>2, PollMoves
<1>14. TypeOK' BY <1>2, <1>11, <1>12, Known, TypesWillBe DEF OneIs
<1> QED BY <1>2, <1>8, <1>13, <1>14, InvIs

-----------------------------------------------------------------------------
(* The writing task *)

\* All but the OUT and the control transfer, and what is known of the remote wakeup, is
\* the same.
Steady(x, y) ==
    /\ y.st = x.st /\ y.claimed = x.claimed /\ y.cb = x.cb /\ y.told = x.told /\ y.failed = x.failed
    /\ y.poll = x.poll /\ y.urb = x.urb /\ y.pos = x.pos /\ y.num = x.num /\ y.len = x.len

\* A write resumes a suspended port, while nothing else happens.
Awakens ==
    susp /\ susp' = FALSE /\ msgs' = <<"res">> /\ ClientIdle /\ op.by = "none" /\ drv = "up"

\* What the writing task does to open pseudo-devices concerns only the writing task.
LEMMA XfersMove ==
    ASSUME AcmInv, dev' \in [Dev -> DevType],
           \A j \in Dev : Steady(dev[j], dev'[j]) /\ (dev[j].st = "listed" \/ dev'[j] = dev[j]),
           UNCHANGED <<drv, bus, plugs, hdl, info, op, client, env>>,
           UNCHANGED <<susp, msgs>> \/ Awakens,
           op.pc \notin Closing \/ writer'.i # op.i,
           WriterPlace', WakeKnown'
    PROVE  Parts'
<1>1. Listed' = Listed BY DEF Listed, Steady
<1>a. DevicesAre'
  <2> SUFFICES ASSUME NEW j \in Dev
               PROVE  /\ Blank(dev[j])' \/ Used(dev[j])'
                      /\ dev'[j].st = "opening" => op.i = j
                      /\ dev'[j].claimed => info[j].ok
                      /\ dev'[j].urb = "flight" => bus = "present"
                      /\ dev'[j].told => bus = "gone"
    BY DEF DevicesAre
  <2>1. /\ dev[j].st = "opening" => op.i = j
        /\ dev[j].claimed => info[j].ok
        /\ dev[j].urb = "flight" => bus = "present"
        /\ dev[j].told => bus = "gone"
    BY DEF AcmInv, DevicesAre
  <2>2. Steady(dev[j], dev'[j]) OBVIOUS
  <2>3. Blank(dev[j])' \/ Used(dev[j])'
    <3>1. CASE dev'[j] = dev[j]
      BY <3>1 DEF AcmInv, DevicesAre, Blank, Used, HasRoom, Size
    <3>2. CASE dev[j].st = "listed"
      <4>1. Used(dev[j]) BY <3>2, AllSound, KindsDiffer
      <4> QED BY <2>2, <3>2, <4>1 DEF Used, HasRoom, Steady, Size
    <3> QED BY <3>1, <3>2
  <2> QED BY <2>1, <2>2, <2>3 DEF Steady
<1>b. OpPlace'
  <2>1. op.by # "none" => op.i \in Dev /\ Steady(dev[op.i], dev'[op.i])
    BY DEF AcmInv, OpPlace
  <2>2. op.pc # "none" => op.by # "none" BY DEF AcmInv, OpPlace
  <2>3. op' = op /\ client' = client /\ bus' = bus /\ (susp' = susp \/ susp' = FALSE)
    BY DEF Awakens
  <2> QED BY <2>1, <2>2, <2>3, Known DEF AcmInv, OpPlace, Steady, OpType, Closing
<1>c. Handle'
  <2>1. drv # "up" => msgs' = msgs BY DEF Awakens
  <2> QED BY <1>1, <2>1 DEF AcmInv, Handle, Steady
<1>2. Awakens => client.pc = "idle" /\ client.kind = "none" /\ Resumes' /\ ~Suspends' /\ ~GoneNews'
  <2>1. <<"res">> # <<>> /\ <<"res">> # <<"susp">> /\ <<"res">> # <<"susp", "res">> /\ Head(<<"res">>) = "res"
    OBVIOUS
  <2> QED BY <2>1, IdleIs DEF Awakens, Resumes, Suspends, GoneNews
<1>d. Messages'
  <2>1. CASE UNCHANGED <<susp, msgs>>
    BY <1>1, <2>1 DEF AcmInv, Messages, News, Suspends, Resumes, GoneNews, Steady
  <2>2. CASE Awakens
    <3>1. "suspend" \in env /\ bus = "present" /\ op.pc = "none"
      BY <2>2 DEF Awakens, AcmInv, Messages, OpPlace
    <3>2. susp' = FALSE BY <2>2 DEF Awakens
    <3> QED BY <1>2, <2>2, <3>1, <3>2 DEF Messages
  <2> QED BY <2>1, <2>2
<1>e. ClientPlace'
  <2>1. client.kind # "none" /\ client.cur # 0 => client.cur \in Dev
    BY Known DEF ClientType
  <2>2. client.pc = "cb" => client.i \in Dev BY DEF AcmInv, ClientPlace
  <2> QED BY <2>1, <2>2 DEF AcmInv, ClientPlace, Steady
<1>h. Polling'
  <2>1. CASE UNCHANGED <<susp, msgs>>
    BY <2>1 DEF AcmInv, Polling, Polls, Steady, Resumes
  <2>2. CASE Awakens
    <3>1. \A j \in Dev : dev[j].claimed => dev[j].st = "listed"
      <4>1. op.i = 0 BY <2>2 DEF Awakens, AcmInv, OpPlace
      <4> QED BY <4>1, AllSound, KindsDiffer, ConstantsAre, Known DEF AcmInv, DevicesAre, DevType
    <3> QED BY <1>2, <2>2, <3>1 DEF Polling, Steady
  <2> QED BY <2>1, <2>2
<1> QED BY <1>a, <1>b, <1>c, <1>d, <1>e, <1>h DEF Parts

\* A transfer of a pseudo-device becomes another.
LEMMA XferIs ==
    ASSUME NEW x \in DevType, NEW k \in Transfers, NEW t \in XferType
    PROVE  \E y \in DevType : /\ y = [x EXCEPT ![k] = t] /\ Steady(x, y) /\ y.wake = x.wake
                              /\ (k = "out" => y.out = t /\ y.ctl = x.ctl)
                              /\ (k = "ctl" => y.ctl = t /\ y.out = x.out)
<1>1. CASE k = "out"
  <2>1. PICK y : y = [x EXCEPT !.out = t] OBVIOUS
  <2>2. y \in DevType /\ Steady(x, y) /\ y.wake = x.wake /\ y.out = t /\ y.ctl = x.ctl
    BY <2>1 DEF DevType, Steady
  <2> QED BY <1>1, <2>1, <2>2
<1>2. CASE k = "ctl"
  <2>1. PICK y : y = [x EXCEPT !.ctl = t] OBVIOUS
  <2>2. y \in DevType /\ Steady(x, y) /\ y.wake = x.wake /\ y.ctl = t /\ y.out = x.out
    BY <2>1 DEF DevType, Steady
  <2> QED BY <1>2, <2>1, <2>2
<1> QED BY <1>1, <1>2 DEF Transfers

\* ... of one pseudo-device, while the others stay as they are.
XferOf(i, k, t) ==
    /\ dev' \in [Dev -> DevType]
    /\ \A j \in Dev : j # i => dev'[j] = dev[j]
    /\ Steady(dev[i], dev'[i]) /\ dev'[i].wake = dev[i].wake
    /\ k = "out" => dev'[i].out = t /\ dev'[i].ctl = dev[i].ctl
    /\ k = "ctl" => dev'[i].ctl = t /\ dev'[i].out = dev[i].out

\* ... as it is when the transfer of one is replaced.
LEMMA XferChanges ==
    ASSUME AcmInv, NEW i \in Dev, NEW k \in Transfers, NEW t \in XferType, dev' = [dev EXCEPT ![i][k] = t]
    PROVE  /\ XferOf(i, k, t) /\ (WakeStatus' <=> WakeStatus)
           /\ \A j \in Dev : Steady(dev[j], dev'[j]) /\ dev'[j].wake = dev[j].wake
<1>1. PICK y \in DevType : /\ y = [dev[i] EXCEPT ![k] = t] /\ Steady(dev[i], y) /\ y.wake = dev[i].wake
                           /\ (k = "out" => y.out = t /\ y.ctl = dev[i].ctl)
                           /\ (k = "ctl" => y.ctl = t /\ y.out = dev[i].out)
  BY XferIs, Known
<1>2. dev' = [dev EXCEPT ![i] = y] BY <1>1, Zenon
<1>3. OneIs(i, y) BY <1>2, OneChanges
<1>4. XferOf(i, k, t) BY <1>1, <1>3 DEF OneIs, XferOf
<1>5. \A j \in Dev : Steady(dev[j], dev'[j]) /\ dev'[j].wake = dev[j].wake
  BY <1>1, <1>3 DEF OneIs, Steady
<1>6. WakeStatus' <=> WakeStatus BY <1>3, <1>5, ListIs DEF OneIs, Steady
<1> QED BY <1>4, <1>5, <1>6

\* Only an open pseudo-device has a transfer under way.
LEMMA XferIsListed ==
    ASSUME AcmInv, NEW i \in Dev, dev[i].out.urb # "idle" \/ dev[i].ctl.urb # "idle" \/ dev[i].out.sem \/ dev[i].ctl.sem
    PROVE  dev[i].st = "listed"
BY AllSound, KindsDiffer

\* A step of the writing task, or of its transfers, of which nobody else need know
LEMMA XfersKeep ==
    ASSUME AcmInv, dev' \in [Dev -> DevType],
           \A j \in Dev : Steady(dev[j], dev'[j]) /\ (dev[j].st = "listed" \/ dev'[j] = dev[j]),
           UNCHANGED <<drv, bus, plugs, hdl, info, op, client, env>>,
           UNCHANGED <<susp, msgs>> \/ Awakens,
           op.pc \notin Closing \/ writer'.i # op.i,
           WriterPlace', WakeKnown', wakes' \in BOOLEAN, writer' \in WriterType, calls' \in 0..MaxCalls, crash' = crash
    PROVE  AcmInv'
<1>1. Parts' BY XfersMove
<1>2. TypeOK'
  <2>1. msgs' \in Seq(News4) /\ Len(msgs') <= QueueLen /\ susp' \in BOOLEAN
    <3>1. <<"res">> \in Seq(News4) /\ Len(<<"res">>) = 1 BY DEF News4
    <3>2. CASE UNCHANGED <<susp, msgs>> BY <3>2, Known
    <3>3. CASE Awakens
      <4>1. msgs' = <<"res">> /\ susp' = FALSE BY <3>3 DEF Awakens
      <4>2. 1 <= QueueLen BY Spared, ConstantsAre
      <4>3. Len(msgs') <= QueueLen BY <3>1, <4>1, <4>2, Zenon
      <4> QED BY <3>1, <4>1, <4>3
    <3> QED BY <3>2, <3>3
  <2> QED BY <2>1, Known, TypesWillBe
<1> QED BY <1>1, <1>2, InvIs

\* ... of one transfer
LEMMA XferSteps ==
    ASSUME AcmInv, NEW i \in Dev, NEW k \in Transfers, NEW t \in XferType, dev' = [dev EXCEPT ![i][k] = t],
           dev[i].st = "listed",
           UNCHANGED <<drv, bus, plugs, hdl, info, op, client, env>>,
           UNCHANGED <<susp, msgs>> \/ Awakens,
           op.pc \notin Closing \/ writer'.i # op.i,
           WriterPlace', WakeKnown', wakes' \in BOOLEAN, writer' \in WriterType, calls' \in 0..MaxCalls, crash' = crash
    PROVE  AcmInv'
<1>1. XferOf(i, k, t) /\ \A j \in Dev : Steady(dev[j], dev'[j])
  BY XferChanges
<1>2. dev' \in [Dev -> DevType] /\ \A j \in Dev : dev[j].st = "listed" \/ dev'[j] = dev[j]
  BY <1>1 DEF XferOf
<1> QED BY <1>1, <1>2, XfersKeep

\* The callback gives the semaphore.
LEMMA XferEnds ==
    ASSUME NEW e \in XferType
    PROVE  /\ [[e EXCEPT !.urb = "idle"] EXCEPT !.sem = TRUE] \in XferType
           /\ [[e EXCEPT !.urb = "idle"] EXCEPT !.sem = TRUE].urb = "idle"
           /\ [[e EXCEPT !.urb = "idle"] EXCEPT !.sem = TRUE].sem = TRUE
           /\ [[e EXCEPT !.urb = "idle"] EXCEPT !.sem = TRUE].want = e.want
           /\ [[e EXCEPT !.urb = "idle"] EXCEPT !.sem = TRUE].ok = e.ok
<1>1. PICK f : f = [e EXCEPT !.urb = "idle"] OBVIOUS
<1>2. f \in XferType /\ f.urb = "idle" /\ f.want = e.want /\ f.ok = e.ok
  BY <1>1 DEF XferType
<1>3. PICK t : t = [f EXCEPT !.sem = TRUE] OBVIOUS
<1>4. t \in XferType /\ t.urb = "idle" /\ t.sem = TRUE /\ t.want = e.want /\ t.ok = e.ok
  BY <1>2, <1>3 DEF XferType
<1> QED BY <1>1, <1>3, <1>4

\* out_xfer_cb() of the OUT transfer
LEMMA OutCbKeeps ==
    ASSUME AcmInv, NEW i \in Dev, OutXferCb(i, "out")
    PROVE  AcmInv'
<1>1. dev[i].out.urb = "done" /\ UNCHANGED <<susp, msgs, hdl, op, client, writer, crash, outside>>
  BY DEF OutXferCb
<1>2. UNCHANGED <<drv, bus, plugs, susp, msgs, hdl, info, wakes, op, client, writer, calls, crash, env>>
  BY <1>1 DEF outside, fixed
<1>3. PICK t : t = [[dev[i]["out"] EXCEPT !.urb = "idle"] EXCEPT !.sem = TRUE]
  OBVIOUS
<1>4. t \in XferType /\ t.urb = "idle" /\ t.sem = TRUE /\ t.want = dev[i].out.want /\ t.ok = dev[i].out.ok
  BY <1>3, XferEnds, Known DEF DevType
<1>5. dev' = [dev EXCEPT ![i]["out"] = t] BY <1>3, Zenon DEF OutXferCb
<1>6. dev[i].st = "listed" BY <1>1, XferIsListed
<1>7. XferOf(i, "out", t) /\ (WakeStatus' <=> WakeStatus) /\ \A j \in Dev : dev'[j].wake = dev[j].wake /\ Steady(dev[j], dev'[j])
  BY <1>4, <1>5, XferChanges DEF Transfers
<1>8. /\ dev'[i].out = t /\ dev'[i].ctl = dev[i].ctl /\ Steady(dev[i], dev'[i])
      /\ \A j \in Dev : j # i => dev'[j] = dev[j]
  BY <1>7 DEF XferOf
<1>9. WriterPlace'
  BY <1>2, <1>4, <1>8 DEF AcmInv, WriterPlace, Waits, Steady
<1>10. WakeKnown'
  <2>1. \A j \in Dev : dev'[j].ctl = dev[j].ctl /\ dev'[j].st = dev[j].st
    BY <1>8 DEF Steady
  <2>2. writer.pc = "wait" => dev'[writer.i].ctl = dev[writer.i].ctl
    BY <2>1 DEF AcmInv, WriterPlace
  <2>3. Answered' <=> Answered BY <1>2, <2>2 DEF Answered
  <2>4. op.pc \in Closing => op.i \in Dev BY DEF AcmInv, OpPlace, Closing
  <2> QED BY <1>2, <1>7, <2>1, <2>2, <2>3, <2>4 DEF AcmInv, WakeKnown, Answered
<1>11. op.pc \notin Closing \/ writer'.i # op.i BY <1>2 DEF AcmInv, OpPlace
<1>12. AcmInv'
  BY <1>2, <1>4, <1>5, <1>6, <1>9, <1>10, <1>11, Known, XferSteps DEF Transfers
<1> QED BY <1>12

\* ... of the control transfer
LEMMA CtlCbKeeps ==
    ASSUME AcmInv, NEW i \in Dev, OutXferCb(i, "ctl")
    PROVE  AcmInv'
<1>1. dev[i].ctl.urb = "done" /\ UNCHANGED <<susp, msgs, hdl, op, client, writer, crash, outside>>
  BY DEF OutXferCb
<1>2. UNCHANGED <<drv, bus, plugs, susp, msgs, hdl, info, wakes, op, client, writer, calls, crash, env>>
  BY <1>1 DEF outside, fixed
<1>3. PICK t : t = [[dev[i]["ctl"] EXCEPT !.urb = "idle"] EXCEPT !.sem = TRUE]
  OBVIOUS
<1>4. t \in XferType /\ t.urb = "idle" /\ t.sem = TRUE /\ t.want = dev[i].ctl.want /\ t.ok = dev[i].ctl.ok
  BY <1>3, XferEnds, Known DEF DevType
<1>5. dev' = [dev EXCEPT ![i]["ctl"] = t] BY <1>3, Zenon DEF OutXferCb
<1>6. dev[i].st = "listed" BY <1>1, XferIsListed
<1>7. XferOf(i, "ctl", t) /\ (WakeStatus' <=> WakeStatus) /\ \A j \in Dev : dev'[j].wake = dev[j].wake /\ Steady(dev[j], dev'[j])
  BY <1>4, <1>5, XferChanges DEF Transfers
<1>8. /\ dev'[i].ctl = t /\ dev'[i].out = dev[i].out /\ Steady(dev[i], dev'[i])
      /\ \A j \in Dev : j # i => dev'[j] = dev[j]
  BY <1>7 DEF XferOf
<1>9. WriterPlace'
  BY <1>1, <1>2, <1>4, <1>8 DEF AcmInv, WriterPlace, Waits, Steady
<1>10. WakeKnown'
  <2>1. \A j \in Dev : dev'[j].ctl.ok = dev[j].ctl.ok /\ dev'[j].ctl.want = dev[j].ctl.want /\ dev'[j].st = dev[j].st
    BY <1>4, <1>8 DEF Steady
  <2>2. writer.pc = "wait" => writer.i \in Dev BY DEF AcmInv, WriterPlace
  <2>3. Answered' <=> Answered BY <1>2, <2>1, <2>2 DEF Answered
  <2>4. op.pc \in Closing => op.i \in Dev BY DEF AcmInv, OpPlace, Closing
  <2> QED BY <1>2, <1>7, <2>1, <2>2, <2>3, <2>4 DEF AcmInv, WakeKnown, Answered
<1>11. op.pc \notin Closing \/ writer'.i # op.i BY <1>2 DEF AcmInv, OpPlace
<1>12. AcmInv'
  BY <1>2, <1>4, <1>5, <1>6, <1>9, <1>10, <1>11, Known, XferSteps DEF Transfers
<1> QED BY <1>12

\* The device answers: the transfer is done.
LEMMA XferDone ==
    ASSUME NEW e \in XferType, NEW ok \in BOOLEAN
    PROVE  \E t \in XferType : /\ t = [[e EXCEPT !.urb = "done"] EXCEPT !.ok = ok]
                               /\ t.urb = "done" /\ t.ok = ok /\ t.sem = e.sem /\ t.want = e.want
<1>1. PICK f : f = [e EXCEPT !.urb = "done"] OBVIOUS
<1>2. f \in XferType /\ f.urb = "done" /\ f.want = e.want /\ f.sem = e.sem
  BY <1>1 DEF XferType
<1>3. PICK t : t = [f EXCEPT !.ok = ok] OBVIOUS
<1>4. t \in XferType /\ t.urb = "done" /\ t.ok = ok /\ t.want = e.want /\ t.sem = e.sem
  BY <1>2, <1>3 DEF XferType
<1> QED BY <1>1, <1>3, <1>4

\* The device takes what was written.
LEMMA AnswerOutKeeps ==
    ASSUME AcmInv, NEW i \in Dev, Answer(i, "out")
    PROVE  AcmInv'
<1>1. dev[i].out.urb = "flight" /\ UNCHANGED <<bus, plugs, susp, msgs, hdl>> /\ Calm
  BY DEF Answer
<1>2. UNCHANGED <<drv, bus, plugs, susp, msgs, hdl, info, op, client, writer, calls, crash, env>>
  BY <1>1 DEF Calm, fixed
<1>3. dev[i].out \in XferType /\ dev[i].out.want = "none"
  BY Known DEF AcmInv, WriterPlace, DevType
<1>4. PICK ok \in {TRUE, ~("error" \in env /\ dev[i]["out"].want # "none")} :
         /\ dev' = [dev EXCEPT ![i]["out"].urb = "done", ![i]["out"].ok = ok]
         /\ wakes' = IF ok /\ dev[i]["out"].want # "none" THEN dev[i]["out"].want = "on" ELSE wakes
  BY Zenon DEF Answer
<1>5. ok \in BOOLEAN /\ wakes' = wakes BY <1>3, <1>4
<1>6. PICK t \in XferType : /\ t = [[dev[i]["out"] EXCEPT !.urb = "done"] EXCEPT !.ok = ok]
                            /\ t.urb = "done" /\ t.sem = dev[i].out.sem /\ t.want = dev[i].out.want
  BY <1>3, <1>5, XferDone
<1>7. dev' = [dev EXCEPT ![i]["out"] = t] BY <1>4, <1>6, Zenon
<1>8. XferOf(i, "out", t) /\ (WakeStatus' <=> WakeStatus) /\ \A j \in Dev : dev'[j].wake = dev[j].wake /\ Steady(dev[j], dev'[j])
  BY <1>7, XferChanges DEF Transfers
<1>9. /\ dev'[i].out = t /\ dev'[i].ctl = dev[i].ctl /\ Steady(dev[i], dev'[i])
      /\ \A j \in Dev : j # i => dev'[j] = dev[j]
  BY <1>8 DEF XferOf
<1>10. dev[i].st = "listed" BY <1>1, XferIsListed
<1>11. ~(dev[i].out.sem /\ Waits(i, "out")) BY <1>1 DEF AcmInv, WriterPlace
<1>12. WriterPlace'
  <2>1. writer' = writer /\ env' = env BY <1>2
  <2>2. \A j \in Dev : dev'[j].ctl = dev[j].ctl /\ dev'[j].st = dev[j].st
    BY <1>9 DEF Steady
  <2>3. dev'[i].out.urb = "done" /\ dev'[i].out.sem = dev[i].out.sem /\ dev'[i].out.want = "none" /\ "out" \in env
    BY <1>1, <1>3, <1>6, <1>9 DEF AcmInv, WriterPlace
  <2>4. \A j \in Dev : /\ dev'[j].out.want = "none"
                       /\ dev'[j].out.urb = "flight" => Waits(j, "out")
                       /\ dev'[j].out.urb # "idle" => "out" \in env
                       /\ dev'[j].out.sem /\ Waits(j, "out") => dev'[j].out.urb = "idle"
    BY <1>9, <1>11, <2>3 DEF AcmInv, WriterPlace
  <2>5. \A j \in Dev : (Waits(j, "out")' <=> Waits(j, "out")) /\ (Waits(j, "ctl")' <=> Waits(j, "ctl"))
    BY <2>1 DEF Waits
  <2>6. writer.pc = "wait" => writer.i \in Dev /\ dev'[writer.i].st = "listed" /\ dev'[writer.i].ctl = dev[writer.i].ctl
    BY <2>2 DEF AcmInv, WriterPlace
  <2>7. \A j \in Dev : /\ dev'[j].ctl.urb # "idle" \/ dev'[j].ctl.sem => Waits(j, "ctl")
                       /\ dev'[j].ctl.sem => dev'[j].ctl.urb = "idle"
                       /\ dev'[j].ctl.urb = "flight" \/ ~Waits(j, "ctl") => ~dev'[j].ctl.ok
    BY <2>2 DEF AcmInv, WriterPlace
  <2>8. /\ writer'.pc = "idle" <=> writer'.i = 0
        /\ writer'.pc = "wait" => writer'.i \in Dev /\ dev'[writer'.i].st = "listed"
        /\ writer'.pc = "wait" => env' \cap ({"out"} \cup Asks) # {}
        /\ writer'.pc = "wait" /\ writer'.k = "ctl" =>
              env' \cap Asks # {} /\ (dev'[writer'.i].ctl.urb # "idle" \/ dev'[writer'.i].ctl.sem)
    BY <2>1, <2>6 DEF AcmInv, WriterPlace
  <2> QED BY <2>1, <2>4, <2>7, <2>8 DEF WriterPlace, Waits
<1>13. WakeKnown'
  <2>1. \A j \in Dev : dev'[j].ctl = dev[j].ctl /\ dev'[j].st = dev[j].st
    BY <1>9 DEF Steady
  <2>2. writer.pc = "wait" => dev'[writer.i].ctl = dev[writer.i].ctl
    BY <2>1 DEF AcmInv, WriterPlace
  <2>3. Answered' <=> Answered BY <1>2, <2>2 DEF Answered
  <2>4. op.pc \in Closing => op.i \in Dev BY DEF AcmInv, OpPlace, Closing
  <2> QED BY <1>2, <1>5, <1>8, <2>1, <2>2, <2>3, <2>4 DEF AcmInv, WakeKnown, Answered
<1>14. op.pc \notin Closing \/ writer'.i # op.i BY <1>2 DEF AcmInv, OpPlace
<1>15. AcmInv'
  BY <1>2, <1>5, <1>7, <1>10, <1>12, <1>13, <1>14, Known, XferSteps DEF Transfers
<1> QED BY <1>15

\* ... or answers a request, or refuses one, and its remote wakeup is enabled or not.
LEMMA AnswerCtlKeeps ==
    ASSUME AcmInv, NEW i \in Dev, Answer(i, "ctl")
    PROVE  AcmInv'
<1>1. dev[i].ctl.urb = "flight" /\ UNCHANGED <<bus, plugs, susp, msgs, hdl>> /\ Calm /\ bus = "present"
  BY DEF Answer
<1>2. UNCHANGED <<drv, bus, plugs, susp, msgs, hdl, info, op, client, writer, calls, crash, env>>
  BY <1>1 DEF Calm, fixed
<1>3. dev[i].ctl \in XferType /\ Waits(i, "ctl") /\ ~dev[i].ctl.ok /\ ~dev[i].ctl.sem
  BY <1>1, Known DEF AcmInv, WriterPlace, DevType
<1>4. PICK ok \in {TRUE, ~("error" \in env /\ dev[i]["ctl"].want # "none")} :
         /\ dev' = [dev EXCEPT ![i]["ctl"].urb = "done", ![i]["ctl"].ok = ok]
         /\ wakes' = IF ok /\ dev[i]["ctl"].want # "none" THEN dev[i]["ctl"].want = "on" ELSE wakes
  BY Zenon DEF Answer
<1>5. ok \in BOOLEAN /\ wakes' \in BOOLEAN BY <1>4, Known
<1>6. PICK t \in XferType : /\ t = [[dev[i]["ctl"] EXCEPT !.urb = "done"] EXCEPT !.ok = ok]
                            /\ t.urb = "done" /\ t.ok = ok /\ t.sem = dev[i].ctl.sem /\ t.want = dev[i].ctl.want
  BY <1>3, <1>5, XferDone
<1>7. dev' = [dev EXCEPT ![i]["ctl"] = t] BY <1>4, <1>6, Zenon
<1>8. XferOf(i, "ctl", t) /\ (WakeStatus' <=> WakeStatus) /\ \A j \in Dev : dev'[j].wake = dev[j].wake /\ Steady(dev[j], dev'[j])
  BY <1>7, XferChanges DEF Transfers
<1>9. /\ dev'[i].ctl = t /\ dev'[i].out = dev[i].out /\ Steady(dev[i], dev'[i])
      /\ \A j \in Dev : j # i => dev'[j] = dev[j]
  BY <1>8 DEF XferOf
<1>10. dev[i].st = "listed" BY <1>1, XferIsListed
<1>12. WriterPlace'
  <2>1. writer' = writer /\ env' = env BY <1>2
  <2>2. \A j \in Dev : dev'[j].out = dev[j].out /\ dev'[j].st = dev[j].st
    BY <1>9 DEF Steady
  <2>3. dev'[i].ctl.urb = "done" /\ ~dev'[i].ctl.sem BY <1>3, <1>6, <1>9
  <2>4. \A j \in Dev : /\ dev'[j].ctl.urb # "idle" \/ dev'[j].ctl.sem => Waits(j, "ctl")
                       /\ dev'[j].ctl.sem => dev'[j].ctl.urb = "idle"
                       /\ dev'[j].ctl.urb = "flight" \/ ~Waits(j, "ctl") => ~dev'[j].ctl.ok
    BY <1>3, <1>9, <2>3 DEF AcmInv, WriterPlace
  <2>5. writer.pc = "wait" /\ writer.k = "ctl" => env \cap Asks # {} /\ writer.i = i
    BY <1>3 DEF AcmInv, WriterPlace, Waits
  <2>6. \A j \in Dev : (Waits(j, "out")' <=> Waits(j, "out")) /\ (Waits(j, "ctl")' <=> Waits(j, "ctl"))
    BY <2>1 DEF Waits
  <2>7. writer.pc = "wait" => writer.i \in Dev /\ dev'[writer.i].st = "listed"
    BY <2>2 DEF AcmInv, WriterPlace
  <2>8. \A j \in Dev : /\ dev'[j].out.want = "none"
                       /\ dev'[j].out.urb = "flight" => Waits(j, "out")
                       /\ dev'[j].out.urb # "idle" => "out" \in env
                       /\ dev'[j].out.sem /\ Waits(j, "out") => dev'[j].out.urb = "idle"
    BY <2>2 DEF AcmInv, WriterPlace
  <2>9. /\ writer'.pc = "idle" <=> writer'.i = 0
        /\ writer'.pc = "wait" => writer'.i \in Dev /\ dev'[writer'.i].st = "listed"
        /\ writer'.pc = "wait" => env' \cap ({"out"} \cup Asks) # {}
        /\ writer'.pc = "wait" /\ writer'.k = "ctl" =>
              env' \cap Asks # {} /\ (dev'[writer'.i].ctl.urb # "idle" \/ dev'[writer'.i].ctl.sem)
    BY <2>1, <2>3, <2>5, <2>7 DEF AcmInv, WriterPlace
  <2> QED BY <2>1, <2>4, <2>8, <2>9 DEF WriterPlace, Waits
<1>13. WakeKnown'
  <2>1. writer.pc = "wait" /\ writer.i = i /\ writer.k = "ctl" /\ ~Answered
    BY <1>3 DEF Waits, Answered
  <2>2. Answered' <=> ok /\ dev[i].ctl.want # "none"
    BY <1>2, <1>6, <1>9, <2>1 DEF Answered
  <2>3. wakes' = IF ok /\ dev[i].ctl.want # "none" THEN dev[i].ctl.want = "on" ELSE wakes
    BY <1>4
  <2>4. op.pc \in Closing => op.i \in Dev BY DEF AcmInv, OpPlace, Closing
  <2>5. \A j \in Dev : dev'[j].st = dev[j].st /\ dev'[j].wake = dev[j].wake
    BY <1>8 DEF Steady
  <2>6. (wakes <=> WakeStatus) /\ dev'[writer'.i].ctl.want = dev[i].ctl.want
    BY <1>1, <1>2, <1>6, <1>9, <2>1 DEF AcmInv, WakeKnown
  <2>7. op' = op BY <1>2
  <2>8. op.pc \in Closing /\ dev[op.i].wake => \E j \in Dev : j # op.i /\ dev[j].st = "listed" /\ dev[j].wake
    BY <1>1, <2>1 DEF AcmInv, WakeKnown
  <2>9. /\ Answered' => (wakes' <=> dev[i].ctl.want = "on")
        /\ ~Answered' => (wakes' <=> WakeStatus')
    BY <1>8, <2>2, <2>3, <2>6
  <2>10. op.pc \in Closing /\ dev'[op.i].wake => \E j \in Dev : j # op.i /\ dev'[j].st = "listed" /\ dev'[j].wake
    BY <2>4, <2>5, <2>8
  <2> QED BY <2>6, <2>7, <2>9, <2>10 DEF WakeKnown
<1>14. op.pc \notin Closing \/ writer'.i # op.i BY <1>2 DEF AcmInv, OpPlace
<1>15. AcmInv'
  BY <1>2, <1>5, <1>7, <1>10, <1>12, <1>13, <1>14, Known, XferSteps DEF Transfers
<1> QED BY <1>15

\* The writing task is not at work while a callback waits for a task.
LEMMA WriterIsSpared ==
    ASSUME AcmInv, Others, env \cap ({"out"} \cup Asks) # {}
    PROVE  ClientIdle
BY OthersAre, Spared DEF Asks

\* Nobody waits: no transfer is in flight, and no answer is left.
NoneWaits ==
    /\ writer'.pc = "idle" /\ writer'.i = 0 /\ env' = env
    /\ \A j \in Dev : /\ dev'[j].out.want = "none" /\ dev'[j].out.urb # "flight"
                      /\ dev'[j].out.urb # "idle" => "out" \in env
                      /\ dev'[j].ctl.urb = "idle" /\ ~dev'[j].ctl.sem /\ ~dev'[j].ctl.ok

\* ... and what that is worth
LEMMA NoneWaitsIs ==
    ASSUME NoneWaits
    PROVE  WriterPlace' /\ ~Answered'
<1>1. \A j \in Dev : ~Waits(j, "out")' /\ ~Waits(j, "ctl")'
  BY DEF NoneWaits, Waits
<1>2. ~Answered' BY DEF NoneWaits, Answered
<1> QED BY <1>1, <1>2 DEF NoneWaits, WriterPlace

\* The wait times out: a write resets its endpoint.
LEMMA WriteTimeoutKeeps ==
    ASSUME AcmInv, WriteTimeout
    PROVE  AcmInv'
<1>1. /\ writer.pc = "wait" /\ "slow" \in env /\ WriteIdle
      /\ UNCHANGED <<susp, msgs, hdl, op, client, crash, outside>>
  BY DEF WriteTimeout
<1>2. UNCHANGED <<drv, bus, plugs, susp, msgs, hdl, info, wakes, op, client, calls, crash, env>>
  BY <1>1 DEF outside, fixed
<1>3. PICK i \in Dev : writer.i = i /\ dev[i].st = "listed" /\ writer.k = "out"
  BY <1>1, Spared, Known DEF AcmInv, WriterPlace, WriterType, Transfers
<1>4. dev' = [dev EXCEPT ![i] = FlushedXfer(@, "out")]
  BY <1>1, <1>3, Zenon DEF WriteTimeout
<1>5. PICK t \in XferType : /\ dev' = [dev EXCEPT ![i]["out"] = t] /\ t.urb # "flight"
                            /\ t.want = "none" /\ (t.urb # "idle" => "out" \in env)
  <2>1. dev[i]["out"] \in XferType /\ dev[i]["out"].want = "none" /\ (dev[i].out.urb # "idle" => "out" \in env)
    BY Known DEF AcmInv, WriterPlace, DevType
  <2>2. CASE dev[i]["out"].urb = "flight"
    <3>1. PICK t : t = [dev[i]["out"] EXCEPT !.urb = "done"] OBVIOUS
    <3>2. t \in XferType /\ t.urb = "done" /\ t.want = dev[i]["out"].want
      BY <2>1, <3>1 DEF XferType
    <3>3. dev' = [dev EXCEPT ![i]["out"] = t]
      BY <1>4, <2>2, <3>1, Zenon DEF FlushedXfer
    <3> QED BY <2>1, <2>2, <3>2, <3>3
  <2>3. CASE dev[i]["out"].urb # "flight"
    <3>1. dev' = [dev EXCEPT ![i] = dev[i]]
      BY <1>4, <2>3, Zenon DEF FlushedXfer
    <3>2. PICK y \in DevType : y = [dev[i] EXCEPT !["out"] = dev[i]["out"]] /\ Steady(dev[i], y) /\ y.wake = dev[i].wake
                               /\ y.out = dev[i].out /\ y.ctl = dev[i].ctl
      BY <2>1, XferIs, Known DEF Transfers
    <3>3. y = dev[i] BY <3>2, Known DEF DevType, Steady
    <3>4. dev' = [dev EXCEPT ![i]["out"] = dev[i]["out"]]
      BY <3>1, <3>2, <3>3, Zenon
    <3> QED BY <2>1, <2>3, <3>4
  <2> QED BY <2>2, <2>3
<1>6. XferOf(i, "out", t) /\ (WakeStatus' <=> WakeStatus) /\ \A j \in Dev : dev'[j].wake = dev[j].wake /\ Steady(dev[j], dev'[j])
  BY <1>5, XferChanges DEF Transfers
<1>7. writer' = [writer EXCEPT !.pc = "idle", !.i = 0] BY <1>1 DEF WriteIdle
<1>8. writer' \in WriterType /\ writer'.pc = "idle" /\ writer'.i = 0
  BY <1>7, Known DEF WriterType
<1>9. NoneWaits
  <2>1. \A j \in Dev : j # i => dev'[j] = dev[j] BY <1>6 DEF XferOf
  <2>2. dev'[i].out = t /\ dev'[i].ctl = dev[i].ctl BY <1>6 DEF XferOf
  <2>3. \A j \in Dev : dev[j].ctl.urb = "idle" /\ ~dev[j].ctl.sem /\ ~dev[j].ctl.ok
    BY <1>3, Known DEF AcmInv, WriterPlace, Waits, DevType, XferType
  <2>4. \A j \in Dev : j # i => /\ dev[j].out.want = "none" /\ dev[j].out.urb # "flight"
                                /\ dev[j].out.urb # "idle" => "out" \in env
    BY <1>3 DEF AcmInv, WriterPlace, Waits
  <2> QED BY <1>2, <1>5, <1>8, <2>1, <2>2, <2>3, <2>4 DEF NoneWaits
<1>10. WriterPlace' /\ ~Answered' BY <1>9, NoneWaitsIs
<1>11. WakeKnown'
  <2>1. ~Answered BY <1>3 DEF Answered
  <2>2. op.pc \in Closing => op.i \in Dev BY DEF AcmInv, OpPlace, Closing
  <2>3. \A j \in Dev : dev'[j].st = dev[j].st BY <1>6 DEF Steady
  <2> QED BY <1>2, <1>6, <1>10, <2>1, <2>2, <2>3 DEF AcmInv, WakeKnown
<1>12. op.pc \notin Closing \/ writer'.i # op.i
  BY <1>8, ConstantsAre DEF AcmInv, OpPlace, Closing
<1>13. AcmInv'
  BY <1>2, <1>3, <1>5, <1>8, <1>10, <1>11, <1>12, Known, XferSteps DEF Transfers
<1> QED BY <1>13

\* The transfer is awaited, and its result is its own; an answer about the remote wakeup
\* is told to all of the list.
LEMMA WriteDoneKeeps ==
    ASSUME AcmInv, WriteDone
    PROVE  AcmInv'
<1>1. /\ writer.pc = "wait" /\ dev[writer.i][writer.k].sem /\ WriteIdle
      /\ UNCHANGED <<susp, msgs, hdl, op, client, outside>>
  BY DEF WriteDone
<1>2. UNCHANGED <<drv, bus, plugs, susp, msgs, hdl, info, wakes, op, client, calls, env>>
  BY <1>1 DEF outside, fixed
<1>3. PICK i \in Dev, k \in Transfers : writer.i = i /\ writer.k = k /\ dev[i].st = "listed"
  BY <1>1, Known DEF AcmInv, WriterPlace, WriterType
<1>4. PICK x : x = dev[i][k] OBVIOUS
<1>5. x \in XferType /\ x.urb = "idle" /\ (k = "out" => x.want = "none")
  BY <1>1, <1>3, <1>4, Known DEF AcmInv, WriterPlace, Waits, DevType, Transfers
<1>6. crash' = crash BY <1>3, <1>4, <1>5, NothingFails, Zenon DEF WriteDone
<1>7. [NoXfer EXCEPT !.urb = x.urb] = NoXfer BY <1>5 DEF NoXfer
<1>8. NoXfer \in XferType /\ NoXfer.urb = "idle" /\ ~NoXfer.sem /\ ~NoXfer.ok /\ NoXfer.want = "none"
  BY DEF NoXfer, XferType
<1>9. dev' = Informed([dev EXCEPT ![i][k] = NoXfer], x)
  BY <1>3, <1>4, <1>7, Zenon DEF WriteDone
<1>10. writer' = [writer EXCEPT !.pc = "idle", !.i = 0]
  BY <1>1 DEF WriteIdle
<1>11. writer' \in WriterType /\ writer'.pc = "idle" /\ writer'.i = 0
  BY <1>10, Known DEF WriterType
<1>12. PICK y \in DevType : /\ y = [dev[i] EXCEPT ![k] = NoXfer] /\ Steady(dev[i], y) /\ y.wake = dev[i].wake
                            /\ (k = "out" => y.out = NoXfer /\ y.ctl = dev[i].ctl)
                            /\ (k = "ctl" => y.ctl = NoXfer /\ y.out = dev[i].out)
  BY <1>8, XferIs, Known
<1>13. PICK d : d = [dev EXCEPT ![i] = y] OBVIOUS
<1>14. /\ dev' = Informed(d, x) /\ d \in [Dev -> DevType] /\ d[i] = y /\ \A j \in Dev : j # i => d[j] = dev[j]
  <2>1. d = [dev EXCEPT ![i][k] = NoXfer] BY <1>12, <1>13, Zenon
  <2>2. dev' = Informed(d, x) BY <1>9, <2>1, Zenon
  <2> QED BY <1>13, <2>2, Known
<1>15. /\ \A j \in Dev : Steady(dev[j], d[j]) /\ d[j].wake = dev[j].wake /\ d[j].out.want = "none"
       /\ \A j \in Dev : d[j].out.urb # "flight" /\ (d[j].out.urb # "idle" => "out" \in env)
       /\ \A j \in Dev : d[j].ctl.urb = "idle" /\ ~d[j].ctl.sem /\ ~d[j].ctl.ok
  <2>1. \A j \in Dev : Steady(dev[j], d[j]) /\ d[j].wake = dev[j].wake
    BY <1>12, <1>14 DEF Steady
  <2>2. \A j \in Dev : d[j].out.want = "none" /\ d[j].out.urb # "flight" /\ (d[j].out.urb # "idle" => "out" \in env)
    <3> SUFFICES ASSUME NEW j \in Dev
                 PROVE  d[j].out.want = "none" /\ d[j].out.urb # "flight" /\ (d[j].out.urb # "idle" => "out" \in env)
      OBVIOUS
    <3>1. dev[j].out.want = "none" /\ (dev[j].out.urb # "idle" => "out" \in env)
      BY DEF AcmInv, WriterPlace
    <3>2. CASE j = i /\ k = "out" BY <1>8, <1>12, <1>14, <3>2
    <3>3. CASE j # i \/ k = "ctl"
      <4>1. ~Waits(j, "out") BY <1>3, <3>3 DEF Waits
      <4>2. dev[j].out.urb # "flight" BY <4>1 DEF AcmInv, WriterPlace
      <4> QED BY <1>12, <1>14, <3>1, <3>3, <4>2
    <3> QED BY <3>2, <3>3 DEF Transfers
  <2>3. \A j \in Dev : d[j].ctl.urb = "idle" /\ ~d[j].ctl.sem /\ ~d[j].ctl.ok
    <3> SUFFICES ASSUME NEW j \in Dev
                 PROVE  d[j].ctl.urb = "idle" /\ ~d[j].ctl.sem /\ ~d[j].ctl.ok
      OBVIOUS
    <3>2. CASE j = i /\ k = "ctl" BY <1>8, <1>12, <1>14, <3>2
    <3>3. CASE j # i \/ k = "out"
      <4>1. ~Waits(j, "ctl") BY <1>3, <3>3 DEF Waits
      <4>2. dev[j].ctl.urb = "idle" /\ ~dev[j].ctl.sem /\ ~dev[j].ctl.ok
        BY <4>1 DEF AcmInv, WriterPlace
      <4> QED BY <1>12, <1>14, <3>3, <4>2
    <3> QED BY <3>2, <3>3 DEF Transfers
  <2> QED BY <2>1, <2>2, <2>3
<1>16. op.pc \in Closing => op.i \in Dev /\ op.i # i
  BY <1>3 DEF AcmInv, OpPlace, Closing
<1>17. Answered <=> k = "ctl" /\ x.ok /\ x.want # "none"
  BY <1>1, <1>3, <1>4 DEF Answered
<1>18. /\ dev' \in [Dev -> DevType]
       /\ \A j \in Dev : Steady(dev[j], dev'[j]) /\ (dev[j].st = "listed" \/ dev'[j] = dev[j])
       /\ \A j \in Dev : dev'[j].out = d[j].out /\ dev'[j].ctl = d[j].ctl
       /\ bus = "present" => (wakes <=> WakeStatus')
       /\ bus = "present" /\ op.pc \in Closing /\ dev'[op.i].wake =>
             \E j \in Dev : j # op.i /\ dev'[j].st = "listed" /\ dev'[j].wake
  <2>1. CASE x.want = "none" \/ ~x.ok
    <3>1. dev' = d BY <1>14, <2>1 DEF Informed
    <3>2. ~Answered BY <1>17, <2>1
    <3>3. WakeStatus' <=> WakeStatus
      BY <1>14, <1>15, <3>1, ListIs DEF Steady
    <3> QED BY <1>3, <1>14, <1>15, <1>16, <3>1, <3>2, <3>3 DEF AcmInv, WakeKnown, Steady
  <2>2. CASE x.want # "none" /\ x.ok
    <3>1. Answered BY <1>5, <1>17, <2>2 DEF Transfers
    <3>2. PICK b \in BOOLEAN : b = (x.want = "on") OBVIOUS
    <3>3. dev' = [j \in Dev |-> IF j \in Listed THEN [d[j] EXCEPT !.wake = b] ELSE d[j]]
      BY <1>14, <2>2, <3>2, Zenon DEF Informed
    <3>4. ASSUME NEW j \in Dev
          PROVE  /\ dev'[j] \in DevType /\ Steady(dev[j], dev'[j]) /\ (dev[j].st = "listed" \/ dev'[j] = dev[j])
                 /\ dev'[j].out = d[j].out /\ dev'[j].ctl = d[j].ctl
                 /\ dev[j].st = "listed" => dev'[j].wake = b
      <4>1. CASE j \in Listed
        <5>1. dev'[j] = [d[j] EXCEPT !.wake = b] BY <3>3, <4>1
        <5>2. d[j] \in DevType BY <1>14
        <5>3. dev'[j] \in DevType /\ Steady(d[j], dev'[j]) /\ dev'[j].out = d[j].out /\ dev'[j].ctl = d[j].ctl /\ dev'[j].wake = b
          BY <5>1, <5>2 DEF DevType, Steady
        <5> QED BY <1>15, <4>1, <5>3 DEF Listed, Steady
      <4>2. CASE j \notin Listed
        <5>1. dev'[j] = d[j] BY <3>3, <4>2
        <5>2. j # i /\ dev[j].st # "listed" BY <1>3, <4>2 DEF Listed
        <5> QED BY <1>14, <1>15, <5>1, <5>2
      <4> QED BY <4>1, <4>2
    <3>5. dev' \in [Dev -> DevType] BY <3>3, <3>4
    <3>6. \A j \in Dev : dev'[j].st = dev[j].st BY <3>4 DEF Steady
    <3>7. WakeStatus' <=> b BY <1>3, <3>4, <3>6 DEF WakeStatus, Listed
    <3>8. bus = "present" => (wakes <=> b)
      BY <1>3, <1>4, <1>17, <3>1, <3>2 DEF AcmInv, WakeKnown
    <3>9. op.pc \in Closing => dev[op.i].st = "listed"
      BY DEF AcmInv, OpPlace
    <3> QED BY <1>3, <1>16, <3>4, <3>5, <3>6, <3>7, <3>8, <3>9
  <2> QED BY <2>1, <2>2
<1>19. NoneWaits BY <1>2, <1>11, <1>15, <1>18 DEF NoneWaits
<1>20. WriterPlace' /\ ~Answered' BY <1>19, NoneWaitsIs
<1>21. WakeKnown' BY <1>2, <1>18, <1>20 DEF WakeKnown
<1>22. op.pc \notin Closing \/ writer'.i # op.i
  BY <1>11, <1>16, ConstantsAre
<1>23. AcmInv'
  BY <1>2, <1>6, <1>11, <1>18, <1>20, <1>21, <1>22, Known, XfersKeep
<1> QED BY <1>23

\* cdc_acm_host_data_tx_blocking() and the requests submit a transfer.
LEMMA ReadiedIs ==
    ASSUME NEW x \in DevType, NEW k \in Transfers
    PROVE  \E y \in DevType : /\ y = Readied(x, k) /\ Steady(x, y) /\ y.wake = x.wake /\ y.ctl = x.ctl
                              /\ y.out.urb = x.out.urb /\ y.out.want = x.out.want
                              /\ (k = "out" => ~y.out.sem) /\ (k = "ctl" => y.out = x.out)
<1>1. x["out"] \in XferType /\ x["ctl"] \in XferType BY DEF DevType
<1>2. CASE k = "out"
  <2>1. PICK t : t = [x["out"] EXCEPT !.sem = FALSE] OBVIOUS
  <2>2. t \in XferType /\ t.urb = x["out"].urb /\ t.want = x["out"].want /\ ~t.sem
    BY <1>1, <2>1 DEF XferType
  <2>3. PICK y \in DevType : /\ y = [x EXCEPT !["out"] = t] /\ Steady(x, y) /\ y.wake = x.wake
                             /\ y.out = t /\ y.ctl = x.ctl
    BY <2>2, XferIs DEF Transfers
  <2>4. (x["out"].sem /\ k = "ctl") = FALSE BY <1>2
  <2>5. y = Readied(x, k) BY <1>2, <2>1, <2>3, <2>4, Zenon DEF Readied
  <2> QED BY <1>2, <2>2, <2>3, <2>5
<1>3. CASE k = "ctl"
  <2>1. PICK t : t = [x["ctl"] EXCEPT !.sem = @ /\ k = "ctl"] OBVIOUS
  <2>2. t = x["ctl"]
    <3>1. PICK b \in BOOLEAN : b = (x["ctl"].sem /\ k = "ctl") OBVIOUS
    <3>2. t = [x["ctl"] EXCEPT !.sem = b] BY <2>1, <3>1, Zenon
    <3>3. b = x["ctl"].sem BY <1>1, <1>3, <3>1 DEF XferType
    <3> QED BY <1>1, <3>2, <3>3 DEF XferType
  <2>3. PICK y \in DevType : /\ y = [x EXCEPT !["ctl"] = t] /\ Steady(x, y) /\ y.wake = x.wake
                             /\ y.ctl = t /\ y.out = x.out
    BY <1>1, <2>2, XferIs DEF Transfers
  <2>4. y = Readied(x, k) BY <1>3, <2>1, <2>3, Zenon DEF Readied
  <2> QED BY <1>3, <2>2, <2>3, <2>4
<1> QED BY <1>2, <1>3 DEF Transfers

\* The transfer that is submitted
InFlight(x, y, k, want) ==
    /\ y = [x EXCEPT ![k].urb = "flight", ![k].want = want] /\ Steady(x, y) /\ y.wake = x.wake
    /\ k = "out" => y.ctl = x.ctl /\ y.out.urb = "flight" /\ y.out.want = want /\ y.out.sem = x.out.sem
    /\ k = "ctl" => y.out = x.out /\ y.ctl.urb = "flight" /\ y.ctl.sem = x.ctl.sem /\ y.ctl.ok = x.ctl.ok

\* ... is one that there can be.
LEMMA FlightIs ==
    ASSUME NEW x \in DevType, NEW k \in Transfers, NEW want \in {"none", "on", "off"}
    PROVE  \E y \in DevType : InFlight(x, y, k, want)
<1>1. PICK e : e = x[k] OBVIOUS
<1>2. e \in XferType BY <1>1 DEF DevType, Transfers
<1>3. PICK f : f = [e EXCEPT !.urb = "flight"] OBVIOUS
<1>4. f \in XferType /\ f.urb = "flight" /\ f.sem = e.sem /\ f.ok = e.ok
  BY <1>2, <1>3 DEF XferType
<1>5. PICK t : t = [f EXCEPT !.want = want] OBVIOUS
<1>6. t \in XferType /\ t.urb = "flight" /\ t.sem = e.sem /\ t.ok = e.ok /\ t.want = want
  BY <1>4, <1>5 DEF XferType
<1>7. PICK y \in DevType : /\ y = [x EXCEPT ![k] = t] /\ Steady(x, y) /\ y.wake = x.wake
                           /\ (k = "out" => y.out = t /\ y.ctl = x.ctl)
                           /\ (k = "ctl" => y.ctl = t /\ y.out = x.out)
  BY <1>6, XferIs
<1>8. y = [x EXCEPT ![k].urb = "flight", ![k].want = want]
  BY <1>1, <1>3, <1>5, <1>7, Zenon
<1> QED BY <1>1, <1>6, <1>7, <1>8 DEF InFlight

\* A write or a request: its transfer is in flight, or the driver is as it was.
LEMMA SubmitKeeps ==
    ASSUME AcmInv, NEW i \in Dev, NEW k \in Transfers, NEW supported, NEW want \in {"none", "on", "off"},
           MayWrite(i), Submitted(i, k, supported, want),
           k = "out" => "out" \in env /\ want = "none",
           k = "ctl" => env \cap Asks # {}
    PROVE  AcmInv'
<1>1. /\ drv = "up" /\ calls < MaxCalls /\ calls' = calls + 1 /\ Others /\ writer.pc = "idle"
      /\ dev[i].st = "listed" /\ op.i # i /\ (susp => Quiet)
      /\ UNCHANGED <<drv, bus, plugs, info, wakes, env, hdl, op, client, crash>>
  BY DEF MayWrite, Call, fixed
<1>2. ClientIdle BY <1>1, WriterIsSpared DEF Transfers
<1>3. msgs = <<>> /\ (susp => op.by = "none")
  BY <1>1, <1>2, Spared DEF ClientIdle, Quiet, Unlocked
<1>4. calls' \in 0..MaxCalls BY <1>1, Known, ConstantsAre
<1>5. writer.i = 0 /\ \A j \in Dev : ~Waits(j, "out") /\ ~Waits(j, "ctl")
  BY <1>1 DEF AcmInv, WriterPlace, Waits
<1>6. \A j \in Dev : /\ dev[j].out.want = "none" /\ dev[j].out.urb # "flight"
                     /\ dev[j].out.urb # "idle" => "out" \in env
                     /\ dev[j].ctl.urb = "idle" /\ ~dev[j].ctl.sem /\ ~dev[j].ctl.ok
  BY <1>5 DEF AcmInv, WriterPlace
<1>7. ~Answered BY <1>1 DEF Answered
<1>8. op.pc \in Closing => op.i \in Dev BY DEF AcmInv, OpPlace, Closing
<1>9. DEFINE acc   == supported /\ bus = "present" /\ dev[i][k].urb = "idle"
             ready == IF supported THEN Readied(dev[i], k) ELSE dev[i]
<1>10. /\ dev' = [dev EXCEPT ![i] = IF acc THEN [ready EXCEPT ![k].urb = "flight", ![k].want = want] ELSE ready]
       /\ writer' = IF acc THEN [pc |-> "wait", k |-> k, i |-> i] ELSE writer
       /\ Woken(susp /\ acc)
  BY Zenon DEF Submitted
<1>11. PICK r \in DevType : /\ r = ready /\ Steady(dev[i], r) /\ r.wake = dev[i].wake /\ r.ctl = dev[i].ctl
                            /\ r.out.urb = dev[i].out.urb /\ r.out.want = dev[i].out.want
                            /\ (k = "out" /\ acc => ~r.out.sem) /\ (k = "ctl" => r.out = dev[i].out)
  <2>1. dev[i] \in DevType BY Known
  <2>2. CASE supported BY <2>1, <2>2, ReadiedIs
  <2>3. CASE ~supported BY <2>1, <2>3 DEF Steady
  <2> QED BY <2>2, <2>3
<1>12. CASE acc
  <2>1. PICK y \in DevType : InFlight(r, y, k, want) BY FlightIs
  <2>2. dev' = [dev EXCEPT ![i] = y]
    BY <1>10, <1>11, <1>12, <2>1 DEF InFlight
  <2>3. OneIs(i, y) BY <2>2, OneChanges
  <2>4. /\ dev' \in [Dev -> DevType] /\ \A j \in Dev : Steady(dev[j], dev'[j]) /\ dev'[j].wake = dev[j].wake
        /\ \A j \in Dev : j # i => dev'[j] = dev[j]
    BY <1>11, <2>1, <2>3 DEF OneIs, Steady, InFlight
  <2>5. WakeStatus' <=> WakeStatus BY <2>4, ListIs DEF Steady
  <2>6. writer' = [pc |-> "wait", k |-> k, i |-> i] BY <1>10, <1>12
  <2>7. writer' \in WriterType /\ writer'.pc = "wait" /\ writer'.k = k /\ writer'.i = i
    BY <2>6 DEF WriterType
  <2>8. \A j \in Dev : (Waits(j, "out")' <=> (j = i /\ k = "out")) /\ (Waits(j, "ctl")' <=> (j = i /\ k = "ctl"))
    BY <2>7 DEF Waits
  <2>9. dev'[i] = y BY <2>3 DEF OneIs
  <2>10. ASSUME k = "out" PROVE WriterPlace' /\ ~Answered'
    <3>1. /\ y.ctl.urb = "idle" /\ ~y.ctl.sem /\ ~y.ctl.ok /\ y.out.urb = "flight" /\ y.out.want = "none" /\ ~y.out.sem
      BY <1>6, <1>11, <1>12, <2>1, <2>10 DEF InFlight
    <3>2. WriterPlace'
      <4>1. \A j \in Dev : /\ dev'[j].out.want = "none"
                           /\ dev'[j].out.urb = "flight" => j = i
                           /\ j = i => ~dev'[j].out.sem
                           /\ dev'[j].ctl.urb = "idle" /\ ~dev'[j].ctl.sem /\ ~dev'[j].ctl.ok
        BY <1>6, <2>4, <2>9, <3>1
      <4>2. dev'[i].st = "listed" /\ i # 0 /\ env' = env
        BY <1>1, <2>4, ConstantsAre DEF Steady
      <4> QED BY <2>7, <2>8, <2>10, <4>1, <4>2 DEF WriterPlace
    <3>3. ~Answered' BY <2>7, <2>10 DEF Answered
    <3> QED BY <3>2, <3>3
  <2>11. ASSUME k = "ctl" PROVE WriterPlace' /\ ~Answered'
    <3>1. /\ y.ctl.urb = "flight" /\ ~y.ctl.sem /\ ~y.ctl.ok /\ y.out = dev[i].out
      BY <1>6, <1>11, <1>12, <2>1, <2>11 DEF InFlight
    <3>2. WriterPlace'
      <4>1. \A j \in Dev : /\ dev'[j].out.want = "none" /\ dev'[j].out.urb # "flight"
                           /\ dev'[j].out.urb # "idle" => "out" \in env
                           /\ ~dev'[j].ctl.sem /\ ~dev'[j].ctl.ok
                           /\ j # i => dev'[j].ctl.urb = "idle"
        BY <1>6, <2>4, <2>9, <3>1
      <4>2. dev'[i].st = "listed" /\ i # 0 /\ env' = env /\ dev'[i].ctl.urb # "idle" /\ env \cap Asks # {}
        BY <1>1, <2>4, <2>9, <2>11, <3>1, ConstantsAre DEF Steady
      <4> QED BY <2>7, <2>8, <2>11, <4>1, <4>2 DEF WriterPlace
    <3>3. ~Answered' BY <2>7, <2>9, <3>1 DEF Answered
    <3> QED BY <3>2, <3>3
  <2>12. WriterPlace' /\ ~Answered' BY <2>10, <2>11 DEF Transfers
  <2>13. WakeKnown'
    BY <1>1, <1>7, <1>8, <2>4, <2>5, <2>12 DEF AcmInv, WakeKnown, Steady
  <2>14. UNCHANGED <<susp, msgs>> \/ Awakens
    <3>1. CASE ~susp BY <1>10, <3>1, Zenon DEF Woken
    <3>2. CASE susp
      <4>1. susp' = FALSE /\ msgs' = Post(msgs, "res")
        BY <1>10, <1>12, <3>2, Zenon DEF Woken
      <4>2. Len(<<>>) < QueueLen /\ Append(<<>>, "res") = <<"res">>
        BY Spared, ConstantsAre
      <4>3. msgs' = <<"res">> BY <1>3, <4>1, <4>2, Zenon DEF Post
      <4> QED BY <1>1, <1>2, <1>3, <3>2, <4>1, <4>3 DEF Awakens
    <3> QED BY <3>1, <3>2
  <2>15. op.pc \notin Closing \/ writer'.i # op.i BY <1>1, <2>7
  <2>16. \A j \in Dev : Steady(dev[j], dev'[j]) /\ (dev[j].st = "listed" \/ dev'[j] = dev[j])
    BY <1>1, <2>4
  <2>17. AcmInv'
    BY <1>1, <1>4, <2>4, <2>7, <2>12, <2>13, <2>14, <2>15, <2>16, Known, XfersKeep
  <2> QED BY <2>17
<1>13. CASE ~acc
  <2>1. dev' = [dev EXCEPT ![i] = r] /\ writer' = writer
    BY <1>10, <1>11, <1>13
  <2>2. UNCHANGED <<susp, msgs>> BY <1>10, <1>13, Zenon DEF Woken
  <2>3. OneIs(i, r) BY <2>1, OneChanges
  <2>4. /\ dev' \in [Dev -> DevType] /\ \A j \in Dev : Steady(dev[j], dev'[j]) /\ dev'[j].wake = dev[j].wake
        /\ \A j \in Dev : j # i => dev'[j] = dev[j]
    BY <1>11, <2>3 DEF OneIs, Steady
  <2>5. WakeStatus' <=> WakeStatus BY <2>4, ListIs DEF Steady
  <2>6. NoneWaits
    BY <1>1, <1>5, <1>6, <1>11, <2>1, <2>3, <2>4 DEF NoneWaits, OneIs
  <2>7. WriterPlace' /\ ~Answered' BY <2>6, NoneWaitsIs
  <2>8. WakeKnown'
    BY <1>1, <1>7, <1>8, <2>4, <2>5, <2>7 DEF AcmInv, WakeKnown, Steady
  <2>9. op.pc \notin Closing \/ writer'.i # op.i
    BY <1>5, <1>8, <2>1, ConstantsAre
  <2>10. \A j \in Dev : Steady(dev[j], dev'[j]) /\ (dev[j].st = "listed" \/ dev'[j] = dev[j])
    BY <1>1, <2>4
  <2>11. AcmInv'
    BY <1>1, <1>4, <2>1, <2>2, <2>4, <2>7, <2>8, <2>9, <2>10, Known, XfersKeep
  <2> QED BY <2>11
<1> QED BY <1>12, <1>13

\* cdc_acm_host_data_tx_blocking() and the requests
LEMMA WriteKeeps ==
    ASSUME AcmInv, NEW i \in Dev, NEW k \in Transfers, Write(i, k)
    PROVE  AcmInv'
<1>1. MayWrite(i) /\ k \in env /\ Submitted(i, k, k = "ctl" => info[i].acm, "none")
  BY Zenon DEF Write
<1>2. PICK s : s = (k = "ctl" => info[i].acm) OBVIOUS
<1>3. Submitted(i, k, s, "none") BY <1>1, <1>2, Zenon
<1>4. (k = "out" => "out" \in env) /\ (k = "ctl" => env \cap Asks # {})
  BY <1>1 DEF Asks
<1> QED BY <1>1, <1>3, <1>4, SubmitKeeps

\* cdc_acm_host_enable_remote_wakeup()
LEMMA WakeupKeeps ==
    ASSUME AcmInv, NEW i \in Dev, NEW enable \in BOOLEAN, Wakeup(i, enable)
    PROVE  AcmInv'
<1>1. MayWrite(i) /\ "wake" \in env /\ Submitted(i, "ctl", WakeStatus # enable, IF enable THEN "on" ELSE "off")
  BY Zenon DEF Wakeup
<1>2. PICK s, want : s = (WakeStatus # enable) /\ want = IF enable THEN "on" ELSE "off"
  OBVIOUS
<1>3. Submitted(i, "ctl", s, want) /\ want \in {"none", "on", "off"}
  BY <1>1, <1>2, Zenon
<1>4. env \cap Asks # {} BY <1>1 DEF Asks
<1> QED BY <1>1, <1>3, <1>4, SubmitKeeps DEF Transfers

-----------------------------------------------------------------------------
(* cdc_acm_host_open() *)

\* A pseudo-device whose transfers are at rest, and for which the writing task does not wait
LEMMA UnwaitedMoves ==
    ASSUME AcmInv, NEW i \in Dev, NEW y \in DevType, OneIs(i, y), writer.i # i,
           AtRest(y.out), AtRest(y.ctl), y.out.want = "none", UNCHANGED <<writer, env>>
    PROVE  WriterPlace' /\ (Answered' <=> Answered) /\ (Answered => dev'[writer'.i].ctl = dev[writer.i].ctl)
<1>1. dev'[i] = y /\ \A j \in Dev : j # i => dev'[j] = dev[j] BY DEF OneIs
<1>2. writer.pc = "wait" => writer.i \in Dev /\ writer.i # i
  BY DEF AcmInv, WriterPlace
<1>4. writer' = writer /\ env' = env OBVIOUS
<1>5. WriterPlace'
  <2>1. /\ writer'.pc = "idle" <=> writer'.i = 0
        /\ writer'.pc = "wait" => writer'.i \in Dev /\ dev'[writer'.i].st = "listed"
        /\ writer'.pc = "wait" => env' \cap ({"out"} \cup Asks) # {}
        /\ writer'.pc = "wait" /\ writer'.k = "ctl" =>
              env' \cap Asks # {} /\ (dev'[writer'.i].ctl.urb # "idle" \/ dev'[writer'.i].ctl.sem)
    BY <1>1, <1>2, <1>4 DEF AcmInv, WriterPlace
  <2>2. \A j \in Dev : (Waits(j, "out")' <=> Waits(j, "out")) /\ (Waits(j, "ctl")' <=> Waits(j, "ctl"))
    BY <1>4 DEF Waits
  <2>3. ASSUME NEW j \in Dev
        PROVE  /\ dev'[j].out.want = "none"
               /\ dev'[j].out.urb = "flight" => Waits(j, "out")
               /\ dev'[j].out.urb # "idle" => "out" \in env
               /\ dev'[j].out.sem /\ Waits(j, "out") => dev'[j].out.urb = "idle"
               /\ dev'[j].ctl.urb # "idle" \/ dev'[j].ctl.sem => Waits(j, "ctl")
               /\ dev'[j].ctl.sem => dev'[j].ctl.urb = "idle"
               /\ dev'[j].ctl.urb = "flight" \/ ~Waits(j, "ctl") => ~dev'[j].ctl.ok
    BY <1>1 DEF AcmInv, WriterPlace, AtRest
  <2> QED BY <1>4, <2>1, <2>2, <2>3 DEF WriterPlace
<1>6. Answered' <=> Answered BY <1>1, <1>2, <1>4 DEF Answered
<1>7. Answered => dev'[writer'.i].ctl = dev[writer.i].ctl
  BY <1>1, <1>2, <1>4 DEF Answered
<1> QED BY <1>5, <1>6, <1>7

\* ... as that of one that was not in the list; it does not tell of the remote wakeup.
LEMMA UnlistedMoves ==
    ASSUME AcmInv, NEW i \in Dev, NEW y \in DevType, OneIs(i, y), dev[i].st # "listed",
           AtRest(y.out), AtRest(y.ctl), ~y.wake, y.out.want = "none",
           UNCHANGED <<bus, wakes, writer, env>>, op'.pc \notin Closing
    PROVE  WriterPlace' /\ WakeKnown'
<1>1. dev'[i] = y /\ \A j \in Dev : j # i => dev'[j] = dev[j] BY DEF OneIs
<1>2. writer.i # i
  BY ConstantsAre, Known DEF AcmInv, WriterPlace, WriterType
<1>3. WriterPlace' /\ (Answered' <=> Answered) /\ (Answered => dev'[writer'.i].ctl = dev[writer.i].ctl)
  BY <1>2, UnwaitedMoves
<1>4. WakeStatus' <=> WakeStatus BY <1>1 DEF WakeStatus, Listed
<1>5. WakeKnown' BY <1>3, <1>4 DEF AcmInv, WakeKnown
<1> QED BY <1>3, <1>5

\* ... nor does the driver's task know of it.
LEMMA OpeningMoves ==
    ASSUME AcmInv, NEW i \in Dev, NEW y \in DevType, OneIs(i, y), dev[i].st # "listed", y.st # "listed",
           Blank(y) \/ Used(y), y.out.want = "none",
           UNCHANGED <<bus, info, wakes, client, writer, env>>,
           y.st = "opening" => op'.i = i, \A j \in Dev : dev[j].st = "opening" => j = i,
           y.claimed => info[i].ok, y.urb = "flight" => bus = "present", y.urb \notin InDone,
           op'.pc \notin Closing, client.pc # "closing", client.kind = "none" \/ hdl' = hdl \/ hdl' = 0
    PROVE  Listed' = Listed /\ DevicesAre' /\ ClientPlace' /\ WriterPlace' /\ WakeKnown'
<1>1. dev'[i] = y /\ \A j \in Dev : j # i => dev'[j] = dev[j] BY DEF OneIs
<1>2. AtRest(y.out) /\ AtRest(y.ctl) /\ ~y.wake /\ ~y.told
  BY DEF Blank, Used, DevType
<1>3. Listed' = Listed BY <1>1 DEF Listed
<1>4. DevicesAre'
  <2> SUFFICES ASSUME NEW j \in Dev
               PROVE  /\ Blank(dev[j])' \/ Used(dev[j])'
                      /\ dev'[j].st = "opening" => op'.i = j
                      /\ dev'[j].claimed => info[j].ok
                      /\ dev'[j].urb = "flight" => bus = "present"
                      /\ dev'[j].told => bus = "gone"
    BY DEF DevicesAre
  <2>1. CASE j = i
    <3>1. Blank(dev[j])' \/ Used(dev[j])'
      BY <1>1, <2>1 DEF Blank, Used, HasRoom, Size
    <3> QED BY <1>1, <1>2, <2>1, <3>1
  <2>2. CASE j # i
    <3>1. Blank(dev[j])' \/ Used(dev[j])'
      BY <1>1, <2>2 DEF AcmInv, DevicesAre, Blank, Used, HasRoom, Size
    <3> QED BY <1>1, <2>2, <3>1 DEF AcmInv, DevicesAre
  <2> QED BY <2>1, <2>2
<1>5. ClientPlace'
  <2>1. client' = client /\ bus' = bus OBVIOUS
  <2>2. client.kind # "none" /\ client.cur # 0 => client.cur \in Dev /\ client.cur # i
    BY Known DEF AcmInv, ClientPlace, ClientType
  <2>3. client.pc = "cb" => client.i \in Dev /\ client.i # i
    BY DEF AcmInv, ClientPlace
  <2>4. \A j \in Dev : dev'[j].urb \in InDone => j # i /\ dev[j].urb \in InDone
    BY <1>1
  <2> QED BY <1>1, <2>1, <2>2, <2>3, <2>4 DEF AcmInv, ClientPlace, InDone
<1>6. WriterPlace' /\ WakeKnown' BY <1>2, UnlistedMoves
<1> QED BY <1>3, <1>4, <1>5, <1>6

\* The task that opens, and who runs besides it
LEMMA OpenerIs ==
    ASSUME AcmInv, op.pc \in {"find", "claim", "submit", "notif", "insert"}, op.by = "user" => Others
    PROVE  /\ op.by = "user" /\ op.i \in Dev /\ dev[op.i].st = "opening" /\ drv = "up"
           /\ \A j \in Dev : dev[j].st = "opening" => j = op.i
           /\ ClientIdle \/ (bus = "gone" /\ client.pc = "cb" /\ client.kind = "gone" /\ op.pc \in {"find", "claim"})
<1>1. op.by = "user" /\ op.i \in Dev /\ dev[op.i].st = "opening"
  BY Known DEF AcmInv, OpPlace, OpType, Closing
<1>2. drv = "up" BY <1>1 DEF AcmInv, Handle, NoOp
<1>3. ClientIdle \/ (bus = "gone" /\ client.pc = "cb" /\ client.kind = "gone" /\ op.pc \in {"find", "claim"})
  BY <1>1, OthersAre DEF AcmInv, ClientPlace
<1> QED BY <1>1, <1>2, <1>3 DEF AcmInv, DevicesAre

\* With nothing left to handle, and nothing posted
LEMMA IdleMessages ==
    ASSUME AcmInv, ClientIdle, UNCHANGED <<bus, susp, msgs, client, env>>,
           susp => \A i \in Dev : dev'[i].urb \notin {"flight", "doneok", "doneerr"}
    PROVE  Messages'
<1>1. msgs = <<>> /\ client.kind = "none" /\ ~Suspends /\ ~Resumes /\ ~GoneNews
  BY IdleIs
<1>2. ~Suspends' /\ ~Resumes' /\ ~GoneNews' /\ (News(msgs)' <=> News(msgs))
  BY <1>1 DEF Suspends, Resumes, GoneNews, News
<1> QED BY <1>1, <1>2 DEF AcmInv, Messages

\* NoDev, and with another state
LEMMA NoDevIs ==
    ASSUME NEW s \in {"free", "opening"}
    PROVE  \E y \in DevType : /\ y = [NoDev EXCEPT !.st = s] /\ Blank(y) /\ ~y.cb /\ y.st = s
                              /\ y.urb = "null" /\ ~y.claimed /\ y.out.want = "none"
<1>1. NoXfer \in XferType /\ AtRest(NoXfer) /\ NoXfer.want = "none"
  BY DEF NoXfer, XferType, AtRest
<1>2. 0 \in 0 .. InBuffer /\ 0 \in 0 .. InBuffer + 1 BY ConstantsAre
<1>3. PICK n : n = NoXfer OBVIOUS
<1>4. NoDev = [st |-> "free", claimed |-> FALSE, cb |-> FALSE, told |-> FALSE, poll |-> FALSE,
               urb |-> "null", failed |-> FALSE, wake |-> FALSE, pos |-> 0, num |-> 0, len |-> 0, out |-> n, ctl |-> n]
  BY <1>3 DEF NoDev
<1>5. PICK y : y = [NoDev EXCEPT !.st = s] OBVIOUS
<1>6. /\ y.st = s /\ ~y.claimed /\ y.urb = "null" /\ ~y.cb /\ ~y.told /\ ~y.poll /\ ~y.wake /\ y.pos = 0
      /\ y.out = n /\ y.ctl = n
  BY <1>4, <1>5
<1>7. y \in DevType BY <1>1, <1>2, <1>3, <1>4, <1>5 DEF DevType
<1> QED BY <1>1, <1>3, <1>5, <1>6, <1>7 DEF Blank

\* A pseudo-device that polls goes on, while others open.
LEMMA IdlePolling ==
    ASSUME AcmInv, ClientIdle, op.pc # "submit", NEW i \in Dev, NEW y \in DevType, OneIs(i, y),
           UNCHANGED <<bus, susp, msgs, client>>,
           y.claimed /\ y.cb /\ ~y.failed => Polls(y) \/ (op'.pc = "submit" /\ op'.i = i)
    PROVE  Polling'
<1>1. client.kind = "none" /\ ~Resumes BY IdleIs
<1>2. dev'[i] = y /\ \A j \in Dev : j # i => dev'[j] = dev[j] BY DEF OneIs
<1> QED BY <1>1, <1>2 DEF AcmInv, Polling, Polls

\* cdc_acm_find_and_open_usb_device()
LEMMA OpenBeginKeeps ==
    ASSUME AcmInv, NEW i \in Dev, OpenBegin(i)
    PROVE  AcmInv'
<1>1. /\ drv = "up" /\ calls < MaxCalls /\ calls' = calls + 1 /\ Others /\ op.by = "none" /\ dev[i].st = "free"
      /\ dev' = [dev EXCEPT ![i] = [NoDev EXCEPT !.st = "opening"]]
      /\ UNCHANGED <<drv, bus, plugs, info, wakes, env, susp, msgs, client, writer, crash>>
  BY DEF OpenBegin, Call, fixed, Unlocked
<1>2. ClientIdle /\ client.pc = "idle" /\ client.kind = "none"
  BY <1>1, OthersAre, IdleIs
<1>3. PICK y \in DevType : /\ y = [NoDev EXCEPT !.st = "opening"] /\ Blank(y) /\ ~y.cb /\ y.st = "opening"
                           /\ y.urb = "null" /\ ~y.claimed /\ y.out.want = "none"
  BY NoDevIs
<1>4. OneIs(i, y) /\ dev'[i] = y BY <1>1, <1>3, OneChanges DEF OneIs
<1>5. \/ hdl' = hdl /\ hdl # 0 /\ op' = [by |-> "user", pc |-> "claim", i |-> i]
      \/ bus = "present" /\ hdl' = plugs /\ op' = [by |-> "user", pc |-> "claim", i |-> i]
      \/ hdl' = hdl /\ op' = [by |-> "user", pc |-> "find", i |-> i]
  <2>1. Listed # {} => hdl # 0
    BY AllSound, KindsDiffer DEF AcmInv, Handle, Listed
  <2> QED BY <2>1 DEF OpenBegin
<1>6. op' \in OpType /\ op'.by = "user" /\ op'.i = i /\ op'.pc \in {"find", "claim"}
  BY <1>5 DEF OpType
<1>7. \A j \in Dev : dev[j].st # "opening"
  BY <1>1, ConstantsAre DEF AcmInv, DevicesAre, OpPlace
<1>8. ~dev[i].claimed /\ op.pc = "none"
  BY <1>1, AllSound, KindsDiffer DEF AcmInv, OpPlace
<1>9. Listed' = Listed /\ DevicesAre' /\ ClientPlace' /\ WriterPlace' /\ WakeKnown'
  BY <1>1, <1>2, <1>3, <1>4, <1>6, <1>7, OpeningMoves DEF Closing, InDone
<1>10. OpPlace' BY <1>3, <1>4, <1>6 DEF OpPlace, Closing
<1>11. Handle'
  <2>1. hdl' \in 0..MaxPlugs /\ (bus = "present" => plugs # 0 /\ plugs \in 0..MaxPlugs)
    BY <1>5, Known DEF AcmInv, Handle
  <2>2. hdl' = 0 => op'.pc = "find" /\ hdl = 0 BY <1>5, <2>1
  <2>3. \A j \in Dev : dev'[j].claimed <=> dev[j].claimed
    BY <1>3, <1>4, <1>8 DEF OneIs
  <2>4. hdl' # 0 => bus # "none" /\ (op'.pc = "claim" \/ hdl' = hdl)
    BY <1>5 DEF AcmInv, Handle
  <2> QED BY <1>1, <1>2, <1>8, <1>9, <2>2, <2>3, <2>4, <1>6 DEF AcmInv, Handle
<1>12. Messages'
  <2>1. susp => \A j \in Dev : dev'[j].urb \notin {"flight", "doneok", "doneerr"}
    BY <1>3, <1>4 DEF AcmInv, Messages, OneIs
  <2> QED BY <1>1, <1>2, <2>1, IdleMessages
<1>13. Polling' BY <1>1, <1>2, <1>3, <1>4, <1>8, IdlePolling
<1>14. TypeOK'
  <2>1. hdl' \in 0..MaxPlugs /\ calls' \in 0..MaxCalls
    BY <1>1, <1>5, Known, ConstantsAre
  <2> QED BY <1>1, <1>4, <1>6, <2>1, Known, TypesWillBe DEF OneIs
<1> QED BY <1>1, <1>9, <1>10, <1>11, <1>12, <1>13, <1>14, InvIs DEF Parts

\* The device that was waited for is there.
LEMMA OpenFindKeeps ==
    ASSUME AcmInv, OpenFind
    PROVE  AcmInv'
<1>1. /\ op.pc = "find" /\ (op.by = "user" => Others) /\ bus = "present" /\ hdl = 0 /\ hdl' = plugs
      /\ op' = [op EXCEPT !.pc = "claim"]
      /\ UNCHANGED <<drv, bus, plugs, info, wakes, calls, env, susp, msgs, dev, client, writer, crash>>
  BY DEF OpenFind, Holding, Now, outside, fixed
<1>2. PICK i \in Dev : op.i = i BY <1>1, OpenerIs
<1>3. /\ op.by = "user" /\ dev[i].st = "opening" /\ drv = "up" /\ ClientIdle
      /\ \A j \in Dev : dev[j].st = "opening" => j = i
  BY <1>1, <1>2, OpenerIs
<1>4. op' \in OpType /\ op'.by = "user" /\ op'.i = i /\ op'.pc = "claim"
  BY <1>1, <1>2, <1>3, Known DEF OpType
<1>5. ~dev[i].claimed /\ dev[i] \in DevType /\ Blank(dev[i]) /\ dev[i].out.want = "none"
  BY <1>1, <1>2, Known DEF AcmInv, OpPlace, DevicesAre, Used, WriterPlace
<1>6. OneIs(i, dev[i]) BY <1>1, Known DEF OneIs
<1>7. client.pc = "idle" /\ client.kind = "none" BY <1>3, IdleIs
<1>8. Listed' = Listed /\ DevicesAre' /\ ClientPlace' /\ WriterPlace' /\ WakeKnown'
  BY <1>1, <1>3, <1>4, <1>5, <1>6, <1>7, OpeningMoves DEF Closing, InDone, Blank
<1>9. OpPlace' BY <1>1, <1>3, <1>4, <1>5 DEF OpPlace, Closing
<1>10. Handle'
  <2>1. hdl' # 0 /\ bus # "none" /\ op'.pc = "claim"
    BY <1>1, <1>4 DEF AcmInv, Handle
  <2> QED BY <1>1, <1>3, <1>7, <2>1 DEF AcmInv, Handle
<1>11. Messages' BY <1>1, <1>3, IdleMessages DEF AcmInv, Messages
<1>12. Polling' BY <1>1, <1>3, <1>5, <1>6, IdlePolling
<1>13. TypeOK' BY <1>1, <1>4, Known, TypesWillBe
<1> QED BY <1>1, <1>8, <1>9, <1>10, <1>11, <1>12, <1>13, InvIs DEF Parts

\* cdc_acm_device_remove() of a pseudo-device that is not in the list: the handle stays
\* while a pseudo-device of the list needs it.
LEMMA RemovedIs ==
    ASSUME AcmInv, NEW i \in Dev, Removed(i, dev)
    PROVE  \E y \in DevType : /\ OneIs(i, y) /\ Blank(y) /\ ~y.cb /\ y.st = "free" /\ y.urb = "null"
                              /\ ~y.claimed /\ y.out.want = "none"
                              /\ hdl' = IF \E j \in Dev : j # i /\ dev[j].claimed THEN hdl ELSE 0
<1>1. PICK y \in DevType : /\ y = [NoDev EXCEPT !.st = "free"] /\ Blank(y) /\ ~y.cb /\ y.st = "free"
                           /\ y.urb = "null" /\ ~y.claimed /\ y.out.want = "none"
  BY NoDevIs
<1>2. y = NoDev BY <1>1 DEF NoDev
<1>3. dev' = [dev EXCEPT ![i] = y] BY <1>2 DEF Removed
<1>4. OneIs(i, y) BY <1>3, OneChanges
<1>5. hdl' = IF \E j \in Dev : j # i /\ dev[j].claimed THEN hdl ELSE 0
  BY DEF Removed
<1> QED BY <1>1, <1>4, <1>5

\* The handle, when a pseudo-device went and nobody opens or closes
LEMMA HandleStays ==
    ASSUME AcmInv, NEW i \in Dev, NEW y \in DevType, OneIs(i, y), ~y.claimed, y.st = "free",
           hdl' = IF \E j \in Dev : j # i /\ dev[j].claimed THEN hdl ELSE 0,
           \A j \in Dev : dev[j].st = "opening" => j = i,
           op' = NoOp, UNCHANGED <<drv, bus, plugs, msgs, client>>, client.pc # "new"
    PROVE  Handle'
<1>1. dev'[i] = y /\ \A j \in Dev : j # i => dev'[j] = dev[j] BY DEF OneIs
<1>2. op'.pc = "none" BY DEF NoOp
<1>3. hdl' = 0 => \A j \in Dev : ~dev'[j].claimed BY <1>1 DEF AcmInv, Handle
<1>4. hdl' # 0 => Listed' # {} /\ hdl # 0
  <2> SUFFICES ASSUME hdl' # 0 PROVE Listed' # {} /\ hdl # 0
    OBVIOUS
  <2>1. PICK j \in Dev : j # i /\ dev[j].claimed OBVIOUS
  <2>2. dev[j].st = "listed"
    BY <2>1, AllSound, KindsDiffer, Known DEF DevType
  <2>3. j \in Listed' BY <1>1, <2>1, <2>2 DEF Listed
  <2> QED BY <2>3
<1>5. hdl = 0 => hdl' = 0 OBVIOUS
<1> QED BY <1>2, <1>3, <1>4, <1>5 DEF AcmInv, Handle

\* cdc_acm_transfers_allocate(), cdc_acm_start(): the interfaces are claimed, which no
\* other pseudo-device has; or the pseudo-device is removed.
LEMMA OpenClaimKeeps ==
    ASSUME AcmInv, OpenClaim
    PROVE  AcmInv'
<1>1. /\ op.pc = "claim" /\ (op.by = "user" => Others)
      /\ UNCHANGED <<drv, bus, plugs, info, wakes, calls, env, susp, msgs, client, writer, crash>>
  BY DEF OpenClaim, Holding, outside, fixed
<1>2. PICK i \in Dev : op.i = i BY <1>1, OpenerIs
<1>3. /\ op.by = "user" /\ dev[i].st = "opening" /\ drv = "up"
      /\ ClientIdle \/ (bus = "gone" /\ client.pc = "cb" /\ client.kind = "gone")
      /\ \A j \in Dev : dev[j].st = "opening" => j = i
  BY <1>1, <1>2, OpenerIs
<1>4. ~dev[i].claimed /\ dev[i] \in DevType /\ Blank(dev[i]) /\ dev[i].out.want = "none"
  BY <1>1, <1>2, Known DEF AcmInv, OpPlace, DevicesAre, Used, WriterPlace
<1>5. hdl # 0 /\ client.pc \in {"idle", "cb"}
  BY <1>1, <1>3, IdleIs DEF AcmInv, Handle
<1>6. info[i].ok => ~\E j \in Dev : SameInterface(i, j)
  BY DEF AcmInv, ReadWell, DevicesAre, SameInterface
<1>7. CASE info[i].ok /\ bus = "present"
  <2>1. dev' = Claimed(i) /\ op' = [op EXCEPT !.pc = "submit"] /\ hdl' = hdl
    BY <1>2, <1>6, <1>7 DEF OpenClaim, Now
  <2>2. ClientIdle /\ client.pc = "idle" /\ client.kind = "none"
    BY <1>3, <1>7, IdleIs
  <2>3. PICK y : y = [dev[i] EXCEPT !.claimed = TRUE, !.urb = "idle", !.cb = TRUE, !.num = Size]
    OBVIOUS
  <2>4. dev' = [dev EXCEPT ![i] = y] BY <2>1, <2>3, Zenon DEF Claimed
  <2>5. /\ y \in DevType /\ y.st = "opening" /\ y.claimed /\ y.urb = "idle" /\ y.cb /\ y.num = InBuffer /\ y.pos = 0
        /\ ~y.told /\ ~y.poll /\ ~y.wake /\ AtRest(y.out) /\ AtRest(y.ctl) /\ y.out.want = "none" /\ y.failed = dev[i].failed
    <3>1. Size \in 0 .. InBuffer + 1 /\ Size = InBuffer
      BY SizeIs, ConstantsAre
    <3> QED BY <1>3, <1>4, <2>3, <3>1 DEF DevType, Blank, InDone
  <2>6. Used(y) BY <2>5, SizeIs, ConstantsAre DEF Used, HasRoom
  <2>7. OneIs(i, y) /\ dev'[i] = y BY <2>4, <2>5, OneChanges DEF OneIs
  <2>8. op' \in OpType /\ op'.by = "user" /\ op'.i = i /\ op'.pc = "submit"
    BY <1>2, <1>3, <2>1, Known DEF OpType
  <2>9. Listed' = Listed /\ DevicesAre' /\ ClientPlace' /\ WriterPlace' /\ WakeKnown'
    BY <1>1, <1>3, <1>7, <2>2, <2>5, <2>6, <2>7, <2>8, OpeningMoves DEF Closing, InDone
  <2>10. OpPlace' BY <1>1, <1>3, <1>7, <2>5, <2>7, <2>8 DEF OpPlace, Closing
  <2>11. Handle' BY <1>1, <1>3, <1>5, <2>1, <2>2, <2>8 DEF AcmInv, Handle
  <2>12. Messages'
    <3>1. susp => \A j \in Dev : dev'[j].urb \notin {"flight", "doneok", "doneerr"}
      BY <2>5, <2>7 DEF AcmInv, Messages, OneIs
    <3> QED BY <1>1, <2>2, <3>1, IdleMessages
  <2>13. Polling' BY <1>1, <2>2, <2>5, <2>7, <2>8, IdlePolling
  <2>14. TypeOK' BY <1>1, <2>1, <2>7, <2>8, Known, TypesWillBe DEF OneIs
  <2> QED BY <1>1, <2>9, <2>10, <2>11, <2>12, <2>13, <2>14, InvIs DEF Parts
<1>8. CASE ~(info[i].ok /\ bus = "present")
  <2>1. op' = NoOp /\ Removed(i, [j \in Dev |-> IF info[i].ok /\ SameInterface(i, j) /\ Quiescent(dev[j])
                                                THEN [dev[j] EXCEPT !.claimed = FALSE] ELSE dev[j]])
    BY <1>2, <1>8 DEF OpenClaim
  <2>2. [j \in Dev |-> IF info[i].ok /\ SameInterface(i, j) /\ Quiescent(dev[j])
                       THEN [dev[j] EXCEPT !.claimed = FALSE] ELSE dev[j]] = dev
    <3>1. \A j \in Dev : ~(info[i].ok /\ SameInterface(i, j) /\ Quiescent(dev[j]))
      BY <1>6
    <3>2. dev = [j \in Dev |-> dev[j]] BY Known
    <3> QED BY <3>1, <3>2
  <2>3. Removed(i, dev) BY <2>1, <2>2
  <2>4. PICK y \in DevType : /\ OneIs(i, y) /\ Blank(y) /\ ~y.cb /\ y.st = "free" /\ y.urb = "null"
                             /\ ~y.claimed /\ y.out.want = "none"
                             /\ hdl' = IF \E j \in Dev : j # i /\ dev[j].claimed THEN hdl ELSE 0
    BY <2>3, RemovedIs
  <2>5. op' \in OpType /\ op'.by = "none" /\ op'.i = 0 /\ op'.pc = "none"
    BY <2>1 DEF NoOp, OpType
  <2>6. Listed' = Listed /\ DevicesAre' /\ ClientPlace' /\ WriterPlace' /\ WakeKnown'
    BY <1>1, <1>3, <1>5, <2>4, <2>5, OpeningMoves DEF Closing, InDone
  <2>7. OpPlace' BY <2>5 DEF OpPlace, Closing
  <2>8. Handle' BY <1>1, <1>3, <1>5, <2>1, <2>4, HandleStays
  <2>9. susp => \A j \in Dev : dev'[j].urb \notin {"flight", "doneok", "doneerr"}
    BY <2>4 DEF AcmInv, Messages, OneIs
  <2>10. Messages'
    <3>1. CASE ClientIdle BY <1>1, <2>9, <3>1, IdleMessages
    <3>2. CASE bus = "gone" /\ client.pc = "cb" /\ client.kind = "gone"
      <4>1. ~Suspends /\ ~Resumes /\ ~GoneNews BY <3>2 DEF AcmInv, Messages
      <4>2. ~Suspends' /\ ~Resumes' /\ ~GoneNews' /\ (News(msgs)' <=> News(msgs))
        BY <1>1, <4>1 DEF Suspends, Resumes, GoneNews, News
      <4> QED BY <1>1, <2>5, <2>9, <3>2, <4>1, <4>2 DEF AcmInv, Messages
    <3> QED BY <1>3, <3>1, <3>2
  <2>11. Polling'
    <3>1. CASE ClientIdle BY <1>1, <2>4, <3>1, IdlePolling
    <3>2. CASE bus = "gone" BY <1>1, <3>2 DEF Polling
    <3> QED BY <1>3, <3>1, <3>2
  <2>12. TypeOK'
    <3>1. hdl' \in 0..MaxPlugs BY <2>4, Known, ConstantsAre
    <3> QED BY <1>1, <2>4, <2>5, <3>1, Known, TypesWillBe DEF OneIs
  <2> QED BY <1>1, <2>6, <2>7, <2>8, <2>10, <2>11, <2>12, InvIs DEF Parts
<1> QED BY <1>7, <1>8

\* The transfers are accepted; a suspended port is resumed.
LEMMA OpenSubmitKeeps ==
    ASSUME AcmInv, OpenSubmit
    PROVE  AcmInv'
<1>1. /\ op.pc = "submit" /\ (op.by = "user" => Others)
      /\ UNCHANGED <<drv, bus, plugs, info, wakes, calls, env, hdl, client, writer>>
  BY DEF OpenSubmit, Holding, outside, fixed
<1>2. PICK i \in Dev : op.i = i BY <1>1, OpenerIs
<1>3. /\ op.by = "user" /\ dev[i].st = "opening" /\ drv = "up" /\ ClientIdle
      /\ \A j \in Dev : dev[j].st = "opening" => j = i
  BY <1>1, <1>2, OpenerIs
<1>4. client.pc = "idle" /\ client.kind = "none" /\ msgs = <<>>
  BY <1>3, IdleIs
<1>5. dev[i].claimed /\ dev[i].urb = "idle" /\ bus = "present"
  BY <1>1, <1>2 DEF AcmInv, OpPlace
<1>6. Used(dev[i]) /\ dev[i] \in DevType /\ dev[i].out.want = "none" /\ info[i].ok
  BY <1>5, AllSound, KindsDiffer DEF Sound, AcmInv, WriterPlace, DevicesAre
<1>7. CanPoll(dev[i]) /\ ~dev[i].poll
  BY <1>5, <1>6 DEF CanPoll, Used, HasRoom
<1>8. crash' = crash
  <2>1. Fails(CanPoll(dev[i]), "submit in start") BY <1>2 DEF OpenSubmit
  <2> QED BY <1>7, <2>1, NothingFails
<1>9. PICK y \in DevType : /\ y = Polled(dev[i]) /\ Used(y) /\ Alike(dev[i], y) /\ y.failed = dev[i].failed
                           /\ y.urb = IF dev[i].urb = "idle" /\ bus = "present" THEN "flight" ELSE dev[i].urb
  BY <1>6, PolledIs
<1>10. y.urb = "flight" /\ y.st = "opening" /\ y.claimed /\ y.out.want = "none"
  BY <1>3, <1>5, <1>6, <1>9 DEF Alike
<1>11. OneIs(i, y) /\ dev'[i] = y
  <2>1. dev' = [dev EXCEPT ![i] = y] BY <1>2, <1>9, Zenon DEF OpenSubmit
  <2> QED BY <2>1, OneChanges DEF OneIs
<1>12. PICK p \in {"notif", "insert"} : op' = [op EXCEPT !.pc = p]
  BY <1>2 DEF OpenSubmit, Now
<1>13. op' \in OpType /\ op'.by = "user" /\ op'.i = i /\ op'.pc \in {"notif", "insert"}
  BY <1>2, <1>3, <1>12, Known DEF OpType
<1>14. susp' = FALSE /\ msgs' = IF susp THEN <<"res">> ELSE msgs
  <2>1. Woken(WakesPort(dev[i])) BY <1>2 DEF OpenSubmit
  <2>2. WakesPort(dev[i]) <=> susp BY <1>5, <1>7 DEF WakesPort
  <2>3. Len(<<>>) < QueueLen /\ Append(<<>>, "res") = <<"res">>
    BY Spared, ConstantsAre
  <2>4. CASE susp
    <3>1. susp' = FALSE /\ msgs' = Post(msgs, "res")
      BY <2>1, <2>2, <2>4 DEF Woken
    <3> QED BY <1>4, <2>3, <2>4, <3>1, Zenon DEF Post
  <2>5. CASE ~susp BY <2>1, <2>2, <2>5, Known DEF Woken
  <2> QED BY <2>4, <2>5
<1>15. Listed' = Listed /\ DevicesAre' /\ ClientPlace' /\ WriterPlace' /\ WakeKnown'
  BY <1>1, <1>3, <1>4, <1>5, <1>6, <1>9, <1>10, <1>11, <1>13, OpeningMoves DEF Closing, InDone
<1>16. OpPlace'
  BY <1>1, <1>5, <1>10, <1>11, <1>13, <1>14 DEF OpPlace, Closing
<1>17. Handle' BY <1>1, <1>3, <1>4, <1>5, <1>13 DEF AcmInv, Handle
<1>18. <<"res">> # <<>> /\ <<"res">> # <<"susp">> /\ <<"res">> # <<"susp", "res">> /\ Head(<<"res">>) = "res"
  OBVIOUS
<1>19. /\ susp => "suspend" \in env /\ Resumes' /\ ~Suspends' /\ ~GoneNews'
       /\ ~susp => ~Resumes' /\ ~Suspends' /\ ~GoneNews' /\ News(msgs)'
  <2>1. CASE susp
    BY <1>14, <1>18, <2>1 DEF AcmInv, Messages, Resumes, Suspends, GoneNews
  <2>2. CASE ~susp
    <3>1. msgs' = <<>> BY <1>4, <1>14, <2>2
    <3> QED BY <2>2, <3>1 DEF Resumes, Suspends, GoneNews, News
  <2> QED BY <2>1, <2>2
<1>20. Messages'
  BY <1>1, <1>4, <1>5, <1>13, <1>14, <1>19 DEF AcmInv, Messages
<1>21. Polling'
  <2> SUFFICES ASSUME NEW j \in Dev, dev'[j].claimed, dev'[j].cb, ~dev'[j].failed
               PROVE  Polls(dev'[j]) \/ (dev'[j].st = "listed" /\ Resumes')
    BY DEF Polling
  <2>1. CASE j = i BY <1>10, <1>11, <2>1 DEF Polls
  <2>2. CASE j # i
    <3>1. dev'[j] = dev[j] BY <1>11, <2>2 DEF OneIs
    <3>2. dev[j].st = "listed"
      BY <1>3, <2>2, <3>1, AllSound, KindsDiffer, Known DEF DevType
    <3>3. CASE susp BY <1>19, <3>1, <3>2, <3>3
    <3>4. CASE ~susp
      <4>1. ~Resumes /\ op.i # j BY <1>2, <1>3, <2>2, IdleIs
      <4> QED BY <1>4, <1>5, <3>1, <3>4, <4>1 DEF AcmInv, Polling
    <3> QED BY <3>3, <3>4
  <2> QED BY <2>1, <2>2
<1>22. TypeOK'
  <2>1. msgs' \in Seq(News4) /\ Len(msgs') <= QueueLen
    <3>1. <<"res">> \in Seq(News4) /\ Len(<<"res">>) = 1 /\ 1 <= QueueLen
      BY Spared, ConstantsAre DEF News4
    <3>2. CASE susp BY <1>14, <3>1, <3>2, Zenon
    <3>3. CASE ~susp BY <1>14, <3>3, Known
    <3> QED BY <3>2, <3>3
  <2> QED BY <1>1, <1>11, <1>13, <1>14, <2>1, Known, TypesWillBe DEF OneIs
<1> QED BY <1>1, <1>8, <1>15, <1>16, <1>17, <1>20, <1>21, <1>22, InvIs DEF Parts

\* An interface for the notifications is claimed, of a device that is there.
LEMMA OpenNotifKeeps ==
    ASSUME AcmInv, OpenNotif
    PROVE  AcmInv'
<1>1. /\ op.pc = "notif" /\ (op.by = "user" => Others) /\ bus = "present"
      /\ UNCHANGED <<drv, bus, plugs, info, wakes, calls, env, susp, msgs, client, writer>>
  BY DEF OpenNotif, Holding, outside, fixed, AcmInv, OpPlace
<1>2. op' = [op EXCEPT !.pc = "insert"] /\ UNCHANGED <<hdl, dev, crash>>
  BY <1>1 DEF OpenNotif, Now
<1>3. PICK i \in Dev : op.i = i BY <1>1, OpenerIs
<1>4. /\ op.by = "user" /\ dev[i].st = "opening" /\ drv = "up" /\ ClientIdle
      /\ \A j \in Dev : dev[j].st = "opening" => j = i
  BY <1>1, <1>3, OpenerIs
<1>5. op' \in OpType /\ op'.by = "user" /\ op'.i = i /\ op'.pc = "insert"
  BY <1>2, <1>3, <1>4, Known DEF OpType
<1>6. client.pc = "idle" /\ client.kind = "none" BY <1>4, IdleIs
<1>7. /\ dev[i] \in DevType /\ dev[i].out.want = "none" /\ (Blank(dev[i]) \/ Used(dev[i]))
      /\ (dev[i].claimed => info[i].ok) /\ dev[i].urb \notin InDone /\ dev[i].claimed /\ ~susp
  BY <1>1, <1>3, <1>4, Known, IdleIs DEF AcmInv, WriterPlace, DevicesAre, OpPlace
<1>8. OneIs(i, dev[i]) BY <1>2, Known DEF OneIs
<1>9. Listed' = Listed /\ DevicesAre' /\ ClientPlace' /\ WriterPlace' /\ WakeKnown'
  BY <1>1, <1>2, <1>4, <1>5, <1>6, <1>7, <1>8, OpeningMoves DEF Closing
<1>10. OpPlace' BY <1>1, <1>2, <1>4, <1>5, <1>7 DEF OpPlace, Closing
<1>11. Handle' BY <1>1, <1>2, <1>4, <1>5, <1>6 DEF AcmInv, Handle
<1>12. Messages' BY <1>1, <1>2, <1>4, IdleMessages DEF AcmInv, Messages
<1>13. Polling'
  <2>1. dev[i].claimed /\ dev[i].cb /\ ~dev[i].failed => Polls(dev[i])
    BY <1>1, <1>4, <1>6, <1>7 DEF AcmInv, Polling
  <2> QED BY <1>1, <1>4, <1>7, <1>8, <2>1, IdlePolling
<1>14. TypeOK' BY <1>1, <1>2, <1>5, Known, TypesWillBe
<1> QED BY <1>1, <1>2, <1>9, <1>10, <1>11, <1>12, <1>13, <1>14, InvIs DEF Parts

\* The pseudo-device is put into the list.
LEMMA OpenInsertKeeps ==
    ASSUME AcmInv, OpenInsert
    PROVE  AcmInv'
<1>1. /\ op.pc = "insert" /\ (op.by = "user" => Others) /\ op' = NoOp
      /\ UNCHANGED <<drv, bus, plugs, info, wakes, calls, env, susp, msgs, hdl, client, writer, crash>>
  BY DEF OpenInsert, Holding, outside, fixed
<1>2. PICK i \in Dev : op.i = i BY <1>1, OpenerIs
<1>3. /\ op.by = "user" /\ dev[i].st = "opening" /\ drv = "up" /\ ClientIdle
      /\ \A j \in Dev : dev[j].st = "opening" => j = i
  BY <1>1, <1>2, OpenerIs
<1>4. client.pc = "idle" /\ client.kind = "none" BY <1>3, IdleIs
<1>5. dev[i].claimed /\ bus = "present" /\ ~susp
  BY <1>1, <1>2 DEF AcmInv, OpPlace
<1>6. Used(dev[i]) /\ dev[i] \in DevType /\ dev[i].out.want = "none" /\ info[i].ok /\ dev[i].urb \notin InDone
  BY <1>3, <1>5, AllSound, KindsDiffer, IdleIs DEF Sound, AcmInv, WriterPlace, DevicesAre
<1>7. PICK y : y = [dev[i] EXCEPT !.st = "listed"] OBVIOUS
<1>8. /\ y \in DevType /\ y.st = "listed" /\ y.claimed /\ y.urb = dev[i].urb /\ y.cb = dev[i].cb /\ y.told = dev[i].told
      /\ y.wake = dev[i].wake /\ y.poll = dev[i].poll /\ y.failed = dev[i].failed
      /\ y.pos = dev[i].pos /\ y.num = dev[i].num /\ y.len = dev[i].len /\ y.out = dev[i].out /\ y.ctl = dev[i].ctl
  BY <1>5, <1>6, <1>7 DEF DevType
<1>9. Used(y) /\ AtRest(y.out) /\ AtRest(y.ctl) /\ ~y.wake /\ ~y.told
  BY <1>3, <1>6, <1>8 DEF Used, HasRoom
<1>10. OneIs(i, y) /\ dev'[i] = y
  <2>1. dev' = [dev EXCEPT ![i] = y] BY <1>2, <1>7, Zenon DEF OpenInsert
  <2> QED BY <1>8, <2>1, OneChanges DEF OneIs
<1>11. op' \in OpType /\ op'.by = "none" /\ op'.i = 0 /\ op'.pc = "none"
  BY <1>1 DEF NoOp, OpType
<1>12. WriterPlace' /\ WakeKnown'
  BY <1>1, <1>3, <1>6, <1>8, <1>9, <1>10, <1>11, UnlistedMoves DEF Closing
<1>13. DevicesAre'
  <2> SUFFICES ASSUME NEW j \in Dev
               PROVE  /\ Blank(dev[j])' \/ Used(dev[j])'
                      /\ dev'[j].st # "opening"
                      /\ dev'[j].claimed => info[j].ok
                      /\ dev'[j].urb = "flight" => bus = "present"
                      /\ dev'[j].told => bus = "gone"
    BY <1>1 DEF DevicesAre
  <2>1. CASE j = i
    <3>1. Used(dev[j])' BY <1>1, <1>9, <1>10, <2>1 DEF Used, HasRoom, Size
    <3> QED BY <1>5, <1>6, <1>8, <1>9, <1>10, <2>1, <3>1
  <2>2. CASE j # i
    <3>1. dev'[j] = dev[j] BY <1>10, <2>2 DEF OneIs
    <3>2. Blank(dev[j])' \/ Used(dev[j])'
      BY <1>1, <3>1 DEF AcmInv, DevicesAre, Blank, Used, HasRoom, Size
    <3> QED BY <1>3, <2>2, <3>1, <3>2 DEF AcmInv, DevicesAre
  <2> QED BY <2>1, <2>2
<1>14. OpPlace' BY <1>11 DEF OpPlace, Closing
<1>15. Handle'
  <2>1. i \in Listed' BY <1>8, <1>10 DEF Listed
  <2>2. hdl # 0 BY <1>1 DEF AcmInv, Handle
  <2> QED BY <1>1, <1>3, <1>4, <2>1, <2>2 DEF AcmInv, Handle
<1>16. Messages' BY <1>1, <1>3, <1>5, IdleMessages
<1>17. ClientPlace' BY <1>1, <1>4 DEF AcmInv, ClientPlace
<1>18. Polling'
  <2>1. y.claimed /\ y.cb /\ ~y.failed => Polls(y)
    BY <1>1, <1>3, <1>4, <1>5, <1>8 DEF AcmInv, Polling, Polls
  <2> QED BY <1>1, <1>3, <1>8, <1>10, <2>1, IdlePolling
<1>19. TypeOK' BY <1>1, <1>10, <1>11, Known, TypesWillBe DEF OneIs
<1> QED BY <1>1, <1>12, <1>13, <1>14, <1>15, <1>16, <1>17, <1>18, <1>19, InvIs DEF Parts

-----------------------------------------------------------------------------
(* cdc_acm_host_close() *)

\* The transfers of the writing task stay as they are.
LEMMA XfersStay ==
    ASSUME AcmInv, UNCHANGED <<writer, env>>,
           \A j \in Dev : dev'[j].out = dev[j].out /\ dev'[j].ctl = dev[j].ctl /\ dev'[j].st = dev[j].st
    PROVE  WriterPlace' /\ (Answered' <=> Answered) /\ (Answered => dev'[writer'.i].ctl = dev[writer.i].ctl)
<1>1. writer' = writer /\ env' = env OBVIOUS
<1>2. writer.pc = "wait" => /\ writer.i \in Dev /\ dev'[writer.i].st = dev[writer.i].st
                            /\ dev'[writer.i].ctl = dev[writer.i].ctl
  BY DEF AcmInv, WriterPlace
<1>3. WriterPlace'
  <2>1. /\ writer'.pc = "idle" <=> writer'.i = 0
        /\ writer'.pc = "wait" => writer'.i \in Dev /\ dev'[writer'.i].st = "listed"
        /\ writer'.pc = "wait" => env' \cap ({"out"} \cup Asks) # {}
        /\ writer'.pc = "wait" /\ writer'.k = "ctl" =>
              env' \cap Asks # {} /\ (dev'[writer'.i].ctl.urb # "idle" \/ dev'[writer'.i].ctl.sem)
    BY <1>1, <1>2 DEF AcmInv, WriterPlace
  <2>2. \A j \in Dev : (Waits(j, "out")' <=> Waits(j, "out")) /\ (Waits(j, "ctl")' <=> Waits(j, "ctl"))
    BY <1>1 DEF Waits
  <2> QED BY <1>1, <2>1, <2>2 DEF AcmInv, WriterPlace
<1>4. (Answered' <=> Answered) /\ (Answered => dev'[writer'.i].ctl = dev[writer.i].ctl)
  BY <1>1, <1>2 DEF Answered
<1> QED BY <1>3, <1>4

\* No callback is called from now on; the remote wakeup is off, if the device is there.
LEMMA CloseBegins ==
    ASSUME AcmInv, NEW i \in Dev, NEW t \in {"user", "client"}, op.by = "none", dev[i].st = "listed", writer.i # i,
           Detached(i), op' = [by |-> t, pc |-> "flush", i |-> i], bus = "present" => ~wakes,
           UNCHANGED <<drv, bus, plugs, info, wakes, env, susp, msgs, hdl, writer, crash>>, calls' \in 0..MaxCalls,
           \/ t = "user" /\ ClientIdle /\ client' = client
           \/ /\ t = "client" /\ "incb" \in env /\ client.pc = "cb" /\ client.i = i
              /\ client' = [client EXCEPT !.pc = "closing"]
    PROVE  AcmInv'
<1>1. dev[i].claimed /\ Used(dev[i]) /\ dev[i] \in DevType /\ hdl # 0 /\ i # 0
  BY AllSound, KindsDiffer, ConstantsAre DEF Sound, AcmInv, Handle
<1>2. PICK y : y = [[dev[i] EXCEPT !.cb = FALSE] EXCEPT !.poll = FALSE]
  OBVIOUS
<1>3. /\ y \in DevType /\ y.st = "listed" /\ y.claimed /\ y.urb = dev[i].urb /\ ~y.cb /\ ~y.poll /\ y.told = dev[i].told
      /\ y.wake = dev[i].wake /\ y.failed = dev[i].failed
      /\ y.pos = dev[i].pos /\ y.num = dev[i].num /\ y.len = dev[i].len /\ y.out = dev[i].out /\ y.ctl = dev[i].ctl
  <2>1. PICK z : z = [dev[i] EXCEPT !.cb = FALSE] OBVIOUS
  <2>2. /\ z \in DevType /\ z.st = "listed" /\ z.claimed /\ z.urb = dev[i].urb /\ ~z.cb /\ z.told = dev[i].told
        /\ z.wake = dev[i].wake /\ z.failed = dev[i].failed
        /\ z.pos = dev[i].pos /\ z.num = dev[i].num /\ z.len = dev[i].len /\ z.out = dev[i].out /\ z.ctl = dev[i].ctl
    BY <1>1, <2>1 DEF DevType
  <2>3. y = [z EXCEPT !.poll = FALSE] BY <1>2, <2>1
  <2> QED BY <2>2, <2>3 DEF DevType
<1>4. Used(y) BY <1>1, <1>3 DEF Used, HasRoom
<1>5. OneIs(i, y) /\ dev'[i] = y
  <2>1. dev' = [dev EXCEPT ![i] = y] BY <1>2, Zenon DEF Detached
  <2> QED BY <1>3, <2>1, OneChanges DEF OneIs
<1>6. \A j \in Dev : j # i => dev'[j] = dev[j] BY <1>5 DEF OneIs
<1>7. op' \in OpType /\ op'.by = t /\ op'.i = i /\ op'.pc = "flush"
  BY DEF OpType
<1>8. op.pc = "none" /\ op.i = 0 /\ \A j \in Dev : dev[j].st # "opening"
  BY ConstantsAre DEF AcmInv, OpPlace, DevicesAre
<1>9. \/ t = "user" /\ client.pc = "idle" /\ client.kind = "none" /\ client' = client
      \/ /\ t = "client" /\ client.pc = "cb" /\ client.kind = "gone" /\ bus = "gone" /\ client'.pc = "closing"
         /\ client'.kind = "gone" /\ client'.cur = client.cur /\ client'.i = i
  <2>1. CASE t = "user" BY <2>1, IdleIs
  <2>2. CASE t = "client"
    <3>1. client.pc = "cb" /\ client.i = i /\ client' = [client EXCEPT !.pc = "closing"]
      BY <2>2
    <3>2. client.kind = "gone" BY <3>1 DEF AcmInv, ClientPlace
    <3>3. bus = "gone" BY <1>1, <3>2 DEF AcmInv, ClientPlace
    <3>4. client'.pc = "closing" /\ client'.kind = "gone" /\ client'.cur = client.cur /\ client'.i = i
      BY <3>1, <3>2, Known DEF ClientType
    <3> QED BY <2>2, <3>1, <3>2, <3>3, <3>4
  <2> QED BY <2>1, <2>2
<1>10. client' \in ClientType BY Known DEF ClientType
<1>11. Listed' = Listed /\ (WakeStatus' <=> WakeStatus)
  BY <1>3, <1>5, ListIs DEF OneIs
<1>12. ~Suspends /\ ~Resumes /\ (GoneNews => t = "client" /\ client.pc = "idle")
  BY <1>9, IdleIs DEF AcmInv, Messages
<1>13. DevicesAre'
  <2> SUFFICES ASSUME NEW j \in Dev
               PROVE  /\ Blank(dev[j])' \/ Used(dev[j])'
                      /\ dev'[j].st # "opening"
                      /\ dev'[j].claimed => info[j].ok
                      /\ dev'[j].urb = "flight" => bus = "present"
                      /\ dev'[j].told => bus = "gone"
    BY DEF DevicesAre
  <2>1. CASE j = i
    <3>1. Used(dev[j])' BY <1>4, <1>5, <2>1 DEF Used, HasRoom, Size
    <3> QED BY <1>1, <1>3, <1>5, <2>1, <3>1 DEF AcmInv, DevicesAre
  <2>2. CASE j # i
    <3>1. Blank(dev[j])' \/ Used(dev[j])'
      BY <1>6, <2>2 DEF AcmInv, DevicesAre, Blank, Used, HasRoom, Size
    <3> QED BY <1>6, <1>8, <2>2, <3>1 DEF AcmInv, DevicesAre
  <2> QED BY <2>1, <2>2
<1>14. OpPlace' BY <1>3, <1>5, <1>7, <1>9 DEF OpPlace, Closing
<1>15. Handle'
  <2>1. drv = "up" BY <1>1 DEF AcmInv, Handle
  <2>2. client'.pc # "new" BY <1>9
  <2> QED BY <1>1, <1>7, <2>1, <2>2 DEF AcmInv, Handle
<1>16. Messages'
  <2>1. \A j \in Dev : dev'[j].urb = dev[j].urb BY <1>3, <1>5, <1>6
  <2>2. ~Suspends' /\ ~Resumes' /\ (GoneNews' <=> GoneNews) /\ (News(msgs)' <=> News(msgs))
    BY <1>12 DEF Suspends, Resumes, GoneNews, News
  <2>3. ~GoneNews BY <1>9, <1>12
  <2>4. client'.kind \in {"none", "gone"} /\ (client'.kind = "gone" => op'.by = "client" /\ bus = "gone")
    BY <1>7, <1>9
  <2> QED BY <1>12, <2>1, <2>2, <2>3, <2>4 DEF AcmInv, Messages
<1>17. ClientPlace'
  <2>1. \A j \in Dev : dev'[j].urb = dev[j].urb /\ dev'[j].st = dev[j].st
    BY <1>3, <1>5, <1>6
  <2>2. CASE t = "user" BY <1>9, <2>2 DEF AcmInv, ClientPlace
  <2>3. CASE t = "client"
    <3>1. client.cur # 0 => client.cur \in Dev BY Known DEF ClientType
    <3> QED BY <1>7, <1>9, <2>1, <2>3, <3>1 DEF AcmInv, ClientPlace
  <2> QED BY <2>2, <2>3
<1>18. \A j \in Dev : dev'[j].out = dev[j].out /\ dev'[j].ctl = dev[j].ctl /\ dev'[j].st = dev[j].st
  BY <1>3, <1>5, <1>6
<1>19. WriterPlace' /\ (Answered' <=> Answered) /\ (Answered => dev'[writer'.i].ctl = dev[writer.i].ctl)
  BY <1>18, XfersStay
<1>20. WakeKnown'
  <2> SUFFICES ASSUME bus = "present"
               PROVE  /\ Answered' => (wakes <=> dev'[writer'.i].ctl.want = "on")
                      /\ ~Answered' => (wakes <=> WakeStatus')
                      /\ dev'[i].wake => (Answered' /\ dev'[writer'.i].ctl.want = "off")
    BY <1>7 DEF WakeKnown
  <2>1. Answered => dev[writer.i].ctl.want \in {"on", "off"}
    BY Known DEF Answered, AcmInv, WriterPlace, DevType, XferType
  <2>2. ~wakes /\ (Answered => dev[writer.i].ctl.want # "on") /\ (~Answered => ~WakeStatus)
    BY DEF AcmInv, WakeKnown
  <2>3. dev[i].wake => WakeStatus BY DEF WakeStatus, Listed
  <2> QED BY <1>3, <1>5, <1>11, <1>19, <2>1, <2>2, <2>3
<1>21. Polling'
  <2> SUFFICES ASSUME bus = "present", ~susp, NEW j \in Dev, dev'[j].claimed, dev'[j].cb, ~dev'[j].failed
               PROVE  Polls(dev'[j])
    BY DEF Polling
  <2>1. j # i /\ dev'[j] = dev[j] BY <1>3, <1>5, <1>6
  <2>2. client.kind = "none" BY <1>9
  <2> QED BY <1>8, <1>12, <2>1, <2>2 DEF AcmInv, Polling
<1>22. TypeOK' BY <1>5, <1>7, <1>10, Known, TypesWillBe DEF OneIs
<1> QED BY <1>13, <1>14, <1>15, <1>16, <1>17, <1>19, <1>20, <1>21, <1>22, InvIs DEF Parts

\* The application closes.
LEMMA UserCloseKeeps ==
    ASSUME AcmInv, NEW i \in Dev, UserClose(i)
    PROVE  AcmInv'
<1>1. /\ calls < MaxCalls /\ calls' = calls + 1 /\ Others /\ writer.i # i /\ NoWake /\ op.by = "none" /\ dev[i].st = "listed"
      /\ Detached(i) /\ op' = [by |-> "user", pc |-> "flush", i |-> i]
      /\ UNCHANGED <<drv, bus, plugs, info, wakes, env, susp, msgs, hdl, client, writer, crash>>
  BY DEF UserClose, Call, CloseBegin, fixed, Unlocked
<1>2. ClientIdle /\ ~wakes /\ calls' \in 0..MaxCalls
  BY <1>1, OthersAre, Spared, Known, ConstantsAre DEF NoWake
<1> QED BY <1>1, <1>2, CloseBegins

\* ... once it was told that the device is gone.
LEMMA CloseToldKeeps ==
    ASSUME AcmInv, NEW i \in Dev, CloseTold(i)
    PROVE  AcmInv'
<1>1. /\ Others /\ writer.i # i /\ dev[i].told /\ op.by = "none" /\ dev[i].st = "listed"
      /\ Detached(i) /\ op' = [by |-> "user", pc |-> "flush", i |-> i]
      /\ UNCHANGED <<drv, bus, plugs, info, wakes, calls, env, susp, msgs, hdl, client, writer, crash>>
  BY DEF CloseTold, CloseBegin, outside, fixed, Unlocked
<1>2. ClientIdle /\ bus = "gone" BY <1>1, OthersAre DEF AcmInv, DevicesAre
<1>3. calls' \in 0..MaxCalls BY <1>1, Known
<1> QED BY <1>1, <1>2, <1>3, CloseBegins

\* The task that closes, and who runs besides it
LEMMA CloserIs ==
    ASSUME AcmInv, op.pc \in Closing, op.by = "user" => Others
    PROVE  /\ op.i \in Dev /\ dev[op.i].st = "listed" /\ dev[op.i].claimed /\ ~dev[op.i].cb /\ writer.i # op.i
           /\ hdl # 0 /\ drv = "up" /\ \A j \in Dev : dev[j].st # "opening"
           /\ \/ op.by = "user" /\ ClientIdle
              \/ op.by = "client" /\ client.pc = "closing" /\ client.i = op.i /\ bus = "gone" /\ "incb" \in env
<1>1. op.i \in Dev /\ dev[op.i].st = "listed" /\ ~dev[op.i].cb /\ writer.i # op.i /\ op.by \in {"user", "client"}
  BY Known DEF AcmInv, OpPlace, Closing, OpType
<1>2. dev[op.i].claimed BY <1>1, AllSound, KindsDiffer
<1>3. hdl # 0 /\ drv = "up" BY <1>1, <1>2 DEF AcmInv, Handle
<1>4. \A j \in Dev : dev[j].st # "opening" BY <1>1 DEF AcmInv, DevicesAre
<1>5. op.by = "user" => ClientIdle BY OthersAre DEF Closing
<1>6. op.by = "client" => client.pc = "closing" /\ client.i = op.i /\ bus = "gone" /\ "incb" \in env
  BY <1>3 DEF AcmInv, OpPlace, ClientPlace
<1> QED BY <1>1, <1>2, <1>3, <1>4, <1>5, <1>6

\* cdc_acm_reset_transfer_endpoint()
LEMMA CloseFlushKeeps ==
    ASSUME AcmInv, CloseFlush
    PROVE  AcmInv'
<1>1. /\ op.pc = "flush" /\ (op.by = "user" => Others) /\ op' = [op EXCEPT !.pc = "release"]
      /\ dev' = [dev EXCEPT ![op.i] = Flushed(@)]
      /\ UNCHANGED <<drv, bus, plugs, info, wakes, calls, env, susp, msgs, hdl, client, writer, crash>>
  BY DEF CloseFlush, Holding, Now, outside, fixed
<1>2. PICK i \in Dev : op.i = i BY <1>1, CloserIs DEF Closing
<1>3. /\ dev[i].st = "listed" /\ dev[i].claimed /\ ~dev[i].cb
      /\ \/ op.by = "user" /\ ClientIdle
         \/ op.by = "client" /\ client.pc = "closing" /\ bus = "gone"
  BY <1>1, <1>2, CloserIs DEF Closing
<1>4. dev[i] \in DevType /\ Used(dev[i])
  BY <1>3, AllSound, KindsDiffer DEF Sound
<1>5. dev[i].urb \in {"idle", "flight"} /\ (dev[i].urb = "flight" => client.pc = "idle" /\ client.kind = "none")
  <2>1. dev[i].urb \notin InDone
    <3>1. client.pc = "closing" => client.kind = "gone"
      BY DEF AcmInv, ClientPlace
    <3> QED BY <1>3, <3>1, IdleIs DEF AcmInv, ClientPlace
  <2>2. dev[i].urb = "flight" => bus = "present" BY DEF AcmInv, DevicesAre
  <2> QED BY <1>3, <1>4, <2>1, <2>2, IdleIs DEF DevType, Used
<1>6. PICK y \in DevType : /\ dev' = [dev EXCEPT ![i] = y] /\ Used(y) /\ Alike(dev[i], y)
                           /\ y.urb = IF dev[i].urb = "flight" THEN "doneno" ELSE "idle"
  <2>1. CASE dev[i].urb = "flight"
    <3>1. PICK y : y = [dev[i] EXCEPT !.urb = "doneno"] OBVIOUS
    <3>2. y \in DevType /\ Alike(dev[i], y) /\ y.urb = "doneno" /\ y.pos = dev[i].pos /\ y.num = dev[i].num /\ y.len = dev[i].len
      BY <1>4, <3>1 DEF DevType, Alike, InDone
    <3>3. Used(y) BY <1>4, <3>2 DEF Used, Alike, HasRoom
    <3>4. dev' = [dev EXCEPT ![i] = y]
      BY <1>1, <1>2, <2>1, <3>1, Zenon DEF Flushed
    <3> QED BY <2>1, <3>2, <3>3, <3>4
  <2>2. CASE dev[i].urb # "flight"
    <3>1. dev' = [dev EXCEPT ![i] = dev[i]]
      BY <1>1, <1>2, <2>2, Zenon DEF Flushed
    <3> QED BY <1>4, <1>5, <2>2, <3>1 DEF Alike
  <2> QED BY <2>1, <2>2
<1>7. OneIs(i, y) /\ ~y.cb BY <1>3, <1>6, OneChanges DEF Alike
<1>8. Parts'
  <2>1. y.urb \in {"idle", "doneno"} /\ y.urb # "flight" BY <1>6
  <2>2. client.pc = "idle" \/ y.urb # "doneno" BY <1>5, <1>6
  <2>3. client.kind # "gone" \/ y.urb \notin InDone BY <1>5, <1>6 DEF InDone
  <2>4. op.pc # "submit" /\ ~Polls(y) BY <1>1, <2>1 DEF Polls
  <2> QED BY <1>1, <1>2, <1>4, <1>6, <1>7, <2>1, <2>2, <2>3, <2>4, PollMoves
<1>9. op' \in OpType BY <1>1, Known DEF OpType
<1>10. TypeOK' BY <1>1, <1>7, <1>9, Known, TypesWillBe DEF OneIs
<1> QED BY <1>1, <1>8, <1>10, InvIs

\* The interfaces are released, and the pseudo-device is taken from the list: nothing of it
\* is used any more.
LEMMA CloseReleaseKeeps ==
    ASSUME AcmInv, CloseRelease
    PROVE  AcmInv'
<1>1. /\ op.pc = "release" /\ (op.by = "user" => Others) /\ op' = NoOp
      /\ UNCHANGED <<drv, bus, plugs, info, wakes, calls, env, susp, msgs, client, writer>>
  BY DEF CloseRelease, Holding, outside, fixed
<1>2. PICK i \in Dev : op.i = i BY <1>1, CloserIs DEF Closing
<1>3. /\ dev[i].st = "listed" /\ dev[i].claimed /\ writer.i # i /\ hdl # 0 /\ drv = "up"
      /\ \A j \in Dev : dev[j].st # "opening"
      /\ \/ op.by = "user" /\ ClientIdle
         \/ op.by = "client" /\ client.pc = "closing" /\ client.i = i /\ bus = "gone" /\ "incb" \in env
  BY <1>1, <1>2, CloserIs DEF Closing
<1>4. \/ client.pc = "idle" /\ client.kind = "none" /\ ClientIdle
      \/ client.pc = "closing" /\ client.kind = "gone" /\ client.i = i /\ bus = "gone"
  BY <1>3, IdleIs DEF AcmInv, ClientPlace
<1>5. /\ dev[i].urb \notin InDone \cup {"flight"} /\ dev[i].out.urb = "idle" /\ dev[i].ctl.urb = "idle"
  <2>1. dev[i].urb \in {"idle", "doneno"} BY <1>1, <1>2 DEF AcmInv, OpPlace
  <2>2. dev[i].urb # "doneno"
    BY <1>4, IdleIs DEF AcmInv, ClientPlace, InDone
  <2>3. ~Waits(i, "ctl") /\ ~Waits(i, "out") BY <1>3 DEF Waits
  <2>4. dev[i].ctl.urb = "idle" /\ dev[i].out.urb # "flight"
    BY <2>3 DEF AcmInv, WriterPlace
  <2>5. dev[i].out.urb # "done"
    BY <1>3, IdleIs, Spared DEF AcmInv, WriterPlace
  <2> QED BY <2>1, <2>2, <2>4, <2>5, Known DEF InDone, DevType, XferType
<1>6. crash' = crash
  <2>1. Fails(/\ dev[i].claimed /\ dev[i].urb \notin InDone \cup {"flight"} /\ dev[i].out.urb = "idle" /\ dev[i].ctl.urb = "idle"
              /\ ~(writer.pc = "wait" /\ writer.i = i), "release in close")
    BY <1>2 DEF CloseRelease
  <2> QED BY <1>3, <1>5, <2>1 DEF Fails
<1>7. Removed(i, dev) BY <1>2 DEF CloseRelease
<1>8. PICK y \in DevType : /\ OneIs(i, y) /\ Blank(y) /\ ~y.cb /\ y.st = "free" /\ y.urb = "null"
                           /\ ~y.claimed /\ y.out.want = "none"
                           /\ hdl' = IF \E j \in Dev : j # i /\ dev[j].claimed THEN hdl ELSE 0
  BY <1>7, RemovedIs
<1>9. dev'[i] = y /\ \A j \in Dev : j # i => dev'[j] = dev[j]
  BY <1>8 DEF OneIs
<1>10. op' \in OpType /\ op'.by = "none" /\ op'.i = 0 /\ op'.pc = "none"
  BY <1>1 DEF NoOp, OpType
<1>11. DevicesAre'
  <2> SUFFICES ASSUME NEW j \in Dev
               PROVE  /\ Blank(dev[j])' \/ Used(dev[j])'
                      /\ dev'[j].st # "opening"
                      /\ dev'[j].claimed => info[j].ok
                      /\ dev'[j].urb = "flight" => bus = "present"
                      /\ dev'[j].told => bus = "gone"
    BY <1>1 DEF DevicesAre
  <2>1. CASE j = i
    <3>1. Blank(dev[j])' BY <1>8, <1>9, <2>1 DEF Blank
    <3> QED BY <1>8, <1>9, <2>1, <3>1 DEF Blank
  <2>2. CASE j # i
    <3>1. Blank(dev[j])' \/ Used(dev[j])'
      BY <1>1, <1>9, <2>2 DEF AcmInv, DevicesAre, Blank, Used, HasRoom, Size
    <3> QED BY <1>3, <1>9, <2>2, <3>1 DEF AcmInv, DevicesAre
  <2> QED BY <2>1, <2>2
<1>12. OpPlace' BY <1>10 DEF OpPlace, Closing
<1>13. Handle' BY <1>1, <1>3, <1>4, <1>8, HandleStays
<1>14. susp => \A j \in Dev : dev'[j].urb \notin {"flight", "doneok", "doneerr"}
  BY <1>8, <1>9 DEF AcmInv, Messages
<1>15. Messages'
  <2>1. CASE ClientIdle BY <1>1, <1>14, <2>1, IdleMessages
  <2>2. CASE client.pc = "closing" /\ client.kind = "gone"
    <3>1. ~Suspends /\ ~GoneNews BY <2>2 DEF AcmInv, Messages
    <3>2. ~Suspends' /\ (Resumes' <=> Resumes) /\ ~GoneNews' /\ (News(msgs)' <=> News(msgs))
      BY <1>1, <3>1 DEF Suspends, Resumes, GoneNews, News
    <3> QED BY <1>1, <1>10, <1>14, <2>2, <3>1, <3>2 DEF AcmInv, Messages
  <2> QED BY <1>4, <2>1, <2>2
<1>16. ClientPlace'
  <2>1. CASE client.pc = "idle" /\ client.kind = "none"
    BY <1>1, <2>1 DEF AcmInv, ClientPlace
  <2>2. CASE client.pc = "closing" /\ client.kind = "gone" /\ client.i = i /\ bus = "gone"
    <3>1. client.cur # 0 => client.cur \in Dev /\ client.cur # i
      BY <2>2, Known, ConstantsAre DEF AcmInv, ClientPlace, ClientType
    <3>2. \A j \in Dev : dev'[j].urb \notin InDone
      BY <1>8, <1>9, <2>2 DEF AcmInv, ClientPlace, InDone
    <3> QED BY <1>1, <1>9, <1>10, <2>2, <3>1, <3>2 DEF AcmInv, ClientPlace, InDone
  <2> QED BY <1>4, <2>1, <2>2
<1>17. WriterPlace' /\ (Answered' <=> Answered) /\ (Answered => dev'[writer'.i].ctl = dev[writer.i].ctl)
  BY <1>1, <1>3, <1>8, UnwaitedMoves DEF Blank
<1>18. WakeKnown'
  <2>1. bus = "present" /\ ~Answered => (WakeStatus' <=> WakeStatus)
    <3> SUFFICES ASSUME bus = "present", ~Answered PROVE WakeStatus' <=> WakeStatus
      OBVIOUS
    <3>1. dev[i].wake => \E j \in Dev : j # i /\ dev[j].st = "listed" /\ dev[j].wake
      BY <1>1, <1>2 DEF AcmInv, WakeKnown, Closing
    <3>2. WakeStatus' => WakeStatus
      BY <1>8, <1>9 DEF WakeStatus, Listed, Blank
    <3>3. WakeStatus => WakeStatus' BY <1>9, <3>1 DEF WakeStatus, Listed
    <3> QED BY <3>2, <3>3
  <2> QED BY <1>1, <1>10, <1>17, <2>1 DEF AcmInv, WakeKnown, Closing
<1>19. Polling'
  <2> SUFFICES ASSUME bus = "present", ~susp, NEW j \in Dev, dev'[j].claimed, dev'[j].cb, ~dev'[j].failed
               PROVE  Polls(dev'[j])
    BY <1>1 DEF Polling
  <2>1. ClientIdle /\ client.kind = "none" /\ ~Resumes BY <1>4, IdleIs
  <2>2. j # i /\ dev'[j] = dev[j] BY <1>8, <1>9
  <2> QED BY <1>1, <2>1, <2>2 DEF AcmInv, Polling
<1>20. TypeOK'
  <2>1. hdl' \in 0..MaxPlugs BY <1>8, Known, ConstantsAre
  <2> QED BY <1>1, <1>8, <1>10, <2>1, Known, TypesWillBe DEF OneIs
<1> QED
  BY <1>1, <1>6, <1>11, <1>12, <1>13, <1>15, <1>16, <1>17, <1>18, <1>19, <1>20, InvIs DEF Parts

-----------------------------------------------------------------------------
(* The driver's task *)

\* The pseudo-devices stay as they are.
LEMMA DevicesStay ==
    ASSUME AcmInv, UNCHANGED <<dev, op, info, env, bus, writer>>
    PROVE  DevicesAre' /\ WriterPlace' /\ Listed' = Listed /\ (wakes' = wakes => WakeKnown')
<1>1. DevicesAre' BY DEF AcmInv, DevicesAre, Blank, Used, HasRoom, Size
<1>2. WriterPlace' /\ (Answered' <=> Answered) /\ (Answered => dev'[writer'.i].ctl = dev[writer.i].ctl)
  BY XfersStay
<1>3. Listed' = Listed /\ (WakeStatus' <=> WakeStatus)
  BY DEF Listed, WakeStatus
<1>4. wakes' = wakes => WakeKnown' BY <1>2, <1>3 DEF AcmInv, WakeKnown
<1> QED BY <1>1, <1>2, <1>3, <1>4

\* The kinds of what the messages tell
LEMMA MessagesStay ==
    ASSUME UNCHANGED msgs
    PROVE  (Suspends' <=> Suspends) /\ (Resumes' <=> Resumes) /\ (GoneNews' <=> GoneNews) /\ (News(msgs)' <=> News(msgs))
BY DEF Suspends, Resumes, GoneNews, News

\* new_dev_cb() has looked at the device.
LEMMA NewSeenKeeps ==
    ASSUME AcmInv, NewSeen
    PROVE  AcmInv'
<1>1. /\ client.pc = "new" /\ client' = [client EXCEPT !.pc = "msgs"] /\ hdl' = 0
      /\ UNCHANGED <<drv, bus, plugs, info, wakes, calls, env, susp, msgs, dev, op, writer, crash>>
  BY DEF NewSeen, outside, fixed
<1>2. client.kind = "none" BY <1>1 DEF AcmInv, ClientPlace
<1>3. client' \in ClientType /\ client'.pc = "msgs" /\ client'.kind = "none" /\ client'.cur = client.cur
  BY <1>1, <1>2, Known DEF ClientType
<1>4. DevicesAre' /\ WriterPlace' /\ Listed' = Listed /\ WakeKnown'
  BY <1>1, DevicesStay
<1>5. OpPlace' BY <1>1 DEF AcmInv, OpPlace
<1>6. Handle' BY <1>1, <1>3 DEF AcmInv, Handle
<1>7. Messages'
  <2>1. ~Suspends /\ ~GoneNews BY <1>1 DEF AcmInv, Messages
  <2> QED BY <1>1, <1>2, <1>3, <1>4, <2>1, MessagesStay DEF AcmInv, Messages
<1>8. ClientPlace' BY <1>1, <1>3 DEF AcmInv, ClientPlace
<1>9. Polling'
  <2>1. \A j \in Dev : ~dev[j].claimed BY <1>1 DEF AcmInv, Handle
  <2> QED BY <1>1, <2>1 DEF Polling
<1>10. TypeOK'
  <2>1. hdl' \in 0..MaxPlugs BY <1>1, ConstantsAre
  <2> QED BY <1>1, <1>3, <2>1, Known, TypesWillBe
<1> QED BY <1>1, <1>4, <1>5, <1>6, <1>7, <1>8, <1>9, <1>10, InvIs DEF Parts

\* A callback has returned, or the walk has ended, or the messages.
LEMMA ClientGoesOn ==
    ASSUME AcmInv, UNCHANGED <<drv, bus, plugs, info, wakes, calls, env, susp, msgs, hdl, dev, op, writer, crash>>,
           \/ /\ client.pc \in {"cb", "closing"} /\ op.by # "client" /\ client' = [client EXCEPT !.pc = "walk"]
           \/ /\ client.pc = "walk" /\ client.cur = 0
              /\ client' = [pc |-> "msgs", kind |-> "none", cur |-> 0, i |-> 0]
           \/ client.pc = "msgs" /\ msgs = <<>> /\ client' = [client EXCEPT !.pc = "idle"]
    PROVE  AcmInv'
<1>1. /\ client' \in ClientType
      /\ \/ /\ client.pc \in {"cb", "closing"} /\ op.by # "client" /\ client'.pc = "walk" /\ client'.kind = client.kind
            /\ client'.cur = client.cur /\ client'.i = client.i /\ client.kind = "gone"
         \/ client.pc = "walk" /\ client.cur = 0 /\ client'.pc = "msgs" /\ client'.kind = "none" /\ client.kind # "none"
         \/ client.pc = "msgs" /\ msgs = <<>> /\ client'.pc = "idle" /\ client'.kind = "none" /\ client.kind = "none"
  BY Known DEF AcmInv, ClientPlace, ClientType
<1>2. DevicesAre' /\ WriterPlace' /\ Listed' = Listed /\ WakeKnown'
  BY DevicesStay
<1>3. op.by # "client" BY <1>1 DEF AcmInv, OpPlace
<1>4. OpPlace' BY <1>3 DEF AcmInv, OpPlace
<1>5. Handle' BY <1>1, <1>2 DEF AcmInv, Handle
<1>6. Messages'
  <2>1. ~Suspends /\ ~GoneNews
    BY <1>1 DEF AcmInv, Messages, Suspends, GoneNews
  <2> QED BY <1>1, <1>2, <2>1, MessagesStay DEF AcmInv, Messages
<1>7. ClientPlace' BY <1>1 DEF AcmInv, ClientPlace
<1>8. Polling'
  <2>1. client.kind = "res" /\ client.cur # 0 => client'.kind = client.kind /\ client'.cur = client.cur
    BY <1>1 DEF AcmInv, ClientPlace
  <2> QED BY <2>1, MessagesStay DEF AcmInv, Polling
<1>9. TypeOK' BY <1>1, Known, TypesWillBe
<1> QED BY <1>2, <1>4, <1>5, <1>6, <1>7, <1>8, <1>9, InvIs DEF Parts

\* CallbackEnd, WalkEnd and MsgsEnd
LEMMA EndsKeep ==
    ASSUME AcmInv, CallbackEnd \/ WalkEnd \/ MsgsEnd
    PROVE  AcmInv'
BY ClientGoesOn DEF CallbackEnd, WalkEnd, MsgsEnd, outside, fixed

\* The user's callback closes the pseudo-device, or leaves that to its task.
LEMMA CallbackKeeps ==
    ASSUME AcmInv, Callback
    PROVE  AcmInv'
<1>1. client.pc = "cb" /\ UNCHANGED <<drv, bus, plugs, info, wakes, calls, env, susp, msgs, hdl, writer, crash>>
  BY DEF Callback, outside, fixed
<1>2. PICK i \in Dev : /\ client.i = i /\ dev[i].st = "listed" /\ client.kind = "gone"
  BY <1>1 DEF AcmInv, ClientPlace
<1>3. CASE "incb" \in env
  <2>1. CloseBegin("client", i) /\ client' = [client EXCEPT !.pc = "closing"]
    BY <1>2, <1>3, Spared DEF Callback
  <2>2. op.by = "none" /\ Detached(i) /\ op' = [by |-> "client", pc |-> "flush", i |-> i]
    BY <1>2, <2>1 DEF CloseBegin, Unlocked
  <2>3. writer.i # i
    BY <1>3, Spared, Known, ConstantsAre DEF AcmInv, WriterPlace, WriterType, Asks
  <2>4. bus # "present"
    <3>1. hdl # 0 BY <1>2, AllSound, KindsDiffer DEF AcmInv, Handle
    <3> QED BY <1>2, <3>1 DEF AcmInv, ClientPlace
  <2> QED BY <1>1, <1>2, <1>3, <2>1, <2>2, <2>3, <2>4, Known, CloseBegins
<1>4. CASE "incb" \notin env
  <2>1. UNCHANGED <<dev, op>> /\ client' = [client EXCEPT !.pc = "walk"]
    BY <1>4 DEF Callback
  <2>2. op.by # "client" BY <1>1 DEF AcmInv, OpPlace
  <2> QED BY <1>1, <2>1, <2>2, ClientGoesOn
<1> QED BY <1>3, <1>4

\* cdc_acm_client_task() ends: the client has nothing open.
LEMMA TaskEndsKeeps ==
    ASSUME AcmInv, TaskEnds
    PROVE  AcmInv'
<1>1. /\ drv = "ending" /\ drv' = "down"
      /\ UNCHANGED <<bus, plugs, susp, msgs, hdl, dev, info, wakes, op, client, writer, calls, env>>
  BY DEF TaskEnds, fixed
<1>2. crash' = crash BY <1>1 DEF TaskEnds, Fails, AcmInv, Handle
<1>3. DevicesAre' /\ WriterPlace' /\ Listed' = Listed /\ WakeKnown'
  BY <1>1, DevicesStay
<1>4. OpPlace' /\ Handle' /\ ClientPlace'
  BY <1>1, <1>3 DEF AcmInv, OpPlace, Handle, ClientPlace
<1>5. Messages' /\ Polling'
  BY <1>1, <1>3, MessagesStay DEF AcmInv, Messages, Polling
<1>6. TypeOK' BY <1>1, Known, TypesWillBe
<1> QED BY <1>1, <1>2, <1>3, <1>4, <1>5, <1>6, InvIs DEF Parts

\* cdc_acm_host_uninstall()
LEMMA UninstallKeeps ==
    ASSUME AcmInv, Uninstall
    PROVE  AcmInv'
<1>1. /\ drv = "up" /\ Others /\ op.by = "none" /\ Listed = {} /\ drv' = "ending"
      /\ UNCHANGED <<bus, plugs, susp, msgs, hdl, dev, info, wakes, op, client, writer, calls, crash, env>>
  BY DEF Uninstall, fixed, Unlocked
<1>2. ClientIdle /\ client.pc = "idle" /\ msgs = <<>>
  BY <1>1, OthersAre, IdleIs
<1>3. op.pc = "none" /\ op.i = 0 BY <1>1 DEF AcmInv, OpPlace
<1>4. op = NoOp BY <1>1, <1>3, Known DEF OpType, NoOp
<1>5. hdl = 0 BY <1>1, <1>2, <1>3 DEF AcmInv, Handle
<1>6. DevicesAre' /\ WriterPlace' /\ Listed' = Listed /\ WakeKnown'
  BY <1>1, DevicesStay
<1>7. OpPlace' /\ ClientPlace' BY <1>1 DEF AcmInv, OpPlace, ClientPlace
<1>8. Handle' BY <1>1, <1>2, <1>4, <1>5, <1>6 DEF AcmInv, Handle
<1>9. Messages' /\ Polling'
  BY <1>1, <1>6, MessagesStay DEF AcmInv, Messages, Polling
<1>10. TypeOK' BY <1>1, Known, TypesWillBe
<1> QED BY <1>1, <1>6, <1>7, <1>8, <1>9, <1>10, InvIs DEF Parts

-----------------------------------------------------------------------------
(* The messages *)

\* A resumption is appended to a suspension.
LEMMA ResumptionFollows == Append(<<"susp">>, "res") = <<"susp", "res">>
<1> DEFINE T == {"susp", "res"}
<1>1. /\ <<"susp">> \in Seq(T) /\ "res" \in T /\ <<"susp", "res">> \in Seq(T) /\ Len(<<"susp">>) = 1
      /\ Len(<<"susp", "res">>) = 2 /\ <<"susp">>[1] = "susp" /\ <<"susp", "res">>[1] = "susp" /\ <<"susp", "res">>[2] = "res"
  OBVIOUS
<1>2. /\ Append(<<"susp">>, "res") \in Seq(T) /\ Len(Append(<<"susp">>, "res")) = 2
      /\ Append(<<"susp">>, "res")[1] = "susp" /\ Append(<<"susp">>, "res")[2] = "res"
  BY <1>1, AppendProperties
<1>3. PICK s \in Seq(T) : s = Append(<<"susp">>, "res") BY <1>2
<1>4. PICK t \in Seq(T) : t = <<"susp", "res">> BY <1>1
<1>5. Len(s) = 2 /\ Len(t) = 2 /\ s[1] = t[1] /\ s[2] = t[2]
  BY <1>1, <1>2, <1>3, <1>4
<1>6. s = t BY <1>5, SeqEqual
<1> QED BY <1>3, <1>4, <1>6

\* The queue is empty, or holds what a suspension, a resumption or both leave.
LEMMA FewMessages ==
    /\ \A x : Append(<<>>, x) = <<x>> /\ Len(<<x>>) = 1 /\ Head(<<x>>) = x /\ Tail(<<x>>) = <<>> /\ <<x>> # <<>> /\ <<x>>[1] = x
    /\ Len(<<>>) = 0 /\ Len(<<"susp", "res">>) = 2 /\ Head(<<"susp", "res">>) = "susp" /\ Tail(<<"susp", "res">>) = <<"res">>
    /\ <<"susp", "res">> # <<>> /\ <<"susp", "res">>[1] = "susp"
    /\ <<"susp">> # <<"res">> /\ <<"susp">> # <<"susp", "res">> /\ <<"res">> # <<"susp", "res">>
    /\ <<"new">> # <<"susp">> /\ <<"new">> # <<"res">> /\ <<"new">> # <<"susp", "res">>
    /\ <<"gone">> # <<"susp">> /\ <<"gone">> # <<"res">> /\ <<"gone">> # <<"susp", "res">>
    /\ \A x \in News4 : <<x>> \in Seq(News4)
    /\ <<"susp", "res">> \in Seq(News4)
<1>1. \A x : Append(<<>>, x) = <<x>> /\ Len(<<x>>) = 1 /\ Head(<<x>>) = x /\ Tail(<<x>>) = <<>> /\ <<x>> # <<>> /\ <<x>>[1] = x
  OBVIOUS
<1>2. /\ Len(<<>>) = 0 /\ Len(<<"susp", "res">>) = 2 /\ Head(<<"susp", "res">>) = "susp" /\ Tail(<<"susp", "res">>) = <<"res">>
      /\ <<"susp", "res">> # <<>> /\ <<"susp", "res">>[1] = "susp"
  OBVIOUS
<1>3. /\ <<"susp">> # <<"res">> /\ <<"susp">> # <<"susp", "res">> /\ <<"res">> # <<"susp", "res">>
      /\ <<"new">> # <<"susp">> /\ <<"new">> # <<"res">> /\ <<"new">> # <<"susp", "res">>
      /\ <<"gone">> # <<"susp">> /\ <<"gone">> # <<"res">> /\ <<"gone">> # <<"susp", "res">>
  OBVIOUS
<1>4. (\A x \in News4 : <<x>> \in Seq(News4)) /\ <<"susp", "res">> \in Seq(News4)
  BY DEF News4
<1> QED BY <1>1, <1>2, <1>3, <1>4

\* What a message that is posted leaves, while there is room
LEMMA PostIs ==
    ASSUME NEW m \in Seq(News4), NEW x \in News4, Len(m) <= QueueLen, 1 <= QueueLen
    PROVE  /\ Post(m, x) \in Seq(News4) /\ Len(Post(m, x)) <= QueueLen
           /\ News(m) /\ x = "new" => News(Post(m, x)) /\ (m = <<>> => Head(Post(m, x)) = "new")
                                      /\ (m # <<>> => Head(Post(m, x)) = Head(m))
<1>1. QueueLen \in Nat /\ Len(m) \in Nat BY ConstantsAre
<1>2. CASE Len(m) < QueueLen
  <2>1. PICK p \in Seq(News4) : p = Append(m, x) BY AppendProperties
  <2>2. /\ Len(p) = Len(m) + 1 /\ p[Len(m) + 1] = x /\ \A n \in 1 .. Len(m) : p[n] = m[n]
    BY <2>1, AppendProperties
  <2>3. Post(m, x) = p /\ p # <<>> BY <1>2, <2>1, AppendProperties DEF Post
  <2>4. News(m) /\ x = "new" => News(p)
    <3>1. \A n \in 1 .. Len(p) : n \in 1 .. Len(m) \/ n = Len(m) + 1
      BY <1>1, <2>2
    <3> QED BY <2>2, <3>1 DEF News
  <2>5. m # <<>> => Head(p) = Head(m)
    <3>1. m # <<>> => 1 \in 1 .. Len(m) BY <1>1, EmptySeq
    <3> QED BY <2>2, <2>3, <3>1
  <2>6. m = <<>> => Head(p) = x
    <3>1. m = <<>> => Len(m) = 0 OBVIOUS
    <3> QED BY <2>2, <2>3, <3>1
  <2> QED BY <1>1, <1>2, <2>2, <2>3, <2>4, <2>5, <2>6
<1>3. CASE ~(Len(m) < QueueLen)
  <2>1. Post(m, x) = m BY <1>3 DEF Post
  <2>2. m # <<>> BY <1>1, <1>3
  <2> QED BY <1>1, <1>3, <2>1, <2>2
<1> QED BY <1>2, <1>3

-----------------------------------------------------------------------------
(* The USB Host Library and the device *)

\* Data, a notification or an error arrives.
LEMMA ReceiveKeeps ==
    ASSUME AcmInv, NEW i \in Dev, Receive(i)
    PROVE  AcmInv'
<1>1. /\ bus = "present" /\ ~susp /\ dev[i].urb = "flight"
      /\ UNCHANGED <<drv, bus, plugs, info, wakes, calls, env, susp, msgs, hdl, op, client, writer, crash>>
  BY DEF Receive, Calm, fixed
<1>2. dev[i].claimed /\ Used(dev[i]) /\ dev[i] \in DevType /\ dev[i].num \in 1 .. InBuffer + 1
  BY <1>1, AllSound, KindsDiffer, ConstantsAre DEF Sound, Used, HasRoom, DevType
<1>3. PICK ok \in {TRUE, "error" \notin env}, len \in IF "keep" \in env THEN 1 .. dev[i].num ELSE {1} :
         dev' = [dev EXCEPT ![i].urb = IF ok THEN "doneok" ELSE "doneerr", ![i].len = len]
  BY Zenon DEF Receive
<1>4. len \in 0 .. InBuffer + 1 /\ len <= dev[i].num
  BY <1>2, <1>3, ConstantsAre
<1>5. PICK u : u = IF ok THEN "doneok" ELSE "doneerr" OBVIOUS
<1>6. PICK z : z = [dev[i] EXCEPT !.urb = u] OBVIOUS
<1>7. PICK y : y = [z EXCEPT !.len = len] OBVIOUS
<1>8. /\ y \in DevType /\ Alike(dev[i], y) /\ y.urb = u /\ y.pos = dev[i].pos /\ y.num = dev[i].num /\ y.len = len
      /\ y.failed = dev[i].failed /\ y.poll = dev[i].poll
  <2>1. u \in {"doneok", "doneerr"} BY <1>5
  <2>2. /\ z \in DevType /\ Alike(dev[i], z) /\ z.urb = u /\ z.pos = dev[i].pos /\ z.num = dev[i].num
        /\ z.failed = dev[i].failed /\ z.poll = dev[i].poll
    BY <1>2, <1>6, <2>1 DEF DevType, Alike, InDone
  <2> QED BY <1>4, <1>7, <2>2 DEF DevType, Alike
<1>9. Used(y) /\ y.urb \in {"doneok", "doneerr"}
  BY <1>2, <1>4, <1>5, <1>8 DEF Used, Alike, HasRoom
<1>10. OneIs(i, y)
  <2>1. dev' = [dev EXCEPT ![i] = y] BY <1>3, <1>5, <1>6, <1>7, Zenon
  <2> QED BY <1>8, <2>1, OneChanges
<1>11. Parts'
  <2>1. (op.pc # "submit" \/ op.i # i) /\ (op.pc # "release" \/ op.i # i)
    BY <1>1 DEF AcmInv, OpPlace
  <2>2. client.kind # "gone" BY <1>1, <1>2 DEF AcmInv, ClientPlace, Handle
  <2>3. y.urb # "flight" /\ y.urb # "doneno" /\ Polls(y) BY <1>9 DEF Polls
  <2> QED BY <1>1, <1>2, <1>8, <1>9, <1>10, <2>1, <2>2, <2>3, PollMoves
<1>12. TypeOK' BY <1>1, <1>10, Known, TypesWillBe DEF OneIs
<1> QED BY <1>1, <1>11, <1>12, InvIs

\* A device is plugged in, while the driver has none.
LEMMA PlugKeeps ==
    ASSUME AcmInv, Plug
    PROVE  AcmInv'
<1>1. /\ bus # "present" /\ hdl = 0 /\ msgs = <<>> /\ plugs < MaxPlugs /\ drv = "up"
      /\ plugs' = plugs + 1 /\ bus' = "present" /\ msgs' = Post(msgs, "new") /\ wakes' = FALSE
      /\ UNCHANGED <<drv, info, calls, env, susp, hdl, dev, op, client, writer, crash>>
  BY Spared DEF Plug, Calm, fixed
<1>2. op.pc \in {"none", "find"} /\ \A i \in Dev : ~dev[i].claimed /\ Blank(dev[i])
  BY <1>1 DEF AcmInv, Handle, DevicesAre, Used
<1>3. Listed = {} /\ Listed' = {} /\ \A i \in Dev : ~dev[i].told /\ dev[i].urb = "null" /\ dev[i].st # "listed"
  BY <1>1, <1>2 DEF Listed, Blank
<1>4. msgs' = <<"new">> /\ msgs' \in Seq(News4) /\ Len(msgs') <= QueueLen
  <2>1. Len(<<>>) < QueueLen /\ 1 <= QueueLen
    BY Spared, ConstantsAre, FewMessages
  <2>2. msgs' = <<"new">> BY <1>1, <2>1, FewMessages, Zenon DEF Post
  <2> QED BY <2>1, <2>2, FewMessages DEF News4
<1>5. News(msgs)' /\ ~Suspends' /\ ~Resumes' /\ ~GoneNews'
  <2>1. Len(<<"new">>) = 1 /\ <<"new">>[1] = "new" /\ Head(<<"new">>) = "new"
    OBVIOUS
  <2>2. News(<<"new">>) BY <2>1 DEF News
  <2>3. News(msgs)' BY <1>4, <2>2 DEF News
  <2> QED BY <1>4, <2>1, <2>3, FewMessages DEF Suspends, Resumes, GoneNews
<1>6. ~susp /\ client.kind \notin {"susp", "res"}
  BY <1>1 DEF AcmInv, Messages
<1>7. writer.pc # "wait" /\ client.pc # "cb"
  BY <1>3 DEF AcmInv, WriterPlace, ClientPlace
<1>8. client.kind # "none" => client.cur = 0
  BY <1>3, Known DEF AcmInv, ClientPlace, ClientType
<1>9. DevicesAre' BY <1>1, <1>2, <1>3 DEF AcmInv, DevicesAre, Blank
<1>10. OpPlace' BY <1>1, <1>2 DEF AcmInv, OpPlace, Closing
<1>11. Handle' BY <1>1, <1>2, Known DEF AcmInv, Handle
<1>12. Messages' BY <1>1, <1>2, <1>5, <1>6 DEF Messages, Closing
<1>13. ClientPlace'
  BY <1>1, <1>3, <1>7, <1>8 DEF AcmInv, ClientPlace, InDone
<1>14. WriterPlace' BY <1>1, XfersStay
<1>15. WakeKnown'
  <2>1. ~WakeStatus' /\ ~Answered'
    BY <1>1, <1>3, <1>7 DEF WakeStatus, Answered
  <2> QED BY <1>1, <1>2, <2>1 DEF WakeKnown, Closing
<1>16. Polling' BY <1>1, <1>2 DEF Polling
<1>17. TypeOK'
  <2>1. plugs' \in 0..MaxPlugs BY <1>1, Known, ConstantsAre
  <2>2. /\ bus' \in {"none", "present", "gone"} /\ wakes' \in BOOLEAN
        /\ UNCHANGED <<drv, susp, hdl, calls, dev, op, client, writer>>
    BY <1>1
  <2> QED BY <1>4, <2>1, <2>2, Known, TypesWillBe
<1> QED BY <1>1, <1>9, <1>10, <1>11, <1>12, <1>13, <1>14, <1>15, <1>16, <1>17, InvIs DEF Parts

\* Another device is plugged in.
LEMMA PlugOtherKeeps ==
    ASSUME AcmInv, PlugOther
    PROVE  AcmInv'
<1>1. /\ drv = "up" /\ calls < MaxCalls /\ calls' = calls + 1 /\ "other" \in env /\ msgs' = Post(msgs, "new")
      /\ UNCHANGED <<drv, bus, plugs, info, wakes, env, susp, hdl, dev, op, client, writer, crash>>
  BY DEF PlugOther, Call, fixed
<1>2. ~susp /\ ~Suspends /\ ~Resumes /\ client.kind \notin {"susp", "res"} /\ News(msgs)
  BY <1>1, Spared DEF AcmInv, Messages
<1>3. /\ msgs' \in Seq(News4) /\ Len(msgs') <= QueueLen /\ News(msgs') /\ (msgs = <<>> => Head(msgs') = "new")
      /\ (msgs # <<>> => Head(msgs') = Head(msgs))
  <2>1. "new" \in News4 /\ 1 <= QueueLen BY Spared, ConstantsAre DEF News4
  <2> QED BY <1>1, <1>2, <2>1, Known, PostIs
<1>4. ~Suspends' /\ ~Resumes' /\ (GoneNews' => GoneNews)
  <2>1. msgs' \notin {<<"susp">>, <<"susp", "res">>, <<"res">>}
    <3>1. Len(<<"susp">>) = 1 /\ Len(<<"res">>) = 1 /\ Len(<<"susp", "res">>) = 2
      BY FewMessages
    <3>2. <<"susp">>[1] = "susp" /\ <<"res">>[1] = "res" /\ <<"susp", "res">>[1] = "susp"
      BY FewMessages
    <3>3. \A m : News(m) /\ Len(m) \in {1, 2} => m[1] \in {"new", "gone"}
      BY DEF News
    <3>4. ~News(<<"susp">>) /\ ~News(<<"res">>) /\ ~News(<<"susp", "res">>)
      BY <3>1, <3>2, <3>3
    <3> QED BY <1>3, <3>4
  <2> QED BY <1>3, <2>1 DEF Suspends, Resumes, GoneNews
<1>5. DevicesAre' /\ WriterPlace' /\ Listed' = Listed /\ WakeKnown'
  BY <1>1, DevicesStay
<1>6. OpPlace' /\ ClientPlace' BY <1>1 DEF AcmInv, OpPlace, ClientPlace
<1>7. Handle' BY <1>1, <1>5 DEF AcmInv, Handle
<1>8. Messages'
  <2>1. News(msgs)' BY <1>3 DEF News
  <2> QED BY <1>1, <1>2, <1>4, <1>5, <2>1 DEF AcmInv, Messages
<1>9. Polling' BY <1>1, <1>2 DEF AcmInv, Polling
<1>10. TypeOK'
  <2>1. calls' \in 0..MaxCalls BY <1>1, Known, ConstantsAre
  <2> QED BY <1>1, <1>3, <2>1, Known, TypesWillBe
<1> QED BY <1>1, <1>5, <1>6, <1>7, <1>8, <1>9, <1>10, InvIs DEF Parts

\* The transfers in flight are flushed; the others stay as they are.
Halted(x, y) ==
    /\ y.st = x.st /\ y.claimed = x.claimed /\ y.cb = x.cb /\ y.told = x.told /\ y.failed = x.failed
    /\ y.poll = x.poll /\ y.wake = x.wake /\ y.pos = x.pos /\ y.num = x.num /\ y.len = x.len
    /\ y.urb = IF x.urb = "flight" THEN "doneno" ELSE x.urb
    /\ y.out.urb = IF x.out.urb = "flight" THEN "done" ELSE x.out.urb
    /\ y.out.sem = x.out.sem /\ y.out.ok = x.out.ok /\ y.out.want = x.out.want
    /\ y.ctl.urb = x.ctl.urb \/ (x.ctl.urb = "flight" /\ y.ctl.urb = "done")
    /\ y.ctl.sem = x.ctl.sem /\ y.ctl.ok = x.ctl.ok /\ y.ctl.want = x.ctl.want

\* A transfer is flushed.
LEMMA XferFlushed ==
    ASSUME NEW x \in DevType, NEW k \in Transfers
    PROVE  \E y \in DevType :
              /\ y = FlushedXfer(x, k) /\ Steady(x, y) /\ y.wake = x.wake
              /\ k = "out" => /\ y.ctl = x.ctl /\ y.out.sem = x.out.sem /\ y.out.ok = x.out.ok /\ y.out.want = x.out.want
                              /\ y.out.urb = IF x.out.urb = "flight" THEN "done" ELSE x.out.urb
              /\ k = "ctl" => /\ y.out = x.out /\ y.ctl.sem = x.ctl.sem /\ y.ctl.ok = x.ctl.ok /\ y.ctl.want = x.ctl.want
                              /\ y.ctl.urb = IF x.ctl.urb = "flight" THEN "done" ELSE x.ctl.urb
<1>1. CASE x[k].urb # "flight"
  <2>1. FlushedXfer(x, k) = x BY <1>1 DEF FlushedXfer
  <2>2. (k = "out" => x.out.urb # "flight") /\ (k = "ctl" => x.ctl.urb # "flight")
    BY <1>1
  <2> QED BY <2>1, <2>2 DEF Steady
<1>2. CASE x[k].urb = "flight"
  <2>1. x[k] \in XferType BY DEF DevType, Transfers
  <2>2. PICK t : t = [x[k] EXCEPT !.urb = "done"] OBVIOUS
  <2>3. t \in XferType /\ t.urb = "done" /\ t.sem = x[k].sem /\ t.ok = x[k].ok /\ t.want = x[k].want
    BY <2>1, <2>2 DEF XferType
  <2>4. PICK y \in DevType : /\ y = [x EXCEPT ![k] = t] /\ Steady(x, y) /\ y.wake = x.wake
                             /\ (k = "out" => y.out = t /\ y.ctl = x.ctl)
                             /\ (k = "ctl" => y.ctl = t /\ y.out = x.out)
    BY <2>3, XferIs
  <2>5. y = FlushedXfer(x, k) BY <1>2, <2>2, <2>4, Zenon DEF FlushedXfer
  <2> QED BY <1>2, <2>3, <2>4, <2>5
<1> QED BY <1>1, <1>2

\* What the library does to a device that is suspended
LEMMA AllFlushedIs ==
    ASSUME NEW x \in DevType
    PROVE  \E y \in DevType : y = AllFlushed(x) /\ Halted(x, y) /\ y.ctl = x.ctl
<1>1. PICK z : z = Flushed(x) OBVIOUS
<1>2. /\ z \in DevType /\ z.st = x.st /\ z.claimed = x.claimed /\ z.cb = x.cb /\ z.told = x.told /\ z.failed = x.failed
      /\ z.poll = x.poll /\ z.wake = x.wake /\ z.pos = x.pos /\ z.num = x.num /\ z.len = x.len
      /\ z.urb = IF x.urb = "flight" THEN "doneno" ELSE x.urb
      /\ z.out = x.out /\ z.ctl = x.ctl
  BY <1>1 DEF Flushed, DevType, InDone
<1>3. PICK y \in DevType : /\ y = FlushedXfer(z, "out") /\ Steady(z, y) /\ y.wake = z.wake
                           /\ y.ctl = z.ctl /\ y.out.sem = z.out.sem /\ y.out.ok = z.out.ok /\ y.out.want = z.out.want
                           /\ y.out.urb = IF z.out.urb = "flight" THEN "done" ELSE z.out.urb
  BY <1>2, XferFlushed DEF Transfers
<1> QED BY <1>1, <1>2, <1>3 DEF AllFlushed, Halted, Steady

\* ... or gone
LEMMA AllGoneIs ==
    ASSUME NEW x \in DevType
    PROVE  \E y \in DevType : y = FlushedXfer(AllFlushed(x), "ctl") /\ Halted(x, y) /\ y.ctl.urb # "flight"
<1>1. PICK z \in DevType : z = AllFlushed(x) /\ Halted(x, z) /\ z.ctl = x.ctl
  BY AllFlushedIs
<1>2. PICK y \in DevType : /\ y = FlushedXfer(z, "ctl") /\ Steady(z, y) /\ y.wake = z.wake
                           /\ y.out = z.out /\ y.ctl.sem = z.ctl.sem /\ y.ctl.ok = z.ctl.ok /\ y.ctl.want = z.ctl.want
                           /\ y.ctl.urb = IF z.ctl.urb = "flight" THEN "done" ELSE z.ctl.urb
  BY XferFlushed DEF Transfers
<1> QED BY <1>1, <1>2 DEF Halted, Steady

\* What is flushed is called back; nobody has lost what he relies on.
LEMMA HaltMoves ==
    ASSUME AcmInv, dev' \in [Dev -> DevType], \A j \in Dev : Halted(dev[j], dev'[j]),
           UNCHANGED <<op, info, env, writer>>, bus = "present", bus' \in {"present", "gone"}
    PROVE  /\ DevicesAre' /\ WriterPlace' /\ Listed' = Listed
           /\ (bus' = bus /\ wakes' = wakes /\ op.pc \notin Closing => WakeKnown')
           /\ \A j \in Dev : dev'[j].urb # "flight"
<1>1. Listed' = Listed /\ (WakeStatus' <=> WakeStatus) BY ListIs DEF Halted
<1>2. \A j \in Dev : dev'[j].urb # "flight" BY DEF Halted
<1>3. DevicesAre'
  <2> SUFFICES ASSUME NEW j \in Dev
               PROVE  /\ Blank(dev[j])' \/ Used(dev[j])'
                      /\ dev'[j].st = "opening" => op.i = j
                      /\ dev'[j].claimed => info[j].ok
                      /\ ~dev'[j].told
    BY <1>2 DEF DevicesAre
  <2>1. Halted(dev[j], dev'[j]) /\ env' = env OBVIOUS
  <2>2. /\ dev[j].st = "opening" => op.i = j
        /\ dev[j].claimed => info[j].ok
        /\ ~dev[j].told
    BY Known DEF AcmInv, DevicesAre, DevType
  <2>3. Blank(dev[j]) => Blank(dev[j])' BY <2>1 DEF Blank, AtRest, Halted
  <2>4. Used(dev[j]) => Used(dev[j])'
    <3>1. HasRoom(dev[j]) => HasRoom(dev[j])'
      BY <2>1 DEF HasRoom, Halted, Size
    <3> QED BY <2>1, <3>1 DEF Used, AtRest, Halted
  <2> QED BY <2>1, <2>2, <2>3, <2>4 DEF AcmInv, DevicesAre, Halted
<1>4. writer.pc = "wait" => writer.i \in Dev BY DEF AcmInv, WriterPlace
<1>5. Answered' <=> Answered BY <1>4 DEF Answered, Halted
<1>6. WriterPlace'
  <2>1. /\ writer'.pc = "idle" <=> writer'.i = 0
        /\ writer'.pc = "wait" => writer'.i \in Dev /\ dev'[writer'.i].st = "listed"
        /\ writer'.pc = "wait" => env' \cap ({"out"} \cup Asks) # {}
    BY <1>4 DEF AcmInv, WriterPlace, Halted
  <2>2. writer'.pc = "wait" /\ writer'.k = "ctl" =>
              env' \cap Asks # {} /\ (dev'[writer'.i].ctl.urb # "idle" \/ dev'[writer'.i].ctl.sem)
    BY <1>4 DEF AcmInv, WriterPlace, Halted
  <2>3. \A j \in Dev : (Waits(j, "out")' <=> Waits(j, "out")) /\ (Waits(j, "ctl")' <=> Waits(j, "ctl"))
    BY DEF Waits
  <2>4. \A j \in Dev : /\ dev'[j].out.want = "none"
                       /\ dev'[j].out.urb = "flight" => Waits(j, "out")
                       /\ dev'[j].out.urb # "idle" => "out" \in env
                       /\ dev'[j].out.sem /\ Waits(j, "out") => dev'[j].out.urb = "idle"
    BY DEF AcmInv, WriterPlace, Halted
  <2>5. \A j \in Dev : /\ dev'[j].ctl.urb # "idle" \/ dev'[j].ctl.sem => Waits(j, "ctl")
                       /\ dev'[j].ctl.sem => dev'[j].ctl.urb = "idle"
                       /\ dev'[j].ctl.urb = "flight" \/ ~Waits(j, "ctl") => ~dev'[j].ctl.ok
    BY DEF AcmInv, WriterPlace, Halted
  <2> QED BY <2>1, <2>2, <2>3, <2>4, <2>5 DEF WriterPlace
<1>7. bus' = bus /\ wakes' = wakes /\ op.pc \notin Closing => WakeKnown'
  <2>1. Answered => dev'[writer.i].ctl.want = dev[writer.i].ctl.want
    BY <1>4 DEF Answered, Halted
  <2> QED BY <1>1, <1>5, <2>1 DEF AcmInv, WakeKnown
<1> QED BY <1>1, <1>2, <1>3, <1>6, <1>7

\* The device goes.
LEMMA UnplugKeeps ==
    ASSUME AcmInv, Unplug
    PROVE  AcmInv'
<1>1. /\ bus = "present" /\ op.pc \notin {"submit", "notif", "insert"} /\ (op.pc \notin Closing \/ Listed = {op.i})
      /\ ClientIdle /\ bus' = "gone" /\ susp' = FALSE /\ msgs' = IF hdl # 0 THEN Post(msgs, "gone") ELSE msgs
      /\ dev' = [i \in Dev |-> FlushedXfer(AllFlushed(dev[i]), "ctl")]
      /\ UNCHANGED <<plugs, hdl, wakes, drv, info, op, client, writer, calls, crash, env>>
  BY Spared DEF Unplug, Calm, fixed, Closing
<1>2. /\ client.pc = "idle" /\ client.kind = "none" /\ msgs = <<>>
      /\ \A i \in Dev : dev[i].urb \notin InDone
  BY <1>1, IdleIs
<1>3. dev' \in [Dev -> DevType] /\ \A j \in Dev : Halted(dev[j], dev'[j])
  <2>1. \A j \in Dev : \E y \in DevType : y = FlushedXfer(AllFlushed(dev[j]), "ctl") /\ Halted(dev[j], y)
    BY AllGoneIs, Known
  <2> QED BY <1>1, <2>1
<1>4. DevicesAre' /\ WriterPlace' /\ Listed' = Listed /\ \A j \in Dev : dev'[j].urb # "flight"
  BY <1>1, <1>3, HaltMoves
<1>5. /\ msgs' = IF hdl # 0 THEN <<"gone">> ELSE <<>>
      /\ msgs' \in Seq(News4) /\ Len(msgs') <= QueueLen
  <2>1. Len(<<>>) < QueueLen /\ 1 <= QueueLen /\ 0 <= QueueLen
    BY Spared, ConstantsAre, FewMessages
  <2>2. msgs' = IF hdl # 0 THEN <<"gone">> ELSE <<>>
    BY <1>1, <1>2, <2>1, FewMessages, Zenon DEF Post
  <2>3. <<"gone">> \in Seq(News4) /\ <<>> \in Seq(News4) /\ Len(<<"gone">>) = 1 /\ Len(<<>>) = 0
    BY FewMessages DEF News4
  <2>4. Len(<<"gone">>) <= QueueLen /\ Len(<<>>) <= QueueLen
    BY <2>1, <2>3, ConstantsAre
  <2> QED BY <2>2, <2>3, <2>4, Zenon
<1>6. News(msgs)' /\ ~Suspends' /\ ~Resumes' /\ (GoneNews' => hdl # 0)
  <2>1. Len(<<"gone">>) = 1 /\ <<"gone">>[1] = "gone" /\ Head(<<"gone">>) = "gone" /\ Len(<<>>) = 0
    OBVIOUS
  <2>2. News(<<"gone">>) /\ News(<<>>) BY <2>1 DEF News
  <2>3. News(msgs)' BY <1>5, <2>2 DEF News
  <2> QED BY <1>5, <2>1, <2>3, FewMessages DEF Suspends, Resumes, GoneNews
<1>7. OpPlace'
  <2>1. op.by # "none" => op.i \in Dev /\ Halted(dev[op.i], dev'[op.i])
    BY <1>3 DEF AcmInv, OpPlace
  <2>2. op.pc # "none" => op.by # "none" BY DEF AcmInv, OpPlace
  <2>3. op.by # "client" BY <1>2 DEF AcmInv, OpPlace
  <2>4. op.pc = "release" => dev'[op.i].urb \in {"idle", "doneno"}
    BY <2>1, <2>2 DEF AcmInv, OpPlace, Halted
  <2> QED BY <1>1, <2>1, <2>2, <2>3, <2>4 DEF AcmInv, OpPlace, Halted, Closing
<1>8. Handle'
  <2>1. drv # "up" => msgs' = <<>> BY <1>5 DEF AcmInv, Handle
  <2>2. \A j \in Dev : dev'[j].claimed = dev[j].claimed BY <1>3 DEF Halted
  <2> QED BY <1>1, <1>4, <2>1, <2>2 DEF AcmInv, Handle
<1>9. Messages'
  <2>1. (GoneNews \/ client.kind = "gone")' /\ op'.by = "user" /\ op'.pc \in Closing => Listed' = {op'.i}
    BY <1>1, <1>4
  <2> QED BY <1>1, <1>2, <1>6, <2>1 DEF Messages
<1>10. ClientPlace' BY <1>1, <1>2 DEF AcmInv, ClientPlace
<1>11. WakeKnown' /\ Polling' BY <1>1 DEF WakeKnown, Polling
<1>12. TypeOK'
  <2>1. susp' \in BOOLEAN /\ bus' \in {"none", "present", "gone"} BY <1>1
  <2> QED BY <1>1, <1>3, <1>5, <2>1, Known, TypesWillBe
<1> QED BY <1>1, <1>4, <1>7, <1>8, <1>9, <1>10, <1>11, <1>12, InvIs DEF Parts

\* The root port is suspended.
LEMMA SuspendKeeps ==
    ASSUME AcmInv, Suspend
    PROVE  AcmInv'
<1>1. /\ "suspend" \in env /\ bus = "present" /\ ~susp /\ hdl # 0 /\ ClientIdle /\ op.by = "none"
      /\ susp' = TRUE /\ msgs' = Post(msgs, "susp") /\ dev' = [i \in Dev |-> AllFlushed(dev[i])]
      /\ UNCHANGED <<bus, plugs, hdl, wakes, drv, info, op, client, writer, calls, crash, env>>
  BY Spared DEF Suspend, Calm, fixed, Quiet, Unlocked
<1>2. /\ client.pc = "idle" /\ client.kind = "none" /\ msgs = <<>>
      /\ \A i \in Dev : dev[i].urb \notin InDone
  BY <1>1, IdleIs
<1>3. dev' \in [Dev -> DevType] /\ \A j \in Dev : Halted(dev[j], dev'[j])
  <2>1. \A j \in Dev : \E y \in DevType : y = AllFlushed(dev[j]) /\ Halted(dev[j], y)
    BY AllFlushedIs, Known
  <2> QED BY <1>1, <2>1
<1>4. op.pc = "none" /\ op.pc \notin Closing /\ drv = "up"
  BY <1>1 DEF AcmInv, OpPlace, Handle, Closing
<1>5. DevicesAre' /\ WriterPlace' /\ Listed' = Listed /\ WakeKnown' /\ \A j \in Dev : dev'[j].urb # "flight"
  BY <1>1, <1>3, <1>4, HaltMoves
<1>6. msgs' = <<"susp">> /\ msgs' \in Seq(News4) /\ Len(msgs') <= QueueLen
  <2>1. Len(<<>>) < QueueLen /\ 1 <= QueueLen
    BY Spared, ConstantsAre, FewMessages
  <2>2. msgs' = <<"susp">> BY <1>1, <1>2, <2>1, FewMessages, Zenon DEF Post
  <2> QED BY <2>1, <2>2, FewMessages DEF News4
<1>7. Suspends' /\ ~Resumes' /\ ~GoneNews'
  BY <1>6, FewMessages DEF Suspends, Resumes, GoneNews
<1>8. OpPlace' BY <1>1, <1>4 DEF AcmInv, OpPlace, Closing
<1>9. Handle'
  <2>1. \A j \in Dev : dev'[j].claimed = dev[j].claimed BY <1>3 DEF Halted
  <2> QED BY <1>1, <1>4, <1>5, <2>1 DEF AcmInv, Handle
<1>10. Messages'
  <2>1. \A j \in Dev : dev'[j].urb \notin {"flight", "doneok", "doneerr"}
    BY <1>2, <1>3, <1>5 DEF Halted, InDone
  <2>2. op'.by = "none" /\ op'.pc = "none" /\ client'.kind = "none" /\ client'.pc = "idle"
    BY <1>1, <1>2, <1>4
  <2> QED BY <1>1, <1>6, <1>7, <2>1, <2>2 DEF Messages, Closing
<1>11. ClientPlace' BY <1>1, <1>2 DEF AcmInv, ClientPlace
<1>12. Polling' BY <1>1 DEF Polling
<1>13. TypeOK'
  <2>1. susp' \in BOOLEAN BY <1>1
  <2> QED BY <1>1, <1>3, <1>6, <2>1, Known, TypesWillBe
<1> QED BY <1>1, <1>5, <1>8, <1>9, <1>10, <1>11, <1>12, <1>13, InvIs DEF Parts

\* ... and resumed.
LEMMA ResumeKeeps ==
    ASSUME AcmInv, Resume
    PROVE  AcmInv'
<1>1. /\ susp /\ op.by = "none" /\ susp' = FALSE /\ msgs' = IF hdl # 0 THEN Post(msgs, "res") ELSE msgs
      /\ UNCHANGED <<bus, plugs, hdl, dev, wakes, drv, info, op, client, writer, calls, crash, env>>
  BY Spared DEF Resume, Calm, fixed, Quiet, Unlocked
<1>2. /\ "suspend" \in env /\ bus = "present" /\ msgs \in {<<>>, <<"susp">>} /\ client.kind # "res"
      /\ op.pc = "none" /\ op.i = 0 /\ op.pc \notin Closing
  BY <1>1 DEF AcmInv, Messages, OpPlace, Closing
<1>3. DevicesAre' /\ WriterPlace' /\ Listed' = Listed /\ WakeKnown'
  BY <1>1, DevicesStay
<1>4. /\ hdl = 0 => msgs' = msgs
      /\ hdl # 0 => msgs' = IF msgs = <<>> THEN <<"res">> ELSE <<"susp", "res">>
      /\ msgs' \in Seq(News4) /\ Len(msgs') <= QueueLen
  <2>1. Len(<<>>) < QueueLen /\ Len(<<"susp">>) < QueueLen /\ 1 <= QueueLen
    <3>1. Len(<<"susp">>) = 1 /\ Len(<<>>) = 0 BY FewMessages
    <3> QED BY <3>1, Spared, ConstantsAre
  <2>2. hdl # 0 /\ msgs = <<>> => msgs' = <<"res">>
    BY <1>1, <2>1, FewMessages, Zenon DEF Post
  <2>3. hdl # 0 /\ msgs = <<"susp">> => msgs' = <<"susp", "res">>
    BY <1>1, <2>1, ResumptionFollows, Zenon DEF Post
  <2>4. hdl = 0 => msgs' = msgs BY <1>1
  <2>5. /\ <<"res">> \in Seq(News4) /\ <<"susp", "res">> \in Seq(News4) /\ Len(<<"res">>) = 1 /\ Len(<<"susp", "res">>) = 2
    BY FewMessages DEF News4
  <2>6. Len(<<"res">>) <= QueueLen /\ Len(<<"susp", "res">>) <= QueueLen
    BY <2>5, Spared, ConstantsAre
  <2>7. <<"susp">> # <<>> BY FewMessages
  <2>8. (hdl # 0 => msgs' \in {<<"res">>, <<"susp", "res">>}) /\ (hdl = 0 => msgs' = msgs)
    BY <1>2, <2>2, <2>3, <2>4, Zenon
  <2>9. msgs' \in Seq(News4) /\ Len(msgs') <= QueueLen
    BY <2>5, <2>6, <2>8, Known
  <2> QED BY <1>2, <2>2, <2>3, <2>4, <2>7, <2>9, Zenon
<1>5. /\ hdl # 0 => Resumes' /\ ~GoneNews'
      /\ Suspends' => Suspends
  <2>1. <<"susp">> # <<>> /\ <<"susp">> # <<"res">> /\ <<"susp", "res">> # <<"res">> /\ <<"susp", "res">> # <<>>
    BY FewMessages
  <2>2. Head(<<"susp", "res">>) = "susp" /\ Head(<<"res">>) = "res"
    BY FewMessages
  <2>3. hdl # 0 => Resumes' /\ ~GoneNews'
    BY <1>4, <2>1, <2>2 DEF Resumes, GoneNews
  <2>4. Suspends' => Suspends BY <1>2, <1>4, <2>1 DEF Suspends
  <2> QED BY <2>3, <2>4
<1>6. OpPlace' /\ ClientPlace'
  BY <1>1, <1>2 DEF AcmInv, OpPlace, ClientPlace
<1>7. Handle'
  <2>1. hdl # 0 => drv = "up" BY DEF AcmInv, Handle
  <2> QED BY <1>1, <1>3, <1>4, <2>1 DEF AcmInv, Handle
<1>8. Messages'
  <2>1. CASE hdl # 0 BY <1>1, <1>2, <1>5, <2>1 DEF AcmInv, Messages
  <2>2. CASE hdl = 0
    <3>1. msgs' = msgs BY <1>4, <2>2
    <3>2. (Suspends' <=> Suspends) /\ (Resumes' <=> Resumes) /\ (GoneNews' <=> GoneNews) /\ (News(msgs)' <=> News(msgs))
      BY <3>1, MessagesStay
    <3> QED BY <1>1, <1>2, <3>2 DEF AcmInv, Messages
  <2> QED BY <2>1, <2>2
<1>9. Polling'
  <2> SUFFICES ASSUME NEW j \in Dev, dev[j].claimed
               PROVE  dev[j].st = "listed" /\ Resumes'
    BY <1>1 DEF Polling
  <2>1. dev[j].st \notin {"free", "opening"}
    BY <1>2, AllSound, KindsDiffer, ConstantsAre DEF AcmInv, DevicesAre
  <2>2. hdl # 0 BY DEF AcmInv, Handle
  <2> QED BY <1>5, <2>1, <2>2, Known DEF DevType
<1>10. TypeOK'
  <2>1. susp' \in BOOLEAN BY <1>1
  <2> QED BY <1>1, <1>4, <2>1, Known, TypesWillBe
<1> QED BY <1>1, <1>3, <1>6, <1>7, <1>8, <1>9, <1>10, InvIs DEF Parts

-----------------------------------------------------------------------------
(* The driver's task: the messages *)

\* Of numbers there is a least.
LEMMA MinIsLeast ==
    ASSUME NEW S \in SUBSET Nat, S # {}
    PROVE  Min(S) \in S /\ \A y \in S : Min(S) <= y
<1>1. PICK R : R = OpToRel(<,Nat) OBVIOUS
<1>2. IsWellFoundedOn(R, Nat) BY <1>1, NatLessThanWellFounded
<1>3. PICK n \in S : \A m \in S : ~(<<m, n>> \in R) BY <1>2, WFMin
<1>4. \A m \in S : <<m, n>> \in R <=> m < n BY <1>1 DEF OpToRel
<1>5. \A m \in S : ~(m < n) BY <1>3, <1>4, Zenon
<1>6. \A m \in S : n <= m BY <1>5
<1> QED BY <1>6 DEF Min

\* The first pseudo-device of the list from one on
LEMMA FromIs ==
    ASSUME NEW i \in Nat
    PROVE  /\ From(i) \in Dev \cup {0}
           /\ From(i) # 0 => dev[From(i)].st = "listed" /\ From(i) >= i
           /\ \A j \in Dev : dev[j].st = "listed" /\ j >= i => From(i) # 0 /\ j >= From(i)
<1>1. PICK S \in SUBSET Nat : S = {j \in Listed : j >= i}
  BY ConstantsAre DEF Listed
<1>2. S # {} => Min(S) \in S /\ \A y \in S : Min(S) <= y BY MinIsLeast
<1>3. From(i) = IF S # {} THEN Min(S) ELSE 0 BY <1>1 DEF From
<1>4. \A j \in Dev : j \in S <=> dev[j].st = "listed" /\ j >= i
  BY <1>1 DEF Listed
<1>5. S \subseteq Dev BY <1>1 DEF Listed
<1> QED BY <1>2, <1>3, <1>4, <1>5, ConstantsAre

\* The first message and the others
LEMMA HeadIs ==
    ASSUME AcmInv, msgs # <<>>
    PROVE  /\ Head(msgs) \in News4 /\ Tail(msgs) \in Seq(News4) /\ Len(Tail(msgs)) <= QueueLen
           /\ News(msgs) => \A n \in 1 .. Len(Tail(msgs)) : Tail(msgs)[n] = "new"
           /\ Resumes /\ ~Suspends => Head(msgs) = "res" /\ Tail(msgs) = <<>>
           /\ msgs = <<"susp", "res">> => Head(msgs) = "susp" /\ Tail(msgs) = <<"res">>
           /\ msgs = <<"susp">> => Head(msgs) = "susp" /\ Tail(msgs) = <<>>
           /\ News(msgs) => Head(msgs) \in {"new", "gone"}
<1>1. PICK m \in Seq(News4) : m = msgs /\ m # <<>> /\ Len(m) <= QueueLen
  BY Known
<1>2. /\ Head(m) \in News4 /\ Tail(m) \in Seq(News4) /\ Len(Tail(m)) = Len(m) - 1 /\ Head(m) = m[1]
      /\ \A n \in 1 .. Len(Tail(m)) : Tail(m)[n] = m[n + 1]
  BY <1>1, HeadTailProperties
<1>3. Len(m) \in Nat /\ Len(m) >= 1 /\ QueueLen \in Nat
  BY <1>1, EmptySeq, ConstantsAre
<1>4. Len(Tail(m)) <= QueueLen BY <1>1, <1>2, <1>3
<1>5. News(m) => \A n \in 1 .. Len(Tail(m)) : Tail(m)[n] = "new"
  <2> SUFFICES ASSUME News(m), NEW n \in 1 .. Len(Tail(m)) PROVE m[n + 1] = "new"
    BY <1>2
  <2>1. n + 1 \in 1 .. Len(m) /\ n + 1 # 1 BY <1>2, <1>3
  <2> QED BY <2>1 DEF News
<1>6. News(m) => Head(m) \in {"new", "gone"} BY <1>2, <1>3 DEF News
<1>7. Resumes /\ ~Suspends => m = <<"res">> BY <1>1 DEF Resumes, Suspends
<1>8. /\ Head(<<"res">>) = "res" /\ Tail(<<"res">>) = <<>> /\ Head(<<"susp">>) = "susp" /\ Tail(<<"susp">>) = <<>>
      /\ Head(<<"susp", "res">>) = "susp" /\ Tail(<<"susp", "res">>) = <<"res">>
  BY FewMessages
<1> QED BY <1>1, <1>2, <1>4, <1>5, <1>6, <1>7, <1>8

\* A message is handled.
LEMMA MessageKeeps ==
    ASSUME AcmInv, Message
    PROVE  AcmInv'
<1>1. /\ msgs # <<>> /\ (client.pc = "msgs" \/ (client.pc = "idle" /\ ~Pending)) /\ msgs' = Tail(msgs)
      /\ Fails(drv = "up", "p_cdc_acm_obj is NULL")
      /\ UNCHANGED <<drv, bus, plugs, info, wakes, calls, env, susp, dev, op, writer>>
  BY DEF Message, outside, fixed
<1>2. drv = "up" /\ crash' = crash BY <1>1 DEF AcmInv, Handle, Fails
<1>3. client.kind = "none" /\ op.by # "client" /\ client.pc # "new" /\ client.pc # "closing"
  BY <1>1 DEF AcmInv, ClientPlace, OpPlace
<1>4. DevicesAre' /\ WriterPlace' /\ Listed' = Listed /\ WakeKnown'
  BY <1>1, DevicesStay
<1>5. \A j \in Dev : dev[j].urb # "doneno" /\ (client.pc = "idle" => dev[j].urb \notin InDone)
  BY <1>1 DEF AcmInv, ClientPlace, Pending, InDone
<1>6. OpPlace' BY <1>1, <1>3 DEF AcmInv, OpPlace
<1>7. msgs' \in Seq(News4) /\ Len(msgs') <= QueueLen BY <1>1, HeadIs
<1>8. CASE Head(msgs) = "new"
  <2>1. /\ client' = [client EXCEPT !.pc = IF bus = "present" /\ hdl = 0 THEN "new" ELSE "msgs"]
        /\ hdl' = IF bus = "present" /\ hdl = 0 THEN plugs ELSE hdl
    BY <1>8, Zenon DEF Message
  <2>2. /\ client' \in ClientType /\ client'.kind = "none" /\ client'.cur = client.cur
        /\ client'.pc = IF bus = "present" /\ hdl = 0 THEN "new" ELSE "msgs"
    BY <1>3, <2>1, Known DEF ClientType
  <2>3. News(msgs) /\ ~Suspends /\ ~Resumes
    <3>1. msgs # <<"susp">> /\ msgs # <<"susp", "res">>
      BY <1>1, <1>8, HeadIs
    <3>2. ~Suspends BY <3>1 DEF Suspends
    <3>3. ~Resumes BY <1>1, <1>8, <3>2, HeadIs
    <3> QED BY <3>2, <3>3 DEF AcmInv, Messages
  <2>4. \A n \in 1 .. Len(msgs') : msgs'[n] = "new" BY <1>1, <2>3, HeadIs
  <2>5. News(msgs)' /\ ~Suspends' /\ ~Resumes' /\ ~GoneNews'
    <3>1. News(msgs') BY <2>4 DEF News
    <3>2. msgs' # <<>> => Head(msgs') = "new"
      <4>1. msgs' # <<>> => 1 \in 1 .. Len(msgs') /\ Head(msgs') = msgs'[1]
        BY <1>7, HeadTailProperties, EmptySeq
      <4> QED BY <2>4, <4>1
    <3>3. News(msgs)' BY <3>1 DEF News
    <3>4. ~GoneNews' BY <3>2 DEF GoneNews
    <3>5. msgs' # <<"susp">> /\ msgs' # <<"res">> /\ msgs' # <<"susp", "res">>
      BY <3>2, FewMessages
    <3> QED BY <3>3, <3>4, <3>5 DEF Suspends, Resumes
  <2>6. ~susp
    <3>1. msgs \notin {<<>>, <<"susp">>} BY <1>1, <2>3 DEF Suspends
    <3> QED BY <3>1 DEF AcmInv, Messages
  <2>7. client'.pc = "new" => hdl = 0 /\ bus = "present" /\ hdl' = plugs /\ plugs # 0 /\ \A j \in Dev : ~dev[j].claimed
    BY <2>1, <2>2 DEF AcmInv, Handle
  <2>8. Handle'
    <3>1. CASE bus = "present" /\ hdl = 0
      BY <1>1, <1>2, <1>4, <2>1, <2>2, <2>7, <3>1 DEF AcmInv, Handle
    <3>2. CASE ~(bus = "present" /\ hdl = 0)
      <4>1. hdl' = hdl /\ client'.pc = "msgs" BY <2>1, <2>2, <3>2
      <4>2. UNCHANGED <<drv, bus, plugs, dev, op>> /\ Listed' = Listed
        BY <1>1, <1>4
      <4> QED BY <1>2, <1>3, <4>1, <4>2 DEF AcmInv, Handle
    <3> QED BY <3>1, <3>2
  <2>9. Messages' BY <1>1, <2>2, <2>5, <2>6 DEF Messages
  <2>10. ClientPlace' BY <1>1, <1>3, <1>5, <2>2 DEF AcmInv, ClientPlace
  <2>11. Polling' BY <1>1, <1>3, <2>2, <2>3 DEF AcmInv, Polling
  <2>12. TypeOK'
    <3>1. hdl' \in 0..MaxPlugs BY <2>1, Known
    <3> QED BY <1>1, <1>7, <2>2, <3>1, Known, TypesWillBe
  <2> QED BY <1>1, <1>2, <1>4, <1>6, <2>8, <2>9, <2>10, <2>11, <2>12, InvIs DEF Parts
<1>9. CASE Head(msgs) # "new"
  <2>1. hdl' = hdl /\ client' = [pc |-> "walk", kind |-> Head(msgs), cur |-> From(1), i |-> 0]
    BY <1>9, Zenon DEF Message
  <2>2. Head(msgs) \in {"gone", "susp", "res"}
    BY <1>1, <1>9, HeadIs DEF News4
  <2>3. /\ From(1) \in Dev \cup {0}
        /\ From(1) # 0 => dev[From(1)].st = "listed"
        /\ \A j \in Dev : dev[j].st = "listed" => From(1) # 0 /\ j >= From(1)
    <3>1. \A j \in Dev : j \in Nat /\ j >= 1 BY ConstantsAre
    <3> QED BY <3>1, FromIs
  <2>4. /\ client' \in ClientType /\ client'.pc = "walk" /\ client'.kind = Head(msgs) /\ client'.kind # "none"
        /\ client'.cur = From(1) /\ client'.i = 0
    BY <2>1, <2>2, <2>3 DEF ClientType
  <2>5. \/ Head(msgs) = "gone" /\ GoneNews /\ News(msgs) /\ client.pc = "idle" /\ bus = "gone" /\ hdl # 0 /\ ~Suspends /\ ~Resumes
        \/ Head(msgs) = "susp" /\ msgs = <<"susp">> /\ Suspends /\ ~Resumes
        \/ Head(msgs) = "susp" /\ msgs = <<"susp", "res">> /\ Suspends /\ Resumes
        \/ Head(msgs) = "res" /\ msgs = <<"res">> /\ ~Suspends /\ Resumes
    <3>1. <<"susp">> # <<"res">> /\ <<"susp">> # <<"susp", "res">> /\ <<"res">> # <<"susp", "res">>
      BY FewMessages
    <3>2. CASE Suspends \/ Resumes
      <4>1. msgs \in {<<"susp">>, <<"susp", "res">>, <<"res">>}
        BY <3>2 DEF Suspends, Resumes
      <4>2. /\ msgs = <<"susp">> => Head(msgs) = "susp" /\ Suspends /\ ~Resumes
            /\ msgs = <<"susp", "res">> => Head(msgs) = "susp" /\ Suspends /\ Resumes
            /\ msgs = <<"res">> => ~Suspends /\ Resumes
        BY <1>1, <3>1, HeadIs DEF Suspends, Resumes
      <4>3. msgs = <<"res">> => Head(msgs) = "res" BY FewMessages
      <4> QED BY <4>1, <4>2, <4>3
    <3>3. CASE ~Suspends /\ ~Resumes
      <4>1. News(msgs) BY <3>3 DEF AcmInv, Messages
      <4>2. Head(msgs) = "gone" BY <1>1, <1>9, <4>1, HeadIs
      <4>3. GoneNews BY <1>1, <4>2 DEF GoneNews
      <4> QED BY <3>3, <4>1, <4>2, <4>3 DEF AcmInv, Messages
    <3> QED BY <3>2, <3>3
  <2>6. Head(msgs) = "gone" => \A n \in 1 .. Len(msgs') : msgs'[n] = "new"
    BY <1>1, <2>5, HeadIs
  <2>7. /\ Head(msgs) = "gone" => News(msgs)' /\ ~Suspends' /\ ~Resumes' /\ ~GoneNews'
        /\ Head(msgs) = "susp" => (msgs' = <<>> \/ msgs' = <<"res">>) /\ (Resumes' <=> Resumes) /\ ~Suspends' /\ ~GoneNews'
        /\ Head(msgs) = "res" => msgs' = <<>> /\ ~Suspends' /\ ~Resumes' /\ ~GoneNews'
    <3>1. CASE Head(msgs) = "gone"
      <4>1. News(msgs') BY <2>6, <3>1 DEF News
      <4>2. msgs' # <<>> => Head(msgs') = "new"
        <5>1. msgs' # <<>> => 1 \in 1 .. Len(msgs') /\ Head(msgs') = msgs'[1]
          BY <1>7, HeadTailProperties, EmptySeq
        <5> QED BY <2>6, <3>1, <5>1
      <4>3. News(msgs)' BY <4>1 DEF News
      <4>4. ~GoneNews' BY <4>2 DEF GoneNews
      <4>5. msgs' # <<"susp">> /\ msgs' # <<"res">> /\ msgs' # <<"susp", "res">>
        BY <4>2, FewMessages
      <4> QED BY <3>1, <4>3, <4>4, <4>5 DEF Suspends, Resumes
    <3>2. CASE Head(msgs) = "susp"
      <4>1. (msgs = <<"susp">> /\ ~Resumes /\ msgs' = <<>>) \/ (Resumes /\ msgs' = <<"res">>)
        BY <1>1, <2>5, <3>2, HeadIs
      <4>2. /\ <<"res">> # <<"susp">> /\ <<"res">> # <<"susp", "res">> /\ Head(<<"res">>) = "res"
            /\ <<>> # <<"susp">> /\ <<>> # <<"res">> /\ <<>> # <<"susp", "res">>
        BY FewMessages
      <4>3. (Resumes' <=> Resumes) /\ ~Suspends' /\ ~GoneNews'
        BY <4>1, <4>2 DEF Suspends, Resumes, GoneNews
      <4> QED BY <3>2, <4>1, <4>3
    <3>3. CASE Head(msgs) = "res"
      <4>1. msgs' = <<>> BY <1>1, <2>5, <3>3, HeadIs
      <4>2. <<>> # <<"susp">> /\ <<>> # <<"res">> /\ <<>> # <<"susp", "res">>
        BY FewMessages
      <4> QED BY <3>3, <4>1, <4>2 DEF Suspends, Resumes, GoneNews
    <3> QED BY <2>2, <3>1, <3>2, <3>3
  <2>8. Handle' BY <1>1, <1>2, <1>3, <1>4, <2>1, <2>4 DEF AcmInv, Handle
  <2>9. Messages'
    <3>1. CASE Head(msgs) = "gone"
      <4>1. ~susp /\ client'.kind = "gone"
        BY <2>4, <2>5, <3>1 DEF AcmInv, Messages
      <4>2. op.by = "user" /\ op.pc \in Closing => Listed = {op.i}
        BY <2>5, <3>1 DEF AcmInv, Messages
      <4> QED BY <1>1, <1>4, <2>7, <3>1, <4>1, <4>2 DEF Messages
    <3>2. CASE Head(msgs) = "susp"
      <4>1. client'.kind = "susp" /\ op.by = "none" /\ "suspend" \in env /\ bus = "present"
        BY <2>4, <2>5, <3>2 DEF AcmInv, Messages
      <4>2. News(msgs)' \/ Resumes'
        <5>1. CASE msgs' = <<>>
          <6>1. News(<<>>) BY FewMessages DEF News
          <6> QED BY <5>1, <6>1 DEF News
        <5>2. CASE msgs' = <<"res">> BY <5>2 DEF Resumes
        <5> QED BY <2>7, <3>2, <5>1, <5>2
      <4>3. susp => msgs' \in {<<>>, <<"susp">>} /\ \A j \in Dev : dev[j].urb \notin {"flight", "doneok", "doneerr"}
        <5> SUFFICES ASSUME susp PROVE msgs' = <<>> /\ \A j \in Dev : dev[j].urb \notin {"flight", "doneok", "doneerr"}
          OBVIOUS
        <5>1. ~Resumes BY DEF AcmInv, Messages
        <5>2. msgs' # <<"res">> BY <2>7, <3>2, <5>1 DEF Resumes
        <5> QED BY <2>7, <3>2, <5>2 DEF AcmInv, Messages
      <4>4. Resumes' => op.pc \in {"none", "notif", "insert"} /\ ~susp
        BY <2>7, <3>2 DEF AcmInv, Messages
      <4> QED BY <1>1, <2>7, <3>2, <4>1, <4>2, <4>3, <4>4 DEF Messages
    <3>3. CASE Head(msgs) = "res"
      <4>1. /\ client'.kind = "res" /\ op.pc \in {"none", "notif", "insert"} /\ ~susp
            /\ "suspend" \in env /\ bus = "present"
        BY <2>4, <2>5, <3>3 DEF AcmInv, Messages
      <4>2. News(msgs)'
        <5>1. News(<<>>) BY FewMessages DEF News
        <5> QED BY <2>7, <3>3, <5>1 DEF News
      <4> QED BY <1>1, <2>7, <3>3, <4>1, <4>2 DEF Messages
    <3> QED BY <2>2, <3>1, <3>2, <3>3
  <2>10. ClientPlace'
    <3>1. From(1) # 0 => From(1) > 0
      <4>1. PICK n \in Dev \cup {0} : n = From(1) BY <2>3
      <4> QED BY <4>1, ConstantsAre
    <3>2. \A j \in Dev : dev'[j].urb = dev[j].urb /\ dev'[j].st = dev[j].st
      BY <1>1
    <3>3. /\ client'.kind # "none" /\ client'.cur # 0 => dev'[client'.cur].st = "listed" /\ client'.cur > client'.i
      BY <1>1, <2>3, <2>4, <3>1
    <3>4. client'.kind = "gone" => bus' = "gone" /\ \A j \in Dev : dev'[j].urb \notin InDone
      BY <1>1, <1>5, <2>4, <2>5
    <3>5. \A j \in Dev : dev'[j].urb # "doneno" BY <1>1, <1>5
    <3> QED BY <2>4, <3>3, <3>4, <3>5 DEF ClientPlace
  <2>11. Polling'
    <3> SUFFICES ASSUME bus = "present", ~susp, NEW j \in Dev, dev[j].claimed, dev[j].cb, ~dev[j].failed
                 PROVE  \/ Polls(dev[j])
                        \/ op.pc = "submit" /\ op.i = j
                        \/ dev[j].st = "listed" /\ Resumes'
                        \/ dev[j].st = "listed" /\ client'.kind = "res" /\ client'.cur # 0 /\ j >= client'.cur
      BY <1>1 DEF Polling
    <3>1. \/ Polls(dev[j])
          \/ op.pc = "submit" /\ op.i = j
          \/ dev[j].st = "listed" /\ Resumes
      BY <1>3 DEF AcmInv, Polling
    <3>2. dev[j].st = "listed" /\ Resumes /\ Head(msgs) = "res" => client'.kind = "res" /\ client'.cur # 0 /\ j >= client'.cur
      BY <2>3, <2>4
    <3>3. Resumes => Head(msgs) = "res" \/ Resumes' BY <2>5, <2>7
    <3> QED BY <3>1, <3>2, <3>3
  <2>12. TypeOK' BY <1>1, <1>7, <2>1, <2>4, Known, TypesWillBe
  <2> QED BY <1>1, <1>2, <1>4, <1>6, <2>8, <2>9, <2>10, <2>11, <2>12, InvIs DEF Parts
<1> QED BY <1>8, <1>9

\* The walk goes on to the next pseudo-device of the list.
LEMMA NextIs ==
    ASSUME AcmInv, NEW i \in Dev
    PROVE  /\ From(i + 1) \in Dev \cup {0}
           /\ From(i + 1) # 0 => dev[From(i + 1)].st = "listed" /\ From(i + 1) > i
           /\ \A j \in Dev : dev[j].st = "listed" /\ j >= i /\ j # i => From(i + 1) # 0 /\ j >= From(i + 1)
<1>1. i \in Nat /\ i + 1 \in Nat /\ \A j \in Dev : j \in Nat BY ConstantsAre
<1>2. PICK n \in Dev \cup {0} :
          /\ n = From(i + 1)
          /\ n # 0 => dev[n].st = "listed" /\ n >= i + 1
          /\ \A j \in Dev : dev[j].st = "listed" /\ j >= i + 1 => n # 0 /\ j >= n
  BY <1>1, FromIs
<1>3. n # 0 => n > i BY <1>1, <1>2
<1>4. \A j \in Dev : j >= i /\ j # i => j >= i + 1 BY <1>1
<1> QED BY <1>2, <1>3, <1>4

\* One pseudo-device was handled, and the walk goes on.
LEMMA WalkMoves ==
    ASSUME AcmInv, client.pc = "walk", NEW i \in Dev, client.cur = i, NEW y \in DevType, OneIs(i, y),
           UNCHANGED <<drv, bus, plugs, info, wakes, calls, env, susp, msgs, hdl, op, writer, crash>>,
           client' \in ClientType, client'.kind = client.kind, client'.cur = From(i + 1), client'.i = i,
           client'.pc = "walk" \/ (client'.pc = "cb" /\ client.kind = "gone" /\ y.cb),
           y.st = "listed", y.claimed, y.cb = dev[i].cb, y.failed = dev[i].failed, y.wake = dev[i].wake,
           y.out = dev[i].out, y.ctl = dev[i].ctl, HasRoom(y), y.urb = "idle" => ~y.poll,
           y.urb = "doneok" => y.len <= y.num,
           y.told => bus = "gone",
           y.urb = dev[i].urb \/ (y.urb = "flight" /\ bus = "present" /\ dev[i].urb = "idle" /\ client.kind = "res"),
           client.kind = "res" => Polls(y) \/ bus # "present"
    PROVE  AcmInv'
<1>1. dev'[i] = y /\ dev' \in [Dev -> DevType] /\ \A j \in Dev : j # i => dev'[j] = dev[j]
  BY DEF OneIs
<1>2. client.kind # "none" /\ i # 0 /\ dev[i].st = "listed" /\ op.by # "client"
  BY ConstantsAre DEF AcmInv, ClientPlace, OpPlace
<1>3. dev[i].claimed /\ Used(dev[i]) /\ dev[i].urb # "null" /\ dev[i].urb # "doneno"
  BY <1>2, AllSound, KindsDiffer DEF AcmInv, ClientPlace
<1>a. y.claimed = dev[i].claimed BY <1>3, Known DEF DevType
<1>4. Listed' = Listed /\ (WakeStatus' <=> WakeStatus) BY <1>1, <1>2, ListIs
<1>5. (op.pc = "submit" \/ op.pc = "release" => op.i \in Dev) /\ (op.pc \in Closing => op.i \in Dev)
  BY DEF AcmInv, OpPlace, Closing
<1>6. op.pc \in Closing => ~Polls(y) \/ y.urb = dev[i].urb
  BY DEF AcmInv, Messages, Closing
<1>7. DevicesAre'
  <2> SUFFICES ASSUME NEW j \in Dev
               PROVE  /\ Blank(dev[j])' \/ Used(dev[j])'
                      /\ dev'[j].st = "opening" => op.i = j
                      /\ dev'[j].claimed => info[j].ok
                      /\ dev'[j].urb = "flight" => bus = "present"
                      /\ dev'[j].told => bus = "gone"
    BY DEF DevicesAre
  <2>1. CASE j = i
    <3>1. HasRoom(dev[j])' BY <1>1, <2>1 DEF HasRoom, Size
    <3>2. Used(dev[j])' BY <1>1, <1>3, <2>1, <3>1 DEF Used
    <3> QED BY <1>1, <1>3, <2>1, <3>2 DEF AcmInv, DevicesAre
  <2>2. CASE j # i
    <3>1. Blank(dev[j])' \/ Used(dev[j])'
      BY <1>1, <2>2 DEF AcmInv, DevicesAre, Blank, Used, HasRoom, Size
    <3> QED BY <1>1, <2>2, <3>1 DEF AcmInv, DevicesAre
  <2> QED BY <2>1, <2>2
<1>8. OpPlace'
  <2>1. op.by # "none" => op.i \in Dev BY DEF AcmInv, OpPlace
  <2>2. op.pc # "none" => op.by # "none" BY DEF AcmInv, OpPlace
  <2>3. op.by # "none" => /\ dev'[op.i].st = dev[op.i].st /\ dev'[op.i].claimed = dev[op.i].claimed
                          /\ dev'[op.i].cb = dev[op.i].cb
    BY <1>1, <1>2, <1>a, <2>1
  <2>4. op.pc = "submit" => dev'[op.i].urb = "idle"
    BY <1>1, <1>2, <1>5 DEF AcmInv, OpPlace
  <2>5. op.pc = "release" => dev'[op.i].urb \in {"idle", "doneno"}
    <3>1. CASE op.i = i
      <4>1. op.pc = "release" => client.kind # "res" BY DEF AcmInv, Messages
      <4> QED BY <1>1, <3>1, <4>1 DEF AcmInv, OpPlace
    <3>2. CASE op.i # i BY <1>1, <1>5, <3>2 DEF AcmInv, OpPlace
    <3> QED BY <3>1, <3>2
  <2> QED BY <1>2, <2>1, <2>2, <2>3, <2>4, <2>5, Known DEF AcmInv, OpPlace, OpType, Closing
<1>9. Handle'
  <2>1. \A j \in Dev : dev'[j].claimed = dev[j].claimed BY <1>1, <1>a
  <2>2. client'.pc # "new" /\ drv = "up" BY DEF AcmInv, Handle
  <2> QED BY <1>4, <2>1, <2>2 DEF AcmInv, Handle
<1>10. Messages'
  <2>1. susp => \A j \in Dev : dev'[j].urb \notin {"flight", "doneok", "doneerr"}
    <3> SUFFICES ASSUME susp, NEW j \in Dev PROVE dev'[j].urb \notin {"flight", "doneok", "doneerr"}
      OBVIOUS
    <3>1. client.kind # "res" /\ dev[j].urb \notin {"flight", "doneok", "doneerr"}
      BY DEF AcmInv, Messages
    <3> QED BY <1>1, <3>1
  <2>2. ~Suspends /\ ~GoneNews BY DEF AcmInv, Messages
  <2> QED BY <1>4, <2>1, <2>2, MessagesStay DEF AcmInv, Messages
<1>11. ClientPlace'
  <2>1. client'.kind # "none" /\ client'.pc \notin {"idle", "msgs", "new", "closing"}
    BY <1>2
  <2>2. client'.pc = "cb" => client'.kind = "gone" /\ dev'[i].st = "listed" /\ dev'[i].cb
    BY <1>1
  <2>3. client'.cur # 0 => dev'[client'.cur].st = "listed" /\ client'.cur > client'.i
    <3>1. PICK n \in Dev \cup {0} : n = From(i + 1) /\ (n # 0 => dev[n].st = "listed" /\ n > i)
      BY NextIs
    <3> QED BY <1>1, <3>1
  <2>4. client'.kind = "gone" => \A j \in Dev : dev'[j].urb \notin InDone
    <3> SUFFICES ASSUME client.kind = "gone", NEW j \in Dev PROVE dev'[j].urb \notin InDone
      OBVIOUS
    <3>1. dev[j].urb \notin InDone BY DEF AcmInv, ClientPlace
    <3> QED BY <1>1, <3>1 DEF InDone
  <2>5. client'.kind = "gone" => bus' = "gone"
    BY <1>2 DEF AcmInv, ClientPlace
  <2>6. \A j \in Dev : dev'[j].urb # "doneno"
    BY <1>1, <1>3 DEF AcmInv, ClientPlace
  <2> QED BY <2>1, <2>2, <2>3, <2>4, <2>5, <2>6 DEF ClientPlace
<1>12. WriterPlace' /\ (Answered' <=> Answered) /\ (Answered => dev'[writer'.i].ctl = dev[writer.i].ctl)
  <2>1. \A j \in Dev : dev'[j].out = dev[j].out /\ dev'[j].ctl = dev[j].ctl /\ dev'[j].st = dev[j].st
    BY <1>1, <1>2
  <2> QED BY <2>1, XfersStay
<1>13. WakeKnown'
  <2>1. \A j \in Dev : dev'[j].st = dev[j].st /\ dev'[j].wake = dev[j].wake
    BY <1>1, <1>2
  <2>2. op.pc \in Closing => dev'[op.i].wake = dev[op.i].wake BY <1>5, <2>1
  <2> QED BY <1>4, <1>12, <2>1, <2>2 DEF AcmInv, WakeKnown
<1>14. Polling'
  <2> SUFFICES ASSUME bus = "present", ~susp, NEW j \in Dev, dev'[j].claimed, dev'[j].cb, ~dev'[j].failed
               PROVE  \/ Polls(dev'[j])
                      \/ op.pc = "submit" /\ op.i = j
                      \/ dev'[j].st = "listed" /\ Resumes'
                      \/ dev'[j].st = "listed" /\ client'.kind = "res" /\ client'.cur # 0 /\ j >= client'.cur
    BY DEF Polling
  <2>1. dev[j].claimed /\ dev[j].cb /\ ~dev[j].failed /\ dev'[j].st = dev[j].st
    BY <1>1, <1>2, <1>3
  <2>2. \/ Polls(dev[j])
        \/ op.pc = "submit" /\ op.i = j
        \/ dev[j].st = "listed" /\ Resumes
        \/ dev[j].st = "listed" /\ client.kind = "res" /\ j >= i
    BY <2>1 DEF AcmInv, Polling
  <2>3. CASE j = i
    <3>1. Polls(dev[i]) => Polls(y) BY DEF Polls
    <3> QED BY <1>1, <2>1, <2>2, <2>3, <3>1, MessagesStay
  <2>4. CASE j # i
    <3>1. dev[j].st = "listed" /\ j >= i => From(i + 1) # 0 /\ j >= From(i + 1)
      BY <2>4, NextIs
    <3> QED BY <1>1, <2>1, <2>2, <2>4, <3>1, MessagesStay
  <2> QED BY <2>3, <2>4
<1>15. TypeOK' BY <1>1, Known, TypesWillBe
<1> QED BY <1>7, <1>8, <1>9, <1>10, <1>11, <1>12, <1>13, <1>14, <1>15, InvIs DEF Parts

\* One pseudo-device of the list
LEMMA WalkKeeps ==
    ASSUME AcmInv, Walk
    PROVE  AcmInv'
<1>1. /\ client.pc = "walk" /\ client.cur # 0
      /\ UNCHANGED <<drv, bus, plugs, info, wakes, calls, env, hdl, op, writer>>
  BY DEF Walk, outside, fixed
<1>2. client.kind \in {"gone", "susp", "res"}
  BY <1>1, Known DEF AcmInv, ClientPlace, ClientType
<1>3. PICK i \in Dev : i = client.cur BY <1>1, Known DEF ClientType
<1>4. dev[i].st = "listed" /\ dev[i] \in DevType
  BY <1>1, <1>2, <1>3, Known DEF AcmInv, ClientPlace
<1>5. dev[i].claimed /\ Used(dev[i]) BY <1>4, AllSound, KindsDiffer
<1>6. From(i + 1) \in Dev \cup {0} BY NextIs
<1>7. PICK on : on = [client EXCEPT !.cur = From(i + 1), !.i = i] OBVIOUS
<1>8. on \in ClientType /\ on.pc = "walk" /\ on.kind = client.kind /\ on.cur = From(i + 1) /\ on.i = i
  <2>1. PICK n \in Dev \cup {0} : n = From(i + 1) BY <1>6
  <2>2. on = [client EXCEPT !.cur = n, !.i = i] BY <1>7, <2>1
  <2>3. on \in ClientType /\ on.pc = "walk" /\ on.kind = client.kind /\ on.cur = n /\ on.i = i
    BY <1>1, <2>2, Known DEF ClientType
  <2> QED BY <2>1, <2>3
<1>9. CASE client.kind = "susp"
  <2>1. WalkSuspend(i) /\ client' = on BY <1>3, <1>7, <1>9, Zenon DEF Walk
  <2>2. dev' = [dev EXCEPT ![i].poll = FALSE] /\ UNCHANGED <<susp, msgs>> /\ crash' = crash
    BY <1>4, <2>1 DEF WalkSuspend, Fails
  <2>3. PICK y : y = [dev[i] EXCEPT !.poll = FALSE] OBVIOUS
  <2>4. /\ y \in DevType /\ Alike(dev[i], y) /\ y.failed = dev[i].failed /\ y.urb = dev[i].urb /\ ~y.poll
        /\ y.pos = dev[i].pos /\ y.num = dev[i].num /\ y.len = dev[i].len
    BY <1>4, <2>3 DEF DevType, Alike
  <2>5. OneIs(i, y)
    <3>1. dev' = [dev EXCEPT ![i] = y] BY <2>2, <2>3, Zenon
    <3> QED BY <2>4, <3>1, OneChanges
  <2>6. HasRoom(y) /\ (y.urb = "doneok" => y.len <= y.num) /\ (y.told => bus = "gone")
    BY <1>5, <2>4 DEF Used, HasRoom, Alike, AcmInv, DevicesAre
  <2>7. y.st = "listed" /\ y.claimed /\ y.cb = dev[i].cb /\ y.wake = dev[i].wake /\ y.out = dev[i].out /\ y.ctl = dev[i].ctl
    BY <1>4, <1>5, <2>4 DEF Alike
  <2> QED BY <1>1, <1>3, <1>8, <1>9, <2>1, <2>2, <2>4, <2>5, <2>6, <2>7, WalkMoves
<1>10. CASE client.kind = "res"
  <2>1. WalkResume(i) /\ client' = on BY <1>3, <1>7, <1>10, Zenon DEF Walk
  <2>2. /\ dev' = [dev EXCEPT ![i] = Polled(dev[i])] /\ Woken(WakesPort(dev[i]))
        /\ Fails(dev[i].st = "listed" /\ CanPoll(dev[i]), "submit in resume")
    BY <2>1, Zenon DEF WalkResume
  <2>3. ~susp /\ bus = "present" BY <1>10 DEF AcmInv, Messages
  <2>4. UNCHANGED <<susp, msgs>>
    <3>1. ~WakesPort(dev[i]) BY <2>3 DEF WakesPort
    <3> QED BY <2>2, <3>1, Zenon DEF Woken
  <2>5. CanPoll(dev[i]) BY <1>5, <2>3 DEF CanPoll, Used, HasRoom
  <2>6. crash' = crash BY <1>4, <2>2, <2>5 DEF Fails
  <2>7. PICK y \in DevType : /\ y = Polled(dev[i]) /\ Used(y) /\ Alike(dev[i], y) /\ y.failed = dev[i].failed
                             /\ y.urb = IF dev[i].urb = "idle" /\ bus = "present" THEN "flight" ELSE dev[i].urb
    BY <1>4, <1>5, PolledIs
  <2>8. OneIs(i, y) BY <2>2, <2>7, OneChanges
  <2>9. Polls(y)
    <3>1. dev[i].urb # "null" /\ dev[i].urb # "doneno"
      BY <1>1, <1>5 DEF Used, AcmInv, ClientPlace
    <3> QED BY <1>4, <2>3, <2>7, <3>1 DEF DevType, Polls, InDone
  <2>10. HasRoom(y) /\ (y.urb = "doneok" => y.len <= y.num) /\ (y.urb = "idle" => ~y.poll) /\ (y.told => bus = "gone")
    BY <2>7 DEF Used, Alike, AcmInv, DevicesAre
  <2>11. y.st = "listed" /\ y.claimed /\ y.cb = dev[i].cb /\ y.wake = dev[i].wake /\ y.out = dev[i].out /\ y.ctl = dev[i].ctl
    BY <1>4, <1>5, <2>7 DEF Alike
  <2>12. y.urb = dev[i].urb \/ (y.urb = "flight" /\ dev[i].urb = "idle")
    BY <2>7
  <2> QED
    BY <1>1, <1>3, <1>8, <1>10, <2>1, <2>3, <2>4, <2>6, <2>7, <2>8, <2>9, <2>10, <2>11, <2>12, WalkMoves
<1>11. CASE client.kind = "gone"
  <2>1. WalkGone(i) /\ client' = [on EXCEPT !.pc = IF dev[i].cb THEN "cb" ELSE "walk"]
    BY <1>3, <1>7, <1>11 DEF Walk
  <2>2. dev' = [dev EXCEPT ![i].told = dev[i].told \/ dev[i].cb] /\ UNCHANGED <<susp, msgs>> /\ crash' = crash
    BY <1>4, <2>1 DEF WalkGone, Fails
  <2>3. PICK f \in BOOLEAN : f = (dev[i].told \/ dev[i].cb) OBVIOUS
  <2>4. PICK y : y = [dev[i] EXCEPT !.told = f] OBVIOUS
  <2>5. /\ y \in DevType /\ y.st = dev[i].st /\ y.claimed = dev[i].claimed /\ y.cb = dev[i].cb /\ y.failed = dev[i].failed
        /\ y.poll = dev[i].poll /\ y.urb = dev[i].urb /\ y.wake = dev[i].wake
        /\ y.pos = dev[i].pos /\ y.num = dev[i].num /\ y.len = dev[i].len /\ y.out = dev[i].out /\ y.ctl = dev[i].ctl
    BY <1>4, <2>4 DEF DevType
  <2>6. OneIs(i, y)
    <3>1. dev' = [dev EXCEPT ![i] = y] BY <2>2, <2>3, <2>4, Zenon
    <3> QED BY <2>5, <3>1, OneChanges
  <2>7. bus = "gone" BY <1>1, <1>5, <1>11 DEF AcmInv, ClientPlace, Handle
  <2>8. HasRoom(y) /\ (y.urb = "doneok" => y.len <= y.num) /\ (y.urb = "idle" => ~y.poll)
    BY <1>5, <2>5 DEF Used, HasRoom
  <2>9. /\ client' \in ClientType /\ client'.kind = "gone" /\ client'.cur = From(i + 1) /\ client'.i = i
        /\ client'.pc = IF dev[i].cb THEN "cb" ELSE "walk"
    BY <1>8, <1>11, <2>1 DEF ClientType
  <2> QED BY <1>1, <1>3, <1>4, <1>5, <1>11, <2>2, <2>5, <2>6, <2>7, <2>8, <2>9, WalkMoves
<1> QED BY <1>2, <1>9, <1>10, <1>11

-----------------------------------------------------------------------------
(* The driver *)

\* The driver starts with nothing, or is not there.
LEMMA InitHolds ==
    ASSUME Tamed, Init \/ AcmOff
    PROVE  AcmInv
<1>1. /\ drv \in {"up", "down"} /\ bus = "none" /\ plugs = 0 /\ susp = FALSE /\ msgs = <<>> /\ hdl = 0
      /\ dev = [i \in Dev |-> NoDev] /\ op = NoOp
      /\ client = [pc |-> "idle", kind |-> "none", cur |-> 0, i |-> 0]
      /\ writer = [pc |-> "idle", k |-> "out", i |-> 0]
      /\ calls = 0 /\ crash = "none" /\ wakes = FALSE
  BY DEF Init, AcmOff
<1>2. IsTame(env) /\ ReadWell(info)
  <2>1. CASE Init
    <3>1. PICK kind \in Kinds(env) : env \in Environments /\ info = Reading(kind)
      BY <2>1 DEF Init
    <3> QED BY <3>1 DEF Tamed
  <2>2. CASE AcmOff
    <3>1. PICK kind \in Kinds({}) : env = {} /\ info = Reading(kind)
      BY <2>2 DEF AcmOff
    <3>2. IsTame({}) BY DEF IsTame
    <3> QED BY <3>1, <3>2 DEF Tamed
  <2> QED BY <2>1, <2>2
<1>3. NoDev \in DevType /\ Blank(NoDev) /\ NoDev.st = "free" /\ NoDev.out.want = "none" /\ NoDev.urb = "null"
  <2>1. NoXfer \in XferType /\ AtRest(NoXfer) /\ NoXfer.want = "none"
    BY DEF NoXfer, XferType, AtRest
  <2>2. 0 \in 0..InBuffer /\ 0 \in 0 .. InBuffer + 1 BY ConstantsAre
  <2> QED BY <2>1, <2>2 DEF NoDev, DevType, Blank
<1>4. dev \in [Dev -> DevType] /\ \A i \in Dev : dev[i] = NoDev
  BY <1>1, <1>3
<1>5. op \in OpType /\ op.by = "none" /\ op.pc = "none" /\ op.i = 0
  BY <1>1 DEF NoOp, OpType
<1>6. client \in ClientType /\ client.pc = "idle" /\ client.kind = "none"
  BY <1>1 DEF ClientType
<1>7. writer \in WriterType /\ writer.pc = "idle" /\ writer.i = 0
  BY <1>1 DEF WriterType, Transfers
<1>8. DevicesAre BY <1>3, <1>4 DEF DevicesAre, Blank
<1>9. OpPlace BY <1>5 DEF OpPlace, Closing
<1>10. Handle BY <1>1, <1>3, <1>4, <1>5, <1>6 DEF Handle, Blank
<1>11. Messages
  <2>1. News(msgs) BY <1>1, FewMessages DEF News
  <2>2. ~Suspends /\ ~Resumes /\ ~GoneNews
    BY <1>1, FewMessages DEF Suspends, Resumes, GoneNews
  <2> QED BY <1>1, <1>6, <2>1, <2>2 DEF Messages
<1>12. ClientPlace BY <1>6 DEF ClientPlace
<1>13. WriterPlace BY <1>3, <1>4, <1>7 DEF WriterPlace, Blank, AtRest
<1>14. WakeKnown /\ Polling BY <1>1 DEF WakeKnown, Polling
<1>15. TypeOK
  <2>1. MaxPlugs \in Nat /\ MaxCalls \in Nat /\ QueueLen \in Nat
    BY ConstantsAre
  <2>2. 0 \in 0..MaxPlugs /\ 0 \in 0..MaxCalls /\ <<>> \in Seq(News4) /\ Len(<<>>) <= QueueLen
    BY <2>1, FewMessages
  <2> QED
    BY <1>1, <1>4, <1>5, <1>6, <1>7, <2>2 DEF TypeOK, DevType, OpType, ClientType, WriterType, News4
<1> QED BY <1>1, <1>2, <1>8, <1>9, <1>10, <1>11, <1>12, <1>13, <1>14, <1>15 DEF AcmInv, NoAbuse

\* Nothing that the driver knows changes.
LEMMA StaysSo ==
    ASSUME AcmInv, UNCHANGED acmVars
    PROVE  AcmInv'
<1>1. UNCHANGED <<drv, bus, plugs, susp, msgs, hdl, dev, info, wakes, op, client, writer, calls, crash, env>>
  BY DEF acmVars
<1>2. DevicesAre' /\ WriterPlace' /\ Listed' = Listed /\ WakeKnown'
  BY <1>1, DevicesStay
<1>3. OpPlace' /\ Handle' /\ ClientPlace'
  BY <1>1, <1>2 DEF AcmInv, OpPlace, Handle, ClientPlace
<1>4. Messages' /\ Polling'
  BY <1>1, <1>2, MessagesStay DEF AcmInv, Messages, Polling
<1>5. TypeOK' BY <1>1, Known, TypesWillBe
<1> QED BY <1>1, <1>2, <1>3, <1>4, <1>5, InvIs DEF Parts

\* Every step of the driver, of its users and of the devices
LEMMA StepKeeps ==
    ASSUME AcmInv, Next
    PROVE  AcmInv'
<1>1. CASE Client
  <2>1. CASE Message BY <2>1, MessageKeeps
  <2>2. CASE NewSeen BY <2>2, NewSeenKeeps
  <2>3. CASE Walk BY <2>3, WalkKeeps
  <2>4. CASE Callback BY <2>4, CallbackKeeps
  <2>5. CASE CallbackEnd \/ WalkEnd \/ MsgsEnd BY <2>5, EndsKeep
  <2>6. CASE TaskEnds BY <2>6, TaskEndsKeeps
  <2>7. CASE \E i \in Dev : InXferCb(i) \/ \E k \in Transfers : OutXferCb(i, k)
    BY <2>7, InXferCbKeeps, OutCbKeeps, CtlCbKeeps DEF Transfers
  <2> QED BY <1>1, <2>1, <2>2, <2>3, <2>4, <2>5, <2>6, <2>7 DEF Client
<1>2. CASE Locked
  BY <1>2, OpenFindKeeps, OpenClaimKeeps, OpenSubmitKeeps, OpenNotifKeeps, OpenInsertKeeps, CloseFlushKeeps,
     CloseReleaseKeeps DEF Locked
<1>3. CASE Writes BY <1>3, WriteDoneKeeps, WriteTimeoutKeeps DEF Writes
<1>4. CASE User
  <2>1. CASE Uninstall BY <2>1, UninstallKeeps
  <2>2. CASE \E i \in Dev : OpenBegin(i) \/ UserClose(i)
    BY <2>2, OpenBeginKeeps, UserCloseKeeps
  <2>3. CASE \E i \in Dev : \E k \in Transfers : Write(i, k)
    BY <2>3, WriteKeeps
  <2>4. CASE \E i \in Dev : \E enable \in BOOLEAN : Wakeup(i, enable)
    BY <2>4, WakeupKeeps
  <2> QED BY <1>4, <2>1, <2>2, <2>3, <2>4 DEF User
<1>5. CASE Told BY <1>5, CloseToldKeeps DEF Told
<1>6. CASE Answers
  BY <1>6, AnswerOutKeeps, AnswerCtlKeeps DEF Answers, Transfers
<1>7. CASE Bus
  BY <1>7, PlugKeeps, PlugOtherKeeps, UnplugKeeps, SuspendKeeps, ResumeKeeps, ReceiveKeeps DEF Bus
<1> QED BY <1>1, <1>2, <1>3, <1>4, <1>5, <1>6, <1>7 DEF Next

\* What the invariant says of a driver in the hands of a careful application
LEMMA AcmHolds ==
    ASSUME AcmInv
    PROVE  AcmConsistent
<1>1. HandleIsShared
  <2>1. (\E i \in Dev : dev[i].claimed) => hdl # 0 BY DEF AcmInv, Handle
  <2>2. hdl # 0 => \/ client.pc = "new" \/ ~Unlocked \/ Listed # {}
    BY DEF AcmInv, Handle, OpPlace, Unlocked
  <2>3. \A i \in Listed : dev[i].claimed BY AllSound, KindsDiffer DEF Listed
  <2> QED BY <2>1, <2>2, <2>3 DEF HandleIsShared
<1>2. BufferFits
  <2> SUFFICES ASSUME NEW i \in Listed PROVE HasRoom(dev[i])
    BY DEF BufferFits, HasRoom
  <2> QED BY AllSound, KindsDiffer DEF Listed, Used
<1>3. WakeIsKnown
  <2> SUFFICES ASSUME bus = "present", \A i \in Dev : dev[i].ctl.urb = "idle" /\ ~dev[i].ctl.sem
               PROVE  wakes <=> WakeStatus
    BY DEF WakeIsKnown
  <2>1. ~Answered BY DEF Answered, AcmInv, WriterPlace
  <2> QED BY <2>1 DEF AcmInv, WakeKnown
<1>4. DescriptorsRead BY DEF DescriptorsRead, AcmInv, ReadWell
<1> QED BY <1>1, <1>2, <1>3, <1>4 DEF AcmConsistent, AcmInv

\* ... and of the polls when nothing is left to handle
LEMMA AllPoll ==
    ASSUME AcmInv
    PROVE  KeepsPolling
<1> SUFFICES ASSUME NEW i \in Listed, bus = "present", ~susp, ClientIdle, dev[i].cb, ~dev[i].failed
             PROVE  dev[i].urb = "flight"
  BY DEF KeepsPolling
<1>1. i \in Dev /\ dev[i].st = "listed" /\ dev[i].claimed
  BY AllSound, KindsDiffer DEF Listed
<1>2. dev[i].urb \notin InDone /\ ~Resumes /\ client.kind = "none"
  BY <1>1, IdleIs
<1>3. ~(op.pc = "submit" /\ op.i = i) BY <1>1 DEF AcmInv, OpPlace
<1>4. Polls(dev[i]) BY <1>1, <1>2, <1>3 DEF AcmInv, Polling
<1> QED BY <1>2, <1>4 DEF Polls, InDone

-----------------------------------------------------------------------------
(* The ports *)

\* A request sequence is short.
IsFew(t) == t = <<>> \/ t = <<t[1]>> \/ t = <<t[1], t[2]>> \/ t = <<t[1], t[2], t[3]>>
NoBreak(t) == \A n \in DOMAIN t : t[n].reg # "break"

\* What the registers are to be like when the requests have been sent
Goal(t, chip, regs, res) ==
    /\ t.asked.job = "open" /\ chip = "ftdi" => IsClose(RateOf("ftdi", regs), 115200)
    /\ t.asked.job = "line" => IF res = "ok" THEN Made(chip, regs, t.asked.coding) ELSE regs = t.before
    /\ t.asked.job = "modem" => regs.dtr = t.asked.dtr /\ regs.rts = t.asked.rts
    /\ t.asked.job = "break" => ~regs.brk

\* The port is open for the task that opened it, on the device that it found.
PortPlace ==
    /\ DOMAIN task = DOMAIN NoTask /\ DOMAIN uart = DOMAIN NoUart
    /\ task.pc \in {"idle", "try", "preparing", "sending"} /\ task.crash = "none"
    /\ task.env \in Ports \cup {{}}
    /\ task.env = {} => ~port.open /\ task.pc = "idle"
    /\ port.ctx <=> port.open /\ port.chip = "ftdi"
    /\ task.pc # "idle" => task.d \in DOMAIN Drivers
    /\ port.open => /\ task.d \in DOMAIN Drivers /\ port.chip = Driver.chip /\ task.pc # "try"
                    /\ cable \in {NoDevice, [chip |-> Driver.chip, product |-> task.p]}
    /\ Sending => port.open
    /\ task.pc = "idle" /\ task.asked.job = "open" /\ task.res \in {"null", "fail"} => ~port.open

\* The requests that are left lead to what was asked for.
Jobs ==
    /\ task.asked.job \in {"none", "open", "line", "modem", "break"}
    /\ task.pc \in {"try", "preparing"} => task.asked.job = "open"
    /\ task.pc = "preparing" => task.after = "ok"
    /\ task.pc = "sending" => task.asked.job \in {"line", "modem", "break"}
    /\ Sending => IsFew(task.todo) /\ Goal(task, port.chip, Sent(port.chip, uart, task.todo), task.after)
    /\ task.pc = "idle" /\ port.open /\ task.res \in {"ok", "invalid"} => Goal(task, port.chip, uart, task.res)

\* A break is ended by the request behind it.
Breaks ==
    /\ cable # NoDevice /\ uart.brk => task.pc = "sending" /\ task.asked.job = "break"
    /\ task.pc = "sending" /\ task.asked.job = "break" => ~Uses("error")
    /\ Sending /\ task.asked.job # "break" => NoBreak(task.todo)

VcpInv == PortPlace /\ Jobs /\ Breaks

-----------------------------------------------------------------------------
(* Requests *)

\* A short sequence, its first and the others
LEMMA TuplesAre ==
    /\ \A a : Head(<<a>>) = a /\ Tail(<<a>>) = <<>> /\ <<a>> # <<>> /\ <<a>>[1] = a
    /\ \A a, b : Head(<<a, b>>) = a /\ Tail(<<a, b>>) = <<b>> /\ <<a, b>> # <<>> /\ <<a, b>>[1] = a /\ <<a, b>>[2] = b
    /\ \A a, b, c : /\ Head(<<a, b, c>>) = a /\ Tail(<<a, b, c>>) = <<b, c>> /\ <<a, b, c>> # <<>>
                    /\ <<a, b, c>>[1] = a /\ <<a, b, c>>[2] = b /\ <<a, b, c>>[3] = c
    /\ DOMAIN <<>> = {} /\ (\A a : DOMAIN <<a>> = {1}) /\ (\A a, b : DOMAIN <<a, b>> = {1, 2})
    /\ \A a, b, c : DOMAIN <<a, b, c>> = {1, 2, 3}
<1>1. \A a : Head(<<a>>) = a /\ Tail(<<a>>) = <<>> /\ <<a>> # <<>> /\ <<a>>[1] = a
  OBVIOUS
<1>2. \A a, b : Head(<<a, b>>) = a /\ Tail(<<a, b>>) = <<b>> /\ <<a, b>> # <<>> /\ <<a, b>>[1] = a /\ <<a, b>>[2] = b
  OBVIOUS
<1>3. \A a, b, c : /\ Head(<<a, b, c>>) = a /\ Tail(<<a, b, c>>) = <<b, c>> /\ <<a, b, c>> # <<>>
                   /\ <<a, b, c>>[1] = a /\ <<a, b, c>>[2] = b /\ <<a, b, c>>[3] = c
  OBVIOUS
<1>4. DOMAIN <<>> = {} /\ (\A a : DOMAIN <<a>> = {1}) /\ (\A a, b : DOMAIN <<a, b>> = {1, 2})
  OBVIOUS
<1>5. \A a, b, c : DOMAIN <<a, b, c>> = {1, 2, 3} OBVIOUS
<1> QED BY <1>1, <1>2, <1>3, <1>4, <1>5

\* ... as the drivers put them together
LEMMA JoinedAre ==
    /\ <<>> \o <<>> = <<>>
    /\ \A a : <<a>> \o <<>> = <<a>> /\ <<>> \o <<a>> = <<a>>
    /\ \A a, b : <<a>> \o <<b>> = <<a, b>>
    /\ \A a, b, c : <<a>> \o <<b, c>> = <<a, b, c>>
<1>1. <<>> \o <<>> = <<>> OBVIOUS
<1>2. ASSUME NEW a PROVE <<a>> \o <<>> = <<a>> /\ <<>> \o <<a>> = <<a>>
  <2>1. <<a>> \in Seq({a}) OBVIOUS
  <2> QED BY <2>1, ConcatEmptySeq
<1>3. ASSUME NEW a, NEW b PROVE <<a>> \o <<b>> = <<a, b>>
  <2> DEFINE T == {a, b}
  <2>1. <<a>> \in Seq(T) /\ <<b>> \in Seq(T) /\ <<a, b>> \in Seq(T) /\ Len(<<a>>) = 1 /\ Len(<<b>>) = 1 /\ Len(<<a, b>>) = 2
        /\ <<a>>[1] = a /\ <<b>>[1] = b /\ <<a, b>>[1] = a /\ <<a, b>>[2] = b
    OBVIOUS
  <2>2. PICK s \in Seq(T) : s = <<a>> \o <<b>> BY <2>1, ConcatProperties
  <2>3. Len(s) = 2 /\ s[1] = a /\ s[2] = b BY <2>1, <2>2, ConcatProperties
  <2>4. PICK t \in Seq(T) : t = <<a, b>> BY <2>1
  <2>5. Len(t) = 2 /\ t[1] = a /\ t[2] = b BY <2>1, <2>4
  <2>6. s = t BY <2>3, <2>5, SeqEqual
  <2> QED BY <2>2, <2>4, <2>6
<1>4. ASSUME NEW a, NEW b, NEW c PROVE <<a>> \o <<b, c>> = <<a, b, c>>
  <2> DEFINE T == {a, b, c}
  <2>1. /\ <<a>> \in Seq(T) /\ <<b, c>> \in Seq(T) /\ <<a, b, c>> \in Seq(T)
        /\ Len(<<a>>) = 1 /\ Len(<<b, c>>) = 2 /\ Len(<<a, b, c>>) = 3
        /\ <<a>>[1] = a /\ <<b, c>>[1] = b /\ <<b, c>>[2] = c
        /\ <<a, b, c>>[1] = a /\ <<a, b, c>>[2] = b /\ <<a, b, c>>[3] = c
    OBVIOUS
  <2>2. PICK s \in Seq(T) : s = <<a>> \o <<b, c>> BY <2>1, ConcatProperties
  <2>3. Len(s) = 3 /\ s[1] = a /\ s[2] = b /\ s[3] = c
    BY <2>1, <2>2, ConcatProperties
  <2>4. PICK t \in Seq(T) : t = <<a, b, c>> BY <2>1
  <2>5. Len(t) = 3 /\ t[1] = a /\ t[2] = b /\ t[3] = c BY <2>1, <2>4
  <2>6. s = t BY <2>3, <2>5, SeqEqual
  <2> QED BY <2>2, <2>4, <2>6
<1> QED BY <1>1, <1>2, <1>3, <1>4

\* The registers after no request
LEMMA SentIs ==
    ASSUME NEW chip, NEW regs
    PROVE  Sent(chip, regs, <<>>) = regs
BY DEF Sent, Sent1, Rest

\* ... after one
LEMMA SentIs1 ==
    ASSUME NEW chip, NEW regs, NEW a
    PROVE  Sent(chip, regs, <<a>>) = After(chip, regs, a)
<1>1. Rest(<<a>>) = <<>> /\ Rest(<<>>) = <<>> /\ <<a>> # <<>> /\ Head(<<a>>) = a
  BY TuplesAre DEF Rest
<1> QED BY <1>1, Zenon DEF Sent, Sent1

\* ... after two
LEMMA SentIs2 ==
    ASSUME NEW chip, NEW regs, NEW a, NEW b
    PROVE  Sent(chip, regs, <<a, b>>) = After(chip, After(chip, regs, a), b)
<1>1. /\ Rest(<<a, b>>) = <<b>> /\ Rest(<<b>>) = <<>> /\ Rest(<<>>) = <<>>
      /\ <<a, b>> # <<>> /\ <<b>> # <<>> /\ Head(<<a, b>>) = a /\ Head(<<b>>) = b
  BY TuplesAre DEF Rest
<1> QED BY <1>1, Zenon DEF Sent, Sent1

\* ... and after three
LEMMA SentIs3 ==
    ASSUME NEW chip, NEW regs, NEW a, NEW b, NEW c
    PROVE  Sent(chip, regs, <<a, b, c>>) = After(chip, After(chip, After(chip, regs, a), b), c)
<1>1. /\ Rest(<<a, b, c>>) = <<b, c>> /\ Rest(<<b, c>>) = <<c>> /\ <<a, b, c>> # <<>> /\ <<b, c>> # <<>> /\ <<c>> # <<>>
      /\ Head(<<a, b, c>>) = a /\ Head(<<b, c>>) = b /\ Head(<<c>>) = c
  <2>1. Tail(<<a, b, c>>) = <<b, c>> /\ <<a, b, c>> # <<>> /\ Tail(<<b, c>>) = <<c>> /\ <<b, c>> # <<>>
    BY TuplesAre
  <2> QED BY <2>1, TuplesAre DEF Rest
<1> QED BY <1>1, Zenon DEF Sent, Sent1

\* A request is sent, and those behind it lead to the same.
LEMMA SentOne ==
    ASSUME NEW chip, NEW regs, NEW t, IsFew(t), t # <<>>
    PROVE  /\ IsFew(Tail(t)) /\ Sent(chip, After(chip, regs, Head(t)), Tail(t)) = Sent(chip, regs, t)
           /\ NoBreak(t) => NoBreak(Tail(t)) /\ Head(t).reg # "break"
<1>1. CASE t = <<t[1]>>
  <2>1. PICK a : t = <<a>> BY <1>1
  <2>2. Head(t) = a /\ Tail(t) = <<>> /\ DOMAIN t = {1} /\ t[1] = a
    BY <2>1, TuplesAre
  <2>3. Sent(chip, After(chip, regs, Head(t)), Tail(t)) = Sent(chip, regs, t)
    <3>1. PICK r : r = After(chip, regs, a) OBVIOUS
    <3>2. Sent(chip, r, <<>>) = r BY SentIs, Zenon
    <3>3. Sent(chip, regs, <<a>>) = After(chip, regs, a) BY SentIs1, Zenon
    <3> QED BY <2>1, <2>2, <3>1, <3>2, <3>3, Zenon
  <2> QED BY <2>2, <2>3, TuplesAre DEF IsFew, NoBreak
<1>2. CASE t = <<t[1], t[2]>>
  <2>1. PICK a, b : t = <<a, b>> BY <1>2
  <2>2. Head(t) = a /\ Tail(t) = <<b>> /\ DOMAIN t = {1, 2} /\ t[1] = a /\ t[2] = b /\ DOMAIN <<b>> = {1} /\ <<b>>[1] = b
    BY <2>1, TuplesAre
  <2>3. Sent(chip, After(chip, regs, Head(t)), Tail(t)) = Sent(chip, regs, t)
    <3>1. PICK r : r = After(chip, regs, a) OBVIOUS
    <3>2. Sent(chip, r, <<b>>) = After(chip, r, b) BY SentIs1, Zenon
    <3>3. Sent(chip, regs, <<a, b>>) = After(chip, After(chip, regs, a), b)
      BY SentIs2
    <3> QED BY <2>1, <2>2, <3>1, <3>2, <3>3, Zenon
  <2>4. IsFew(<<b>>) BY <2>2 DEF IsFew
  <2> QED BY <2>2, <2>3, <2>4 DEF NoBreak
<1>3. CASE t = <<t[1], t[2], t[3]>>
  <2>1. PICK a, b, c : t = <<a, b, c>> BY <1>3
  <2>2. /\ Head(t) = a /\ Tail(t) = <<b, c>> /\ DOMAIN t = {1, 2, 3} /\ t[1] = a /\ t[2] = b /\ t[3] = c
        /\ DOMAIN <<b, c>> = {1, 2} /\ <<b, c>>[1] = b /\ <<b, c>>[2] = c
    BY <2>1, TuplesAre
  <2>3. Sent(chip, After(chip, regs, Head(t)), Tail(t)) = Sent(chip, regs, t)
    <3>1. PICK r : r = After(chip, regs, a) OBVIOUS
    <3>2. Sent(chip, r, <<b, c>>) = After(chip, After(chip, r, b), c)
      BY SentIs2
    <3>3. Sent(chip, regs, <<a, b, c>>) = After(chip, After(chip, After(chip, regs, a), b), c)
      BY SentIs3
    <3> QED BY <2>1, <2>2, <3>1, <3>2, <3>3, Zenon
  <2>4. IsFew(<<b, c>>) BY <2>2 DEF IsFew
  <2> QED BY <2>2, <2>3, <2>4 DEF NoBreak
<1> QED BY <1>1, <1>2, <1>3 DEF IsFew

\* A register is set, or none.
LEMMA AfterIs ==
    ASSUME NEW chip, NEW regs, DOMAIN regs = DOMAIN NoUart, NEW req
    PROVE  /\ DOMAIN After(chip, regs, req) = DOMAIN NoUart
           /\ req.reg # "break" => After(chip, regs, req).brk = regs.brk
           /\ req.reg = "break" => After(chip, regs, req).brk = (req.val % 2 = 1)
           /\ req.reg = "rate" => After(chip, regs, req).rate = req.val /\ After(chip, regs, req).format = regs.format
           /\ req.reg = "format" => After(chip, regs, req).format = req.val /\ After(chip, regs, req).rate = regs.rate
           /\ req.reg = "dtr" => After(chip, regs, req).dtr = (req.val % 2 = 1) /\ After(chip, regs, req).rts = regs.rts
           /\ req.reg = "rts" => After(chip, regs, req).rts = (req.val % 2 = 1) /\ After(chip, regs, req).dtr = regs.dtr
           /\ req.reg = "modem" => /\ After(chip, regs, req).dtr = ((req.val % 2 = 1) # (chip = "ch34x"))
                                   /\ After(chip, regs, req).rts = ((req.val \div 2 = 1) # (chip = "ch34x"))
           /\ req.reg \in {"reset", "enable"} => After(chip, regs, req) = regs
<1>0. DOMAIN NoUart = {"rate", "format", "dtr", "rts", "brk"} BY DEF NoUart
<1>1. CASE req.reg = "rate"
  <2>1. After(chip, regs, req) = [regs EXCEPT !.rate = req.val]
    BY <1>1 DEF After
  <2> QED BY <1>0, <1>1, <2>1
<1>2. CASE req.reg = "format"
  <2>1. After(chip, regs, req) = [regs EXCEPT !.format = req.val]
    BY <1>2 DEF After
  <2> QED BY <1>0, <1>2, <2>1
<1>3. CASE req.reg = "break"
  <2>1. After(chip, regs, req) = [regs EXCEPT !.brk = (req.val % 2 = 1)]
    BY <1>3 DEF After
  <2> QED BY <1>0, <1>3, <2>1
<1>4. CASE req.reg = "dtr"
  <2>1. After(chip, regs, req) = [regs EXCEPT !.dtr = (req.val % 2 = 1)]
    BY <1>4 DEF After
  <2> QED BY <1>0, <1>4, <2>1
<1>5. CASE req.reg = "rts"
  <2>1. After(chip, regs, req) = [regs EXCEPT !.rts = (req.val % 2 = 1)]
    BY <1>5 DEF After
  <2> QED BY <1>0, <1>5, <2>1
<1>6. CASE req.reg = "modem"
  <2>1. PICK f, g : f = ((req.val % 2 = 1) # (chip = "ch34x")) /\ g = ((req.val \div 2 = 1) # (chip = "ch34x"))
    OBVIOUS
  <2>2. After(chip, regs, req) = [[regs EXCEPT !.dtr = f] EXCEPT !.rts = g]
    BY <1>6, <2>1 DEF After
  <2>3. PICK h : h = [regs EXCEPT !.dtr = f] OBVIOUS
  <2>4. DOMAIN h = DOMAIN NoUart /\ h.dtr = f /\ h.brk = regs.brk
    BY <1>0, <2>3
  <2>5. After(chip, regs, req) = [h EXCEPT !.rts = g] BY <2>2, <2>3
  <2>6. /\ DOMAIN After(chip, regs, req) = DOMAIN NoUart /\ After(chip, regs, req).rts = g
        /\ After(chip, regs, req).dtr = f /\ After(chip, regs, req).brk = regs.brk
    BY <1>0, <2>4, <2>5
  <2> QED BY <1>6, <2>1, <2>6
<1>7. CASE req.reg \notin {"rate", "format", "break", "dtr", "rts", "modem"}
  <2>1. After(chip, regs, req) = regs BY <1>7 DEF After
  <2> QED BY <1>7, <2>1
<1> QED BY <1>1, <1>2, <1>3, <1>4, <1>5, <1>6, <1>7

-----------------------------------------------------------------------------
(* What the drivers send *)

\* What puts a rate and a format, those that are asked for, into their registers
Puts(t, c, v, w) == t = If(c.rate # 0, Rate("rate", v)) \o If(c.bits # 0, Rate("format", w))

\* *_line_coding_set(): the rate and the format are put into registers.
LEMMA LineIs ==
    ASSUME NEW chip, NEW c, LineRequests(chip, c).ok
    PROVE  \E v, w : Puts(LineRequests(chip, c).todo, c, v, w)
<1>1. CASE chip = "ftdi"
  <2>1. LineRequests(chip, c) = FtdiRequests(c) BY <1>1 DEF LineRequests
  <2> QED BY <2>1 DEF FtdiRequests, Puts
<1>2. CASE chip = "ch34x"
  <2>1. PICK v : v = 2^8 * Ch34xDivisor(c.rate).factor + 2^7 + Ch34xDivisor(c.rate).div
    OBVIOUS
  <2>2. PICK w : w = Ch34xFormat(c) OBVIOUS
  <2>3. PICK rate : rate = If(c.rate # 0, Rate("rate", v)) OBVIOUS
  <2>4. LineRequests(chip, c) = Ch34xRequests(c) BY <1>2 DEF LineRequests
  <2>5. Ch34xRequests(c).todo = IF c.bits = 0 THEN rate ELSE rate \o Rate("format", w)
    BY <2>1, <2>2, <2>3, <2>4 DEF Ch34xRequests
  <2>6. rate \o <<>> = rate BY <2>3, JoinedAre DEF If, Rate
  <2>7. If(c.bits # 0, Rate("format", w)) = IF c.bits = 0 THEN <<>> ELSE Rate("format", w)
    BY DEF If
  <2>8. Ch34xRequests(c).todo = rate \o If(c.bits # 0, Rate("format", w))
    BY <2>5, <2>6, <2>7
  <2> QED BY <2>3, <2>4, <2>8 DEF Puts
<1>3. CASE chip # "ftdi" /\ chip # "ch34x"
  <2>1. LineRequests(chip, c) = Cp210xRequests(c) BY <1>3 DEF LineRequests
  <2> QED BY <2>1 DEF Cp210xRequests, Puts
<1> QED BY <1>1, <1>2, <1>3

\* What is put into registers, when there is something to put
LEMMA PutIs ==
    ASSUME NEW chip, NEW regs, DOMAIN regs = DOMAIN NoUart, NEW c, NEW v, NEW w, NEW t, Puts(t, c, v, w)
    PROVE  /\ IsFew(t) /\ NoBreak(t) /\ DOMAIN Sent(chip, regs, t) = DOMAIN NoUart
           /\ (c.rate # 0 => Sent(chip, regs, t).rate = v) /\ (c.bits # 0 => Sent(chip, regs, t).format = w)
<1>1. PICK x : x = [reg |-> "rate", val |-> v] OBVIOUS
<1>2. PICK y : y = [reg |-> "format", val |-> w] OBVIOUS
<1>3. t = (IF c.rate # 0 THEN <<x>> ELSE <<>>) \o (IF c.bits # 0 THEN <<y>> ELSE <<>>)
  BY <1>1, <1>2 DEF Puts, If, Rate
<1>4. x.reg = "rate" /\ x.val = v /\ y.reg = "format" /\ y.val = w
  BY <1>1, <1>2
<1>5. CASE c.rate = 0 /\ c.bits = 0
  <2>1. t = <<>> BY <1>3, <1>5, JoinedAre
  <2>2. Sent(chip, regs, t) = regs BY <2>1, SentIs
  <2>3. IsFew(t) /\ NoBreak(t) BY <2>1, TuplesAre DEF IsFew, NoBreak
  <2> QED BY <1>5, <2>2, <2>3
<1>6. CASE c.rate # 0 /\ c.bits = 0
  <2>1. t = <<x>> BY <1>3, <1>6, JoinedAre
  <2>2. PICK r : r = After(chip, regs, x) OBVIOUS
  <2>3. Sent(chip, regs, t) = r BY <2>1, <2>2, SentIs1
  <2>4. t[1] = x /\ DOMAIN t = {1} BY <2>1, TuplesAre
  <2>5. IsFew(t) /\ NoBreak(t) BY <1>4, <2>1, <2>4 DEF IsFew, NoBreak
  <2>6. DOMAIN r = DOMAIN NoUart /\ r.rate = v BY <1>4, <2>2, AfterIs
  <2> QED BY <1>6, <2>3, <2>5, <2>6
<1>7. CASE c.rate = 0 /\ c.bits # 0
  <2>1. t = <<y>> BY <1>3, <1>7, JoinedAre
  <2>2. PICK r : r = After(chip, regs, y) OBVIOUS
  <2>3. Sent(chip, regs, t) = r BY <2>1, <2>2, SentIs1
  <2>4. t[1] = y /\ DOMAIN t = {1} BY <2>1, TuplesAre
  <2>5. IsFew(t) /\ NoBreak(t) BY <1>4, <2>1, <2>4 DEF IsFew, NoBreak
  <2>6. DOMAIN r = DOMAIN NoUart /\ r.format = w BY <1>4, <2>2, AfterIs
  <2> QED BY <1>7, <2>3, <2>5, <2>6
<1>8. CASE c.rate # 0 /\ c.bits # 0
  <2>1. t = <<x, y>> BY <1>3, <1>8, JoinedAre
  <2>2. Sent(chip, regs, t) = After(chip, After(chip, regs, x), y)
    <3>1. Sent(chip, regs, <<x, y>>) = After(chip, After(chip, regs, x), y)
      BY SentIs2
    <3> QED BY <2>1, <3>1
  <2>3. t[1] = x /\ t[2] = y /\ DOMAIN t = {1, 2}
    <3>1. <<x, y>>[1] = x /\ <<x, y>>[2] = y /\ DOMAIN <<x, y>> = {1, 2}
      BY TuplesAre
    <3> QED BY <2>1, <3>1
  <2>4. IsFew(t) /\ NoBreak(t) BY <1>4, <2>1, <2>3 DEF IsFew, NoBreak
  <2>5. PICK r : r = After(chip, regs, x) OBVIOUS
  <2>6. DOMAIN r = DOMAIN NoUart /\ r.rate = v BY <1>4, <2>5, AfterIs
  <2>7. /\ DOMAIN After(chip, r, y) = DOMAIN NoUart /\ After(chip, r, y).rate = r.rate
        /\ After(chip, r, y).format = w
    BY <1>4, <2>6, AfterIs
  <2> QED BY <2>2, <2>4, <2>5, <2>6, <2>7
<1> QED BY <1>5, <1>6, <1>7, <1>8

\* A chip that has these registers too is like the coding.
LEMMA MadeAlike ==
    ASSUME NEW chip, NEW r, NEW s, NEW c, Made(chip, r, c),
           c.rate # 0 => s.rate = r.rate, c.bits # 0 => s.format = r.format
    PROVE  Made(chip, s, c)
<1>1. c.rate # 0 => RateOf(chip, s) = RateOf(chip, r) BY Zenon DEF RateOf
<1>2. c.bits # 0 => FormatOf(chip, s) = FormatOf(chip, r)
  BY Zenon DEF FormatOf
<1> QED BY <1>1, <1>2, Zenon DEF Made

\* A line coding that one chip can be given after its reset can be given at any time.
LEMMA LineLeads ==
    ASSUME NEW chip, NEW regs, DOMAIN regs = DOMAIN NoUart, NEW c, IsMade(chip, c), NEW q, q = LineRequests(chip, c)
    PROVE  /\ IsFew(q.todo) /\ NoBreak(q.todo)
           /\ IF q.ok THEN Made(chip, Sent(chip, regs, q.todo), c) ELSE q.todo = <<>>
<1>1. CASE q.ok
  <2>1. PICK v, w : Puts(q.todo, c, v, w) BY <1>1, LineIs
  <2>3. PICK t : t = q.todo OBVIOUS
  <2>4. Puts(t, c, v, w) BY <2>1, <2>3
  <2>5. /\ IsFew(t) /\ NoBreak(t)
        /\ (c.rate # 0 => Sent(chip, regs, t).rate = v) /\ (c.bits # 0 => Sent(chip, regs, t).format = w)
    BY <2>4, PutIs
  <2>6. (c.rate # 0 => Sent(chip, NoUart, t).rate = v) /\ (c.bits # 0 => Sent(chip, NoUart, t).format = w)
    BY <2>4, PutIs
  <2>7. Made(chip, Sent(chip, NoUart, t), c) BY <1>1, <2>3 DEF IsMade
  <2>8. Made(chip, Sent(chip, regs, t), c) BY <2>5, <2>6, <2>7, MadeAlike
  <2> QED BY <1>1, <2>3, <2>5, <2>8
<1>2. CASE ~q.ok
  <2>1. q.todo = <<>> BY <1>2 DEF IsMade
  <2> QED BY <1>2, <2>1, TuplesAre DEF IsFew, NoBreak
<1> QED BY <1>1, <1>2

\* Two modem lines in a number, and out of it
LEMMA BitsTell ==
    ASSUME NEW p \in BOOLEAN, NEW q \in BOOLEAN, NEW x, x = Bits(p, q)
    PROVE (x % 2 = 1) = p /\ (x \div 2 = 1) = q
<1>1. CASE p /\ q
  <2>1. x = 3 BY <1>1 DEF Bits
  <2>2. x % 2 = 1 /\ x \div 2 = 1 BY <2>1
  <2> QED BY <1>1, <2>2, Zenon
<1>2. CASE p /\ ~q
  <2>1. x = 1 BY <1>2 DEF Bits
  <2>2. x % 2 = 1 /\ ~(x \div 2 = 1) BY <2>1
  <2> QED BY <1>2, <2>2, Zenon
<1>3. CASE ~p /\ q
  <2>1. x = 2 BY <1>3 DEF Bits
  <2>2. ~(x % 2 = 1) /\ x \div 2 = 1 BY <2>1
  <2> QED BY <1>3, <2>2, Zenon
<1>4. CASE ~p /\ ~q
  <2>1. x = 0 BY <1>4 DEF Bits
  <2>2. ~(x % 2 = 1) /\ ~(x \div 2 = 1) BY <2>1
  <2> QED BY <1>4, <2>2, Zenon
<1> QED BY <1>1, <1>2, <1>3, <1>4

\* *_set_control_line_state(): the modem lines are as asked, in whatever polarity.
LEMMA ModemLeads ==
    ASSUME NEW chip, NEW regs, DOMAIN regs = DOMAIN NoUart, NEW dtr \in BOOLEAN, NEW rts \in BOOLEAN,
           NEW t, t = ModemRequests(chip, dtr, rts)
    PROVE  /\ IsFew(t) /\ NoBreak(t)
           /\ Sent(chip, regs, t).dtr = dtr /\ Sent(chip, regs, t).rts = rts
<1>1. CASE chip = "ftdi"
  <2>1. PICK x : x = [reg |-> "dtr", val |-> Bits(dtr, FALSE)] OBVIOUS
  <2>2. PICK y : y = [reg |-> "rts", val |-> Bits(rts, FALSE)] OBVIOUS
  <2>3. t = <<x>> \o <<y>> BY <1>1, <2>1, <2>2 DEF ModemRequests, Send
  <2>4. t = <<x, y>> BY <2>3, JoinedAre
  <2>5. x.reg = "dtr" /\ (x.val % 2 = 1) = dtr
    <3>1. x.reg = "dtr" /\ x.val = Bits(dtr, FALSE) BY <2>1
    <3>2. (x.val % 2 = 1) = dtr BY <3>1, BitsTell
    <3> QED BY <3>1, <3>2
  <2>6. y.reg = "rts" /\ (y.val % 2 = 1) = rts
    <3>1. y.reg = "rts" /\ y.val = Bits(rts, FALSE) BY <2>2
    <3>2. (y.val % 2 = 1) = rts BY <3>1, BitsTell
    <3> QED BY <3>1, <3>2
  <2>7. Sent(chip, regs, t) = After(chip, After(chip, regs, x), y)
    BY <2>4, SentIs2
  <2>8. PICK r : r = After(chip, regs, x) OBVIOUS
  <2>9. DOMAIN r = DOMAIN NoUart /\ r.dtr = dtr BY <2>5, <2>8, AfterIs
  <2>10. After(chip, r, y).rts = rts /\ After(chip, r, y).dtr = r.dtr
    BY <2>6, <2>9, AfterIs
  <2>11. IsFew(t) /\ NoBreak(t)
    <3>1. t[1] = x /\ t[2] = y /\ DOMAIN t = {1, 2} BY <2>4, TuplesAre
    <3> QED BY <2>4, <2>5, <2>6, <3>1 DEF IsFew, NoBreak
  <2> QED BY <2>7, <2>8, <2>9, <2>10, <2>11
<1>2. CASE chip # "ftdi"
  <2>1. PICK p \in BOOLEAN, q \in BOOLEAN, e \in BOOLEAN : e = (chip = "ch34x") /\ p = (dtr # e) /\ q = (rts # e)
    OBVIOUS
  <2>2. PICK x : x = [reg |-> "modem", val |-> Bits(p, q)] OBVIOUS
  <2>3. t = <<x>>
    <3>1. CASE chip = "ch34x"
      <4>1. p = (~dtr) /\ q = (~rts) BY <2>1, <3>1
      <4> QED BY <1>2, <2>2, <3>1, <4>1 DEF ModemRequests, Send
    <3>2. CASE chip # "ch34x"
      <4>1. p = dtr /\ q = rts BY <2>1, <3>2
      <4> QED BY <1>2, <2>2, <3>2, <4>1 DEF ModemRequests, Send
    <3> QED BY <3>1, <3>2
  <2>4. x.reg = "modem" /\ (x.val % 2 = 1) = p /\ (x.val \div 2 = 1) = q
    <3>1. x.reg = "modem" /\ x.val = Bits(p, q) BY <2>2
    <3>2. (x.val % 2 = 1) = p /\ (x.val \div 2 = 1) = q BY <3>1, BitsTell
    <3> QED BY <3>1, <3>2
  <2>5. Sent(chip, regs, t) = After(chip, regs, x) BY <2>3, SentIs1
  <2>6. /\ After(chip, regs, x).dtr = ((x.val % 2 = 1) # (chip = "ch34x"))
        /\ After(chip, regs, x).rts = ((x.val \div 2 = 1) # (chip = "ch34x"))
    BY <2>4, AfterIs
  <2>7. After(chip, regs, x).dtr = dtr /\ After(chip, regs, x).rts = rts
    <3>1. (p # e) = dtr /\ (q # e) = rts BY <2>1
    <3>2. After(chip, regs, x).dtr = (p # e) /\ After(chip, regs, x).rts = (q # e)
      BY <2>1, <2>4, <2>6, Zenon
    <3> QED BY <3>1, <3>2, Zenon
  <2>8. IsFew(t) /\ NoBreak(t)
    <3>1. t[1] = x /\ DOMAIN t = {1} BY <2>3, TuplesAre
    <3> QED BY <2>3, <2>4, <3>1 DEF IsFew, NoBreak
  <2> QED BY <2>5, <2>7, <2>8
<1> QED BY <1>1, <1>2

\* cp210x_send_break(): the break ends.
LEMMA BreakLeads ==
    ASSUME NEW chip, NEW regs, DOMAIN regs = DOMAIN NoUart
    PROVE  IsFew(BreakRequests) /\ ~Sent(chip, regs, BreakRequests).brk
<1>1. PICK x : x = [reg |-> "break", val |-> 1] OBVIOUS
<1>2. PICK y : y = [reg |-> "break", val |-> 0] OBVIOUS
<1>3. BreakRequests = <<x>> \o <<y>> BY <1>1, <1>2 DEF BreakRequests, Send
<1>4. PICK t : t = BreakRequests /\ t = <<x, y>> BY <1>3, JoinedAre
<1>5. IsFew(t)
  <2>1. t[1] = x /\ t[2] = y BY <1>4, TuplesAre
  <2> QED BY <1>4, <2>1 DEF IsFew
<1>6. Sent(chip, regs, t) = After(chip, After(chip, regs, x), y)
  BY <1>4, SentIs2
<1>7. PICK r : r = After(chip, regs, x) OBVIOUS
<1>8. DOMAIN r = DOMAIN NoUart BY <1>7, AfterIs
<1>9. y.reg = "break" /\ ~(y.val % 2 = 1) BY <1>2
<1>10. ~After(chip, r, y).brk BY <1>8, <1>9, AfterIs
<1> QED BY <1>4, <1>5, <1>6, <1>7, <1>10

\* ftdi_vcp_open(), cp210x_vcp_open(): the chip is prepared.
LEMMA OpenLeads ==
    ASSUME CodingsAreMade, NEW chip, NEW regs, DOMAIN regs = DOMAIN NoUart, NEW t, t = OpenRequests(chip)
    PROVE  /\ IsFew(t) /\ NoBreak(t)
           /\ chip = "ftdi" => IsClose(RateOf("ftdi", Sent("ftdi", regs, t)), 115200)
<1>1. CASE chip = "ftdi"
  <2> DEFINE c == [rate |-> 115200, bits |-> 8, parity |-> 0, stop |-> 0]
  <2>1. c = [rate |-> 115200, bits |-> 8, parity |-> 0, stop |-> 0] OBVIOUS
  <2> HIDE DEF c
  <2>2. PICK s : s = FtdiRequests(c).todo OBVIOUS
  <2>3. PICK x : x = [reg |-> "rate", val |-> FtdiDivisor(c.rate)] OBVIOUS
  <2>18. PICK y : y = [reg |-> "format", val |-> FtdiFormat(c)] OBVIOUS
  <2>19. PICK z : z = [reg |-> "reset", val |-> 0] OBVIOUS
  <2>4. s = <<x>> \o <<y>>
    BY <2>1, <2>2, <2>3, <2>18 DEF FtdiRequests, If, Rate
  <2>5. t = <<z>> \o s BY <1>1, <2>1, <2>2, <2>19 DEF OpenRequests, Send
  <2>6. s = <<x, y>> BY <2>4, JoinedAre
  <2>7. t = <<z, x, y>> BY <2>5, <2>6, JoinedAre
  <2>8. x.reg = "rate" /\ y.reg = "format" /\ z.reg = "reset"
    BY <2>3, <2>18, <2>19
  <2>9. IsFew(t) /\ NoBreak(t)
    <3>1. t[1] = z /\ t[2] = x /\ t[3] = y /\ DOMAIN t = {1, 2, 3}
      BY <2>7, TuplesAre
    <3> QED BY <2>7, <2>8, <3>1 DEF IsFew, NoBreak
  <2>10. Sent("ftdi", regs, t) = After("ftdi", After("ftdi", After("ftdi", regs, z), x), y)
    BY <2>7, SentIs3
  <2>11. After("ftdi", regs, z) = regs BY <2>8, AfterIs
  <2>12. Sent("ftdi", regs, t) = Sent("ftdi", regs, s)
    <3>1. Sent("ftdi", regs, s) = After("ftdi", After("ftdi", regs, x), y)
      BY <2>6, SentIs2
    <3> QED BY <2>10, <2>11, <3>1
  <2>13. IsMade("ftdi", c) BY <2>1 DEF CodingsAreMade
  <2>14. LineRequests("ftdi", c) = FtdiRequests(c) /\ FtdiRequests(c).ok
    BY DEF LineRequests, FtdiRequests
  <2>15. Made("ftdi", Sent("ftdi", regs, s), c)
    BY <2>2, <2>13, <2>14, LineLeads
  <2>16. c.rate = 115200 /\ c.rate # 0 BY <2>1
  <2>17. IsClose(RateOf("ftdi", Sent("ftdi", regs, t)), 115200)
    BY <2>12, <2>15, <2>16 DEF Made
  <2> QED BY <1>1, <2>9, <2>17
<1>2. CASE chip = "ch34x"
  <2>1. t = <<>> BY <1>2 DEF OpenRequests
  <2> QED BY <1>2, <2>1, TuplesAre DEF IsFew, NoBreak
<1>3. CASE chip # "ftdi" /\ chip # "ch34x"
  <2>1. PICK x : x = [reg |-> "enable", val |-> 1] OBVIOUS
  <2>2. t = <<x>> BY <1>3, <2>1 DEF OpenRequests, Send
  <2>3. t[1] = x /\ DOMAIN t = {1} /\ x.reg = "enable"
    BY <2>1, <2>2, TuplesAre
  <2> QED BY <1>3, <2>2, <2>3 DEF IsFew, NoBreak
<1> QED BY <1>1, <1>2, <1>3

-----------------------------------------------------------------------------
(* The task *)

\* What there is to know of the task
Fields == {"pc", "how", "d", "p", "rounds", "jobs", "asked", "todo", "after", "res", "before", "crash", "env"}

\* ... which NoTask has too
LEMMA FieldsAre == DOMAIN NoTask = Fields
BY DEF NoTask, Fields

\* A product is tried next: OpenPort(), NextProduct(), NextDriver().
LEMMA TryKeeps ==
    ASSUME VcpInv, task.pc \in {"idle", "try"}, ~port.open, UNCHANGED <<cable, uart, port>>, DOMAIN task' = DOMAIN task,
           task'.pc = "try", task'.d \in DOMAIN Drivers, task'.asked.job = "open", task'.env = task.env,
           task'.crash = task.crash, task.env # {}
    PROVE  VcpInv'
<1>1. PortPlace' BY DEF VcpInv, PortPlace, Sending
<1>2. Jobs' BY DEF VcpInv, PortPlace, Jobs, Sending
<1>3. Breaks' BY DEF VcpInv, Breaks, Sending
<1> QED BY <1>1, <1>2, <1>3 DEF VcpInv

\* The task and the ports when no port is open
LEMMA TryIs ==
    ASSUME VcpInv, task.pc = "try"
    PROVE  ~port.open /\ task.env # {} /\ task.asked.job = "open" /\ task.d \in DOMAIN Drivers /\ DOMAIN task = Fields
BY FieldsAre DEF VcpInv, PortPlace, Jobs

\* VCP::open()
LEMMA OpenPortKeeps ==
    ASSUME VcpInv, NEW how, NEW d \in DOMAIN Drivers, NEW p, OpenPort(how, d, p)
    PROVE  VcpInv'
<1>1. DOMAIN task = Fields BY FieldsAre DEF VcpInv, PortPlace
<1>2. /\ DOMAIN task' = DOMAIN task /\ task'.pc = "try" /\ task'.d = d /\ task'.asked = [job |-> "open"]
      /\ task'.env = task.env /\ task'.crash = task.crash
  BY <1>1 DEF OpenPort, Fields
<1>3. task.pc = "idle" /\ ~port.open /\ task.env # {} /\ UNCHANGED <<cable, uart, port>>
  BY DEF OpenPort
<1> QED BY <1>2, <1>3, TryKeeps

\* A driver's next product
LEMMA NextProductKeeps ==
    ASSUME VcpInv, NextProduct
    PROVE  VcpInv'
<1>1. task.pc = "try" /\ UNCHANGED <<cable, uart, port>> /\ task' = [task EXCEPT !.p = @ + 1]
  BY DEF NextProduct, Misses
<1>2. ~port.open /\ task.env # {} /\ task.asked.job = "open" /\ task.d \in DOMAIN Drivers /\ DOMAIN task = Fields
  BY <1>1, TryIs
<1>3. /\ DOMAIN task' = DOMAIN task /\ task'.pc = task.pc /\ task'.d = task.d /\ task'.asked = task.asked
      /\ task'.env = task.env /\ task'.crash = task.crash
  BY <1>1, <1>2 DEF Fields
<1> QED BY <1>1, <1>2, <1>3, TryKeeps

\* The service's next driver, or its next round
LEMMA NextDriverKeeps ==
    ASSUME VcpInv, NextDriver
    PROVE  VcpInv'
<1>1. /\ task.pc = "try" /\ UNCHANGED <<cable, uart, port>>
      /\ \/ task.d < Len(Drivers) /\ task' = [task EXCEPT !.d = @ + 1, !.p = 1]
         \/ task' = [task EXCEPT !.d = 1, !.p = 1, !.rounds = @ + 1]
  BY DEF NextDriver, Misses
<1>2. ~port.open /\ task.env # {} /\ task.asked.job = "open" /\ task.d \in DOMAIN Drivers /\ DOMAIN task = Fields
  BY <1>1, TryIs
<1>3. /\ DOMAIN task' = DOMAIN task /\ task'.pc = task.pc /\ task'.asked = task.asked
      /\ task'.env = task.env /\ task'.crash = task.crash
  BY <1>1, <1>2 DEF Fields
<1>4. task'.d \in DOMAIN Drivers
  <2>1. DOMAIN Drivers = 1 .. Len(Drivers) /\ Len(Drivers) \in Nat
    BY DriversAreKnown
  <2>2. (task.d < Len(Drivers) /\ task'.d = task.d + 1) \/ task'.d = 1
    BY <1>1, <1>2 DEF Fields
  <2> QED BY <1>2, <2>1, <2>2
<1> QED BY <1>1, <1>2, <1>3, <1>4, TryKeeps

\* There is no port.
LEMMA OpenFailsKeeps ==
    ASSUME VcpInv, OpenFails
    PROVE  VcpInv'
<1>1. task.pc = "try" /\ UNCHANGED <<cable, uart, port>> /\ task' = [task EXCEPT !.pc = "idle", !.res = "null"]
  BY DEF OpenFails, Misses
<1>2. ~port.open /\ task.env # {} /\ task.asked.job = "open" /\ DOMAIN task = Fields
  BY <1>1, TryIs
<1>3. /\ DOMAIN task' = DOMAIN task /\ task'.pc = "idle" /\ task'.asked = task.asked
      /\ task'.env = task.env /\ task'.crash = task.crash
  BY <1>1, <1>2 DEF Fields
<1>4. PortPlace' BY <1>1, <1>2, <1>3 DEF VcpInv, PortPlace, Sending
<1>5. Jobs' BY <1>1, <1>2, <1>3 DEF VcpInv, Jobs, Sending
<1>6. Breaks' BY <1>1, <1>2, <1>3 DEF VcpInv, Breaks, Sending
<1> QED BY <1>4, <1>5, <1>6 DEF VcpInv

\* A product is found, and its driver prepares the chip.
LEMMA OpenKeeps ==
    ASSUME CodingsAreMade, VcpInv, Open
    PROVE  VcpInv'
<1>1. /\ task.pc = "try" /\ Found /\ UNCHANGED <<cable, uart>>
      /\ port' = [open |-> TRUE, chip |-> Driver.chip, ctx |-> Driver.chip = "ftdi"]
      /\ task' = [task EXCEPT !.pc = "preparing", !.todo = OpenRequests(Driver.chip), !.after = "ok"]
  BY DEF Open
<1>2. ~port.open /\ task.env # {} /\ task.asked.job = "open" /\ task.d \in DOMAIN Drivers /\ DOMAIN task = Fields
  BY <1>1, TryIs
<1>3. PICK t : t = OpenRequests(Driver.chip) OBVIOUS
<1>4. /\ DOMAIN task' = DOMAIN task /\ task'.pc = "preparing" /\ task'.todo = t /\ task'.after = "ok"
      /\ task'.asked = task.asked /\ task'.d = task.d /\ task'.p = task.p
      /\ task'.env = task.env /\ task'.crash = task.crash
  BY <1>1, <1>2, <1>3 DEF Fields
<1>5. port'.open /\ port'.chip = Driver.chip /\ (port'.ctx <=> port'.chip = "ftdi")
  BY <1>1
<1>6. cable' = [chip |-> Driver'.chip, product |-> task'.p] /\ Driver' = Driver
  BY <1>1, <1>4 DEF Found, Driver
<1>7. PortPlace'
  BY <1>1, <1>2, <1>4, <1>5, <1>6 DEF VcpInv, PortPlace, Sending
<1>8. DOMAIN uart = DOMAIN NoUart BY DEF VcpInv, PortPlace
<1>9. IsFew(t) /\ NoBreak(t) /\ (Driver.chip = "ftdi" => IsClose(RateOf("ftdi", Sent("ftdi", uart, t)), 115200))
  BY <1>3, <1>8, OpenLeads
<1>10. Goal(task', port'.chip, Sent(port'.chip, uart', task'.todo), task'.after)
  BY <1>1, <1>2, <1>4, <1>5, <1>9 DEF Goal
<1>11. Jobs' BY <1>2, <1>4, <1>9, <1>10 DEF VcpInv, Jobs, Sending
<1>12. Breaks' BY <1>1, <1>2, <1>4, <1>9 DEF VcpInv, Breaks, Sending
<1> QED BY <1>7, <1>11, <1>12 DEF VcpInv

-----------------------------------------------------------------------------
(* Requests of the task *)

\* The port of a task that sends
LEMMA SendingIs ==
    ASSUME VcpInv, Sending
    PROVE  /\ port.open /\ task.env # {} /\ task.env \in Ports /\ task.d \in DOMAIN Drivers /\ DOMAIN task = Fields
           /\ DOMAIN uart = DOMAIN NoUart /\ task.crash = "none" /\ (Found \/ cable = NoDevice)
           /\ IsFew(task.todo) /\ Goal(task, port.chip, Sent(port.chip, uart, task.todo), task.after)
BY FieldsAre DEF VcpInv, PortPlace, Jobs, Sending, Found

\* A request is sent: the others lead to the same.
LEMMA RequestKeeps ==
    ASSUME VcpInv, Request
    PROVE  VcpInv'
<1>1. /\ Sending /\ task.todo # <<>> /\ Found /\ port.open /\ UNCHANGED <<cable, port>>
      /\ uart' = After(port.chip, uart, Head(task.todo)) /\ task' = [task EXCEPT !.todo = Tail(@)]
  BY DEF Request
<1>2. /\ DOMAIN task = Fields /\ DOMAIN uart = DOMAIN NoUart /\ IsFew(task.todo)
      /\ Goal(task, port.chip, Sent(port.chip, uart, task.todo), task.after)
  BY <1>1, SendingIs
<1>3. PICK t : t = Tail(task.todo) OBVIOUS
<1>4. /\ DOMAIN task' = DOMAIN task /\ task'.todo = t /\ task'.pc = task.pc /\ task'.d = task.d /\ task'.p = task.p
      /\ task'.asked = task.asked /\ task'.after = task.after /\ task'.res = task.res /\ task'.before = task.before
      /\ task'.crash = task.crash /\ task'.env = task.env
  BY <1>1, <1>2, <1>3 DEF Fields
<1>5. /\ IsFew(t) /\ Sent(port.chip, uart', t) = Sent(port.chip, uart, task.todo)
      /\ NoBreak(task.todo) => NoBreak(t) /\ Head(task.todo).reg # "break"
  BY <1>1, <1>2, <1>3, SentOne
<1>6. /\ DOMAIN uart' = DOMAIN NoUart
      /\ Head(task.todo).reg # "break" => uart'.brk = uart.brk
  BY <1>1, <1>2, AfterIs
<1>7. Sending' BY <1>1, <1>4 DEF Sending
<1>8. PortPlace' BY <1>1, <1>4, <1>6, <1>7 DEF VcpInv, PortPlace, Driver
<1>9. Goal(task', port'.chip, Sent(port'.chip, uart', task'.todo), task'.after)
  <2>1. PICK s : s = Sent(port.chip, uart, task.todo) OBVIOUS
  <2>2. Goal(task, port.chip, s, task.after) BY <1>2, <2>1
  <2>3. Sent(port'.chip, uart', task'.todo) = s BY <1>1, <1>4, <1>5, <2>1
  <2>4. Goal(task', port'.chip, s, task'.after) BY <1>1, <1>4, <2>2 DEF Goal
  <2> QED BY <2>3, <2>4
<1>10. Jobs' BY <1>1, <1>4, <1>5, <1>7, <1>9 DEF VcpInv, Jobs, Sending
<1>11. Breaks'
  <2>1. task.asked.job # "break" => NoBreak(t) /\ uart'.brk = uart.brk
    BY <1>1, <1>5, <1>6 DEF VcpInv, Breaks
  <2>2. task.asked.job = "break" => task.pc = "sending"
    BY <1>1 DEF VcpInv, Jobs, Sending
  <2> QED BY <1>1, <1>4, <1>7, <2>1, <2>2 DEF VcpInv, Breaks, Sending, Uses
<1> QED BY <1>8, <1>10, <1>11 DEF VcpInv

\* The last request was sent.
LEMMA RequestsEndKeeps ==
    ASSUME VcpInv, RequestsEnd
    PROVE  VcpInv'
<1>1. /\ Sending /\ task.todo = <<>> /\ UNCHANGED <<cable, uart, port>>
      /\ task' = Abused([task EXCEPT !.pc = "idle", !.res = task.after])
  BY DEF RequestsEnd
<1>2. /\ DOMAIN task = Fields /\ port.open /\ task.crash = "none" /\ task.env # {}
      /\ Goal(task, port.chip, Sent(port.chip, uart, task.todo), task.after)
  BY <1>1, SendingIs
<1>3. task' = [task EXCEPT !.pc = "idle", !.res = task.after]
  BY <1>1, <1>2 DEF Abused
<1>4. /\ DOMAIN task' = DOMAIN task /\ task'.pc = "idle" /\ task'.res = task.after /\ task'.d = task.d /\ task'.p = task.p
      /\ task'.asked = task.asked /\ task'.before = task.before
      /\ task'.crash = task.crash /\ task'.env = task.env
  BY <1>2, <1>3 DEF Fields
<1>5. Sent(port.chip, uart, task.todo) = uart BY <1>1, SentIs
<1>6. PICK g : g = task.after OBVIOUS
<1>7. Goal(task', port'.chip, uart', task'.res)
  <2>1. Goal(task, port.chip, uart, g) BY <1>2, <1>5, <1>6
  <2> QED BY <1>1, <1>4, <1>6, <2>1 DEF Goal
<1>8. ~Sending' BY <1>4 DEF Sending
<1>9. task.pc = "preparing" => task.after = "ok" BY DEF VcpInv, Jobs
<1>10. task.pc = "sending" => task.asked.job # "open" BY DEF VcpInv, Jobs
<1>11. PortPlace'
  <2>1. ~(task'.asked.job = "open" /\ task'.res \in {"null", "fail"})
    BY <1>1, <1>4, <1>9, <1>10 DEF Sending
  <2> QED BY <1>1, <1>2, <1>4, <1>8, <2>1 DEF VcpInv, PortPlace, Driver
<1>12. Jobs' BY <1>4, <1>7, <1>8 DEF VcpInv, Jobs
<1>13. Breaks'
  <2>1. ~(cable # NoDevice /\ uart.brk)
    <3>1. task.asked.job = "break" => ~uart.brk BY <1>2, <1>5 DEF Goal
    <3> QED BY <3>1 DEF VcpInv, Breaks
  <2> QED BY <1>1, <1>4, <1>8, <2>1 DEF Breaks
<1> QED BY <1>11, <1>12, <1>13 DEF VcpInv

\* A request fails: of a chip that is prepared, the port is closed.
LEMMA RequestFailsKeeps ==
    ASSUME VcpInv, RequestFails
    PROVE  VcpInv'
<1>1. /\ Sending /\ (~Found \/ Uses("error")) /\ UNCHANGED <<cable, uart>>
      /\ IF task.pc = "preparing" THEN port' = NoPort ELSE port' = port
      /\ task' = Abused([task EXCEPT !.pc = "idle", !.todo = <<>>, !.res = "fail"])
  BY DEF RequestFails, Closed
<1>2. /\ DOMAIN task = Fields /\ port.open /\ task.crash = "none" /\ task.env # {} /\ (Found \/ cable = NoDevice)
  BY <1>1, SendingIs
<1>3. task' = [task EXCEPT !.pc = "idle", !.todo = <<>>, !.res = "fail"]
  BY <1>1, <1>2 DEF Abused
<1>4. /\ DOMAIN task' = DOMAIN task /\ task'.pc = "idle" /\ task'.res = "fail" /\ task'.d = task.d /\ task'.p = task.p
      /\ task'.asked = task.asked /\ task'.crash = task.crash /\ task'.env = task.env
  BY <1>2, <1>3 DEF Fields
<1>5. ~Sending' BY <1>4 DEF Sending
<1>6. task.pc \in {"preparing", "sending"} /\ (task.pc = "sending" => task.asked.job # "open")
  BY <1>1 DEF VcpInv, Jobs, Sending
<1>7. PortPlace'
  <2>1. CASE task.pc = "preparing"
    <3>1. port' = NoPort /\ ~port'.open /\ ~port'.ctx
      BY <1>1, <2>1 DEF NoPort
    <3> QED BY <1>1, <1>2, <1>4, <1>5, <3>1 DEF VcpInv, PortPlace
  <2>2. CASE task.pc = "sending"
    BY <1>1, <1>2, <1>4, <1>5, <1>6, <2>2 DEF VcpInv, PortPlace, Driver
  <2> QED BY <1>6, <2>1, <2>2
<1>8. Jobs' BY <1>4, <1>5 DEF VcpInv, Jobs
<1>9. Breaks'
  <2>1. ~(cable # NoDevice /\ uart.brk) BY <1>1, <1>2 DEF VcpInv, Breaks
  <2> QED BY <1>1, <1>4, <1>5, <2>1 DEF Breaks
<1> QED BY <1>7, <1>8, <1>9 DEF VcpInv

\* A call of the application that sends requests which lead to what it asks for
LEMMA IssueKeeps ==
    ASSUME VcpInv, NEW asked, NEW todo, NEW ok \in BOOLEAN, Issue(asked, todo, ok),
           asked.job \in {"line", "modem", "break"}, IsFew(todo),
           asked.job = "break" => ~Uses("error"), asked.job # "break" => NoBreak(todo),
           asked.job = "line" => IF ok THEN Made(port.chip, Sent(port.chip, uart, todo), asked.coding) ELSE todo = <<>>,
           asked.job = "modem" => /\ Sent(port.chip, uart, todo).dtr = asked.dtr
                                  /\ Sent(port.chip, uart, todo).rts = asked.rts,
           asked.job = "break" => ~Sent(port.chip, uart, todo).brk
    PROVE  VcpInv'
<1>1. /\ task.pc = "idle" /\ port.open /\ UNCHANGED <<cable, uart, port>>
      /\ task' = [task EXCEPT !.pc = "sending", !.asked = asked, !.todo = todo, !.before = uart,
                              !.jobs = @ + 1, !.res = "none", !.after = IF ok THEN "ok" ELSE "invalid"]
  BY DEF Issue
<1>2. DOMAIN task = Fields BY FieldsAre DEF VcpInv, PortPlace
<1>3. /\ DOMAIN task' = DOMAIN task /\ task'.pc = "sending" /\ task'.asked = asked /\ task'.todo = todo
      /\ task'.before = uart /\ task'.after = (IF ok THEN "ok" ELSE "invalid") /\ task'.d = task.d /\ task'.p = task.p
      /\ task'.crash = task.crash /\ task'.env = task.env
  BY <1>1, <1>2 DEF Fields
<1>4. PortPlace' BY <1>1, <1>3 DEF VcpInv, PortPlace, Driver, Sending
<1>5. Goal(task', port'.chip, Sent(port'.chip, uart', task'.todo), task'.after)
  <2>1. asked.job = "line" => IF task'.after = "ok" THEN Made(port.chip, Sent(port.chip, uart, todo), asked.coding)
                              ELSE Sent(port.chip, uart, todo) = uart
    BY <1>3, SentIs
  <2> QED BY <1>1, <1>3, <2>1 DEF Goal
<1>6. Jobs' BY <1>3, <1>5 DEF VcpInv, Jobs, Sending
<1>7. Breaks' BY <1>1, <1>3 DEF VcpInv, Breaks, Sending, Uses
<1> QED BY <1>4, <1>6, <1>7 DEF VcpInv

\* *_line_coding_set()
LEMMA SetLineKeeps ==
    ASSUME CodingsAreMade, VcpInv, NEW c \in Codings(task.env), SetLine(c)
    PROVE  VcpInv'
<1>1. PICK q : q = LineRequests(port.chip, c) OBVIOUS
<1>2. Issue([job |-> "line", coding |-> c], q.todo, q.ok)
  BY <1>1 DEF SetLine
<1>3. port.open BY <1>2 DEF Issue
<1>4. IsMade(port.chip, c) /\ DOMAIN uart = DOMAIN NoUart
  BY <1>3 DEF VcpInv, PortPlace, CodingsAreMade, Driver
<1>5. q.ok \in BOOLEAN
  BY <1>1 DEF LineRequests, FtdiRequests, Ch34xRequests, Cp210xRequests
<1>6. /\ IsFew(q.todo) /\ NoBreak(q.todo)
      /\ IF q.ok THEN Made(port.chip, Sent(port.chip, uart, q.todo), c) ELSE q.todo = <<>>
  BY <1>1, <1>4, LineLeads
<1>7. PICK asked : asked = [job |-> "line", coding |-> c] OBVIOUS
<1>8. asked.job = "line" /\ asked.coding = c BY <1>7
<1>9. Issue(asked, q.todo, q.ok) BY <1>2, <1>7
<1> QED BY <1>5, <1>6, <1>8, <1>9, IssueKeeps

\* *_set_control_line_state()
LEMMA SetModemKeeps ==
    ASSUME VcpInv, NEW dtr \in BOOLEAN, NEW rts \in BOOLEAN, SetModem(dtr, rts)
    PROVE  VcpInv'
<1>1. PICK t : t = ModemRequests(port.chip, dtr, rts) OBVIOUS
<1>2. PICK asked : asked = [job |-> "modem", dtr |-> dtr, rts |-> rts]
  OBVIOUS
<1>3. asked.job = "modem" /\ asked.dtr = dtr /\ asked.rts = rts BY <1>2
<1>4. Issue(asked, t, TRUE) BY <1>1, <1>2 DEF SetModem
<1>5. DOMAIN uart = DOMAIN NoUart BY DEF VcpInv, PortPlace
<1>6. IsFew(t) /\ NoBreak(t) /\ Sent(port.chip, uart, t).dtr = dtr /\ Sent(port.chip, uart, t).rts = rts
  BY <1>1, <1>5, ModemLeads
<1> QED BY <1>3, <1>4, <1>6, IssueKeeps

\* cp210x_send_break(), whose requests do not fail
LEMMA SendBreakKeeps ==
    ASSUME PortsAreCalm, VcpInv, SendBreak
    PROVE  VcpInv'
<1>1. PICK t : t = BreakRequests OBVIOUS
<1>2. PICK asked : asked = [job |-> "break"] OBVIOUS
<1>3. asked.job = "break" BY <1>2
<1>4. Issue(asked, t, TRUE) /\ (Uses("error") => Uses("break")) /\ port.open
  BY <1>1, <1>2 DEF SendBreak, Issue
<1>5. task.env \in Ports /\ DOMAIN uart = DOMAIN NoUart
  BY <1>4 DEF VcpInv, PortPlace
<1>6. ~Uses("error") BY <1>4, <1>5 DEF PortsAreCalm, Uses
<1>7. IsFew(t) /\ ~Sent(port.chip, uart, t).brk BY <1>1, <1>5, BreakLeads
<1> QED BY <1>3, <1>4, <1>6, <1>7, IssueKeeps

-----------------------------------------------------------------------------
(* The port is closed, and the device *)

\* Nothing is asked for any more.
LEMMA ForgottenKeeps ==
    ASSUME VcpInv, task.pc = "idle", Forgotten, port' = NoPort, UNCHANGED <<cable, uart>>
    PROVE  VcpInv'
<1>1. /\ DOMAIN task' = DOMAIN NoTask /\ task'.pc = "idle" /\ task'.asked = [job |-> "none"] /\ task'.res = "none"
      /\ task'.env = task.env /\ task'.crash = task.crash
  BY DEF Forgotten, NoTask
<1>2. ~port'.open /\ ~port'.ctx BY DEF NoPort
<1>3. ~Sending' /\ task'.asked.job = "none" BY <1>1 DEF Sending
<1>4. PortPlace' BY <1>1, <1>2, <1>3 DEF VcpInv, PortPlace
<1>5. Jobs' BY <1>1, <1>2, <1>3 DEF Jobs
<1>6. Breaks' BY <1>1, <1>3 DEF VcpInv, Breaks
<1> QED BY <1>4, <1>5, <1>6 DEF VcpInv

\* The application closes the port.
LEMMA PortCloseKeeps ==
    ASSUME VcpInv, Close
    PROVE  VcpInv'
BY ForgottenKeeps DEF Close, Closed

\* It closes the port of a device that is gone.
LEMMA CloseGoneKeeps ==
    ASSUME PortsAreCalm, VcpInv, CloseGone
    PROVE  VcpInv'
<1>1. /\ port.open /\ (Sending => Uses("leave")) /\ port' = NoPort /\ UNCHANGED <<cable, uart>>
      /\ IF Sending THEN UNCHANGED task ELSE Forgotten
  BY DEF CloseGone, Closed
<1>2. task.pc \in {"idle", "preparing", "sending"} /\ task.env \in Ports
  BY <1>1 DEF VcpInv, PortPlace
<1>3. ~Sending BY <1>1, <1>2 DEF PortsAreCalm, Uses
<1>4. task.pc = "idle" BY <1>2, <1>3 DEF Sending
<1> QED BY <1>1, <1>3, <1>4, ForgottenKeeps

\* A device is plugged in: its registers are those after a reset.
LEMMA PlugInKeeps ==
    ASSUME VcpInv, PlugIn
    PROVE  VcpInv'
<1>1. ~port.open /\ uart' = NoUart /\ UNCHANGED <<port, task>> BY DEF PlugIn
<1>2. ~Sending /\ ~Sending' BY <1>1 DEF VcpInv, PortPlace, Sending
<1>3. PortPlace' BY <1>1, <1>2 DEF VcpInv, PortPlace
<1>4. Jobs' BY <1>1, <1>2 DEF VcpInv, Jobs
<1>5. Breaks'
  <2>1. ~uart'.brk BY <1>1 DEF NoUart
  <2> QED BY <1>1, <1>2, <2>1 DEF VcpInv, Breaks, Uses
<1> QED BY <1>3, <1>4, <1>5 DEF VcpInv

\* A device is pulled out: its registers do not matter.
LEMMA PullOutKeeps ==
    ASSUME VcpInv, PullOut
    PROVE  VcpInv'
<1>1. cable' = NoDevice /\ UNCHANGED <<uart, port, task>> BY DEF PullOut
<1>2. Sending' = Sending /\ Driver' = Driver BY <1>1 DEF Sending, Driver
<1>3. PortPlace' BY <1>1, <1>2 DEF VcpInv, PortPlace
<1>4. Jobs' BY <1>1, <1>2 DEF VcpInv, Jobs
<1>5. Breaks' BY <1>1, <1>2 DEF VcpInv, Breaks, Uses
<1> QED BY <1>3, <1>4, <1>5 DEF VcpInv

-----------------------------------------------------------------------------
(* The ports as a whole *)

\* There is no port at first, or there will be none.
LEMMA VcpStarts ==
    ASSUME VcpOff \/ VcpInit
    PROVE  VcpInv
<1>1. /\ cable = NoDevice /\ uart = NoUart /\ port = NoPort
      /\ task = NoTask \/ \E uses \in Ports : task = [NoTask EXCEPT !.env = uses]
  BY DEF VcpOff, VcpInit
<1>2. /\ DOMAIN task = DOMAIN NoTask /\ task.pc = "idle" /\ task.asked = [job |-> "none"] /\ task.crash = "none"
      /\ task.res = "none" /\ task.env \in Ports \cup {{}}
  BY <1>1 DEF NoTask
<1>3. ~port.open /\ ~port.ctx /\ ~Sending /\ task.asked.job = "none"
  BY <1>1, <1>2 DEF NoPort, Sending
<1>4. PortPlace BY <1>1, <1>2, <1>3 DEF PortPlace
<1>5. Jobs BY <1>2, <1>3 DEF Jobs
<1>6. Breaks BY <1>1, <1>2, <1>3 DEF Breaks
<1> QED BY <1>4, <1>5, <1>6 DEF VcpInv

\* Nothing of the ports changes.
LEMMA VcpStays ==
    ASSUME VcpInv, UNCHANGED vcpVars
    PROVE  VcpInv'
<1>1. UNCHANGED <<cable, uart, port, task>> BY DEF vcpVars
<1>2. Sending' = Sending /\ Driver' = Driver BY <1>1 DEF Sending, Driver
<1>3. PortPlace' BY <1>1, <1>2 DEF VcpInv, PortPlace
<1>4. Jobs' BY <1>1, <1>2 DEF VcpInv, Jobs
<1>5. Breaks' BY <1>1, <1>2 DEF VcpInv, Breaks, Uses
<1> QED BY <1>3, <1>4, <1>5 DEF VcpInv

\* Every step of the service, its drivers, the application and the cable, none of which is
\* a step of the CDC-ACM driver
LEMMA VcpStepKeeps ==
    ASSUME CodingsAreMade, PortsAreCalm, VcpInv, VcpNext
    PROVE  VcpInv'
<1>1. CASE \E how \in {"any", "auto", "one"}, d \in DOMAIN Drivers :
              \E p \in 1 .. Drivers[d].products : OpenPort(how, d, p)
  BY <1>1, OpenPortKeeps
<1>2. CASE Open \/ NextProduct \/ NextDriver \/ OpenFails
  BY <1>2, OpenKeeps, NextProductKeeps, NextDriverKeeps, OpenFailsKeeps
<1>3. CASE Request \/ RequestFails \/ RequestsEnd
  BY <1>3, RequestKeeps, RequestFailsKeeps, RequestsEndKeeps
<1>4. CASE \E c \in Codings(task.env) : SetLine(c) BY <1>4, SetLineKeeps
<1>5. CASE \E dtr, rts \in BOOLEAN : SetModem(dtr, rts)
  BY <1>5, SetModemKeeps
<1>6. CASE SendBreak \/ Close BY <1>6, SendBreakKeeps, PortCloseKeeps
<1>7. CASE PlugIn \/ PullOut \/ CloseGone
  BY <1>7, PlugInKeeps, PullOutKeeps, CloseGoneKeeps
<1> QED BY <1>1, <1>2, <1>3, <1>4, <1>5, <1>6, <1>7 DEF VcpNext

\* The ports are no part of the CDC-ACM driver.
LEMMA PortsApart ==
    ASSUME VcpNext
    PROVE  UNCHANGED acmVars
<1>1. CASE \E how \in {"any", "auto", "one"}, d \in DOMAIN Drivers :
              \E p \in 1 .. Drivers[d].products : OpenPort(how, d, p)
  BY <1>1 DEF OpenPort
<1>2. CASE Open \/ NextProduct \/ NextDriver \/ OpenFails
  BY <1>2 DEF Open, NextProduct, NextDriver, OpenFails, Misses
<1>3. CASE Request \/ RequestFails \/ RequestsEnd
  BY <1>3 DEF Request, RequestFails, RequestsEnd
<1>4. CASE \E c \in Codings(task.env) : SetLine(c)
  BY <1>4 DEF SetLine, Issue
<1>5. CASE \E dtr, rts \in BOOLEAN : SetModem(dtr, rts)
  BY <1>5 DEF SetModem, Issue
<1>6. CASE SendBreak \/ Close BY <1>6 DEF SendBreak, Issue, Close
<1>7. CASE PlugIn \/ PullOut \/ CloseGone
  BY <1>7 DEF PlugIn, PullOut, CloseGone
<1> QED BY <1>1, <1>2, <1>3, <1>4, <1>5, <1>6, <1>7 DEF VcpNext

\* What the invariant says of a port
LEMMA PortHolds ==
    ASSUME VcpInv
    PROVE  VcpConsistent
<1>1. LineIsSet
  <2> SUFFICES ASSUME Done("line", "ok") PROVE Made(port.chip, uart, task.asked.coding)
    BY DEF LineIsSet
  <2>1. Goal(task, port.chip, uart, task.res) BY DEF Done, VcpInv, Jobs
  <2> QED BY <2>1 DEF Goal, Done
<1>2. RefusedAsAWhole
  <2> SUFFICES ASSUME Done("line", "invalid") PROVE uart = task.before
    BY DEF RefusedAsAWhole
  <2>1. Goal(task, port.chip, uart, task.res) BY DEF Done, VcpInv, Jobs
  <2> QED BY <2>1 DEF Goal, Done
<1>3. ModemIsSet
  <2> SUFFICES ASSUME Done("modem", "ok") PROVE uart.dtr = task.asked.dtr /\ uart.rts = task.asked.rts
    BY DEF ModemIsSet
  <2>1. Goal(task, port.chip, uart, task.res) BY DEF Done, VcpInv, Jobs
  <2> QED BY <2>1 DEF Goal, Done
<1>4. BreakEnds BY DEF BreakEnds, VcpInv, Breaks
<1>5. PortIsKept
  <2>1. Done("open", "ok") /\ cable # NoDevice => port.chip = cable.chip
    BY DEF Done, VcpInv, PortPlace
  <2>2. Done("open", "ok") /\ port.chip = "ftdi" => IsClose(RateOf("ftdi", uart), 115200)
    <3> SUFFICES ASSUME Done("open", "ok"), port.chip = "ftdi" PROVE IsClose(RateOf("ftdi", uart), 115200)
      OBVIOUS
    <3>1. Goal(task, port.chip, uart, task.res) BY DEF Done, VcpInv, Jobs
    <3> QED BY <3>1 DEF Goal, Done
  <2> QED BY <2>1, <2>2 DEF PortIsKept, VcpInv, PortPlace
<1> QED BY <1>1, <1>2, <1>3, <1>4, <1>5 DEF VcpConsistent

-----------------------------------------------------------------------------
(* Both *)

\* The CDC-ACM driver knows nothing of the ports above it.
LEMMA DriverApart ==
    ASSUME Next
    PROVE  UNCHANGED vcpVars
<1> USE DEF fixed, outside
<1>1. CASE Client
  <2>1. CASE Message \/ NewSeen \/ Walk \/ Callback \/ CallbackEnd \/ WalkEnd \/ MsgsEnd \/ TaskEnds
    BY <2>1 DEF Message, NewSeen, Walk, Callback, CallbackEnd, WalkEnd, MsgsEnd, TaskEnds
  <2>2. CASE \E i \in Dev : InXferCb(i) \/ \E k \in Transfers : OutXferCb(i, k)
    BY <2>2 DEF InXferCb, OutXferCb
  <2> QED BY <1>1, <2>1, <2>2 DEF Client
<1>2. CASE Locked
  BY <1>2 DEF Locked, OpenFind, OpenClaim, OpenSubmit, OpenNotif, OpenInsert, CloseFlush, CloseRelease, Holding
<1>3. CASE Writes BY <1>3 DEF Writes, WriteDone, WriteTimeout
<1>4. CASE User
  <2>1. CASE Uninstall BY <2>1 DEF Uninstall
  <2>2. CASE \E i \in Dev : OpenBegin(i) \/ UserClose(i)
    BY <2>2 DEF OpenBegin, UserClose, Call
  <2>3. CASE \E i \in Dev : (\E k \in Transfers : Write(i, k)) \/ \E enable \in BOOLEAN : Wakeup(i, enable)
    BY <2>3 DEF Write, Wakeup, MayWrite, Call
  <2> QED BY <1>4, <2>1, <2>2, <2>3 DEF User
<1>5. CASE Told BY <1>5 DEF Told, CloseTold
<1>6. CASE Answers BY <1>6 DEF Answers, Answer, Calm
<1>7. CASE Bus
  BY <1>7 DEF Bus, Plug, PlugOther, Unplug, Suspend, Resume, Receive, Calm, Call
<1> QED BY <1>1, <1>2, <1>3, <1>4, <1>5, <1>6, <1>7 DEF Next

\* Every step of a behaviour with a driver or with ports keeps the driver's invariant.
LEMMA HostKeepsAcm ==
    ASSUME AcmInv, [HostNext]_vars
    PROVE  AcmInv'
<1>1. CASE Next BY <1>1, StepKeeps
<1>2. CASE VcpNext BY <1>2, PortsApart, StaysSo
<1>3. CASE UNCHANGED vars BY <1>3, StaysSo DEF vars
<1> QED BY <1>1, <1>2, <1>3 DEF HostNext

\* ... and that of the ports.
LEMMA HostKeepsVcp ==
    ASSUME CodingsAreMade, PortsAreCalm, VcpInv, [HostNext]_vars
    PROVE  VcpInv'
<1>1. CASE Next BY <1>1, DriverApart, VcpStays
<1>2. CASE VcpNext BY <1>2, VcpStepKeeps
<1>3. CASE UNCHANGED vars BY <1>3, VcpStays DEF vars
<1> QED BY <1>1, <1>2, <1>3 DEF HostNext

\* cdc_acm_host.c, run() and usb_event_cb(): the IN transfer of every pseudo-device in the
\* list is in flight whenever its device is there and awake and the driver has nothing to
\* handle, and nothing aborts, on any number of pseudo-devices and interfaces, of any size, and
\* with any number of calls.  Tamed is needed: with {"loop", "suspend"}, {"suspend", "closing"},
\* {"suspend", "other"}, {"twice"} or {"odd"} TLC finds a pseudo-device that is not polled.
THEOREM CdcKeepsPolling ==
    ASSUME Tamed
    PROVE  HostSpec => []KeepsPolling
<1>1. HostInit => AcmInv BY InitHolds DEF HostInit
<1>2. AcmInv /\ [HostNext]_vars => AcmInv' BY HostKeepsAcm
<1>3. AcmInv => KeepsPolling BY AllPoll
<1> QED BY <1>1, <1>2, <1>3, PTL DEF HostSpec

\* cdc_acm_host.c: the USB device is open exactly for the pseudo-devices that use it,
\* the buffers hold what is received into them, the status of the remote wakeup is the
\* device's, no transfer is submitted, freed or awaited that is another's; usb_host_vcp.cpp and
\* its drivers: a line coding or modem lines that were accepted are those of the chip, one
\* that is refused changes nothing, a break ends, and a port is open only on the chip that was
\* found and prepared, whatever requests fail and whenever the device is pulled out.
THEOREM CdcConsistent ==
    ASSUME Tamed, CodingsAreMade, PortsAreCalm
    PROVE  HostSpec => []Consistent
<1>1. HostInit => AcmInv /\ VcpInv BY InitHolds, VcpStarts DEF HostInit
<1>2. AcmInv /\ VcpInv /\ [HostNext]_vars => (AcmInv /\ VcpInv)'
  BY HostKeepsAcm, HostKeepsVcp
<1>3. AcmInv /\ VcpInv => Consistent BY AcmHolds, PortHolds DEF Consistent
<1> QED BY <1>1, <1>2, <1>3, PTL DEF HostSpec
=============================================================================
