--------------------------- MODULE UsbHost_proof ---------------------------
(***************************************************************************)
(* Proofs about the client side of the host library, for any finite sets   *)
(* of clients and devices and any of their environments.                   *)
(*                                                                         *)
(* SafeInv needs no assumption: a device that a client has open, or the    *)
(* daemon is about to free, is what the client and the daemon take it for, *)
(* and the daemon walks through registered clients, also when opens and    *)
(* closes race with its reports.                                           *)
(*                                                                         *)
(* ToldInv is about the reports: everybody is told of a disconnection, and *)
(* of each once, if nobody opens or closes a device while the daemon       *)
(* reports on it (Quiet) and the queues have room (Roomy).  Both are       *)
(* needed: without either, TLC shows a client that never hears of it.      *)
(***************************************************************************)
EXTENDS UsbHost, FiniteSetTheorems, SequenceTheorems, TLAPS

JobName == {"NEW_DEV", "DEV_GONE", "DEV_REMOVED", "FREE"}
InJobs(j) == \E i \in DOMAIN dmn.jobs : dmn.jobs[i] = j

-----------------------------------------------------------------------------
(* What makes the bookkeeping safe *)

\* The list of clients is free of duplicates.
ListIsInjective == \A i, j \in DOMAIN clients : clients[i] = clients[j] => i = j

\* A client's record, and an API call under way, refer to devices that are there.
CallsAreSound ==
    \A c \in Clients :
        /\ cli[c].opened \subseteq Devices
        /\ cli[c].op # "idle" => cli[c].arg \in Devices /\ dev[cli[c].arg].life = "ready"

\* mux_lock is held by the daemon while it walks through the clients, and by a
\* client that closes a device.
LockIsHeld ==
    /\ mux # Daemon => dmn.left = <<>>
    /\ mux = Daemon => /\ dmn.at = "dev" /\ dmn.jobs # <<>> /\ Head(dmn.jobs) # "FREE"
                       /\ \A i \in DOMAIN dmn.left : Registered(dmn.left[i])
    /\ \A c \in Clients : cli[c].op = "closing" => mux = c

\* usbh_process() has a device while it goes through its actions, no two of them
\* are the same, and freeing it, or reporting it as new, is the last.
WorkIsOrdered ==
    /\ IF dmn.at = "dev" THEN dmn.cur \in Devices ELSE dmn.cur = NoDev /\ dmn.jobs = <<>>
    /\ \A i, j \in DOMAIN dmn.jobs : dmn.jobs[i] = dmn.jobs[j] => i = j
    /\ \A i \in DOMAIN dmn.jobs : dmn.jobs[i] \in {"FREE", "NEW_DEV"} => i = Len(dmn.jobs)

\* A device that is just plugged in has no object yet, and one that is gone was
\* unplugged; what was freed leaves nothing behind.
ObjectsMatchPlugs ==
    \A d \in Devices :
        /\ plug[d] = "new" => dev[d].life = "none"
        /\ dev[d].life = "none" => dev[d] = NoObject
        /\ dev[d].gone => plug[d] = "out"

\* A disconnection is to be reported of gone devices only, and by one of the two
\* actions.
ReportsAreOfGone ==
    /\ \A d \in Devices :
        /\ dev[d].acts \cap {"GONE", "REMOVED"} # {} => dev[d].gone
        /\ "REMOVED" \in dev[d].acts => dev[d].opens = 0 /\ "GONE" \notin dev[d].acts
    /\ InJobs("DEV_GONE") \/ InJobs("DEV_REMOVED") => dev[dmn.cur].gone

FreeAsked(d) == "FREE" \in dev[d].acts \/ (dmn.cur = d /\ InJobs("FREE"))

\* A device is freed when nobody has it open, and nobody can open it any more.
FreeIsFinal ==
    \A d \in Devices : FreeAsked(d) =>
        dev[d].opens = 0 /\ (dev[d].gone \/ dev[d].waiting \/ clients = <<>>)

\* Once the last client has left nothing is plugged in, and the devices go away for
\* good; ALL_FREE is what the shutdown waits for only if it is younger than
\* usb_host_device_free_all().
ShutdownIsFinal ==
    /\ clients = <<>> => \A d \in Devices : plug[d] # "new"
    /\ dmn.shut # "no" => clients = <<>>
    /\ dmn.at = "free_all" => "ALL_FREE" \notin lib.flags
    /\ dmn.shut = "waiting" /\ "ALL_FREE" \in lib.flags => Present = {}
    /\ dmn.shut = "done" => Present = {}
    /\ dmn.at = "uninstall" => dmn.shut = "done"

SafeInv ==
    /\ TypeOK /\ HeldIsAlive /\ UninstallIsClean
    /\ ListIsInjective /\ CallsAreSound /\ LockIsHeld /\ WorkIsOrdered
    /\ ObjectsMatchPlugs /\ ReportsAreOfGone /\ FreeIsFinal /\ ShutdownIsFinal

-----------------------------------------------------------------------------
(* Lemmas about types and counts *)

\* Who takes part is among the clients and devices there are.
LEMMA EnvTyped ==
    ASSUME env \in Environments
    PROVE  /\ Clients \subseteq Client /\ Devices \subseteq Device
           /\ env.clients \in Seq(Client)
BY EnvironmentsAreTyped DEF Clients, Devices

\* Who takes part does not change.
LEMMA EnvStays ==
    ASSUME env' = env
    PROVE  Clients' = Clients /\ Devices' = Devices
BY DEF Clients, Devices

\* Who has d in its record, and who is opening or closing it.
Openers(d) == {c \in Clients : d \in cli[c].opened}
Users(d) == {c \in Clients : cli[c].op # "idle" /\ cli[c].arg = d}
Enumerated(d) == IF dev[d].life \in {"enum", "enumerated"} THEN 1 ELSE 0

\* The parts of HeldIsAlive.
HandlesAreLive == \A c \in Clients, d \in Devices : Holds(c, d) => dev[d].life = "ready"
Counted(d) == dev[d].opens = Cardinality(Openers(d)) + Cardinality(Users(d)) + Enumerated(d)

\* HeldIsAlive by its parts.
LEMMA HeldMeans ==
    HeldIsAlive <=> HandlesAreLive /\ \A d \in Devices : Counted(d)
BY DEF HeldIsAlive, HandlesAreLive, Counted, Openers, Users, Enumerated

\* A set of clients is finite, and is not larger than that of all of them.
LEMMA SomeClients ==
    ASSUME env \in Environments, NEW S \in SUBSET Clients
    PROVE  /\ IsFiniteSet(S) /\ Cardinality(S) \in Nat
           /\ Cardinality(Client) \in Nat /\ Cardinality(S) <= Cardinality(Client)
           /\ Cardinality(S) = 0 <=> S = {}
<1>1. S \in SUBSET Client
  BY EnvTyped
<1>2. IsFiniteSet(S) /\ Cardinality(S) <= Cardinality(Client)
  BY <1>1, ActorsAreFinite, FS_Subset
<1>3. Cardinality(S) \in Nat /\ Cardinality(Client) \in Nat
  BY <1>2, ActorsAreFinite, FS_CardinalityType
<1>4. Cardinality(S) = 0 <=> S = {}
  BY <1>2, FS_EmptySet
<1> QED BY <1>2, <1>3, <1>4

\* What open_count counts is a number that ObjectType has room for.
LEMMA CountsAreTyped ==
    ASSUME env \in Environments, NEW d
    PROVE  /\ Cardinality(Openers(d)) \in Nat /\ Cardinality(Users(d)) \in Nat
           /\ Enumerated(d) \in {0, 1} /\ Cardinality(Client) \in Nat
           /\ Cardinality(Openers(d)) + Cardinality(Users(d)) + Enumerated(d)
                 \in 0..(2 * Cardinality(Client) + 1)
<1>1. Openers(d) \in SUBSET Clients /\ Users(d) \in SUBSET Clients
  BY DEF Openers, Users
<1>2. /\ Cardinality(Openers(d)) \in Nat /\ Cardinality(Users(d)) \in Nat
      /\ Cardinality(Client) \in Nat
      /\ Cardinality(Openers(d)) <= Cardinality(Client)
      /\ Cardinality(Users(d)) <= Cardinality(Client)
  BY <1>1, SomeClients
<1>3. Enumerated(d) \in {0, 1}
  BY DEF Enumerated
<1> QED BY <1>2, <1>3

\* open_count by what it counts.
LEMMA CountsNow ==
    ASSUME env \in Environments, HeldIsAlive
    PROVE  \A d \in Devices :
              /\ dev[d].opens = Cardinality(Openers(d)) + Cardinality(Users(d)) + Enumerated(d)
              /\ Cardinality(Openers(d)) \in Nat /\ Cardinality(Users(d)) \in Nat
              /\ Enumerated(d) \in {0, 1}
<1> TAKE d \in Devices
<1>1. Counted(d)
  BY HeldMeans
<1> QED BY <1>1, CountsAreTyped DEF Counted

\* A device that is open zero times is nobody's; one that somebody holds, or is
\* opening or closing, is open at least once.
LEMMA OpenMeans ==
    ASSUME env \in Environments, HeldIsAlive, NEW d \in Devices
    PROVE  /\ dev[d].opens \in Nat
           /\ dev[d].opens = 0 =>
                 /\ dev[d].life \notin {"enum", "enumerated"}
                 /\ \A c \in Clients : d \notin cli[c].opened
                 /\ \A c \in Clients : cli[c].op # "idle" => cli[c].arg # d
<1>1. Openers(d) \in SUBSET Clients /\ Users(d) \in SUBSET Clients
  BY DEF Openers, Users
<1>2. Counted(d)
  BY HeldMeans
<1>3. dev[d].opens \in Nat
  BY <1>2, CountsAreTyped DEF Counted
<1>4. ASSUME dev[d].opens = 0
      PROVE  Openers(d) = {} /\ Users(d) = {} /\ Enumerated(d) = 0
  <2>1. Cardinality(Openers(d)) = 0 /\ Cardinality(Users(d)) = 0 /\ Enumerated(d) = 0
    BY <1>2, <1>4, CountsAreTyped DEF Counted
  <2> QED BY <2>1, <1>1, SomeClients
<1>5. ASSUME dev[d].opens = 0
      PROVE  /\ dev[d].life \notin {"enum", "enumerated"}
             /\ \A c \in Clients : d \notin cli[c].opened
             /\ \A c \in Clients : cli[c].op # "idle" => cli[c].arg # d
  <2>1. Openers(d) = {} /\ Users(d) = {} /\ Enumerated(d) = 0
    BY <1>4, <1>5
  <2> QED BY <2>1 DEF Openers, Users, Enumerated
<1> QED BY <1>3, <1>5

\* Until an enumerated device is reported nobody but the enumerator has it open.
LEMMA EnumeratorIsAlone ==
    ASSUME env \in Environments, HeldIsAlive, CallsAreSound,
           NEW d \in Devices, dev[d].life # "ready"
    PROVE  Openers(d) = {} /\ Users(d) = {} /\ dev[d].opens = Enumerated(d)
<1>1. Openers(d) = {}
  BY HeldMeans DEF HandlesAreLive, Openers, Holds
<1>2. Users(d) = {}
  BY DEF CallsAreSound, Users
<1>3. Cardinality(Openers(d)) = 0 /\ Cardinality(Users(d)) = 0
  BY <1>1, <1>2, FS_EmptySet
<1>4. dev[d].opens = Enumerated(d)
  BY <1>3, HeldMeans, CountsAreTyped DEF Counted
<1> QED BY <1>1, <1>2, <1>4

\* A step that changes neither who uses what nor how often it is open.
SameUse ==
    /\ Clients' = Clients /\ Devices' = Devices
    /\ \A c \in Clients : cli'[c].opened = cli[c].opened /\ cli'[c].op = cli[c].op
                         /\ (cli[c].op # "idle" => cli'[c].arg = cli[c].arg)
    /\ \A d \in Devices : dev'[d].opens = dev[d].opens
                         /\ (dev'[d].life = "ready" <=> dev[d].life = "ready")
                         /\ (dev'[d].life = "none" <=> dev[d].life = "none")

\* Such a step keeps HeldIsAlive and CallsAreSound.
LEMMA SameUseKeeps ==
    ASSUME SameUse, HeldIsAlive, CallsAreSound,
           \A d \in Devices : dev[d].life \in {"none", "enum", "enumerated", "ready"}
                            /\ dev'[d].life \in {"none", "enum", "enumerated", "ready"}
    PROVE  HeldIsAlive' /\ CallsAreSound'
<1>1. \A d \in Devices : Openers(d)' = Openers(d) /\ Users(d)' = Users(d)
                        /\ Enumerated(d)' = Enumerated(d)
  BY DEF SameUse, Openers, Users, Enumerated
<1>2. \A d \in Devices : Counted(d)'
  BY <1>1, HeldMeans DEF SameUse, Counted
<1>3. HandlesAreLive'
  BY HeldMeans DEF SameUse, HandlesAreLive, Holds
<1>4. HeldIsAlive'
  BY <1>2, <1>3, HeldMeans DEF SameUse, HeldIsAlive, HandlesAreLive, Counted, Openers, Users, Enumerated
<1>5. CallsAreSound'
  BY DEF SameUse, CallsAreSound
<1> QED BY <1>4, <1>5

\* A device object may be open to nobody, or to the enumerator only.
LEMMA FewOpens == Cardinality(Client) \in Nat /\ {0, 1} \subseteq 0..(2 * Cardinality(Client) + 1)
<1>1. Cardinality(Client) \in Nat
  BY ActorsAreFinite, FS_CardinalityType
<1> QED BY <1>1

\* What is left of a freed device.
LEMMA NoObjectTyped ==
    /\ NoObject \in ObjectType
    /\ NoObject.life = "none" /\ NoObject.opens = 0 /\ NoObject.acts = {}
    /\ ~NoObject.gone /\ ~NoObject.waiting
BY FewOpens DEF NoObject, ObjectType

\* A client's object that stays typed.
LEMMA ClientTyped ==
    ASSUME TypeOK, NEW c \in Client, NEW r \in ClientType, Len(r.queue) <= QueueLen,
           cli' = [cli EXCEPT ![c] = r]
    PROVE  cli' \in [Client -> ClientType] /\ \A e \in Client : Len(cli'[e].queue) <= QueueLen
BY DEF TypeOK

\* A device object that stays typed.
LEMMA ObjectTyped ==
    ASSUME TypeOK, NEW d \in Device, NEW r \in ObjectType, dev' = [dev EXCEPT ![d] = r]
    PROVE  dev' \in [Device -> ObjectType]
BY DEF TypeOK

\* _dev_set_actions() keeps types, and gives the device the actions asked for.
LEMMA ActsAreSet ==
    ASSUME TypeOK, NEW d \in Device, NEW r \in ObjectType,
           NEW A \in SUBSET {"GONE", "REMOVED", "FREE", "NEW"}, SetActs(d, r, A)
    PROVE  /\ dev' \in [Device -> ObjectType]
           /\ dev' = [dev EXCEPT ![d] = [r EXCEPT !.acts = @ \cup A]]
           /\ lib' \in [pend : SUBSET {"USBH", "HUB", "ENUM"}, sem : BOOLEAN,
                        flags : SUBSET {"NO_CLIENTS", "ALL_FREE"}]
           /\ lib'.flags = lib.flags
<1>1. [r EXCEPT !.acts = @ \cup A] \in ObjectType
  BY DEF ObjectType
<1>2. dev' = [dev EXCEPT ![d] = [r EXCEPT !.acts = @ \cup A]]
  BY DEF SetActs
<1>3. dev' \in [Device -> ObjectType]
  BY <1>1, <1>2 DEF TypeOK
<1>4. /\ lib' \in [pend : SUBSET {"USBH", "HUB", "ENUM"}, sem : BOOLEAN,
                   flags : SUBSET {"NO_CLIENTS", "ALL_FREE"}]
      /\ lib'.flags = lib.flags
  BY DEF SetActs, Requested, TypeOK
<1> QED BY <1>2, <1>3, <1>4

\* What the daemon works off: the suffix that remains after the first of its jobs.
LEMMA NextJob ==
    ASSUME TypeOK, WorkIsOrdered, dmn.jobs # <<>>
    PROVE  /\ Tail(dmn.jobs) \in Seq(JobName) /\ Head(dmn.jobs) \in JobName
           /\ InJobs(Head(dmn.jobs))
           /\ \A i \in DOMAIN Tail(dmn.jobs) :
                 /\ InJobs(Tail(dmn.jobs)[i]) /\ Tail(dmn.jobs)[i] # Head(dmn.jobs)
                 /\ Tail(dmn.jobs)[i] \in {"FREE", "NEW_DEV"} => i = Len(Tail(dmn.jobs))
           /\ \A j : InJobs(j) /\ j # Head(dmn.jobs) =>
                 \E i \in DOMAIN Tail(dmn.jobs) : Tail(dmn.jobs)[i] = j
           /\ \A i, j \in DOMAIN Tail(dmn.jobs) : Tail(dmn.jobs)[i] = Tail(dmn.jobs)[j] => i = j
           /\ Head(dmn.jobs) \in {"FREE", "NEW_DEV"} => Tail(dmn.jobs) = <<>>
<1> DEFINE s == dmn.jobs
<1>1. s \in Seq(JobName) /\ s # <<>>
  BY DEF TypeOK, DaemonType, JobName
<1>2. /\ Head(s) \in JobName /\ Tail(s) \in Seq(JobName)
      /\ Len(Tail(s)) = Len(s) - 1 /\ Len(s) \in Nat \ {0}
      /\ DOMAIN s = 1..Len(s) /\ DOMAIN Tail(s) = 1..Len(Tail(s))
      /\ \A i \in 1..Len(Tail(s)) : Tail(s)[i] = s[i + 1]
      /\ Head(s) = s[1]
  BY <1>1, HeadTailProperties, LenProperties, EmptySeq
<1>3. \A i, j \in DOMAIN s : s[i] = s[j] => i = j
  BY DEF WorkIsOrdered
<1>4. \A i \in DOMAIN s : s[i] \in {"FREE", "NEW_DEV"} => i = Len(s)
  BY DEF WorkIsOrdered
<1> HIDE DEF s
<1>5. \A j : (\E i \in DOMAIN s : s[i] = j) <=> InJobs(j)
  BY DEF InJobs, s
<1>6. InJobs(Head(s))
  BY <1>2, <1>5
<1>7. \A i \in DOMAIN Tail(s) :
         /\ InJobs(Tail(s)[i]) /\ Tail(s)[i] # Head(s)
         /\ Tail(s)[i] \in {"FREE", "NEW_DEV"} => i = Len(Tail(s))
  <2> TAKE i \in DOMAIN Tail(s)
  <2>1. i + 1 \in DOMAIN s /\ Tail(s)[i] = s[i + 1] /\ i + 1 # 1 /\ 1 \in DOMAIN s
    BY <1>2
  <2> QED BY <1>2, <1>3, <1>4, <1>5, <2>1
<1>8. \A j : InJobs(j) /\ j # Head(s) => \E i \in DOMAIN Tail(s) : Tail(s)[i] = j
  <2> SUFFICES ASSUME NEW j, InJobs(j), j # Head(s)
               PROVE  \E i \in DOMAIN Tail(s) : Tail(s)[i] = j
    OBVIOUS
  <2>1. PICK k \in DOMAIN s : s[k] = j
    BY <1>5
  <2>2. k # 1
    BY <1>2, <2>1
  <2>3. k - 1 \in DOMAIN Tail(s) /\ Tail(s)[k - 1] = j
    BY <1>2, <2>1, <2>2
  <2> QED BY <2>3
<1>9. \A i, j \in DOMAIN Tail(s) : Tail(s)[i] = Tail(s)[j] => i = j
  <2> TAKE i, j \in DOMAIN Tail(s)
  <2>1. i + 1 \in DOMAIN s /\ Tail(s)[i] = s[i + 1] /\ j + 1 \in DOMAIN s /\ Tail(s)[j] = s[j + 1]
    BY <1>2
  <2> QED BY <1>2, <1>3, <2>1
<1>10. Head(s) \in {"FREE", "NEW_DEV"} => Tail(s) = <<>>
  <2> SUFFICES ASSUME Head(s) \in {"FREE", "NEW_DEV"} PROVE Tail(s) = <<>>
    OBVIOUS
  <2>1. Len(Tail(s)) = 0
    BY <1>2, <1>4
  <2> QED BY <1>2, <2>1, EmptySeq
<1> QED BY <1>2, <1>6, <1>7, <1>8, <1>9, <1>10 DEF s

\* The jobs that the actions of a device come to.
LEMMA JobsAreOrdered ==
    ASSUME NEW A \in SUBSET {"GONE", "REMOVED", "FREE", "NEW"},
           "REMOVED" \in A => "GONE" \notin A
    PROVE  LET s == JobsOf(A) IN
           /\ s \in Seq(JobName)
           /\ \A i, j \in DOMAIN s : s[i] = s[j] => i = j
           /\ \A i \in DOMAIN s : s[i] \in {"FREE", "NEW_DEV"} => i = Len(s)
           /\ (\E i \in DOMAIN s : s[i] = "FREE") <=> "FREE" \in A
           /\ (\E i \in DOMAIN s : s[i] = "NEW_DEV") => "NEW" \in A
           /\ (\E i \in DOMAIN s : s[i] = "DEV_GONE") <=> "GONE" \in A
           /\ (\E i \in DOMAIN s : s[i] = "DEV_REMOVED") <=> A \cap {"GONE", "REMOVED"} # {}
           /\ A \cap {"GONE", "REMOVED"} # {} => s # <<>> /\ Head(s) = "DEV_REMOVED"
<1> DEFINE p == IF "GONE" \in A THEN <<"DEV_REMOVED", "DEV_GONE">> ELSE <<>>
           q == IF "REMOVED" \in A THEN <<"DEV_REMOVED">> ELSE <<>>
           r == IF "FREE" \in A THEN <<"FREE">> ELSE IF "NEW" \in A THEN <<"NEW_DEV">> ELSE <<>>
           s == (p \o q) \o r
<1>1. p \in Seq(JobName) /\ q \in Seq(JobName) /\ r \in Seq(JobName)
  <2>1. <<"DEV_REMOVED", "DEV_GONE">> \in Seq(JobName)
    BY DEF JobName
  <2>2. <<"DEV_REMOVED">> \in Seq(JobName) /\ <<"FREE">> \in Seq(JobName)
        /\ <<"NEW_DEV">> \in Seq(JobName) /\ <<>> \in Seq(JobName)
    BY DEF JobName
  <2> QED BY <2>1, <2>2
<1>2. p \o q = IF "GONE" \in A THEN p ELSE q
  <2>1. CASE "GONE" \in A
    BY <1>1, <2>1, ConcatEmptySeq
  <2>2. CASE "GONE" \notin A
    BY <1>1, <2>2, ConcatEmptySeq
  <2> QED BY <2>1, <2>2
<1>3. p \o q \in Seq(JobName)
  BY <1>1, <1>2
<1>4. /\ s \in Seq(JobName) /\ Len(s) = Len(p \o q) + Len(r)
      /\ \A i \in 1..(Len(p \o q) + Len(r)) :
            s[i] = IF i <= Len(p \o q) THEN (p \o q)[i] ELSE r[i - Len(p \o q)]
      /\ DOMAIN s = 1..Len(s)
  BY <1>1, <1>3, ConcatProperties, LenProperties
<1>5. s = JobsOf(A)
  BY DEF JobsOf
<1> QED BY <1>4, <1>5, SMTT(60)

\* Nobody uses d, and d's object is replaced by one that only the enumerator may have
\* open.
LEMMA UnusedKeeps ==
    ASSUME HeldIsAlive, CallsAreSound, env \in Environments, dev \in [Device -> ObjectType],
           NEW d \in Devices, Openers(d) = {}, Users(d) = {},
           NEW r \in ObjectType, r.opens = IF r.life \in {"enum", "enumerated"} THEN 1 ELSE 0,
           cli' = cli, env' = env, dev' = [dev EXCEPT ![d] = r]
    PROVE  HeldIsAlive' /\ CallsAreSound'
<1>1. /\ Clients' = Clients /\ Devices' = Devices /\ d \in Device
      /\ \A e \in Devices : dev'[e] = IF e = d THEN r ELSE dev[e]
  BY EnvStays, EnvTyped
<1>2. \A e \in Devices : Openers(e)' = Openers(e) /\ Users(e)' = Users(e)
  BY <1>1 DEF Openers, Users
<1>3. Cardinality(Openers(d)) = 0 /\ Cardinality(Users(d)) = 0
  BY FS_EmptySet
<1>4. ASSUME NEW e \in Devices
      PROVE  Counted(e)'
  <2>1. CASE e = d
    <3>1. dev'[e].opens = Enumerated(e)' /\ Enumerated(e)' \in {0, 1}
      BY <1>1, <2>1 DEF Enumerated
    <3>2. Cardinality(Openers(e)') = 0 /\ Cardinality(Users(e)') = 0
      BY <1>2, <1>3, <2>1
    <3> QED BY <3>1, <3>2 DEF Counted
  <2>2. CASE e # d
    <3>1. dev'[e] = dev[e] /\ Enumerated(e)' = Enumerated(e)
      BY <1>1, <2>2 DEF Enumerated
    <3> QED BY <1>2, <3>1, HeldMeans DEF Counted
  <2> QED BY <2>1, <2>2
<1>5. \A c \in Clients : d \notin cli[c].opened /\ (cli[c].op # "idle" => cli[c].arg # d)
  BY DEF Openers, Users
<1>6. HandlesAreLive'
  BY <1>1, <1>5, HeldMeans DEF HandlesAreLive, Holds
<1>7. HeldIsAlive'
  BY <1>1, <1>4, <1>6 DEF HeldIsAlive, HandlesAreLive, Counted, Openers, Users, Enumerated
<1>8. CallsAreSound'
  BY <1>1, <1>5 DEF CallsAreSound
<1> QED BY <1>7, <1>8

\* One device's users change, and its count with them.
LEMMA CountChanges ==
    ASSUME env \in Environments, HeldIsAlive, NEW d \in Devices,
           \A e \in Devices : e # d => /\ dev'[e].opens = dev[e].opens
                                       /\ Openers(e)' = Openers(e) /\ Users(e)' = Users(e),
           \A e \in Devices : Enumerated(e)' = Enumerated(e),
           Cardinality(Openers(d)') \in Nat, Cardinality(Users(d)') \in Nat,
           dev'[d].opens = dev[d].opens + (Cardinality(Openers(d)') - Cardinality(Openers(d)))
                                        + (Cardinality(Users(d)') - Cardinality(Users(d)))
    PROVE  \A e \in Devices : Counted(e)'
<1> TAKE e \in Devices
<1>1. /\ dev[e].opens = Cardinality(Openers(e)) + Cardinality(Users(e)) + Enumerated(e)
      /\ Cardinality(Openers(e)) \in Nat /\ Cardinality(Users(e)) \in Nat
      /\ Enumerated(e) \in {0, 1}
  BY CountsNow
<1>2. CASE e = d
  <2>1. dev'[e].opens = Cardinality(Openers(e)') + Cardinality(Users(e)') + Enumerated(e)'
    BY <1>1, <1>2
  <2> QED BY <2>1 DEF Counted
<1>3. CASE e # d
  <2>1. dev'[e].opens = Cardinality(Openers(e)') + Cardinality(Users(e)') + Enumerated(e)'
    BY <1>1, <1>3
  <2> QED BY <2>1 DEF Counted
<1> QED BY <1>2, <1>3
-----------------------------------------------------------------------------
(* Every step keeps SafeInv *)

\* The daemon wakes up.
LEMMA SafeTake ==
    ASSUME SafeInv, Take
    PROVE  SafeInv'
<1> USE EnvTyped, NamesDiffer DEF SafeInv, TypeOK
<1>1. SameUse
  BY EnvStays DEF SameUse, Take
<1>2. HeldIsAlive' /\ CallsAreSound'
  BY <1>1, SameUseKeeps DEF ObjectType, Take
<1>3. TypeOK'
  BY EnvStays DEF Take, DaemonType
<1>4. /\ UninstallIsClean' /\ ListIsInjective' /\ LockIsHeld' /\ WorkIsOrdered'
      /\ ObjectsMatchPlugs' /\ ReportsAreOfGone' /\ FreeIsFinal' /\ ShutdownIsFinal'
  BY <1>1, EnvStays DEF SameUse, Take, DaemonType,
                             ListIsInjective, LockIsHeld, WorkIsOrdered, Registered,
                             ObjectsMatchPlugs, ReportsAreOfGone, FreeIsFinal, ShutdownIsFinal,
                             UninstallIsClean, FreeAsked, InJobs, Present, NoObject
<1> QED BY <1>2, <1>3, <1>4

\* The daemon goes on to the next part of its round.
LEMMA SafeNextPart ==
    ASSUME SafeInv, NextPart
    PROVE  SafeInv'
<1> USE EnvTyped, NamesDiffer DEF SafeInv, TypeOK
<1>1. SameUse
  BY EnvStays DEF SameUse, NextPart, Part
<1>2. HeldIsAlive' /\ CallsAreSound'
  BY <1>1, SameUseKeeps DEF ObjectType, NextPart, Part
<1>3. TypeOK'
  BY EnvStays DEF NextPart, Part, DaemonType
<1>4. /\ UninstallIsClean' /\ ListIsInjective' /\ LockIsHeld' /\ WorkIsOrdered'
      /\ ObjectsMatchPlugs' /\ ReportsAreOfGone' /\ FreeIsFinal' /\ ShutdownIsFinal'
  BY <1>1, EnvStays DEF SameUse, NextPart, Part, DaemonType,
                             ListIsInjective, LockIsHeld, WorkIsOrdered, Registered,
                             ObjectsMatchPlugs, ReportsAreOfGone, FreeIsFinal, ShutdownIsFinal,
                             UninstallIsClean, FreeAsked, InJobs, Present, NoObject
<1> QED BY <1>2, <1>3, <1>4

\* usbh_process() is through with a device.
LEMMA SafeDeviceDone ==
    ASSUME SafeInv, DeviceDone
    PROVE  SafeInv'
<1> USE EnvTyped, NamesDiffer DEF SafeInv, TypeOK
<1>1. SameUse
  BY EnvStays DEF SameUse, DeviceDone
<1>2. HeldIsAlive' /\ CallsAreSound'
  BY <1>1, SameUseKeeps DEF ObjectType, DeviceDone
<1>3. TypeOK'
  BY EnvStays DEF DeviceDone, DaemonType
<1>4. /\ UninstallIsClean' /\ ListIsInjective' /\ LockIsHeld' /\ WorkIsOrdered'
      /\ ObjectsMatchPlugs' /\ ReportsAreOfGone' /\ FreeIsFinal' /\ ShutdownIsFinal'
  BY <1>1, EnvStays DEF SameUse, DeviceDone, DaemonType,
                             ListIsInjective, LockIsHeld, WorkIsOrdered, Registered,
                             ObjectsMatchPlugs, ReportsAreOfGone, FreeIsFinal, ShutdownIsFinal,
                             UninstallIsClean, FreeAsked, InJobs, Present, NoObject
<1> QED BY <1>2, <1>3, <1>4

\* usb_host_lib_handle_events() returns.
LEMMA SafeReturn ==
    ASSUME SafeInv, Return
    PROVE  SafeInv'
<1> USE EnvTyped, NamesDiffer DEF SafeInv, TypeOK
<1>1. SameUse
  BY EnvStays DEF SameUse, Return
<1>2. HeldIsAlive' /\ CallsAreSound'
  BY <1>1, SameUseKeeps DEF ObjectType, Return
<1>3. TypeOK'
  BY EnvStays DEF Return, DaemonType
<1>4. /\ UninstallIsClean' /\ ListIsInjective' /\ LockIsHeld' /\ WorkIsOrdered'
      /\ ObjectsMatchPlugs' /\ ReportsAreOfGone' /\ FreeIsFinal' /\ ShutdownIsFinal'
  BY <1>1, EnvStays DEF SameUse, Return, DaemonType,
                             ListIsInjective, LockIsHeld, WorkIsOrdered, Registered,
                             ObjectsMatchPlugs, ReportsAreOfGone, FreeIsFinal, ShutdownIsFinal,
                             UninstallIsClean, FreeAsked, InJobs, Present, NoObject
<1> QED BY <1>2, <1>3, <1>4

\* usb_host_uninstall() finds no device.
LEMMA SafeUninstall ==
    ASSUME SafeInv, Uninstall
    PROVE  SafeInv'
<1> USE EnvTyped, NamesDiffer DEF SafeInv, TypeOK
<1>1. SameUse
  BY EnvStays DEF SameUse, Uninstall
<1>2. HeldIsAlive' /\ CallsAreSound'
  BY <1>1, SameUseKeeps DEF ObjectType, Uninstall
<1>3. TypeOK'
  BY EnvStays DEF Uninstall, DaemonType
<1>4. /\ UninstallIsClean' /\ ListIsInjective' /\ LockIsHeld' /\ WorkIsOrdered'
      /\ ObjectsMatchPlugs' /\ ReportsAreOfGone' /\ FreeIsFinal' /\ ShutdownIsFinal'
  BY <1>1, EnvStays DEF SameUse, Uninstall, DaemonType,
                             ListIsInjective, LockIsHeld, WorkIsOrdered, Registered,
                             ObjectsMatchPlugs, ReportsAreOfGone, FreeIsFinal, ShutdownIsFinal,
                             UninstallIsClean, FreeAsked, InJobs, Present, NoObject
<1> QED BY <1>2, <1>3, <1>4

\* A device is plugged in.
LEMMA SafePlug ==
    ASSUME SafeInv, NEW d \in Devices, Plug(d)
    PROVE  SafeInv'
<1> USE EnvTyped, NamesDiffer DEF SafeInv, TypeOK
<1>1. SameUse
  BY EnvStays DEF SameUse, Plug, Requested
<1>2. HeldIsAlive' /\ CallsAreSound'
  BY <1>1, SameUseKeeps DEF ObjectType, Plug, Requested
<1>3. TypeOK'
  BY EnvStays DEF Plug, Requested, DaemonType
<1>4. /\ UninstallIsClean' /\ ListIsInjective' /\ LockIsHeld' /\ WorkIsOrdered'
      /\ ObjectsMatchPlugs' /\ ReportsAreOfGone' /\ FreeIsFinal' /\ ShutdownIsFinal'
  BY <1>1, EnvStays DEF SameUse, Plug, Requested, DaemonType,
                             ListIsInjective, LockIsHeld, WorkIsOrdered, Registered,
                             ObjectsMatchPlugs, ReportsAreOfGone, FreeIsFinal, ShutdownIsFinal,
                             UninstallIsClean, FreeAsked, InJobs, Present, NoObject
<1> QED BY <1>2, <1>3, <1>4

\* A device is unplugged.
LEMMA SafeUnplug ==
    ASSUME SafeInv, NEW d \in Devices, Unplug(d)
    PROVE  SafeInv'
<1> USE EnvTyped, NamesDiffer DEF SafeInv, TypeOK
<1>1. SameUse
  BY EnvStays DEF SameUse, Unplug, Requested
<1>2. HeldIsAlive' /\ CallsAreSound'
  BY <1>1, SameUseKeeps DEF ObjectType, Unplug, Requested
<1>3. TypeOK'
  BY EnvStays DEF Unplug, Requested, DaemonType
<1>4. /\ UninstallIsClean' /\ ListIsInjective' /\ LockIsHeld' /\ WorkIsOrdered'
      /\ ObjectsMatchPlugs' /\ ReportsAreOfGone' /\ FreeIsFinal' /\ ShutdownIsFinal'
  BY <1>1, EnvStays DEF SameUse, Unplug, Requested, DaemonType,
                             ListIsInjective, LockIsHeld, WorkIsOrdered, Registered,
                             ObjectsMatchPlugs, ReportsAreOfGone, FreeIsFinal, ShutdownIsFinal,
                             UninstallIsClean, FreeAsked, InJobs, Present, NoObject
<1> QED BY <1>2, <1>3, <1>4

\* usbh_process() takes a device's actions.
LEMMA SafeProcessDevice ==
    ASSUME SafeInv, NEW d \in Devices, ProcessDevice(d)
    PROVE  SafeInv'
<1> USE EnvTyped, NamesDiffer DEF SafeInv
<1>1. /\ dmn.at = "round" /\ dmn.jobs = <<>> /\ mux # Daemon
      /\ dmn' = [dmn EXCEPT !.at = "dev", !.cur = d, !.jobs = JobsOf(dev[d].acts)]
      /\ dev' = [dev EXCEPT ![d].acts = {}]
      /\ UNCHANGED <<clients, cli, lib, mux, plug, owed, env>>
  BY DEF ProcessDevice, In, WorkIsOrdered, LockIsHeld
<1>2. /\ dev[d].acts \in SUBSET {"GONE", "REMOVED", "FREE", "NEW"}
      /\ "REMOVED" \in dev[d].acts => "GONE" \notin dev[d].acts
      /\ dev[d] \in ObjectType /\ d \in Device
  BY DEF TypeOK, ObjectType, ReportsAreOfGone
<1>3. /\ dmn'.jobs \in Seq(JobName)
      /\ \A i, j \in DOMAIN dmn'.jobs : dmn'.jobs[i] = dmn'.jobs[j] => i = j
      /\ \A i \in DOMAIN dmn'.jobs : dmn'.jobs[i] \in {"FREE", "NEW_DEV"} => i = Len(dmn'.jobs)
      /\ InJobs("FREE")' => "FREE" \in dev[d].acts
      /\ InJobs("DEV_GONE")' \/ InJobs("DEV_REMOVED")' => dev[d].acts \cap {"GONE", "REMOVED"} # {}
  <2>1. dmn'.jobs = JobsOf(dev[d].acts)
    BY <1>1 DEF TypeOK, DaemonType
  <2> QED BY <1>2, <2>1, JobsAreOrdered DEF InJobs
<1>4. TypeOK'
  <2>1. dev' \in [Device -> ObjectType]
    BY <1>1, <1>2 DEF TypeOK, ObjectType
  <2>2. dmn' \in DaemonType
    BY <1>1, <1>2, <1>3 DEF TypeOK, DaemonType, JobName
  <2> QED BY <1>1, <2>1, <2>2, EnvStays DEF TypeOK
<1>5. SameUse
  BY <1>1, <1>2, EnvStays DEF SameUse, TypeOK
<1>6. HeldIsAlive' /\ CallsAreSound'
  BY <1>4, <1>5, SameUseKeeps DEF TypeOK, ObjectType
<1>7. /\ \A e \in Devices : /\ dev'[e] = [dev[e] EXCEPT !.acts = IF e = d THEN {} ELSE @]
                            /\ dev'[e].gone = dev[e].gone /\ dev'[e].opens = dev[e].opens
                            /\ dev'[e].acts = IF e = d THEN {} ELSE dev[e].acts
      /\ dmn'.at = "dev" /\ dmn'.cur = d /\ dmn'.left = dmn.left /\ dmn'.shut = dmn.shut
      /\ d # NoDev
  BY <1>1, <1>2, ZenonT(60) DEF TypeOK, DaemonType, ObjectType
<1>8. ListIsInjective' /\ LockIsHeld' /\ UninstallIsClean'
  BY <1>1, <1>5, <1>7 DEF SameUse, ListIsInjective, LockIsHeld, Registered, UninstallIsClean
<1>9. WorkIsOrdered'
  BY <1>3, <1>5, <1>7 DEF SameUse, WorkIsOrdered
<1>10. ReportsAreOfGone'
  BY <1>3, <1>5, <1>7, ZenonT(60) DEF SameUse, ReportsAreOfGone
<1>11. FreeIsFinal'
  BY <1>1, <1>3, <1>5, <1>7 DEF SameUse, FreeIsFinal, FreeAsked
<1>12. ObjectsMatchPlugs' /\ ShutdownIsFinal'
  BY <1>1, <1>5, <1>7 DEF SameUse, ObjectsMatchPlugs, NoObject, ShutdownIsFinal, Present
<1> QED BY <1>4, <1>6, <1>8, <1>9, <1>10, <1>11, <1>12

\* A walk through the clients begins.
LEMMA SafeStartTelling ==
    ASSUME SafeInv, StartTelling
    PROVE  SafeInv'
<1> USE EnvTyped, NamesDiffer DEF SafeInv
<1>1. /\ dmn.at = "dev" /\ dmn.jobs # <<>> /\ Head(dmn.jobs) # "FREE"
      /\ mux' = Daemon /\ dmn' = [dmn EXCEPT !.left = clients]
      /\ \A c \in Clients : cli[c].op # "closing"
      /\ UNCHANGED <<clients, cli, lib, dev, plug, owed, env>>
  BY DEF StartTelling, Job, LockIsHeld, TypeOK
<1>2. clients \in Seq(Client)
  BY SeqMonotonic DEF TypeOK
<1>3. TypeOK'
  BY <1>1, <1>2, EnvStays DEF TypeOK, DaemonType
<1>4. SameUse
  BY <1>1, EnvStays DEF SameUse
<1>5. HeldIsAlive' /\ CallsAreSound'
  BY <1>1, <1>4, SameUseKeeps DEF TypeOK, ObjectType
<1>6. LockIsHeld'
  BY <1>1, <1>4 DEF SameUse, LockIsHeld, TypeOK, DaemonType, Registered
<1>7. /\ UninstallIsClean' /\ ListIsInjective' /\ WorkIsOrdered'
      /\ ObjectsMatchPlugs' /\ ReportsAreOfGone' /\ FreeIsFinal' /\ ShutdownIsFinal'
  BY <1>1, <1>4 DEF SameUse, TypeOK, DaemonType, ListIsInjective, WorkIsOrdered, ObjectsMatchPlugs,
                    ReportsAreOfGone, FreeIsFinal, ShutdownIsFinal, UninstallIsClean,
                    FreeAsked, InJobs, Present
<1> QED BY <1>3, <1>5, <1>6, <1>7

\* The first client of the walk gets the message, or its queue is full.
LEMMA TellIs ==
    ASSUME SafeInv, Tell
    PROVE  /\ dmn.at = "dev" /\ mux = Daemon /\ dmn.cur \in Devices /\ dmn.cur \in Device
           /\ dmn.left \in Seq(Client) /\ dmn.left # <<>> /\ Head(dmn.left) \in Clients
           /\ Head(dmn.jobs) \in {"NEW_DEV", "DEV_GONE", "DEV_REMOVED"}
           /\ Tail(dmn.left) \in Seq(Client)
           /\ \A i \in DOMAIN Tail(dmn.left) : i + 1 \in DOMAIN dmn.left
                                             /\ Tail(dmn.left)[i] = dmn.left[i + 1]
           /\ Head(dmn.left) = dmn.left[1] /\ 1 \in DOMAIN dmn.left
           /\ DOMAIN dmn.left = 1..Len(dmn.left) /\ Len(dmn.left) \in Nat
           /\ DOMAIN Tail(dmn.left) = 1..(Len(dmn.left) - 1)
<1> USE EnvTyped, NamesDiffer DEF SafeInv
<1>1. dmn.at = "dev" /\ mux = Daemon /\ dmn.left # <<>> /\ dmn.left \in Seq(Client)
  BY DEF Tell, Telling, TypeOK, DaemonType
<1>2. dmn.cur \in Devices /\ dmn.cur \in Device
  BY <1>1 DEF WorkIsOrdered, TypeOK
<1>3. Head(dmn.jobs) \in {"NEW_DEV", "DEV_GONE", "DEV_REMOVED"}
  <2>1. dmn.jobs # <<>> /\ Head(dmn.jobs) # "FREE"
    BY <1>1 DEF LockIsHeld
  <2> QED BY <2>1, NextJob DEF JobName
<1>4. /\ Tail(dmn.left) \in Seq(Client)
      /\ Len(Tail(dmn.left)) = Len(dmn.left) - 1 /\ Len(dmn.left) \in Nat \ {0}
      /\ DOMAIN dmn.left = 1..Len(dmn.left) /\ DOMAIN Tail(dmn.left) = 1..Len(Tail(dmn.left))
      /\ \A i \in 1..Len(Tail(dmn.left)) : Tail(dmn.left)[i] = dmn.left[i + 1]
      /\ Head(dmn.left) = dmn.left[1]
  BY <1>1, HeadTailProperties, LenProperties, EmptySeq
<1>5. Head(dmn.left) \in Clients
  <2>1. 1 \in DOMAIN dmn.left
    BY <1>4
  <2>2. PICK i \in DOMAIN clients : clients[i] = dmn.left[1]
    BY <1>1, <2>1 DEF LockIsHeld, Registered
  <2>3. clients \in Seq(Clients)
    BY DEF TypeOK
  <2> QED BY <1>4, <2>2, <2>3, LenProperties, ElementOfSeq
<1> QED BY <1>1, <1>2, <1>3, <1>4, <1>5

\* A message is sent to a client, or not.
LEMMA SafeTell ==
    ASSUME SafeInv, Tell
    PROVE  SafeInv'
<1> USE EnvTyped, NamesDiffer DEF SafeInv
<1> DEFINE c == Head(dmn.left)
           d == dmn.cur
           event == Head(dmn.jobs)
           sent == Addressed(c, event, d) /\ Len(cli[c].queue) < QueueLen
<1>1. /\ dmn' = [dmn EXCEPT !.left = Tail(@)]
      /\ cli' = IF ~sent THEN cli
                ELSE [cli EXCEPT ![c].sem = TRUE,
                                 ![c].queue = Append(@, [event |-> event, dev |-> d])]
      /\ owed' = owed \/ owed' = [owed EXCEPT ![d] = @ \ {c}]
      /\ UNCHANGED <<clients, lib, mux, dev, plug, env>>
  BY DEF Tell
<1>2. c \in Clients /\ d \in Devices /\ event \in {"NEW_DEV", "DEV_GONE", "DEV_REMOVED"}
  BY TellIs
<1> HIDE DEF c, d, event, sent
<1>3. /\ cli' \in [Client -> ClientType] /\ \A e \in Client : Len(cli'[e].queue) <= QueueLen
      /\ \A e \in Clients : cli'[e].opened = cli[e].opened /\ cli'[e].op = cli[e].op
                          /\ cli'[e].arg = cli[e].arg
  <2>1. CASE ~sent
    BY <1>1, <2>1 DEF TypeOK
  <2>2. CASE sent
    <3> DEFINE q == cli[c].queue
               m == [event |-> event, dev |-> d]
               r == [cli[c] EXCEPT !.sem = TRUE, !.queue = Append(q, m)]
    <3>1. c \in Client /\ d \in Device /\ cli[c] \in ClientType
      BY <1>2 DEF TypeOK
    <3>2. q \in Seq(Message) /\ m \in Message /\ Len(q) < QueueLen
      BY <1>2, <2>2, <3>1 DEF ClientType, Message, sent
    <3>3. Append(q, m) \in Seq(Message) /\ Len(Append(q, m)) <= QueueLen
      BY <3>2, AppendProperties, LenProperties, QueueLenIsPos
    <3>4. r \in ClientType /\ r.queue = Append(q, m)
      BY <3>1, <3>3 DEF ClientType
    <3>5. cli' = [cli EXCEPT ![c] = r]
      BY <1>1, <2>2, <3>1 DEF TypeOK
    <3>6. r.opened = cli[c].opened /\ r.op = cli[c].op /\ r.arg = cli[c].arg
      BY <3>1 DEF ClientType
    <3> HIDE DEF r, q, m
    <3>7. cli' \in [Client -> ClientType] /\ \A e \in Client : Len(cli'[e].queue) <= QueueLen
      BY <3>1, <3>3, <3>4, <3>5, ClientTyped
    <3> QED BY <3>1, <3>5, <3>6, <3>7 DEF TypeOK
  <2> QED BY <2>1, <2>2
<1>4. TypeOK'
  <2>1. dmn' \in DaemonType
    BY <1>1, TellIs DEF TypeOK, DaemonType
  <2>2. owed' \in [Device -> SUBSET Client]
    BY <1>1 DEF TypeOK
  <2> QED BY <1>1, <1>3, <2>1, <2>2, EnvStays DEF TypeOK
<1>5. SameUse
  BY <1>1, <1>3, EnvStays DEF SameUse
<1>6. HeldIsAlive' /\ CallsAreSound'
  BY <1>1, <1>5, SameUseKeeps DEF TypeOK, ObjectType
<1>7. LockIsHeld'
  <2>1. dmn'.left = Tail(dmn.left) /\ dmn'.at = dmn.at /\ dmn'.jobs = dmn.jobs
    BY <1>1 DEF TypeOK, DaemonType
  <2>2. \A i \in DOMAIN dmn.left : Registered(dmn.left[i])
    BY TellIs DEF LockIsHeld
  <2>3. clients' = clients
    BY <1>1
  <2>4. ASSUME NEW i \in DOMAIN Tail(dmn.left)
        PROVE  Registered(Tail(dmn.left)[i])
    BY <2>2, TellIs
  <2>5. mux' = Daemon /\ dmn'.at = "dev" /\ dmn'.jobs # <<>> /\ Head(dmn'.jobs) # "FREE"
    BY <1>1, <2>1, TellIs DEF LockIsHeld
  <2>6. \A e \in Clients' : cli'[e].op # "closing"
    BY <1>5, TellIs DEF SameUse, LockIsHeld, TypeOK
  <2>7. \A i \in DOMAIN dmn'.left : \E k \in DOMAIN clients' : clients'[k] = dmn'.left[i]
    BY <2>1, <2>3, <2>4 DEF Registered
  <2> QED BY <2>5, <2>6, <2>7 DEF LockIsHeld, Registered
<1>8. /\ UninstallIsClean' /\ ListIsInjective' /\ WorkIsOrdered'
      /\ ObjectsMatchPlugs' /\ ReportsAreOfGone' /\ FreeIsFinal' /\ ShutdownIsFinal'
  BY <1>1, <1>5 DEF SameUse, TypeOK, DaemonType, ListIsInjective, WorkIsOrdered, ObjectsMatchPlugs,
                    ReportsAreOfGone, FreeIsFinal, ShutdownIsFinal, UninstallIsClean,
                    FreeAsked, InJobs, Present
<1> QED BY <1>4, <1>6, <1>7, <1>8

\* A walk through the clients ends.
LEMMA SafeStopTelling ==
    ASSUME SafeInv, StopTelling
    PROVE  SafeInv'
<1> USE EnvTyped, NamesDiffer DEF SafeInv
<1>1. /\ dmn.at = "dev" /\ dmn.jobs # <<>> /\ mux' = Free /\ dmn.left = <<>>
      /\ dmn' = [dmn EXCEPT !.jobs = Tail(@)]
      /\ \A c \in Clients : cli[c].op # "closing"
      /\ UNCHANGED <<clients, cli, lib, dev, plug, owed, env>>
  BY DEF StopTelling, Telling, LockIsHeld, TypeOK
<1>2. dmn'.jobs = Tail(dmn.jobs) /\ \A j : InJobs(j)' => InJobs(j)
  BY <1>1, NextJob DEF InJobs, TypeOK, DaemonType
<1>3. TypeOK'
  BY <1>1, NextJob, EnvStays DEF TypeOK, DaemonType, JobName
<1>4. SameUse
  BY <1>1, EnvStays DEF SameUse
<1>5. HeldIsAlive' /\ CallsAreSound'
  BY <1>1, <1>4, SameUseKeeps DEF TypeOK, ObjectType
<1>6. LockIsHeld'
  BY <1>1, <1>4 DEF SameUse, LockIsHeld, TypeOK, DaemonType, Free, Daemon
<1>7. WorkIsOrdered'
  BY <1>1, <1>2, <1>4, NextJob DEF SameUse, TypeOK, DaemonType, WorkIsOrdered
<1>8. ReportsAreOfGone' /\ FreeIsFinal'
  BY <1>1, <1>2, <1>4 DEF SameUse, TypeOK, DaemonType, ReportsAreOfGone, FreeIsFinal, FreeAsked
<1>9. UninstallIsClean' /\ ListIsInjective' /\ ObjectsMatchPlugs' /\ ShutdownIsFinal'
  BY <1>1, <1>4 DEF SameUse, TypeOK, DaemonType, ListIsInjective, ObjectsMatchPlugs,
                    ShutdownIsFinal, UninstallIsClean, Present
<1> QED BY <1>3, <1>5, <1>6, <1>7, <1>8, <1>9

\* A connection is enumerated.
LEMMA SafeHubNew ==
    ASSUME SafeInv, NEW d \in Devices, HubNew(d)
    PROVE  SafeInv'
<1> USE EnvTyped, NamesDiffer DEF SafeInv
<1> DEFINE r == [NoObject EXCEPT !.life = "enum", !.opens = 1]
<1>1. /\ dmn.at = "round" /\ plug[d] = "new" /\ d \in Device
      /\ plug' = [plug EXCEPT ![d] = "known"]
      /\ dev' = [dev EXCEPT ![d] = r]
      /\ UNCHANGED <<clients, cli, lib, mux, dmn, owed, env>>
  BY DEF HubNew, In, TypeOK
<1>2. /\ r \in ObjectType /\ r.life = "enum" /\ r.opens = 1 /\ ~r.gone /\ r.acts = {}
  BY NoObjectTyped, FewOpens DEF ObjectType
<1> HIDE DEF r
<1>3. dev[d].life = "none" /\ clients # <<>> /\ dmn.jobs = <<>>
  BY <1>1 DEF ObjectsMatchPlugs, ShutdownIsFinal, WorkIsOrdered
<1>4. TypeOK'
  BY <1>1, <1>2, EnvStays DEF TypeOK
<1>5. HeldIsAlive' /\ CallsAreSound'
  <2>1. Openers(d) = {} /\ Users(d) = {}
    BY <1>3, EnumeratorIsAlone DEF TypeOK
  <2> QED BY <1>1, <1>2, <2>1, UnusedKeeps DEF TypeOK
<1>6. /\ \A e \in Devices : dev'[e] = IF e = d THEN r ELSE dev[e]
      /\ \A e \in Devices : plug'[e] = IF e = d THEN "known" ELSE plug[e]
      /\ Clients' = Clients /\ Devices' = Devices
  BY <1>1, EnvStays DEF TypeOK
<1>7. /\ UninstallIsClean' /\ ListIsInjective' /\ LockIsHeld' /\ WorkIsOrdered'
      /\ ObjectsMatchPlugs'
  BY <1>1, <1>2, <1>6 DEF UninstallIsClean, ListIsInjective, LockIsHeld, Registered, WorkIsOrdered,
                    ObjectsMatchPlugs
<1>8. ReportsAreOfGone' /\ FreeIsFinal'
  BY <1>1, <1>2, <1>3, <1>6 DEF ReportsAreOfGone, FreeIsFinal, FreeAsked, InJobs
<1>9. ShutdownIsFinal'
  BY <1>1, <1>3, <1>6 DEF ShutdownIsFinal
<1> QED BY <1>4, <1>5, <1>7, <1>8, <1>9

\* What a disconnection makes of the object.
LEMMA RemoveIs ==
    ASSUME SafeInv, NEW d \in Devices, dev[d].gone = FALSE, NEW r \in ObjectType, r.gone = FALSE,
           r.acts = dev[d].acts, "FREE" \in r.acts => r.opens = 0, Remove(d, r)
    PROVE  \E s \in ObjectType :
              /\ dev' = [dev EXCEPT ![d] = s]
              /\ s.gone /\ s.life = r.life /\ s.opens = r.opens /\ s.waiting = r.waiting
              /\ "FREE" \in s.acts => s.opens = 0
              /\ "REMOVED" \in s.acts => s.opens = 0 /\ "GONE" \notin s.acts
              /\ "NEW" \in s.acts => "NEW" \in r.acts
              /\ s.acts \cap {"GONE", "REMOVED"} # {}
              /\ lib' \in [pend : SUBSET {"USBH", "HUB", "ENUM"}, sem : BOOLEAN,
                           flags : SUBSET {"NO_CLIENTS", "ALL_FREE"}]
              /\ lib'.flags = lib.flags
<1> USE EnvTyped DEF SafeInv
<1> DEFINE A == IF r.opens = 0 THEN {"REMOVED", "FREE"} ELSE {"GONE"}
           g == [r EXCEPT !.gone = TRUE]
           s == [g EXCEPT !.acts = @ \cup A]
<1>1. SetActs(d, g, A) /\ g \in ObjectType
  BY DEF Remove, ObjectType
<1>2. /\ dev' = [dev EXCEPT ![d] = s]
      /\ lib' \in [pend : SUBSET {"USBH", "HUB", "ENUM"}, sem : BOOLEAN,
                   flags : SUBSET {"NO_CLIENTS", "ALL_FREE"}]
      /\ lib'.flags = lib.flags
  <2>1. A \in SUBSET {"GONE", "REMOVED", "FREE", "NEW"} /\ d \in Device
    BY DEF TypeOK
  <2> HIDE DEF A, g
  <2> QED BY <1>1, <2>1, ActsAreSet
<1>3. s \in ObjectType
  BY DEF ObjectType
<1>4. r.acts \cap {"GONE", "REMOVED"} = {}
  BY DEF ReportsAreOfGone
<1>5. /\ s.gone /\ s.life = r.life /\ s.opens = r.opens /\ s.waiting = r.waiting
      /\ s.acts = r.acts \cup A
  BY DEF ObjectType
<1> HIDE DEF s
<1> QED BY <1>2, <1>3, <1>4, <1>5

\* A disconnection is reported to the USBH, unless the device is freed already.
LEMMA SafeHubLost ==
    ASSUME SafeInv, NEW d \in Devices, HubLost(d)
    PROVE  SafeInv'
<1> USE EnvTyped, NamesDiffer DEF SafeInv
<1>1. /\ dmn.at = "round" /\ plug[d] = "lost" /\ d \in Device
      /\ plug' = [plug EXCEPT ![d] = "out"]
      /\ UNCHANGED <<clients, cli, mux, dmn, env>>
      /\ Clients' = Clients /\ Devices' = Devices
      /\ \A e \in Devices : plug'[e] = IF e = d THEN "out" ELSE plug[e]
  BY EnvStays DEF HubLost, In, TypeOK
<1>2. /\ dev[d].gone = FALSE /\ dmn.jobs = <<>>
      /\ "FREE" \in dev[d].acts => dev[d].opens = 0
      /\ dev[d] \in ObjectType
  BY <1>1 DEF ObjectsMatchPlugs, WorkIsOrdered, FreeIsFinal, FreeAsked, TypeOK, ObjectType
<1>3. /\ UninstallIsClean' /\ ListIsInjective' /\ LockIsHeld' /\ WorkIsOrdered'
  BY <1>1 DEF UninstallIsClean, ListIsInjective, LockIsHeld, Registered, WorkIsOrdered
<1>4. CASE dev[d].life = "none" /\ UNCHANGED <<dev, lib, owed>>
  <2>1. TypeOK'
    BY <1>1, <1>4 DEF TypeOK
  <2>2. HeldIsAlive' /\ CallsAreSound'
    <3>1. SameUse
      BY <1>1, <1>4 DEF SameUse
    <3> QED BY <1>1, <1>4, <3>1, SameUseKeeps DEF TypeOK, ObjectType
  <2>3. ObjectsMatchPlugs' /\ ReportsAreOfGone' /\ FreeIsFinal' /\ ShutdownIsFinal'
    BY <1>1, <1>4 DEF ObjectsMatchPlugs, NoObject, ReportsAreOfGone, FreeIsFinal, FreeAsked, InJobs,
                      ShutdownIsFinal, Present
  <2> QED BY <1>3, <2>1, <2>2, <2>3
<1>5. ASSUME NEW r \in ObjectType, dev[d].life # "none", r.life # "none",
             r.gone = FALSE, r.acts = dev[d].acts, "FREE" \in r.acts => r.opens = 0,
             Remove(d, r),
             \A s \in ObjectType :
                 s.life = r.life /\ s.opens = r.opens /\ dev' = [dev EXCEPT ![d] = s]
                     => HeldIsAlive' /\ CallsAreSound'
      PROVE  SafeInv'
  <2>1. PICK s \in ObjectType :
              /\ dev' = [dev EXCEPT ![d] = s]
              /\ s.gone /\ s.life = r.life /\ s.opens = r.opens
              /\ "FREE" \in s.acts => s.opens = 0
              /\ "REMOVED" \in s.acts => s.opens = 0 /\ "GONE" \notin s.acts
              /\ lib' \in [pend : SUBSET {"USBH", "HUB", "ENUM"}, sem : BOOLEAN,
                           flags : SUBSET {"NO_CLIENTS", "ALL_FREE"}]
              /\ lib'.flags = lib.flags
    <3>1. dev[d].gone = FALSE
      BY <1>2
    <3>2. r \in ObjectType /\ r.gone = FALSE /\ r.acts = dev[d].acts /\ Remove(d, r)
          /\ ("FREE" \in r.acts => r.opens = 0)
      BY <1>5
    <3> HIDE <1>5 DEF SafeInv
    <3> QED BY <3>1, <3>2, RemoveIs, ZenonT(60)
  <2>2. HeldIsAlive' /\ CallsAreSound'
    BY <1>5, <2>1
  <2>3. TypeOK'
    <3>1. owed' \in [Device -> SUBSET Client]
      BY <1>5 DEF Remove, Concerned, TypeOK
    <3> QED BY <1>1, <2>1, <3>1 DEF TypeOK
  <2>4. \A e \in Devices : dev'[e] = IF e = d THEN s ELSE dev[e]
    BY <1>1, <2>1 DEF TypeOK
  <2>5. ObjectsMatchPlugs' /\ ReportsAreOfGone' /\ FreeIsFinal'
    BY <1>1, <1>2, <1>5, <2>1, <2>4 DEF ObjectsMatchPlugs, ReportsAreOfGone, FreeIsFinal, FreeAsked, InJobs
  <2>6. ShutdownIsFinal'
    BY <1>1, <1>5, <2>1, <2>4 DEF ShutdownIsFinal, Present
  <2> QED BY <1>3, <2>2, <2>3, <2>5, <2>6
<1>6. CASE dev[d].life # "none" /\ Remove(d, dev[d])
  <2>1. ASSUME NEW s \in ObjectType, s.life = dev[d].life, s.opens = dev[d].opens,
               dev' = [dev EXCEPT ![d] = s]
        PROVE  HeldIsAlive' /\ CallsAreSound'
    <3>1. SameUse /\ \A e \in Devices : dev'[e] \in ObjectType /\ dev[e] \in ObjectType
      BY <1>1, <2>1 DEF SameUse, TypeOK
    <3> QED BY <3>1, SameUseKeeps DEF ObjectType
  <2> QED BY <1>2, <1>5, <1>6, <2>1
<1>7. CASE /\ dev[d].life \in {"enum", "enumerated"}
           /\ Remove(d, [dev[d] EXCEPT !.life = "ready", !.opens = 0])
  <2> DEFINE r == [dev[d] EXCEPT !.life = "ready", !.opens = 0]
  <2>1. /\ r \in ObjectType /\ r.life = "ready" /\ r.opens = 0
        /\ r.gone = FALSE /\ r.acts = dev[d].acts
    BY <1>2, FewOpens DEF ObjectType
  <2>2. Remove(d, r) /\ dev[d].life \notin {"none", "ready"}
    BY <1>7
  <2> HIDE DEF r
  <2>3. ASSUME NEW s \in ObjectType, s.life = r.life, s.opens = r.opens,
               dev' = [dev EXCEPT ![d] = s]
        PROVE  HeldIsAlive' /\ CallsAreSound'
    <3>1. Openers(d) = {} /\ Users(d) = {}
      BY <2>2, EnumeratorIsAlone DEF TypeOK
    <3> QED BY <1>1, <2>1, <2>3, <3>1, UnusedKeeps DEF TypeOK
  <2> QED BY <1>5, <2>1, <2>2, <2>3
<1> QED BY <1>4, <1>6, <1>7 DEF HubLost

\* The last transfer of an enumeration is done.
LEMMA SafeEnumTransferDone ==
    ASSUME SafeInv, NEW d \in Devices, EnumTransferDone(d)
    PROVE  SafeInv'
<1> USE EnvTyped, NamesDiffer DEF SafeInv
<1> DEFINE r == [dev[d] EXCEPT !.life = "enumerated"]
<1>1. /\ dev[d].life = "enum" /\ dev' = [dev EXCEPT ![d] = r] /\ lib' = Requested(lib, "ENUM")
      /\ UNCHANGED <<clients, cli, mux, dmn, plug, owed, env>> /\ d \in Device
      /\ Clients' = Clients /\ Devices' = Devices
  BY EnvStays DEF EnumTransferDone, TypeOK
<1>2. /\ r \in ObjectType /\ r.life = "enumerated" /\ r.opens = dev[d].opens /\ r.gone = dev[d].gone
      /\ r.acts = dev[d].acts /\ r.waiting = dev[d].waiting
  BY <1>1, ZenonT(60) DEF TypeOK, ObjectType
<1> HIDE DEF r
<1>3. \A e \in Devices : dev'[e] = IF e = d THEN r ELSE dev[e]
  BY <1>1 DEF TypeOK
<1>4. TypeOK'
  BY <1>1, <1>2 DEF TypeOK, Requested
<1>5. HeldIsAlive' /\ CallsAreSound'
  <2>1. SameUse
    BY <1>1, <1>2, <1>3 DEF SameUse
  <2> QED BY <1>4, <2>1, SameUseKeeps DEF TypeOK, ObjectType, SameUse
<1>6. /\ UninstallIsClean' /\ ListIsInjective' /\ LockIsHeld' /\ WorkIsOrdered'
      /\ ObjectsMatchPlugs' /\ ReportsAreOfGone' /\ FreeIsFinal'
  BY <1>1, <1>2, <1>3 DEF UninstallIsClean, ListIsInjective, LockIsHeld, Registered, WorkIsOrdered,
                    ObjectsMatchPlugs, ReportsAreOfGone, FreeIsFinal, FreeAsked, InJobs, WorkIsOrdered
<1>7. ShutdownIsFinal'
  BY <1>1, <1>2, <1>3 DEF ShutdownIsFinal, Present, Requested, TypeOK
<1> QED BY <1>4, <1>5, <1>6, <1>7

\* An enumeration ends: its device is freed if it is gone by then, or reported.
LEMMA SafeEnumEnds ==
    ASSUME SafeInv, NEW d \in Devices, EnumEnds(d)
    PROVE  SafeInv'
<1> USE EnvTyped, NamesDiffer DEF SafeInv
<1> DEFINE r == [dev[d] EXCEPT !.life = "ready", !.opens = 0]
           A == (IF dev[d].gone \/ dev[d].waiting THEN {"FREE"} ELSE {})
                    \cup IF dev[d].gone THEN {} ELSE {"NEW"}
           s == [r EXCEPT !.acts = @ \cup A]
<1> HIDE DEF s
<1>1. /\ dmn.at = "round" /\ dev[d].life = "enumerated" /\ SetActs(d, r, A) /\ d \in Device
      /\ UNCHANGED <<clients, cli, mux, dmn, plug, owed, env>>
      /\ Clients' = Clients /\ Devices' = Devices
  BY EnvStays DEF EnumEnds, In, TypeOK
<1>2. /\ r \in ObjectType /\ r.life = "ready" /\ r.opens = 0 /\ r.gone = dev[d].gone
      /\ r.acts = dev[d].acts /\ r.waiting = dev[d].waiting
  <2>1. dev[d] \in ObjectType
    BY <1>1 DEF TypeOK
  <2> HIDE DEF A
  <2> QED BY <2>1, FewOpens DEF ObjectType
<1> HIDE DEF r
<1>3. /\ dev' = [dev EXCEPT ![d] = s] /\ lib'.flags = lib.flags
      /\ lib' \in [pend : SUBSET {"USBH", "HUB", "ENUM"}, sem : BOOLEAN,
                   flags : SUBSET {"NO_CLIENTS", "ALL_FREE"}]
  BY <1>1, <1>2, ActsAreSet DEF s
<1>4. /\ s \in ObjectType /\ s.life = "ready" /\ s.opens = 0 /\ s.gone = dev[d].gone
      /\ s.acts = dev[d].acts \cup A /\ s.waiting = dev[d].waiting
  BY <1>2 DEF ObjectType, s
<1>5. \A e \in Devices : dev'[e] = IF e = d THEN s ELSE dev[e]
  BY <1>1, <1>3 DEF TypeOK
<1>6. TypeOK'
  BY <1>1, <1>3, <1>4 DEF TypeOK
<1>7. HeldIsAlive' /\ CallsAreSound'
  <2>1. Openers(d) = {} /\ Users(d) = {}
    BY <1>1, EnumeratorIsAlone DEF TypeOK
  <2> QED BY <1>1, <1>3, <1>4, <2>1, UnusedKeeps DEF TypeOK
<1>8. UninstallIsClean' /\ ListIsInjective' /\ LockIsHeld' /\ WorkIsOrdered'
  BY <1>1 DEF UninstallIsClean, ListIsInjective, LockIsHeld, Registered, WorkIsOrdered
<1>9. ObjectsMatchPlugs' /\ ReportsAreOfGone' /\ FreeIsFinal'
  BY <1>1, <1>4, <1>5 DEF ObjectsMatchPlugs, NoObject, ReportsAreOfGone, FreeIsFinal, FreeAsked, InJobs, WorkIsOrdered
<1>10. ShutdownIsFinal'
  BY <1>1, <1>3, <1>4, <1>5 DEF ShutdownIsFinal, Present
<1> QED BY <1>6, <1>7, <1>8, <1>9, <1>10

\* A device is freed, by the daemon.
LEMMA SafeHandleFree ==
    ASSUME SafeInv, HandleFree
    PROVE  SafeInv'
<1> USE EnvTyped, NamesDiffer DEF SafeInv
<1>1. PICK d \in Devices : d = dmn.cur
  BY DEF HandleFree, Job, WorkIsOrdered
<1>2. /\ dmn.at = "dev" /\ dmn.jobs # <<>> /\ Head(dmn.jobs) = "FREE" /\ d \in Device
      /\ dev' = [dev EXCEPT ![d] = NoObject]
      /\ lib' = IF Present = {d}
                THEN [lib EXCEPT !.flags = @ \cup {"ALL_FREE"}, !.sem = TRUE] ELSE lib
      /\ dmn' = [dmn EXCEPT !.jobs = Tail(@)]
      /\ UNCHANGED <<clients, cli, mux, plug, owed, env>>
      /\ Clients' = Clients /\ Devices' = Devices
  BY <1>1, EnvStays DEF HandleFree, Job, TypeOK
<1>3. Tail(dmn.jobs) = <<>> /\ InJobs("FREE")
  BY <1>2, NextJob
<1>4. /\ dmn' \in DaemonType /\ dmn'.jobs = <<>> /\ dmn'.left = dmn.left /\ dmn'.at = "dev"
      /\ dmn'.cur = d /\ dmn'.shut = dmn.shut
  <2>1. dmn \in DaemonType /\ <<>> \in Seq(JobName) /\ dmn.cur = d /\ dmn.at = "dev"
    BY <1>1, <1>2, EmptySeq DEF TypeOK
  <2> QED BY <1>2, <1>3, <2>1 DEF DaemonType, JobName
<1>5. NoObject \in ObjectType /\ NoObject.life = "none" /\ NoObject.opens = 0
  BY NoObjectTyped
<1>6. \A e \in Devices : dev'[e] = IF e = d THEN NoObject ELSE dev[e]
  BY <1>2 DEF TypeOK
<1>7. TypeOK'
  BY <1>2, <1>4, <1>5 DEF TypeOK
<1>8. HeldIsAlive' /\ CallsAreSound'
  <2>1. dev[d].opens = 0
    BY <1>1, <1>3 DEF FreeIsFinal, FreeAsked
  <2>2. Openers(d) = {} /\ Users(d) = {}
    BY <2>1, OpenMeans DEF TypeOK, Openers, Users
  <2> QED BY <1>2, <1>5, <2>2, UnusedKeeps DEF TypeOK
<1>9. mux # Daemon
  BY <1>2 DEF LockIsHeld
<1>10. UninstallIsClean' /\ ListIsInjective' /\ LockIsHeld' /\ WorkIsOrdered'
  BY <1>2, <1>4, <1>9 DEF UninstallIsClean, ListIsInjective, LockIsHeld, Registered, WorkIsOrdered
<1>11. ObjectsMatchPlugs' /\ ReportsAreOfGone' /\ FreeIsFinal'
  BY <1>2, <1>4, <1>6 DEF ObjectsMatchPlugs, NoObject, ReportsAreOfGone, FreeIsFinal, FreeAsked, InJobs
<1>12. ShutdownIsFinal'
  <2>1. Present' = Present \ {d}
    BY <1>2, <1>5, <1>6 DEF Present
  <2>2. Present = {d} \/ lib' = lib
    BY <1>2
  <2> QED BY <1>2, <1>4, <2>1, <2>2 DEF ShutdownIsFinal
<1> QED BY <1>7, <1>8, <1>10, <1>11, <1>12

\* usb_host_device_free_all() changes only what is to be done with the devices.
LEMMA FreeAllIs ==
    ASSUME SafeInv, FreeAll
    PROVE  /\ \A e \in Device : dev'[e] \in ObjectType
           /\ dev' \in [Device -> ObjectType]
           /\ \A e \in Device : /\ dev'[e].life = dev[e].life /\ dev'[e].gone = dev[e].gone
                                /\ dev'[e].opens = dev[e].opens
                                /\ dev'[e].acts \subseteq dev[e].acts \cup {"FREE"}
                                /\ dev[e].acts \subseteq dev'[e].acts
                                /\ dev'[e].waiting = dev[e].waiting \/ dev'[e].waiting
                                /\ "FREE" \in dev'[e].acts /\ "FREE" \notin dev[e].acts =>
                                      dev[e].opens = 0 /\ clients = <<>>
           /\ \A e \in Devices : dev[e].life = "none" => dev'[e] = dev[e]
           /\ lib' \in [pend : SUBSET {"USBH", "HUB", "ENUM"}, sem : BOOLEAN,
                        flags : SUBSET {"NO_CLIENTS", "ALL_FREE"}]
           /\ lib'.flags = lib.flags
<1> USE EnvTyped DEF SafeInv
<1>1. CASE clients # <<>>
  BY <1>1 DEF FreeAll, TypeOK
<1>2. CASE clients = <<>>
  <2>1. /\ lib' \in [pend : SUBSET {"USBH", "HUB", "ENUM"}, sem : BOOLEAN,
                     flags : SUBSET {"NO_CLIENTS", "ALL_FREE"}]
        /\ lib'.flags = lib.flags
    <3>1. lib' = lib \/ lib' = Requested(lib, "USBH")
      BY <1>2 DEF FreeAll, MarkAllFree
    <3>2. CASE lib' = lib
      BY <3>2 DEF TypeOK
    <3>3. CASE lib' = Requested(lib, "USBH")
      BY <3>3 DEF Requested, TypeOK
    <3> QED BY <3>1, <3>2, <3>3
  <2>2. dev' = [e \in Device |->
                  IF e \notin Present THEN dev[e]
                  ELSE IF dev[e].opens = 0 THEN [dev[e] EXCEPT !.acts = @ \cup {"FREE"}]
                  ELSE [dev[e] EXCEPT !.waiting = TRUE]]
    BY <1>2 DEF FreeAll, MarkAllFree
  <2>3. \A e \in Device : dev[e] \in ObjectType
    BY DEF TypeOK
  <2>4. \A e \in Device :
           /\ dev'[e] \in ObjectType
           /\ dev'[e].life = dev[e].life /\ dev'[e].gone = dev[e].gone
           /\ dev'[e].opens = dev[e].opens
           /\ dev'[e].acts \subseteq dev[e].acts \cup {"FREE"}
           /\ dev[e].acts \subseteq dev'[e].acts
           /\ dev'[e].waiting = dev[e].waiting \/ dev'[e].waiting
           /\ "FREE" \in dev'[e].acts /\ "FREE" \notin dev[e].acts => dev[e].opens = 0
    <3> TAKE e \in Device
    <3>1. CASE e \notin Present
      BY <2>2, <2>3, <3>1
    <3>2. CASE e \in Present /\ dev[e].opens = 0
      BY <2>2, <2>3, <3>2 DEF ObjectType
    <3>3. CASE e \in Present /\ dev[e].opens # 0
      BY <2>2, <2>3, <3>3 DEF ObjectType
    <3> QED BY <3>1, <3>2, <3>3
  <2>5. \A e \in Devices : dev[e].life = "none" => dev'[e] = dev[e]
    BY <2>2 DEF Present, TypeOK
  <2>6. dev' \in [Device -> ObjectType]
    BY <2>2, <2>4
  <2> QED BY <1>2, <2>1, <2>4, <2>5, <2>6
<1> QED BY <1>1, <1>2

\* usb_host_device_free_all()
LEMMA SafeFreeAll ==
    ASSUME SafeInv, FreeAll
    PROVE  SafeInv'
<1> USE EnvTyped, NamesDiffer DEF SafeInv
<1>1. /\ dmn.at = "free_all" /\ "ALL_FREE" \notin lib.flags /\ dmn.jobs = <<>> /\ dmn.cur = NoDev
      /\ mux # Daemon /\ UNCHANGED <<clients, cli, mux, plug, owed, env>>
      /\ Clients' = Clients /\ Devices' = Devices /\ NoDev \notin Devices
  BY EnvStays DEF FreeAll, ShutdownIsFinal, WorkIsOrdered, LockIsHeld, TypeOK
<1>2. /\ \A e \in Device : dev'[e] \in ObjectType
      /\ dev' \in [Device -> ObjectType]
      /\ \A e \in Device : /\ dev'[e].life = dev[e].life /\ dev'[e].gone = dev[e].gone
                           /\ dev'[e].opens = dev[e].opens
                           /\ dev'[e].acts \subseteq dev[e].acts \cup {"FREE"}
                           /\ dev[e].acts \subseteq dev'[e].acts
                           /\ dev'[e].waiting = dev[e].waiting \/ dev'[e].waiting
                           /\ "FREE" \in dev'[e].acts /\ "FREE" \notin dev[e].acts =>
                                 dev[e].opens = 0 /\ clients = <<>>
      /\ \A e \in Devices : dev[e].life = "none" => dev'[e] = dev[e]
      /\ lib' \in [pend : SUBSET {"USBH", "HUB", "ENUM"}, sem : BOOLEAN,
                   flags : SUBSET {"NO_CLIENTS", "ALL_FREE"}]
      /\ lib'.flags = lib.flags
  BY FreeAllIs
<1>3. /\ dmn' \in DaemonType /\ dmn'.at \in {"wait", "uninstall"} /\ dmn'.jobs = <<>>
      /\ dmn'.cur = NoDev /\ dmn'.left = dmn.left
      /\ dmn'.shut # "no" => clients = <<>>
      /\ dmn'.shut = "done" => Present = {}
      /\ dmn'.at = "uninstall" => dmn'.shut = "done"
  <2>1. dmn \in DaemonType /\ (dmn.shut # "no" => clients = <<>>)
        /\ (dmn.shut = "done" => Present = {})
    BY DEF TypeOK, ShutdownIsFinal
  <2>2. CASE clients # <<>>
    <3>1. dmn' = [dmn EXCEPT !.at = "wait"]
      BY <2>2 DEF FreeAll
    <3> QED BY <1>1, <2>1, <3>1 DEF DaemonType
  <2>3. CASE clients = <<>>
    <3>1. dmn' = [dmn EXCEPT !.at = IF Present = {} THEN "uninstall" ELSE "wait",
                             !.shut = IF Present = {} THEN "done" ELSE "waiting"]
      BY <2>3 DEF FreeAll
    <3> QED BY <1>1, <2>1, <2>3, <3>1 DEF DaemonType
  <2> QED BY <2>2, <2>3
<1>4. TypeOK'
  BY <1>1, <1>2, <1>3 DEF TypeOK
<1>5. HeldIsAlive' /\ CallsAreSound'
  <2>1. SameUse
    BY <1>1, <1>2 DEF SameUse, TypeOK
  <2>2. \A e \in Devices : dev[e] \in ObjectType /\ dev'[e] \in ObjectType
    BY <1>2 DEF TypeOK
  <2> QED BY <2>1, <2>2, SameUseKeeps DEF ObjectType
<1>6. UninstallIsClean' /\ ListIsInjective' /\ LockIsHeld' /\ WorkIsOrdered'
  BY <1>1, <1>3 DEF UninstallIsClean, ListIsInjective, LockIsHeld, Registered, WorkIsOrdered
<1>7. Devices \subseteq Device
  BY DEF TypeOK
<1>8. ObjectsMatchPlugs'
  BY <1>1, <1>2, <1>7 DEF ObjectsMatchPlugs
<1>9. ReportsAreOfGone'
  BY <1>1, <1>2, <1>3, <1>7 DEF ReportsAreOfGone, InJobs
<1>10. FreeIsFinal'
  BY <1>1, <1>2, <1>3, <1>7 DEF FreeIsFinal, FreeAsked, InJobs, TypeOK, ObjectType
<1>11. ShutdownIsFinal'
  <2>1. Present' = Present
    BY <1>1, <1>2, <1>7 DEF Present
  <2> QED BY <1>1, <1>2, <1>3, <2>1 DEF ShutdownIsFinal
<1> QED BY <1>4, <1>5, <1>6, <1>8, <1>9, <1>10, <1>11

-----------------------------------------------------------------------------
(* The clients' steps keep SafeInv *)

\* A step of a client that has to do with its own events only.
LEMMA OwnStepKeeps ==
    ASSUME SafeInv, NEW c \in Clients, NEW r \in ClientType, Len(r.queue) <= QueueLen,
           r.opened = cli[c].opened, r.op = cli[c].op, r.arg = cli[c].arg,
           cli' = [cli EXCEPT ![c] = r],
           UNCHANGED <<clients, lib, mux, dmn, dev, plug, owed, env>>
    PROVE  SafeInv'
<1> USE EnvTyped, NamesDiffer DEF SafeInv
<1>1. c \in Client /\ Clients' = Clients /\ Devices' = Devices
  BY EnvStays DEF TypeOK
<1>2. \A e \in Clients : cli'[e].opened = cli[e].opened /\ cli'[e].op = cli[e].op
                       /\ cli'[e].arg = cli[e].arg
  BY <1>1 DEF TypeOK
<1>3. TypeOK'
  BY <1>1, ClientTyped DEF TypeOK
<1>4. HeldIsAlive' /\ CallsAreSound'
  BY <1>1, <1>2, SameUseKeeps DEF SameUse, TypeOK, ObjectType
<1>5. /\ UninstallIsClean' /\ ListIsInjective' /\ LockIsHeld' /\ WorkIsOrdered'
      /\ ObjectsMatchPlugs' /\ ReportsAreOfGone' /\ FreeIsFinal' /\ ShutdownIsFinal'
  BY <1>1, <1>2 DEF UninstallIsClean, ListIsInjective, LockIsHeld, Registered, WorkIsOrdered,
                    ObjectsMatchPlugs, ReportsAreOfGone, FreeIsFinal, FreeAsked, InJobs,
                    ShutdownIsFinal, Present
<1> QED BY <1>3, <1>4, <1>5

\* A client handles its events.
LEMMA SafeHandler ==
    ASSUME SafeInv, NEW c \in Clients, Handler(c)
    PROVE  SafeInv'
<1> USE EnvTyped DEF SafeInv
<1>1. cli[c] \in ClientType /\ Len(cli[c].queue) <= QueueLen /\ c \in Client
  BY DEF TypeOK
<1>2. CASE HandleEvents(c)
  <2> DEFINE r == [cli[c] EXCEPT !.sem = FALSE, !.handling = TRUE]
  <2>1. /\ r \in ClientType /\ Len(r.queue) <= QueueLen
        /\ r.opened = cli[c].opened /\ r.op = cli[c].op /\ r.arg = cli[c].arg
    BY <1>1 DEF ClientType
  <2>2. cli' = [cli EXCEPT ![c] = r]
    BY <1>1, <1>2 DEF HandleEvents, TypeOK
  <2> HIDE DEF r
  <2> QED BY <1>2, <2>1, <2>2, OwnStepKeeps DEF HandleEvents
<1>3. CASE HandleMessage(c)
  <2> DEFINE m == Head(cli[c].queue)
             told == IF m.event = "DEV_GONE" /\ m.dev \in cli[c].opened
                     THEN cli[c].told \cup {m.dev} ELSE cli[c].told
             r == [cli[c] EXCEPT !.queue = Tail(@), !.told = told]
  <2>1. /\ Tail(cli[c].queue) \in Seq(Message)
        /\ Len(Tail(cli[c].queue)) <= QueueLen
    <3>1. cli[c].queue \in Seq(Message) /\ cli[c].queue # <<>>
      BY <1>1, <1>3 DEF HandleMessage, ClientType
    <3>2. Len(Tail(cli[c].queue)) = Len(cli[c].queue) - 1
      BY <3>1, HeadTailProperties
    <3> QED BY <1>1, <3>1, <3>2, HeadTailProperties, LenProperties, QueueLenIsPos
  <2>2. told \in SUBSET Device
    BY <1>1 DEF ClientType
  <2>3. cli' = [cli EXCEPT ![c] = r]
    BY <1>1, <1>3 DEF HandleMessage, TypeOK
  <2> HIDE DEF told
  <2>4. /\ r \in ClientType /\ Len(r.queue) <= QueueLen
        /\ r.opened = cli[c].opened /\ r.op = cli[c].op /\ r.arg = cli[c].arg
    BY <1>1, <2>1, <2>2 DEF ClientType
  <2> HIDE DEF r
  <2> QED BY <1>3, <2>3, <2>4, OwnStepKeeps DEF HandleMessage
<1>4. CASE HandledEvents(c)
  <2> DEFINE r == [cli[c] EXCEPT !.handling = FALSE]
  <2>1. /\ r \in ClientType /\ Len(r.queue) <= QueueLen
        /\ r.opened = cli[c].opened /\ r.op = cli[c].op /\ r.arg = cli[c].arg
    BY <1>1 DEF ClientType
  <2>2. cli' = [cli EXCEPT ![c] = r]
    BY <1>1, <1>4 DEF HandledEvents, TypeOK
  <2> HIDE DEF r
  <2> QED BY <1>4, <2>1, <2>2, OwnStepKeeps DEF HandledEvents
<1> QED BY <1>2, <1>3, <1>4 DEF Handler

\* A client registers.
LEMMA SafeRegister ==
    ASSUME SafeInv, NEW c \in Clients, Register(c)
    PROVE  SafeInv'
<1> USE EnvTyped, NamesDiffer DEF SafeInv
<1>1. /\ ~Registered(c) /\ clients # <<>> /\ mux = Free /\ clients' = Append(clients, c)
      /\ UNCHANGED <<cli, lib, mux, dmn, dev, plug, owed, env>>
      /\ Clients' = Clients /\ Devices' = Devices
  BY EnvStays DEF Register
<1>2. /\ clients' \in Seq(Clients) /\ clients' # <<>> /\ Len(clients') = Len(clients) + 1
      /\ DOMAIN clients' = 1..(Len(clients) + 1) /\ DOMAIN clients = 1..Len(clients)
      /\ Len(clients) \in Nat
      /\ \A i \in 1..Len(clients) : clients'[i] = clients[i]
      /\ clients'[Len(clients) + 1] = c
  BY <1>1, AppendProperties, LenProperties DEF TypeOK
<1>3. TypeOK'
  BY <1>1, <1>2 DEF TypeOK
<1>4. HeldIsAlive' /\ CallsAreSound'
  BY <1>1, SameUseKeeps DEF SameUse, TypeOK, ObjectType
<1>5. ListIsInjective'
  BY <1>1, <1>2 DEF ListIsInjective, Registered
<1>6. LockIsHeld'
  BY <1>1 DEF LockIsHeld, Free, Daemon
<1>7. /\ UninstallIsClean' /\ WorkIsOrdered'
      /\ ObjectsMatchPlugs' /\ ReportsAreOfGone' /\ FreeIsFinal' /\ ShutdownIsFinal'
  BY <1>1, <1>2, SMTT(60) DEF UninstallIsClean, WorkIsOrdered, ObjectsMatchPlugs, ReportsAreOfGone, FreeIsFinal,
                    FreeAsked, InJobs, ShutdownIsFinal, Present
<1> QED BY <1>3, <1>4, <1>5, <1>6, <1>7

\* What remains of the list when c is taken out of it.
LEMMA UnlinkedIs ==
    ASSUME TypeOK, ListIsInjective, NEW c, Registered(c)
    PROVE  LET s == Unlinked(c) IN
           /\ s \in Seq(Clients) /\ Len(s) = Len(clients) - 1 /\ Len(clients) \in Nat
           /\ \A i, j \in DOMAIN s : s[i] = s[j] => i = j
           /\ \A x : (\E i \in DOMAIN s : s[i] = x) <=> Registered(x) /\ x # c
<1> DEFINE k == CHOOSE j \in DOMAIN clients : clients[j] = c
           n == Len(clients)
           p == SubSeq(clients, 1, k - 1)
           q == SubSeq(clients, k + 1, n)
           s == p \o q
<1>1. /\ clients \in Seq(Clients) /\ n \in Nat /\ DOMAIN clients = 1..n
      /\ \A i \in 1..n : clients[i] \in Clients
  BY LenProperties, ElementOfSeq DEF TypeOK
<1>2. k \in 1..n /\ clients[k] = c
  BY <1>1 DEF Registered
<1> HIDE DEF k, n
<1>3. /\ p \in Seq(Clients) /\ Len(p) = k - 1 /\ \A i \in 1..(k - 1) : p[i] = clients[i]
  <2>1. k - 1 \in Int /\ \A i \in 1..(k - 1) : clients[i] \in Clients
    BY <1>1, <1>2
  <2> HIDE DEF p
  <2>2. /\ p \in Seq(Clients) /\ Len(p) = IF 1 <= k - 1 THEN (k - 1) - 1 + 1 ELSE 0
        /\ \A i \in 1..((k - 1) - 1 + 1) : p[i] = clients[1 + i - 1]
    BY <2>1, SubSeqProperties DEF p
  <2> QED BY <1>2, <1>1, <2>2
<1>4. /\ q \in Seq(Clients) /\ Len(q) = n - k /\ \A i \in 1..(n - k) : q[i] = clients[k + i]
  <2>1. k + 1 \in Int /\ n \in Int /\ \A i \in (k + 1)..n : clients[i] \in Clients
    BY <1>1, <1>2
  <2> HIDE DEF q
  <2>2. /\ q \in Seq(Clients) /\ Len(q) = IF k + 1 <= n THEN n - (k + 1) + 1 ELSE 0
        /\ \A i \in 1..(n - (k + 1) + 1) : q[i] = clients[(k + 1) + i - 1]
    BY <2>1, SubSeqProperties DEF q
  <2> QED BY <1>2, <1>1, <2>2
<1> HIDE DEF p, q
<1>5. /\ s \in Seq(Clients) /\ Len(s) = n - 1 /\ DOMAIN s = 1..(n - 1)
      /\ \A i \in 1..(n - 1) : s[i] = IF i < k THEN clients[i] ELSE clients[i + 1]
  <2>1. /\ s \in Seq(Clients) /\ Len(s) = Len(p) + Len(q) /\ DOMAIN s = 1..Len(s)
        /\ \A i \in 1..(Len(p) + Len(q)) : s[i] = IF i <= Len(p) THEN p[i] ELSE q[i - Len(p)]
    BY <1>3, <1>4, ConcatProperties, LenProperties
  <2> HIDE DEF s
  <2>2. Len(p) + Len(q) = n - 1
    BY <1>1, <1>2, <1>3, <1>4
  <2>3. ASSUME NEW i \in 1..(n - 1)
        PROVE  s[i] = IF i < k THEN clients[i] ELSE clients[i + 1]
    <3>1. CASE i < k
      BY <1>1, <1>2, <1>3, <2>1, <2>2, <3>1
    <3>2. CASE i >= k
      <4>1. i - (k - 1) \in 1..(n - k) /\ ~(i <= Len(p)) /\ k + (i - (k - 1)) = i + 1
        BY <1>1, <1>2, <1>3, <3>2
      <4>2. s[i] = q[i - (k - 1)]
        BY <1>3, <2>1, <2>2, <4>1
      <4> QED BY <1>4, <3>2, <4>1, <4>2, <1>2
    <3> QED BY <1>1, <1>2, <3>1, <3>2
  <2> QED BY <2>1, <2>2, <2>3
<1> HIDE DEF s
<1> DEFINE old(i) == IF i < k THEN i ELSE i + 1
<1>0. \A i \in DOMAIN s : old(i) \in DOMAIN clients /\ old(i) # k /\ s[i] = clients[old(i)]
  BY <1>1, <1>2, <1>5
<1>6. \A i, j \in DOMAIN s : s[i] = s[j] => i = j
  <2> SUFFICES ASSUME NEW i \in DOMAIN s, NEW j \in DOMAIN s, s[i] = s[j]
               PROVE  i = j
    OBVIOUS
  <2> HIDE DEF old
  <2>1. old(i) = old(j)
    BY <1>0 DEF ListIsInjective
  <2> QED BY <1>1, <1>2, <1>5, <2>1 DEF old
<1>7. ASSUME NEW x
      PROVE  (\E i \in DOMAIN s : s[i] = x) <=> Registered(x) /\ x # c
  <2>1. ASSUME NEW i \in DOMAIN s, s[i] = x
        PROVE  Registered(x) /\ x # c
    <3> HIDE DEF old
    <3>1. old(i) \in DOMAIN clients /\ old(i) # k /\ clients[old(i)] = x /\ k \in DOMAIN clients
      BY <1>0, <1>1, <1>2, <2>1
    <3> QED BY <1>2, <3>1 DEF ListIsInjective, Registered
  <2>2. ASSUME NEW i \in DOMAIN clients, clients[i] = x, x # c
        PROVE  \E j \in DOMAIN s : s[j] = x
    <3>1. CASE i < k
      <4>1. i \in DOMAIN s /\ s[i] = x
        BY <1>1, <1>2, <1>5, <2>2, <3>1
      <4> QED BY <4>1
    <3>2. CASE i > k
      <4>1. i - 1 \in DOMAIN s /\ s[i - 1] = x
        BY <1>1, <1>2, <1>5, <2>2, <3>2
      <4> QED BY <4>1
    <3> QED BY <1>1, <1>2, <2>2, <3>1, <3>2
  <2> QED BY <2>1, <2>2 DEF Registered
<1>8. s = Unlinked(c)
  BY DEF s, p, q, k, n, Unlinked
<1> QED BY <1>1, <1>5, <1>6, <1>7, <1>8 DEF n

\* A client leaves.
LEMMA SafeDeregister ==
    ASSUME SafeInv, NEW c \in Clients, Deregister(c)
    PROVE  SafeInv'
<1> USE EnvTyped, NamesDiffer DEF SafeInv
<1>1. /\ Registered(c) /\ cli[c].opened = {} /\ cli[c].op = "idle" /\ mux = Free
      /\ Len(clients) > 1 \/ \A d \in Devices : plug[d] # "new"
      /\ clients' = Unlinked(c)
      /\ cli' = [cli EXCEPT ![c] = NoClient]
      /\ lib' = IF Len(clients) = 1
                THEN [lib EXCEPT !.flags = @ \cup {"NO_CLIENTS"}, !.sem = TRUE] ELSE lib
      /\ owed' = [d \in Device |-> owed[d] \ {c}]
      /\ UNCHANGED <<mux, dmn, dev, plug, env>> /\ c \in Client
      /\ Clients' = Clients /\ Devices' = Devices
  BY EnvStays DEF Deregister, MayDeregister, Leave, TypeOK
<1>2. /\ clients' \in Seq(Clients) /\ Len(clients') = Len(clients) - 1 /\ Len(clients) \in Nat
      /\ \A i, j \in DOMAIN clients' : clients'[i] = clients'[j] => i = j
  BY <1>1, UnlinkedIs
<1>3. clients # <<>> /\ (Len(clients) > 1 => clients' # <<>>)
  <2>1. Len(clients') > 0 => clients' # <<>>
    BY EmptySeq
  <2>2. DOMAIN clients # {}
    BY <1>1 DEF Registered
  <2>3. clients # <<>>
    BY <2>2
  <2> QED BY <1>2, <2>1, <2>3
<1>4. NoClient \in ClientType /\ Len(NoClient.queue) <= QueueLen
      /\ NoClient.opened = {} /\ NoClient.op = "idle"
  <2>1. <<>> \in Seq(Message) /\ Len(<<>>) = 0
    BY EmptySeq
  <2> QED BY <2>1, QueueLenIsPos DEF NoClient, ClientType
<1>5. TypeOK'
  <2>1. lib' \in [pend : SUBSET {"USBH", "HUB", "ENUM"}, sem : BOOLEAN,
                  flags : SUBSET {"NO_CLIENTS", "ALL_FREE"}]
    BY <1>1 DEF TypeOK
  <2>2. cli' \in [Client -> ClientType] /\ \A e \in Client : Len(cli'[e].queue) <= QueueLen
    BY <1>1, <1>4, ClientTyped
  <2>3. owed' \in [Device -> SUBSET Client]
    BY <1>1 DEF TypeOK
  <2> QED BY <1>1, <1>2, <2>1, <2>2, <2>3 DEF TypeOK
<1>6. \A e \in Clients : /\ cli'[e].opened = cli[e].opened /\ cli'[e].op = cli[e].op
                         /\ cli[e].op # "idle" => cli'[e].arg = cli[e].arg
  BY <1>1, <1>4 DEF TypeOK
<1>7. HeldIsAlive' /\ CallsAreSound'
  BY <1>1, <1>6, SameUseKeeps DEF SameUse, TypeOK, ObjectType
<1>8. ListIsInjective' /\ UninstallIsClean' /\ WorkIsOrdered' /\ ObjectsMatchPlugs'
      /\ ReportsAreOfGone'
  BY <1>1, <1>2 DEF ListIsInjective, UninstallIsClean, WorkIsOrdered, ObjectsMatchPlugs,
                    ReportsAreOfGone, InJobs
<1>9. LockIsHeld'
  BY <1>1, <1>6 DEF LockIsHeld, Free, Daemon
<1>10. FreeIsFinal'
  BY <1>1, <1>3 DEF FreeIsFinal, FreeAsked, InJobs
<1>11. ShutdownIsFinal'
  <2>1. lib'.flags \subseteq lib.flags \cup {"NO_CLIENTS"} /\ Present' = Present
    BY <1>1 DEF TypeOK, Present
  <2> QED BY <1>1, <1>3, <2>1 DEF ShutdownIsFinal
<1> QED BY <1>5, <1>7, <1>8, <1>9, <1>10, <1>11

\* What usbh_dev_close() makes of an object that is open.
LEMMA CloseIs ==
    ASSUME SafeInv, NEW d \in Devices, dev[d].opens # 0, CloseObject(d)
    PROVE  \E s \in ObjectType :
              /\ dev' = [dev EXCEPT ![d] = s]
              /\ s.opens = dev[d].opens - 1 /\ s.life = dev[d].life
              /\ s.gone = dev[d].gone /\ s.waiting = dev[d].waiting
              /\ s.acts \subseteq dev[d].acts \cup {"FREE"} /\ dev[d].acts \subseteq s.acts
              /\ "FREE" \in s.acts => s.opens = 0 /\ (s.gone \/ s.waiting)
              /\ "REMOVED" \notin s.acts
              /\ lib' \in [pend : SUBSET {"USBH", "HUB", "ENUM"}, sem : BOOLEAN,
                           flags : SUBSET {"NO_CLIENTS", "ALL_FREE"}]
              /\ lib'.flags = lib.flags
<1> USE EnvTyped DEF SafeInv
<1> DEFINE A == IF dev[d].opens = 1 /\ (dev[d].gone \/ dev[d].waiting) THEN {"FREE"} ELSE {}
           g == [dev[d] EXCEPT !.opens = @ - 1]
           s == [g EXCEPT !.acts = @ \cup A]
<1>1. dev[d] \in ObjectType /\ d \in Device /\ Cardinality(Client) \in Nat
  BY FewOpens DEF TypeOK
<1>2. SetActs(d, g, A)
  BY DEF CloseObject
<1>3. /\ g \in ObjectType /\ g.opens = dev[d].opens - 1 /\ g.life = dev[d].life
      /\ g.gone = dev[d].gone /\ g.waiting = dev[d].waiting /\ g.acts = dev[d].acts
  BY <1>1 DEF ObjectType
<1>4. A \in SUBSET {"GONE", "REMOVED", "FREE", "NEW"} /\ A \subseteq {"FREE"}
  OBVIOUS
<1>5. "FREE" \in A => dev[d].opens = 1 /\ (dev[d].gone \/ dev[d].waiting)
  OBVIOUS
<1> HIDE DEF A, g
<1>6. /\ dev' = [dev EXCEPT ![d] = s]
      /\ lib' \in [pend : SUBSET {"USBH", "HUB", "ENUM"}, sem : BOOLEAN,
                   flags : SUBSET {"NO_CLIENTS", "ALL_FREE"}]
      /\ lib'.flags = lib.flags
  BY <1>1, <1>2, <1>3, <1>4, ActsAreSet
<1>7. /\ s \in ObjectType /\ s.acts = g.acts \cup A
      /\ s.opens = g.opens /\ s.life = g.life /\ s.gone = g.gone /\ s.waiting = g.waiting
  BY <1>3, <1>4 DEF ObjectType
<1>8. "FREE" \notin dev[d].acts /\ "REMOVED" \notin dev[d].acts
  BY DEF FreeIsFinal, FreeAsked, ReportsAreOfGone
<1> HIDE DEF s
<1>9. /\ s.opens = dev[d].opens - 1 /\ s.life = dev[d].life
      /\ s.gone = dev[d].gone /\ s.waiting = dev[d].waiting
      /\ s.acts \subseteq dev[d].acts \cup {"FREE"} /\ dev[d].acts \subseteq s.acts
      /\ "REMOVED" \notin s.acts
  BY <1>3, <1>4, <1>7, <1>8
<1>10. "FREE" \in s.acts => s.opens = 0 /\ (s.gone \/ s.waiting)
  BY <1>3, <1>5, <1>7, <1>8
<1> QED BY <1>6, <1>7, <1>9, <1>10

\* A close disturbs nothing else.
LEMMA CloseKeeps ==
    ASSUME SafeInv, NEW d \in Devices, dev[d].opens # 0, CloseObject(d),
           UNCHANGED <<clients, dmn, plug, env>>
    PROVE  /\ UninstallIsClean' /\ ListIsInjective' /\ WorkIsOrdered' /\ ObjectsMatchPlugs'
           /\ ReportsAreOfGone' /\ FreeIsFinal' /\ ShutdownIsFinal'
<1> USE EnvTyped DEF SafeInv
<1>1. PICK s \in ObjectType :
              /\ dev' = [dev EXCEPT ![d] = s]
              /\ s.opens = dev[d].opens - 1 /\ s.life = dev[d].life
              /\ s.gone = dev[d].gone /\ s.waiting = dev[d].waiting
              /\ s.acts \subseteq dev[d].acts \cup {"FREE"} /\ dev[d].acts \subseteq s.acts
              /\ "FREE" \in s.acts => s.opens = 0 /\ (s.gone \/ s.waiting)
              /\ "REMOVED" \notin s.acts
              /\ lib'.flags = lib.flags
  BY CloseIs
<1>2. /\ \A e \in Devices : dev'[e] = IF e = d THEN s ELSE dev[e]
      /\ Devices' = Devices /\ Clients' = Clients
  BY <1>1, EnvStays DEF TypeOK
<1>3. dev[d].life # "none"
  BY DEF ObjectsMatchPlugs, NoObject
<1>4. ~FreeAsked(d)
  BY DEF FreeIsFinal
<1>5. UninstallIsClean' /\ ListIsInjective' /\ WorkIsOrdered' /\ ObjectsMatchPlugs'
  BY <1>1, <1>2, <1>3 DEF UninstallIsClean, ListIsInjective, WorkIsOrdered, ObjectsMatchPlugs
<1>6. ReportsAreOfGone'
  BY <1>1, <1>2 DEF ReportsAreOfGone, InJobs
<1>7. FreeIsFinal'
  BY <1>1, <1>2, <1>4 DEF FreeIsFinal, FreeAsked, InJobs
<1>8. ShutdownIsFinal'
  <2>1. Present' = Present
    BY <1>1, <1>2 DEF Present
  <2> QED BY <1>1, <1>2, <2>1 DEF ShutdownIsFinal
<1> QED BY <1>5, <1>6, <1>7, <1>8

\* usbh_devs_open() adds c to the users.
LEMMA SafeOpen ==
    ASSUME SafeInv, NEW c \in Clients, NEW d \in Devices, Open(c, d)
    PROVE  SafeInv'
<1> USE EnvTyped, NamesDiffer DEF SafeInv
<1> DEFINE r == [dev[d] EXCEPT !.opens = @ + 1]
           k == [cli[c] EXCEPT !.op = "opened", !.arg = d]
<1>1. /\ Registered(c) /\ cli[c].op = "idle"
      /\ dev[d].life = "ready" /\ ~dev[d].gone /\ ~dev[d].waiting
      /\ dev' = [dev EXCEPT ![d] = r] /\ cli' = [cli EXCEPT ![c] = k]
      /\ UNCHANGED <<clients, lib, mux, dmn, plug, owed, env>>
      /\ Clients' = Clients /\ Devices' = Devices
      /\ c \in Client /\ d \in Device
  BY EnvStays DEF Open, TypeOK
<1>2. /\ r.opens = dev[d].opens + 1 /\ r.life = "ready" /\ ~r.gone /\ ~r.waiting
      /\ r.acts = dev[d].acts /\ dev[d].opens \in Nat
      /\ r.opens \in 0..(2 * Cardinality(Client) + 1) => r \in ObjectType
  <2>1. dev[d] \in ObjectType
    BY <1>1 DEF TypeOK
  <2>2. /\ r.opens = dev[d].opens + 1 /\ r.life = "ready" /\ ~r.gone /\ ~r.waiting
        /\ r.acts = dev[d].acts /\ dev[d].opens \in Nat
    BY <1>1, <2>1, FewOpens DEF ObjectType
  <2>3. ASSUME dev[d].opens + 1 \in 0..(2 * Cardinality(Client) + 1)
        PROVE  r \in ObjectType
    BY <2>1, <2>3 DEF ObjectType
  <2> QED BY <2>2, <2>3
<1>3. /\ k \in ClientType /\ k.opened = cli[c].opened /\ k.op = "opened" /\ k.arg = d
      /\ Len(k.queue) <= QueueLen
  <2>1. cli[c] \in ClientType /\ Len(cli[c].queue) <= QueueLen
    BY <1>1 DEF TypeOK
  <2> QED BY <1>1, <2>1 DEF ClientType
<1> HIDE DEF r, k
<1>4. /\ \A e \in Devices : dev'[e] = IF e = d THEN r ELSE dev[e]
      /\ \A b \in Clients : cli'[b] = IF b = c THEN k ELSE cli[b]
  BY <1>1 DEF TypeOK
<1>5. \A e \in Devices : Counted(e)'
  <2>1. \A e \in Devices : Openers(e)' = Openers(e) /\ Enumerated(e)' = Enumerated(e)
    BY <1>1, <1>2, <1>3, <1>4 DEF Openers, Enumerated
  <2>2. \A e \in Devices : Users(e)' = IF e = d THEN Users(e) \cup {c} ELSE Users(e)
    BY <1>1, <1>3, <1>4 DEF Users
  <2>3. c \notin Users(d) /\ IsFiniteSet(Users(d))
    BY <1>1, SomeClients DEF Users, TypeOK
  <2>4. Cardinality(Users(d)') = Cardinality(Users(d)) + 1
    BY <2>2, <2>3, FS_AddElement
  <2>5. env \in Environments /\ Cardinality(Openers(d)) \in Nat /\ Cardinality(Users(d)) \in Nat
    BY CountsNow DEF TypeOK
  <2>6. /\ Cardinality(Openers(d)') \in Nat /\ Cardinality(Users(d)') \in Nat
        /\ dev'[d].opens = dev[d].opens + (Cardinality(Openers(d)') - Cardinality(Openers(d)))
                                        + (Cardinality(Users(d)') - Cardinality(Users(d)))
    BY <1>2, <1>4, <2>1, <2>4, <2>5
  <2>7. \A e \in Devices : e # d => /\ dev'[e].opens = dev[e].opens
                                    /\ Openers(e)' = Openers(e) /\ Users(e)' = Users(e)
    BY <1>4, <2>1, <2>2
  <2> QED BY <2>1, <2>5, <2>6, <2>7, CountChanges
<1>6. HeldIsAlive' /\ CallsAreSound'
  <2>1. HandlesAreLive'
    BY <1>1, <1>2, <1>3, <1>4, HeldMeans DEF HandlesAreLive, Holds
  <2>2. HeldIsAlive'
    BY <1>1, <1>5, <2>1 DEF HeldIsAlive, HandlesAreLive, Counted, Openers, Users, Enumerated
  <2>3. CallsAreSound'
    BY <1>1, <1>2, <1>3, <1>4 DEF CallsAreSound
  <2> QED BY <2>2, <2>3
<1>7. TypeOK'
  <2>1. r.opens \in 0..(2 * Cardinality(Client) + 1)
    <3>1. Counted(d)' /\ env' \in Environments /\ dev'[d].opens = r.opens
      BY <1>1, <1>4, <1>5 DEF TypeOK
    <3>2. Cardinality(Openers(d)') + Cardinality(Users(d)') + Enumerated(d)'
              \in 0..(2 * Cardinality(Client) + 1)
      <4>1. Openers(d)' \in SUBSET Clients /\ Users(d)' \in SUBSET Clients
        BY <1>1 DEF Openers, Users
      <4>2. /\ Cardinality(Openers(d)') \in Nat /\ Cardinality(Users(d)') \in Nat
            /\ Cardinality(Openers(d)') <= Cardinality(Client)
            /\ Cardinality(Users(d)') <= Cardinality(Client)
        BY <4>1, SomeClients DEF TypeOK
      <4>3. Enumerated(d)' \in {0, 1}
        BY DEF Enumerated
      <4> QED BY <4>2, <4>3, FewOpens
    <3> QED BY <3>1, <3>2 DEF Counted
  <2>2. cli' \in [Client -> ClientType] /\ \A b \in Client : Len(cli'[b].queue) <= QueueLen
    BY <1>1, <1>3, ClientTyped
  <2> QED BY <1>1, <1>2, <2>1, <2>2 DEF TypeOK
<1>8. /\ UninstallIsClean' /\ ListIsInjective' /\ LockIsHeld' /\ WorkIsOrdered'
      /\ ObjectsMatchPlugs'
  BY <1>1, <1>2, <1>3, <1>4 DEF UninstallIsClean, ListIsInjective, LockIsHeld, Registered,
                                WorkIsOrdered, ObjectsMatchPlugs
<1>9. clients # <<>>
  BY <1>1 DEF Registered
<1>10. ReportsAreOfGone' /\ FreeIsFinal'
  BY <1>1, <1>2, <1>4, <1>9 DEF ReportsAreOfGone, FreeIsFinal, FreeAsked, InJobs
<1>11. ShutdownIsFinal'
  BY <1>1, <1>9 DEF ShutdownIsFinal
<1> QED BY <1>6, <1>7, <1>8, <1>10, <1>11

\* A client records what it opened; an open that is recorded already is taken back.
LEMMA SafeRecordOpened ==
    ASSUME SafeInv, NEW c \in Clients, RecordOpened(c)
    PROVE  SafeInv'
<1> USE EnvTyped, NamesDiffer DEF SafeInv
<1>1. PICK d \in Devices : d = cli[c].arg
  BY DEF RecordOpened, CallsAreSound
<1> DEFINE k == [cli[c] EXCEPT !.op = "idle", !.arg = NoDev, !.opened = @ \cup {d}]
<1>2. /\ cli[c].op = "opened" /\ dev[d].life = "ready" /\ c \in Client /\ d \in Device
      /\ cli' = [cli EXCEPT ![c] = k]
      /\ IF d \in cli[c].opened THEN CloseObject(d) ELSE UNCHANGED <<dev, lib>>
      /\ UNCHANGED <<clients, mux, dmn, plug, owed, env>>
      /\ Clients' = Clients /\ Devices' = Devices
  <2>1. /\ cli[c].op = "opened" /\ dev[d].life = "ready" /\ c \in Client /\ d \in Device
        /\ Clients' = Clients /\ Devices' = Devices
    BY <1>1, EnvStays DEF RecordOpened, CallsAreSound, TypeOK
  <2>2. cli' = [cli EXCEPT ![c] = k]
    BY <1>1, <2>1 DEF RecordOpened, TypeOK
  <2> QED BY <1>1, <2>1, <2>2 DEF RecordOpened
<1>3. /\ k \in ClientType /\ k.opened = cli[c].opened \cup {d} /\ k.op = "idle"
      /\ Len(k.queue) <= QueueLen
  <2>1. cli[c] \in ClientType /\ Len(cli[c].queue) <= QueueLen
    BY <1>2 DEF TypeOK
  <2> QED BY <1>2, <2>1 DEF ClientType
<1> HIDE DEF k
<1>4. \A b \in Clients : cli'[b] = IF b = c THEN k ELSE cli[b]
  BY <1>2 DEF TypeOK
<1>5. cli' \in [Client -> ClientType] /\ \A b \in Client : Len(cli'[b].queue) <= QueueLen
  BY <1>2, <1>3, ClientTyped
<1>6. LockIsHeld'
  BY <1>2, <1>3, <1>4 DEF LockIsHeld, Registered
<1>7. /\ \A e \in Devices : Users(e)' = IF e = d THEN Users(e) \ {c} ELSE Users(e)
      /\ c \in Users(d)
  BY <1>1, <1>2, <1>3, <1>4 DEF Users
<1>8. \A e \in Devices : Openers(e)' = IF e = d THEN Openers(e) \cup {c} ELSE Openers(e)
  BY <1>2, <1>3, <1>4 DEF Openers
<1>9. /\ Cardinality(Users(d)') = Cardinality(Users(d)) - 1
      /\ Cardinality(Openers(d)') = Cardinality(Openers(d))
                                        + IF d \in cli[c].opened THEN 0 ELSE 1
  <2>1. IsFiniteSet(Users(d)) /\ IsFiniteSet(Openers(d)) /\ (c \in Openers(d) <=> d \in cli[c].opened)
    BY SomeClients DEF Users, Openers, TypeOK
  <2>2. Cardinality(Users(d)') = Cardinality(Users(d)) - 1
    BY <1>7, <2>1, FS_RemoveElement
  <2>3. Cardinality(Openers(d) \cup {c}) =
            IF c \in Openers(d) THEN Cardinality(Openers(d)) ELSE Cardinality(Openers(d)) + 1
    BY <2>1, FS_AddElement
  <2>4. Cardinality(Openers(d)) \in Nat
    BY <1>1, CountsNow DEF TypeOK
  <2>5. Openers(d)' = Openers(d) \cup {c}
    BY <1>8
  <2>6. Cardinality(Openers(d)') = IF d \in cli[c].opened THEN Cardinality(Openers(d))
                                   ELSE Cardinality(Openers(d)) + 1
    BY <2>1, <2>3, <2>5
  <2> QED BY <2>2, <2>4, <2>6
<1>12. /\ Cardinality(Openers(d)) \in Nat /\ Cardinality(Users(d)) \in Nat /\ dev[d].opens \in Nat
       /\ Cardinality(Openers(d)') \in Nat /\ Cardinality(Users(d)') \in Nat
  <2>1. Openers(d)' \in SUBSET Clients /\ Users(d)' \in SUBSET Clients
    BY <1>2 DEF Openers, Users
  <2> QED BY <2>1, CountsNow, SomeClients, OpenMeans DEF TypeOK
<1>10. CASE d \in cli[c].opened
  <2>1. dev[d].opens # 0 /\ CloseObject(d)
    BY <1>1, <1>2, <1>10, OpenMeans DEF TypeOK
  <2>2. PICK s \in ObjectType :
              /\ dev' = [dev EXCEPT ![d] = s]
              /\ s.opens = dev[d].opens - 1 /\ s.life = dev[d].life
              /\ lib' \in [pend : SUBSET {"USBH", "HUB", "ENUM"}, sem : BOOLEAN,
                           flags : SUBSET {"NO_CLIENTS", "ALL_FREE"}]
    BY <2>1, CloseIs
  <2>3. \A e \in Devices : dev'[e] = IF e = d THEN s ELSE dev[e]
    BY <1>2, <2>2 DEF TypeOK
  <2>4. TypeOK'
    BY <1>2, <1>5, <2>2 DEF TypeOK
  <2>5. \A e \in Devices : Counted(e)'
    <3>1. \A e \in Devices : Enumerated(e)' = Enumerated(e)
      BY <2>2, <2>3 DEF Enumerated
    <3>2. dev'[d].opens = dev[d].opens + (Cardinality(Openers(d)') - Cardinality(Openers(d)))
                                       + (Cardinality(Users(d)') - Cardinality(Users(d)))
      BY <1>9, <1>10, <1>12, <2>2, <2>3
    <3>3. \A e \in Devices : e # d => /\ dev'[e].opens = dev[e].opens
                                      /\ Openers(e)' = Openers(e) /\ Users(e)' = Users(e)
      BY <1>7, <1>8, <2>3
    <3>4. env \in Environments
      BY DEF TypeOK
    <3> QED BY <1>12, <3>1, <3>2, <3>3, <3>4, CountChanges
  <2>6. HandlesAreLive'
    BY <1>2, <1>3, <1>4, <2>2, <2>3, HeldMeans DEF HandlesAreLive, Holds
  <2>7. HeldIsAlive'
    BY <1>2, <2>5, <2>6 DEF HeldIsAlive, HandlesAreLive, Counted, Openers, Users, Enumerated
  <2>8. CallsAreSound'
    BY <1>2, <1>3, <1>4, <2>2, <2>3 DEF CallsAreSound
  <2> QED BY <1>2, <1>6, <2>1, <2>4, <2>7, <2>8, CloseKeeps
<1>11. CASE d \notin cli[c].opened
  <2>1. UNCHANGED <<dev, lib>>
    BY <1>2, <1>11
  <2>2. TypeOK'
    BY <1>2, <1>5, <2>1 DEF TypeOK
  <2>3. \A e \in Devices : Counted(e)'
    <3>1. \A e \in Devices : Enumerated(e)' = Enumerated(e)
      BY <2>1 DEF Enumerated
    <3>2. dev'[d].opens = dev[d].opens + (Cardinality(Openers(d)') - Cardinality(Openers(d)))
                                       + (Cardinality(Users(d)') - Cardinality(Users(d)))
      BY <1>9, <1>11, <1>12, <2>1
    <3>3. \A e \in Devices : e # d => /\ dev'[e].opens = dev[e].opens
                                      /\ Openers(e)' = Openers(e) /\ Users(e)' = Users(e)
      BY <1>7, <1>8, <2>1
    <3>4. env \in Environments
      BY DEF TypeOK
    <3> QED BY <1>12, <3>1, <3>2, <3>3, <3>4, CountChanges
  <2>4. HandlesAreLive'
    BY <1>2, <1>3, <1>4, <2>1, HeldMeans DEF HandlesAreLive, Holds
  <2>5. HeldIsAlive'
    BY <1>2, <2>3, <2>4 DEF HeldIsAlive, HandlesAreLive, Counted, Openers, Users, Enumerated
  <2>6. CallsAreSound'
    BY <1>2, <1>3, <1>4, <2>1 DEF CallsAreSound
  <2>7. /\ UninstallIsClean' /\ ListIsInjective' /\ WorkIsOrdered' /\ ObjectsMatchPlugs'
        /\ ReportsAreOfGone' /\ FreeIsFinal' /\ ShutdownIsFinal'
    BY <1>2, <2>1 DEF UninstallIsClean, ListIsInjective, WorkIsOrdered, ObjectsMatchPlugs,
                      ReportsAreOfGone, FreeIsFinal, FreeAsked, InJobs, ShutdownIsFinal, Present
  <2> QED BY <1>6, <2>2, <2>5, <2>6, <2>7
<1> QED BY <1>10, <1>11

\* usb_host_device_close() clears the record first.
LEMMA SafeClose ==
    ASSUME SafeInv, NEW c \in Clients, NEW d \in Devices, Close(c, d)
    PROVE  SafeInv'
<1> USE EnvTyped, NamesDiffer DEF SafeInv
<1> DEFINE k == [cli[c] EXCEPT !.op = "closing", !.arg = d, !.opened = @ \ {d}, !.told = @ \ {d}]
<1>1. /\ d \in cli[c].opened /\ cli[c].op = "idle" /\ mux = Free /\ mux' = c
      /\ c \in Client /\ d \in Device
      /\ cli' = [cli EXCEPT ![c] = k]
      /\ owed' \in [Device -> SUBSET Client]
      /\ UNCHANGED <<clients, lib, dmn, dev, plug, env>>
      /\ Clients' = Clients /\ Devices' = Devices
  BY EnvStays DEF Close, TypeOK
<1>2. /\ k \in ClientType /\ k.opened = cli[c].opened \ {d} /\ k.op = "closing" /\ k.arg = d
      /\ Len(k.queue) <= QueueLen
  <2>1. cli[c] \in ClientType /\ Len(cli[c].queue) <= QueueLen
    BY <1>1 DEF TypeOK
  <2> QED BY <1>1, <2>1 DEF ClientType
<1> HIDE DEF k
<1>3. \A b \in Clients : cli'[b] = IF b = c THEN k ELSE cli[b]
  BY <1>1 DEF TypeOK
<1>4. TypeOK'
  <2>1. cli' \in [Client -> ClientType] /\ \A b \in Client : Len(cli'[b].queue) <= QueueLen
    BY <1>1, <1>2, ClientTyped
  <2> QED BY <1>1, <2>1 DEF TypeOK
<1>5. HeldIsAlive' /\ CallsAreSound'
  <2>1. /\ \A e \in Devices : Users(e)' = IF e = d THEN Users(e) \cup {c} ELSE Users(e)
        /\ c \notin Users(d)
    BY <1>1, <1>2, <1>3 DEF Users
  <2>2. /\ \A e \in Devices : Openers(e)' = IF e = d THEN Openers(e) \ {c} ELSE Openers(e)
        /\ c \in Openers(d)
    BY <1>1, <1>2, <1>3 DEF Openers
  <2>3. IsFiniteSet(Users(d)) /\ IsFiniteSet(Openers(d))
    BY SomeClients DEF Users, Openers, TypeOK
  <2>4. Cardinality(Users(d)') = Cardinality(Users(d)) + 1
    BY <2>1, <2>3, FS_AddElement
  <2>5. Cardinality(Openers(d)') = Cardinality(Openers(d)) - 1
    BY <2>2, <2>3, FS_RemoveElement
  <2>6. \A e \in Devices : Enumerated(e)' = Enumerated(e)
    BY <1>1 DEF Enumerated
  <2>7. \A e \in Devices : Counted(e)'
    BY <1>1, <2>1, <2>2, <2>4, <2>5, <2>6, CountsNow DEF Counted, TypeOK
  <2>8. HandlesAreLive' /\ dev[d].life = "ready"
    BY <1>1, <1>2, <1>3, HeldMeans DEF HandlesAreLive, Holds
  <2>9. HeldIsAlive'
    BY <1>1, <2>7, <2>8 DEF HeldIsAlive, HandlesAreLive, Counted, Openers, Users, Enumerated
  <2>10. CallsAreSound'
    BY <1>1, <1>2, <1>3, <2>8 DEF CallsAreSound
  <2> QED BY <2>9, <2>10
<1>6. LockIsHeld'
  <2>1. dmn.left = <<>> /\ \A b \in Clients : cli[b].op # "closing"
    BY <1>1 DEF LockIsHeld, Free, Daemon, TypeOK
  <2> QED BY <1>1, <1>2, <1>3, <2>1 DEF LockIsHeld, TypeOK
<1>7. /\ UninstallIsClean' /\ ListIsInjective' /\ WorkIsOrdered' /\ ObjectsMatchPlugs'
      /\ ReportsAreOfGone' /\ FreeIsFinal' /\ ShutdownIsFinal'
  BY <1>1 DEF UninstallIsClean, ListIsInjective, WorkIsOrdered, ObjectsMatchPlugs,
              ReportsAreOfGone, FreeIsFinal, FreeAsked, InJobs, ShutdownIsFinal, Present
<1> QED BY <1>4, <1>5, <1>6, <1>7

\* Then it closes the object, still under the lock.
LEMMA SafeClosed ==
    ASSUME SafeInv, NEW c \in Clients, Closed(c)
    PROVE  SafeInv'
<1> USE EnvTyped, NamesDiffer DEF SafeInv
<1>1. PICK d \in Devices : d = cli[c].arg
  BY DEF Closed, CallsAreSound
<1> DEFINE k == [cli[c] EXCEPT !.op = "idle", !.arg = NoDev]
<1>2. /\ cli[c].op = "closing" /\ dev[d].life = "ready" /\ c \in Client /\ d \in Device
      /\ mux = c /\ mux' = Free
      /\ cli' = [cli EXCEPT ![c] = k] /\ CloseObject(d)
      /\ UNCHANGED <<clients, dmn, plug, owed, env>>
      /\ Clients' = Clients /\ Devices' = Devices
  <2>1. /\ cli[c].op = "closing" /\ dev[d].life = "ready" /\ c \in Client /\ d \in Device
        /\ Clients' = Clients /\ Devices' = Devices /\ mux = c
    BY <1>1, EnvStays DEF Closed, CallsAreSound, LockIsHeld, TypeOK
  <2>2. cli' = [cli EXCEPT ![c] = k]
    BY <2>1 DEF Closed, TypeOK
  <2> QED BY <1>1, <2>1, <2>2 DEF Closed
<1>3. /\ k \in ClientType /\ k.opened = cli[c].opened /\ k.op = "idle"
      /\ Len(k.queue) <= QueueLen
  <2>1. cli[c] \in ClientType /\ Len(cli[c].queue) <= QueueLen
    BY <1>2 DEF TypeOK
  <2> QED BY <2>1 DEF ClientType
<1> HIDE DEF k
<1>4. \A b \in Clients : cli'[b] = IF b = c THEN k ELSE cli[b]
  BY <1>2 DEF TypeOK
<1>5. dev[d].opens # 0
  BY <1>1, <1>2, OpenMeans DEF TypeOK
<1>6. PICK s \in ObjectType :
              /\ dev' = [dev EXCEPT ![d] = s]
              /\ s.opens = dev[d].opens - 1 /\ s.life = dev[d].life
              /\ lib' \in [pend : SUBSET {"USBH", "HUB", "ENUM"}, sem : BOOLEAN,
                           flags : SUBSET {"NO_CLIENTS", "ALL_FREE"}]
  BY <1>2, <1>5, CloseIs
<1>7. \A e \in Devices : dev'[e] = IF e = d THEN s ELSE dev[e]
  BY <1>2, <1>6 DEF TypeOK
<1>8. TypeOK'
  <2>1. cli' \in [Client -> ClientType] /\ \A b \in Client : Len(cli'[b].queue) <= QueueLen
    BY <1>2, <1>3, ClientTyped
  <2> QED BY <1>2, <1>6, <2>1 DEF TypeOK
<1>9. HeldIsAlive' /\ CallsAreSound'
  <2>1. /\ \A e \in Devices : Users(e)' = IF e = d THEN Users(e) \ {c} ELSE Users(e)
        /\ c \in Users(d)
    BY <1>1, <1>2, <1>3, <1>4 DEF Users
  <2>2. \A e \in Devices : Openers(e)' = Openers(e)
    BY <1>2, <1>3, <1>4 DEF Openers
  <2>3. IsFiniteSet(Users(d))
    BY SomeClients DEF Users, TypeOK
  <2>4. Cardinality(Users(d)') = Cardinality(Users(d)) - 1
    BY <2>1, <2>3, FS_RemoveElement
  <2>5. \A e \in Devices : Enumerated(e)' = Enumerated(e)
    BY <1>6, <1>7 DEF Enumerated
  <2>6. \A e \in Devices : Counted(e)'
    <3>1. /\ Cardinality(Openers(d)) \in Nat /\ Cardinality(Users(d)) \in Nat
          /\ dev[d].opens \in Nat /\ Cardinality(Users(d)') \in Nat
      <4>1. Users(d)' \in SUBSET Clients
        BY <1>2 DEF Users
      <4> QED BY <4>1, CountsNow, SomeClients, OpenMeans DEF TypeOK
    <3>2. dev'[d].opens = dev[d].opens + (Cardinality(Openers(d)') - Cardinality(Openers(d)))
                                       + (Cardinality(Users(d)') - Cardinality(Users(d)))
      BY <1>6, <1>7, <2>2, <2>4, <3>1
    <3>3. \A e \in Devices : e # d => /\ dev'[e].opens = dev[e].opens
                                      /\ Openers(e)' = Openers(e) /\ Users(e)' = Users(e)
      BY <1>7, <2>1, <2>2
    <3>4. env \in Environments /\ Cardinality(Openers(d)') \in Nat
      BY <2>2, <3>1 DEF TypeOK
    <3> QED BY <2>5, <3>1, <3>2, <3>3, <3>4, CountChanges
  <2>7. HandlesAreLive'
    BY <1>2, <1>3, <1>4, <1>6, <1>7, HeldMeans DEF HandlesAreLive, Holds
  <2>8. HeldIsAlive'
    BY <1>2, <2>6, <2>7 DEF HeldIsAlive, HandlesAreLive, Counted, Openers, Users, Enumerated
  <2>9. CallsAreSound'
    BY <1>2, <1>3, <1>4, <1>6, <1>7 DEF CallsAreSound
  <2> QED BY <2>8, <2>9
<1>10. LockIsHeld'
  <2>1. dmn.left = <<>> /\ \A b \in Clients \ {c} : cli[b].op # "closing"
    BY <1>2 DEF LockIsHeld, TypeOK
  <2> QED BY <1>2, <1>3, <1>4, <2>1 DEF LockIsHeld, Free, Daemon
<1> QED BY <1>2, <1>5, <1>8, <1>9, <1>10, CloseKeeps

-----------------------------------------------------------------------------
\* SafeInv holds at the start.
LEMMA SafeInit ==
    ASSUME Init
    PROVE  SafeInv
<1> USE NamesDiffer
<1>1. /\ env \in Environments /\ clients = env.clients /\ clients \in Seq(Client)
      /\ \A i, j \in DOMAIN clients : clients[i] = clients[j] => i = j
      /\ Clients \subseteq Client /\ Devices \subseteq Device
  BY EnvTyped, EnvironmentsAreTyped DEF Init
<1>2. clients \in Seq(Clients)
  <2>1. /\ Len(clients) \in Nat /\ DOMAIN clients = 1..Len(clients)
        /\ clients \in [1..Len(clients) -> Client]
    BY <1>1, LenProperties
  <2>2. clients \in [1..Len(clients) -> Clients]
    BY <1>1, <2>1 DEF Clients
  <2> QED BY <2>1, <2>2, SeqDef
<1>3. /\ NoClient \in ClientType /\ Len(NoClient.queue) <= QueueLen
      /\ NoClient.opened = {} /\ NoClient.op = "idle"
  <2>1. <<>> \in Seq(Message) /\ Len(<<>>) = 0
    BY EmptySeq
  <2> QED BY <2>1, QueueLenIsPos DEF NoClient, ClientType
<1>4. /\ \A c \in Client : cli[c] = NoClient
      /\ \A d \in Device : dev[d] = NoObject /\ plug[d] = "out"
      /\ lib.flags = {} /\ mux = Free
      /\ dmn = [at |-> "wait", parts |-> {}, cur |-> NoDev, jobs |-> <<>>, left |-> <<>>,
                shut |-> "no"]
  BY DEF Init
<1>5. TypeOK
  <2>1. cli \in [Client -> ClientType] /\ dev \in [Device -> ObjectType]
    BY <1>3, NoObjectTyped DEF Init
  <2>2. dmn \in DaemonType
    <3>1. <<>> \in Seq({"NEW_DEV", "DEV_GONE", "DEV_REMOVED", "FREE"}) /\ <<>> \in Seq(Client)
      BY EmptySeq
    <3> QED BY <1>4, <3>1 DEF DaemonType
  <2> QED BY <1>1, <1>2, <1>3, <1>4, <2>1, <2>2 DEF Init, TypeOK
<1>6. HeldIsAlive
  <2>1. \A c \in Clients : cli[c].opened = {} /\ cli[c].op = "idle"
    BY <1>1, <1>3, <1>4
  <2>2. \A d \in Devices : dev[d].life = "none" /\ dev[d].opens = 0
    BY <1>1, <1>4, NoObjectTyped
  <2>3. \A d \in Devices : Openers(d) = {} /\ Users(d) = {} /\ Enumerated(d) = 0
    BY <2>1, <2>2 DEF Openers, Users, Enumerated
  <2>4. \A d \in Devices : Counted(d)
    BY <2>2, <2>3, FS_EmptySet DEF Counted
  <2>5. HandlesAreLive
    BY <2>1 DEF HandlesAreLive, Holds
  <2> QED BY <2>4, <2>5, HeldMeans
<1>7. /\ UninstallIsClean /\ ListIsInjective /\ LockIsHeld /\ WorkIsOrdered /\ CallsAreSound
      /\ ShutdownIsFinal
  BY <1>1, <1>3, <1>4 DEF UninstallIsClean, ListIsInjective, LockIsHeld, WorkIsOrdered, Free, Daemon,
                          CallsAreSound, ShutdownIsFinal
<1>8. ObjectsMatchPlugs /\ ReportsAreOfGone /\ FreeIsFinal
  BY <1>1, <1>4, NoObjectTyped DEF ObjectsMatchPlugs, ReportsAreOfGone, FreeIsFinal, FreeAsked, InJobs
<1> QED BY <1>5, <1>6, <1>7, <1>8 DEF SafeInv

\* Nothing happens.
LEMMA SafeStutter ==
    ASSUME SafeInv, UNCHANGED vars
    PROVE  SafeInv'
<1> USE DEF SafeInv, vars
<1>1. Clients' = Clients /\ Devices' = Devices
  BY EnvStays
<1>2. TypeOK' /\ HeldIsAlive'
  BY <1>1 DEF TypeOK, HeldIsAlive, Holds
<1>3. /\ UninstallIsClean' /\ ListIsInjective' /\ LockIsHeld' /\ WorkIsOrdered' /\ CallsAreSound'
      /\ ObjectsMatchPlugs' /\ ReportsAreOfGone' /\ FreeIsFinal' /\ ShutdownIsFinal'
  BY <1>1 DEF UninstallIsClean, ListIsInjective, LockIsHeld, Registered, WorkIsOrdered, CallsAreSound,
              ObjectsMatchPlugs, ReportsAreOfGone, FreeIsFinal, FreeAsked, InJobs,
              ShutdownIsFinal, Present
<1> QED BY <1>2, <1>3

\* Every step of the daemon keeps SafeInv.
LEMMA SafeDaemonStep ==
    ASSUME SafeInv, DaemonStep
    PROVE  SafeInv'
BY SafeTake, SafeNextPart, SafeHubNew, SafeHubLost, SafeEnumEnds, SafeProcessDevice,
   SafeStartTelling, SafeTell, SafeStopTelling, SafeHandleFree, SafeDeviceDone, SafeReturn,
   SafeFreeAll, SafeUninstall DEF DaemonStep

\* Whatever happens on the bus keeps it.
LEMMA SafeBus ==
    ASSUME SafeInv, Bus
    PROVE  SafeInv'
BY SafePlug, SafeUnplug, SafeEnumTransferDone DEF Bus

\* Every call of a client keeps it.
LEMMA SafeApi ==
    ASSUME SafeInv, Api
    PROVE  SafeInv'
BY SafeRegister, SafeDeregister, SafeRecordOpened, SafeClosed, SafeOpen, SafeClose DEF Api

\* Every step keeps it.
LEMMA SafeNext ==
    ASSUME SafeInv, [Next]_vars
    PROVE  SafeInv'
BY SafeDaemonStep, SafeBus, SafeHandler, SafeApi, SafeStutter DEF Next, Ended

\* SafeInv is an inductive invariant.
LEMMA SafeInvariant == Spec => []SafeInv
<1>1. Init => SafeInv
  BY SafeInit
<1>2. SafeInv /\ [Next]_vars => SafeInv'
  BY SafeNext
<1> QED BY <1>1, <1>2, PTL DEF Spec

\* What a client holds is a device in use, and open_count is exactly who uses it: the
\* records of the clients (opened_dev_addr_map), the calls under way and the enumeration,
\* whatever opens and closes race with (usb_host.c:1348-1423).
THEOREM HandlesAreCounted == Spec => []HeldIsAlive
<1>1. SafeInv => HeldIsAlive
  BY DEF SafeInv
<1> QED BY <1>1, SafeInvariant, PTL

\* The daemon never walks into a client that has been freed (usb_host.c:272-332).
THEOREM WalkedAreRegistered == Spec => []WalksRegistered
<1>1. SafeInv => WalksRegistered
  BY EmptySeq DEF SafeInv, LockIsHeld, WalksRegistered
<1> QED BY <1>1, SafeInvariant, PTL

\* usb_host_uninstall() finds no device once ALL_FREE has ended the wait for it, or
\* nothing was there to be freed.
THEOREM UninstallFindsNothing == Spec => []UninstallIsClean
<1>1. SafeInv => UninstallIsClean
  BY DEF SafeInv
<1> QED BY <1>1, SafeInvariant, PTL

-----------------------------------------------------------------------------
\* Nobody is interrupted between the two halves of usb_host_device_open(), and
\* nobody closes a device while the daemon reports on it.
Quiet == \A e \in Environments : "races" \notin e.uses

\* A client is told at most twice of each life of a device: that it is new, and that
\* it is gone.
Roomy == QueueLen >= 2 * Cardinality(Device)

Message_(j) == dmn.jobs # <<>> /\ Head(dmn.jobs) = j

-----------------------------------------------------------------------------
(* What makes the messages reach everybody *)

\* While c is ahead in the walk that reports job j.
StillTold(c, j) ==
    /\ InJobs(j)
    /\ mux = Daemon /\ Head(dmn.jobs) = j => \E i \in DOMAIN dmn.left : dmn.left[i] = c

\* Who has to hear of a disconnection is registered, and uses the device or
\* subscribed.
OwedAreConcerned ==
    \A d \in Devices, c \in Client :
        dev[d].gone /\ c \in owed[d] =>
            Registered(c) /\ c \in Clients /\ (c \in env.notify \/ Holds(c, d))

\* While a disconnection is reported, who has to hear of it is still ahead.
OwedAreAhead ==
    \A c \in Client :
        dmn.at = "dev" /\ dev[dmn.cur].gone /\ c \in owed[dmn.cur] =>
            IF Holds(c, dmn.cur) THEN StillTold(c, "DEV_GONE")
            ELSE Message_("DEV_REMOVED") /\ StillTold(c, "DEV_REMOVED")

\* While it is reported nobody is opening the device.
NobodyIsOpening ==
    mux = Daemon /\ Head(dmn.jobs) # "NEW_DEV" => Recorded

\* The daemon passes each client once.
LeftIsInjective == \A i, j \in DOMAIN dmn.left : dmn.left[i] = dmn.left[j] => i = j

\* When the daemon has a device, what else is to be done with it is to free it.
CurrentIsTaken ==
    dmn.at = "dev" => dev[dmn.cur].acts \subseteq {"FREE"}

\* What is reported as new has been enumerated.
NewIsReady ==
    \A d \in Devices :
        "NEW" \in dev[d].acts \/ (dmn.cur = d /\ InJobs("NEW_DEV")) => dev[d].life = "ready"

\* Client c may still be told that d is new, or that it is gone.
NewAhead(c, d) ==
    \/ plug[d] = "new" \/ dev[d].life \in {"enum", "enumerated"}
    \/ "NEW" \in dev[d].acts
    \/ dmn.cur = d /\ StillTold(c, "NEW_DEV")

GoneAhead(c, d) ==
    \/ plug[d] = "new" \/ (dev[d].life # "none" /\ ~dev[d].gone)
    \/ dev[d].acts \cap {"GONE", "REMOVED"} # {}
    \/ dmn.cur = d /\ StillTold(c, IF Holds(c, d) THEN "DEV_GONE" ELSE "DEV_REMOVED")

IsNew(m) == m.event = "NEW_DEV"

\* Each of the two messages about a device is sent to a client once.
MessagesAreOnce ==
    \A c \in Clients : LET q == cli[c].queue IN
        /\ \A i, j \in DOMAIN q : q[i].dev = q[j].dev /\ IsNew(q[i]) = IsNew(q[j]) => i = j
        /\ \A i \in DOMAIN q :
              /\ q[i].dev \in Devices
              /\ IF IsNew(q[i]) THEN ~NewAhead(c, q[i].dev) ELSE ~GoneAhead(c, q[i].dev)

ToldInv ==
    /\ SafeInv
    /\ EverybodyIsTold /\ OwedAreConcerned /\ OwedAreAhead /\ NobodyIsOpening
    /\ LeftIsInjective /\ CurrentIsTaken /\ NewIsReady /\ MessagesAreOnce

-----------------------------------------------------------------------------
(* Steps that have nothing to do with messages *)

\* The walk is where it was, the devices' disconnections are where they were, and
\* who has to hear of one is still registered and still uses it.
Alike ==
    /\ Clients' = Clients /\ Devices' = Devices /\ env' = env
    /\ (dmn'.at = "dev" <=> dmn.at = "dev") /\ dmn'.cur = dmn.cur
    /\ dmn'.jobs = dmn.jobs /\ dmn'.left = dmn.left
    /\ (mux' = Daemon <=> mux = Daemon)
    /\ \A c \in Clients :
          /\ cli'[c].queue = cli[c].queue \/ cli'[c].queue = <<>>
          /\ cli'[c].op = "opened" => cli[c].op = "opened" /\ cli'[c].arg = cli[c].arg
          /\ Registered(c) => Registered(c)' \/ \A d \in Devices : c \notin owed'[d]
          /\ \A d \in Devices : Holds(c, d)' <=> Holds(c, d)
    /\ \A d \in Devices :
          /\ dev'[d].gone = dev[d].gone
          /\ dev'[d].acts \cup {"FREE"} = dev[d].acts \cup {"FREE"}
          /\ dev'[d].life = "none" <=> dev[d].life = "none"
          /\ dev'[d].life \in {"enum", "enumerated"} => dev[d].life \in {"enum", "enumerated"}
          /\ plug'[d] = "new" => plug[d] = "new"
          /\ owed'[d] \subseteq owed[d]

\* Such a step keeps ToldInv.
LEMMA AlikeKeeps ==
    ASSUME ToldInv, Alike, SafeInv'
    PROVE  ToldInv'
<1> USE NamesDiffer DEF ToldInv
<1>1. \A c, j : StillTold(c, j)' <=> StillTold(c, j)
  BY DEF Alike, StillTold, InJobs
<1>2. EverybodyIsTold'
  BY DEF Alike, EverybodyIsTold
<1>3. OwedAreConcerned'
  BY DEF Alike, OwedAreConcerned
<1>4. OwedAreAhead'
  <2> SUFFICES ASSUME NEW c \in Client, (dmn.at = "dev")', dev[dmn.cur].gone', (c \in owed[dmn.cur])'
               PROVE  (IF Holds(c, dmn.cur) THEN StillTold(c, "DEV_GONE")
                       ELSE Message_("DEV_REMOVED") /\ StillTold(c, "DEV_REMOVED"))'
    BY DEF OwedAreAhead
  <2>1. PICK d \in Devices : d = dmn.cur /\ dmn'.cur = d
    BY DEF Alike, SafeInv, WorkIsOrdered
  <2>2. dmn.at = "dev" /\ dev[d].gone /\ c \in owed[d]
    BY <2>1 DEF Alike
  <2>3. c \in Clients
    BY <2>2 DEF OwedAreConcerned
  <2>4. Holds(c, d)' <=> Holds(c, d)
    BY <2>3 DEF Alike
  <2>5. Message_("DEV_REMOVED")' <=> Message_("DEV_REMOVED")
    BY DEF Alike, Message_
  <2>6. IF Holds(c, d) THEN StillTold(c, "DEV_GONE")
        ELSE Message_("DEV_REMOVED") /\ StillTold(c, "DEV_REMOVED")
    BY <2>1, <2>2 DEF OwedAreAhead
  <2>7. Holds(c, dmn.cur)' <=> Holds(c, d)'
    BY <2>1 DEF Holds
  <2> QED BY <1>1, <2>4, <2>5, <2>6, <2>7
<1>5. NobodyIsOpening'
  BY DEF Alike, NobodyIsOpening, Recorded
<1>8. LeftIsInjective'
  BY DEF Alike, LeftIsInjective
<1>6. CurrentIsTaken'
  BY DEF Alike, CurrentIsTaken, SafeInv, WorkIsOrdered
<1>7. MessagesAreOnce'
  <2>1. \A c \in Clients, d \in Devices : (NewAhead(c, d)' => NewAhead(c, d))
                                       /\ (GoneAhead(c, d)' => GoneAhead(c, d))
    <3> TAKE c \in Clients, d \in Devices
    <3>1. NewAhead(c, d)' => NewAhead(c, d)
      BY <1>1 DEF Alike, NewAhead
    <3>2. GoneAhead(c, d)' => GoneAhead(c, d)
      <4>1. Holds(c, d)' <=> Holds(c, d)
        BY DEF Alike
      <4> QED BY <1>1, <4>1 DEF Alike, GoneAhead
    <3> QED BY <3>1, <3>2
  <2>2. \A c \in Clients : cli'[c].queue = cli[c].queue \/ DOMAIN cli'[c].queue = {}
    BY EmptySeq DEF Alike
  <2>3. Clients' = Clients /\ Devices' = Devices
    BY DEF Alike
  <2> QED BY <2>1, <2>2, <2>3 DEF MessagesAreOnce
<1>20. NewIsReady'
  <2>1. \A d \in Devices : dev[d].life = "ready" => dev'[d].life = "ready"
    <3> TAKE d \in Devices
    <3>1. TypeOK /\ TypeOK'
      BY DEF SafeInv
    <3>2. d \in Device
      BY <3>1, EnvTyped DEF TypeOK
    <3>3. dev'[d] \in ObjectType
      BY <3>1, <3>2 DEF TypeOK
    <3> QED BY <3>3 DEF Alike, ObjectType
  <2>2. \A d \in Devices : "NEW" \in dev'[d].acts => "NEW" \in dev[d].acts
    BY DEF Alike
  <2> QED BY <2>1, <2>2 DEF Alike, NewIsReady, InJobs
<1> QED BY <1>20, <1>2, <1>3, <1>4, <1>5, <1>6, <1>7, <1>8

\* The daemon's steps that wake it up, lead it through its rounds and end it.
LEMMA ToldRounds ==
    ASSUME ToldInv, Take \/ NextPart \/ Return \/ Uninstall \/ FreeAll
    PROVE  ToldInv'
<1> USE EnvTyped, NamesDiffer DEF ToldInv, SafeInv
<1>1. SafeInv'
  BY SafeTake, SafeNextPart, SafeReturn, SafeUninstall, SafeFreeAll
<1>2. /\ UNCHANGED <<clients, cli, mux, plug, owed, env>>
      /\ Clients' = Clients /\ Devices' = Devices
  BY EnvStays DEF Take, NextPart, Return, Uninstall, FreeAll
<1>3. /\ (dmn'.at = "dev" <=> dmn.at = "dev") /\ dmn'.cur = dmn.cur
      /\ dmn'.jobs = dmn.jobs /\ dmn'.left = dmn.left
  <2>1. CASE Take \/ NextPart
    BY <2>1, ZenonT(60) DEF Take, NextPart, TypeOK, DaemonType
  <2>2. CASE Return
    BY <2>2 DEF Return, TypeOK, DaemonType
  <2>3. CASE Uninstall
    BY <2>3 DEF Uninstall, TypeOK, DaemonType
  <2>4. CASE FreeAll
    BY <2>4, ZenonT(60) DEF FreeAll, TypeOK, DaemonType
  <2> QED BY <2>1, <2>2, <2>3, <2>4
<1>4. \A d \in Devices :
          /\ dev'[d].gone = dev[d].gone /\ dev'[d].life = dev[d].life
          /\ dev'[d].acts \cup {"FREE"} = dev[d].acts \cup {"FREE"}
  <2>1. CASE Take \/ NextPart \/ Return \/ Uninstall
    BY <2>1 DEF Take, NextPart, Return, Uninstall
  <2>2. CASE FreeAll
    <3>1. \A d \in Device : /\ dev'[d].life = dev[d].life /\ dev'[d].gone = dev[d].gone
                            /\ dev'[d].acts \subseteq dev[d].acts \cup {"FREE"}
                            /\ dev[d].acts \subseteq dev'[d].acts
      BY <2>2, FreeAllIs
    <3> QED BY <3>1 DEF TypeOK
  <2> QED BY <2>1, <2>2
<1>5. Alike
  BY <1>2, <1>3, <1>4 DEF Alike, Holds, Registered
<1> QED BY <1>1, <1>5, AlikeKeeps

\* A device is unplugged, or its enumeration goes on.
LEMMA ToldUnplug ==
    ASSUME ToldInv, NEW d \in Devices, Unplug(d) \/ EnumTransferDone(d)
    PROVE  ToldInv'
<1> USE EnvTyped, NamesDiffer DEF ToldInv, SafeInv
<1>1. SafeInv'
  BY SafeUnplug, SafeEnumTransferDone
<1>2. /\ UNCHANGED <<clients, cli, mux, dmn, owed, env>> /\ d \in Device
      /\ Clients' = Clients /\ Devices' = Devices
  BY EnvStays DEF Unplug, EnumTransferDone, TypeOK
<1>3. CASE Unplug(d)
  <2>1. Alike
    BY <1>2, <1>3 DEF Unplug, TypeOK, Alike, Holds, Registered
  <2> QED BY <1>1, <2>1, AlikeKeeps
<1>4. CASE EnumTransferDone(d)
  <2>1. \A e \in Devices :
          /\ dev'[e].gone = dev[e].gone /\ dev'[e].acts = dev[e].acts
          /\ dev'[e].life = IF e = d THEN "enumerated" ELSE dev[e].life
    BY <1>2, <1>4 DEF EnumTransferDone, TypeOK, ObjectType
  <2>2. dev[d].life = "enum" /\ plug' = plug
    BY <1>4 DEF EnumTransferDone
  <2>3. Alike
    BY <1>2, <2>1, <2>2 DEF Alike, Holds, Registered
  <2> QED BY <1>1, <2>3, AlikeKeeps
<1> QED BY <1>3, <1>4

\* A client begins or ends handling its events, registers or leaves.
LEMMA ToldClient ==
    ASSUME ToldInv, NEW c \in Clients,
           HandleEvents(c) \/ HandledEvents(c) \/ Register(c) \/ Deregister(c)
    PROVE  ToldInv'
<1> USE EnvTyped, NamesDiffer DEF ToldInv, SafeInv
<1>1. SafeInv'
  BY SafeHandler, SafeRegister, SafeDeregister DEF Handler
<1>2. /\ UNCHANGED <<mux, dmn, dev, plug, env>> /\ c \in Client
      /\ Clients' = Clients /\ Devices' = Devices
  BY EnvStays DEF HandleEvents, HandledEvents, Register, Deregister, Leave, TypeOK
<1>3. CASE HandleEvents(c) \/ HandledEvents(c)
  <2>1. \A b \in Clients : /\ cli'[b].queue = cli[b].queue /\ cli'[b].op = cli[b].op
                           /\ cli'[b].arg = cli[b].arg /\ cli'[b].opened = cli[b].opened
    <3>1. cli \in [Client -> ClientType]
      BY DEF TypeOK
    <3>2. CASE HandleEvents(c)
      <4>1. cli' = [cli EXCEPT ![c] = [cli[c] EXCEPT !.sem = FALSE, !.handling = TRUE]]
        BY <3>1, <3>2, <1>2 DEF HandleEvents
      <4> QED BY <3>1, <4>1, <1>2 DEF ClientType
    <3>3. CASE HandledEvents(c)
      <4>1. cli' = [cli EXCEPT ![c] = [cli[c] EXCEPT !.handling = FALSE]]
        BY <3>1, <3>3, <1>2 DEF HandledEvents
      <4> QED BY <3>1, <4>1, <1>2 DEF ClientType
    <3> QED BY <1>3, <3>2, <3>3
  <2>2. UNCHANGED <<clients, owed>>
    BY <1>3 DEF HandleEvents, HandledEvents
  <2>3. Alike
    BY <1>2, <2>1, <2>2 DEF Alike, Holds, Registered
  <2> QED BY <1>1, <2>3, AlikeKeeps
<1>4. CASE Register(c)
  <2>1. UNCHANGED <<cli, owed>>
    BY <1>4 DEF Register
  <2>2. \A b \in Clients : Registered(b) => Registered(b)'
    <3>1. /\ DOMAIN clients' = 1..(Len(clients) + 1) /\ DOMAIN clients = 1..Len(clients)
          /\ Len(clients) \in Nat
          /\ \A i \in 1..Len(clients) : clients'[i] = clients[i]
      BY <1>4, AppendProperties, LenProperties DEF Register, TypeOK
    <3> QED BY <3>1 DEF Registered
  <2>3. Alike
    BY <1>2, <2>1, <2>2 DEF Alike, Holds
  <2> QED BY <1>1, <2>3, AlikeKeeps
<1>5. CASE Deregister(c)
  <2>1. /\ Registered(c) /\ cli[c].opened = {} /\ cli[c].op = "idle"
        /\ cli' = [cli EXCEPT ![c] = NoClient] /\ clients' = Unlinked(c)
        /\ owed' = [d \in Device |-> owed[d] \ {c}]
    BY <1>5 DEF Deregister, MayDeregister, Leave
  <2>2. NoClient.queue = <<>> /\ NoClient.op = "idle" /\ NoClient.opened = {}
    BY DEF NoClient
  <2>3. \A b \in Clients : cli'[b] = IF b = c THEN NoClient ELSE cli[b]
    BY <1>2, <2>1 DEF TypeOK
  <2>4. \A x : Registered(x) /\ x # c => Registered(x)'
    <3>1. \A x : (\E i \in DOMAIN clients' : clients'[i] = x) <=> Registered(x) /\ x # c
      BY <2>1, UnlinkedIs
    <3> QED BY <3>1 DEF Registered
  <2>5. \A d \in Devices : owed'[d] = owed[d] \ {c}
    BY <2>1 DEF TypeOK
  <2>6. Alike
    BY <1>2, <2>1, <2>2, <2>3, <2>4, <2>5 DEF Alike, Holds
  <2> QED BY <1>1, <2>6, AlikeKeeps
<1> QED BY <1>3, <1>4, <1>5

\* The second halves of opens and closes.
LEMMA ToldCalls ==
    ASSUME ToldInv, NEW c \in Clients, RecordOpened(c) \/ Closed(c)
    PROVE  ToldInv'
<1> USE EnvTyped, NamesDiffer DEF ToldInv, SafeInv
<1>1. SafeInv'
  BY SafeRecordOpened, SafeClosed
<1>2. PICK d \in Devices : d = cli[c].arg
  BY DEF RecordOpened, Closed, CallsAreSound
<1>3. /\ UNCHANGED <<clients, dmn, plug, owed, env>> /\ c \in Client
      /\ Clients' = Clients /\ Devices' = Devices
      /\ (mux' = Daemon <=> mux = Daemon)
  BY EnvStays DEF RecordOpened, Closed, TypeOK, LockIsHeld, Free, Daemon
<1>4. /\ \A b \in Clients : /\ cli'[b].queue = cli[b].queue
                            /\ cli'[b].op = IF b = c THEN "idle" ELSE cli[b].op
                            /\ b # c => cli'[b].arg = cli[b].arg
      /\ \A b \in Clients : cli'[b].opened =
            IF b = c /\ cli[b].op = "opened" THEN cli[b].opened \cup {d} ELSE cli[b].opened
      /\ cli[c].op \in {"opened", "closing"}
  BY <1>2, <1>3 DEF RecordOpened, Closed, TypeOK, ClientType
<1>5. \A b \in Clients, e \in Devices : Holds(b, e)' <=> Holds(b, e)
  <2> TAKE b \in Clients, e \in Devices
  <2>1. CASE b # c
    BY <2>1, <1>4 DEF Holds
  <2>2. CASE b = c /\ cli[c].op = "opened"
    BY <2>2, <1>2, <1>4, ZenonT(60) DEF Holds
  <2>3. CASE b = c /\ cli[c].op = "closing"
    BY <2>3, <1>4 DEF Holds
  <2> QED BY <2>1, <2>2, <2>3, <1>4
<1>6. \A e \in Devices :
          /\ dev'[e].gone = dev[e].gone /\ dev'[e].life = dev[e].life
          /\ dev'[e].acts \cup {"FREE"} = dev[e].acts \cup {"FREE"}
  <2>1. CASE UNCHANGED dev
    BY <2>1
  <2>2. CASE CloseObject(d)
    <3>1. dev[d].opens # 0
      BY <1>2, <1>4, OpenMeans DEF TypeOK
    <3>2. PICK s \in ObjectType :
              /\ dev' = [dev EXCEPT ![d] = s]
              /\ s.life = dev[d].life /\ s.gone = dev[d].gone
              /\ s.acts \subseteq dev[d].acts \cup {"FREE"} /\ dev[d].acts \subseteq s.acts
      BY <2>2, <3>1, CloseIs
    <3>3. \A e \in Devices : dev'[e] = IF e = d THEN s ELSE dev[e]
      BY <3>2 DEF TypeOK
    <3> QED BY <3>2, <3>3
  <2> QED BY <1>2, <2>1, <2>2 DEF RecordOpened, Closed
<1>7. Alike
  BY <1>3, <1>4, <1>5, <1>6 DEF Alike, Registered
<1> QED BY <1>1, <1>7, AlikeKeeps

\* A device is plugged in: no message about the last one that was is still unread.
LEMMA ToldPlug ==
    ASSUME ToldInv, NEW d \in Devices, Plug(d)
    PROVE  ToldInv'
<1> USE EnvTyped, NamesDiffer DEF ToldInv, SafeInv
<1>1. SafeInv'
  BY SafePlug
<1>2. /\ UNCHANGED <<clients, cli, mux, dmn, dev, owed, env>> /\ ~Unread(d)
      /\ Clients' = Clients /\ Devices' = Devices
      /\ \A e \in Devices : e # d => plug'[e] = plug[e]
  BY EnvStays DEF Plug, TypeOK
<1>3. /\ EverybodyIsTold' /\ OwedAreConcerned' /\ OwedAreAhead' /\ NobodyIsOpening'
      /\ LeftIsInjective' /\ CurrentIsTaken'
  BY <1>2 DEF EverybodyIsTold, OwedAreConcerned, OwedAreAhead, NobodyIsOpening, Recorded,
              LeftIsInjective, CurrentIsTaken, Registered, Holds, StillTold, InJobs, Message_
<1>4. \A c \in Clients : \A i \in DOMAIN cli[c].queue : cli[c].queue[i].dev # d
  <2> SUFFICES ASSUME NEW c \in Clients, NEW i \in DOMAIN cli[c].queue
               PROVE  cli[c].queue[i].dev # d
    OBVIOUS
  <2>1. cli[c].queue \in Seq(Message) /\ Len(cli[c].queue) <= QueueLen
    BY DEF TypeOK, ClientType
  <2>2. i \in 1..QueueLen
    BY <2>1, LenProperties, QueueLenIsPos
  <2> QED BY <1>2, <2>2 DEF Unread
<1>5. MessagesAreOnce'
  <2>1. \A c \in Clients, e \in Devices :
           e # d => (NewAhead(c, e)' <=> NewAhead(c, e)) /\ (GoneAhead(c, e)' <=> GoneAhead(c, e))
    BY <1>2 DEF NewAhead, GoneAhead, StillTold, InJobs, Holds
  <2> QED BY <1>2, <1>4, <2>1 DEF MessagesAreOnce
<1>20. NewIsReady'
  BY <1>2 DEF NewIsReady, InJobs
<1> QED BY <1>20, <1>1, <1>3, <1>5

\* The hub driver has a device enumerated.
LEMMA ToldHubNew ==
    ASSUME ToldInv, NEW d \in Devices, HubNew(d)
    PROVE  ToldInv'
<1> DEFINE r == [NoObject EXCEPT !.life = "enum", !.opens = 1]
<1> USE EnvTyped, NamesDiffer DEF ToldInv, SafeInv
<1>1. SafeInv'
  BY SafeHubNew
<1>2. /\ UNCHANGED <<clients, cli, mux, dmn, owed, env>>
      /\ Clients' = Clients /\ Devices' = Devices /\ dmn.at # "dev"
      /\ plug[d] = "new"
      /\ \A e \in Devices : plug'[e] = IF e = d THEN "known" ELSE plug[e]
  BY EnvStays DEF HubNew, In, TypeOK
<1>3. r.life = "enum" /\ ~r.gone /\ r.acts = {}
  BY NoObjectTyped DEF NoObject
<1>4. \A e \in Devices : dev'[e] = IF e = d THEN r ELSE dev[e]
  BY DEF HubNew, TypeOK
<1> HIDE DEF r
<1>5. EverybodyIsTold' /\ OwedAreConcerned'
  BY <1>2, <1>3, <1>4 DEF EverybodyIsTold, OwedAreConcerned, Registered, Holds
<1>6. OwedAreAhead' /\ NobodyIsOpening' /\ LeftIsInjective' /\ CurrentIsTaken'
  BY <1>2 DEF OwedAreAhead, NobodyIsOpening, Recorded, LeftIsInjective, CurrentIsTaken
<1>7. MessagesAreOnce'
  <2>1. \A c \in Clients, e \in Devices :
           (NewAhead(c, e)' => NewAhead(c, e)) /\ (GoneAhead(c, e)' => GoneAhead(c, e))
    BY <1>2, <1>3, <1>4 DEF NewAhead, GoneAhead, StillTold, InJobs, Holds
  <2> QED BY <1>2, <2>1 DEF MessagesAreOnce
<1>20. NewIsReady'
  BY <1>2, <1>3, <1>4 DEF NewIsReady, InJobs, WorkIsOrdered
<1> QED BY <1>20, <1>1, <1>5, <1>6, <1>7

\* A device is removed: who is to be told of that is who uses it or subscribed.
LEMMA ToldRemove ==
    ASSUME ToldInv, NEW d \in Devices, dmn.at # "dev", ~dev[d].gone, dev[d].life # "none",
           UNCHANGED <<clients, cli, mux, dmn, env>>, plug' = [plug EXCEPT ![d] = "out"],
           NEW r \in ObjectType, ~r.gone, r.life # "none", r.acts = dev[d].acts,
           r.life = dev[d].life \/ r.life = "ready", "FREE" \in r.acts => r.opens = 0,
           Remove(d, r), SafeInv'
    PROVE  ToldInv'
<1> USE EnvTyped, NamesDiffer DEF ToldInv, SafeInv
<1>1. /\ UNCHANGED <<clients, cli, mux, dmn, env>> /\ d \in Device
      /\ Clients' = Clients /\ Devices' = Devices
  BY EnvStays DEF TypeOK
<1>2. PICK s \in ObjectType :
          /\ dev' = [dev EXCEPT ![d] = s] /\ s.gone /\ s.life = r.life
          /\ "NEW" \in s.acts => "NEW" \in r.acts
          /\ s.acts \cap {"GONE", "REMOVED"} # {}
  <2>1. dev[d].gone = FALSE /\ r.gone = FALSE
    BY DEF ObjectType, TypeOK
  <2>2. \E s \in ObjectType :
              /\ dev' = [dev EXCEPT ![d] = s]
              /\ s.gone /\ s.life = r.life /\ s.opens = r.opens /\ s.waiting = r.waiting
              /\ "FREE" \in s.acts => s.opens = 0
              /\ "REMOVED" \in s.acts => s.opens = 0 /\ "GONE" \notin s.acts
              /\ "NEW" \in s.acts => "NEW" \in r.acts
              /\ s.acts \cap {"GONE", "REMOVED"} # {}
              /\ lib' \in [pend : SUBSET {"USBH", "HUB", "ENUM"}, sem : BOOLEAN,
                           flags : SUBSET {"NO_CLIENTS", "ALL_FREE"}]
              /\ lib'.flags = lib.flags
    <3> USE DEF ToldInv
    <3> HIDE EnvTyped, NamesDiffer DEF SafeInv
    <3> QED BY <2>1, RemoveIs, ZenonT(60)
  <2> QED BY <2>2
<1>3. \A e \in Devices : /\ dev'[e] = IF e = d THEN s ELSE dev[e]
                         /\ plug'[e] = IF e = d THEN "out" ELSE plug[e]
                         /\ owed'[e] = IF e = d THEN Concerned(d) ELSE owed[e]
  <2>1. owed' = [owed EXCEPT ![d] = Concerned(d)]
    BY DEF Remove
  <2>2. Devices \subseteq Device /\ owed \in [Device -> SUBSET Client]
        /\ dev \in [Device -> ObjectType]
        /\ plug \in [Device -> {"out", "new", "known", "lost"}]
    BY DEF TypeOK
  <2> QED BY <1>2, <2>1, <2>2
<1>4. EverybodyIsTold'
  BY <1>1, <1>2, <1>3 DEF EverybodyIsTold
<1>5. OwedAreConcerned'
  <2> SUFFICES ASSUME NEW e \in Devices, NEW c \in Client, dev'[e].gone, c \in owed'[e]
               PROVE  Registered(c) /\ c \in Clients /\ (c \in env.notify \/ Holds(c, e))
    BY <1>1 DEF OwedAreConcerned, Registered, Holds
  <2>1. CASE e = d
    BY <1>3, <2>1 DEF Concerned
  <2>2. CASE e # d
    BY <1>3, <2>2 DEF OwedAreConcerned
  <2> QED BY <2>1, <2>2
<1>6. OwedAreAhead' /\ NobodyIsOpening' /\ LeftIsInjective' /\ CurrentIsTaken'
  BY <1>1 DEF OwedAreAhead, NobodyIsOpening, Recorded, LeftIsInjective, CurrentIsTaken
<1>7. MessagesAreOnce'
  <2>1. \A c \in Clients, e \in Devices :
           (NewAhead(c, e)' => NewAhead(c, e)) /\ (GoneAhead(c, e)' => GoneAhead(c, e))
    BY <1>1, <1>2, <1>3 DEF NewAhead, GoneAhead, StillTold, InJobs, Holds
  <2> QED BY <1>1, <2>1 DEF MessagesAreOnce
<1>20. NewIsReady'
  BY <1>1, <1>2, <1>3 DEF NewIsReady, InJobs, WorkIsOrdered
<1> QED BY <1>20, <1>4, <1>5, <1>6, <1>7

\* A device is lost: it is removed, unless its connection was not yet known.
LEMMA ToldHubLost ==
    ASSUME ToldInv, NEW d \in Devices, HubLost(d)
    PROVE  ToldInv'
<1> USE EnvTyped, NamesDiffer DEF ToldInv, SafeInv
<1>1. SafeInv'
  BY SafeHubLost
<1>2. /\ UNCHANGED <<clients, cli, mux, dmn, env>> /\ dmn.at # "dev"
      /\ plug[d] = "lost" /\ plug' = [plug EXCEPT ![d] = "out"]
      /\ Clients' = Clients /\ Devices' = Devices
  BY EnvStays DEF HubLost, In
<1>3. /\ ~dev[d].gone /\ dev[d] \in ObjectType
      /\ "FREE" \in dev[d].acts => dev[d].opens = 0
  BY <1>2 DEF ObjectsMatchPlugs, FreeIsFinal, FreeAsked, TypeOK
<1>4. CASE UNCHANGED <<dev, lib, owed>>
  <2>1. Alike
    BY <1>2, <1>4 DEF Alike, Holds, Registered, TypeOK
  <2> QED BY <1>1, <2>1, AlikeKeeps
<1>5. CASE dev[d].life # "none" /\ Remove(d, dev[d])
  BY <1>1, <1>2, <1>3, <1>5, ToldRemove
<1>6. CASE /\ dev[d].life \in {"enum", "enumerated"}
           /\ Remove(d, [dev[d] EXCEPT !.life = "ready", !.opens = 0])
  <2> DEFINE r == [dev[d] EXCEPT !.life = "ready", !.opens = 0]
  <2>1. /\ r \in ObjectType /\ ~r.gone /\ r.life = "ready" /\ r.acts = dev[d].acts
        /\ r.opens = 0 /\ Remove(d, r)
    BY <1>3, <1>6, FewOpens DEF ObjectType
  <2> HIDE DEF r
  <2> QED BY <1>1, <1>2, <1>3, <1>6, <2>1, ToldRemove
<1> QED BY <1>4, <1>5, <1>6 DEF HubLost

\* An enumeration ends.
LEMMA ToldEnumEnds ==
    ASSUME ToldInv, NEW d \in Devices, EnumEnds(d)
    PROVE  ToldInv'
<1> DEFINE r == [dev[d] EXCEPT !.life = "ready", !.opens = 0]
           A == (IF dev[d].gone \/ dev[d].waiting THEN {"FREE"} ELSE {})
                    \cup IF dev[d].gone THEN {} ELSE {"NEW"}
           s == [r EXCEPT !.acts = @ \cup A]
<1> USE EnvTyped, NamesDiffer DEF ToldInv, SafeInv
<1>1. SafeInv'
  BY SafeEnumEnds
<1>2. /\ UNCHANGED <<clients, cli, mux, dmn, plug, owed, env>> /\ dmn.at # "dev"
      /\ Clients' = Clients /\ Devices' = Devices /\ dev[d].life = "enumerated"
  BY EnvStays DEF EnumEnds, In
<1>3. dev[d] \in ObjectType
  BY DEF TypeOK
<1>4. /\ s.life = "ready" /\ s.gone = dev[d].gone
      /\ s.acts \cap {"GONE", "REMOVED"} = dev[d].acts \cap {"GONE", "REMOVED"}
  BY <1>3 DEF ObjectType
<1>5. \A e \in Devices : dev'[e] = IF e = d THEN s ELSE dev[e]
  BY DEF EnumEnds, SetActs, TypeOK
<1> HIDE DEF s
<1>6. EverybodyIsTold' /\ OwedAreConcerned'
  BY <1>2, <1>4, <1>5 DEF EverybodyIsTold, OwedAreConcerned, Registered, Holds
<1>7. OwedAreAhead' /\ NobodyIsOpening' /\ LeftIsInjective' /\ CurrentIsTaken'
  BY <1>2 DEF OwedAreAhead, NobodyIsOpening, Recorded, LeftIsInjective, CurrentIsTaken
<1>8. MessagesAreOnce'
  <2>1. \A c \in Clients, e \in Devices :
           (NewAhead(c, e)' => NewAhead(c, e)) /\ (GoneAhead(c, e)' => GoneAhead(c, e))
    BY <1>2, <1>4, <1>5 DEF NewAhead, GoneAhead, StillTold, InJobs, Holds
  <2> QED BY <1>2, <2>1 DEF MessagesAreOnce
<1>20. NewIsReady'
  BY <1>2, <1>4, <1>5 DEF NewIsReady, InJobs, WorkIsOrdered
<1> QED BY <1>20, <1>1, <1>6, <1>7, <1>8

\* usbh_process() takes a device, and its actions with it.
LEMMA ToldProcessDevice ==
    ASSUME ToldInv, NEW d \in Devices, ProcessDevice(d)
    PROVE  ToldInv'
<1> USE EnvTyped, NamesDiffer DEF ToldInv, SafeInv
<1>1. SafeInv'
  BY SafeProcessDevice
<1>2. /\ UNCHANGED <<clients, cli, lib, mux, plug, owed, env>> /\ dmn.at = "round"
      /\ dmn.cur = NoDev /\ d # NoDev /\ mux # Daemon /\ dmn.left = <<>>
      /\ Clients' = Clients /\ Devices' = Devices
  BY EnvStays DEF ProcessDevice, In, WorkIsOrdered, LockIsHeld, TypeOK
<1>3. /\ dmn'.at = "dev" /\ dmn'.cur = d /\ dmn'.jobs = JobsOf(dev[d].acts)
      /\ dmn'.left = dmn.left
  BY DEF ProcessDevice, TypeOK, DaemonType
<1>4. \A e \in Devices : /\ dev'[e].acts = IF e = d THEN {} ELSE dev[e].acts
                         /\ dev'[e].gone = dev[e].gone /\ dev'[e].life = dev[e].life
  BY DEF ProcessDevice, TypeOK, ObjectType
<1>5. /\ (\E i \in DOMAIN dmn'.jobs : dmn'.jobs[i] = "NEW_DEV") => "NEW" \in dev[d].acts
      /\ (\E i \in DOMAIN dmn'.jobs : dmn'.jobs[i] = "DEV_GONE") <=> "GONE" \in dev[d].acts
      /\ (\E i \in DOMAIN dmn'.jobs : dmn'.jobs[i] = "DEV_REMOVED")
            <=> dev[d].acts \cap {"GONE", "REMOVED"} # {}
      /\ dev[d].acts \cap {"GONE", "REMOVED"} # {} =>
            dmn'.jobs # <<>> /\ Head(dmn'.jobs) = "DEV_REMOVED"
  <2>1. /\ dev[d].acts \in SUBSET {"GONE", "REMOVED", "FREE", "NEW"}
        /\ "REMOVED" \in dev[d].acts => "GONE" \notin dev[d].acts
    BY DEF TypeOK, ObjectType, ReportsAreOfGone
  <2> QED BY <1>3, <2>1, JobsAreOrdered
<1>6. \A c, j : StillTold(c, j)' <=> InJobs(j)'
  BY <1>2 DEF StillTold
<1>7. EverybodyIsTold'
  <2>1. \A e \in Devices : e # NoDev
    BY DEF TypeOK
  <2> QED BY <1>2, <1>3, <1>4, <2>1 DEF EverybodyIsTold
<1>8. OwedAreConcerned'
  BY <1>2, <1>4 DEF OwedAreConcerned, Registered, Holds
<1>9. OwedAreAhead'
  <2> SUFFICES ASSUME NEW c \in Client, dev[d].gone, c \in owed[d]
               PROVE  IF Holds(c, d) THEN InJobs("DEV_GONE")'
                      ELSE (Message_("DEV_REMOVED") /\ InJobs("DEV_REMOVED"))'
    BY <1>2, <1>3, <1>4, <1>6 DEF OwedAreAhead, Holds
  <2>1. dev[d].acts \cap {"GONE", "REMOVED"} # {}
    BY <1>2 DEF EverybodyIsTold
  <2>2. Message_("DEV_REMOVED")' /\ InJobs("DEV_REMOVED")'
    BY <1>5, <2>1 DEF Message_, InJobs
  <2>3. ASSUME Holds(c, d) PROVE InJobs("DEV_GONE")'
    <3>1. c \in Clients
      BY DEF OwedAreConcerned
    <3>2. dev[d].opens # 0
      BY <2>3, <3>1, OpenMeans DEF Holds, TypeOK
    <3>3. "GONE" \in dev[d].acts
      BY <2>1, <3>2 DEF ReportsAreOfGone
    <3> QED BY <1>5, <3>3 DEF InJobs
  <2> QED BY <2>2, <2>3
<1>10. NobodyIsOpening' /\ LeftIsInjective'
  BY <1>2, <1>3 DEF NobodyIsOpening, LeftIsInjective
<1>11. CurrentIsTaken'
  BY <1>2, <1>3, <1>4 DEF CurrentIsTaken
<1>12. MessagesAreOnce'
  <2>1. \A c \in Clients, e \in Devices : NewAhead(c, e)' => NewAhead(c, e)
    BY <1>2, <1>3, <1>4, <1>5, <1>6 DEF NewAhead, InJobs
  <2>2. \A c \in Clients, e \in Devices : GoneAhead(c, e)' => GoneAhead(c, e)
    BY <1>2, <1>3, <1>4, <1>5, <1>6 DEF GoneAhead, InJobs
  <2> QED BY <1>2, <2>1, <2>2 DEF MessagesAreOnce
<1>20. NewIsReady'
  BY <1>2, <1>3, <1>4, <1>5 DEF NewIsReady, InJobs
<1> QED BY <1>20, <1>1, <1>7, <1>8, <1>9, <1>10, <1>11, <1>12

\* A report begins.
LEMMA ToldStartTelling ==
    ASSUME ToldInv, StartTelling, Quiet
    PROVE  ToldInv'
<1> USE EnvTyped, NamesDiffer DEF ToldInv, SafeInv
<1>1. SafeInv'
  BY SafeStartTelling
<1>2. /\ UNCHANGED <<clients, cli, lib, dev, plug, owed, env>> /\ mux # Daemon /\ mux' = Daemon
      /\ dmn.at = "dev" /\ Recorded
      /\ Clients' = Clients /\ Devices' = Devices
  BY EnvStays DEF StartTelling, Job, Quiet, Uses, TypeOK, Free, Daemon
<1>3. /\ dmn'.at = dmn.at /\ dmn'.cur = dmn.cur /\ dmn'.jobs = dmn.jobs /\ dmn'.left = clients
  BY DEF StartTelling, TypeOK, DaemonType
<1>4. \A c, j : StillTold(c, j)' <=> InJobs(j) /\ (Head(dmn.jobs) = j => Registered(c))
  BY <1>2, <1>3 DEF StillTold, InJobs, Registered
<1>5. \A c, j : StillTold(c, j) <=> InJobs(j)
  BY <1>2 DEF StillTold
<1>6. EverybodyIsTold' /\ OwedAreConcerned' /\ CurrentIsTaken'
  BY <1>2, <1>3 DEF EverybodyIsTold, OwedAreConcerned, Registered, Holds, CurrentIsTaken
<1>7. OwedAreAhead'
  <2> SUFFICES ASSUME NEW c \in Client, dev[dmn.cur].gone, c \in owed[dmn.cur]
               PROVE  IF Holds(c, dmn.cur) THEN StillTold(c, "DEV_GONE")'
                      ELSE Message_("DEV_REMOVED") /\ StillTold(c, "DEV_REMOVED")'
    BY <1>2, <1>3 DEF OwedAreAhead, Holds, Message_
  <2>1. Registered(c)
    BY <1>2 DEF OwedAreConcerned, WorkIsOrdered
  <2>2. IF Holds(c, dmn.cur) THEN StillTold(c, "DEV_GONE")
        ELSE Message_("DEV_REMOVED") /\ StillTold(c, "DEV_REMOVED")
    BY <1>2 DEF OwedAreAhead
  <2> QED BY <1>4, <1>5, <2>1, <2>2
<1>8. NobodyIsOpening'
  BY <1>2, <1>3 DEF NobodyIsOpening, Recorded
<1>9. LeftIsInjective'
  BY <1>3 DEF LeftIsInjective, ListIsInjective
<1>10. MessagesAreOnce'
  <2>1. \A c \in Clients, e \in Devices :
           (NewAhead(c, e)' => NewAhead(c, e)) /\ (GoneAhead(c, e)' => GoneAhead(c, e))
    BY <1>2, <1>3, <1>4, <1>5 DEF NewAhead, GoneAhead, Holds
  <2> QED BY <1>2, <2>1 DEF MessagesAreOnce
<1>20. NewIsReady'
  BY <1>2, <1>3 DEF NewIsReady, InJobs
<1> QED BY <1>20, <1>1, <1>6, <1>7, <1>8, <1>9, <1>10

\* The daemon is done with a device.
LEMMA ToldDeviceDone ==
    ASSUME ToldInv, DeviceDone
    PROVE  ToldInv'
<1> USE EnvTyped, NamesDiffer DEF ToldInv, SafeInv
<1>1. SafeInv'
  BY SafeDeviceDone
<1>2. /\ UNCHANGED <<clients, cli, lib, mux, dev, plug, owed, env>>
      /\ dmn.at = "dev" /\ dmn.jobs = <<>> /\ dmn.cur \in Devices /\ mux # Daemon
      /\ Clients' = Clients /\ Devices' = Devices
  BY EnvStays DEF DeviceDone, WorkIsOrdered, LockIsHeld, TypeOK
<1>3. dmn'.at = "round" /\ dmn'.cur = NoDev /\ dmn'.jobs = dmn.jobs /\ dmn'.left = dmn.left
  BY DEF DeviceDone, TypeOK, DaemonType
<1>4. \A j : ~InJobs(j)
  BY <1>2, EmptySeq DEF InJobs
<1>5. EverybodyIsTold'
  <2>1. owed[dmn.cur] = {} \/ ~dev[dmn.cur].gone
    <3> SUFFICES ASSUME NEW c \in owed[dmn.cur], dev[dmn.cur].gone
                 PROVE  FALSE
      OBVIOUS
    <3>1. c \in Client
      BY <1>2 DEF TypeOK
    <3> QED BY <1>2, <1>4, <3>1 DEF OwedAreAhead, StillTold
  <2> QED BY <1>2, <2>1 DEF EverybodyIsTold
<1>6. OwedAreConcerned'
  BY <1>2 DEF OwedAreConcerned, Registered, Holds
<1>7. OwedAreAhead' /\ NobodyIsOpening' /\ LeftIsInjective' /\ CurrentIsTaken'
  BY <1>2, <1>3 DEF OwedAreAhead, NobodyIsOpening, LeftIsInjective, CurrentIsTaken
<1>8. MessagesAreOnce'
  <2>1. \A e \in Devices : e # NoDev
    BY DEF TypeOK
  <2>2. \A c \in Clients, e \in Devices :
           (NewAhead(c, e)' => NewAhead(c, e)) /\ (GoneAhead(c, e)' => GoneAhead(c, e))
    BY <1>2, <1>3, <2>1 DEF NewAhead, GoneAhead
  <2> QED BY <1>2, <2>2 DEF MessagesAreOnce
<1>20. NewIsReady'
  BY <1>2, <1>3, <1>4 DEF NewIsReady, InJobs
<1> QED BY <1>20, <1>1, <1>5, <1>6, <1>7, <1>8

\* A report ends: all it was for have heard.
LEMMA ToldStopTelling ==
    ASSUME ToldInv, StopTelling
    PROVE  ToldInv'
<1> USE EnvTyped, NamesDiffer DEF ToldInv, SafeInv
<1>1. SafeInv'
  BY SafeStopTelling
<1>2. /\ UNCHANGED <<clients, cli, lib, dev, plug, owed, env>>
      /\ dmn.at = "dev" /\ dmn.jobs # <<>> /\ dmn.left = <<>> /\ mux = Daemon /\ mux' # Daemon
      /\ Clients' = Clients /\ Devices' = Devices /\ dmn.cur \in Devices
  BY EnvStays DEF StopTelling, Telling, WorkIsOrdered, LockIsHeld, TypeOK, Free, Daemon
<1>3. dmn'.at = "dev" /\ dmn'.cur = dmn.cur /\ dmn'.jobs = Tail(dmn.jobs) /\ dmn'.left = dmn.left
  BY <1>2 DEF StopTelling, TypeOK, DaemonType
<1>4. \A c, j : StillTold(c, j)' <=> InJobs(j)'
  BY <1>2 DEF StillTold
<1>5. \A j : InJobs(j)' <=> InJobs(j) /\ j # Head(dmn.jobs)
  <2>1. /\ \A i \in DOMAIN Tail(dmn.jobs) :
              InJobs(Tail(dmn.jobs)[i]) /\ Tail(dmn.jobs)[i] # Head(dmn.jobs)
        /\ \A j : InJobs(j) /\ j # Head(dmn.jobs) =>
              \E i \in DOMAIN Tail(dmn.jobs) : Tail(dmn.jobs)[i] = j
    BY <1>2, NextJob
  <2> QED BY <1>3, <2>1 DEF InJobs
<1>6. \A c, j : StillTold(c, j) <=> InJobs(j) /\ Head(dmn.jobs) # j
  BY <1>2, EmptySeq DEF StillTold
<1>7. EverybodyIsTold' /\ OwedAreConcerned' /\ CurrentIsTaken'
  BY <1>2, <1>3 DEF EverybodyIsTold, OwedAreConcerned, Registered, Holds, CurrentIsTaken
<1>8. OwedAreAhead'
  <2> SUFFICES ASSUME NEW c \in Client, dev[dmn.cur].gone, c \in owed[dmn.cur]
               PROVE  Holds(c, dmn.cur) /\ StillTold(c, "DEV_GONE")'
    BY <1>2, <1>3 DEF OwedAreAhead, Holds
  <2>1. IF Holds(c, dmn.cur) THEN StillTold(c, "DEV_GONE")
        ELSE Message_("DEV_REMOVED") /\ StillTold(c, "DEV_REMOVED")
    BY <1>2 DEF OwedAreAhead
  <2> QED BY <1>4, <1>5, <1>6, <2>1 DEF Message_
<1>9. NobodyIsOpening' /\ LeftIsInjective'
  BY <1>2, <1>3 DEF NobodyIsOpening, LeftIsInjective
<1>10. MessagesAreOnce'
  <2>1. \A c \in Clients, e \in Devices :
           (NewAhead(c, e)' => NewAhead(c, e)) /\ (GoneAhead(c, e)' => GoneAhead(c, e))
    BY <1>2, <1>3, <1>4, <1>5, <1>6 DEF NewAhead, GoneAhead, Holds
  <2> QED BY <1>2, <2>1 DEF MessagesAreOnce
<1>20. NewIsReady'
  BY <1>2, <1>3, <1>5 DEF NewIsReady
<1> QED BY <1>20, <1>1, <1>7, <1>8, <1>9, <1>10

\* A device is freed: nobody has it open, and whoever had to hear of it has.
LEMMA ToldHandleFree ==
    ASSUME ToldInv, HandleFree
    PROVE  ToldInv'
<1> USE EnvTyped, NamesDiffer DEF ToldInv, SafeInv
<1>1. SafeInv'
  BY SafeHandleFree
<1>2. PICK d \in Devices : d = dmn.cur
  BY DEF HandleFree, Job, WorkIsOrdered
<1>3. /\ UNCHANGED <<clients, cli, mux, plug, owed, env>>
      /\ dmn.at = "dev" /\ dmn.jobs # <<>> /\ Head(dmn.jobs) = "FREE" /\ mux # Daemon
      /\ Clients' = Clients /\ Devices' = Devices
  BY EnvStays DEF HandleFree, Job, LockIsHeld
<1>4. dmn'.at = "dev" /\ dmn'.cur = d /\ dmn'.jobs = <<>> /\ dmn'.left = dmn.left
  <2>1. Tail(dmn.jobs) = <<>>
    BY <1>3, NextJob
  <2> QED BY <1>2, <1>3, <2>1 DEF HandleFree, TypeOK, DaemonType
<1>5. \A e \in Devices : dev'[e] = IF e = d THEN NoObject ELSE dev[e]
  BY <1>2 DEF HandleFree, TypeOK
<1>6. NoObject.life = "none" /\ NoObject.acts = {} /\ ~NoObject.gone
  BY NoObjectTyped
<1>7. \A j : ~InJobs(j)'
  BY <1>4, EmptySeq DEF InJobs
<1>8. EverybodyIsTold' /\ OwedAreConcerned' /\ OwedAreAhead' /\ CurrentIsTaken'
  BY <1>2, <1>3, <1>4, <1>5, <1>6
     DEF EverybodyIsTold, OwedAreConcerned, Registered, Holds, OwedAreAhead, CurrentIsTaken
<1>9. NobodyIsOpening' /\ LeftIsInjective'
  BY <1>3, <1>4 DEF NobodyIsOpening, LeftIsInjective
<1>10. MessagesAreOnce'
  <2>1. \A c \in Clients, e \in Devices :
           (NewAhead(c, e)' => NewAhead(c, e)) /\ (GoneAhead(c, e)' => GoneAhead(c, e))
    BY <1>2, <1>3, <1>4, <1>5, <1>6, <1>7 DEF NewAhead, GoneAhead, StillTold
  <2> QED BY <1>3, <2>1 DEF MessagesAreOnce
<1>20. NewIsReady'
  BY <1>2, <1>3, <1>4, <1>5, <1>6, <1>7 DEF NewIsReady
<1> QED BY <1>20, <1>1, <1>8, <1>9, <1>10

\* A client takes a message from its queue.
LEMMA ToldHandleMessage ==
    ASSUME ToldInv, NEW c \in Clients, HandleMessage(c)
    PROVE  ToldInv'
<1> DEFINE q == cli[c].queue
<1> USE EnvTyped, NamesDiffer DEF ToldInv, SafeInv
<1>1. SafeInv'
  BY SafeHandler DEF Handler
<1>2. /\ UNCHANGED <<clients, lib, mux, dmn, dev, plug, owed, env>> /\ c \in Client
      /\ Clients' = Clients /\ Devices' = Devices
      /\ q \in Seq(Message) /\ q # <<>>
  BY EnvStays DEF HandleMessage, TypeOK, ClientType
<1>3. \A b \in Clients : /\ cli'[b].opened = cli[b].opened /\ cli'[b].op = cli[b].op
                         /\ cli'[b].arg = cli[b].arg
                         /\ cli'[b].queue = IF b = c THEN Tail(q) ELSE cli[b].queue
  <2>1. PICK T \in SUBSET Device :
            cli' = [cli EXCEPT ![c] = [cli[c] EXCEPT !.queue = Tail(q), !.told = T]]
    <3>1. Head(q) \in Message
      BY <1>2, HeadTailProperties
    <3>2. cli[c].told \in SUBSET Device /\ Head(q).dev \in Device
      BY <1>2, <3>1 DEF TypeOK, ClientType, Message
    <3> QED BY <3>2, <1>2, ZenonT(60) DEF HandleMessage, TypeOK
  <2> QED BY <1>2, <2>1 DEF TypeOK, ClientType
<1>4. \A b \in Client, e \in Device : Holds(b, e)' <=> Holds(b, e)
  <2>1. \A b \in Client : b \in Clients \/ cli'[b] = cli[b]
    BY <1>2 DEF HandleMessage, TypeOK
  <2> QED BY <1>3, <2>1 DEF Holds
<1>5. /\ EverybodyIsTold' /\ OwedAreConcerned' /\ OwedAreAhead' /\ NobodyIsOpening'
      /\ LeftIsInjective' /\ CurrentIsTaken'
  <2>1. Clients \subseteq Client /\ Devices \subseteq Device
    BY DEF TypeOK
  <2>2. dmn.at = "dev" => dmn.cur \in Devices
    BY DEF WorkIsOrdered
  <2> QED BY <2>1, <2>2, <1>2, <1>3, <1>4 DEF EverybodyIsTold, OwedAreConcerned, OwedAreAhead, NobodyIsOpening,
       Recorded, LeftIsInjective, CurrentIsTaken, Registered, StillTold, InJobs, Message_
<1>6. \A i \in DOMAIN Tail(q) : i + 1 \in DOMAIN q /\ Tail(q)[i] = q[i + 1] /\ i \in Nat
  BY <1>2, HeadTailProperties, LenProperties
<1>7. MessagesAreOnce'
  <2>1. \A b \in Clients, e \in Devices :
           (NewAhead(b, e)' <=> NewAhead(b, e)) /\ (GoneAhead(b, e)' <=> GoneAhead(b, e))
    <3>1. Clients \subseteq Client /\ Devices \subseteq Device
      BY DEF TypeOK
    <3> QED BY <1>2, <1>4, <3>1 DEF NewAhead, GoneAhead, StillTold, InJobs
  <2> HIDE DEF q
  <2>2. /\ \A i, j \in DOMAIN q : q[i].dev = q[j].dev /\ IsNew(q[i]) = IsNew(q[j]) => i = j
        /\ \A i \in DOMAIN q :
              /\ q[i].dev \in Devices
              /\ IF IsNew(q[i]) THEN ~NewAhead(c, q[i].dev) ELSE ~GoneAhead(c, q[i].dev)
    BY DEF MessagesAreOnce, q
  <2>3. /\ \A i, j \in DOMAIN Tail(q) : Tail(q)[i].dev = Tail(q)[j].dev
                /\ IsNew(Tail(q)[i]) = IsNew(Tail(q)[j]) => i = j
        /\ \A i \in DOMAIN Tail(q) :
              /\ Tail(q)[i].dev \in Devices
              /\ IF IsNew(Tail(q)[i]) THEN ~NewAhead(c, Tail(q)[i].dev)
                 ELSE ~GoneAhead(c, Tail(q)[i].dev)
    BY <1>6, <2>2
  <2> DEFINE Good(b, s) ==
                /\ \A i, j \in DOMAIN s : s[i].dev = s[j].dev /\ IsNew(s[i]) = IsNew(s[j]) => i = j
                /\ \A i \in DOMAIN s :
                      /\ s[i].dev \in Devices
                      /\ IF IsNew(s[i]) THEN ~NewAhead(b, s[i].dev) ELSE ~GoneAhead(b, s[i].dev)
  <2>4. \A b \in Clients : Good(b, cli[b].queue)
    BY DEF MessagesAreOnce
  <2>5. Good(c, Tail(q))
    BY <2>3
  <2>6. \A b \in Clients : Good(b, cli'[b].queue)
    <3> HIDE DEF Good
    <3> QED BY <1>3, <2>4, <2>5
  <2>7. MessagesAreOnce'
    BY <1>2, <2>1, <2>6 DEF MessagesAreOnce, IsNew
  <2> QED BY <2>7
<1>20. NewIsReady'
  BY <1>2 DEF NewIsReady, InJobs
<1> QED BY <1>20, <1>1, <1>5, <1>7

\* A device is opened, which nobody reports as gone.
LEMMA ToldOpen ==
    ASSUME ToldInv, NEW c \in Clients, NEW d \in Devices, Open(c, d)
    PROVE  ToldInv'
<1> USE EnvTyped, NamesDiffer DEF ToldInv, SafeInv
<1>1. SafeInv'
  BY SafeOpen
<1>2. /\ UNCHANGED <<clients, lib, mux, dmn, plug, owed, env>> /\ c \in Client /\ d \in Device
      /\ Clients' = Clients /\ Devices' = Devices
      /\ dev[d].life = "ready" /\ ~dev[d].gone /\ cli[c].op = "idle"
  BY EnvStays DEF Open, TypeOK
<1>3. \A e \in Devices : /\ dev'[e].gone = dev[e].gone /\ dev'[e].acts = dev[e].acts
                         /\ dev'[e].life = dev[e].life
  BY <1>2 DEF Open, TypeOK, ObjectType
<1>4. \A b \in Clients : /\ cli'[b].opened = cli[b].opened /\ cli'[b].queue = cli[b].queue
                         /\ b # c => cli'[b].op = cli[b].op /\ cli'[b].arg = cli[b].arg
                         /\ b = c => cli'[b].op = "opened" /\ cli'[b].arg = d
  <2>1. cli' = [cli EXCEPT ![c] = [cli[c] EXCEPT !.op = "opened", !.arg = d]]
    BY <1>2 DEF Open, TypeOK
  <2> QED BY <1>2, <2>1 DEF TypeOK, ClientType
<1>5. \A b \in Clients, e \in Devices :
          /\ e # d => (Holds(b, e)' <=> Holds(b, e))
          /\ Holds(b, e) => Holds(b, e)'
  <2> TAKE b \in Clients, e \in Devices
  <2>1. CASE b = c
    BY <2>1, <1>2, <1>4 DEF Holds
  <2>2. CASE b # c
    BY <2>2, <1>4 DEF Holds
  <2> QED BY <2>1, <2>2
<1>6. EverybodyIsTold' /\ CurrentIsTaken' /\ LeftIsInjective'
  BY <1>2, <1>3 DEF EverybodyIsTold, CurrentIsTaken, LeftIsInjective, SafeInv, WorkIsOrdered
<1>7. OwedAreConcerned'
  BY <1>2, <1>3, <1>5 DEF OwedAreConcerned, Registered
<1>8. OwedAreAhead'
  <2> SUFFICES ASSUME NEW b \in Client, dmn.at = "dev", dev'[dmn.cur].gone, b \in owed[dmn.cur]
               PROVE  (IF Holds(b, dmn.cur) THEN StillTold(b, "DEV_GONE")
                       ELSE Message_("DEV_REMOVED") /\ StillTold(b, "DEV_REMOVED"))'
    BY <1>2 DEF OwedAreAhead
  <2>1. PICK e \in Devices : e = dmn.cur
    BY DEF WorkIsOrdered
  <2>2. e # d /\ dev[e].gone /\ b \in Clients
    BY <1>2, <1>3, <2>1 DEF OwedAreConcerned
  <2>3. Holds(b, dmn.cur)' <=> Holds(b, dmn.cur)
    <3>1. Holds(b, e)' <=> Holds(b, e)
      BY <1>5, <2>2
    <3> QED BY <1>2, <2>1, <3>1 DEF Holds
  <2>4. /\ \A j : StillTold(b, j)' <=> StillTold(b, j)
        /\ Message_("DEV_REMOVED")' <=> Message_("DEV_REMOVED")
    BY <1>2 DEF StillTold, InJobs, Message_
  <2>5. IF Holds(b, dmn.cur) THEN StillTold(b, "DEV_GONE")
        ELSE Message_("DEV_REMOVED") /\ StillTold(b, "DEV_REMOVED")
    BY <2>1, <2>2 DEF OwedAreAhead
  <2> QED BY <2>3, <2>4, <2>5
<1>9. NobodyIsOpening'
  <2> SUFFICES ASSUME mux = Daemon, Head(dmn.jobs) # "NEW_DEV"
               PROVE  Recorded'
    BY <1>2 DEF NobodyIsOpening
  <2>1. dmn.at = "dev" /\ dmn.jobs # <<>> /\ Head(dmn.jobs) # "FREE"
    BY DEF LockIsHeld
  <2>2. InJobs("DEV_GONE") \/ InJobs("DEV_REMOVED")
    BY <2>1, NextJob DEF JobName
  <2>3. dmn.cur # d
    BY <1>2, <2>2 DEF ReportsAreOfGone
  <2> QED BY <1>2, <1>4, <2>3 DEF NobodyIsOpening, Recorded
<1>10. MessagesAreOnce'
  <2>1. \A b \in Clients, e \in Devices :
           (NewAhead(b, e)' => NewAhead(b, e)) /\ (GoneAhead(b, e)' => GoneAhead(b, e))
    <3> TAKE b \in Clients, e \in Devices
    <3>1. NewAhead(b, e)' => NewAhead(b, e)
      BY <1>2, <1>3 DEF NewAhead, StillTold, InJobs
    <3>2. CASE e = d
      BY <1>2, <3>1, <3>2 DEF GoneAhead
    <3>3. CASE e # d
      <4>1. Holds(b, e)' <=> Holds(b, e)
        BY <1>5, <3>3
      <4> QED BY <1>2, <1>3, <3>1, <4>1 DEF GoneAhead, StillTold, InJobs
    <3> QED BY <3>2, <3>3
  <2> QED BY <1>2, <1>4, <2>1 DEF MessagesAreOnce
<1>20. NewIsReady'
  BY <1>2, <1>3 DEF NewIsReady, InJobs
<1> QED BY <1>20, <1>1, <1>6, <1>7, <1>8, <1>9, <1>10

\* A device is closed, which the daemon does not report on.
LEMMA ToldClose ==
    ASSUME ToldInv, NEW c \in Clients, NEW d \in Devices, Close(c, d), Quiet
    PROVE  ToldInv'
<1> USE EnvTyped, NamesDiffer DEF ToldInv, SafeInv
<1>1. SafeInv'
  BY SafeClose
<1>2. /\ UNCHANGED <<clients, lib, dmn, dev, plug, env>> /\ c \in Client /\ d \in Device
      /\ Clients' = Clients /\ Devices' = Devices
      /\ dmn.cur # d /\ mux = Free /\ mux' = c /\ mux # Daemon /\ mux' # Daemon
      /\ cli[c].op = "idle"
  BY EnvStays DEF Close, Quiet, Uses, TypeOK, Free, Daemon
<1>3. \A b \in Clients :
          /\ cli'[b].queue = cli[b].queue
          /\ cli'[b].op = IF b = c THEN "closing" ELSE cli[b].op
          /\ cli'[b].opened = IF b = c THEN cli[b].opened \ {d} ELSE cli[b].opened
          /\ b # c => cli'[b].arg = cli[b].arg
  <2> DEFINE r == [cli[c] EXCEPT !.op = "closing", !.arg = d,
                                 !.opened = @ \ {d}, !.told = @ \ {d}]
  <2>1. cli' = [cli EXCEPT ![c] = r] /\ cli[c] \in ClientType
    BY <1>2 DEF Close, TypeOK
  <2>2. r.queue = cli[c].queue /\ r.op = "closing" /\ r.opened = cli[c].opened \ {d}
    BY <2>1 DEF ClientType
  <2> HIDE DEF r
  <2>3. \A b \in Clients : cli'[b] = IF b = c THEN r ELSE cli[b]
    BY <2>1 DEF TypeOK
  <2> QED BY <2>2, <2>3
<1>4. \A b \in Clients, e \in Devices :
          (e # d \/ b # c) => (Holds(b, e)' <=> Holds(b, e))
  <2> TAKE b \in Clients, e \in Devices
  <2>1. CASE b = c
    BY <2>1, <1>2, <1>3 DEF Holds
  <2>2. CASE b # c
    BY <2>2, <1>3 DEF Holds
  <2> QED BY <2>1, <2>2
<1>5. /\ \A e \in Devices : owed'[e] \subseteq owed[e]
      /\ c \in owed'[d] => c \in env.notify
  BY <1>2 DEF Close, TypeOK
<1>6. EverybodyIsTold' /\ CurrentIsTaken' /\ LeftIsInjective' /\ NobodyIsOpening'
  BY <1>2, <1>5 DEF EverybodyIsTold, CurrentIsTaken, LeftIsInjective, NobodyIsOpening
<1>7. OwedAreConcerned'
  <2> SUFFICES ASSUME NEW e \in Devices, NEW b \in Client, dev[e].gone, b \in owed'[e]
               PROVE  Registered(b) /\ b \in Clients /\ (b \in env.notify \/ Holds(b, e)')
    BY <1>2 DEF OwedAreConcerned, Registered
  <2>1. Registered(b) /\ b \in Clients /\ (b \in env.notify \/ Holds(b, e))
    BY <1>5 DEF OwedAreConcerned
  <2> QED BY <1>4, <1>5, <2>1
<1>8. OwedAreAhead'
  <2> SUFFICES ASSUME NEW b \in Client, dmn.at = "dev", dev[dmn.cur].gone, b \in owed'[dmn.cur]
               PROVE  (IF Holds(b, dmn.cur) THEN StillTold(b, "DEV_GONE")
                       ELSE Message_("DEV_REMOVED") /\ StillTold(b, "DEV_REMOVED"))'
    BY <1>2 DEF OwedAreAhead
  <2>1. PICK e \in Devices : e = dmn.cur
    BY DEF WorkIsOrdered
  <2>2. b \in owed[e] /\ b \in Clients
    BY <1>5, <2>1 DEF OwedAreConcerned
  <2>3. Holds(b, dmn.cur)' <=> Holds(b, dmn.cur)
    <3>1. Holds(b, e)' <=> Holds(b, e)
      BY <1>2, <1>4, <2>1, <2>2
    <3> QED BY <1>2, <2>1, <3>1 DEF Holds
  <2>4. /\ \A j : StillTold(b, j)' <=> StillTold(b, j)
        /\ Message_("DEV_REMOVED")' <=> Message_("DEV_REMOVED")
    BY <1>2 DEF StillTold, InJobs, Message_
  <2>5. IF Holds(b, dmn.cur) THEN StillTold(b, "DEV_GONE")
        ELSE Message_("DEV_REMOVED") /\ StillTold(b, "DEV_REMOVED")
    BY <2>1, <2>2 DEF OwedAreAhead
  <2> QED BY <2>3, <2>4, <2>5
<1>9. MessagesAreOnce'
  <2>1. \A b \in Clients, e \in Devices :
           (NewAhead(b, e)' => NewAhead(b, e)) /\ (GoneAhead(b, e)' => GoneAhead(b, e))
    <3> TAKE b \in Clients, e \in Devices
    <3>1. NewAhead(b, e)' => NewAhead(b, e)
      BY <1>2 DEF NewAhead, StillTold, InJobs
    <3>2. CASE e = d
      BY <1>2, <3>1, <3>2 DEF GoneAhead
    <3>3. CASE e # d
      <4>1. Holds(b, e)' <=> Holds(b, e)
        BY <1>4, <3>3
      <4> QED BY <1>2, <3>1, <4>1 DEF GoneAhead, StillTold, InJobs
    <3> QED BY <3>2, <3>3
  <2> QED BY <1>2, <1>3, <2>1, ZenonT(60) DEF MessagesAreOnce
<1>20. NewIsReady'
  BY <1>2 DEF NewIsReady, InJobs
<1> QED BY <1>20, <1>1, <1>6, <1>7, <1>8, <1>9

\* The queue of a client that may still be told of d has room for that message: the
\* others in it are about something else, each.
LEMMA RoomFor ==
    ASSUME ToldInv, Roomy, NEW c \in Clients, NEW d \in Devices, NEW new \in BOOLEAN,
           IF new THEN NewAhead(c, d) ELSE GoneAhead(c, d)
    PROVE  Len(cli[c].queue) < QueueLen
<1> DEFINE q == cli[c].queue
           S == Device \X BOOLEAN
           T == S \ {<<d, new>>}
           f == [i \in 1..Len(q) |-> <<q[i].dev, IsNew(q[i])>>]
<1>1. /\ q \in Seq(Message) /\ Len(q) \in Nat /\ DOMAIN q = 1..Len(q)
      /\ c \in Client /\ d \in Device
  BY EnvTyped, LenProperties DEF ToldInv, SafeInv, TypeOK, ClientType
<1>2. /\ \A i, j \in DOMAIN q : q[i].dev = q[j].dev /\ IsNew(q[i]) = IsNew(q[j]) => i = j
      /\ \A i \in DOMAIN q :
            IF IsNew(q[i]) THEN ~NewAhead(c, q[i].dev) ELSE ~GoneAhead(c, q[i].dev)
  BY DEF ToldInv, MessagesAreOnce
<1>3. \A i \in DOMAIN q : q[i].dev \in Device /\ IsNew(q[i]) \in BOOLEAN
  <2> TAKE i \in DOMAIN q
  <2>1. q[i] \in Message
    BY <1>1, ElementOfSeq
  <2> QED BY <2>1 DEF Message, IsNew
<1> HIDE DEF q
<1>4. f \in [1..Len(q) -> T]
  <2> SUFFICES ASSUME NEW i \in 1..Len(q)
               PROVE  <<q[i].dev, IsNew(q[i])>> \in T
    OBVIOUS
  <2>1. <<q[i].dev, IsNew(q[i])>> \in S
    BY <1>1, <1>3
  <2>2. ~(q[i].dev = d /\ IsNew(q[i]) = new)
    BY <1>1, <1>2
  <2> QED BY <2>1, <2>2
<1>5. \A i, j \in 1..Len(q) : f[i] = f[j] => i = j
  BY <1>1, <1>2
<1>6. /\ IsFiniteSet(S) /\ Cardinality(S) = Cardinality(Device) * 2
      /\ Cardinality(Device) \in Nat
  <2>1. IsFiniteSet(Device) /\ Cardinality(Device) \in Nat
    BY ActorsAreFinite, FS_CardinalityType
  <2>2. IsFiniteSet(BOOLEAN) /\ Cardinality(BOOLEAN) = 2
    <3>1. BOOLEAN = {FALSE} \cup {TRUE}
      OBVIOUS
    <3>4. TRUE \notin {FALSE}
      OBVIOUS
    <3>2. IsFiniteSet({FALSE}) /\ Cardinality({FALSE}) = 1
      BY FS_Singleton
    <3>3. /\ IsFiniteSet({FALSE} \cup {TRUE})
          /\ Cardinality({FALSE} \cup {TRUE}) =
                IF TRUE \in {FALSE} THEN Cardinality({FALSE}) ELSE Cardinality({FALSE}) + 1
      BY <3>2, FS_AddElement
    <3>5. IsFiniteSet(BOOLEAN) /\ Cardinality(BOOLEAN) = 1 + 1
      BY <3>1, <3>2, <3>3, <3>4
    <3> QED BY <3>5
  <2> QED BY <2>1, <2>2, FS_Product
<1>7. IsFiniteSet(T) /\ Cardinality(T) = Cardinality(S) - 1
  <2>1. <<d, new>> \in S
    BY <1>1
  <2> QED BY <1>6, <2>1, FS_RemoveElement
<1>8. Len(q) <= Cardinality(T)
  <2>1. IsFiniteSet(1..Len(q)) /\ Cardinality(1..Len(q)) = Len(q)
    <3>1. /\ IsFiniteSet(1..Len(q))
          /\ Cardinality(1..Len(q)) = IF 1 > Len(q) THEN 0 ELSE Len(q) - 1 + 1
      BY <1>1, FS_Interval
    <3> QED BY <1>1, <3>1
  <2>2. f \in Injection(1..Len(q), T)
    <3> HIDE DEF f, T
    <3> QED BY <1>4, <1>5 DEF Injection, IsInjective
  <2> QED BY <1>7, <2>1, <2>2, FS_Injection DEF ExistsInjection
<1> QED BY <1>1, <1>6, <1>7, <1>8, QueueLenIsPos DEF Roomy, q

\* The client that the daemon turns to is told, if the message is for it, and is then
\* no longer ahead.
LEMMA ToldTell ==
    ASSUME ToldInv, Tell, Roomy
    PROVE  ToldInv'
<1>1. SafeInv' /\ SafeInv
  BY SafeTell DEF ToldInv
<1>2. /\ dmn.at = "dev" /\ mux = Daemon /\ dmn.cur \in Devices /\ dmn.cur \in Device
      /\ dmn.left \in Seq(Client) /\ dmn.left # <<>>
      /\ Head(dmn.left) \in Clients /\ Head(dmn.left) \in Client
      /\ Head(dmn.jobs) \in {"NEW_DEV", "DEV_GONE", "DEV_REMOVED"}
      /\ \A i \in DOMAIN Tail(dmn.left) : i + 1 \in DOMAIN dmn.left
                                        /\ Tail(dmn.left)[i] = dmn.left[i + 1]
      /\ Head(dmn.left) = dmn.left[1] /\ 1 \in DOMAIN dmn.left
      /\ DOMAIN dmn.left = 1..Len(dmn.left) /\ Len(dmn.left) \in Nat
      /\ DOMAIN Tail(dmn.left) = 1..(Len(dmn.left) - 1)
  <2>1. Clients \subseteq Client
    BY <1>1, EnvTyped DEF SafeInv, TypeOK
  <2> QED BY <1>1, <2>1, TellIs
<1>c. PICK c \in Clients : c = Head(dmn.left) /\ c \in Client
  BY <1>2
<1>d. PICK d \in Devices : d = dmn.cur /\ d \in Device
  BY <1>2
<1>e. PICK event \in {"NEW_DEV", "DEV_GONE", "DEV_REMOVED"} : event = Head(dmn.jobs)
  BY <1>2
<1> DEFINE m == [event |-> event, dev |-> d]
           sent == Addressed(c, event, d) /\ Len(cli[c].queue) < QueueLen
           heard == event = "DEV_GONE" \/ (event = "DEV_REMOVED" /\ ~Holds(c, d))
           r == [cli[c] EXCEPT !.sem = TRUE, !.queue = Append(@, m)]
<1>3. /\ UNCHANGED <<clients, lib, mux, dev, plug, env>>
      /\ Clients' = Clients /\ Devices' = Devices
      /\ cli' = IF ~sent THEN cli ELSE [cli EXCEPT ![c].sem = TRUE, ![c].queue = Append(@, m)]
      /\ owed' = IF sent /\ heard THEN [owed EXCEPT ![d] = @ \ {c}] ELSE owed
  BY <1>c, <1>d, <1>e, EnvStays DEF Tell
<1>4. dmn'.at = dmn.at /\ dmn'.cur = d /\ dmn'.jobs = dmn.jobs /\ dmn'.left = Tail(dmn.left)
  BY <1>1, <1>d DEF Tell, SafeInv, TypeOK, DaemonType
<1>5. cli \in [Client -> ClientType] /\ cli[c] \in ClientType /\ cli[c].queue \in Seq(Message)
  BY <1>1, <1>c DEF SafeInv, TypeOK, ClientType
<1>6. r.queue = Append(cli[c].queue, m) /\ r.opened = cli[c].opened /\ r.op = cli[c].op
      /\ r.arg = cli[c].arg
  BY <1>5 DEF ClientType
<1>7. \A b \in Client : cli'[b] = IF b = c /\ sent THEN r ELSE cli[b]
  BY <1>2, <1>c, <1>d, <1>e, <1>3, <1>5
<1>8. InJobs(event) /\ (event # "NEW_DEV" => Recorded /\ dev[d].gone)
  <2>1. dmn.jobs # <<>>
    BY <1>1, <1>2 DEF SafeInv, LockIsHeld
  <2>2. InJobs(event)
    BY <1>1, <1>e, <2>1, NextJob DEF SafeInv
  <2> QED BY <1>1, <1>2, <1>d, <1>e, <2>2 DEF ToldInv, NobodyIsOpening, SafeInv, ReportsAreOfGone
<1> HIDE DEF m, sent, r
<1>9. \A b \in Client, e \in Device : Holds(b, e)' <=> Holds(b, e)
  BY <1>6, <1>7 DEF Holds
<1>10. \A b, j : StillTold(b, j)' <=> StillTold(b, j) /\ ~(b = c /\ j = event)
  <2> SUFFICES ASSUME NEW b, NEW j
               PROVE  StillTold(b, j)' <=> StillTold(b, j) /\ ~(b = c /\ j = event)
    OBVIOUS
  <2>1. (\E i \in DOMAIN Tail(dmn.left) : Tail(dmn.left)[i] = b)
           <=> b # c /\ \E i \in DOMAIN dmn.left : dmn.left[i] = b
    <3>1. \A i, k \in DOMAIN dmn.left : dmn.left[i] = dmn.left[k] => i = k
      BY DEF ToldInv, LeftIsInjective
    <3>2. ASSUME NEW i \in DOMAIN Tail(dmn.left), Tail(dmn.left)[i] = b
          PROVE  b # c /\ \E k \in DOMAIN dmn.left : dmn.left[k] = b
      <4>1. i + 1 \in DOMAIN dmn.left /\ dmn.left[i + 1] = b /\ i + 1 # 1
        BY <1>2, <1>c, <1>d, <1>e, <3>2
      <4> QED BY <1>2, <1>c, <1>d, <1>e, <3>1, <4>1
    <3>3. ASSUME NEW k \in DOMAIN dmn.left, dmn.left[k] = b, b # c
          PROVE  \E i \in DOMAIN Tail(dmn.left) : Tail(dmn.left)[i] = b
      <4>1. k # 1 /\ k \in 1..Len(dmn.left)
        BY <1>2, <1>c, <1>d, <1>e, <3>3
      <4>2. k - 1 \in DOMAIN Tail(dmn.left)
        BY <1>2, <1>c, <1>d, <1>e, <4>1
      <4>3. Tail(dmn.left)[k - 1] = dmn.left[(k - 1) + 1] /\ (k - 1) + 1 = k
        BY <1>2, <1>c, <1>d, <1>e, <4>1, <4>2
      <4> QED BY <3>3, <4>2, <4>3
    <3> QED BY <3>2, <3>3
  <2>2. StillTold(b, j) <=> InJobs(j)
           /\ (event = j => \E i \in DOMAIN dmn.left : dmn.left[i] = b)
    BY <1>2, <1>c, <1>d, <1>e DEF StillTold
  <2>3. StillTold(b, j)' <=> InJobs(j)
           /\ (event = j => \E i \in DOMAIN Tail(dmn.left) : Tail(dmn.left)[i] = b)
    BY <1>2, <1>c, <1>d, <1>e, <1>3, <1>4 DEF StillTold, InJobs
  <2> QED BY <2>1, <2>2, <2>3
<1>11. StillTold(c, event)
  BY <1>2, <1>c, <1>d, <1>e, <1>8 DEF StillTold
<1>12. ASSUME Addressed(c, event, d)
       PROVE  /\ event = "NEW_DEV" => NewAhead(c, d)
              /\ event # "NEW_DEV" => GoneAhead(c, d) /\ (Holds(c, d) <=> event = "DEV_GONE")
              /\ sent
  <2>1. event # "NEW_DEV" => (Holds(c, d) <=> d \in cli[c].opened)
    BY <1>2, <1>c, <1>d, <1>e, <1>8 DEF Recorded, Holds
  <2>2. event # "NEW_DEV" => (Holds(c, d) <=> event = "DEV_GONE")
    BY <1>2, <1>c, <1>d, <1>e, <1>12, <2>1 DEF Addressed
  <2>3. event = "NEW_DEV" => NewAhead(c, d)
    BY <1>d, <1>11 DEF NewAhead
  <2>4. event # "NEW_DEV" => GoneAhead(c, d)
    BY <1>2, <1>c, <1>d, <1>e, <1>11, <2>2 DEF GoneAhead
  <2>5. Len(cli[c].queue) < QueueLen
    <3>1. CASE event = "NEW_DEV"
      BY <1>2, <1>c, <1>d, <1>e, <2>3, <3>1, RoomFor
    <3>2. CASE event # "NEW_DEV"
      BY <1>2, <1>c, <1>d, <1>e, <2>4, <3>2, RoomFor
    <3> QED BY <3>1, <3>2
  <2> QED BY <1>12, <2>2, <2>3, <2>4, <2>5 DEF sent
<1>13. /\ \A e \in Devices : owed'[e] \subseteq owed[e]
       /\ \A e \in Devices : e # d => owed'[e] = owed[e]
       /\ sent /\ heard => c \notin owed'[d]
  <2>1. owed \in [Device -> SUBSET Client] /\ Devices \subseteq Device
    BY <1>1, EnvTyped DEF SafeInv, TypeOK
  <2> HIDE DEF heard
  <2> QED BY <1>2, <1>c, <1>d, <1>e, <1>3, <2>1
<1>14. EverybodyIsTold'
  <2>1. EverybodyIsTold
    BY DEF ToldInv
  <2> QED BY <1>3, <1>d, <1>4, <1>13, <2>1 DEF EverybodyIsTold
<1>15. OwedAreConcerned'
  <2>1. OwedAreConcerned /\ Devices \subseteq Device
    BY <1>1, EnvTyped DEF ToldInv, SafeInv, TypeOK
  <2> QED BY <1>3, <1>9, <1>13, <2>1 DEF OwedAreConcerned, Registered
<1>16. OwedAreAhead'
  <2> SUFFICES ASSUME NEW b \in Client, dev[d].gone, b \in owed'[d]
               PROVE  (IF Holds(b, dmn.cur) THEN StillTold(b, "DEV_GONE")
                       ELSE Message_("DEV_REMOVED") /\ StillTold(b, "DEV_REMOVED"))'
    BY <1>3, <1>4 DEF OwedAreAhead
  <2>1. b \in owed[d] /\ (b \in env.notify \/ Holds(b, d))
    BY <1>2, <1>c, <1>d, <1>e, <1>13 DEF ToldInv, OwedAreConcerned
  <2>2. IF Holds(b, d) THEN StillTold(b, "DEV_GONE")
        ELSE Message_("DEV_REMOVED") /\ StillTold(b, "DEV_REMOVED")
    BY <1>2, <1>c, <1>d, <1>e, <2>1 DEF ToldInv, OwedAreAhead
  <2>3. Holds(b, dmn.cur)' <=> Holds(b, d)
    <3>1. Holds(b, d)' <=> Holds(b, d)
      BY <1>2, <1>c, <1>d, <1>e, <1>9
    <3>2. Holds(b, dmn.cur)' <=> Holds(b, d)'
      BY <1>3, <1>4 DEF Holds
    <3> QED BY <3>1, <3>2
  <2>4. Message_("DEV_REMOVED")' <=> Message_("DEV_REMOVED")
    BY <1>4 DEF Message_
  <2>5. Message_("DEV_REMOVED") => event = "DEV_REMOVED"
    BY <1>e DEF Message_
  <2>6. b = c => ~(Holds(c, d) /\ event = "DEV_GONE") /\ ~(~Holds(c, d) /\ event = "DEV_REMOVED")
    <3> SUFFICES ASSUME b = c, \/ Holds(c, d) /\ event = "DEV_GONE"
                               \/ ~Holds(c, d) /\ event = "DEV_REMOVED"
                 PROVE  FALSE
      OBVIOUS
    <3>1. d \in cli[c].opened <=> Holds(c, d)
      BY <1>2, <1>c, <1>d, <1>e, <1>8 DEF Recorded, Holds
    <3>2. Addressed(c, event, d)
      BY <2>1, <3>1 DEF Addressed
    <3> QED BY <1>12, <1>13, <3>2
  <2> QED BY <1>10, <2>2, <2>3, <2>4, <2>5, <2>6
<1>17. NobodyIsOpening'
  <2>1. \A b \in Clients : cli'[b].op = cli[b].op /\ cli'[b].arg = cli[b].arg
    BY <1>1, <1>6, <1>7, EnvTyped DEF SafeInv, TypeOK
  <2> QED BY <1>3, <1>4, <1>d, <1>e, <1>8, <2>1, ZenonT(60) DEF NobodyIsOpening, Recorded
<1>18. LeftIsInjective'
  <2> SUFFICES ASSUME NEW i \in DOMAIN Tail(dmn.left), NEW k \in DOMAIN Tail(dmn.left),
                      Tail(dmn.left)[i] = Tail(dmn.left)[k]
               PROVE  i = k
    BY <1>4 DEF LeftIsInjective
  <2>1. i + 1 \in DOMAIN dmn.left /\ k + 1 \in DOMAIN dmn.left
        /\ dmn.left[i + 1] = dmn.left[k + 1] /\ i \in Nat /\ k \in Nat
    BY <1>2, <1>c, <1>d, <1>e
  <2>2. i + 1 = k + 1
    BY <2>1 DEF ToldInv, LeftIsInjective
  <2> QED BY <2>1, <2>2
<1>19. CurrentIsTaken' /\ NewIsReady'
  BY <1>3, <1>4, <1>d DEF ToldInv, CurrentIsTaken, NewIsReady, InJobs
<1>20. MessagesAreOnce'
  <2> DEFINE Good(b, s) ==
                /\ \A i, j \in DOMAIN s : s[i].dev = s[j].dev /\ IsNew(s[i]) = IsNew(s[j]) => i = j
                /\ \A i \in DOMAIN s :
                      /\ s[i].dev \in Devices
                      /\ \A e \in Devices : s[i].dev = e =>
                            IF IsNew(s[i]) THEN ~NewAhead(b, e)' ELSE ~GoneAhead(b, e)'
  <2>1. \A b \in Clients, e \in Devices :
           (NewAhead(b, e)' => NewAhead(b, e)) /\ (GoneAhead(b, e)' => GoneAhead(b, e))
    <3>1. Clients \subseteq Client /\ Devices \subseteq Device
      BY <1>1, EnvTyped DEF SafeInv, TypeOK
    <3> QED BY <1>3, <1>4, <1>d, <1>9, <1>10, <3>1 DEF NewAhead, GoneAhead
  <2>2. \A b \in Clients : Good(b, cli[b].queue)
    BY <2>1 DEF ToldInv, MessagesAreOnce
  <2>3. sent => Good(c, Append(cli[c].queue, m))
    <3> DEFINE q == cli[c].queue
    <3> SUFFICES ASSUME sent PROVE Good(c, Append(q, m))
      OBVIOUS
    <3>1. Addressed(c, event, d)
      BY DEF sent
    <3>2. m.dev = d /\ (IsNew(m) <=> event = "NEW_DEV")
      BY DEF m, IsNew
    <3>3. IF IsNew(m) THEN NewAhead(c, d) ELSE GoneAhead(c, d)
      BY <1>12, <3>1, <3>2
    <3>4. IF IsNew(m) THEN ~NewAhead(c, d)' ELSE ~GoneAhead(c, d)'
      <4>1. dev[d].acts \subseteq {"FREE"}
        BY <1>2, <1>c, <1>d, <1>e DEF ToldInv, CurrentIsTaken
      <4>2. CASE event = "NEW_DEV"
        <5>1. dev[d].life = "ready" /\ plug[d] # "new"
          BY <1>1, <1>d, <1>8, <4>2
             DEF ToldInv, NewIsReady, SafeInv, ObjectsMatchPlugs
        <5>2. ~StillTold(c, "NEW_DEV")'
          BY <1>10, <4>2
        <5> QED BY <1>3, <3>2, <4>1, <4>2, <5>1, <5>2 DEF NewAhead
      <4>3. CASE event # "NEW_DEV"
        <5>1. dev[d].gone /\ plug[d] # "new"
          BY <1>1, <1>2, <1>8, <4>3 DEF SafeInv, ObjectsMatchPlugs
        <5>2. ~StillTold(c, event)'
          BY <1>10
        <5>3. event = IF Holds(c, d)' THEN "DEV_GONE" ELSE "DEV_REMOVED"
          BY <1>2, <1>c, <1>d, <1>e, <1>9, <1>12, <3>1, <4>3
        <5>4. ~StillTold(c, IF Holds(c, d) THEN "DEV_GONE" ELSE "DEV_REMOVED")'
          BY <1>3, <1>4, <5>2, <5>3 DEF StillTold, InJobs
        <5> QED BY <1>3, <3>2, <4>1, <4>3, <5>1, <5>4 DEF GoneAhead
      <4> QED BY <4>2, <4>3
    <3>5. Good(c, q)
      BY <1>2, <1>c, <1>d, <1>e, <2>2
    <3>6. \A i \in DOMAIN q : ~(q[i].dev = d /\ IsNew(q[i]) = IsNew(m))
      BY <1>2, <1>c, <1>d, <1>e, <3>3 DEF ToldInv, MessagesAreOnce
    <3>7. /\ DOMAIN Append(q, m) = 1..(Len(q) + 1) /\ DOMAIN q = 1..Len(q) /\ Len(q) \in Nat
          /\ \A i \in 1..Len(q) : Append(q, m)[i] = q[i]
          /\ Append(q, m)[Len(q) + 1] = m
      <4>1. m \in Message
        BY <1>2, <1>c, <1>d, <1>e DEF m, Message
      <4> QED BY <1>5, <4>1, AppendProperties, LenProperties
    <3> HIDE DEF q
    <3>8. \A i \in DOMAIN Append(q, m) :
             \/ i \in DOMAIN q /\ Append(q, m)[i] = q[i]
             \/ i = Len(q) + 1 /\ Append(q, m)[i] = m
      BY <3>7
    <3> QED BY <1>2, <1>c, <1>d, <1>e, <3>2, <3>4, <3>5, <3>6, <3>8
  <2>4. \A b \in Clients : Good(b, cli'[b].queue)
    <3> HIDE DEF Good
    <3>1. Clients \subseteq Client
      BY <1>1, EnvTyped DEF SafeInv, TypeOK
    <3> QED BY <1>6, <1>7, <2>2, <2>3, <3>1
  <2>5. ASSUME NEW b \in Clients, NEW i \in DOMAIN cli'[b].queue
        PROVE  (IF IsNew(cli[b].queue[i]) THEN ~NewAhead(b, cli[b].queue[i].dev)
                ELSE ~GoneAhead(b, cli[b].queue[i].dev))'
    <3>1. PICK e \in Devices : cli'[b].queue[i].dev = e
      BY <2>4
    <3>2. IF IsNew(cli'[b].queue[i]) THEN ~NewAhead(b, e)' ELSE ~GoneAhead(b, e)'
      BY <2>4, <3>1
    <3>3. NewAhead(b, cli[b].queue[i].dev)' <=> NewAhead(b, e)'
      BY <3>1 DEF NewAhead
    <3>4. GoneAhead(b, cli[b].queue[i].dev)' <=> GoneAhead(b, e)'
      <4>1. Holds(b, cli[b].queue[i].dev)' <=> Holds(b, e)'
        BY <3>1 DEF Holds
      <4> QED BY <3>1, <4>1 DEF GoneAhead, StillTold, InJobs
    <3> QED BY <3>2, <3>3, <3>4 DEF IsNew
  <2>6. ASSUME NEW b \in Clients
        PROVE  (LET q == cli[b].queue IN
                /\ \A i, j \in DOMAIN q : q[i].dev = q[j].dev /\ IsNew(q[i]) = IsNew(q[j]) => i = j
                /\ \A i \in DOMAIN q : q[i].dev \in Devices)'
    <3> DEFINE s == cli'[b].queue
    <3>1. Good(b, s)
      BY <2>4
    <3>2. \A i, j \in DOMAIN s : s[i].dev = s[j].dev /\ IsNew(s[i]) = IsNew(s[j]) => i = j
      BY <3>1
    <3>3. \A i \in DOMAIN s : s[i].dev \in Devices
      BY <3>1
    <3> QED BY <1>3, <3>2, <3>3, ZenonT(60) DEF IsNew
  <2> HIDE DEF Good
  <2> QED BY <1>3, <2>5, <2>6 DEF MessagesAreOnce
<1> QED BY <1>1, <1>14, <1>15, <1>16, <1>17, <1>18, <1>19, <1>20 DEF ToldInv

\* Nobody has to be told of anything at the start.
LEMMA ToldInit ==
    ASSUME Init
    PROVE  ToldInv
<1> USE DEF Init
<1>1. SafeInv
  BY SafeInit
<1>2. /\ \A d \in Devices : dev[d] = NoObject /\ plug[d] = "out"
      /\ \A c \in Clients : cli[c].queue = <<>>
      /\ dmn.at = "wait" /\ mux # Daemon /\ dmn.left = <<>> /\ dmn.jobs = <<>>
  BY EnvTyped DEF NoClient, Free, Daemon
<1>3. NoObject.acts = {} /\ ~NoObject.gone
  BY NoObjectTyped
<1>4. /\ EverybodyIsTold /\ OwedAreConcerned /\ OwedAreAhead /\ NobodyIsOpening
      /\ LeftIsInjective /\ CurrentIsTaken /\ NewIsReady
  BY <1>2, <1>3 DEF EverybodyIsTold, OwedAreConcerned, OwedAreAhead, NobodyIsOpening,
       LeftIsInjective, CurrentIsTaken, NewIsReady, InJobs
<1>5. MessagesAreOnce
  BY <1>2 DEF MessagesAreOnce
<1> QED BY <1>1, <1>4, <1>5 DEF ToldInv

\* Every step of the daemon keeps ToldInv.
LEMMA ToldDaemonStep ==
    ASSUME ToldInv, DaemonStep, Quiet, Roomy
    PROVE  ToldInv'
BY ToldRounds, ToldHubNew, ToldHubLost, ToldEnumEnds, ToldProcessDevice, ToldStartTelling,
   ToldTell, ToldStopTelling, ToldHandleFree, ToldDeviceDone DEF DaemonStep

\* So does a step in which nothing happens.
LEMMA ToldStutter ==
    ASSUME ToldInv, UNCHANGED vars
    PROVE  ToldInv'
<1>1. SafeInv'
  BY SafeStutter DEF ToldInv
<1>2. Clients' = Clients /\ Devices' = Devices
  BY EnvStays DEF vars
<1>3. Alike
  BY <1>2 DEF Alike, vars, Holds, Registered
<1> QED BY <1>1, <1>3, AlikeKeeps

\* Every step keeps it.
LEMMA ToldNext ==
    ASSUME ToldInv, [Next]_vars, Quiet, Roomy
    PROVE  ToldInv'
<1>1. ASSUME Bus PROVE ToldInv'
  BY <1>1, ToldPlug, ToldUnplug DEF Bus
<1>2. ASSUME NEW c \in Clients, Handler(c) PROVE ToldInv'
  BY <1>2, ToldClient, ToldHandleMessage DEF Handler
<1>3. ASSUME Api PROVE ToldInv'
  BY <1>3, ToldClient, ToldCalls, ToldOpen, ToldClose DEF Api
<1> QED BY <1>1, <1>2, <1>3, ToldDaemonStep, ToldStutter DEF Next, Ended

\* Clients, daemon and device objects agree at any time.  Above all, once the daemon has
\* reported a disconnection nobody is left who had the device open, or subscribed, and
\* was not told: send_event_msg_to_clients() and send_removed_event_msg_to_clients()
\* reach everybody (usb_host.c:272-332), and no message is dropped at a full queue.
THEOREM EverybodyHears ==
    ASSUME Quiet, Roomy
    PROVE  Spec => []Consistent
<1>1. Init => ToldInv
  BY ToldInit
<1>2. ToldInv /\ [Next]_vars => ToldInv'
  BY ToldNext
<1>3. ToldInv => Consistent
  BY EmptySeq DEF ToldInv, SafeInv, Consistent, LockIsHeld, WalksRegistered
<1> QED BY <1>1, <1>2, <1>3, PTL DEF Spec

=============================================================================
