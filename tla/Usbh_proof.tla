---------------------------- MODULE Usbh_proof ----------------------------
(***************************************************************************)
(* Proofs about the device objects of Usbh, for any finite set of clients  *)
(* and any set of devices.                                                 *)
(*                                                                         *)
(* The counters open_count and num_ctrl_xfers_inflight are typed (never    *)
(* negative) only because they count sets: who has the device open, and    *)
(* whose transfer is under way.  Accounting is the inductive invariant     *)
(* that ties them to those sets.                                           *)
(***************************************************************************)
EXTENDS Usbh, FiniteSetTheorems, TLAPS

\* Where usbh_process() is: it has a device exactly while it handles one, and
\* holds dequeued URBs that are not yet accounted only inside handle_ep0_dequeue().
ProcShape ==
    /\ cur \in Dev <=> pc = "handle"
    /\ dequeued # 0 => Due("EP0_DEQUEUE")

\* The enumeration lock is only set by, and unset before, the sole opener.
LockedByEnum == \A d \in Dev : enumLock[d] => Holders(d) = {Enum}

Accounting ==
    /\ TypeOK
    /\ RefCount
    /\ InflightAccounting
    /\ ProcShape
    /\ LockedByEnum

-----------------------------------------------------------------------------
(* Lemmas *)

\* The set of openers, and with it every set of users of a device, is finite.
LEMMA FiniteUsers ==
    /\ IsFiniteSet(Opener)
    /\ \A S \in SUBSET Opener : IsFiniteSet(S) /\ Cardinality(S) \in Nat
<1>1. IsFiniteSet(Opener)
  BY FiniteOpeners, FS_AddElement DEF Opener
<1>2. ASSUME NEW S \in SUBSET Opener
      PROVE  IsFiniteSet(S) /\ Cardinality(S) \in Nat
  <2>1. IsFiniteSet(S)
    BY <1>1, FS_Subset
  <2>2. Cardinality(S) \in Nat
    BY <2>1, FS_CardinalityType
  <2> QED BY <2>1, <2>2
<1> QED BY <1>1, <1>2

\* usbh_process() handles one kind of action at a time.
LEMMA OneDue ==
    ASSUME NEW a \in Action, NEW b \in Action, Due(a), Due(b)
    PROVE  a = b
<1>1. Rank[a] <= Rank[b] /\ Rank[b] <= Rank[a]
  BY DEF Due
<1>2. Rank \in [Action -> Nat]
  BY DEF Rank, Action
<1>3. Rank[a] = Rank[b]
  BY <1>1, <1>2
<1> QED BY <1>3 DEF Rank, Action

\* While any other action is handled there are no unaccounted URBs.
LEMMA NothingDequeued ==
    ASSUME TypeOK, ProcShape, NEW a \in Action, Due(a), a # "EP0_DEQUEUE"
    PROVE  dequeued = 0 /\ cur \in Dev
<1>1. "EP0_DEQUEUE" \in Action
  BY DEF Action, Rank
<1>2. dequeued = 0
  BY <1>1, OneDue DEF ProcShape
<1> QED BY <1>2 DEF ProcShape, Due

\* What the daemon does with its own state after handling some actions.
LEMMA FinishShape ==
    ASSUME TypeOK, ProcShape, NEW a \in Action, Due(a), NEW F \in SUBSET Action,
           Finish(F), dequeued' = 0
    PROVE  /\ pc' \in Place /\ cur' \in Dev \cup {NoDev} /\ todo' \in SUBSET Action
           /\ ProcShape'
<1>1. cur \in Dev /\ pc = "handle"
  BY DEF ProcShape, Due
<1> QED BY <1>1, DistinctNames DEF Finish, ProcShape, TypeOK, Place

\* Opening adds one user and counts it.
LEMMA OpenCounts ==
    ASSUME Accounting, NEW o \in Opener, NEW d \in Dev, d \notin held[o], DevOpen(o, d)
    PROVE  /\ openCount' \in [Dev -> Nat] /\ held' \in [Opener -> SUBSET Dev]
           /\ RefCount'
           /\ Holders(d)' = Holders(d) \cup {o}
           /\ \A e \in Dev \ {d} : Holders(e)' = Holders(e)
<1> USE DEF Accounting, TypeOK
<1>1. /\ openCount' \in [Dev -> Nat] /\ held' \in [Opener -> SUBSET Dev]
  BY DEF DevOpen
<1>2. Holders(d)' = Holders(d) \cup {o}
  BY DEF DevOpen, Holders
<1>3. \A e \in Dev \ {d} : Holders(e)' = Holders(e)
  BY DEF DevOpen, Holders
<1>4. Cardinality(Holders(d)') = Cardinality(Holders(d)) + 1
  <2>1. o \notin Holders(d) /\ IsFiniteSet(Holders(d))
    BY FiniteUsers DEF Holders
  <2> QED BY <1>2, <2>1, FS_AddElement
<1>5. RefCount'
  BY <1>2, <1>3, <1>4 DEF RefCount, DevOpen
<1> QED BY <1>1, <1>2, <1>3, <1>5

\* Closing removes one user and uncounts it.
LEMMA CloseCounts ==
    ASSUME Accounting, NEW o \in Opener, NEW d \in Dev, d \in held[o],
           NEW X \in SUBSET Action, DevClose(o, d, X)
    PROVE  /\ openCount' \in [Dev -> Nat] /\ held' \in [Opener -> SUBSET Dev]
           /\ RefCount'
           /\ Holders(d)' = Holders(d) \ {o}
           /\ \A e \in Dev \ {d} : Holders(e)' = Holders(e)
           /\ pending' \subseteq Dev /\ action' \in [Dev -> SUBSET Action]
           /\ procReq' \in BOOLEAN
<1> USE DEF Accounting, TypeOK
<1>1. /\ openCount' = [openCount EXCEPT ![d] = @ - 1]
      /\ held' = [held EXCEPT ![o] = @ \ {d}]
  BY DEF DevClose
<1>2. Holders(d)' = Holders(d) \ {o}
  BY <1>1 DEF Holders
<1>3. \A e \in Dev \ {d} : Holders(e)' = Holders(e)
  BY <1>1 DEF Holders
<1>4. /\ Cardinality(Holders(d)') = Cardinality(Holders(d)) - 1
      /\ Cardinality(Holders(d)') \in Nat
  <2>1. o \in Holders(d) /\ IsFiniteSet(Holders(d))
    BY FiniteUsers DEF Holders
  <2>2. Holders(d)' \in SUBSET Opener
    BY <1>2 DEF Holders
  <2> QED BY <1>2, <2>1, <2>2, FS_RemoveElement, FiniteUsers
<1>5. openCount' \in [Dev -> Nat]
  BY <1>1, <1>4 DEF RefCount
<1>6. RefCount'
  BY <1>1, <1>2, <1>3, <1>4 DEF RefCount
<1>7. pending' \subseteq Dev /\ action' \in [Dev -> SUBSET Action] /\ procReq' \in BOOLEAN
  <2>1. "FREE" \in Action
    BY DEF Action, Rank
  <2>2. PICK F \in SUBSET Action : IF F = {} THEN UNCHANGED listVars ELSE SetActions(d, F)
    BY <2>1 DEF DevClose
  <2>3. CASE F = {}
    BY <2>2, <2>3 DEF listVars
  <2>4. CASE F # {}
    BY <2>2, <2>4, ZenonT(60) DEF SetActions
  <2> QED BY <2>3, <2>4
<1> QED BY <1>1, <1>2, <1>3, <1>5, <1>6, <1>7

\* A URB that starts, or stops, being under way changes one device's set.
LEMMA BusyGrows ==
    ASSUME TypeOK, NEW o \in Opener, NEW d \in Dev, xfer[o][d] = "none",
           NEW s \in XferState \ {"none"}, xfer' = [xfer EXCEPT ![o][d] = s]
    PROVE  /\ Cardinality(Busy(d)') = Cardinality(Busy(d)) + 1
           /\ \A e \in Dev \ {d} : Busy(e)' = Busy(e)
<1>1. Busy(d)' = Busy(d) \cup {o}
  BY DEF Busy, TypeOK
<1>2. o \notin Busy(d) /\ IsFiniteSet(Busy(d))
  BY FiniteUsers DEF Busy
<1>3. \A e \in Dev \ {d} : Busy(e)' = Busy(e)
  BY DEF Busy, TypeOK
<1> QED BY <1>1, <1>2, <1>3, FS_AddElement, ZenonT(60)

LEMMA BusyShrinks ==
    ASSUME TypeOK, NEW o \in Opener, NEW d \in Dev, xfer[o][d] # "none",
           xfer' = [xfer EXCEPT ![o][d] = "none"]
    PROVE  /\ Cardinality(Busy(d)') = Cardinality(Busy(d)) - 1
           /\ Cardinality(Busy(d)') \in Nat
           /\ \A e \in Dev \ {d} : Busy(e)' = Busy(e)
<1>1. Busy(d)' = Busy(d) \ {o}
  BY DEF Busy, TypeOK
<1>2. o \in Busy(d) /\ IsFiniteSet(Busy(d))
  BY FiniteUsers DEF Busy
<1>3. \A e \in Dev \ {d} : Busy(e)' = Busy(e)
  BY DEF Busy, TypeOK
<1>4. Busy(d)' \in SUBSET Opener
  BY <1>1 DEF Busy
<1> QED BY <1>1, <1>2, <1>3, <1>4, FS_RemoveElement, FiniteUsers

\* A step that leaves the users, the URBs and the daemon's place alone keeps
\* the counters right.
LEMMA CountersKept ==
    ASSUME Accounting, UNCHANGED <<useVars, inflight, xfer, procVars>>,
           \A d \in Dev : enumLock'[d] => enumLock[d]
    PROVE  RefCount' /\ InflightAccounting' /\ ProcShape' /\ LockedByEnum'
<1> USE DEF Accounting, useVars, procVars
<1>1. \A d \in Dev : Holders(d)' = Holders(d) /\ Busy(d)' = Busy(d)
  BY DEF Holders, Busy
<1>2. RefCount' /\ LockedByEnum'
  BY <1>1 DEF RefCount, LockedByEnum
<1>3. InflightAccounting'
  BY <1>1 DEF InflightAccounting
<1>4. ProcShape'
  BY DEF ProcShape, Due
<1> QED BY <1>2, <1>3, <1>4

\* The same for a step of the daemon that has no unaccounted URBs.
LEMMA CountersKeptByDaemon ==
    ASSUME Accounting, UNCHANGED <<useVars, inflight>>, dequeued = 0, dequeued' = 0,
           \A d \in Dev : Busy(d)' = Busy(d),
           \A d \in Dev : enumLock'[d] => enumLock[d]
    PROVE  RefCount' /\ InflightAccounting' /\ LockedByEnum'
<1> USE DEF Accounting, useVars, TypeOK
<1>1. \A d \in Dev : Holders(d)' = Holders(d)
  BY DEF Holders
<1>2. RefCount' /\ LockedByEnum'
  BY <1>1 DEF RefCount, LockedByEnum
<1>3. \A d \in Dev : Cardinality(Busy(d)) \in Nat
  BY FiniteUsers DEF Busy
<1>4. InflightAccounting'
  BY <1>3 DEF InflightAccounting
<1> QED BY <1>2, <1>4

LEMMA AccountingInit == Init => Accounting
<1> SUFFICES ASSUME Init PROVE Accounting
  OBVIOUS
<1>1. TypeOK
  BY DEF Init, TypeOK, DevState, XferState, Place
<1>2. \A d \in Dev : Holders(d) = {} /\ Busy(d) = {}
  BY DEF Init, Holders, Busy
<1>3. \A d \in Dev : Cardinality(Holders(d)) = 0 /\ Cardinality(Busy(d)) = 0
  BY <1>2, FS_EmptySet, Zenon
<1>4. RefCount /\ InflightAccounting
  BY <1>3 DEF Init, RefCount, InflightAccounting
<1>5. ProcShape /\ LockedByEnum
  BY DistinctNames DEF Init, ProcShape, LockedByEnum
<1> QED BY <1>1, <1>4, <1>5 DEF Accounting

-----------------------------------------------------------------------------
(* The steps of the daemon task *)

LEMMA DaemonKeepsAccounting ==
    ASSUME Accounting, Daemon
    PROVE  Accounting'
<1> USE DEF Accounting
<1>1. CASE Wake
  <2>1. dequeued = 0 /\ cur = NoDev
    BY <1>1 DEF Wake, ProcShape, Due, TypeOK
  <2>2. TypeOK'
    BY <1>1 DEF Wake, TypeOK, Place, doomVars, enumVars, useVars, portVars
  <2>3. ProcShape'
    BY <1>1, <2>1, DistinctNames DEF Wake, ProcShape
  <2>4. RefCount' /\ InflightAccounting' /\ LockedByEnum'
    BY <1>1, <2>1, CountersKeptByDaemon DEF Wake, useVars, enumVars, Busy
  <2> QED BY <2>2, <2>3, <2>4
<1>2. ASSUME NEW d \in Dev, ProcTake(d) PROVE Accounting'
  <2>1. dequeued = 0
    BY <1>2 DEF ProcTake, ProcShape, Due, TypeOK
  <2>2. TypeOK'
    BY <1>2 DEF ProcTake, TypeOK, Place, doomVars, enumVars, useVars, portVars
  <2>3. ProcShape'
    BY <1>2, <2>1 DEF ProcTake, ProcShape
  <2>4. RefCount' /\ InflightAccounting' /\ LockedByEnum'
    BY <1>2, <2>1, CountersKeptByDaemon DEF ProcTake, useVars, enumVars, Busy
  <2> QED BY <2>2, <2>3, <2>4
<1>3. ASSUME NEW a \in Place \ {"handle"}, NEW b \in Place \ {"handle"}, NextPart(a, b)
      PROVE  Accounting'
  <2>1. dequeued = 0 /\ cur = NoDev
    BY <1>3 DEF NextPart, ProcShape, Due, TypeOK
  <2>2. TypeOK'
    BY <1>3 DEF NextPart, TypeOK, listVars, doomVars, enumVars, useVars, portVars
  <2>3. ProcShape'
    BY <1>3, <2>1, DistinctNames DEF NextPart, ProcShape
  <2>4. RefCount' /\ InflightAccounting' /\ LockedByEnum'
    BY <1>3, <2>1, CountersKeptByDaemon DEF NextPart, useVars, enumVars, Busy
  <2> QED BY <2>2, <2>3, <2>4
<1>4. CASE ProcEnd \/ HubEnd \/ EnumEnd
  BY <1>3, <1>4 DEF ProcEnd, HubEnd, EnumEnd, Place
<1>5. ASSUME NEW a \in Action, HandleSimple(a) PROVE Accounting'
  <2>1. a # "EP0_DEQUEUE" /\ Due(a)
    BY <1>5 DEF HandleSimple
  <2>2. dequeued = 0 /\ cur \in Dev
    BY <2>1, NothingDequeued
  <2>3. /\ pc' \in Place /\ cur' \in Dev \cup {NoDev} /\ todo' \in SUBSET Action
        /\ ProcShape'
    BY <1>5, <2>1, <2>2, FinishShape DEF HandleSimple
  <2>4. TypeOK'
    BY <1>5, <2>3 DEF HandleSimple, TypeOK, listVars, doomVars, enumVars, useVars, portVars
  <2>5. RefCount' /\ InflightAccounting' /\ LockedByEnum'
    BY <1>5, <2>2, CountersKeptByDaemon DEF HandleSimple, useVars, enumVars, Busy
  <2> QED BY <2>3, <2>4, <2>5
<1>6. CASE HandleEp0Flush
  <2>1. dequeued = 0 /\ cur \in Dev
    BY <1>6, NothingDequeued DEF HandleEp0Flush, Action, Rank
  <2>2. /\ pc' \in Place /\ cur' \in Dev \cup {NoDev} /\ todo' \in SUBSET Action
        /\ ProcShape'
    BY <1>6, <2>1, FinishShape DEF HandleEp0Flush, Action, Rank
  <2>3. pending' \subseteq Dev /\ action' \in [Dev -> SUBSET Action] /\ procReq' \in BOOLEAN
    <3>1. {"EP0_DEQUEUE"} \subseteq Action
      BY DEF Action, Rank
    <3>2. UNCHANGED listVars \/ SetActions(cur, {"EP0_DEQUEUE"})
      BY <1>6 DEF HandleEp0Flush
    <3>3. CASE UNCHANGED listVars
      BY <3>3 DEF TypeOK, listVars
    <3>4. CASE SetActions(cur, {"EP0_DEQUEUE"})
      BY <2>1, <3>1, <3>4 DEF TypeOK, SetActions
    <3> QED BY <3>2, <3>3, <3>4
  <2>4. xfer' \in [Opener -> [Dev -> XferState]] /\ \A d \in Dev : Busy(d)' = Busy(d)
    BY <1>6, <2>1 DEF HandleEp0Flush, TypeOK, XferState, Busy
  <2>5. TypeOK'
    BY <1>6, <2>1, <2>2, <2>3, <2>4
       DEF HandleEp0Flush, TypeOK, doomVars, enumVars, useVars, portVars
  <2>6. RefCount' /\ InflightAccounting' /\ LockedByEnum'
    BY <1>6, <2>1, <2>4, CountersKeptByDaemon DEF HandleEp0Flush, useVars, enumVars
  <2> QED BY <2>2, <2>5, <2>6
<1>7. ASSUME NEW o \in Opener, HandleEp0Dequeue(o) PROVE Accounting'
  <2>1. cur \in Dev
    BY <1>7 DEF HandleEp0Dequeue, Due, ProcShape
  <2>2. /\ Cardinality(Busy(cur)') = Cardinality(Busy(cur)) - 1
        /\ \A e \in Dev \ {cur} : Busy(e)' = Busy(e)
    BY <1>7, <2>1, BusyShrinks DEF HandleEp0Dequeue
  <2>3. TypeOK'
    BY <1>7, <2>1 DEF HandleEp0Dequeue, TypeOK, XferState, listVars, doomVars, enumVars,
                      useVars, portVars
  <2>4. InflightAccounting'
    <3>1. Cardinality(Busy(cur)) \in Nat
      BY FiniteUsers DEF Busy
    <3>2. inflight'[cur] = Cardinality(Busy(cur)') + dequeued'
      BY <1>7, <2>1, <2>2, <3>1 DEF HandleEp0Dequeue, InflightAccounting, TypeOK
    <3>3. \A d \in Dev \ {cur} : inflight'[d] = Cardinality(Busy(d)')
      <4>1. \A d \in Dev : Cardinality(Busy(d)) \in Nat
        BY FiniteUsers DEF Busy
      <4> QED BY <1>7, <2>2, <4>1 DEF HandleEp0Dequeue, InflightAccounting
    <3>4. cur' = cur /\ \A d \in Dev : Cardinality(Busy(d)') \in Nat
      BY <1>7, FiniteUsers DEF HandleEp0Dequeue, Busy
    <3> QED BY <3>2, <3>3, <3>4 DEF InflightAccounting
  <2>5. RefCount' /\ LockedByEnum' /\ ProcShape'
    BY <1>7 DEF HandleEp0Dequeue, RefCount, LockedByEnum, ProcShape, Holders, Due,
                useVars, enumVars
  <2> QED BY <2>3, <2>4, <2>5
<1>8. CASE HandleEp0DequeueEnd
  <2>1. cur \in Dev /\ inflight[cur] = Cardinality(Busy(cur)) + dequeued
    BY <1>8 DEF HandleEp0DequeueEnd, Due, ProcShape, InflightAccounting
  <2>2. inflight' \in [Dev -> Nat] /\ inflight'[cur] = Cardinality(Busy(cur))
    <3>1. Cardinality(Busy(cur)) \in Nat
      BY FiniteUsers DEF Busy
    <3> QED BY <1>8, <2>1, <3>1 DEF HandleEp0DequeueEnd, TypeOK
  <2>3. /\ pc' \in Place /\ cur' \in Dev \cup {NoDev} /\ todo' \in SUBSET Action
        /\ ProcShape'
    BY <1>8, FinishShape DEF HandleEp0DequeueEnd, Action, Rank
  <2>4. TypeOK'
    BY <1>8, <2>2, <2>3
       DEF HandleEp0DequeueEnd, TypeOK, listVars, doomVars, enumVars, useVars, portVars
  <2>5. InflightAccounting'
    <3>1. \A d \in Dev : Busy(d)' = Busy(d) /\ Cardinality(Busy(d)) \in Nat
      BY <1>8, FiniteUsers DEF HandleEp0DequeueEnd, Busy
    <3> QED BY <1>8, <2>1, <2>2, <3>1 DEF HandleEp0DequeueEnd, InflightAccounting, TypeOK
  <2>6. RefCount' /\ LockedByEnum'
    BY <1>8 DEF HandleEp0DequeueEnd, RefCount, LockedByEnum, Holders, useVars, enumVars
  <2> QED BY <2>3, <2>4, <2>5, <2>6
<1>9. CASE HandleEp0Clear
  <2>1. dequeued = 0 /\ cur \in Dev
    BY <1>9, NothingDequeued DEF HandleEp0Clear, Action, Rank
  <2>2. /\ pc' \in Place /\ cur' \in Dev \cup {NoDev} /\ todo' \in SUBSET Action
        /\ ProcShape'
    BY <1>9, <2>1, FinishShape DEF HandleEp0Clear, Action, Rank
  <2>3. TypeOK'
    BY <1>9, <2>1, <2>2
       DEF HandleEp0Clear, TypeOK, listVars, doomVars, enumVars, useVars, portVars
  <2>4. RefCount' /\ InflightAccounting' /\ LockedByEnum'
    BY <1>9, <2>1, CountersKeptByDaemon DEF HandleEp0Clear, useVars, enumVars, Busy
  <2> QED BY <2>2, <2>3, <2>4
<1>10. CASE HandleFree
  <2>1. dequeued = 0 /\ cur \in Dev
    BY <1>10, NothingDequeued DEF HandleFree, Action, Rank
  <2>2. /\ pc' \in Place /\ cur' \in Dev \cup {NoDev} /\ todo' \in SUBSET Action
        /\ ProcShape'
    BY <1>10, <2>1, FinishShape DEF HandleFree, Action, Rank
  <2>3. TypeOK'
    <3>1. /\ isGone' \in [Dev -> BOOLEAN] /\ waitingFree' \in [Dev -> BOOLEAN]
          /\ enumLock' \in [Dev -> BOOLEAN] /\ state' \in [Dev -> DevState]
          /\ halted' \in [Dev -> BOOLEAN] /\ action' \in [Dev -> SUBSET Action]
      BY <1>10, <2>1 DEF HandleFree, TypeOK, DevState
    <3> QED BY <1>10, <2>1, <2>2, <3>1 DEF HandleFree, TypeOK, useVars
  <2>4. \A d \in Dev : enumLock'[d] => enumLock[d]
    BY <1>10, <2>1 DEF HandleFree, TypeOK
  <2>5. RefCount' /\ InflightAccounting' /\ LockedByEnum'
    BY <1>10, <2>1, <2>4, CountersKeptByDaemon DEF HandleFree, useVars, Busy
  <2> QED BY <2>2, <2>3, <2>5
<1> QED BY <1>1, <1>2, <1>4, <1>5, <1>6, <1>7, <1>8, <1>9, <1>10 DEF Daemon

-----------------------------------------------------------------------------
(* The steps of the hub driver, the enumeration driver, the clients and the HCD *)

\* The actions that are requested are device actions.
LEMMA SetActionsType ==
    ASSUME TypeOK, NEW d \in Dev, NEW F \in SUBSET Action, SetActions(d, F)
    PROVE  pending' \subseteq Dev /\ action' \in [Dev -> SUBSET Action] /\ procReq' \in BOOLEAN
  BY DEF TypeOK, SetActions

LEMMA HubKeepsAccounting ==
    ASSUME Accounting, Hub
    PROVE  Accounting'
<1> USE DEF Accounting
<1>1. ASSUME NEW d \in Dev, DevsAdd(d) PROVE Accounting'
  <2>1. TypeOK'
    BY <1>1 DEF DevsAdd, TypeOK, listVars, doomVars, enumVars, useVars, procVars, portVars
  <2>2. RefCount' /\ InflightAccounting' /\ ProcShape' /\ LockedByEnum'
    BY <1>1, CountersKept DEF DevsAdd, enumVars
  <2> QED BY <2>1, <2>2
<1>2. ASSUME NEW d \in Dev, DevsRemove(d) PROVE Accounting'
  <2>1. PICK F \in SUBSET Action : SetActions(d, F)
    BY <1>2 DEF DevsRemove, Action, Rank
  <2>2. TypeOK'
    BY <1>2, <2>1, SetActionsType
       DEF DevsRemove, TypeOK, enumVars, useVars, procVars, portVars
  <2>3. RefCount' /\ InflightAccounting' /\ ProcShape' /\ LockedByEnum'
    BY <1>2, CountersKept DEF DevsRemove, enumVars
  <2> QED BY <2>2, <2>3
<1> QED BY <1>1, <1>2 DEF Hub

\* What opening and closing leave alone.
LEMMA UrbsKept ==
    ASSUME Accounting, UNCHANGED <<inflight, xfer, procVars>>
    PROVE  InflightAccounting' /\ ProcShape'
<1> USE DEF Accounting, procVars
<1>1. InflightAccounting'
  BY DEF InflightAccounting, Busy
<1>2. ProcShape'
  BY DEF ProcShape, Due
<1> QED BY <1>1, <1>2

LEMMA EnumerationKeepsAccounting ==
    ASSUME Accounting, Enumeration
    PROVE  Accounting'
<1> USE DEF Accounting
<1>0. Enum \in Opener
  BY DEF Opener
<1>1. ASSUME NEW d \in Dev, EnumStart(d) PROVE Accounting'
  <2>1. d \notin held[Enum] /\ DevOpen(Enum, d) /\ openCount[d] = 0
    BY <1>1 DEF EnumStart
  <2>2. /\ openCount' \in [Dev -> Nat] /\ held' \in [Opener -> SUBSET Dev] /\ RefCount'
        /\ Holders(d)' = Holders(d) \cup {Enum}
        /\ \A e \in Dev \ {d} : Holders(e)' = Holders(e)
    BY <1>0, <2>1, OpenCounts
  <2>3. Holders(d) = {}
    <3>1. Cardinality(Holders(d)) = 0
      BY <2>1 DEF RefCount
    <3>2. IsFiniteSet(Holders(d))
      BY FiniteUsers DEF Holders
    <3> QED BY <3>1, <3>2, FS_EmptySet
  <2>4. TypeOK'
    BY <1>1, <2>2 DEF EnumStart, TypeOK, listVars, doomVars, procVars, portVars
  <2>5. LockedByEnum'
    BY <1>1, <2>2, <2>3 DEF EnumStart, LockedByEnum, TypeOK
  <2>6. InflightAccounting' /\ ProcShape'
    BY <1>1, UrbsKept DEF EnumStart
  <2> QED BY <2>2, <2>4, <2>5, <2>6
<1>2. ASSUME NEW d \in Dev, EnumAdvance(d) PROVE Accounting'
  <2>1. TypeOK'
    BY <1>2 DEF EnumAdvance, TypeOK, DevState, listVars, doomVars, useVars, procVars, portVars
  <2>2. RefCount' /\ InflightAccounting' /\ ProcShape' /\ LockedByEnum'
    BY <1>2, CountersKept DEF EnumAdvance
  <2> QED BY <2>1, <2>2
<1>3. ASSUME NEW d \in Dev, NEW X \in SUBSET Action, EnumRelease(d, X) PROVE Accounting'
  <2>1. d \in held[Enum] /\ DevClose(Enum, d, X)
    BY <1>3 DEF EnumRelease, LockedByEnum, Holders
  <2>2. /\ openCount' \in [Dev -> Nat] /\ held' \in [Opener -> SUBSET Dev] /\ RefCount'
        /\ \A e \in Dev \ {d} : Holders(e)' = Holders(e)
        /\ pending' \subseteq Dev /\ action' \in [Dev -> SUBSET Action]
        /\ procReq' \in BOOLEAN
    BY <1>0, <2>1, CloseCounts
  <2>3. TypeOK'
    BY <1>3, <2>2 DEF EnumRelease, TypeOK, doomVars, procVars, portVars
  <2>4. LockedByEnum'
    BY <1>3, <2>2 DEF EnumRelease, LockedByEnum, TypeOK
  <2>5. InflightAccounting' /\ ProcShape'
    BY <1>3, UrbsKept DEF EnumRelease
  <2> QED BY <2>2, <2>3, <2>4, <2>5
<1>4. ASSUME NEW d \in Dev, EnumCancel(d) \/ EnumComplete(d) PROVE Accounting'
  BY <1>3, <1>4 DEF EnumCancel, EnumComplete, Action, Rank
<1> QED BY <1>1, <1>2, <1>4 DEF Enumeration

LEMMA ClientsKeepAccounting ==
    ASSUME Accounting, Clients
    PROVE  Accounting'
<1> USE DEF Accounting
<1>1. ASSUME NEW c \in Client, NEW d \in Dev, Open(c, d) PROVE Accounting'
  <2>1. c \in Opener /\ d \notin held[c] /\ DevOpen(c, d) /\ ~enumLock[d]
    BY <1>1 DEF Open, Opener, DevOpen
  <2>2. /\ openCount' \in [Dev -> Nat] /\ held' \in [Opener -> SUBSET Dev] /\ RefCount'
        /\ \A e \in Dev \ {d} : Holders(e)' = Holders(e)
    BY <2>1, OpenCounts
  <2>3. TypeOK'
    BY <1>1, <2>2 DEF Open, TypeOK, listVars, doomVars, enumVars, procVars, portVars
  <2>4. LockedByEnum'
    BY <1>1, <2>1, <2>2 DEF Open, LockedByEnum, enumVars
  <2>5. InflightAccounting' /\ ProcShape'
    BY <1>1, UrbsKept DEF Open
  <2> QED BY <2>2, <2>3, <2>4, <2>5
<1>2. ASSUME NEW c \in Client, NEW d \in Dev, Close(c, d) PROVE Accounting'
  <2>1. c \in Opener /\ d \in held[c] /\ DevClose(c, d, {}) /\ ~enumLock[d]
    BY <1>2 DEF Close, Opener
  <2>2. /\ openCount' \in [Dev -> Nat] /\ held' \in [Opener -> SUBSET Dev] /\ RefCount'
        /\ \A e \in Dev \ {d} : Holders(e)' = Holders(e)
        /\ pending' \subseteq Dev /\ action' \in [Dev -> SUBSET Action]
        /\ procReq' \in BOOLEAN
    BY <2>1, CloseCounts
  <2>3. TypeOK'
    BY <1>2, <2>2 DEF Close, TypeOK, doomVars, enumVars, procVars, portVars
  <2>4. LockedByEnum'
    BY <1>2, <2>1, <2>2 DEF Close, LockedByEnum, enumVars
  <2>5. InflightAccounting' /\ ProcShape'
    BY <1>2, UrbsKept DEF Close
  <2> QED BY <2>2, <2>3, <2>4, <2>5
<1>3. CASE MarkAllFree
  <2>1. pending' \subseteq Dev /\ action' \in [Dev -> SUBSET Action] /\ procReq' \in BOOLEAN
    BY <1>3 DEF MarkAllFree, TypeOK, Action, Rank
  <2>2. TypeOK'
    BY <1>3, <2>1 DEF MarkAllFree, TypeOK, enumVars, useVars, procVars, portVars
  <2>3. RefCount' /\ InflightAccounting' /\ ProcShape' /\ LockedByEnum'
    BY <1>3, CountersKept DEF MarkAllFree, enumVars
  <2> QED BY <2>2, <2>3
<1> QED BY <1>1, <1>2, <1>3 DEF Clients

\* A URB starts or stops being under way, and is counted with it.
LEMMA CountedWithUrb ==
    ASSUME Accounting, NEW d \in Dev, NEW n \in {1, -1},
           inflight' = [inflight EXCEPT ![d] = @ + n],
           Cardinality(Busy(d)') = Cardinality(Busy(d)) + n,
           \A e \in Dev \ {d} : Busy(e)' = Busy(e),
           UNCHANGED <<useVars, enumVars, procVars>>
    PROVE  inflight' \in [Dev -> Nat] /\ RefCount' /\ InflightAccounting' /\ ProcShape'
           /\ LockedByEnum'
<1> USE DEF Accounting, TypeOK, useVars, enumVars, procVars
<1>1. \A e \in Dev : Cardinality(Busy(e)) \in Nat /\ Cardinality(Busy(e)') \in Nat
  BY FiniteUsers DEF Busy
<1>2. inflight'[d] = Cardinality(Busy(d)') + (IF d = cur THEN dequeued ELSE 0)
  BY <1>1 DEF InflightAccounting
<1>3. \A e \in Dev \ {d} : inflight'[e] = inflight[e]
  OBVIOUS
<1>4. inflight' \in [Dev -> Nat]
  BY <1>1, <1>2
<1>5. InflightAccounting'
  BY <1>2, <1>3 DEF InflightAccounting
<1>6. RefCount' /\ ProcShape' /\ LockedByEnum'
  BY DEF RefCount, ProcShape, LockedByEnum, Holders, Due
<1> QED BY <1>4, <1>5, <1>6

LEMMA SubmissionKeepsAccounting ==
    ASSUME Accounting, Submission
    PROVE  Accounting'
<1> USE DEF Accounting
<1>1. ASSUME NEW o \in Opener, NEW d \in Dev, SubmitCount(o, d) PROVE Accounting'
  <2>1. /\ Cardinality(Busy(d)') = Cardinality(Busy(d)) + 1
        /\ \A e \in Dev \ {d} : Busy(e)' = Busy(e)
    BY <1>1, BusyGrows DEF SubmitCount, XferState
  <2>2. inflight' \in [Dev -> Nat] /\ RefCount' /\ InflightAccounting' /\ ProcShape'
        /\ LockedByEnum'
    BY <1>1, <2>1, CountedWithUrb DEF SubmitCount
  <2>3. TypeOK'
    BY <1>1, <2>2 DEF SubmitCount, TypeOK, XferState, listVars, doomVars, enumVars,
                      useVars, procVars, portVars
  <2> QED BY <2>2, <2>3
<1>2. ASSUME NEW o \in Opener, NEW d \in Dev, SubmitFail(o, d) PROVE Accounting'
  <2>1. /\ Cardinality(Busy(d)') = Cardinality(Busy(d)) - 1
        /\ Cardinality(Busy(d)') \in Nat
        /\ \A e \in Dev \ {d} : Busy(e)' = Busy(e)
    BY <1>2, BusyShrinks DEF SubmitFail
  <2>2. /\ Cardinality(Busy(d)') = Cardinality(Busy(d)) + (-1)
        /\ inflight' = [inflight EXCEPT ![d] = @ + (-1)]
    <3>1. Cardinality(Busy(d)) \in Nat
      BY FiniteUsers DEF Busy
    <3> QED BY <1>2, <2>1, <3>1 DEF SubmitFail, TypeOK
  <2>3. inflight' \in [Dev -> Nat] /\ RefCount' /\ InflightAccounting' /\ ProcShape'
        /\ LockedByEnum'
    BY <1>2, <2>1, <2>2, CountedWithUrb DEF SubmitFail
  <2>4. TypeOK'
    BY <1>2, <2>3 DEF SubmitFail, TypeOK, XferState, listVars, doomVars, enumVars,
                      useVars, procVars, portVars
  <2> QED BY <2>3, <2>4
<1>3. ASSUME NEW o \in Opener, NEW d \in Dev, SubmitEnqueue(o, d) PROVE Accounting'
  <2>1. \A e \in Dev : Busy(e)' = Busy(e) /\ Holders(e)' = Holders(e)
    BY <1>3 DEF SubmitEnqueue, Busy, Holders, TypeOK, useVars
  <2>2. TypeOK'
    BY <1>3 DEF SubmitEnqueue, TypeOK, XferState, listVars, doomVars, enumVars,
                useVars, procVars, portVars
  <2>3. RefCount' /\ InflightAccounting' /\ ProcShape' /\ LockedByEnum'
    BY <1>3, <2>1 DEF SubmitEnqueue, RefCount, InflightAccounting, ProcShape,
                      LockedByEnum, Due, enumVars, useVars, procVars
  <2> QED BY <2>2, <2>3
<1> QED BY <1>1, <1>2, <1>3 DEF Submission

LEMMA HcdKeepsAccounting ==
    ASSUME Accounting, Hcd
    PROVE  Accounting'
<1> USE DEF Accounting
<1>1. CASE PortLost
  <2>1. TypeOK'
    BY <1>1 DEF PortLost, TypeOK, listVars, doomVars, enumVars, useVars, procVars
  <2>2. RefCount' /\ InflightAccounting' /\ ProcShape' /\ LockedByEnum'
    BY <1>1, CountersKept DEF PortLost, enumVars
  <2> QED BY <2>1, <2>2
<1>2. ASSUME NEW o \in Opener, NEW d \in Dev,
             NEW event \in {"URB_DONE", "ERROR_STALL", "ERROR_XFER"}, UrbDone(o, d, event)
      PROVE  Accounting'
  <2>1. \A e \in Dev : Busy(e)' = Busy(e) /\ Holders(e)' = Holders(e)
    BY <1>2 DEF UrbDone, Busy, Holders, TypeOK, useVars
  <2>2. EventActions(event) \in SUBSET Action
    BY DEF EventActions, Action, Rank
  <2>3. pending' \subseteq Dev /\ action' \in [Dev -> SUBSET Action] /\ procReq' \in BOOLEAN
    BY <1>2, <2>2, SetActionsType DEF UrbDone
  <2>4. TypeOK'
    BY <1>2, <2>3 DEF UrbDone, TypeOK, XferState, doomVars, enumVars, useVars, procVars, portVars
  <2>5. RefCount' /\ InflightAccounting' /\ ProcShape' /\ LockedByEnum'
    BY <1>2, <2>1 DEF UrbDone, RefCount, InflightAccounting, ProcShape,
                      LockedByEnum, Due, enumVars, useVars, procVars
  <2> QED BY <2>4, <2>5
<1> QED BY <1>1, <1>2 DEF Hcd

-----------------------------------------------------------------------------
(* The theorem, and the properties it gives *)

LEMMA StutterKeepsAccounting ==
    ASSUME Accounting, UNCHANGED vars
    PROVE  Accounting'
<1> USE DEF Accounting, vars
<1>1. TypeOK'
  BY DEF TypeOK, listVars, doomVars, enumVars, useVars, procVars, portVars
<1>2. RefCount' /\ InflightAccounting' /\ ProcShape' /\ LockedByEnum'
  BY CountersKept DEF enumVars
<1> QED BY <1>1, <1>2

\* Whatever clients, daemon, hub and HCD do in whatever order, open_count and
\* num_ctrl_xfers_inflight count exactly the users and the URBs under way.
THEOREM AccountingHolds == Spec => []Accounting
<1>1. Init => Accounting
  BY AccountingInit
<1>2. Accounting /\ [Next]_vars => Accounting'
  BY DaemonKeepsAccounting, HubKeepsAccounting, EnumerationKeepsAccounting,
     ClientsKeepAccounting, SubmissionKeepsAccounting, HcdKeepsAccounting,
     StutterKeepsAccounting DEF Next
<1> QED BY <1>1, <1>2, PTL DEF Spec

\* Type correctness of the device objects: no counter goes below zero.
THEOREM TypeCorrect == Spec => []TypeOK
<1>1. Accounting => TypeOK
  BY DEF Accounting
<1> QED BY <1>1, AccountingHolds, PTL

\* open_count is the number of handles in use (usbh_devs_open, usbh_dev_close), and
\* num_ctrl_xfers_inflight that of the URBs that were submitted and are not yet
\* accounted as dequeued (usbh_dev_submit_ctrl_urb, handle_ep0_dequeue).
THEOREM CountersHold == Spec => []CountersAreExact
<1>1. Accounting => CountersAreExact
  BY DEF Accounting, CountersAreExact
<1> QED BY <1>1, AccountingHolds, PTL

\* The assertion of usbh_dev_enum_unlock() never fails.
THEOREM EnumeratorIsSoleOpener == Spec => []EnumSoleOpener
<1>1. Accounting => EnumSoleOpener
  BY FS_Singleton DEF Accounting, EnumSoleOpener, LockedByEnum, RefCount
<1> QED BY <1>1, AccountingHolds, PTL
-----------------------------------------------------------------------------
(***************************************************************************)
(* The life of the device objects: nobody uses one that was freed, none    *)
(* leaks, and no request is lost (LifeIsSafe), and they implement          *)
(* DeviceLife.  Both need what the firmware guarantees only by its         *)
(* configuration: that the daemon is not interrupted by clients while it   *)
(* dequeues EP0, and that it is who calls usb_host_device_free_all().      *)
(***************************************************************************)

\* Who has a transfer under way has the device open.
XferHeld  == \A o \in Opener, d \in Dev : xfer[o][d] # "none" => d \in held[o]
HeldAlive == \A o \in Opener : held[o] \subseteq alive
ListAlive == pending \subseteq alive /\ cur \in alive \cup {NoDev}

\* An object that calloc() returns has no flags.
Fresh == \A d \in Dev \ alive : ~isGone[d] /\ ~waitingFree[d]

\* A device that is to be freed is not open, and nobody can open it: its flags
\* forbid that, or free_all has just been called, and neither a client may open it
\* nor is the hub driver or the enumeration driver run before it is freed.
FreeIsFinal ==
    \A d \in Dev : FreeRequested(d) =>
        /\ Holders(d) = {}
        /\ isGone[d] \/ waitingFree[d] \/ (freeing /\ pc \notin {"hub", "enum"})

NoneLeaks ==
    \A d \in alive : (isGone[d] \/ waitingFree[d]) /\ Holders(d) = {} => FreeRequested(d)

LifeKept ==
    /\ XferHeld /\ HeldAlive /\ ListAlive /\ NoLostRequest
    /\ Fresh /\ FreeIsFinal /\ NoneLeaks

LifeInv == Accounting /\ LifeKept

-----------------------------------------------------------------------------
(* Lemmas *)

\* What open_count tells of the users of a device.
LEMMA CountTells ==
    ASSUME TypeOK, RefCount, NEW d \in Dev
    PROVE  /\ openCount[d] = 0 <=> Holders(d) = {}
           /\ \A o \in Holders(d) : openCount[d] = 1 <=> Holders(d) \ {o} = {}
<1>1. IsFiniteSet(Holders(d)) /\ openCount[d] = Cardinality(Holders(d))
  BY FiniteUsers DEF Holders, RefCount
<1>2. openCount[d] = 0 <=> Holders(d) = {}
  BY <1>1, FS_EmptySet
<1>3. ASSUME NEW o \in Holders(d)
      PROVE  openCount[d] = 1 <=> Holders(d) \ {o} = {}
  <2>1. /\ IsFiniteSet(Holders(d) \ {o})
        /\ Cardinality(Holders(d) \ {o}) = Cardinality(Holders(d)) - 1
    BY <1>1, FS_RemoveElement
  <2>2. Cardinality(Holders(d) \ {o}) = 0 <=> Holders(d) \ {o} = {}
    BY <2>1, FS_EmptySet
  <2>3. openCount[d] \in Nat
    BY DEF TypeOK
  <2> QED BY <1>1, <2>1, <2>2, <2>3
<1> QED BY <1>2, <1>3

\* A device without users has no transfers under way.
LEMMA UnusedIsIdle ==
    ASSUME XferHeld, NEW d \in Dev, Holders(d) = {}
    PROVE  Busy(d) = {}
  BY DEF XferHeld, Holders, Busy

LEMMA LifeInvIsSafe == LifeInv => LifeIsSafe
<1> SUFFICES ASSUME LifeInv PROVE LifeIsSafe
  OBVIOUS
<1> USE DEF LifeInv, LifeKept
<1>1. NoUseAfterFree
  BY DEF NoUseAfterFree, XferHeld, HeldAlive, ListAlive, Busy
<1>2. FreedWhenUnused
  BY UnusedIsIdle DEF FreedWhenUnused, FreeIsFinal, NoneLeaks
<1>3. CloseSanity
  <2> SUFFICES ASSUME NEW d \in Dev, openCount[d] = 0
               PROVE  inflight[d] = IF d = cur THEN dequeued ELSE 0
    BY DEF CloseSanity
  <2>1. Holders(d) = {} /\ Busy(d) = {}
    BY CountTells, UnusedIsIdle DEF Accounting
  <2>2. Cardinality(Busy(d)) = 0
    BY <2>1, FS_EmptySet
  <2>3. inflight[d] = Cardinality(Busy(d)) + (IF d = cur THEN dequeued ELSE 0)
    BY DEF Accounting, InflightAccounting
  <2> QED BY <2>2, <2>3 DEF Accounting, TypeOK
<1> QED BY <1>1, <1>2, <1>3 DEF LifeIsSafe

LEMMA LifeInit == Init => LifeInv
<1> SUFFICES ASSUME Init PROVE LifeInv
  OBVIOUS
<1>1. Accounting
  BY AccountingInit
<1>2. XferHeld /\ HeldAlive /\ ListAlive /\ NoLostRequest /\ Fresh
  BY DEF Init, XferHeld, HeldAlive, ListAlive, NoLostRequest, Fresh
<1>3. FreeIsFinal /\ NoneLeaks
  BY DEF Init, FreeIsFinal, FreeRequested, NoneLeaks
<1> QED BY <1>1, <1>2, <1>3 DEF LifeInv, LifeKept

\* What a request adds to the actions of its device, while the daemon stays where
\* it is.
LEMMA Requests ==
    ASSUME TypeOK, NoLostRequest, NEW d \in Dev, NEW F \in SUBSET Action, F # {},
           SetActions(d, F), UNCHANGED procVars
    PROVE  /\ NoLostRequest'
           /\ \A e \in Dev : FreeRequested(e)' <=> FreeRequested(e) \/ (e = d /\ "FREE" \in F)
<1> USE DEF TypeOK, SetActions, procVars
<1>1. \A e \in Dev : action'[e] = IF e = d THEN action[d] \cup F ELSE action[e]
  OBVIOUS
<1>2. NoLostRequest'
  BY <1>1 DEF NoLostRequest
<1>3. \A e \in Dev : FreeRequested(e)' <=> FreeRequested(e) \/ (e = d /\ "FREE" \in F)
  BY <1>1 DEF FreeRequested
<1> QED BY <1>2, <1>3

\* To have handled other actions leaves a request to free its device.
LEMMA FinishKeepsFree ==
    ASSUME NEW F \in SUBSET Action, "FREE" \notin F, Finish(F)
    PROVE  \A d \in Dev : (d = cur /\ "FREE" \in todo)' <=> (d = cur /\ "FREE" \in todo)
  BY DEF Finish

-----------------------------------------------------------------------------
(* The steps of the daemon *)

LEMMA DaemonKeepsLife ==
    ASSUME LifeInv, Daemon
    PROVE  LifeKept'
<1> USE DEF LifeInv, Accounting
<1>1. CASE Wake
  <2>1. /\ \A d \in Dev : Holders(d)' = Holders(d) /\ (FreeRequested(d)' <=> FreeRequested(d))
        /\ pc = "top" /\ cur = NoDev /\ dequeued' = 0
    BY <1>1 DEF Wake, Holders, FreeRequested, useVars, ProcShape, Due, TypeOK
  <2>2. XferHeld' /\ HeldAlive' /\ ListAlive' /\ Fresh' /\ NoneLeaks'
    BY <1>1, <2>1 DEF Wake, LifeKept, XferHeld, HeldAlive, ListAlive, Fresh, NoneLeaks,
                      TypeOK, useVars, doomVars
  <2>3. NoLostRequest'
    BY <1>1 DEF Wake, LifeKept, NoLostRequest
  <2>4. FreeIsFinal'
    <3>1. CASE procReq
      BY <1>1, <2>1, <3>1 DEF Wake, LifeKept, FreeIsFinal, doomVars
    <3>2. CASE ~procReq
      <4>1. \A d \in Dev : ~FreeRequested(d)
        BY <2>1, <3>2, DistinctNames DEF LifeKept, NoLostRequest, FreeRequested
      <4> QED BY <2>1, <4>1 DEF FreeIsFinal
    <3> QED BY <3>1, <3>2
  <2> QED BY <2>2, <2>3, <2>4 DEF LifeKept
<1>2. ASSUME NEW d \in Dev, ProcTake(d) PROVE LifeKept'
  <2>1. cur = NoDev /\ dequeued' = 0 /\ d \in alive
    BY <1>2 DEF ProcTake, ProcShape, Due, TypeOK, LifeKept, ListAlive
  <2>2. \A e \in Dev : Holders(e)' = Holders(e) /\ (FreeRequested(e)' <=> FreeRequested(e))
    BY <1>2, <2>1, DistinctNames DEF ProcTake, Holders, FreeRequested, useVars, TypeOK
  <2>3. XferHeld' /\ HeldAlive' /\ ListAlive' /\ Fresh' /\ NoneLeaks'
    BY <1>2, <2>1, <2>2 DEF ProcTake, LifeKept, XferHeld, HeldAlive, ListAlive, Fresh,
                            NoneLeaks, TypeOK, useVars, doomVars
  <2>4. NoLostRequest'
    BY <1>2 DEF ProcTake, LifeKept, NoLostRequest, TypeOK
  <2>5. FreeIsFinal'
    BY <1>2, <2>2 DEF ProcTake, LifeKept, FreeIsFinal, doomVars
  <2> QED BY <2>3, <2>4, <2>5 DEF LifeKept
<1>3. CASE ProcEnd \/ HubEnd \/ EnumEnd
  <2>1. /\ UNCHANGED <<alive, listVars, doomVars, useVars, xfer, cur, todo, dequeued, freeing>>
        /\ cur = NoDev /\ dequeued = 0
        /\ \/ pc = "loop" /\ pc' = "hub" /\ pending = {}
           \/ pc = "hub" /\ pc' = "enum"
           \/ pc = "enum" /\ pc' = "top"
    BY <1>3 DEF ProcEnd, HubEnd, EnumEnd, NextPart, ProcShape, Due, TypeOK
  <2>2. \A d \in Dev : Holders(d)' = Holders(d) /\ (FreeRequested(d)' <=> FreeRequested(d))
    BY <2>1 DEF Holders, FreeRequested, useVars, listVars
  <2>3. XferHeld' /\ HeldAlive' /\ ListAlive' /\ Fresh' /\ NoneLeaks'
    BY <2>1, <2>2 DEF LifeKept, XferHeld, HeldAlive, ListAlive, Fresh, NoneLeaks,
                      TypeOK, useVars, doomVars, listVars
  <2>4. NoLostRequest'
    BY <2>1 DEF LifeKept, NoLostRequest, listVars
  <2>5. FreeIsFinal'
    <3>1. pc = "loop" => \A d \in Dev : ~FreeRequested(d)
      BY <2>1, DistinctNames DEF LifeKept, NoLostRequest, FreeRequested
    <3> QED BY <2>1, <2>2, <3>1 DEF LifeKept, FreeIsFinal, doomVars
  <2> QED BY <2>3, <2>4, <2>5 DEF LifeKept
<1>4. ASSUME NEW a \in Action, HandleSimple(a) \/ (a = "EP0_CLEAR" /\ HandleEp0Clear)
      PROVE LifeKept'
  <2>1. /\ UNCHANGED <<alive, listVars, doomVars, useVars, xfer, dequeued, freeing>>
        /\ Due(a) /\ Finish({a}) /\ a # "FREE" /\ a # "EP0_DEQUEUE"
    BY <1>4 DEF HandleSimple, HandleEp0Clear
  <2>2. dequeued = 0 /\ cur \in Dev
    BY <2>1, NothingDequeued
  <2>3. \A d \in Dev : Holders(d)' = Holders(d) /\ (FreeRequested(d)' <=> FreeRequested(d))
    BY <2>1, FinishKeepsFree DEF Holders, FreeRequested, useVars, listVars
  <2>4. pc = "handle" /\ pc' \in {"loop", "handle"} /\ cur' \in {cur, NoDev}
    BY <2>1 DEF Due, Finish
  <2>5. XferHeld' /\ HeldAlive' /\ ListAlive' /\ Fresh' /\ NoneLeaks'
    BY <2>1, <2>2, <2>3, <2>4 DEF LifeKept, XferHeld, HeldAlive, ListAlive, Fresh, NoneLeaks,
                      TypeOK, useVars, doomVars, listVars
  <2>6. NoLostRequest' /\ FreeIsFinal'
    BY <2>1, <2>3, <2>4 DEF LifeKept, NoLostRequest, FreeIsFinal, listVars, doomVars
  <2> QED BY <2>5, <2>6 DEF LifeKept
<1>5. CASE HandleEp0Flush
  <2>1. /\ Due("EP0_FLUSH") /\ Finish({"EP0_FLUSH"}) /\ "EP0_FLUSH" \in Action
        /\ UNCHANGED <<alive, doomVars, useVars, dequeued, freeing>>
    BY <1>5 DEF HandleEp0Flush, Action, Rank
  <2>2. dequeued = 0 /\ cur \in Dev /\ cur \in alive
    BY <2>1, NothingDequeued, DistinctNames DEF LifeKept, ListAlive
  <2>3. pc = "handle" /\ pc' \in {"loop", "handle"} /\ cur' \in {cur, NoDev}
    BY <2>1 DEF Due, Finish
  <2>4. /\ pending \subseteq pending' /\ pending' \subseteq pending \cup {cur}
        /\ \A d \in Dev : action'[d] # {} <=> d \in pending'
        /\ \A d \in Dev : "FREE" \in action'[d] <=> "FREE" \in action[d]
    <3>1. CASE UNCHANGED listVars
      BY <3>1 DEF LifeKept, NoLostRequest, listVars
    <3>2. CASE SetActions(cur, {"EP0_DEQUEUE"})
      BY <2>2, <3>2 DEF LifeKept, NoLostRequest, SetActions, TypeOK
    <3> QED BY <1>5, <3>1, <3>2 DEF HandleEp0Flush
  <2>5. \A d \in Dev : Holders(d)' = Holders(d) /\ (FreeRequested(d)' <=> FreeRequested(d))
    BY <2>1, <2>4, FinishKeepsFree DEF Holders, FreeRequested, useVars
  <2>6. XferHeld'
    BY <1>5, <2>1, <2>2 DEF HandleEp0Flush, LifeKept, XferHeld, TypeOK, useVars
  <2>7. HeldAlive' /\ ListAlive' /\ Fresh' /\ NoneLeaks'
    BY <2>1, <2>2, <2>3, <2>4, <2>5 DEF LifeKept, HeldAlive, ListAlive, Fresh, NoneLeaks,
                      TypeOK, useVars, doomVars
  <2>8. NoLostRequest' /\ FreeIsFinal'
    BY <2>1, <2>3, <2>4, <2>5 DEF LifeKept, NoLostRequest, FreeIsFinal, doomVars
  <2> QED BY <2>6, <2>7, <2>8 DEF LifeKept
<1>6. ASSUME NEW o \in Opener, HandleEp0Dequeue(o) PROVE LifeKept'
  <2>1. cur \in Dev /\ xfer[o][cur] # "none"
    BY <1>6 DEF HandleEp0Dequeue, Due, ProcShape
  <2>2. /\ \A d \in Dev : Holders(d)' = Holders(d) /\ (FreeRequested(d)' <=> FreeRequested(d))
        /\ UNCHANGED <<alive, listVars, doomVars, useVars, pc, cur, todo, freeing>>
    BY <1>6 DEF HandleEp0Dequeue, Holders, FreeRequested, useVars, listVars
  <2>3. XferHeld'
    BY <1>6, <2>1, <2>2 DEF HandleEp0Dequeue, LifeKept, XferHeld, TypeOK,
                            useVars, Holders
  <2>4. HeldAlive' /\ ListAlive' /\ Fresh' /\ NoneLeaks' /\ NoLostRequest' /\ FreeIsFinal'
    BY <2>2 DEF LifeKept, HeldAlive, ListAlive, Fresh, NoneLeaks, NoLostRequest, FreeIsFinal, TypeOK,
                useVars, doomVars, listVars
  <2> QED BY <2>3, <2>4 DEF LifeKept
<1>7. CASE HandleEp0DequeueEnd
  <2>1. /\ Due("EP0_DEQUEUE") /\ Finish({"EP0_DEQUEUE"}) /\ "EP0_DEQUEUE" \in Action
        /\ UNCHANGED <<alive, listVars, doomVars, useVars, xfer, freeing>> /\ dequeued' = 0
    BY <1>7 DEF HandleEp0DequeueEnd, Action, Rank
  <2>2. pc = "handle" /\ pc' \in {"loop", "handle"} /\ cur' \in {cur, NoDev}
    BY <2>1 DEF Due, Finish
  <2>3. \A d \in Dev : Holders(d)' = Holders(d) /\ (FreeRequested(d)' <=> FreeRequested(d))
    BY <2>1, FinishKeepsFree DEF Holders, FreeRequested, useVars, listVars
  <2>4. XferHeld' /\ HeldAlive' /\ ListAlive' /\ Fresh' /\ NoneLeaks'
    BY <2>1, <2>2, <2>3 DEF LifeKept, XferHeld, HeldAlive, ListAlive, Fresh, NoneLeaks,
                      TypeOK, useVars, doomVars, listVars
  <2>5. NoLostRequest' /\ FreeIsFinal'
    BY <2>1, <2>2, <2>3 DEF LifeKept, NoLostRequest, FreeIsFinal, listVars, doomVars
  <2> QED BY <2>4, <2>5 DEF LifeKept
<1>8. CASE HandleFree
  <2>1. /\ dequeued = 0 /\ dequeued' = 0 /\ cur \in Dev /\ Due("FREE")
        /\ todo' = {} /\ pc' = "loop" /\ cur' = NoDev
    <3>1. Due("FREE") /\ Finish({"FREE", "PROP_NEW_DEV"}) /\ UNCHANGED dequeued
      BY <1>8 DEF HandleFree
    <3>2. todo \subseteq {"FREE", "PROP_NEW_DEV"}
      BY <3>1 DEF Due, Rank, Action, TypeOK
    <3>3. dequeued = 0 /\ cur \in Dev
      BY <3>1, NothingDequeued DEF Action, Rank
    <3> QED BY <3>1, <3>2, <3>3 DEF Finish
  <2>2. Holders(cur) = {} /\ Busy(cur) = {}
    BY <2>1, UnusedIsIdle DEF LifeKept, FreeIsFinal, FreeRequested, Due
  <2>3. UNCHANGED <<held, xfer>> /\ alive' = alive \ {cur} /\ pending' = pending \ {cur}
    BY <1>8 DEF HandleFree, useVars
  <2>4. \A d \in Dev : Holders(d)' = Holders(d)
    BY <2>3 DEF Holders
  <2>5. \A d \in Dev : /\ action'[d] = IF d = cur THEN {} ELSE action[d]
                       /\ isGone'[d] = IF d = cur THEN FALSE ELSE isGone[d]
                       /\ waitingFree'[d] = IF d = cur THEN FALSE ELSE waitingFree[d]
    BY <1>8, <2>1 DEF HandleFree, TypeOK
  <2>6. XferHeld' /\ HeldAlive' /\ ListAlive' /\ Fresh'
    BY <2>1, <2>2, <2>3, <2>5 DEF LifeKept, XferHeld, HeldAlive, ListAlive, Fresh,
                                  Holders
  <2>7. NoLostRequest'
    BY <2>1, <2>3, <2>5 DEF LifeKept, NoLostRequest
  <2>8. \A d \in Dev : FreeRequested(d)' <=> d # cur /\ FreeRequested(d)
    BY <2>1, <2>5, DistinctNames DEF FreeRequested
  <2>9. NoneLeaks'
    BY <2>3, <2>4, <2>5, <2>8 DEF LifeKept, NoneLeaks, TypeOK
  <2>10. FreeIsFinal'
    <3>1. ASSUME NEW d \in Dev, FreeRequested(d)'
          PROVE  /\ Holders(d)' = {}
                 /\ isGone'[d] \/ waitingFree'[d] \/ (freeing' /\ pc' \notin {"hub", "enum"})
      <4>1. d # cur /\ d \in pending /\ d \in alive'
        BY <2>3, <2>8, <3>1 DEF FreeRequested, LifeKept, NoLostRequest, ListAlive
      <4>2. freeing' = freeing
        BY <1>8, <4>1 DEF HandleFree, TypeOK
      <4> QED BY <2>1, <2>4, <2>5, <2>8, <3>1, <4>1, <4>2 DEF LifeKept, FreeIsFinal
    <3> QED BY <3>1 DEF FreeIsFinal
  <2> QED BY <2>6, <2>7, <2>9, <2>10 DEF LifeKept
<1> QED BY <1>1, <1>2, <1>3, <1>4, <1>5, <1>6, <1>7, <1>8 DEF Daemon, Action, Rank
-----------------------------------------------------------------------------
(* The steps of the hub driver, the enumeration driver, the clients and the HCD *)

LEMMA HubKeepsLife ==
    ASSUME LifeInv, Hub
    PROVE  LifeKept'
<1> USE DEF LifeInv, Accounting
<1>1. ASSUME NEW d \in Dev, DevsAdd(d) PROVE LifeKept'
  <2>1. /\ UNCHANGED <<listVars, doomVars, useVars, xfer, procVars, freeing>>
        /\ alive' = alive \cup {d} /\ d \notin alive
    BY <1>1 DEF DevsAdd
  <2>2. \A e \in Dev : Holders(e)' = Holders(e) /\ (FreeRequested(e)' <=> FreeRequested(e))
    BY <2>1 DEF Holders, FreeRequested, useVars, listVars, procVars
  <2>3. XferHeld' /\ HeldAlive' /\ ListAlive' /\ Fresh'
    BY <2>1 DEF LifeKept, XferHeld, HeldAlive, ListAlive, Fresh, TypeOK,
                Holders, useVars, doomVars, listVars, procVars
  <2>4. NoLostRequest' /\ FreeIsFinal'
    BY <2>1, <2>2 DEF LifeKept, NoLostRequest, FreeIsFinal, listVars, doomVars, procVars
  <2>5. NoneLeaks'
    BY <2>1, <2>2 DEF LifeKept, NoneLeaks, Fresh, TypeOK, doomVars
  <2> QED BY <2>3, <2>4, <2>5 DEF LifeKept
<1>2. ASSUME NEW d \in Dev, DevsRemove(d) PROVE LifeKept'
  <2>1. /\ UNCHANGED <<alive, waitingFree, useVars, xfer, procVars, freeing>> /\ d \in alive
        /\ isGone' = [isGone EXCEPT ![d] = TRUE]
    BY <1>2 DEF DevsRemove
  <2>2. PICK F \in SUBSET Action :
            SetActions(d, F) /\ F # {} /\ ("FREE" \in F <=> openCount[d] = 0)
    BY <1>2 DEF DevsRemove, Action, Rank
  <2>3. NoLostRequest' /\ \A e \in Dev :
            FreeRequested(e)' <=> FreeRequested(e) \/ (e = d /\ Holders(d) = {})
    BY <2>1, <2>2, Requests, CountTells DEF LifeKept
  <2>4. \A e \in Dev : Holders(e)' = Holders(e)
    BY <2>1 DEF Holders, useVars
  <2>5. XferHeld' /\ HeldAlive' /\ ListAlive' /\ Fresh'
    BY <2>1, <2>2 DEF LifeKept, XferHeld, HeldAlive, ListAlive, Fresh, TypeOK,
                Holders, SetActions, useVars, procVars
  <2>6. FreeIsFinal' /\ NoneLeaks'
    BY <2>1, <2>3, <2>4 DEF LifeKept, FreeIsFinal, NoneLeaks, TypeOK, procVars
  <2> QED BY <2>3, <2>5, <2>6 DEF LifeKept
<1> QED BY <1>1, <1>2 DEF Hub

\* A device is opened by somebody who may: it is not about to be freed.
LEMMA OpenKeepsLife ==
    ASSUME LifeInv, NEW o \in Opener, NEW d \in Dev, DevOpen(o, d),
           ~freeing \/ pc \in {"hub", "enum"},
           UNCHANGED <<alive, listVars, doomVars, xfer, procVars, freeing>>
    PROVE  LifeKept'
<1> USE DEF LifeInv, Accounting, LifeKept
<1>1. held' = [held EXCEPT ![o] = @ \cup {d}] /\ d \in alive /\ ~isGone[d] /\ ~waitingFree[d]
  BY DEF DevOpen
<1>2. \A e \in Dev : FreeRequested(e)' <=> FreeRequested(e)
  BY DEF FreeRequested, listVars, procVars
<1>3. /\ \A e \in Dev \ {d} : Holders(e)' = Holders(e)
      /\ Holders(d)' = Holders(d) \cup {o}
  BY <1>1 DEF Holders, TypeOK
<1>4. XferHeld' /\ HeldAlive' /\ ListAlive' /\ Fresh'
  BY <1>1 DEF XferHeld, HeldAlive, ListAlive, Fresh, TypeOK, listVars, doomVars, procVars
<1>6. NoLostRequest'
  BY DEF NoLostRequest, listVars, procVars
<1>7. FreeIsFinal'
  BY <1>1, <1>2, <1>3 DEF FreeIsFinal, doomVars, procVars
<1>8. NoneLeaks'
  BY <1>1, <1>2, <1>3 DEF NoneLeaks, TypeOK, doomVars
<1> QED BY <1>4, <1>6, <1>7, <1>8

\* A device is closed by somebody who has no transfer under way.
LEMMA CloseKeepsLife ==
    ASSUME LifeInv, NEW o \in Opener, NEW d \in Dev, d \in held[o], xfer[o][d] = "none",
           NEW X \in SUBSET Action, "FREE" \notin X, DevClose(o, d, X),
           UNCHANGED <<alive, doomVars, xfer, procVars, freeing>>
    PROVE  LifeKept'
<1> USE DEF LifeInv, Accounting, LifeKept
<1>1. held' = [held EXCEPT ![o] = @ \ {d}] /\ d \in alive
  BY DEF DevClose, HeldAlive
<1>2. /\ \A e \in Dev \ {d} : Holders(e)' = Holders(e)
      /\ Holders(d)' = Holders(d) \ {o}
      /\ openCount[d] = 1 <=> Holders(d) \ {o} = {}
      /\ o \in Holders(d)
  <2>1. o \in Holders(d)
    BY DEF Holders
  <2> QED BY <1>1, <2>1, CountTells DEF Holders, TypeOK
<1>3. /\ NoLostRequest'
      /\ \A e \in Dev : FreeRequested(e)' <=>
            FreeRequested(e) \/ (e = d /\ openCount[d] = 1 /\ (isGone[d] \/ waitingFree[d]))
      /\ pending' \subseteq pending \cup {d}
  <2> DEFINE last == openCount[d] = 1 /\ (isGone[d] \/ waitingFree[d])
             F    == X \cup IF last THEN {"FREE"} ELSE {}
  <2>1. F \in SUBSET Action
    BY DEF Action, Rank
  <2>2. IF F = {} THEN UNCHANGED listVars ELSE SetActions(d, F)
    BY DEF DevClose
  <2>3. "FREE" \in F <=> last
    OBVIOUS
  <2> HIDE DEF F
  <2>4. CASE F = {}
    BY <2>2, <2>3, <2>4 DEF NoLostRequest, FreeRequested, listVars, procVars
  <2>5. CASE F # {}
    <3>1. SetActions(d, F)
      BY <2>2, <2>5
    <3>2. pending' \subseteq pending \cup {d}
      BY <3>1 DEF SetActions
    <3> QED BY <2>1, <2>3, <2>5, <3>1, <3>2, Requests
  <2> QED BY <2>4, <2>5
<1>4. XferHeld' /\ HeldAlive' /\ ListAlive' /\ Fresh'
  BY <1>1, <1>3 DEF XferHeld, HeldAlive, ListAlive, Fresh, TypeOK, doomVars, procVars
<1>6. FreeIsFinal'
  BY <1>2, <1>3 DEF FreeIsFinal, doomVars, procVars
<1>7. NoneLeaks'
  BY <1>1, <1>2, <1>3 DEF NoneLeaks, TypeOK, doomVars
<1> QED BY <1>3, <1>4, <1>6, <1>7
LEMMA EnumerationKeepsLife ==
    ASSUME LifeInv, Enumeration
    PROVE  LifeKept'
<1> USE DEF LifeInv, Accounting
<1>0. Enum \in Opener
  BY DEF Opener
<1>1. ASSUME NEW d \in Dev, EnumStart(d) PROVE LifeKept'
  BY <1>0, <1>1, OpenKeepsLife DEF EnumStart
<1>2. ASSUME NEW d \in Dev, EnumAdvance(d) PROVE LifeKept'
  BY <1>2 DEF EnumAdvance, LifeKept, XferHeld, HeldAlive, ListAlive, NoLostRequest, Fresh,
              FreeIsFinal, NoneLeaks, FreeRequested, Holders,
              listVars, doomVars, useVars, procVars
<1>3. ASSUME NEW d \in Dev, NEW X \in {{}, {"PROP_NEW_DEV"}},
             pc \in {"hub", "enum"}, EnumRelease(d, X)
      PROVE  LifeKept'
  <2>1. d \in held[Enum] /\ xfer[Enum][d] = "none" /\ DevClose(Enum, d, X)
    BY <1>3 DEF EnumRelease, LockedByEnum, Holders
  <2>2. X \in SUBSET Action /\ "FREE" \notin X
    BY DEF Action, Rank
  <2> QED BY <1>0, <1>3, <2>1, <2>2, CloseKeepsLife DEF EnumRelease
<1>4. ASSUME NEW d \in Dev, EnumCancel(d) \/ EnumComplete(d) PROVE LifeKept'
  BY <1>3, <1>4 DEF EnumCancel, EnumComplete
<1> QED BY <1>1, <1>2, <1>4 DEF Enumeration

LEMMA ClientsKeepLife ==
    ASSUME LifeInv, Clients, FreeAllInDaemon
    PROVE  LifeKept'
<1> USE DEF LifeInv, Accounting
<1>1. ASSUME NEW c \in Client, NEW d \in Dev, Open(c, d) PROVE LifeKept'
  BY <1>1, OpenKeepsLife DEF Open, Opener
<1>2. ASSUME NEW c \in Client, NEW d \in Dev, Close(c, d) PROVE LifeKept'
  BY <1>2, CloseKeepsLife DEF Close, Opener
<1>3. CASE MarkAllFree
  <2> DEFINE unused == {d \in alive : openCount[d] = 0}
  <2>1. /\ UNCHANGED <<alive, isGone, useVars, xfer, procVars>> /\ freeing'
        /\ cur = NoDev /\ pc = "top" /\ unused \in SUBSET Dev
    BY <1>3 DEF MarkAllFree, ProcShape, TypeOK
  <2>2. /\ \A d \in Dev : action'[d] = IF d \in unused THEN action[d] \cup {"FREE"} ELSE action[d]
        /\ \A d \in Dev : waitingFree'[d] = (waitingFree[d] \/ d \in alive \ unused)
        /\ pending' = pending \cup unused
        /\ procReq' = (procReq \/ ~(unused \subseteq pending))
    BY <1>3, Zenon DEF MarkAllFree
  <2>3. \A d \in Dev : Holders(d)' = Holders(d) /\ (d \in unused <=> d \in alive /\ Holders(d) = {})
    BY <2>1, CountTells DEF Holders, useVars
  <2> HIDE DEF unused
  <2>4. \A d \in Dev : FreeRequested(d)' <=> FreeRequested(d) \/ d \in unused
    BY <2>1, <2>2, DistinctNames DEF FreeRequested, procVars
  <2>5. XferHeld' /\ HeldAlive' /\ ListAlive'
    BY <2>1, <2>2, <2>3 DEF LifeKept, XferHeld, HeldAlive, ListAlive,
                            Holders, TypeOK, useVars, procVars
  <2>6. Fresh'
    BY <2>1, <2>2 DEF LifeKept, Fresh
  <2>7. NoLostRequest'
    BY <2>1, <2>2 DEF LifeKept, NoLostRequest, procVars
  <2>8. FreeIsFinal'
    BY <2>1, <2>3, <2>4 DEF LifeKept, FreeIsFinal, procVars
  <2>9. NoneLeaks'
    BY <2>1, <2>2, <2>3, <2>4 DEF LifeKept, NoneLeaks, TypeOK
  <2> QED BY <2>5, <2>6, <2>7, <2>8, <2>9 DEF LifeKept
<1> QED BY <1>1, <1>2, <1>3 DEF Clients

\* A transfer goes from one state to another: the device stays open meanwhile.
LEMMA UrbKeepsLife ==
    ASSUME LifeInv, NEW o \in Opener, NEW d \in Dev, NEW s \in XferState,
           s = "none" \/ d \in held[o], xfer' = [xfer EXCEPT ![o][d] = s],
           UNCHANGED <<alive, doomVars, useVars, procVars, freeing>>,
           UNCHANGED listVars \/
              \E F \in SUBSET Action : F # {} /\ "FREE" \notin F /\ SetActions(d, F) /\ d \in alive
    PROVE  LifeKept'
<1> USE DEF LifeInv, Accounting, LifeKept
<1>1. \A e \in Dev : Holders(e)' = Holders(e)
  BY DEF Holders, useVars
<1>2. /\ NoLostRequest' /\ pending' \subseteq pending \cup alive
      /\ \A e \in Dev : FreeRequested(e)' <=> FreeRequested(e)
  <2>1. CASE UNCHANGED listVars
    BY <2>1 DEF NoLostRequest, FreeRequested, listVars, procVars
  <2>2. CASE \E F \in SUBSET Action :
                F # {} /\ "FREE" \notin F /\ SetActions(d, F) /\ d \in alive
    <3>1. PICK F \in SUBSET Action :
             F # {} /\ "FREE" \notin F /\ SetActions(d, F) /\ d \in alive
      BY <2>2
    <3>2. pending' \subseteq pending \cup alive
      BY <3>1 DEF SetActions
    <3> QED BY <3>1, <3>2, Requests
  <2> QED BY <2>1, <2>2
<1>3. XferHeld'
  BY DEF XferHeld, TypeOK, useVars
<1>4. HeldAlive' /\ ListAlive' /\ Fresh'
  BY <1>2 DEF HeldAlive, ListAlive, Fresh, useVars, doomVars, procVars
<1>6. FreeIsFinal' /\ NoneLeaks'
  BY <1>1, <1>2 DEF FreeIsFinal, NoneLeaks, TypeOK, doomVars, procVars
<1> QED BY <1>2, <1>3, <1>4, <1>6

LEMMA SubmissionKeepsLife ==
    ASSUME LifeInv, Submission
    PROVE  LifeKept'
<1>1. PICK o \in Opener, d \in Dev : SubmitCount(o, d) \/ SubmitEnqueue(o, d) \/ SubmitFail(o, d)
  BY DEF Submission
<1>2. PICK s \in XferState : xfer' = [xfer EXCEPT ![o][d] = s] /\ (s = "none" \/ d \in held[o])
  BY <1>1 DEF SubmitCount, SubmitEnqueue, SubmitFail, XferState, LifeInv, LifeKept, XferHeld
<1>3. UNCHANGED <<alive, listVars, doomVars, useVars, procVars, freeing>>
  BY <1>1 DEF SubmitCount, SubmitEnqueue, SubmitFail
<1> QED BY <1>2, <1>3, UrbKeepsLife

LEMMA HcdKeepsLife ==
    ASSUME LifeInv, Hcd
    PROVE  LifeKept'
<1>1. CASE PortLost
  BY <1>1 DEF PortLost, LifeInv, LifeKept, XferHeld, HeldAlive, ListAlive, NoLostRequest, Fresh,
              FreeIsFinal, NoneLeaks, FreeRequested, Holders,
              listVars, doomVars, useVars, procVars
<1>2. ASSUME NEW o \in Opener, NEW d \in Dev,
             NEW event \in {"URB_DONE", "ERROR_STALL", "ERROR_XFER"}, UrbDone(o, d, event)
      PROVE  LifeKept'
  <2>1. /\ EventActions(event) \in SUBSET Action /\ EventActions(event) # {}
        /\ "FREE" \notin EventActions(event)
    BY DEF EventActions, Action, Rank
  <2>2. d \in held[o] /\ d \in alive
    BY <1>2 DEF UrbDone, LifeInv, LifeKept, XferHeld, HeldAlive
  <2> QED BY <1>2, <2>1, <2>2, UrbKeepsLife DEF UrbDone, XferState
<1> QED BY <1>1, <1>2 DEF Hcd

LEMMA StutterKeepsLife ==
    ASSUME LifeInv, UNCHANGED vars
    PROVE  LifeKept'
  BY DEF vars, LifeInv, LifeKept, XferHeld, HeldAlive, ListAlive, NoLostRequest, Fresh,
         FreeIsFinal, NoneLeaks, FreeRequested, Holders,
         listVars, doomVars, useVars, procVars

-----------------------------------------------------------------------------
(* The theorems *)

LEMMA LifeInvariant ==
    ASSUME FreeAllInDaemon
    PROVE  Spec => []LifeInv
<1>1. Init => LifeInv
  BY LifeInit
<1>2. LifeInv /\ [Next]_vars => LifeInv'
  <2> SUFFICES ASSUME LifeInv, [Next]_vars PROVE LifeInv'
    OBVIOUS
  <2>1. Accounting'
    BY DaemonKeepsAccounting, HubKeepsAccounting, EnumerationKeepsAccounting,
       ClientsKeepAccounting, SubmissionKeepsAccounting, HcdKeepsAccounting,
       StutterKeepsAccounting DEF Next, LifeInv
  <2>2. LifeKept'
    BY DaemonKeepsLife, HubKeepsLife, EnumerationKeepsLife, ClientsKeepLife,
       SubmissionKeepsLife, HcdKeepsLife, StutterKeepsLife DEF Next
  <2> QED BY <2>1, <2>2 DEF LifeInv
<1> QED BY <1>1, <1>2, PTL DEF Spec

\* Nobody holds or uses a device object that handle_free() has freed, handle_free()
\* frees every object that is gone or waits to be freed once its last user closed it,
\* a device that nobody has open has no transfers in flight, and usbh_process() never
\* leaves a requested action behind: for any clients, any devices and any number of
\* transfers, if only the daemon calls free_all.
THEOREM DeviceLifeIsSafe ==
    ASSUME FreeAllInDaemon
    PROVE  Spec => []LifeIsSafe
<1> QED BY LifeInvariant, LifeInvIsSafe, PTL
-----------------------------------------------------------------------------
(* usbh.c implements DeviceLife *)

LifeOf(d) == IF d \notin alive THEN "absent" ELSE IF Doomed(d) THEN "doomed" ELSE "live"
SameUsers == \A d \in Dev : Holders(d)' = Holders(d)
SameWork  == \A d \in Dev : Busy(d)' = Busy(d)
SameLives == \A d \in Dev : LifeOf(d)' = LifeOf(d)
lifeVars  == <<[d \in Dev |-> IF d \notin alive THEN "absent"
                              ELSE IF Doomed(d) THEN "doomed" ELSE "live"],
               [d \in Dev |-> Holders(d)],
               [d \in Dev |-> Busy(d)]>>

\* The steps of DeviceLife, device by device.
LEMMA IsStutter ==
    ASSUME SameLives, SameUsers, SameWork
    PROVE  UNCHANGED lifeVars
  BY DEF SameLives, SameUsers, SameWork, LifeOf, lifeVars

LEMMA IsAttach ==
    ASSUME NEW d \in Dev, LifeOf(d) = "absent", LifeOf(d)' = "live",
           \A e \in Dev \ {d} : LifeOf(e)' = LifeOf(e), SameUsers, SameWork
    PROVE  Life!Next
<1>1. Life!Attach(d)
  BY DEF Life!Attach, LifeOf, SameUsers, SameWork
<1> QED BY <1>1 DEF Life!Next

LEMMA IsReclaim ==
    ASSUME NEW d \in Dev, LifeOf(d) = "doomed", LifeOf(d)' = "absent",
           \A e \in Dev \ {d} : LifeOf(e)' = LifeOf(e), SameUsers, SameWork,
           Holders(d) = {}, Busy(d) = {}
    PROVE  Life!Next
<1>1. Life!Reclaim(d)
  BY DEF Life!Reclaim, LifeOf, SameUsers, SameWork
<1> QED BY <1>1 DEF Life!Next

LEMMA IsDoom ==
    ASSUME NEW D \in SUBSET Dev, SameUsers, SameWork,
           \A d \in Dev : LifeOf(d)' = IF d \in D THEN "doomed" ELSE LifeOf(d),
           \A d \in D : LifeOf(d) # "absent"
    PROVE  Life!Next
<1>1. Life!Doom(D)
  BY DEF Life!Doom, LifeOf, SameUsers, SameWork
<1> QED BY <1>1 DEF Life!Next

LEMMA IsJoin ==
    ASSUME NEW d \in Dev, NEW o \in Opener, SameLives, SameWork,
           LifeOf(d) = "live", o \notin Holders(d), Holders(d)' = Holders(d) \cup {o},
           \A e \in Dev \ {d} : Holders(e)' = Holders(e)
    PROVE  Life!Next
<1>1. Life!Join(d, o)
  BY DEF Life!Join, LifeOf, SameLives, SameWork
<1> QED BY <1>1 DEF Life!Next

LEMMA IsLeave ==
    ASSUME NEW d \in Dev, NEW o \in Opener, SameLives, SameWork,
           o \in Holders(d) \ Busy(d), Holders(d)' = Holders(d) \ {o},
           \A e \in Dev \ {d} : Holders(e)' = Holders(e)
    PROVE  Life!Next
<1>1. Life!Leave(d, o)
  BY DEF Life!Leave, LifeOf, SameLives, SameWork
<1> QED BY <1>1 DEF Life!Next

LEMMA IsBegin ==
    ASSUME NEW d \in Dev, NEW o \in Opener, SameLives, SameUsers,
           o \in Holders(d) \ Busy(d), Busy(d)' = Busy(d) \cup {o},
           \A e \in Dev \ {d} : Busy(e)' = Busy(e)
    PROVE  Life!Next
<1>1. Life!Begin(d, o)
  BY DEF Life!Begin, LifeOf, SameLives, SameUsers
<1> QED BY <1>1 DEF Life!Next

LEMMA IsEnd ==
    ASSUME NEW d \in Dev, NEW o \in Opener, SameLives, SameUsers,
           o \in Busy(d), Busy(d)' = Busy(d) \ {o},
           \A e \in Dev \ {d} : Busy(e)' = Busy(e)
    PROVE  Life!Next
<1>1. Life!End(d, o)
  BY DEF Life!End, LifeOf, SameLives, SameUsers
<1> QED BY <1>1 DEF Life!Next
LEMMA LivesKept ==
    ASSUME UNCHANGED <<alive, doomVars>>,
           \A d \in Dev : FreeRequested(d) => FreeRequested(d)',
           \A d \in Dev : FreeRequested(d)' => FreeRequested(d) \/ isGone[d] \/ waitingFree[d]
    PROVE  SameLives
  BY DEF SameLives, LifeOf, Doomed, doomVars

\* The daemon gives URBs back and reclaims what it frees; nothing else it does is seen.
LEMMA DaemonRefines ==
    ASSUME LifeInv, Daemon
    PROVE  Life!Next \/ UNCHANGED lifeVars
<1> USE DEF LifeInv, Accounting
<1>1. CASE Wake \/ ProcEnd \/ HubEnd \/ EnumEnd \/ \E d \in Dev : ProcTake(d)
  <2>1. UNCHANGED <<alive, doomVars, useVars, xfer>>
    BY <1>1 DEF Wake, ProcEnd, HubEnd, EnumEnd, NextPart, ProcTake
  <2>2. \A d \in Dev : FreeRequested(d)' <=> FreeRequested(d)
    <3>1. cur = NoDev
      BY <1>1 DEF Wake, ProcEnd, HubEnd, EnumEnd, NextPart, ProcTake, ProcShape, TypeOK
    <3>2. CASE Wake \/ ProcEnd \/ HubEnd \/ EnumEnd
      BY <3>1, <3>2, DistinctNames
         DEF FreeRequested, Wake, ProcEnd, HubEnd, EnumEnd, NextPart, listVars
    <3>3. CASE \E d \in Dev : ProcTake(d)
      BY <3>1, <3>3, DistinctNames DEF FreeRequested, ProcTake, TypeOK
    <3> QED BY <1>1, <3>2, <3>3
  <2>3. SameLives /\ SameUsers /\ SameWork
    BY <2>1, <2>2, LivesKept DEF SameUsers, SameWork, Holders, Busy, useVars
  <2> QED BY <2>3, IsStutter
<1>2. CASE HandleEp0DequeueEnd \/ HandleEp0Clear \/ \E a \in Action : HandleSimple(a)
  <2>1. /\ UNCHANGED <<alive, listVars, doomVars, useVars, xfer>>
        /\ \E a \in Action \ {"FREE"} : Finish({a})
    BY <1>2 DEF HandleEp0DequeueEnd, HandleEp0Clear, HandleSimple, Action, Rank
  <2>2. \A d \in Dev : FreeRequested(d)' <=> FreeRequested(d)
    BY <2>1, FinishKeepsFree DEF FreeRequested, listVars
  <2>3. SameLives /\ SameUsers /\ SameWork
    BY <2>1, <2>2, LivesKept DEF SameUsers, SameWork, Holders, Busy, useVars
  <2> QED BY <2>3, IsStutter
<1>3. CASE HandleEp0Flush
  <2>1. /\ Due("EP0_FLUSH") /\ Finish({"EP0_FLUSH"}) /\ "EP0_FLUSH" \in Action
        /\ UNCHANGED <<alive, doomVars, useVars>> /\ cur \in Dev
    BY <1>3 DEF HandleEp0Flush, Action, Rank, ProcShape, Due
  <2>2. \A d \in Dev : FreeRequested(d)' <=> FreeRequested(d)
    <3>1. \A d \in Dev : "FREE" \in action'[d] <=> "FREE" \in action[d]
      BY <1>3, <2>1 DEF HandleEp0Flush, SetActions, TypeOK, listVars
    <3> QED BY <2>1, <3>1, FinishKeepsFree DEF FreeRequested
  <2>3. SameWork
    BY <1>3, <2>1 DEF HandleEp0Flush, SameWork, Busy, TypeOK
  <2>4. SameLives /\ SameUsers
    BY <2>1, <2>2, LivesKept DEF SameUsers, Holders, useVars
  <2> QED BY <2>3, <2>4, IsStutter
<1>4. ASSUME NEW o \in Opener, HandleEp0Dequeue(o) PROVE Life!Next
  <2>1. /\ UNCHANGED <<alive, listVars, doomVars, useVars, cur, todo>> /\ cur \in Dev
        /\ xfer[o][cur] # "none" /\ xfer' = [xfer EXCEPT ![o][cur] = "none"]
    BY <1>4 DEF HandleEp0Dequeue, Due, ProcShape
  <2>2. SameLives /\ SameUsers
    BY <2>1, LivesKept DEF FreeRequested, SameUsers, Holders, listVars, useVars
  <2>3. /\ o \in Busy(cur) /\ Busy(cur)' = Busy(cur) \ {o}
        /\ \A e \in Dev \ {cur} : Busy(e)' = Busy(e)
    BY <2>1 DEF Busy, TypeOK
  <2> QED BY <2>1, <2>2, <2>3, IsEnd
<1>5. ASSUME NEW d \in Dev, d = cur, HandleFree PROVE Life!Next
  <2>1. /\ Due("FREE") /\ Finish({"FREE", "PROP_NEW_DEV"})
        /\ UNCHANGED <<useVars, xfer>> /\ alive' = alive \ {d}
    BY <1>5 DEF HandleFree
  <2>2. cur' \in {d, NoDev} /\ todo' \subseteq todo /\ d \in alive
    BY <1>5, <2>1, DistinctNames DEF Finish, LifeKept, ListAlive
  <2>3. \A e \in Dev \ {d} : /\ FreeRequested(e)' <=> FreeRequested(e)
                             /\ isGone'[e] = isGone[e] /\ waitingFree'[e] = waitingFree[e]
                             /\ e \in alive' <=> e \in alive
    BY <1>5, <2>1, <2>2, DistinctNames DEF HandleFree, FreeRequested, TypeOK
  <2>4. \A e \in Dev \ {d} : LifeOf(e)' = LifeOf(e)
    BY <2>3 DEF LifeOf, Doomed
  <2>5. FreeRequested(d) /\ LifeOf(d) = "doomed" /\ LifeOf(d)' = "absent"
    BY <1>5, <2>1, <2>2 DEF LifeOf, Doomed, FreeRequested, Due
  <2>6. Holders(d) = {} /\ Busy(d) = {}
    BY <2>5, UnusedIsIdle DEF LifeKept, FreeIsFinal
  <2>7. SameUsers /\ SameWork
    BY <2>1 DEF SameUsers, SameWork, Holders, Busy, useVars
  <2> QED BY <2>4, <2>5, <2>6, <2>7, IsReclaim
<1>6. HandleFree => cur \in Dev
  BY DEF HandleFree, Due, ProcShape
<1> QED BY <1>1, <1>2, <1>3, <1>4, <1>5, <1>6 DEF Daemon

LEMMA HubRefines ==
    ASSUME LifeInv, Hub
    PROVE  Life!Next
<1> USE DEF LifeInv, Accounting
<1>1. ASSUME NEW d \in Dev, DevsAdd(d) PROVE Life!Next
  <2>1. /\ UNCHANGED <<listVars, doomVars, useVars, xfer, procVars>>
        /\ alive' = alive \cup {d} /\ d \notin alive
    BY <1>1 DEF DevsAdd
  <2>2. \A e \in Dev : FreeRequested(e)' <=> FreeRequested(e)
    BY <2>1 DEF FreeRequested, listVars, procVars
  <2>3. ~FreeRequested(d)
    BY <2>1, DistinctNames DEF LifeKept, NoLostRequest, ListAlive, FreeRequested
  <2>4. LifeOf(d) = "absent" /\ LifeOf(d)' = "live"
    BY <2>1, <2>2, <2>3 DEF LifeOf, Doomed, LifeKept, Fresh, doomVars
  <2>5. \A e \in Dev \ {d} : LifeOf(e)' = LifeOf(e)
    BY <2>1, <2>2 DEF LifeOf, Doomed, doomVars
  <2>6. SameUsers /\ SameWork
    BY <2>1 DEF SameUsers, SameWork, Holders, Busy, useVars
  <2> QED BY <2>4, <2>5, <2>6, IsAttach
<1>2. ASSUME NEW d \in Dev, DevsRemove(d) PROVE Life!Next
  <2>1. /\ UNCHANGED <<alive, waitingFree, useVars, xfer, procVars>> /\ d \in alive
        /\ isGone' = [isGone EXCEPT ![d] = TRUE]
    BY <1>2 DEF DevsRemove
  <2>2. PICK F \in SUBSET Action : F # {} /\ SetActions(d, F)
    BY <1>2 DEF DevsRemove, Action, Rank
  <2>3. \A e \in Dev \ {d} : FreeRequested(e)' <=> FreeRequested(e)
    BY <2>1, <2>2, Requests DEF LifeKept
  <2>4. LifeOf(d) # "absent" /\ \A e \in Dev : LifeOf(e)' = IF e \in {d} THEN "doomed" ELSE LifeOf(e)
    BY <2>1, <2>3 DEF LifeOf, Doomed, TypeOK
  <2>5. SameUsers /\ SameWork
    BY <2>1 DEF SameUsers, SameWork, Holders, Busy, useVars
  <2> QED BY <2>4, <2>5, IsDoom
<1> QED BY <1>1, <1>2 DEF Hub

LEMMA OpenRefines ==
    ASSUME LifeInv, NEW o \in Opener, NEW d \in Dev, DevOpen(o, d), d \notin held[o],
           ~freeing \/ pc \in {"hub", "enum"},
           UNCHANGED <<alive, listVars, doomVars, xfer, procVars>>
    PROVE  Life!Next
<1> USE DEF LifeInv, Accounting, LifeKept
<1>1. held' = [held EXCEPT ![o] = @ \cup {d}] /\ d \in alive /\ ~isGone[d] /\ ~waitingFree[d]
  BY DEF DevOpen
<1>2. SameLives /\ SameWork
  BY LivesKept DEF FreeRequested, SameWork, Busy, listVars, procVars
<1>3. LifeOf(d) = "live"
  BY <1>1 DEF LifeOf, Doomed, FreeIsFinal
<1>4. /\ o \notin Holders(d) /\ Holders(d)' = Holders(d) \cup {o}
      /\ \A e \in Dev \ {d} : Holders(e)' = Holders(e)
  BY <1>1 DEF Holders, TypeOK
<1> QED BY <1>2, <1>3, <1>4, IsJoin

LEMMA CloseRefines ==
    ASSUME LifeInv, NEW o \in Opener, NEW d \in Dev, d \in held[o], xfer[o][d] = "none",
           NEW X \in SUBSET Action, "FREE" \notin X, DevClose(o, d, X),
           UNCHANGED <<alive, doomVars, xfer, procVars>>
    PROVE  Life!Next
<1> USE DEF LifeInv, Accounting, LifeKept
<1>1. held' = [held EXCEPT ![o] = @ \ {d}]
  BY DEF DevClose
<1>2. /\ \A e \in Dev : FreeRequested(e) => FreeRequested(e)'
      /\ \A e \in Dev : FreeRequested(e)' => FreeRequested(e) \/ isGone[e] \/ waitingFree[e]
  <2> DEFINE F == X \cup IF openCount[d] = 1 /\ (isGone[d] \/ waitingFree[d]) THEN {"FREE"} ELSE {}
  <2>1. F \in SUBSET Action /\ IF F = {} THEN UNCHANGED listVars ELSE SetActions(d, F)
    BY DEF DevClose, Action, Rank
  <2>2. "FREE" \in F => isGone[d] \/ waitingFree[d]
    OBVIOUS
  <2> HIDE DEF F
  <2>3. CASE F = {}
    BY <2>1, <2>3 DEF FreeRequested, listVars, procVars
  <2>4. CASE F # {}
    BY <2>1, <2>2, <2>4, Requests
  <2> QED BY <2>3, <2>4
<1>3. SameLives /\ SameWork
  BY <1>2, LivesKept DEF SameWork, Busy
<1>4. /\ o \in Holders(d) \ Busy(d) /\ Holders(d)' = Holders(d) \ {o}
      /\ \A e \in Dev \ {d} : Holders(e)' = Holders(e)
  BY <1>1 DEF Holders, Busy, TypeOK
<1> QED BY <1>3, <1>4, IsLeave

LEMMA EnumerationRefines ==
    ASSUME LifeInv, Enumeration
    PROVE  Life!Next \/ UNCHANGED lifeVars
<1> USE DEF LifeInv, Accounting
<1>0. Enum \in Opener
  BY DEF Opener
<1>1. ASSUME NEW d \in Dev, EnumStart(d) PROVE Life!Next
  BY <1>0, <1>1, OpenRefines DEF EnumStart
<1>2. ASSUME NEW d \in Dev, EnumAdvance(d) PROVE UNCHANGED lifeVars
  <2>1. UNCHANGED <<alive, listVars, doomVars, useVars, xfer, procVars>>
    BY <1>2 DEF EnumAdvance
  <2>2. SameLives /\ SameUsers /\ SameWork
    BY <2>1, LivesKept
       DEF SameUsers, SameWork, FreeRequested, Holders, Busy, listVars, useVars, procVars
  <2> QED BY <2>2, IsStutter
<1>3. ASSUME NEW d \in Dev, NEW X \in {{}, {"PROP_NEW_DEV"}}, EnumRelease(d, X)
      PROVE  Life!Next
  <2>1. d \in held[Enum] /\ xfer[Enum][d] = "none" /\ DevClose(Enum, d, X)
    BY <1>3 DEF EnumRelease, LockedByEnum, Holders
  <2>2. X \in SUBSET Action /\ "FREE" \notin X
    BY DEF Action, Rank
  <2> QED BY <1>0, <1>3, <2>1, <2>2, CloseRefines DEF EnumRelease
<1>4. ASSUME NEW d \in Dev, EnumCancel(d) \/ EnumComplete(d) PROVE Life!Next
  BY <1>3, <1>4 DEF EnumCancel, EnumComplete
<1> QED BY <1>1, <1>2, <1>4 DEF Enumeration

LEMMA ClientsRefine ==
    ASSUME LifeInv, Clients, FreeAllInDaemon
    PROVE  Life!Next
<1> USE DEF LifeInv, Accounting
<1>1. ASSUME NEW c \in Client, NEW d \in Dev, Open(c, d) PROVE Life!Next
  BY <1>1, OpenRefines DEF Open, Opener
<1>2. ASSUME NEW c \in Client, NEW d \in Dev, Close(c, d) PROVE Life!Next
  BY <1>2, CloseRefines DEF Close, Opener
<1>3. CASE MarkAllFree
  <2> DEFINE unused == {d \in alive : openCount[d] = 0}
  <2>1. UNCHANGED <<alive, isGone, useVars, xfer, procVars>>
    BY <1>3 DEF MarkAllFree
  <2>2. /\ \A d \in Dev : action'[d] = IF d \in unused THEN action[d] \cup {"FREE"} ELSE action[d]
        /\ \A d \in Dev : waitingFree'[d] = (waitingFree[d] \/ d \in alive \ unused)
    BY <1>3, Zenon DEF MarkAllFree
  <2>3. unused \subseteq alive
    OBVIOUS
  <2> HIDE DEF unused
  <2>4. \A d \in Dev : FreeRequested(d)' <=> FreeRequested(d) \/ d \in unused
    BY <2>1, <2>2 DEF FreeRequested, procVars
  <2>5. alive \in SUBSET Dev /\ \A d \in alive : LifeOf(d) # "absent"
    BY DEF LifeOf, TypeOK
  <2>6. \A d \in Dev : LifeOf(d)' = IF d \in alive THEN "doomed" ELSE LifeOf(d)
    BY <2>1, <2>2, <2>3, <2>4 DEF LifeOf, Doomed
  <2>7. SameUsers /\ SameWork
    BY <2>1 DEF SameUsers, SameWork, Holders, Busy, useVars
  <2> QED BY <2>5, <2>6, <2>7, IsDoom
<1> QED BY <1>1, <1>2, <1>3 DEF Clients

LEMMA SubmissionRefines ==
    ASSUME LifeInv, Submission
    PROVE  Life!Next \/ UNCHANGED lifeVars
<1> USE DEF LifeInv, Accounting
<1>1. PICK o \in Opener, d \in Dev : SubmitCount(o, d) \/ SubmitEnqueue(o, d) \/ SubmitFail(o, d)
  BY DEF Submission
<1>2. UNCHANGED <<alive, listVars, doomVars, useVars, procVars>>
  BY <1>1 DEF SubmitCount, SubmitEnqueue, SubmitFail
<1>3. SameLives /\ SameUsers
  BY <1>2, LivesKept DEF SameUsers, FreeRequested, Holders, listVars, useVars, procVars
<1>4. CASE SubmitCount(o, d)
  <2>1. /\ o \in Holders(d) \ Busy(d) /\ Busy(d)' = Busy(d) \cup {o}
        /\ \A e \in Dev \ {d} : Busy(e)' = Busy(e)
    BY <1>4 DEF SubmitCount, Holders, Busy, TypeOK
  <2> QED BY <1>3, <2>1, IsBegin
<1>5. CASE SubmitFail(o, d)
  <2>1. /\ o \in Busy(d) /\ Busy(d)' = Busy(d) \ {o}
        /\ \A e \in Dev \ {d} : Busy(e)' = Busy(e)
    BY <1>5 DEF SubmitFail, Holders, Busy, TypeOK
  <2> QED BY <1>3, <2>1, IsEnd
<1>6. CASE SubmitEnqueue(o, d)
  <2>1. SameWork
    BY <1>6 DEF SubmitEnqueue, SameWork, Busy, TypeOK
  <2> QED BY <1>3, <2>1, IsStutter
<1> QED BY <1>1, <1>4, <1>5, <1>6

LEMMA HcdRefines ==
    ASSUME LifeInv, Hcd
    PROVE  UNCHANGED lifeVars
<1> USE DEF LifeInv, Accounting
<1>1. CASE PortLost
  <2>1. SameLives /\ SameUsers /\ SameWork
    BY <1>1, LivesKept DEF PortLost, SameUsers, SameWork, FreeRequested, Holders, Busy,
                           listVars, useVars, procVars
  <2> QED BY <2>1, IsStutter
<1>2. ASSUME NEW o \in Opener, NEW d \in Dev,
             NEW event \in {"URB_DONE", "ERROR_STALL", "ERROR_XFER"}, UrbDone(o, d, event)
      PROVE  UNCHANGED lifeVars
  <2>1. /\ EventActions(event) \in SUBSET Action /\ EventActions(event) # {}
        /\ "FREE" \notin EventActions(event)
    BY DEF EventActions, Action, Rank
  <2>2. \A e \in Dev : FreeRequested(e)' <=> FreeRequested(e)
    BY <1>2, <2>1, Requests DEF UrbDone, LifeKept
  <2>3. SameLives /\ SameUsers /\ SameWork
    BY <1>2, <2>2, LivesKept DEF UrbDone, SameUsers, SameWork, Holders, Busy, TypeOK, useVars
  <2> QED BY <2>3, IsStutter
<1> QED BY <1>1, <1>2 DEF Hcd

LEMMA StutterRefines ==
    ASSUME UNCHANGED vars
    PROVE  UNCHANGED lifeVars
<1>1. SameLives /\ SameUsers /\ SameWork
  BY LivesKept DEF vars, SameUsers, SameWork, FreeRequested, Holders, Busy,
                   listVars, useVars, procVars
<1> QED BY <1>1, IsStutter

\* usbh.c implements the life cycle DeviceLife: every step of the daemon, of a client,
\* of the hub and enumeration drivers and of the HCD is one of its steps or none.  So a
\* device is opened only while it is live, left only by a user without transfers, and
\* reclaimed only once it is doomed and nobody uses it, if only the daemon calls free_all.
THEOREM ImplementsDeviceLife ==
    ASSUME FreeAllInDaemon
    PROVE  Spec => LifeSpec
<1>1. Init => Life!Init
  BY DEF Init, Life!Init, Holders, Busy
<1>2. LifeInv /\ [Next]_vars => [Life!Next]_lifeVars
  BY DaemonRefines, HubRefines, EnumerationRefines, ClientsRefine, SubmissionRefines,
     HcdRefines, StutterRefines DEF Next
<1> QED BY <1>1, <1>2, LifeInvariant, PTL DEF Spec, LifeSpec, Life!Spec, lifeVars
=============================================================================
