----------------------------- MODULE Enum_proof -----------------------------
(***************************************************************************)
(* The enumerator is consistent: proved for any number of devices and      *)
(* addresses and any queue, in environments without the two races that     *)
(* Tidy excludes.  EnumInv is inductive: who carries the enumeration on    *)
(* (RequestsAreExact), what the handles refer to (HandlesAgree), how far   *)
(* the device is at each stage (Progress), and who else is on the bus.     *)
(***************************************************************************)
EXTENDS Enum, TLAPS, FiniteSetTheorems, WellFoundedInduction

---------------------------------------------------------------------------
(* The stages and their order *)

\* The stages before the device has an address, up to the last of its configuration
\* descriptor, and after that.
Early == Between("GET_SHORT_DEV_DESC", "CHECK_ADDR")
Mid   == Between("SET_ADDR_RECOVERY", "CHECK_FULL_CONFIG_DESC")
Late  == Between("GET_SHORT_LANGID", "COMPLETE")
\* All of enum_stage_t but IDLE and CANCEL.
StageNames == {Stages[i] : i \in 1..33}

\* The stages one by one.
LEMMA StagesAre ==
    /\ DOMAIN Stages = 1..33 /\ Len(Stages) = 33
    /\ Stages[1] = "GET_SHORT_DEV_DESC" /\ Stages[2] = "CHECK_SHORT_DEV_DESC" /\ Stages[3] = "SECOND_RESET"
    /\ Stages[4] = "SECOND_RESET_COMPLETE" /\ Stages[5] = "SET_ADDR" /\ Stages[6] = "CHECK_ADDR"
    /\ Stages[7] = "SET_ADDR_RECOVERY" /\ Stages[8] = "GET_FULL_DEV_DESC" /\ Stages[9] = "CHECK_FULL_DEV_DESC"
    /\ Stages[10] = "SELECT_CONFIG" /\ Stages[11] = "GET_SHORT_CONFIG_DESC"
    /\ Stages[12] = "CHECK_SHORT_CONFIG_DESC"
    /\ Stages[13] = "GET_FULL_CONFIG_DESC" /\ Stages[14] = "CHECK_FULL_CONFIG_DESC"
    /\ Stages[15] = "GET_SHORT_LANGID"
    /\ Stages[16] = "CHECK_SHORT_LANGID" /\ Stages[17] = "GET_FULL_LANGID" /\ Stages[18] = "CHECK_FULL_LANGID"
    /\ Stages[19] = "GET_SHORT_MANU" /\ Stages[20] = "CHECK_SHORT_MANU" /\ Stages[21] = "GET_FULL_MANU"
    /\ Stages[22] = "CHECK_FULL_MANU" /\ Stages[23] = "GET_SHORT_PROD" /\ Stages[24] = "CHECK_SHORT_PROD"
    /\ Stages[25] = "GET_FULL_PROD" /\ Stages[26] = "CHECK_FULL_PROD" /\ Stages[27] = "GET_SHORT_SER"
    /\ Stages[28] = "CHECK_SHORT_SER" /\ Stages[29] = "GET_FULL_SER" /\ Stages[30] = "CHECK_FULL_SER"
    /\ Stages[31] = "SET_CONFIG" /\ Stages[32] = "CHECK_CONFIG" /\ Stages[33] = "COMPLETE"
BY DEF Stages

\* No stage comes twice.
LEMMA StagesDiffer == \A i, j \in 1..33 : Stages[i] = Stages[j] => i = j
BY DEF Stages

\* Pos() is the inverse of Stages.
LEMMA PosIs == \A i \in 1..33 : Pos(Stages[i]) = i
<1>1. DOMAIN Stages = 1..33 BY StagesAre
<1> QED BY <1>1, StagesDiffer DEF Pos

\* The place of each stage.
LEMMA Places ==
    /\ Pos("GET_SHORT_DEV_DESC") = 1 /\ Pos("CHECK_SHORT_DEV_DESC") = 2 /\ Pos("SECOND_RESET") = 3
    /\ Pos("SECOND_RESET_COMPLETE") = 4 /\ Pos("SET_ADDR") = 5 /\ Pos("CHECK_ADDR") = 6
    /\ Pos("SET_ADDR_RECOVERY") = 7 /\ Pos("GET_FULL_DEV_DESC") = 8 /\ Pos("CHECK_FULL_DEV_DESC") = 9
    /\ Pos("SELECT_CONFIG") = 10 /\ Pos("GET_SHORT_CONFIG_DESC") = 11 /\ Pos("CHECK_SHORT_CONFIG_DESC") = 12
    /\ Pos("GET_FULL_CONFIG_DESC") = 13 /\ Pos("CHECK_FULL_CONFIG_DESC") = 14 /\ Pos("GET_SHORT_LANGID") = 15
    /\ Pos("CHECK_SHORT_LANGID") = 16 /\ Pos("GET_FULL_LANGID") = 17 /\ Pos("CHECK_FULL_LANGID") = 18
    /\ Pos("GET_SHORT_MANU") = 19 /\ Pos("CHECK_SHORT_MANU") = 20 /\ Pos("GET_FULL_MANU") = 21
    /\ Pos("CHECK_FULL_MANU") = 22 /\ Pos("GET_SHORT_PROD") = 23 /\ Pos("CHECK_SHORT_PROD") = 24
    /\ Pos("GET_FULL_PROD") = 25 /\ Pos("CHECK_FULL_PROD") = 26 /\ Pos("GET_SHORT_SER") = 27
    /\ Pos("CHECK_SHORT_SER") = 28 /\ Pos("GET_FULL_SER") = 29 /\ Pos("CHECK_FULL_SER") = 30
    /\ Pos("SET_CONFIG") = 31 /\ Pos("CHECK_CONFIG") = 32 /\ Pos("COMPLETE") = 33
BY StagesAre, PosIs

\* The parts of the enumeration, and the stages of strings.
LEMMA PartsAre ==
    /\ Early = {"GET_SHORT_DEV_DESC", "CHECK_SHORT_DEV_DESC", "SECOND_RESET",
                "SECOND_RESET_COMPLETE", "SET_ADDR", "CHECK_ADDR"}
    /\ Mid = {"SET_ADDR_RECOVERY", "GET_FULL_DEV_DESC", "CHECK_FULL_DEV_DESC",
                "SELECT_CONFIG", "GET_SHORT_CONFIG_DESC", "CHECK_SHORT_CONFIG_DESC",
                "GET_FULL_CONFIG_DESC", "CHECK_FULL_CONFIG_DESC"}
    /\ Late = {"GET_SHORT_LANGID", "CHECK_SHORT_LANGID", "GET_FULL_LANGID",
                "CHECK_FULL_LANGID", "GET_SHORT_MANU", "CHECK_SHORT_MANU", "GET_FULL_MANU",
                "CHECK_FULL_MANU", "GET_SHORT_PROD", "CHECK_SHORT_PROD", "GET_FULL_PROD",
                "CHECK_FULL_PROD", "GET_SHORT_SER", "CHECK_SHORT_SER", "GET_FULL_SER",
                "CHECK_FULL_SER", "SET_CONFIG", "CHECK_CONFIG", "COMPLETE"}
    /\ StringStages = {"GET_SHORT_LANGID", "CHECK_SHORT_LANGID", "GET_FULL_LANGID",
                "CHECK_FULL_LANGID", "GET_SHORT_MANU", "CHECK_SHORT_MANU", "GET_FULL_MANU",
                "CHECK_FULL_MANU", "GET_SHORT_PROD", "CHECK_SHORT_PROD", "GET_FULL_PROD",
                "CHECK_FULL_PROD", "GET_SHORT_SER", "CHECK_SHORT_SER", "GET_FULL_SER",
                "CHECK_FULL_SER"}
    /\ StagesOf("MANU") = {"GET_SHORT_MANU", "CHECK_SHORT_MANU", "GET_FULL_MANU", "CHECK_FULL_MANU"}
    /\ StagesOf("PROD") = {"GET_SHORT_PROD", "CHECK_SHORT_PROD", "GET_FULL_PROD", "CHECK_FULL_PROD"}
    /\ StagesOf("SER") = {"GET_SHORT_SER", "CHECK_SHORT_SER", "GET_FULL_SER", "CHECK_FULL_SER"}
<1>1. \A a, b \in 1..33 : Between(Stages[a], Stages[b]) = {Stages[i] : i \in a..b}
  BY PosIs, SMTT(60) DEF Between
<1>2. Early = {"GET_SHORT_DEV_DESC", "CHECK_SHORT_DEV_DESC", "SECOND_RESET", "SECOND_RESET_COMPLETE",
        "SET_ADDR", "CHECK_ADDR"}
  <2>1. Early = {Stages[i] : i \in 1..6}
    BY StagesAre, <1>1, SMTT(60) DEF Early
  <2> QED BY <2>1, StagesAre
<1>3. Mid = {"SET_ADDR_RECOVERY", "GET_FULL_DEV_DESC", "CHECK_FULL_DEV_DESC", "SELECT_CONFIG",
        "GET_SHORT_CONFIG_DESC", "CHECK_SHORT_CONFIG_DESC", "GET_FULL_CONFIG_DESC",
        "CHECK_FULL_CONFIG_DESC"}
  <2>1. Mid = {Stages[i] : i \in 7..14} BY StagesAre, <1>1, SMTT(60) DEF Mid
  <2> QED BY <2>1, StagesAre
<1>4. Late = {"GET_SHORT_LANGID", "CHECK_SHORT_LANGID", "GET_FULL_LANGID", "CHECK_FULL_LANGID",
        "GET_SHORT_MANU", "CHECK_SHORT_MANU", "GET_FULL_MANU", "CHECK_FULL_MANU",
        "GET_SHORT_PROD", "CHECK_SHORT_PROD", "GET_FULL_PROD", "CHECK_FULL_PROD",
        "GET_SHORT_SER", "CHECK_SHORT_SER", "GET_FULL_SER", "CHECK_FULL_SER", "SET_CONFIG",
        "CHECK_CONFIG", "COMPLETE"}
  <2>1. Late = {Stages[i] : i \in 15..33}
    BY StagesAre, <1>1, SMTT(60) DEF Late
  <2> QED BY <2>1, StagesAre
<1>5. StringStages = {"GET_SHORT_LANGID", "CHECK_SHORT_LANGID", "GET_FULL_LANGID", "CHECK_FULL_LANGID",
        "GET_SHORT_MANU", "CHECK_SHORT_MANU", "GET_FULL_MANU", "CHECK_FULL_MANU",
        "GET_SHORT_PROD", "CHECK_SHORT_PROD", "GET_FULL_PROD", "CHECK_FULL_PROD",
        "GET_SHORT_SER", "CHECK_SHORT_SER", "GET_FULL_SER", "CHECK_FULL_SER"}
  <2>1. StringStages = {Stages[i] : i \in 15..30}
    BY StagesAre, <1>1, SMTT(60) DEF StringStages
  <2> QED BY <2>1, StagesAre
<1>6. StagesOf("MANU") = {"GET_SHORT_MANU", "CHECK_SHORT_MANU", "GET_FULL_MANU", "CHECK_FULL_MANU"}
  <2>1. StagesOf("MANU") = {Stages[i] : i \in 19..22}
    BY StagesAre, <1>1, SMTT(60) DEF StagesOf, FirstOf, LastOf
  <2> QED BY <2>1, StagesAre
<1>7. StagesOf("PROD") = {"GET_SHORT_PROD", "CHECK_SHORT_PROD", "GET_FULL_PROD", "CHECK_FULL_PROD"}
  <2>1. StagesOf("PROD") = {Stages[i] : i \in 23..26}
    BY StagesAre, <1>1, SMTT(60) DEF StagesOf, FirstOf, LastOf
  <2> QED BY <2>1, StagesAre
<1>8. StagesOf("SER") = {"GET_SHORT_SER", "CHECK_SHORT_SER", "GET_FULL_SER", "CHECK_FULL_SER"}
  <2>1. StagesOf("SER") = {Stages[i] : i \in 27..30}
    BY StagesAre, <1>1 DEF StagesOf, FirstOf, LastOf
  <2> QED BY <2>1, StagesAre
<1> QED BY <1>2, <1>3, <1>4, <1>5, <1>6, <1>7, <1>8

\* The stages that look at a response.
LEMMA ChecksAre ==
    Checks = {"CHECK_SHORT_DEV_DESC", "CHECK_ADDR", "CHECK_FULL_DEV_DESC", "CHECK_SHORT_CONFIG_DESC",
        "CHECK_FULL_CONFIG_DESC", "CHECK_SHORT_LANGID", "CHECK_FULL_LANGID", "CHECK_SHORT_MANU",
        "CHECK_FULL_MANU", "CHECK_SHORT_PROD", "CHECK_FULL_PROD", "CHECK_SHORT_SER",
        "CHECK_FULL_SER", "CHECK_CONFIG"}
BY Places, StagesAre DEF Checks, Gets

---------------------------------------------------------------------------
(* Numbers: the least of some, new uids and free addresses *)

\* What counting modulo n does to a number below n, and to one a round further.
LEMMA ModIs == \A n \in Nat \ {0} : \A x \in 0..n-1 : x % n = x /\ (x + n) % n = x
OBVIOUS

\* A set of natural numbers has a least member; the CHOOSE of NewUid, FreeTry and
\* Following all pick one.
LEMMA Least == ASSUME NEW S \in SUBSET Nat, S # {} PROVE \E m \in S : \A k \in S : m <= k
<1> DEFINE R == OpToRel(<, Nat)
<1>1. IsWellFoundedOn(R, Nat) BY NatLessThanWellFounded
<1>2. \A x, y \in Nat : <<y, x>> \in R <=> y < x BY DEF OpToRel
<1> HIDE DEF R
<1>3. PICK m \in S : \A y \in S : ~(<<y, m>> \in R) BY <1>1, WFMin
<1>4. SUFFICES ASSUME NEW k \in S PROVE m <= k BY <1>3
<1>5. k \in Nat /\ m \in Nat /\ ~(<<k, m>> \in R) BY <1>3, <1>4
<1>6. ~(k < m) BY <1>2, <1>5
<1> QED BY <1>5, <1>6

\* dev_tree_node_new() finds a uid that nobody has.
LEMMA NewUidIsNew == TypeOK => NewUid \in Nat /\ NewUid \notin alive
<1> SUFFICES ASSUME TypeOK PROVE NewUid \in Nat /\ NewUid \notin alive
  OBVIOUS
<1> DEFINE S == {u \in Cardinality(alive) + 1 .. MaxUid + 1 : u \notin alive}
<1>1. alive \subseteq 1..MaxUid /\ MaxUid \in Nat
  BY BoundsAreNat DEF TypeOK, Uid
<1>2. Cardinality(alive) \in Nat /\ Cardinality(alive) <= MaxUid
  <2>1. IsFiniteSet(1..MaxUid) /\ Cardinality(1..MaxUid) = MaxUid
    BY <1>1, FS_Interval
  <2> QED BY <1>1, <2>1, FS_Subset, FS_CardinalityType
<1>3. MaxUid + 1 \in S /\ S \in SUBSET Nat BY <1>1, <1>2
<1>4. PICK m \in S : \A k \in S : m <= k BY <1>3, Least
<1>5. \A v \in Cardinality(alive) + 1 .. m - 1 : v \in alive
  BY <1>1, <1>2, <1>4
<1> QED BY <1>2, <1>4, <1>5 DEF NewUid

\* get_next_free_dev_addr() finds an address that nobody has, since there are more
\* addresses than devices; it tries only taken ones before.
LEMMA FreeTryIsFree ==
    ASSUME TypeOK
    PROVE  /\ FreeTry \in 0..MaxAddr - 1 /\ Try(FreeTry) \in 1..MaxAddr
           /\ Owners(Try(FreeTry)) = {}
           /\ \A j \in 0..FreeTry - 1 : Owners(Try(j)) # {}
<1>1. MaxAddr \in Nat \ {0} /\ MaxUid \in Nat /\ MaxUid < MaxAddr /\ nextAddr \in 1..MaxAddr
      /\ alive \subseteq 1..MaxUid /\ addr \in [Uid -> 0..MaxAddr]
  BY BoundsAreNat, EnoughAddresses DEF TypeOK, Uid
<1>2. PICK a \in 1..MaxAddr : Owners(a) = {}
  <2> SUFFICES ASSUME \A a \in 1..MaxAddr : Owners(a) # {} PROVE FALSE
    OBVIOUS
  <2> DEFINE f == [a \in 1..MaxAddr |-> CHOOSE u \in alive : addr[u] = a]
  <2>1. \A a \in 1..MaxAddr : f[a] \in alive /\ addr[f[a]] = a BY DEF Owners
  <2>2. IsFiniteSet(1..MaxUid) /\ Cardinality(1..MaxUid) = MaxUid
        /\ IsFiniteSet(1..MaxAddr) /\ Cardinality(1..MaxAddr) = MaxAddr
    BY <1>1, FS_Interval
  <2>3. IsFiniteSet(alive) /\ Cardinality(alive) <= MaxUid /\ Cardinality(alive) \in Nat
    BY <1>1, <2>2, FS_Subset, FS_CardinalityType, ZenonT(60)
  <2>4. Cardinality(alive) < Cardinality(1..MaxAddr) /\ f \in [1..MaxAddr -> alive]
    BY <1>1, <2>1, <2>2, <2>3
  <2> HIDE DEF f
  <2>5. \E x, y \in 1..MaxAddr : x # y /\ f[x] = f[y]
    BY <2>2, <2>3, <2>4, FS_PigeonHole
  <2> QED BY <2>1, <2>5
<1> DEFINE k0 == IF a >= nextAddr THEN a - nextAddr ELSE a + MaxAddr - nextAddr
<1>3. k0 \in 0..MaxAddr - 1 /\ Try(k0) = a
  <2>1. k0 \in 0..MaxAddr - 1 /\ a - 1 \in 0..MaxAddr - 1 BY <1>1
  <2>2. nextAddr - 1 + k0 = a - 1 \/ nextAddr - 1 + k0 = (a - 1) + MaxAddr
    BY <1>1
  <2>3. (nextAddr - 1 + k0) % MaxAddr = a - 1 BY <1>1, <2>1, <2>2, ModIs
  <2> QED BY <1>1, <2>1, <2>3 DEF Try
<1> DEFINE S == {k \in 0..MaxAddr - 1 : Owners(Try(k)) = {}}
<1>4. k0 \in S /\ S \in SUBSET Nat BY <1>1, <1>2, <1>3
<1>5. PICK m \in S : \A k \in S : m <= k BY <1>4, Least
<1>6. \A j \in 0..m - 1 : Owners(Try(j)) # {} BY <1>1, <1>5
<1>7. \A k \in Nat : Try(k) \in 1..MaxAddr BY <1>1 DEF Try
<1> HIDE DEF k0
<1>8. FreeTry \in 0..MaxAddr - 1 /\ Owners(Try(FreeTry)) = {}
      /\ \A j \in 0..FreeTry - 1 : Owners(Try(j)) # {}
  BY <1>1, <1>5, <1>6 DEF FreeTry
<1> QED BY <1>1, <1>7, <1>8

---------------------------------------------------------------------------
(* What follows a stage *)

\* A stage is skipped with the string it belongs to.
LEMMA SkippedIs ==
    \A s : Skipped(s) <=>
        \/ "MANU" \notin strs /\ s \in StagesOf("MANU")
        \/ "PROD" \notin strs /\ s \in StagesOf("PROD")
        \/ "SER" \notin strs /\ s \in StagesOf("SER")
BY DEF Skipped, StringName

\* Only the three strings are skipped, the language table never is.
LEMMA OnlyStringsAreSkipped ==
    \A s \in StageNames : Skipped(s) =>
        /\ s \in StringStages
        /\ s \notin {"GET_SHORT_LANGID", "CHECK_SHORT_LANGID", "GET_FULL_LANGID", "CHECK_FULL_LANGID"}
BY SkippedIs, PartsAre

\* A response is looked at right after its request, and skipped with it.
LEMMA ChecksFollowGets ==
    \A i \in 1..33 : Stages[i] \in Checks =>
        i > 1 /\ Stages[i - 1] \in Gets /\ (Skipped(Stages[i]) <=> Skipped(Stages[i - 1]))
<1> SUFFICES ASSUME NEW i \in 1..33, Stages[i] \in Checks
             PROVE  i > 1 /\ Stages[i - 1] \in Gets /\ (Skipped(Stages[i]) <=> Skipped(Stages[i - 1]))
  OBVIOUS
<1>1. i \in {2, 6, 9, 12, 14, 16, 18, 20, 22, 24, 26, 28, 30, 32}
  BY ChecksAre, StagesAre
<1>2. i > 1 /\ Stages[i - 1] \in Gets BY <1>1, StagesAre DEF Gets
<1>3. \A x \in {"MANU", "PROD", "SER"} : Stages[i] \in StagesOf(x) <=> Stages[i - 1] \in StagesOf(x)
  BY <1>1, StagesAre, PartsAre
<1> QED BY <1>2, <1>3, SkippedIs

\* set_next_stage() ends at the first stage ahead that is not skipped.
LEMMA FollowingIs ==
    \A p \in 1..32 : \E i \in p + 1..33 :
        /\ Following(Stages[p]) = Stages[i] /\ ~Skipped(Stages[i])
        /\ \A j \in p + 1..i - 1 : Skipped(Stages[j])
<1> SUFFICES ASSUME NEW p \in 1..32
             PROVE  \E i \in p + 1..33 :
                        /\ Following(Stages[p]) = Stages[i] /\ ~Skipped(Stages[i])
                        /\ \A j \in p + 1..i - 1 : Skipped(Stages[j])
  OBVIOUS
<1> DEFINE ahead == {i \in p + 1..33 : ~Skipped(Stages[i])}
<1>1. 33 \in ahead /\ ahead \in SUBSET Nat
  <2>1. ~Skipped("COMPLETE") BY SkippedIs, PartsAre
  <2> QED BY <2>1, StagesAre
<1>2. Following(Stages[p]) = Stages[CHOOSE i \in ahead : \A j \in ahead : i <= j]
  <2>1. {i \in Pos(Stages[p]) + 1 .. Len(Stages) : ~Skipped(Stages[i])} = ahead
    BY StagesAre, PosIs
  <2> HIDE DEF ahead
  <2> QED BY <2>1 DEF Following
<1>3. PICK m \in ahead : \A j \in ahead : m <= j BY <1>1, Least
<1> DEFINE c == CHOOSE i \in ahead : \A j \in ahead : i <= j
<1>4. c \in ahead /\ \A j \in ahead : c <= j BY <1>3
<1> HIDE DEF c
<1>5. c \in p + 1..33 /\ ~Skipped(Stages[c]) /\ \A j \in p + 1..c - 1 : Skipped(Stages[j])
  BY <1>4
<1> QED BY <1>2, <1>5 DEF c

\* ... which is the next one, if that is not skipped.
LEMMA FollowingNext ==
    \A p \in 1..32 : ~Skipped(Stages[p + 1]) => Following(Stages[p]) = Stages[p + 1]
<1> SUFFICES ASSUME NEW p \in 1..32, ~Skipped(Stages[p + 1]) PROVE Following(Stages[p]) = Stages[p + 1]
  OBVIOUS
<1>1. PICK i \in p + 1..33 : /\ Following(Stages[p]) = Stages[i]
                             /\ \A j \in p + 1..i - 1 : Skipped(Stages[j])
  BY FollowingIs
<1>2. i = p + 1 BY <1>1
<1> QED BY <1>1, <1>2

\* Outside of the strings the next stage is the next in the list.
LEMMA FirstStages ==
    /\ Following("GET_SHORT_DEV_DESC") = "CHECK_SHORT_DEV_DESC"
    /\ Following("CHECK_SHORT_DEV_DESC") = "SECOND_RESET"
    /\ Following("SECOND_RESET_COMPLETE") = "SET_ADDR"
    /\ Following("SET_ADDR") = "CHECK_ADDR"
    /\ Following("CHECK_ADDR") = "SET_ADDR_RECOVERY"
    /\ Following("SET_ADDR_RECOVERY") = "GET_FULL_DEV_DESC"
    /\ Following("GET_FULL_DEV_DESC") = "CHECK_FULL_DEV_DESC"
    /\ Following("CHECK_FULL_DEV_DESC") = "SELECT_CONFIG"
    /\ Following("SELECT_CONFIG") = "GET_SHORT_CONFIG_DESC"
    /\ Following("GET_SHORT_CONFIG_DESC") = "CHECK_SHORT_CONFIG_DESC"
    /\ Following("CHECK_SHORT_CONFIG_DESC") = "GET_FULL_CONFIG_DESC"
    /\ Following("GET_FULL_CONFIG_DESC") = "CHECK_FULL_CONFIG_DESC"
    /\ Following("CHECK_FULL_CONFIG_DESC") = "GET_SHORT_LANGID"
    /\ Following("SET_CONFIG") = "CHECK_CONFIG"
    /\ Following("CHECK_CONFIG") = "COMPLETE"
<1>1. \A i \in 1..15 \cup 31..33 : ~Skipped(Stages[i])
  <2>1. \A i \in 1..15 \cup 31..33 : Stages[i] \notin StringStages \/ Stages[i] = "GET_SHORT_LANGID"
    BY StagesAre, PartsAre
  <2> QED BY <2>1, OnlyStringsAreSkipped DEF StageNames
<1>2. \A p \in 1..14 \cup 31..32 : Following(Stages[p]) = Stages[p + 1]
  BY <1>1, FollowingNext
<1> QED BY <1>2, StagesAre

\* From a string one gets to strings or to SET_CONFIG; from a request to the
\* look at its response, and from there to another request.
LEMMA FollowingLate ==
    ASSUME NEW s \in StringStages
    PROVE  /\ Following(s) \in Late /\ Following(s) # "GET_SHORT_DEV_DESC"
           /\ ~Skipped(Following(s))
           /\ s \in Checks => Following(s) \notin Checks
           /\ s \in Gets /\ ~Skipped(s) => Following(s) \in Checks
<1>1. PICK p \in 15..30 : s = Stages[p] BY PartsAre, StagesAre
<1>2. PICK i \in p + 1..33 : /\ Following(s) = Stages[i] /\ ~Skipped(Stages[i])
                             /\ \A j \in p + 1..i - 1 : Skipped(Stages[j])
  BY <1>1, FollowingIs
<1>3. Following(s) \in Late /\ Following(s) # "GET_SHORT_DEV_DESC"
  BY <1>1, <1>2, StagesAre, PartsAre
<1>4. ASSUME s \in Checks, Following(s) \in Checks PROVE FALSE
  <2>1. i > 1 /\ Stages[i - 1] \in Gets /\ ~Skipped(Stages[i - 1])
    BY <1>2, <1>4, ChecksFollowGets
  <2>2. i - 1 = p BY <1>2, <2>1
  <2> QED BY <1>1, <1>4, <2>1, <2>2, ChecksAre DEF Gets
<1>5. ASSUME s \in Gets, ~Skipped(s) PROVE Following(s) \in Checks
  <2>1. p \in {15, 17, 19, 21, 23, 25, 27, 29}
    BY <1>1, <1>5, StagesAre DEF Gets
  <2>2. Stages[p + 1] \in Checks BY <2>1, StagesAre, ChecksAre
  <2>3. ~Skipped(Stages[p + 1]) BY <1>1, <1>5, <2>1, <2>2, ChecksFollowGets
  <2> QED BY <1>1, <2>2, <2>3, FollowingNext
<1> QED BY <1>2, <1>3, <1>4, <1>5

\* Only reading a string may fail without ending the enumeration.
LEMMA FailureIs ==
    \A s \in StageNames :
        /\ AfterFailure(s) # "CANCEL" =>
              /\ s \in StringStages
              /\ AfterFailure(s) \in {"SET_CONFIG", "GET_SHORT_PROD", "GET_SHORT_SER"}
              /\ ~Skipped(AfterFailure(s)) /\ AfterFailure(s) \in Late
        /\ s \in Gets => AfterFailure(s) = "CANCEL"
BY PartsAre DEF AfterFailure, Gets

---------------------------------------------------------------------------
(* The invariant *)

\* The environments in which the enumerator is safe.  "races" has the disconnection
\* of a device found together with the end of its reset.  Behind a hub, a client
\* that holds a device that is gone keeps its address, at which
\* get_next_free_dev_addr() gives up (enum.c:204).
Tidy == \A e \in Environments : "races" \notin e.uses /\ ~(e.hub /\ "clients" \in e.uses)

\* A device is enumerated.
Enumerating == stage \notin {"IDLE", "CANCEL"}
\* enum_process() will be called.
Requested == enumReq \/ turn

\* enum_process() is called when, and only when, there is something to do: exactly
\* one of the request, the URB and the awaited reset carries the enumeration on.
RequestsAreExact ==
    /\ ~(enumReq /\ turn)
    /\ pc = "wake" => ~turn
    /\ pc = "enum" => turn
    /\ pc = "usbh" /\ enumReq => urb = "done"
    /\ Requested => stage # "IDLE" /\ urb # "flight" /\ ~resetting
    /\ NeedProcess(stage) /\ stage # "CANCEL" => Requested
    /\ stage \in Checks \cup {"CANCEL"} => Requested \/ urb = "flight"
    /\ stage = "SECOND_RESET_COMPLETE" => Requested \/ resetting \/ nodeUid \notin link
    /\ resetting => stage = "SECOND_RESET_COMPLETE"
    /\ stage \in Checks => urb # "idle"

\* What the enumerator knows of its device, as long as it is its device.
HandlesAgree ==
    /\ urb # "idle" => devHdl # NoDev /\ stage \in Checks \cup {"CANCEL"}
    /\ stage = "IDLE" => nodeUid = NoDev /\ devHdl = NoDev /\ pending = <<>>
    /\ stage # "IDLE" => nodeUid # NoDev /\ context = nodeUid /\ outcome[nodeUid] # "completed"
    /\ devHdl # NoDev => /\ devHdl = nodeUid /\ devHdl \in alive /\ devHdl \notin inUse
                         /\ outcome[devHdl] = "started"
    /\ Enumerating => devHdl = nodeUid /\ devHdl \notin gone /\ ~Skipped(stage)
    /\ stage = "CANCEL" /\ nodeUid \notin alive => pc \in {"hub", "enum"} /\ turn

\* How far the device object is at each stage.
Progress ==
    /\ stage \in Early => state[devHdl] = "default" /\ addr[devHdl] = 0
    /\ stage = "CHECK_ADDR" => newAddr # 0 /\ Owners(newAddr) = {}
    /\ stage \in Mid => state[devHdl] = "address" /\ addr[devHdl] = newAddr /\ newAddr # 0
    /\ stage \in Late => state[devHdl] = "configured" /\ addr[devHdl] = newAddr /\ newAddr # 0

\* At most one device waits, the one without an address.  It is not the one that is
\* enumerated, unless that one has left and its uid is used again.
OneWaits ==
    pending # <<>> =>
        /\ Len(pending) = 1 /\ pending[1] \in alive
        /\ addr[pending[1]] = 0 /\ state[pending[1]] = "default" /\ outcome[pending[1]] = "none"
        /\ (pending[1] = nodeUid \/ pending[1] \in gone) =>
              /\ pending[1] = nodeUid /\ stage = "CANCEL" /\ devHdl = NoDev
              /\ pc \in {"hub", "enum"} /\ turn

\* A uid that nobody has carries nothing from its last device.
NobodysAreClean ==
    \A u \in Uid \ alive : addr[u] = 0 /\ state[u] = "default" /\ outcome[u] = "none"

\* Announced devices are configured, at an address.
CompletedAreReady ==
    \A u \in alive : outcome[u] = "completed" => state[u] = "configured" /\ addr[u] # 0

\* Clients hold announced devices.  A device that is gone holds up no enumeration
\* that has got as far as processing a stage.
UsersAndGone ==
    /\ gone \cap link = {}
    /\ \A u \in inUse : outcome[u] = "completed"
    /\ Hub => inUse = {1} /\ 1 \in link /\ nodeUid # 1
    /\ ~Hub => \A u, v \in alive : u = v
    /\ Enumerating /\ gone # {} =>
          /\ stage = "GET_SHORT_DEV_DESC"
          /\ pc \in {"wake", "usbh"} \/ (pc = "hub" /\ enumReq)

\* The inductive invariant.
EnumInv ==
    /\ TypeOK /\ crash = "none" /\ AddressesDiffer
    /\ RequestsAreExact /\ HandlesAgree /\ Progress /\ OneWaits
    /\ NobodysAreClean /\ CompletedAreReady /\ UsersAndGone

---------------------------------------------------------------------------
(* Steps that leave the stage alone *)

\* It holds when nothing happens,
LEMMA StutterKeeps == EnumInv /\ UNCHANGED vars => EnumInv'
<1> SUFFICES ASSUME EnumInv, UNCHANGED vars PROVE EnumInv'
  OBVIOUS
<1> USE DEF EnumInv, vars, enumVars, devVars
<1>1. TypeOK' BY DEF TypeOK
<1>2. AddressesDiffer' BY DEF AddressesDiffer
<1>3. RequestsAreExact' BY DEF RequestsAreExact, Requested
<1>4. HandlesAgree' BY DEF HandlesAgree, Enumerating, Skipped, TypeOK
<1>5. Progress' BY DEF Progress, Owners
<1>6. OneWaits' BY DEF OneWaits
<1>7. NobodysAreClean' /\ CompletedAreReady'
  BY DEF NobodysAreClean, CompletedAreReady
<1>8. UsersAndGone' BY DEF UsersAndGone, Enumerating, Hub
<1> QED BY <1>1, <1>2, <1>3, <1>4, <1>5, <1>6, <1>7, <1>8

\* when the daemon takes the ENUM flag,
LEMMA WakeKeeps == EnumInv /\ Wake => EnumInv'
<1> SUFFICES ASSUME EnumInv, Wake PROVE EnumInv'
  OBVIOUS
<1> USE DEF EnumInv, Wake, enumVars, devVars
<1>1. TypeOK' BY DEF TypeOK
<1>2. AddressesDiffer' BY DEF AddressesDiffer
<1>3. RequestsAreExact' BY DEF RequestsAreExact, Requested, TypeOK
<1>4. HandlesAgree' BY DEF HandlesAgree, Enumerating, Skipped, TypeOK
<1>5. Progress' BY DEF Progress, Owners
<1>6. OneWaits' BY DEF OneWaits
<1>7. NobodysAreClean' /\ CompletedAreReady'
  BY DEF NobodysAreClean, CompletedAreReady
<1>8. UsersAndGone' BY DEF UsersAndGone, Enumerating, Hub
<1> QED BY <1>1, <1>2, <1>3, <1>4, <1>5, <1>6, <1>7, <1>8

\* when the hub driver has no more events,
LEMMA HubEndKeeps == EnumInv /\ HubEnd => EnumInv'
<1> SUFFICES ASSUME EnumInv, HubEnd PROVE EnumInv'
  OBVIOUS
<1> USE DEF EnumInv, HubEnd, enumVars, devVars
<1>1. TypeOK' BY DEF TypeOK
<1>2. AddressesDiffer' BY DEF AddressesDiffer
<1>3. RequestsAreExact' BY DEF RequestsAreExact, Requested, TypeOK
<1>4. HandlesAgree' BY DEF HandlesAgree, Enumerating, Skipped, TypeOK
<1>5. Progress' BY DEF Progress, Owners
<1>6. OneWaits' BY DEF OneWaits
<1>7. NobodysAreClean' /\ CompletedAreReady'
  BY DEF NobodysAreClean, CompletedAreReady
<1>8. UsersAndGone' BY DEF UsersAndGone, Enumerating, Hub, RequestsAreExact
<1> QED BY <1>1, <1>2, <1>3, <1>4, <1>5, <1>6, <1>7, <1>8

\* when the transfer ends, whose callback finds the device open,
LEMMA TransferDoneKeeps == EnumInv /\ TransferDone => EnumInv'
<1> SUFFICES ASSUME EnumInv, TransferDone PROVE EnumInv'
  OBVIOUS
<1> USE DEF EnumInv, TransferDone, enumVars, devVars
<1>1. crash' = "none" BY DEF HandlesAgree
<1>2. TypeOK' /\ AddressesDiffer' BY <1>1 DEF TypeOK, AddressesDiffer
<1>3. RequestsAreExact'
  BY ChecksAre DEF RequestsAreExact, Requested, TypeOK, HandlesAgree, NeedProcess, Gets
<1>4. HandlesAgree' BY DEF HandlesAgree, Enumerating, Skipped, TypeOK
<1>5. Progress' BY DEF Progress, Owners
<1>6. OneWaits' BY DEF OneWaits
<1>7. NobodysAreClean' /\ CompletedAreReady'
  BY DEF NobodysAreClean, CompletedAreReady
<1>8. UsersAndGone' BY DEF UsersAndGone, Enumerating, Hub
<1> QED BY <1>1, <1>2, <1>3, <1>4, <1>5, <1>6, <1>7, <1>8

\* when the hub reports that the awaited reset is over,
LEMMA ResetCompletedKeeps == EnumInv /\ ResetCompleted => EnumInv'
<1> SUFFICES ASSUME EnumInv, ResetCompleted PROVE EnumInv'
  OBVIOUS
<1> USE DEF EnumInv, ResetCompleted, enumVars, devVars
<1>1. stage = "SECOND_RESET_COMPLETE" /\ urb = "idle"
  BY ChecksAre DEF RequestsAreExact, HandlesAgree, TypeOK
<1>2. TypeOK' /\ AddressesDiffer' BY DEF TypeOK, AddressesDiffer
<1>3. RequestsAreExact'
  BY <1>1, ChecksAre DEF RequestsAreExact, Requested, TypeOK
<1>4. HandlesAgree' BY DEF HandlesAgree, Enumerating, Skipped, TypeOK
<1>5. Progress' BY DEF Progress, Owners
<1>6. OneWaits' BY DEF OneWaits
<1>7. NobodysAreClean' /\ CompletedAreReady'
  BY DEF NobodysAreClean, CompletedAreReady
<1>8. UsersAndGone' BY <1>1 DEF UsersAndGone, Enumerating, Hub
<1> QED BY <1>1, <1>2, <1>3, <1>4, <1>5, <1>6, <1>7, <1>8

\* when a device is unplugged,
LEMMA UnplugKeeps == \A u \in Uid : EnumInv /\ Unplug(u) => EnumInv'
<1> SUFFICES ASSUME NEW u \in Uid, EnumInv, Unplug(u) PROVE EnumInv'
  OBVIOUS
<1> USE DEF EnumInv, Unplug, enumVars, devVars
<1>2. TypeOK' /\ AddressesDiffer' BY DEF TypeOK, AddressesDiffer
<1>3. RequestsAreExact' BY DEF RequestsAreExact, Requested, TypeOK
<1>4. HandlesAgree' BY DEF HandlesAgree, Enumerating, Skipped, TypeOK
<1>5. Progress' BY DEF Progress, Owners
<1>6. OneWaits' BY DEF OneWaits
<1>7. NobodysAreClean' /\ CompletedAreReady'
  BY DEF NobodysAreClean, CompletedAreReady
<1>8. UsersAndGone' BY DEF UsersAndGone, Enumerating, Hub, TypeOK
<1> QED BY <1>2, <1>3, <1>4, <1>5, <1>6, <1>7, <1>8

\* when a client opens a device (there is no hub then),
LEMMA ClientOpenKeeps == \A u \in Uid : Tidy /\ EnumInv /\ ClientOpen(u) => EnumInv'
<1> SUFFICES ASSUME NEW u \in Uid, Tidy, EnumInv, ClientOpen(u) PROVE EnumInv'
  OBVIOUS
<1> USE DEF EnumInv, ClientOpen, enumVars, devVars
<1>1. ~Hub BY DEF Tidy, Hub, Uses, TypeOK
<1>2. TypeOK' /\ AddressesDiffer' BY DEF TypeOK, AddressesDiffer, Openable
<1>3. RequestsAreExact' BY DEF RequestsAreExact, Requested, TypeOK
<1>4. HandlesAgree' BY DEF HandlesAgree, Enumerating, Skipped, TypeOK
<1>5. Progress' BY DEF Progress, Owners
<1>6. OneWaits' BY DEF OneWaits
<1>7. NobodysAreClean' /\ CompletedAreReady'
  BY DEF NobodysAreClean, CompletedAreReady
<1>8. UsersAndGone' BY <1>1 DEF UsersAndGone, Enumerating, Hub, TypeOK
<1> QED BY <1>2, <1>3, <1>4, <1>5, <1>6, <1>7, <1>8

\* and when it closes it.
LEMMA ClientCloseKeeps == \A u \in Uid : EnumInv /\ ClientClose(u) => EnumInv'
<1> SUFFICES ASSUME NEW u \in Uid, EnumInv, ClientClose(u) PROVE EnumInv'
  OBVIOUS
<1> USE DEF EnumInv, ClientClose, enumVars, devVars
<1>2. TypeOK' /\ AddressesDiffer' BY DEF TypeOK, AddressesDiffer
<1>3. RequestsAreExact' BY DEF RequestsAreExact, Requested, TypeOK
<1>4. HandlesAgree' BY DEF HandlesAgree, Enumerating, Skipped, TypeOK
<1>5. Progress' BY DEF Progress, Owners
<1>6. OneWaits' BY DEF OneWaits
<1>7. NobodysAreClean' /\ CompletedAreReady'
  BY DEF NobodysAreClean, CompletedAreReady
<1>8. UsersAndGone' BY DEF UsersAndGone, Enumerating, Hub, TypeOK
<1> QED BY <1>2, <1>3, <1>4, <1>5, <1>6, <1>7, <1>8

\* IDLE and CANCEL are none of the other stages.
LEMMA NamesAre == \A s \in StageNames : s \notin {"IDLE", "CANCEL"}
<1>1. \A i \in 1..33 : Stages[i] # "IDLE" /\ Stages[i] # "CANCEL"
  BY StagesAre
<1> QED BY <1>1 DEF StageNames

\* When the USBH frees devices that are gone: never the one that is enumerated, which
\* the enumerator holds open.
LEMMA UsbhEndKeeps == EnumInv /\ UsbhEnd => EnumInv'
<1> SUFFICES ASSUME EnumInv, UsbhEnd PROVE EnumInv'
  OBVIOUS
<1> DEFINE freed == {u \in gone : u # devHdl /\ u \notin inUse}
<1>0. /\ pc = "usbh" /\ pc' = "hub"
      /\ alive' = alive \ freed /\ gone' = gone \ freed
      /\ addr' = [u \in Uid |-> IF u \in freed THEN 0 ELSE addr[u]]
      /\ state' = [u \in Uid |-> IF u \in freed THEN "default" ELSE state[u]]
      /\ outcome' = [u \in Uid |-> IF u \in freed THEN "none" ELSE outcome[u]]
      /\ UNCHANGED <<enumVars, urb, enumReq, turn, link, resetting, inUse, env, crash>>
  BY DEF UsbhEnd
<1>f. freed \subseteq gone /\ devHdl \notin freed /\ freed \cap inUse = {}
  OBVIOUS
<1>g. gone \subseteq freed \cup {devHdl} \cup inUse OBVIOUS
<1> HIDE DEF freed
<1> USE <1>0, <1>f DEF EnumInv, enumVars, devVars
<1>t. /\ gone \subseteq alive /\ alive \subseteq Uid /\ inUse \subseteq alive
      /\ addr \in [Uid -> 0..MaxAddr] /\ MaxAddr \in Nat
      /\ nodeUid \in Uid \cup {NoDev} /\ devHdl \in Uid \cup {NoDev}
  BY BoundsAreNat DEF TypeOK
<1>1. TypeOK'
  <2>1. addr' \in [Uid -> 0..MaxAddr] /\ (inUse \subseteq alive)' /\ (link \subseteq alive)'
    BY <1>t DEF TypeOK, UsersAndGone
  <2> QED BY <2>1 DEF TypeOK
<1>2. AddressesDiffer' BY <1>t DEF AddressesDiffer
<1>3. RequestsAreExact' BY DEF RequestsAreExact, Requested, TypeOK
<1>4. HandlesAgree'
  <2>1. stage = "CANCEL" /\ nodeUid \in freed => turn
    BY ChecksAre, <1>t DEF HandlesAgree, RequestsAreExact, Requested, TypeOK, Uid
  <2> QED BY <2>1, <1>t DEF HandlesAgree, Enumerating, Skipped
<1>5. Progress'
  <2>1. stage \in StageNames => devHdl \in alive \ freed
    BY <1>t, NamesAre DEF HandlesAgree, Enumerating
  <2>2. Early \cup Mid \cup Late \subseteq StageNames
    BY PartsAre, StagesAre DEF StageNames
  <2>3. newAddr # 0 /\ Owners(newAddr) = {} => Owners(newAddr)' = {}
    BY <1>t DEF Owners
  <2>4. stage \in StageNames => addr'[devHdl] = addr[devHdl] /\ state'[devHdl] = state[devHdl]
    BY <2>1, <1>t
  <2> QED BY <2>2, <2>3, <2>4 DEF Progress
<1>6. OneWaits' BY <1>t DEF OneWaits
<1>7. NobodysAreClean' /\ CompletedAreReady'
  BY <1>t DEF NobodysAreClean, CompletedAreReady
<1>8. UsersAndGone'
  <2>1. Enumerating => gone' = {}
    BY <1>t, <1>g DEF HandlesAgree, Enumerating, UsersAndGone
  <2> QED BY <2>1, <1>t DEF UsersAndGone, Enumerating, Hub
<1> QED BY <1>1, <1>2, <1>3, <1>4, <1>5, <1>6, <1>7, <1>8

\* When a device connects: it is started at once or waits, and nobody else waits, since
\* a device that waits has no address.
LEMMA ConnectedKeeps == EnumInv /\ Connected => EnumInv'
<1> SUFFICES ASSUME EnumInv, Connected PROVE EnumInv'
  OBVIOUS
<1>0. PICK n \in Uid : n = NewUid BY DEF Connected
<1>1. /\ pc = "hub" /\ n \notin alive
      /\ \A u \in alive : addr[u] # 0
      /\ Hub \/ alive = {}
      /\ alive' = alive \cup {n} /\ link' = link \cup {n}
      /\ EnumStart(n)
      /\ UNCHANGED <<nextAddr, urb, turn, pc, gone, addr, state, resetting, inUse, env>>
  BY <1>0, NewUidIsNew DEF Connected, EnumInv
<1>t. /\ gone \subseteq alive /\ alive \subseteq Uid /\ inUse \subseteq alive /\ link \subseteq alive
      /\ nodeUid \in Uid \cup {NoDev} /\ devHdl \in Uid \cup {NoDev}
      /\ outcome \in [Uid -> {"none", "started", "completed", "canceled"}]
      /\ MaxUid \in Nat \ {0} /\ QueueLen \in Nat \ {0} /\ 0 \notin Uid /\ n # 0
  BY BoundsAreNat DEF TypeOK, EnumInv, Uid
<1>p. pending = <<>> BY <1>1 DEF EnumInv, OneWaits
<1>e. stage \notin Early
  BY <1>1, PartsAre DEF EnumInv, HandlesAgree, Enumerating, Progress
<1>n. addr[n] = 0 /\ state[n] = "default"
  BY <1>1 DEF EnumInv, NobodysAreClean
<1> USE <1>1, <1>t, <1>p, <1>n DEF EnumInv
<1>2. AddressesDiffer' BY DEF AddressesDiffer
<1>3. outcome' = [outcome EXCEPT ![n] = IF stage = "IDLE" THEN "started" ELSE "none"]
  BY DEF EnumStart
<1>7. NobodysAreClean' /\ CompletedAreReady'
  BY <1>3 DEF NobodysAreClean, CompletedAreReady
<1>4. CASE stage = "IDLE"
  <2>1. /\ stage' = "GET_SHORT_DEV_DESC"
        /\ nodeUid' = n /\ devHdl' = n /\ context' = n
        /\ strs' = {} /\ newAddr' = 0
        /\ enumReq' = TRUE
        /\ crash' = "none" /\ pending' = pending
    BY <1>4 DEF EnumStart, Begin
  <2>2. TypeOK'
    <3>1. stage' \in {Stages[i] : i \in DOMAIN Stages} \cup {"IDLE", "CANCEL"}
      BY <2>1, StagesAre
    <3>2. outcome' \in [Uid -> {"none", "started", "completed", "canceled"}]
      BY <1>3
    <3>3. newAddr' \in 0..MaxAddr BY <2>1, BoundsAreNat
    <3> QED BY <2>1, <3>1, <3>2, <3>3 DEF TypeOK
  <2>3. RequestsAreExact'
    BY <2>1, <1>4, ChecksAre DEF RequestsAreExact, Requested, HandlesAgree, TypeOK
  <2>4. HandlesAgree'
    <3>1. ~Skipped(stage)' BY <2>1, PartsAre DEF Skipped, StringName
    <3>2. urb' = "idle" BY <1>4, ChecksAre DEF HandlesAgree
    <3>3. outcome'[n] = "started" BY <1>3, <1>4
    <3>4. n \in alive' /\ n \notin inUse' /\ n \notin gone' /\ n # NoDev
      BY DEF NoDev
    <3> QED BY <2>1, <3>1, <3>2, <3>3, <3>4 DEF HandlesAgree, Enumerating
  <2>5. Progress' BY <2>1, PartsAre DEF Progress
  <2>6. OneWaits' BY <2>1 DEF OneWaits
  <2>8. UsersAndGone' BY <2>1, <1>3 DEF UsersAndGone, Hub, Enumerating
  <2> QED BY <1>2, <1>7, <2>1, <2>2, <2>3, <2>4, <2>5, <2>6, <2>8
<1>5. CASE stage # "IDLE"
  <2>1. /\ pending' = <<n>>
        /\ UNCHANGED <<stage, nodeUid, devHdl, context, strs, newAddr, enumReq, crash>>
    <3>1. Len(pending) < QueueLen OBVIOUS
    <3> QED BY <1>5, <3>1 DEF EnumStart
  <2>2. TypeOK'
    <3>2. outcome' \in [Uid -> {"none", "started", "completed", "canceled"}]
      BY <1>3
    <3>3. pending' \in Seq(Uid) /\ Len(pending') <= QueueLen BY <2>1
    <3> QED BY <2>1, <3>2, <3>3 DEF TypeOK
  <2>3. RequestsAreExact'
    <3>1. nodeUid \notin link => nodeUid \notin link' \/ stage # "SECOND_RESET_COMPLETE"
      BY <1>e, PartsAre
    <3> QED BY <2>1, <3>1 DEF RequestsAreExact, Requested
  <2>4. HandlesAgree'
    BY <2>1, <1>3, <1>5 DEF HandlesAgree, Enumerating, UsersAndGone, Skipped
  <2>5. Progress'
    <3>1. stage # "CHECK_ADDR" BY <1>e, PartsAre
    <3> QED BY <2>1, <1>e, <3>1 DEF Progress
  <2>6. OneWaits'
    BY <2>1, <1>3, <1>5 DEF OneWaits, HandlesAgree, Enumerating
  <2>8. UsersAndGone' BY <2>1, <1>3 DEF UsersAndGone, Hub, Enumerating
  <2> QED BY <1>2, <1>7, <2>1, <2>2, <2>3, <2>4, <2>5, <2>6, <2>8
<1> QED BY <1>4, <1>5

---------------------------------------------------------------------------
(* A cancellation *)

\* Each stage makes a request of its own, waits for its transfer, or for a reset.
LEMMA StagesAreOfThreeKinds ==
    ASSUME TypeOK, Enumerating
    PROVE  /\ stage \in StageNames
           /\ NeedProcess(stage) <=> stage \notin Checks \cup {"SECOND_RESET_COMPLETE"}
           /\ "SECOND_RESET_COMPLETE" \notin Checks
<1>1. stage \in StageNames BY StagesAre DEF TypeOK, Enumerating, StageNames
<1>2. \A i \in 1..33 : NeedProcess(Stages[i]) <=> Stages[i] \notin Checks \cup {"SECOND_RESET_COMPLETE"}
  BY StagesAre, ChecksAre DEF NeedProcess, Gets
<1> QED BY <1>1, <1>2, ChecksAre DEF StageNames

\* enum_cancel() closes the device only if nothing of it is in flight, and sees to it
\* that CANCEL is processed.
LEMMA DisconnectedKeeps == \A u \in Uid : Tidy /\ EnumInv /\ Disconnected(u) => EnumInv'
<1> SUFFICES ASSUME NEW u \in Uid, Tidy, EnumInv, Disconnected(u) PROVE EnumInv'
  OBVIOUS
<1>1. /\ u = nodeUid \/ stage = "IDLE"
      /\ ~(stage = "SECOND_RESET_COMPLETE" /\ Requested)
  BY DEF Disconnected, MayReport, Tidy, Uses, EnumInv, TypeOK, Requested
<1>2. /\ pc = "hub" /\ u \in alive \ (gone \cup link)
      /\ EnumCancel
      /\ gone' = gone \cup {u}
      /\ resetting' = (resetting /\ u # nodeUid)
      /\ UNCHANGED <<nodeUid, context, newAddr, strs, nextAddr, pending, urb, turn,
                     pc, alive, addr, state, link, inUse, outcome, env, crash>>
  BY DEF Disconnected
<1>t. /\ gone \subseteq alive /\ alive \subseteq Uid /\ inUse \subseteq alive /\ link \subseteq alive
      /\ nodeUid \in Uid \cup {NoDev} /\ devHdl \in Uid \cup {NoDev}
      /\ {enumReq, turn, resetting} \subseteq BOOLEAN /\ urb \in {"idle", "flight", "done"}
  BY DEF TypeOK, EnumInv
<1> USE <1>2 DEF EnumInv
<1>3. AddressesDiffer' /\ NobodysAreClean' /\ CompletedAreReady'
  BY DEF AddressesDiffer, NobodysAreClean, CompletedAreReady
<1>4. CASE ~Enumerating
  <2>1. UNCHANGED <<stage, devHdl, enumReq>>
    BY <1>4 DEF EnumCancel, Enumerating
  <2>2. TypeOK' BY <1>t, <2>1 DEF TypeOK
  <2>3. RequestsAreExact'
    BY <1>t, <2>1, <1>4, ChecksAre DEF RequestsAreExact, Requested, Enumerating
  <2>4. HandlesAgree' BY <2>1, <1>4 DEF HandlesAgree, Enumerating
  <2>5. Progress' BY <2>1 DEF Progress, Owners
  <2>6. OneWaits'
    BY <2>1, <1>1, <1>4 DEF OneWaits, HandlesAgree, Enumerating
  <2>8. UsersAndGone' BY <2>1, <1>4 DEF UsersAndGone, Hub, Enumerating
  <2> QED BY <1>3, <2>1, <2>2, <2>3, <2>4, <2>5, <2>6, <2>8
<1>5. CASE Enumerating
  <2>1. /\ stage' = "CANCEL"
        /\ devHdl' = IF NeedProcess(stage) THEN NoDev ELSE devHdl
        /\ enumReq' = (enumReq \/ stage = "SECOND_RESET_COMPLETE")
        /\ u = nodeUid /\ resetting' = FALSE /\ stage # "IDLE"
    BY <1>1, <1>5 DEF EnumCancel, Enumerating
  <2>k. /\ NeedProcess(stage) <=> stage \notin Checks \cup {"SECOND_RESET_COMPLETE"}
        /\ "SECOND_RESET_COMPLETE" \notin Checks \cup {"CANCEL"}
    BY <1>5, StagesAreOfThreeKinds
  <2>2. TypeOK'
    <3>1. enumReq' \in BOOLEAN BY <1>t, <2>1
    <3>2. {nodeUid, devHdl, context}' \subseteq Uid \cup {NoDev}
      BY <2>1 DEF TypeOK
    <3> QED BY <1>t, <2>1, <3>1, <3>2 DEF TypeOK
  <2>3. RequestsAreExact'
    <3>1. stage = "SECOND_RESET_COMPLETE" => ~Requested /\ urb = "idle"
      BY <1>1, <1>t, <2>k DEF HandlesAgree
    <3>2. Requested' => urb # "flight"
      BY <3>1, <2>1 DEF RequestsAreExact, Requested
    <3>3. Requested' \/ urb = "flight"
      BY <1>5, <2>1, <2>k DEF RequestsAreExact, Requested, Enumerating
    <3>4. ~(enumReq' /\ turn) BY <2>1, <3>1 DEF RequestsAreExact, Requested
    <3> QED BY <2>1, <3>2, <3>3, <3>4, ChecksAre DEF RequestsAreExact, Requested
  <2>4. HandlesAgree' BY <2>1, <2>k, <1>5 DEF HandlesAgree, Enumerating
  <2>5. Progress' BY <2>1, PartsAre DEF Progress
  <2>6. OneWaits' BY <2>1, <1>5 DEF OneWaits, Enumerating
  <2>8. UsersAndGone' BY <2>1 DEF UsersAndGone, Hub, Enumerating
  <2> QED BY <1>3, <2>1, <2>2, <2>3, <2>4, <2>5, <2>6, <2>8
<1> QED BY <1>4, <1>5

---------------------------------------------------------------------------
(* Steps of enum_process() that go on with the device *)

\* While a stage is processed nothing else of the enumeration is under way.
LEMMA ProcessingIs ==
    ASSUME EnumInv, pc = "enum", Enumerating
    PROVE  /\ turn /\ ~enumReq /\ urb # "flight" /\ ~resetting /\ gone = {}
           /\ devHdl = nodeUid /\ devHdl \in alive /\ devHdl \notin inUse
           /\ outcome[devHdl] = "started" /\ ~Skipped(stage)
           /\ pending # <<>> => pending[1] # devHdl
           /\ stage \notin Checks => urb = "idle"
BY DEF EnumInv, RequestsAreExact, HandlesAgree, UsersAndGone, OneWaits, Requested, Enumerating, TypeOK

\* A stage is processed and leads to another one of the same device: a transfer is in
\* flight then, or processing is requested again.
MovesOn ==
    /\ pc = "enum" /\ Enumerating /\ pc' = "wake" /\ turn' = FALSE
    /\ stage' \in (StageNames \ {"SECOND_RESET_COMPLETE"}) \cup {"CANCEL"}
    /\ IF stage' \in Checks THEN urb' = "flight" /\ enumReq' = FALSE
                            ELSE urb' = "idle" /\ enumReq' = TRUE
    /\ stage' # "CANCEL" => ~Skipped(stage)'
    /\ \A u \in Uid \ {devHdl} : addr'[u] = addr[u] /\ state'[u] = state[u]
    /\ crash' = "none"
    /\ UNCHANGED <<nodeUid, devHdl, context, pending, alive, gone, link, resetting,
                   inUse, outcome, env>>

\* Such a step keeps the parts of the invariant that do not look at the device object.
LEMMA MovingOnKeeps ==
    EnumInv /\ MovesOn => /\ RequestsAreExact' /\ HandlesAgree' /\ OneWaits'
                          /\ NobodysAreClean' /\ UsersAndGone'
<1> SUFFICES ASSUME EnumInv, MovesOn
             PROVE  /\ RequestsAreExact' /\ HandlesAgree' /\ OneWaits'
                    /\ NobodysAreClean' /\ UsersAndGone'
  OBVIOUS
<1>p. /\ turn /\ ~enumReq /\ urb # "flight" /\ ~resetting /\ gone = {}
      /\ devHdl = nodeUid /\ devHdl \in alive /\ devHdl \notin inUse
      /\ outcome[devHdl] = "started"
      /\ pending # <<>> => pending[1] # devHdl
  BY ProcessingIs DEF MovesOn
<1>t. alive \subseteq Uid /\ NoDev \notin Uid /\ resetting = FALSE
  BY <1>p, BoundsAreNat DEF EnumInv, TypeOK, Uid, NoDev
<1>s. /\ stage' # "IDLE" /\ stage # "IDLE" /\ stage # "CANCEL"
      /\ stage' # "CANCEL" => Enumerating'
      /\ "CANCEL" \notin Checks
      /\ stage' # "SECOND_RESET_COMPLETE"
  BY NamesAre, ChecksAre DEF MovesOn, Enumerating
<1> USE <1>p, <1>t, <1>s DEF MovesOn
<1>1. RequestsAreExact'
  <2>1. stage' \in Checks => ~NeedProcess(stage')
    BY ChecksAre DEF NeedProcess, Gets
  <2> QED BY <2>1 DEF RequestsAreExact, Requested
<1>2. HandlesAgree' BY DEF HandlesAgree, EnumInv, Enumerating
<1>3. OneWaits' BY DEF OneWaits, EnumInv
<1>4. NobodysAreClean' BY DEF NobodysAreClean, EnumInv
<1>5. UsersAndGone' BY DEF UsersAndGone, EnumInv, Hub, Enumerating
<1> QED BY <1>1, <1>2, <1>3, <1>4, <1>5

\* After a request comes the look at its response, in the same part.
LEMMA GetsAreFollowed ==
    ASSUME NEW s \in Gets, ~Skipped(s)
    PROVE  /\ Following(s) \in Checks \cap StageNames /\ ~Skipped(Following(s))
           /\ Following(s) \in Early => s \in Early
           /\ Following(s) \in Mid => s \in Mid
           /\ Following(s) \in Late => s \in Late
           /\ Following(s) = "CHECK_ADDR" => s = "SET_ADDR"
<1>1. CASE s \in StringStages
  <2>1. /\ Following(s) \in Late /\ ~Skipped(Following(s)) /\ Following(s) \in Checks
    BY <1>1, FollowingLate
  <2>2. Late \subseteq StageNames BY PartsAre, StagesAre DEF StageNames
  <2>3. s \in Late BY <1>1, PartsAre
  <2>4. Following(s) \notin Early /\ Following(s) \notin Mid /\ Following(s) # "CHECK_ADDR"
    BY <2>1, PartsAre
  <2> QED BY <2>1, <2>2, <2>3, <2>4
<1>2. CASE s \notin StringStages
  <2>1. s \in {"GET_SHORT_DEV_DESC", "SET_ADDR", "GET_FULL_DEV_DESC",
               "GET_SHORT_CONFIG_DESC", "GET_FULL_CONFIG_DESC", "SET_CONFIG"}
    BY <1>2, PartsAre DEF Gets
  <2>2. Following(s) \in {"CHECK_SHORT_DEV_DESC", "CHECK_ADDR", "CHECK_FULL_DEV_DESC",
               "CHECK_SHORT_CONFIG_DESC", "CHECK_FULL_CONFIG_DESC", "CHECK_CONFIG"}
    BY <2>1, FirstStages
  <2>3. Following(s) \in Checks \cap StageNames
    BY <2>2, ChecksAre, StagesAre DEF StageNames
  <2>4. ~Skipped(Following(s))
    BY <2>2, <2>3, OnlyStringsAreSkipped, PartsAre
  <2> QED BY <2>1, <2>3, <2>4, FirstStages, PartsAre
<1> QED BY <1>1, <1>2

\* Submitting keeps the invariant, whether it works or not.
LEMMA SubmittingKeeps ==
    ASSUME EnumInv, pc = "enum", stage \in Gets, pc' = "wake", turn' = FALSE, Submit,
           newAddr' \in 0..MaxAddr, nextAddr' \in 1..MaxAddr,
           IF stage = "SET_ADDR" THEN newAddr' # 0 /\ Owners(newAddr') = {} ELSE newAddr' = newAddr,
           crash' = "none",
           UNCHANGED <<nodeUid, devHdl, context, strs, pending, devVars, link, resetting,
                       inUse, outcome, env>>
    PROVE  EnumInv'
<1>1. /\ Enumerating /\ Gets \subseteq StageNames /\ Gets \cap Checks = {}
  BY StagesAre, ChecksAre DEF Enumerating, Gets, StageNames
<1>p. /\ turn /\ ~enumReq /\ urb = "idle" /\ ~resetting /\ gone = {}
      /\ devHdl = nodeUid /\ devHdl \in alive
      /\ ~Skipped(stage)
  BY <1>1, ProcessingIs
<1>2. MovesOn /\ (stage' = "CANCEL" \/ stage' = Following(stage))
  <2>1. CASE urb' = "flight" /\ Advance(TRUE)
    <3>1. Following(stage) \in Checks \cap StageNames /\ ~Skipped(Following(stage))
      BY <1>p, GetsAreFollowed
    <3>2. stage' = Following(stage) /\ enumReq' = (enumReq \/ NeedProcess(stage'))
      BY <2>1 DEF Advance
    <3>3. \A c \in Checks : ~NeedProcess(c) /\ c # "SECOND_RESET_COMPLETE" /\ c # "CANCEL"
      BY ChecksAre DEF NeedProcess, Gets
    <3>4. enumReq' = FALSE BY <1>p, <3>1, <3>2, <3>3 DEF EnumInv, TypeOK
    <3>5. ~Skipped(stage)' BY <3>1, <3>2 DEF Skipped
    <3> QED BY <1>1, <2>1, <3>1, <3>2, <3>3, <3>4, <3>5 DEF MovesOn, devVars
  <2>2. CASE urb' = urb /\ Advance(FALSE)
    <3>0. AfterFailure(stage) = "CANCEL" /\ NeedProcess("CANCEL")
      <4>1. stage \in StageNames BY <1>1
      <4>2. NeedProcess("CANCEL") BY DEF NeedProcess
      <4> QED BY <4>1, <4>2, FailureIs
    <3>1. stage' = "CANCEL" /\ enumReq' = TRUE BY <2>2, <3>0 DEF Advance
    <3> QED BY <1>1, <1>p, <2>2, <3>1, ChecksAre DEF MovesOn, devVars
  <2> QED BY <2>1, <2>2 DEF Submit
<1>3. /\ RequestsAreExact' /\ HandlesAgree' /\ OneWaits'
      /\ NobodysAreClean' /\ UsersAndGone'
  BY <1>2, MovingOnKeeps
<1>4. TypeOK'
  <2>1. stage' \in StageNames \cup {"CANCEL"} /\ urb' \in {"idle", "flight"} /\ enumReq' \in BOOLEAN
    BY <1>2 DEF MovesOn
  <2>2. DOMAIN Stages = 1..33 BY StagesAre
  <2> QED BY <2>1, <2>2 DEF EnumInv, TypeOK, devVars, StageNames
<1>5. Progress'
  <2>1. CASE stage' = "CANCEL" BY <2>1, PartsAre DEF Progress
  <2>2. CASE stage' = Following(stage)
    <3>1. /\ stage' \in Early => stage \in Early
          /\ stage' \in Mid => stage \in Mid /\ stage # "SET_ADDR"
          /\ stage' \in Late => stage \in Late /\ stage # "SET_ADDR"
          /\ stage' = "CHECK_ADDR" => stage = "SET_ADDR"
      BY <1>p, <2>2, GetsAreFollowed, PartsAre
    <3>2. Owners(newAddr)' = Owners(newAddr') BY DEF Owners, devVars
    <3> QED BY <3>1, <3>2 DEF Progress, EnumInv, devVars
  <2> QED BY <1>2, <2>1, <2>2
<1>6. AddressesDiffer' /\ CompletedAreReady'
  BY DEF AddressesDiffer, CompletedAreReady, EnumInv, devVars
<1> QED BY <1>3, <1>4, <1>5, <1>6 DEF EnumInv

\* ... and so do all requests but SET_ADDR,
LEMMA SubmitKeeps == EnumInv /\ (SubmitGeneral \/ SubmitString) => EnumInv'
<1> SUFFICES ASSUME EnumInv, SubmitGeneral \/ SubmitString PROVE EnumInv'
  OBVIOUS
<1>1. /\ pc = "enum" /\ pc' = "wake" /\ turn' = FALSE /\ Submit
      /\ stage \in Gets /\ stage # "SET_ADDR"
      /\ UNCHANGED <<nodeUid, devHdl, context, newAddr, strs, nextAddr, pending, devVars,
                     link, resetting, inUse, outcome, env, crash>>
  BY PartsAre DEF SubmitGeneral, SubmitString, AtStage
<1>2. crash' = "none" /\ newAddr' \in 0..MaxAddr /\ nextAddr' \in 1..MaxAddr
  BY <1>1 DEF EnumInv, TypeOK
<1> QED BY <1>1, <1>2, SubmittingKeeps

\* and SET_ADDR, which finds an address: none of those it tries belongs to a device
\* that is gone.
LEMMA SubmitSetAddrKeeps == EnumInv /\ SubmitSetAddr => EnumInv'
<1> SUFFICES ASSUME EnumInv, SubmitSetAddr PROVE EnumInv'
  OBVIOUS
<1>1. /\ pc = "enum" /\ pc' = "wake" /\ turn' = FALSE /\ Submit
      /\ stage \in Gets /\ stage = "SET_ADDR" /\ Enumerating
      /\ newAddr' = Try(FreeTry) /\ nextAddr' = newAddr'
      /\ UNCHANGED <<nodeUid, devHdl, context, strs, pending, devVars,
                     link, resetting, inUse, outcome, env>>
  BY DEF SubmitSetAddr, AtStage, Gets, Enumerating
<1>2. /\ Try(FreeTry) \in 1..MaxAddr /\ Owners(Try(FreeTry)) = {}
      /\ \A j \in 0..FreeTry - 1 : Owners(Try(j)) # {}
  BY FreeTryIsFree DEF EnumInv
<1>3. crash' = "none"
  <2>1. gone = {} BY <1>1, ProcessingIs
  <2>2. ~ \E j \in 0..FreeTry - 1 : Owners(Try(j)) \subseteq gone
    BY <1>2, <2>1
  <2> QED BY <2>2 DEF SubmitSetAddr, EnumInv
<1>4. /\ newAddr' \in 0..MaxAddr /\ nextAddr' \in 1..MaxAddr /\ newAddr' # 0
      /\ Owners(newAddr') = {}
  BY <1>1, <1>2, BoundsAreNat
<1> QED BY <1>1, <1>3, <1>4, SubmittingKeeps

\* A stage that asks for the next one keeps the invariant; it may change the
\* device's state, and its address in CHECK_ADDR.
LEMMA AdvancingKeeps ==
    ASSUME EnumInv, pc = "enum", Enumerating, pc' = "wake", turn' = FALSE,
           urb' = "idle", enumReq' = TRUE, crash' = "none",
           stage' \in (StageNames \ (Checks \cup {"SECOND_RESET_COMPLETE"})) \cup {"CANCEL"},
           stage' # "CANCEL" => ~Skipped(stage)',
           strs' \subseteq StringName,
           \/ addr' = addr
           \/ addr' = [addr EXCEPT ![devHdl] = newAddr] /\ stage = "CHECK_ADDR",
           \E s \in {"default", "address", "configured"} :
               state' = [state EXCEPT ![devHdl] = s],
           Progress',
           UNCHANGED <<nodeUid, devHdl, context, newAddr, nextAddr, pending, alive, gone,
                       link, resetting, inUse, outcome, env>>
    PROVE  EnumInv'
<1>p. /\ devHdl = nodeUid /\ devHdl \in alive /\ outcome[devHdl] = "started"
  BY ProcessingIs
<1>2. MovesOn
  <2>1. stage' \notin Checks BY ChecksAre
  <2>2. \A u \in Uid \ {devHdl} : addr'[u] = addr[u] /\ state'[u] = state[u]
    BY DEF EnumInv, TypeOK
  <2> QED BY <2>1, <2>2 DEF MovesOn
<1>3. /\ RequestsAreExact' /\ HandlesAgree' /\ OneWaits'
      /\ NobodysAreClean' /\ UsersAndGone'
  BY <1>2, MovingOnKeeps
<1>4. TypeOK'
  <2>1. stage' \in StageNames \cup {"CANCEL"} /\ DOMAIN Stages = 1..33
    BY StagesAre
  <2>2. state' \in [Uid -> {"default", "address", "configured"}] /\ addr' \in [Uid -> 0..MaxAddr]
    BY ZenonT(60) DEF EnumInv, TypeOK
  <2> QED BY <2>1, <2>2 DEF EnumInv, TypeOK, StageNames
<1>5. AddressesDiffer'
  <2>1. CASE addr' = addr BY <2>1 DEF AddressesDiffer, EnumInv
  <2>2. CASE addr' = [addr EXCEPT ![devHdl] = newAddr] /\ stage = "CHECK_ADDR"
    <3>1. \A u \in alive : u \in Uid /\ addr[u] # newAddr
      BY <2>2 DEF EnumInv, Progress, Owners, TypeOK
    <3> QED BY <1>p, <2>2, <3>1 DEF AddressesDiffer, EnumInv, TypeOK
  <2> QED BY <2>1, <2>2
<1>6. CompletedAreReady'
  BY <1>p, <1>2 DEF CompletedAreReady, EnumInv, MovesOn, TypeOK
<1> QED BY <1>3, <1>4, <1>5, <1>6 DEF EnumInv

\* After a string was read or refused comes another request.
LEMMA StringsAreChecked ==
    ASSUME NEW s \in StringStages \cap Checks
    PROVE  /\ s \in Late /\ NeedProcess("CANCEL")
           /\ Following(s) \in Late \ Checks
           /\ ~Skipped(Following(s))
           /\ \A t \in Late \ Checks : /\ t \in StageNames \ {"SECOND_RESET_COMPLETE", "CANCEL"}
                                       /\ t \notin Early \cup Mid /\ NeedProcess(t)
<1>1. \A t \in Late \ Checks : /\ t \in StageNames \ {"SECOND_RESET_COMPLETE", "CANCEL"}
                               /\ t \notin Early \cup Mid /\ NeedProcess(t)
  <2>1. \A t \in Late \ Checks : NeedProcess(t)
    BY PartsAre, ChecksAre DEF NeedProcess, Gets
  <2>2. Late \subseteq StageNames \ {"SECOND_RESET_COMPLETE", "CANCEL"}
    BY PartsAre, StagesAre DEF StageNames
  <2>3. \A t \in Late : t \notin Early \cup Mid BY PartsAre
  <2> QED BY <2>1, <2>2, <2>3
<1>2. s \in Late /\ NeedProcess("CANCEL") BY PartsAre DEF NeedProcess
<1> QED BY <1>1, <1>2, FollowingLate

\* So does a string that is accepted,
LEMMA AcceptStringKeeps == EnumInv /\ AcceptString => EnumInv'
<1> SUFFICES ASSUME EnumInv, AcceptString PROVE EnumInv'
  OBVIOUS
<1>1. /\ pc = "enum" /\ pc' = "wake" /\ turn' = FALSE /\ stage \in StringStages \cap Checks
      /\ urb' = "idle" /\ stage' = Following(stage) /\ enumReq' = (enumReq \/ NeedProcess(stage'))
      /\ UNCHANGED <<nodeUid, devHdl, context, newAddr, strs, nextAddr, pending, alive, gone,
                     addr, state, link, resetting, inUse, outcome, env, crash>>
  BY DEF AcceptString, AtStage, Advance, devVars
<1>2. /\ stage \in Late /\ stage' \in Late \ Checks /\ ~Skipped(stage')
      /\ stage' \in StageNames \ {"SECOND_RESET_COMPLETE", "CANCEL"}
      /\ stage' \notin Early \cup Mid /\ enumReq' = TRUE
  BY <1>1, StringsAreChecked
<1>3. ~Skipped(stage)' BY <1>1, <1>2 DEF Skipped
<1>4. Progress' BY <1>1, <1>2, PartsAre DEF Progress, EnumInv
<1>5. \E s \in {"default", "address", "configured"} : state' = [state EXCEPT ![devHdl] = s]
  <2>1. /\ state[devHdl] \in {"default", "address", "configured"}
        /\ state' = [state EXCEPT ![devHdl] = state[devHdl]]
    BY <1>1, <1>2, PartsAre DEF EnumInv, TypeOK, Progress
  <2> QED BY <2>1
<1>6. strs' \subseteq StringName /\ crash' = "none"
  BY <1>1 DEF EnumInv, TypeOK
<1>7. Enumerating BY <1>1, ChecksAre DEF Enumerating
<1> QED BY <1>1, <1>2, <1>3, <1>4, <1>5, <1>6, <1>7, AdvancingKeeps

\* A step that does not change the state is one that may.
LEMMA SameState ==
    ASSUME EnumInv, Enumerating, state' = state
    PROVE  \E s \in {"default", "address", "configured"} : state' = [state EXCEPT ![devHdl] = s]
<1>1. state[devHdl] \in {"default", "address", "configured"}
  <2>1. devHdl \in Uid BY DEF EnumInv, HandlesAgree, Enumerating, TypeOK
  <2> QED BY <2>1 DEF EnumInv, TypeOK
<1>2. state' = [state EXCEPT ![devHdl] = state[devHdl]]
  BY DEF EnumInv, TypeOK
<1> QED BY <1>1, <1>2

\* a response that is refused,
LEMMA RefusedKeeps == EnumInv /\ Refused => EnumInv'
<1> SUFFICES ASSUME EnumInv, Refused PROVE EnumInv'
  OBVIOUS
<1>1. /\ pc = "enum" /\ pc' = "wake" /\ turn' = FALSE /\ stage \in Checks
      /\ urb' = "idle" /\ stage' = AfterFailure(stage)
      /\ enumReq' = (enumReq \/ NeedProcess(stage'))
      /\ UNCHANGED <<nodeUid, devHdl, context, newAddr, strs, nextAddr, pending, alive, gone,
                     addr, state, link, resetting, inUse, outcome, env, crash>>
  BY DEF Refused, AtStage, Advance, devVars
<1>2. Enumerating /\ stage \in StageNames
  BY <1>1, ChecksAre, StagesAre DEF Enumerating, StageNames
<1>3. CASE AfterFailure(stage) = "CANCEL"
  <2>1. stage' = "CANCEL" /\ NeedProcess("CANCEL")
    BY <1>1, <1>3 DEF NeedProcess
  <2>2. enumReq' = TRUE BY <1>1, <2>1
  <2>3. Progress' BY <2>1, PartsAre DEF Progress
  <2>4. strs' \subseteq StringName /\ crash' = "none"
    BY <1>1 DEF EnumInv, TypeOK
  <2> QED BY <1>1, <1>2, <2>1, <2>2, <2>3, <2>4, SameState, AdvancingKeeps
<1>4. CASE AfterFailure(stage) # "CANCEL"
  <2>1. /\ stage \in StringStages /\ stage' \in {"SET_CONFIG", "GET_SHORT_PROD", "GET_SHORT_SER"}
        /\ ~Skipped(stage') /\ stage' \in Late
    BY <1>1, <1>2, <1>4, FailureIs
  <2>2. stage' \notin Checks BY <2>1, ChecksAre
  <2>3. /\ stage \in Late /\ stage' \in StageNames \ {"SECOND_RESET_COMPLETE", "CANCEL"}
        /\ stage' \notin Early \cup Mid /\ NeedProcess(stage')
    BY <1>1, <2>1, <2>2, StringsAreChecked
  <2>4. enumReq' = TRUE BY <1>1, <2>3
  <2>5. ~Skipped(stage)' BY <1>1, <2>1 DEF Skipped
  <2>6. Progress' BY <1>1, <2>1, <2>3, PartsAre DEF Progress, EnumInv
  <2>7. strs' \subseteq StringName /\ crash' = "none"
    BY <1>1 DEF EnumInv, TypeOK
  <2> QED BY <1>1, <1>2, <2>2, <2>3, <2>4, <2>5, <2>6, <2>7, SameState, AdvancingKeeps
<1> QED BY <1>3, <1>4

\* any other response that is accepted: the device object is in the state in which
\* the USBH takes it,
LEMMA AcceptGeneralKeeps == EnumInv /\ AcceptGeneral => EnumInv'
<1> SUFFICES ASSUME EnumInv, AcceptGeneral PROVE EnumInv'
  OBVIOUS
<1>1. /\ pc = "enum" /\ pc' = "wake" /\ turn' = FALSE /\ stage \in Checks \ StringStages
      /\ urb' = "idle"
      /\ UNCHANGED <<nodeUid, devHdl, context, newAddr, nextAddr, pending, alive,
                     gone, link, resetting, inUse, outcome, env, crash>>
  BY DEF AcceptGeneral, AtStage
<1>2. stage \in {"CHECK_SHORT_DEV_DESC", "CHECK_ADDR", "CHECK_FULL_DEV_DESC",
                 "CHECK_SHORT_CONFIG_DESC", "CHECK_FULL_CONFIG_DESC", "CHECK_CONFIG"}
  BY <1>1, ChecksAre, PartsAre
<1>e. Enumerating /\ devHdl \in Uid
  BY <1>2 DEF Enumerating, EnumInv, HandlesAgree, TypeOK
<1>a. /\ stage \in {"CHECK_SHORT_DEV_DESC", "CHECK_ADDR"} => state[devHdl] = "default" /\ addr[devHdl] = 0
      /\ stage \in {"CHECK_FULL_DEV_DESC", "CHECK_SHORT_CONFIG_DESC", "CHECK_FULL_CONFIG_DESC"} =>
             state[devHdl] = "address" /\ addr[devHdl] = newAddr /\ newAddr # 0
      /\ stage = "CHECK_CONFIG" => state[devHdl] = "configured" /\ addr[devHdl] = newAddr /\ newAddr # 0
      /\ stage = "CHECK_ADDR" => newAddr # 0
  BY PartsAre DEF EnumInv, Progress
<1>3. Advance(TRUE) BY <1>2, <1>a DEF AcceptGeneral
<1>4. stage' = Following(stage) /\ enumReq' = (enumReq \/ NeedProcess(stage'))
  BY <1>3 DEF Advance
<1>5. stage' = CASE stage = "CHECK_SHORT_DEV_DESC" -> "SECOND_RESET"
                 [] stage = "CHECK_ADDR" -> "SET_ADDR_RECOVERY"
                 [] stage = "CHECK_FULL_DEV_DESC" -> "SELECT_CONFIG"
                 [] stage = "CHECK_SHORT_CONFIG_DESC" -> "GET_FULL_CONFIG_DESC"
                 [] stage = "CHECK_FULL_CONFIG_DESC" -> "GET_SHORT_LANGID"
                 [] stage = "CHECK_CONFIG" -> "COMPLETE"
  BY <1>2, <1>4, FirstStages
<1>6. /\ stage' \in StageNames \ (Checks \cup {"SECOND_RESET_COMPLETE", "CANCEL"})
      /\ NeedProcess(stage') /\ ~Skipped(stage)'
  <2>1. stage' \in {"SECOND_RESET", "SET_ADDR_RECOVERY", "SELECT_CONFIG",
                    "GET_FULL_CONFIG_DESC", "GET_SHORT_LANGID", "COMPLETE"}
    BY <1>2, <1>5
  <2>2. stage' \in StageNames BY <2>1, StagesAre DEF StageNames
  <2>3. NeedProcess(stage') BY <2>1 DEF NeedProcess, Gets
  <2>4. ~Skipped(stage)' BY <2>1, PartsAre DEF Skipped, StringName
  <2> QED BY <2>1, <2>2, <2>3, <2>4, ChecksAre
<1>7. enumReq' = TRUE BY <1>4, <1>6
<1>8. strs' \subseteq StringName /\ crash' = "none"
  BY <1>1 DEF AcceptGeneral, EnumInv, TypeOK
<1>9. CASE stage = "CHECK_ADDR"
  <2>1. /\ addr' = [addr EXCEPT ![devHdl] = newAddr] /\ state' = [state EXCEPT ![devHdl] = "address"]
        /\ stage' = "SET_ADDR_RECOVERY"
    BY <1>9, <1>a, <1>5 DEF AcceptGeneral
  <2>2. Progress'
    <3>1. state'[devHdl] = "address" /\ addr'[devHdl] = newAddr
      BY <1>e, <2>1 DEF EnumInv, TypeOK
    <3> QED BY <1>1, <1>9, <1>a, <2>1, <3>1, PartsAre DEF Progress
  <2> QED BY <1>1, <1>e, <1>6, <1>7, <1>8, <1>9, <2>1, <2>2, AdvancingKeeps
<1>10. CASE stage = "CHECK_FULL_CONFIG_DESC"
  <2>1. /\ addr' = addr /\ state' = [state EXCEPT ![devHdl] = "configured"]
        /\ stage' = "GET_SHORT_LANGID"
    BY <1>10, <1>a, <1>5 DEF AcceptGeneral
  <2>2. Progress'
    <3>1. state'[devHdl] = "configured" BY <1>e, <2>1 DEF EnumInv, TypeOK
    <3> QED BY <1>1, <1>10, <1>a, <2>1, <3>1, PartsAre DEF Progress
  <2> QED BY <1>1, <1>e, <1>6, <1>7, <1>8, <2>1, <2>2, AdvancingKeeps
<1>11. CASE stage \notin {"CHECK_ADDR", "CHECK_FULL_CONFIG_DESC"}
  <2>1. addr' = addr /\ state' = state BY <1>11 DEF AcceptGeneral
  <2>2. Progress'
    BY <1>1, <1>2, <1>5, <1>11, <1>a, <2>1, PartsAre DEF Progress
  <2> QED BY <1>1, <1>e, <1>6, <1>7, <1>8, <2>1, <2>2, SameState, AdvancingKeeps
<1> QED BY <1>9, <1>10, <1>11

\* a stage that only passes,
LEMMA PassKeeps == EnumInv /\ Pass => EnumInv'
<1> SUFFICES ASSUME EnumInv, Pass PROVE EnumInv'
  OBVIOUS
<1>1. /\ pc = "enum" /\ pc' = "wake" /\ turn' = FALSE
      /\ stage \in {"SECOND_RESET_COMPLETE", "SET_ADDR_RECOVERY", "SELECT_CONFIG"}
      /\ stage' = Following(stage) /\ enumReq' = (enumReq \/ NeedProcess(stage'))
      /\ UNCHANGED <<nodeUid, devHdl, context, newAddr, strs, nextAddr, pending, urb,
                     alive, gone, addr, state, link, resetting, inUse, outcome, env, crash>>
  BY DEF Pass, AtStage, Advance, devVars
<1>2. Enumerating BY <1>1 DEF Enumerating
<1>3. stage' = CASE stage = "SECOND_RESET_COMPLETE" -> "SET_ADDR"
                 [] stage = "SET_ADDR_RECOVERY" -> "GET_FULL_DEV_DESC"
                 [] stage = "SELECT_CONFIG" -> "GET_SHORT_CONFIG_DESC"
  BY <1>1, FirstStages
<1>4. stage' \in {"SET_ADDR", "GET_FULL_DEV_DESC", "GET_SHORT_CONFIG_DESC"}
  BY <1>1, <1>3
<1>5. NeedProcess(stage') /\ stage' \in StageNames \ (Checks \cup {"SECOND_RESET_COMPLETE"})
  <2>1. NeedProcess(stage') BY <1>4 DEF NeedProcess, Gets
  <2>2. stage' \in StageNames BY <1>4, StagesAre DEF StageNames
  <2> QED BY <1>4, <2>1, <2>2, ChecksAre
<1>6. enumReq' = TRUE /\ crash' = "none" /\ strs' \subseteq StringName
  BY <1>1, <1>5 DEF EnumInv, TypeOK
<1>7. ~Skipped(stage)' BY <1>4, PartsAre DEF Skipped, StringName
<1>8. Progress' BY <1>1, <1>3, PartsAre DEF Progress, EnumInv
<1>9. urb' = "idle"
  <2>1. stage \notin Checks BY <1>1, ChecksAre
  <2> QED BY <1>1, <1>2, <2>1, ProcessingIs
<1> QED BY <1>1, <1>2, <1>5, <1>6, <1>7, <1>8, <1>9, SameState, AdvancingKeeps

\* and the second reset.
LEMMA SecondResetKeeps == EnumInv /\ SecondReset => EnumInv'
<1> SUFFICES ASSUME EnumInv, SecondReset PROVE EnumInv'
  OBVIOUS
<1>1. /\ pc = "enum" /\ pc' = "wake" /\ turn' = FALSE
      /\ stage = "SECOND_RESET" /\ stage' = "SECOND_RESET_COMPLETE"
      /\ resetting' = (Hub /\ nodeUid \in link)
      /\ enumReq' = (enumReq \/ (~Hub /\ nodeUid \in link))
      /\ UNCHANGED <<nodeUid, devHdl, context, newAddr, strs, nextAddr, pending, urb,
                     alive, gone, addr, state, link, inUse, outcome, env, crash>>
  BY DEF SecondReset, AtStage, devVars
<1>2. Enumerating /\ Enumerating' /\ stage' \notin Checks /\ stage \notin Checks
  BY <1>1, ChecksAre DEF Enumerating
<1>p. /\ turn /\ ~enumReq /\ urb = "idle" /\ ~resetting /\ gone = {}
      /\ devHdl = nodeUid /\ devHdl \in alive /\ devHdl \notin inUse
      /\ outcome[devHdl] = "started"
      /\ pending # <<>> => pending[1] # devHdl
  BY <1>1, <1>2, ProcessingIs
<1>h. Hub \in BOOLEAN BY EnvironmentsAreTyped DEF EnumInv, TypeOK, Hub
<1>3. TypeOK'
  <2>1. stage' \in {Stages[i] : i \in DOMAIN Stages} \cup {"IDLE", "CANCEL"}
    BY <1>1, StagesAre
  <2>2. {enumReq, turn, resetting}' \subseteq BOOLEAN BY <1>1, <1>p
  <2> QED BY <1>1, <2>1, <2>2 DEF EnumInv, TypeOK
<1>4. RequestsAreExact'
  <2>1. ~NeedProcess("SECOND_RESET_COMPLETE") BY DEF NeedProcess, Gets
  <2> QED BY <1>1, <1>2, <1>p, <1>h, <2>1 DEF RequestsAreExact, Requested
<1>5. HandlesAgree'
  <2>1. ~Skipped(stage)' BY <1>1, PartsAre DEF Skipped, StringName
  <2> QED BY <1>1, <1>2, <1>p, <2>1 DEF EnumInv, HandlesAgree, Enumerating
<1>6. Progress' BY <1>1, PartsAre DEF EnumInv, Progress
<1>7. OneWaits' BY <1>1, <1>p DEF EnumInv, OneWaits
<1>8. AddressesDiffer' /\ NobodysAreClean' /\ CompletedAreReady'
  BY <1>1 DEF EnumInv, AddressesDiffer, NobodysAreClean, CompletedAreReady
<1>9. UsersAndGone' BY <1>1, <1>p DEF EnumInv, UsersAndGone, Hub
<1> QED BY <1>1, <1>3, <1>4, <1>5, <1>6, <1>7, <1>8, <1>9 DEF EnumInv

---------------------------------------------------------------------------
(* Steps of enum_process() after which the next device may be started *)

\* No device waits that can still be opened.
Rests(o) ==
    /\ stage' = "IDLE" /\ nodeUid' = NoDev /\ devHdl' = NoDev /\ context' = NoDev
    /\ outcome' = o /\ UNCHANGED <<enumReq, crash>>

\* The enumeration of device u, which waited, begins.
Starts(o, u) ==
    /\ pending # <<>> /\ u = pending[1] /\ u \notin gone
    /\ stage' = "GET_SHORT_DEV_DESC" /\ nodeUid' = u /\ devHdl' = u /\ context' = u
    /\ enumReq' = TRUE /\ crash' = "none"
    /\ outcome' = [o EXCEPT ![u] = "started"]

\* The loop at the end of enum_process() finds at most one device, and nobody else has
\* it open.
LEMMA StartingIs ==
    ASSUME EnumInv, NEW o, StartNext(o)
    PROVE  /\ pending' = <<>> /\ strs' = {} /\ newAddr' = 0
           /\ Rests(o) \/ \E u \in alive : Starts(o, u)
<1> DEFINE ready == {i \in DOMAIN pending : Openable(pending[i])}
<1> DEFINE first == CHOOSE n \in ready : \A m \in ready : n <= m
<1>1. CASE ready = {}
  <2>1. /\ Rests(o) /\ pending' = <<>> /\ strs' = {} /\ newAddr' = 0
    BY <1>1 DEF StartNext, Rests
  <2> QED BY <2>1
<1>2. CASE ready # {}
  <2>1. DOMAIN pending = 1..Len(pending) /\ Len(pending) \in Nat
    BY DEF EnumInv, TypeOK
  <2>2. pending # <<>> BY <1>2, <2>1
  <2>3. Len(pending) = 1 /\ pending[1] \in alive /\ outcome[pending[1]] = "none"
    BY <2>2 DEF EnumInv, OneWaits
  <2>4. ready = {1} BY <1>2, <2>1, <2>3
  <2>5. first = 1 BY <2>4
  <2>6. /\ Begin(pending[1]) /\ pending' = SubSeq(pending, 2, Len(pending))
        /\ outcome' = [o EXCEPT ![pending[1]] = "started"]
    <3>1. /\ Begin(pending[first]) /\ pending' = SubSeq(pending, first + 1, Len(pending))
          /\ outcome' = [o EXCEPT ![pending[first]] = "started"]
      BY <1>2 DEF StartNext
    <3> HIDE DEF first
    <3> QED BY <2>5, <3>1
  <2>7. pending' = <<>> BY <2>3, <2>6 DEF EnumInv, TypeOK
  <2>8. pending[1] \notin inUse /\ pending[1] \notin gone
    <3>1. Openable(pending[1]) BY <2>4
    <3> QED BY <2>3, <3>1 DEF EnumInv, UsersAndGone, Openable
  <2>9. Starts(o, pending[1]) BY <2>2, <2>6, <2>8 DEF Starts, Begin, EnumInv
  <2> QED BY <2>3, <2>6, <2>7, <2>9 DEF Begin
<1> QED BY <1>1, <1>2

\* The end of an enumeration keeps the invariant, whatever outcome is sent.
LEMMA StartingKeeps ==
    ASSUME EnumInv, pc = "enum", pc' = "wake", turn' = FALSE, urb' = "idle", resetting' = FALSE,
           nextAddr' \in 1..MaxAddr, link' = link \/ link' = link \ {nodeUid},
           UNCHANGED <<devVars, inUse, env>>,
           NEW o \in [Uid -> {"none", "started", "completed", "canceled"}], StartNext(o),
           \A v \in Uid : v # nodeUid \/ v \notin alive => o[v] = outcome[v],
           o[nodeUid] = "completed" => state[nodeUid] = "configured" /\ addr[nodeUid] # 0
    PROVE  EnumInv'
<1>1. pending' = <<>> /\ strs' = {} /\ newAddr' = 0 /\ (Rests(o) \/ \E u \in alive : Starts(o, u))
  BY StartingIs
<1>t. /\ gone \subseteq alive /\ alive \subseteq Uid /\ inUse \subseteq alive /\ link \subseteq alive
      /\ stage # "IDLE" /\ ~enumReq /\ nodeUid \in Uid /\ outcome[nodeUid] # "completed"
      /\ 0 \notin Uid
  BY BoundsAreNat DEF EnumInv, TypeOK, RequestsAreExact, Requested, HandlesAgree, Uid, NoDev
<1>u. nodeUid \notin inUse /\ (Hub => 1 \in link')
  BY <1>t DEF EnumInv, UsersAndGone
<1>2. AddressesDiffer' /\ OneWaits'
  BY <1>1 DEF EnumInv, AddressesDiffer, OneWaits, devVars
<1>3. CASE Rests(o)
  <2>1. TypeOK'
    <3>1. /\ newAddr' \in 0..MaxAddr /\ pending' \in Seq(Uid) /\ Len(pending') <= QueueLen
          /\ link' \subseteq alive
      BY <1>1, <1>t, BoundsAreNat
    <3>2. /\ {enumReq, turn, resetting}' \subseteq BOOLEAN
          /\ {nodeUid, devHdl, context}' \subseteq Uid \cup {NoDev}
      BY <1>3, <1>t DEF Rests, EnumInv, TypeOK
    <3>3. /\ stage' \in {Stages[i] : i \in DOMAIN Stages} \cup {"IDLE", "CANCEL"}
          /\ outcome' \in [Uid -> {"none", "started", "completed", "canceled"}]
          /\ crash' \in {"none", "lock", "address", "context"} /\ strs' \subseteq StringName
      BY <1>1, <1>3 DEF Rests, EnumInv, TypeOK
    <3> QED BY <3>1, <3>2, <3>3 DEF EnumInv, TypeOK, devVars
  <2>2. RequestsAreExact'
    BY <1>3, <1>t, ChecksAre DEF RequestsAreExact, Requested, Rests, NeedProcess, Gets
  <2>3. HandlesAgree' BY <1>1, <1>3 DEF HandlesAgree, Rests, Enumerating
  <2>4. Progress' BY <1>3, PartsAre DEF Progress, Rests
  <2>5. NobodysAreClean'
    BY <1>3 DEF EnumInv, NobodysAreClean, Rests, devVars
  <2>6. CompletedAreReady'
    BY <1>3, <1>t DEF EnumInv, CompletedAreReady, Rests, devVars
  <2>7. UsersAndGone'
    BY <1>3, <1>t, <1>u DEF EnumInv, UsersAndGone, Rests, devVars, Enumerating, Hub, NoDev
  <2> QED BY <1>2, <1>3, <2>1, <2>2, <2>3, <2>4, <2>5, <2>6, <2>7 DEF EnumInv, Rests
<1>4. CASE \E u \in alive : Starts(o, u)
  <2>0. PICK u \in alive : Starts(o, u) BY <1>4
  <2>a. /\ u \in Uid /\ u # NoDev /\ u \notin gone /\ outcome[u] = "none" /\ u \notin inUse
        /\ addr[u] = 0 /\ state[u] = "default"
        /\ \A v \in Uid : outcome'[v] = IF v = u THEN "started" ELSE o[v]
        /\ outcome' \in [Uid -> {"none", "started", "completed", "canceled"}]
    BY <2>0, <1>t DEF EnumInv, OneWaits, Starts, UsersAndGone, NoDev
  <2>1. TypeOK'
    <3>1. /\ newAddr' \in 0..MaxAddr /\ pending' \in Seq(Uid) /\ Len(pending') <= QueueLen
          /\ link' \subseteq alive
      BY <1>1, <1>t, BoundsAreNat
    <3>2. /\ {enumReq, turn, resetting}' \subseteq BOOLEAN
          /\ {nodeUid, devHdl, context}' \subseteq Uid \cup {NoDev}
      BY <2>0, <2>a DEF Starts
    <3>3. /\ stage' \in {Stages[i] : i \in DOMAIN Stages} \cup {"IDLE", "CANCEL"}
          /\ outcome' \in [Uid -> {"none", "started", "completed", "canceled"}]
          /\ crash' \in {"none", "lock", "address", "context"} /\ strs' \subseteq StringName
      BY <1>1, <2>0, <2>a, StagesAre DEF Starts
    <3> QED BY <3>1, <3>2, <3>3 DEF EnumInv, TypeOK, devVars
  <2>2. RequestsAreExact'
    BY <2>0, ChecksAre DEF RequestsAreExact, Requested, Starts
  <2>3. HandlesAgree'
    <3>1. ~Skipped(stage)' BY <2>0, PartsAre DEF Skipped, StringName, Starts
    <3> QED BY <2>0, <2>a, <3>1 DEF HandlesAgree, Starts, Enumerating, devVars
  <2>4. Progress' BY <2>0, <2>a, PartsAre DEF Progress, Starts, devVars
  <2>5. NobodysAreClean' BY <2>0, <2>a DEF EnumInv, NobodysAreClean, devVars
  <2>6. CompletedAreReady'
    BY <2>a, <1>t DEF EnumInv, CompletedAreReady, devVars
  <2>7. UsersAndGone'
    <3>1. \A v \in inUse : outcome'[v] = "completed"
      BY <1>t, <1>u, <2>a DEF EnumInv, UsersAndGone
    <3> QED
      BY <2>0, <2>a, <3>1, <1>t, <1>u DEF EnumInv, UsersAndGone, Starts, devVars, Enumerating, Hub
  <2> QED BY <1>2, <2>0, <2>1, <2>2, <2>3, <2>4, <2>5, <2>6, <2>7 DEF EnumInv, Starts
<1> QED BY <1>1, <1>3, <1>4

\* So it does if the user does not want the device,
LEMMA FilteredKeeps == EnumInv /\ Filtered => EnumInv'
<1> SUFFICES ASSUME EnumInv, Filtered PROVE EnumInv'
  OBVIOUS
<1>1. /\ pc = "enum" /\ pc' = "wake" /\ turn' = FALSE /\ stage = "SELECT_CONFIG"
      /\ StartNext(outcome)
      /\ UNCHANGED <<nextAddr, urb, devVars, link, resetting, inUse, env>>
  BY DEF Filtered, AtStage
<1>2. Enumerating /\ stage \notin Checks BY <1>1, ChecksAre DEF Enumerating
<1>3. urb' = "idle" /\ resetting' = FALSE /\ outcome[nodeUid] = "started"
  BY <1>1, <1>2, ProcessingIs DEF EnumInv, TypeOK
<1>4. PICK o : o = outcome OBVIOUS
<1>5. StartNext(o) BY <1>1, <1>4
<1> QED BY <1>1, <1>3, <1>4, <1>5, StartingKeeps DEF EnumInv, TypeOK

\* if it was cancelled,
LEMMA StageCancelKeeps == EnumInv /\ StageCancel => EnumInv'
<1> SUFFICES ASSUME EnumInv, StageCancel PROVE EnumInv'
  OBVIOUS
<1>1. PICK o : o = (IF nodeUid \in alive THEN [outcome EXCEPT ![nodeUid] = "canceled"] ELSE outcome)
  OBVIOUS
<1>2. /\ pc = "enum" /\ pc' = "wake" /\ turn' = FALSE /\ stage = "CANCEL"
      /\ urb' = "idle" /\ resetting' = FALSE
      /\ link' = link \/ link' = link \ {nodeUid}
      /\ StartNext(o)
      /\ UNCHANGED <<nextAddr, devVars, inUse, env>>
  BY <1>1 DEF StageCancel, AtStage
<1>3. nodeUid \in Uid /\ outcome[nodeUid] # "completed"
  BY <1>2 DEF EnumInv, TypeOK, HandlesAgree, NoDev
<1>4. /\ o \in [Uid -> {"none", "started", "completed", "canceled"}]
      /\ \A v \in Uid : v # nodeUid \/ v \notin alive => o[v] = outcome[v]
      /\ o[nodeUid] # "completed"
  BY <1>1, <1>3 DEF EnumInv, TypeOK
<1> QED BY <1>2, <1>4, StartingKeeps DEF EnumInv, TypeOK

\* or completed.
LEMMA StageCompleteKeeps == EnumInv /\ StageComplete => EnumInv'
<1> SUFFICES ASSUME EnumInv, StageComplete PROVE EnumInv'
  OBVIOUS
<1>1. PICK o : o = [outcome EXCEPT ![nodeUid] = "completed"] OBVIOUS
<1>2. /\ pc = "enum" /\ pc' = "wake" /\ turn' = FALSE /\ stage = "COMPLETE"
      /\ nextAddr' = (nextAddr % MaxAddr) + 1
      /\ StartNext(o)
      /\ UNCHANGED <<urb, devVars, link, resetting, inUse, env>>
  BY <1>1 DEF StageComplete, AtStage
<1>3. Enumerating /\ stage \notin Checks BY <1>2, ChecksAre DEF Enumerating
<1>4. urb' = "idle" /\ resetting' = FALSE /\ devHdl = nodeUid /\ nodeUid \in alive /\ nodeUid \in Uid
  BY <1>2, <1>3, ProcessingIs DEF EnumInv, TypeOK
<1>5. state[nodeUid] = "configured" /\ addr[nodeUid] # 0
  BY <1>2, <1>4, PartsAre DEF EnumInv, Progress
<1>6. /\ o \in [Uid -> {"none", "started", "completed", "canceled"}]
      /\ \A v \in Uid : v # nodeUid \/ v \notin alive => o[v] = outcome[v]
  BY <1>1, <1>4 DEF EnumInv, TypeOK
<1>7. nextAddr' \in 1..MaxAddr BY <1>2, BoundsAreNat DEF EnumInv, TypeOK
<1> QED BY <1>2, <1>4, <1>5, <1>6, <1>7, StartingKeeps

---------------------------------------------------------------------------
(* The theorem *)

\* The invariant holds initially,
LEMMA InitIsInv == Init => EnumInv
<1> SUFFICES ASSUME Init PROVE EnumInv
  OBVIOUS
<1>t. /\ MaxUid \in Nat \ {0} /\ MaxAddr \in Nat \ {0} /\ MaxUid < MaxAddr /\ QueueLen \in Nat
      /\ 1 \in Uid /\ 0 \notin Uid /\ NoDev = 0
  BY BoundsAreNat, EnoughAddresses DEF Uid, NoDev
<1>1. /\ alive \subseteq {1} /\ (Hub => alive = {1}) /\ (~Hub => alive = {})
      /\ link = alive /\ inUse = alive /\ nextAddr \in 1..2
  BY DEF Init
<1>2. TypeOK
  <2>1. /\ addr \in [Uid -> 0..MaxAddr] /\ state \in [Uid -> {"default", "address", "configured"}]
        /\ outcome \in [Uid -> {"none", "started", "completed", "canceled"}]
        /\ alive \subseteq Uid
    BY <1>t, <1>1 DEF Init
  <2>2. pending \in Seq(Uid) /\ Len(pending) <= QueueLen /\ nextAddr \in 1..MaxAddr /\ newAddr \in 0..MaxAddr
    BY <1>t, <1>1 DEF Init
  <2> QED BY <1>t, <1>1, <2>1, <2>2 DEF Init, TypeOK
<1>3. AddressesDiffer /\ OneWaits
  BY <1>1 DEF Init, AddressesDiffer, OneWaits
<1>4. RequestsAreExact
  BY ChecksAre DEF Init, RequestsAreExact, Requested, NeedProcess, Gets
<1>5. HandlesAgree /\ Progress
  BY PartsAre DEF Init, HandlesAgree, Progress, Enumerating
<1>6. NobodysAreClean /\ CompletedAreReady
  BY <1>t, <1>1 DEF Init, NobodysAreClean, CompletedAreReady
<1>7. UsersAndGone BY <1>t, <1>1 DEF Init, UsersAndGone, Enumerating
<1> QED BY <1>2, <1>3, <1>4, <1>5, <1>6, <1>7 DEF Init, EnumInv

\* and every step keeps it;
LEMMA EveryStepKeeps == Tidy /\ EnumInv /\ [Next]_vars => EnumInv'
<1> SUFFICES ASSUME Tidy, EnumInv, [Next]_vars PROVE EnumInv'
  OBVIOUS
<1>1. CASE EnumProcess
  BY <1>1, SubmitKeeps, SubmitSetAddrKeeps, AcceptGeneralKeeps, AcceptStringKeeps, RefusedKeeps,
     SecondResetKeeps, PassKeeps, FilteredKeeps, StageCancelKeeps, StageCompleteKeeps
     DEF EnumProcess
<1>2. CASE Wake \/ TransferDone \/ UsbhEnd \/ Connected \/ ResetCompleted \/ HubEnd
  BY <1>2, WakeKeeps, TransferDoneKeeps, UsbhEndKeeps, ConnectedKeeps, ResetCompletedKeeps,
     HubEndKeeps
<1>3. CASE \E u \in Uid : Disconnected(u) \/ Unplug(u) \/ ClientOpen(u) \/ ClientClose(u)
  BY <1>3, DisconnectedKeeps, UnplugKeeps, ClientOpenKeeps, ClientCloseKeeps
<1>4. CASE UNCHANGED vars BY <1>4, StutterKeeps
<1> QED BY <1>1, <1>2, <1>3, <1>4 DEF Next

\* it implies what the run checks.
LEMMA InvIsConsistent == EnumInv => Consistent
<1> SUFFICES ASSUME EnumInv PROVE Consistent
  OBVIOUS
<1>1. TypeOK /\ AddressesDiffer BY DEF EnumInv
<1>2. NoAbort
  BY PartsAre DEF EnumInv, NoAbort, ProcessFails, Announced, RequestsAreExact, Requested, Progress
<1>3. SomebodyContinues
  <2>1. CASE stage = "CANCEL"
    BY <2>1 DEF EnumInv, SomebodyContinues, RequestsAreExact, Requested
  <2>2. CASE Enumerating
    BY <1>1, <2>2, StagesAreOfThreeKinds
       DEF EnumInv, SomebodyContinues, RequestsAreExact, Requested, Enumerating
  <2> QED BY <2>1, <2>2 DEF SomebodyContinues, Enumerating
<1>4. UrbHasOwner BY ChecksAre DEF EnumInv, UrbHasOwner, HandlesAgree
<1>5. AnnouncedIsReady
  <2>1. stage = "COMPLETE" => state[devHdl] = "configured" /\ addr[devHdl] = newAddr
    BY PartsAre DEF EnumInv, Progress
  <2>2. \A u \in alive : outcome[u] = "completed" => u # devHdl
    BY BoundsAreNat DEF EnumInv, HandlesAgree, TypeOK, NoDev, Uid
  <2> QED BY <2>1, <2>2 DEF EnumInv, AnnouncedIsReady, CompletedAreReady
<1> QED BY <1>1, <1>2, <1>3, <1>4, <1>5 DEF Consistent

\* In tidy environments the enumerator, its device, its URB and the devices on the bus
\* agree at any time: no check of enum.c fails, an enumeration is always carried on by
\* somebody, addresses differ, the URB in flight belongs to the open device, and what
\* is announced is configured; for any number of uids, addresses and places.
THEOREM EnumerationIsConsistent == Tidy => (Spec => []Consistent)
<1> SUFFICES ASSUME Tidy PROVE Spec => []Consistent
  OBVIOUS
<1>1. EnumInv /\ [Next]_vars => EnumInv' BY EveryStepKeeps
<1> QED BY <1>1, InitIsInv, InvIsConsistent, PTL DEF Spec

=============================================================================
