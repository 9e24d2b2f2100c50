---------------------------- MODULE AttachProofs ----------------------------
(***************************************************************************)
(* Facts about the operators of Rungs, for every pod, policy and list of   *)
(* seats, and theorems about Attach for any number of launchers,           *)
(* containers, requests and policies, and without the bounds of the        *)
(* model-checked instances: first types and names; then what a launcher    *)
(* holds, spends, stores and says of its seat, that what it does to the    *)
(* list of seats are the steps of SeatLedger, and, of one launcher, that   *)
(* its next attach spends no name.                                         *)
(***************************************************************************)
EXTENDS Attach, FiniteSetTheorems, SequenceTheorems, TLAPS

-----------------------------------------------------------------------------
(* The list of seats. *)

(* No two entries of a list bear one name. *)
Unique(list) == \A i, j \in DOMAIN list : list[i].name = list[j].name => i = j

Entries(list) == {list[i] : i \in DOMAIN list}

(* A non-empty set of naturals has a least element. *)
LEMMA LeastNatural ==
  ASSUME NEW T \in SUBSET Nat, T # {}
  PROVE  \E n \in T : \A m \in T : n <= m
<1>1. PICK n \in T : \A m \in T : ~ (<<m, n>> \in OpToRel(<, Nat))
  BY WFMin, NatLessThanWellFounded
<1>2. \A m \in T : ~ (m < n)
  BY <1>1 DEF OpToRel
<1> QED
  BY <1>2

(* Among the first Len + 1 numbers one is no seat's name. *)
LEMMA SomeNameIsFree ==
  ASSUME NEW S, NEW stored \in Seq(S)
  PROVE  \E n \in 1 .. Len(stored) + 1 : n \notin NamesIn(stored)
<1> DEFINE D == 1 .. Len(stored)
           name == [i \in D |-> stored[i].name]
<1>1. Len(stored) \in Nat /\ DOMAIN stored = D
  BY LenProperties
<1>2. name \in Surjection(D, NamesIn(stored))
  BY <1>1 DEF Surjection, NamesIn
<1>3. IsFiniteSet(D) /\ Cardinality(D) = Len(stored)
  BY <1>1, FS_Interval
<1>4. IsFiniteSet(NamesIn(stored)) /\ Cardinality(NamesIn(stored)) <= Len(stored)
  BY <1>2, <1>3, FS_Surjection
<1>5. IsFiniteSet(1 .. Len(stored) + 1) /\ Cardinality(1 .. Len(stored) + 1) = Len(stored) + 1
  BY <1>1, FS_Interval
<1>6. Cardinality(NamesIn(stored)) \in Nat
  BY <1>4, FS_CardinalityType
<1>7. ~ (1 .. Len(stored) + 1 \subseteq NamesIn(stored))
  <2> SUFFICES ASSUME 1 .. Len(stored) + 1 \subseteq NamesIn(stored)
               PROVE  FALSE
    OBVIOUS
  <2>1. Cardinality(1 .. Len(stored) + 1) <= Cardinality(NamesIn(stored))
    BY <1>4, FS_Subset
  <2> QED
    BY <2>1, <1>1, <1>4, <1>5, <1>6
<1> QED
  BY <1>7

(* next_container_name returns the lowest podbench-<n> nothing has taken:    *)
(* it exists, it is no seat's, and every lower one is.                       *)
THEOREM NextNameIsFree ==
  ASSUME NEW S, NEW stored \in Seq(S)
  PROVE  /\ NextContainerName(stored) \in Nat \ {0}
         /\ NextContainerName(stored) \notin NamesIn(stored)
         /\ \A m \in 1 .. NextContainerName(stored) - 1 : m \in NamesIn(stored)
<1> DEFINE free == {n \in 1 .. Len(stored) + 1 : n \notin NamesIn(stored)}
<1>1. Len(stored) \in Nat
  BY LenProperties
<1>2. free \in SUBSET Nat /\ free # {}
  BY <1>1, SomeNameIsFree
<1>3. PICK n \in free : \A m \in free : n <= m
  BY <1>2, LeastNatural
<1>4. \A m \in 1 .. n - 1 : m \in NamesIn(stored)
  BY <1>1, <1>3
<1>5. \E k \in 1 .. Len(stored) + 1 :
        k \notin NamesIn(stored) /\ \A m \in 1 .. k - 1 : m \in NamesIn(stored)
  BY <1>3, <1>4
<1>6. /\ NextContainerName(stored) \in 1 .. Len(stored) + 1
      /\ NextContainerName(stored) \notin NamesIn(stored)
      /\ \A m \in 1 .. NextContainerName(stored) - 1 : m \in NamesIn(stored)
  BY <1>5 DEF NextContainerName
<1> QED
  BY <1>6, <1>1

(* Dropping a name leaves the other entries, still under names of their own. *)
LEMMA WithoutKeepsTheOthers ==
  ASSUME NEW S, NEW stored \in Seq(S), NEW n, Unique(stored)
  PROVE  /\ Without(stored, n) \in Seq(S)
         /\ Unique(Without(stored, n))
         /\ NamesIn(Without(stored, n)) = NamesIn(stored) \ {n}
         /\ Entries(Without(stored, n)) = {e \in Entries(stored) : e.name # n}
<1>a. Len(stored) \in Nat
  BY LenProperties
<1>1. /\ Len(stored) \in Nat
      /\ DOMAIN stored = 1 .. Len(stored)
      /\ \A i \in 1 .. Len(stored) : stored[i] \in S
  BY LenProperties, ElementOfSeq
<1>2. CASE n \notin NamesIn(stored)
  BY <1>2 DEF Without, NamesIn, Entries
<1>3. CASE n \in NamesIn(stored)
  <2> DEFINE k == CHOOSE i \in DOMAIN stored : stored[i].name = n
             before == SubSeq(stored, 1, k - 1)
             after == SubSeq(stored, k + 1, Len(stored))
             rest == before \o after
  <2>1. k \in 1 .. Len(stored) /\ stored[k].name = n
    BY <1>1, <1>3 DEF NamesIn
  <2>a. k \in Int /\ 1 <= k /\ k <= Len(stored)
    BY <2>1, <1>1
  <2>2. Without(stored, n) = rest
    BY <1>3 DEF Without
  <2> HIDE DEF k
  <2>3. /\ before \in Seq(S)
        /\ Len(before) = k - 1
        /\ \A i \in 1 .. k - 1 : before[i] = stored[i]
    <3>1. /\ before \in Seq(S)
          /\ Len(before) = IF 1 <= k - 1 THEN (k - 1) - 1 + 1 ELSE 0
          /\ \A i \in 1 .. (k - 1) - 1 + 1 : before[i] = stored[1 + i - 1]
      BY <1>1, <2>1, SubSeqProperties
    <3> QED
      BY <3>1, <2>1, <1>1
  <2>4. /\ after \in Seq(S)
        /\ Len(after) = Len(stored) - k
        /\ \A i \in 1 .. Len(stored) - k : after[i] = stored[k + i]
    <3>1. /\ after \in Seq(S)
          /\ Len(after) = IF k + 1 <= Len(stored) THEN Len(stored) - (k + 1) + 1 ELSE 0
          /\ \A i \in 1 .. Len(stored) - (k + 1) + 1 : after[i] = stored[(k + 1) + i - 1]
      BY <1>1, <2>1, SubSeqProperties
    <3> HIDE DEF after
    <3>2. Len(after) = Len(stored) - k
      BY <3>1, <2>a, <1>a
    <3>3. ASSUME NEW i \in 1 .. Len(stored) - k
          PROVE  after[i] = stored[k + i]
      <4>1. i \in 1 .. Len(stored) - (k + 1) + 1 /\ (k + 1) + i - 1 = k + i
        BY <2>1, <1>1
      <4> QED
        BY <4>1, <3>1
    <3> QED
      BY <3>1, <3>2, <3>3
  <2> HIDE DEF before, after
  <2>5. /\ rest \in Seq(S)
        /\ Len(rest) = Len(stored) - 1
        /\ \A i \in 1 .. Len(stored) - 1 :
             rest[i] = IF i < k THEN stored[i] ELSE stored[i + 1]
    <3>1. /\ rest \in Seq(S)
          /\ Len(rest) = Len(before) + Len(after)
          /\ \A i \in 1 .. Len(before) + Len(after) :
               rest[i] = IF i <= Len(before) THEN before[i] ELSE after[i - Len(before)]
      BY <2>3, <2>4, ConcatProperties
    <3>2. Len(before) + Len(after) = Len(stored) - 1
      BY <2>1, <2>3, <2>4, <1>1
    <3>3. ASSUME NEW i \in 1 .. Len(stored) - 1
          PROVE  rest[i] = IF i < k THEN stored[i] ELSE stored[i + 1]
      <4>1. CASE i < k
        <5>1. i \in 1 .. k - 1 /\ i <= Len(before)
          BY <4>1, <2>1, <2>3, <1>1
        <5> QED
          BY <5>1, <4>1, <3>1, <3>2, <2>3
      <4>2. CASE ~ (i < k)
        <5>1. /\ i - (k - 1) \in 1 .. Len(stored) - k
              /\ ~ (i <= Len(before))
              /\ k + (i - (k - 1)) = i + 1
          BY <4>2, <2>1, <2>3, <1>1
        <5>2. rest[i] = after[i - (k - 1)]
          BY <5>1, <3>1, <3>2, <2>3
        <5> QED
          BY <5>1, <5>2, <4>2, <2>4
      <4> QED
        BY <4>1, <4>2
    <3> QED
      BY <3>1, <3>2, <3>3
  <2> HIDE DEF rest
  <2>6. DOMAIN rest = 1 .. Len(stored) - 1
    BY <2>5, LenProperties
  <2> DEFINE old(i) == IF i < k THEN i ELSE i + 1
  <2>7. /\ \A i \in DOMAIN rest : /\ old(i) \in DOMAIN stored
                                /\ old(i) # k
                                /\ rest[i] = stored[old(i)]
        /\ \A i, j \in DOMAIN rest : old(i) = old(j) => i = j
    BY <1>1, <2>1, <2>5, <2>6
  <2> HIDE DEF old
  <2>8. /\ Unique(rest)
        /\ NamesIn(rest) \subseteq NamesIn(stored) \ {n}
    <3>1. Unique(rest)
      BY <2>7 DEF Unique
    <3>2. ASSUME NEW i \in DOMAIN rest
          PROVE  rest[i].name \in NamesIn(stored) \ {n}
      BY <1>1, <2>1, <2>7 DEF Unique, NamesIn
    <3> QED
      BY <3>1, <3>2 DEF NamesIn
  <2>9. ASSUME NEW j \in DOMAIN stored, stored[j].name # n
        PROVE  \E i \in DOMAIN rest : rest[i] = stored[j]
    <3>1. j \in 1 .. Len(stored) /\ (j < k \/ j > k)
      BY <1>1, <2>1, <2>9
    <3>2. CASE j < k
      BY <3>1, <3>2, <2>1, <2>5, <2>6, <1>1
    <3>3. CASE j > k
      BY <3>1, <3>3, <2>1, <2>5, <2>6, <1>1, j - 1 \in 1 .. Len(stored) - 1
    <3> QED
      BY <3>1, <3>2, <3>3
  <2>10. Entries(rest) = {e \in Entries(stored) : e.name # n}
    <3>1. ASSUME NEW i \in DOMAIN rest
          PROVE  rest[i] \in Entries(stored) /\ rest[i].name # n
      BY <2>1, <2>7, <1>1 DEF Unique, Entries
    <3> QED
      BY <3>1, <2>9 DEF Entries
  <2>11. NamesIn(rest) = NamesIn(stored) \ {n}
    BY <2>8, <2>9 DEF NamesIn
  <2> QED
    BY <2>2, <2>5, <2>8, <2>10, <2>11
<1> QED
  BY <1>2, <1>3

(* add_ephemeral_container's splice: whatever name a launcher holds, however *)
(* often it re-sends, the list it PUTs has that name once, and every other   *)
(* entry as it was.                                                          *)
THEOREM SpliceKeepsNamesUnique ==
  ASSUME NEW S, NEW stored \in Seq(S), NEW s \in S, Unique(stored)
  PROVE  LET spliced == Append(Without(stored, s.name), s)
         IN  /\ spliced \in Seq(S)
             /\ Unique(spliced)
             /\ NamesIn(spliced) = NamesIn(stored) \cup {s.name}
             /\ Entries(spliced) = {e \in Entries(stored) : e.name # s.name} \cup {s}
<1> DEFINE rest == Without(stored, s.name)
           spliced == Append(rest, s)
<1>1. /\ rest \in Seq(S)
      /\ Unique(rest)
      /\ NamesIn(rest) = NamesIn(stored) \ {s.name}
      /\ Entries(rest) = {e \in Entries(stored) : e.name # s.name}
  BY WithoutKeepsTheOthers
<1> HIDE DEF rest
<1>2. /\ Len(rest) \in Nat
      /\ DOMAIN rest = 1 .. Len(rest)
  BY <1>1, LenProperties
<1>3. /\ spliced \in Seq(S)
      /\ DOMAIN spliced = 1 .. Len(rest) + 1
      /\ \A i \in 1 .. Len(rest) : spliced[i] = rest[i]
      /\ spliced[Len(rest) + 1] = s
  BY <1>1, <1>2
<1> HIDE DEF spliced
<1>4. \A i \in 1 .. Len(rest) : spliced[i].name # s.name
  BY <1>1, <1>2, <1>3 DEF NamesIn
<1>5. \A i \in 1 .. Len(rest) + 1 : i \in 1 .. Len(rest) \/ i = Len(rest) + 1
  BY <1>2
<1>6. Unique(spliced)
  BY <1>1, <1>2, <1>3, <1>4, <1>5 DEF Unique
<1>7. NamesIn(spliced) = NamesIn(rest) \cup {s.name}
  BY <1>2, <1>3, <1>5 DEF NamesIn
<1>8. Entries(spliced) = Entries(rest) \cup {s}
  BY <1>2, <1>3, <1>5 DEF Entries
<1> QED
  BY <1>1, <1>3, <1>6, <1>7, <1>8 DEF rest, spliced

(* A name in use has an entry, and SeatNamed is that entry. *)
LEMMA SeatNamedIsThere ==
  ASSUME NEW stored, NEW n \in NamesIn(stored)
  PROVE  \E i \in DOMAIN stored : SeatNamed(stored, n) = stored[i] /\ stored[i].name = n
BY DEF NamesIn, SeatNamed

(* Names unique, SeatNamed is the one entry of that name. *)
LEMMA SeatNamedIsTheEntry ==
  ASSUME NEW stored, Unique(stored), NEW e \in Entries(stored)
  PROVE  e.name \in NamesIn(stored) /\ SeatNamed(stored, e.name) = e
BY DEF Unique, Entries, NamesIn, SeatNamed

(* running_seat offers seats of the pod that run, none of somebody else's. *)
LEMMA RunningSeatRuns ==
  ASSUME NEW facts, NEW stored, NEW up, NEW ids, NEW owner
  PROVE  /\ RunningSeat(facts, stored, up, ids, owner) \subseteq NamesIn(stored) \cap up
         /\ \A n \in RunningSeat(facts, stored, up, ids, owner) :
              \E e \in Entries(stored) : e.name = n /\ ~OwnedByAnother(e.owner, owner)
BY DEF RunningSeat, Reusable, NamesIn, Entries

-----------------------------------------------------------------------------
(* The ladder. *)

LEMMA NextRungIsOnTheLadder ==
  ASSUME NEW todo \in SUBSET Rung, todo # {}, NEW degradedFirst \in BOOLEAN
  PROVE  NextRung(todo, degradedFirst) \in todo
<1> DEFINE turn == [rung \in Rung |-> Turn(rung, degradedFirst)]
<1>1. \A rung \in Rung : turn[rung] \in Nat
  BY DEF turn, Turn, LadderIndex, Rung
<1>2. {turn[rung] : rung \in todo} \in SUBSET Nat /\ {turn[rung] : rung \in todo} # {}
  BY <1>1
<1>3. PICK n \in {turn[rung] : rung \in todo} : \A m \in {turn[rung] : rung \in todo} : n <= m
  BY <1>2, LeastNatural
<1>4. \E rung \in todo : \A other \in todo : turn[rung] <= turn[other]
  BY <1>3
<1>5. \E rung \in todo :
        \A other \in todo : Turn(rung, degradedFirst) <= Turn(other, degradedFirst)
  BY <1>4
<1> QED
  BY <1>5 DEF NextRung

LEMMA RungContextIsOne ==
  ASSUME NEW rung \in Rung, NEW uid \in Id, NEW gid \in Id
  PROVE  RungContext(rung, uid, gid) \in Context
BY DEF Rung, RungContext, Context, Id, NoId

LEMMA AdmitReturnsAContext ==
  ASSUME NEW rules \in Policy, NEW ctx \in Context
  PROVE  Admit(rules, ctx) \in Context
BY DEF Admit, Context, Policy

LEMMA RungOfSpecIsARung ==
  ASSUME NEW ctx
  PROVE  RungOfSpec(ctx) \in Rung
BY DEF RungOfSpec, Rung

LEMMA MeasuredRungIsOneOrNone ==
  ASSUME NEW ctx \in Context, NEW uid \in Id, NEW gid \in Id
  PROVE  MeasuredRung(ctx, uid, gid) \in Rung \cup {NoRung}
<1>1. EffectivePtrace(ctx) \in BOOLEAN /\ RunsAsUid(ctx) \in Id /\ RunsAsGid(ctx) \in Id
  BY ImageAssumption DEF EffectivePtrace, RunsAsUid, RunsAsGid, Context, Id
<1> QED
  BY <1>1 DEF MeasuredRung, Rung, NoRung

LEMMA IdCorrectionIsTyped ==
  ASSUME NEW self, NEW target \in Ids, NEW pin \in Ids
  PROVE  IdCorrection(self, target, pin) \in Ids
BY DEF IdCorrection, Ids, NoIds, Id, NoId

-----------------------------------------------------------------------------
(* The inductive invariant.  A launcher that submits or waits has a rung in  *)
(* hand: without it TypeOK says nothing of the container it submits.         *)

RungInHand ==
  \A l \in Launchers : pc[l] \in {"get", "put", "wait"} => walk[l].rung \in Rung

Inductive == TypeOK /\ NamesUnique /\ RungInHand

-----------------------------------------------------------------------------
(* What the parts of a well-typed state are. *)

LEMMA PodIsTyped ==
  ASSUME TypeOK
  PROVE  /\ pod \in Pod
         /\ \A w \in Workloads : pod.workload[w] \in Facts
         /\ \A s \in pod.sidecar : s \in Seat
BY InputAssumption DEF TypeOK, Pod

LEMMA WantedIsTyped ==
  ASSUME TypeOK, NEW l \in Launchers
  PROVE  /\ want[l] \in Request
         /\ WantedUid(l) \in Id
         /\ WantedGid(l) \in Id
<1>1. want[l] \in Request
  BY DEF TypeOK
<1>2. pod.workload[want[l].target] \in Facts
  BY <1>1, PodIsTyped DEF Request
<1> QED
  BY <1>1, <1>2 DEF WantedUid, WantedGid, Request, Facts

LEMMA SeatIsTyped ==
  ASSUME TypeOK, NEW n \in NamesIn(seats)
  PROVE  SeatNamed(seats, n) \in Seat
<1>1. PICK i \in DOMAIN seats : SeatNamed(seats, n) = seats[i]
  BY SeatNamedIsThere
<1> QED
  BY <1>1, ElementOfSeq, LenProperties DEF TypeOK

LEMMA InHandIsTyped ==
  ASSUME TypeOK, NEW l \in Launchers
  PROVE  InHand(l) \subseteq Seat
<1>1. \A i \in DOMAIN seats : seats[i] \in Seat
  BY ElementOfSeq, LenProperties DEF TypeOK
<1> QED
  BY <1>1, PodIsTyped DEF InHand

LEMMA ExistingIsTyped ==
  ASSUME TypeOK, NEW l \in Launchers
  PROVE  Existing(l) \subseteq Seat
<1>1. \A n \in RunningSeat(pod, seats, Up, WantedIds(l), Owner[l]) : SeatNamed(seats, n) \in Seat
  BY RunningSeatRuns, SeatIsTyped
<1> QED
  BY <1>1, PodIsTyped DEF Existing

LEMMA TargetIdsAreTyped ==
  ASSUME TypeOK, NEW s \in Seat
  PROVE  TargetIds(s) \in Ids /\ TargetIds(s).uid \in Id /\ TargetIds(s).gid \in Id
BY PodIsTyped DEF TargetIds, Ids, Id, Facts, Seat

LEMMA CorrectionIsTyped ==
  ASSUME TypeOK, NEW l \in Launchers, NEW s \in Seat
  PROVE  Correction(l, s) \in Ids
<1>1. NoIds \in Ids
  BY DEF NoIds, Ids, Id, NoId
<1>2. [uid |-> want[l].uid, gid |-> want[l].gid] \in Ids
  BY WantedIsTyped DEF Request, Ids
<1> QED
  BY <1>1, <1>2, TargetIdsAreTyped, IdCorrectionIsTyped DEF Correction

LEMMA SubmittedIsTyped ==
  ASSUME TypeOK, NEW l \in Launchers, NEW rung \in Rung
  PROVE  Admitted(l, rung) \in Seat /\ Admitted(l, rung).name = walk[l].name
<1>1. Asked(l, rung) \in Context
  BY WantedIsTyped, RungContextIsOne DEF Asked
<1>2. Admit(policy, Asked(l, rung)) \in Context
  BY <1>1, AdmitReturnsAContext, InputAssumption DEF TypeOK
<1>3. walk[l].name \in Nat /\ want[l].target \in Workloads
  BY WantedIsTyped DEF TypeOK, Walk, Request
<1>4. Owner[l] \in STRING /\ Key[l] \in STRING
  BY InputAssumption
<1> QED
  BY <1>2, <1>3, <1>4 DEF Admitted, Authored, Seat

LEMMA MovedIsTyped ==
  ASSUME TypeOK
  PROVE  Moved \in [Launchers -> Walk]
BY DEF TypeOK, Moved, Walk

LEMMA MeasuredIsTyped ==
  ASSUME TypeOK, NEW l \in Launchers, NEW s \in Seat
  PROVE  /\ MeasuredRung(s.ctx, TargetIds(s).uid, TargetIds(s).gid) \in Rung \cup {NoRung}
         /\ MeasuredRung(s.ctx, WantedUid(l), WantedGid(l)) \in Rung \cup {NoRung}
<1>1. s.ctx \in Context
  BY DEF Seat
<1> QED
  BY <1>1, TargetIdsAreTyped, WantedIsTyped, MeasuredRungIsOneOrNone

(* An attach that ends leaves its launcher's variables well-typed. *)
LEMMA ReturnIsTyped ==
  ASSUME TypeOK, NEW l \in Launchers, NEW result \in Session, Return(l, result)
  PROVE  /\ pc' \in [Launchers -> Call]
         /\ walk' \in [Launchers -> Walk]
         /\ hand' \in [Launchers -> Hand]
         /\ session' \in [Launchers -> Session]
<1>1. NoWalk \in Walk /\ NoHand \in Hand
  BY DEF NoWalk, Walk, NoHand, Hand, NoRung, NoSeat
<1> QED
  BY <1>1 DEF TypeOK, Return, Goto, Call

LEMMA FailureIsTyped ==
  ASSUME NEW b \in BOOLEAN
  PROVE  [NoSession EXCEPT !.outcome = "failed", !.corrected = b] \in Session
BY DEF NoSession, Session, NoSeat, NoRung

LEMMA HandOverIsTyped ==
  ASSUME TypeOK, NEW l \in Launchers, NEW measured \in Rung \cup {NoRung},
         NEW reported \in BOOLEAN, HandOver(l, measured, reported)
  PROVE  /\ pc' \in [Launchers -> Call]
         /\ walk' \in [Launchers -> Walk]
         /\ hand' \in [Launchers -> Hand]
         /\ session' \in [Launchers -> Session]
<1>1. hand[l] \in Hand
  BY DEF TypeOK
<1>2. [outcome |-> "seat", name |-> hand[l].name, reused |-> hand[l].reused,
       corrected |-> Correcting(l), podAt |-> hand[l].podAt,
       rung |-> IF measured # NoRung THEN measured ELSE hand[l].rung,
       measured |-> measured # NoRung, reported |-> reported] \in Session
  BY <1>1 DEF Hand, Session, Correcting
<1> QED
  BY <1>2, ReturnIsTyped DEF HandOver

-----------------------------------------------------------------------------
(* Initially. *)

LEMMA InitEstablishesInductive ==
  Init => Inductive
<1> SUFFICES ASSUME Init
             PROVE  Inductive
  OBVIOUS
<1>1. AnyRequest \in Requests /\ AnyRequest \in Request
  BY InputAssumption DEF AnyRequest
<1>2. NoWalk \in Walk /\ NoHand \in Hand /\ NoSession \in Session
  BY DEF NoWalk, Walk, NoHand, Hand, NoSession, Session, NoRung, NoSeat
<1>3. seats \in Seq(Seat) /\ NamesIn(seats) = {} /\ status \in [NamesIn(seats) -> Phase]
  BY DEF Init, NamesIn
<1>4. TypeOK
  BY <1>1, <1>2, <1>3 DEF Init, TypeOK, Call, NoTally
<1>5. NamesUnique /\ RungInHand
  BY DEF Init, NamesUnique, RungInHand
<1> QED
  BY <1>4, <1>5 DEF Inductive

-----------------------------------------------------------------------------
(* The steps of a launcher. *)

LEMMA WalkIsTyped ==
  ASSUME Inductive
  PROVE  /\ walk \in [Launchers -> Walk]
         /\ \A l \in Launchers : walk[l] \in Walk
BY DEF Inductive, TypeOK

LEMMA EnvironmentIsTyped ==
  ASSUME Inductive, NoFault \/ Fault
  PROVE  faults' \in Nat /\ calm' \in BOOLEAN
<1>1. faults \in Nat /\ calm \in BOOLEAN
  BY DEF Inductive, TypeOK
<1>2. CASE NoFault
  BY <1>1, <1>2 DEF NoFault
<1>3. CASE Fault
  <2>1. faults' \in Nat
    BY <1>1, <1>3 DEF Fault
  <2>2. calm' \in BOOLEAN
    BY <1>3 DEF Fault
  <2> QED
    BY <2>1, <2>2
<1> QED
  BY <1>2, <1>3

(* What a step leaves alone stays typed; the list of seats is the pod's.     *)
LEMMA SeatsUntouched ==
  ASSUME Inductive, UNCHANGED <<seats, status>>
  PROVE  /\ seats' \in Seq(Seat)
         /\ status' \in [NamesIn(seats') -> Phase]
         /\ NamesUnique'
BY DEF Inductive, TypeOK, NamesUnique

LEMMA BeginKeepsInductive ==
  ASSUME Inductive, NEW l \in Launchers, NEW r \in Requests, Begin(l, r)
  PROVE  Inductive'
<1>1. r \in Request /\ NoTally \in [spent : Nat, refused : Nat] /\ NoSession \in Session
  BY InputAssumption DEF NoTally, NoSession, Session, NoRung, NoSeat
<1>2. plain' \in BOOLEAN
  BY DEF Inductive, TypeOK, Begin
<1>3. TypeOK'
  BY <1>1, <1>2, SeatsUntouched DEF Inductive, TypeOK, Begin, Goto, NoFault, setting, Call
<1>4. NamesUnique' /\ RungInHand'
  BY SeatsUntouched DEF Inductive, TypeOK, RungInHand, Begin, Goto
<1> QED
  BY <1>3, <1>4 DEF Inductive

LEMMA ReconnectKeepsInductive ==
  ASSUME Inductive, NEW l \in Launchers, Reconnect(l)
  PROVE  Inductive'
<1>1. PICK s \in Existing(l) :
        hand' = [hand EXCEPT ![l] = [name |-> s.name, reused |-> TRUE,
                                     rung |-> RungOfSpec(s.ctx), podAt |-> incarnation]]
  BY DEF Reconnect
<1>2. s.name \in Nat /\ RungOfSpec(s.ctx) \in Rung
  BY ExistingIsTyped, RungOfSpecIsARung DEF Inductive, Seat
<1>3. hand' \in [Launchers -> Hand]
  BY <1>1, <1>2 DEF Inductive, TypeOK, Hand
<1>4. TypeOK'
  BY <1>3, SeatsUntouched DEF Inductive, TypeOK, Reconnect, Goto, NoFault, setting, Call
<1>5. NamesUnique' /\ RungInHand'
  BY SeatsUntouched DEF Inductive, TypeOK, RungInHand, Reconnect, Goto
<1> QED
  BY <1>4, <1>5 DEF Inductive

LEMMA StartWalkKeepsInductive ==
  ASSUME Inductive, NEW l \in Launchers, StartWalk(l)
  PROVE  Inductive'
<1>1. NextContainerName(seats) \in Nat
  BY NextNameIsFree DEF Inductive, TypeOK
<1>2. walk' \in [Launchers -> Walk]
  BY <1>1 DEF Inductive, TypeOK, StartWalk, Walk, NoWalk, NoRung, RungsToTry, DegradedFirst
<1>3. TypeOK'
  BY <1>2, SeatsUntouched DEF Inductive, TypeOK, StartWalk, Goto, NoFault, setting, Call
<1>4. NamesUnique' /\ RungInHand'
  BY SeatsUntouched DEF Inductive, TypeOK, RungInHand, StartWalk, Goto
<1> QED
  BY <1>3, <1>4 DEF Inductive

LEMMA TryRungKeepsInductive ==
  ASSUME Inductive, NEW l \in Launchers, TryRung(l)
  PROVE  Inductive'
<1> DEFINE rung == NextRung(walk[l].todo, walk[l].degradedFirst)
<1>1. rung \in Rung
  BY NextRungIsOnTheLadder DEF Inductive, TypeOK, Walk, TryRung
<1>2. /\ \/ Drop(l, rung) /\ UNCHANGED pc
         \/ Take(l, rung) /\ Goto(l, "get")
      /\ NoFault \/ Fault
  BY DEF TryRung
<1>3. faults' \in Nat /\ calm' \in BOOLEAN
  BY <1>2, EnvironmentIsTyped
<1>4. walk' \in [Launchers -> Walk] /\ pc' \in [Launchers -> Call]
  <2>1. pc' \in [Launchers -> Call]
    BY <1>2 DEF Inductive, TypeOK, Goto, Call
  <2>2. [walk[l] EXCEPT !.rung = rung, !.attempt = 0] \in Walk
    BY <1>1, WalkIsTyped DEF Walk
  <2>3. [walk[l] EXCEPT !.todo = @ \ {rung}, !.rung = NoRung, !.attempt = 0] \in Walk
    BY WalkIsTyped DEF Walk
  <2> QED
    BY <1>2, <2>1, <2>2, <2>3, WalkIsTyped DEF Drop, Take
<1>5. TypeOK'
  BY <1>3, <1>4, SeatsUntouched DEF Inductive, TypeOK, TryRung, setting
<1>6. pc[l] = "try"
  BY DEF TryRung
<1>7. NamesUnique' /\ RungInHand'
  BY <1>1, <1>2, <1>6, SeatsUntouched
     DEF Inductive, TypeOK, RungInHand, TryRung, Drop, Take, Goto, Walk
<1> QED
  BY <1>5, <1>7 DEF Inductive

(* A call that raises, whichever it is. *)
LEMMA RaiseKeepsInductive ==
  ASSUME Inductive, NEW l \in Launchers, Raise(l),
         faults' \in Nat, calm' \in BOOLEAN,
         UNCHANGED <<setting, seats, status, incarnation, request, want, tally, begun>>
  PROVE  Inductive'
<1>1. /\ pc' \in [Launchers -> Call]
      /\ walk' \in [Launchers -> Walk]
      /\ hand' \in [Launchers -> Hand]
      /\ session' \in [Launchers -> Session]
  BY FailureIsTyped, ReturnIsTyped DEF Raise, Correcting, Inductive
<1>2. TypeOK'
  BY <1>1, SeatsUntouched DEF Inductive, TypeOK, setting
<1>3. NamesUnique' /\ RungInHand'
  BY SeatsUntouched DEF Inductive, TypeOK, RungInHand, Raise, Return, Goto
<1> QED
  BY <1>2, <1>3 DEF Inductive

LEMMA GetSubresourceKeepsInductive ==
  ASSUME Inductive, NEW l \in Launchers, GetSubresource(l)
  PROVE  Inductive'
<1>0. walk[l] \in Walk /\ walk[l].attempt + 1 \in Nat
  BY WalkIsTyped DEF Walk
<1>1. [walk[l] EXCEPT !.attempt = @ + 1, !.current = TRUE] \in Walk
  BY <1>0 DEF Walk
<1>2. walk' \in [Launchers -> Walk]
  BY <1>1, WalkIsTyped DEF GetSubresource
<1>3. TypeOK'
  BY <1>2, SeatsUntouched DEF Inductive, TypeOK, GetSubresource, Goto, NoFault, setting, Call
<1>4. NamesUnique' /\ RungInHand'
  BY SeatsUntouched DEF Inductive, TypeOK, RungInHand, GetSubresource, Goto, Walk
<1> QED
  BY <1>3, <1>4 DEF Inductive

LEMMA PutConflictsKeepsInductive ==
  ASSUME Inductive, NEW l \in Launchers, PutConflicts(l)
  PROVE  Inductive'
<1>1. CASE Goto(l, "get") /\ UNCHANGED <<walk, hand, session>>
  <2>1. TypeOK'
    BY <1>1, SeatsUntouched DEF Inductive, TypeOK, PutConflicts, Goto, NoFault, setting, Call
  <2>2. NamesUnique' /\ RungInHand'
    BY <1>1, SeatsUntouched DEF Inductive, TypeOK, RungInHand, PutConflicts, Goto
  <2> QED
    BY <2>1, <2>2 DEF Inductive
<1>2. CASE Raise(l)
  BY <1>2, RaiseKeepsInductive DEF PutConflicts, NoFault, Inductive, TypeOK
<1> QED
  BY <1>1, <1>2 DEF PutConflicts

LEMMA PutDeniedKeepsInductive ==
  ASSUME Inductive, NEW l \in Launchers, PutDenied(l)
  PROVE  Inductive'
<1> DEFINE rung == walk[l].rung
<1>0. [walk[l] EXCEPT !.todo = @ \ {rung}, !.rung = NoRung, !.attempt = 0] \in Walk
  BY WalkIsTyped DEF Walk
<1>1. walk' \in [Launchers -> Walk]
  BY <1>0, WalkIsTyped DEF PutDenied, Drop
<1>2. TypeOK'
  BY <1>1, SeatsUntouched DEF Inductive, TypeOK, PutDenied, Goto, NoFault, setting, Call
<1>3. NamesUnique' /\ RungInHand'
  BY SeatsUntouched DEF Inductive, TypeOK, RungInHand, PutDenied, Drop, Goto, Walk
<1> QED
  BY <1>2, <1>3 DEF Inductive

LEMMA CountsAreTyped ==
  ASSUME Inductive, NEW l \in Launchers
  PROVE  /\ tally \in [Launchers -> [spent : Nat, refused : Nat]]
         /\ [tally EXCEPT ![l].spent = @ + 1] \in [Launchers -> [spent : Nat, refused : Nat]]
         /\ [tally EXCEPT ![l].refused = @ + 1] \in [Launchers -> [spent : Nat, refused : Nat]]
<1>1. tally \in [Launchers -> [spent : Nat, refused : Nat]]
  BY DEF Inductive, TypeOK
<1>2. tally[l].spent + 1 \in Nat /\ tally[l].refused + 1 \in Nat
  BY <1>1
<1> QED
  BY <1>1, <1>2

(* The PUT: the list the launcher splices its container into stays a list of *)
(* seats under names of their own, and the status names the same ones.       *)
LEMMA StoredKeepsSeats ==
  ASSUME Inductive, NEW l \in Launchers, Stored(l)
  PROVE  /\ seats' \in Seq(Seat)
         /\ status' \in [NamesIn(seats') -> Phase]
         /\ NamesUnique'
         /\ tally' \in [Launchers -> [spent : Nat, refused : Nat]]
<1> DEFINE s == Admitted(l, walk[l].rung)
<1>1. walk[l].rung \in Rung
  BY DEF Inductive, RungInHand, Stored
<1>2. s \in Seat /\ s.name = walk[l].name
  BY <1>1, SubmittedIsTyped DEF Inductive
<1>3. seats \in Seq(Seat) /\ Unique(seats)
  BY DEF Inductive, TypeOK, NamesUnique, Unique
<1> HIDE DEF s
<1>4. seats' = Append(Without(seats, s.name), s)
  BY <1>2 DEF Stored, Spliced, s
<1>5. /\ seats' \in Seq(Seat)
      /\ Unique(seats')
      /\ NamesIn(seats') = NamesIn(seats) \cup {walk[l].name}
  BY <1>2, <1>3, <1>4, SpliceKeepsNamesUnique
<1>6. status' \in [NamesIn(seats') -> Phase]
  <2>1. status \in [NamesIn(seats) -> Phase] /\ "pending" \in Phase
    BY DEF Inductive, TypeOK, Phase
  <2>2. CASE walk[l].name \in DOMAIN status
    BY <2>1, <2>2, <1>5 DEF Stored
  <2>3. CASE walk[l].name \notin DOMAIN status
    BY <2>1, <2>3, <1>5 DEF Stored
  <2> QED
    BY <2>2, <2>3
<1>7. tally' \in [Launchers -> [spent : Nat, refused : Nat]]
  BY CountsAreTyped DEF Stored
<1> QED
  BY <1>5, <1>6, <1>7 DEF NamesUnique, Unique

LEMMA PutAcceptedKeepsInductive ==
  ASSUME Inductive, NEW l \in Launchers, PutAccepted(l)
  PROVE  Inductive'
<1>1. /\ Moved \in [Launchers -> Walk]
      /\ Moved[l].rung = walk[l].rung
      /\ \A m \in Launchers : Moved[m].rung = walk[m].rung
  BY MovedIsTyped, WalkIsTyped DEF Inductive, Moved, Walk
<1>2. [Moved[l] EXCEPT !.podAt = incarnation] \in Walk
  <2>1. incarnation \in Nat /\ Moved[l] \in Walk
    BY <1>1 DEF Inductive, TypeOK
  <2> HIDE DEF Moved
  <2> QED
    BY <2>1 DEF Walk
<1>3. walk' \in [Launchers -> Walk]
  BY <1>1, <1>2 DEF PutAccepted
<1>4. TypeOK'
  BY <1>3, StoredKeepsSeats DEF Inductive, TypeOK, PutAccepted, Goto, NoFault, setting, Call
<1>5. \A m \in Launchers : walk'[m].rung = walk[m].rung
  BY <1>1, <1>2 DEF PutAccepted, Walk
<1>6. pc[l] = "put" /\ \A m \in Launchers \ {l} : pc'[m] = pc[m]
  BY DEF PutAccepted, Stored, Goto, Inductive, TypeOK
<1>7. RungInHand'
  BY <1>5, <1>6 DEF Inductive, RungInHand
<1> QED
  BY <1>4, <1>7, StoredKeepsSeats DEF Inductive, PutAccepted

LEMMA PutLostKeepsInductive ==
  ASSUME Inductive, NEW l \in Launchers, PutLost(l)
  PROVE  Inductive'
<1>1. /\ Moved \in [Launchers -> Walk]
      /\ \A m \in Launchers : Moved[m].rung = walk[m].rung
      /\ NoWalk \in Walk
  BY MovedIsTyped, WalkIsTyped DEF Inductive, Moved, Walk, NoWalk, NoRung
<1>2. walk' \in [Launchers -> Walk]
  BY <1>1 DEF PutLost
<1>3. session' \in [Launchers -> Session]
  BY FailureIsTyped DEF Inductive, TypeOK, PutLost, Correcting
<1>4. faults' \in Nat /\ calm' \in BOOLEAN
  BY EnvironmentIsTyped DEF PutLost
<1>5. TypeOK'
  BY <1>2, <1>3, <1>4, StoredKeepsSeats DEF Inductive, TypeOK, PutLost, setting, Call
<1>6. RungInHand'
  BY <1>1 DEF Inductive, TypeOK, RungInHand, PutLost
<1> QED
  BY <1>5, <1>6, StoredKeepsSeats DEF Inductive, PutLost

LEMMA WaitRunningKeepsInductive ==
  ASSUME Inductive, NEW l \in Launchers, WaitRunning(l)
  PROVE  Inductive'
<1>1. NoWalk \in Walk
  BY DEF Walk, NoWalk, NoRung
<1>2. hand' \in [Launchers -> Hand]
  BY WalkIsTyped DEF Inductive, TypeOK, WaitRunning, Walk, Hand
<1>3. TypeOK'
  BY <1>1, <1>2, SeatsUntouched DEF Inductive, TypeOK, WaitRunning, Goto, NoFault, setting, Call
<1>4. NamesUnique' /\ RungInHand'
  BY SeatsUntouched DEF Inductive, TypeOK, RungInHand, WaitRunning, Goto
<1> QED
  BY <1>3, <1>4 DEF Inductive

LEMMA WaitRefusedKeepsInductive ==
  ASSUME Inductive, NEW l \in Launchers, WaitRefused(l)
  PROVE  Inductive'
<1>1. NextContainerName(seats) \in Nat
  BY NextNameIsFree DEF Inductive, TypeOK
<1>2. [walk[l] EXCEPT !.todo = @ \ {walk[l].rung}, !.rung = NoRung,
                      !.attempt = 0, !.name = NextContainerName(seats)] \in Walk
  BY <1>1, WalkIsTyped DEF Walk
<1>3. walk' \in [Launchers -> Walk]
  BY <1>2, WalkIsTyped DEF WaitRefused
<1>4. tally' \in [Launchers -> [spent : Nat, refused : Nat]]
  BY CountsAreTyped DEF WaitRefused
<1>5. TypeOK'
  BY <1>3, <1>4, SeatsUntouched DEF Inductive, TypeOK, WaitRefused, Goto, NoFault, setting, Call
<1>6. NamesUnique' /\ RungInHand'
  BY SeatsUntouched DEF Inductive, TypeOK, RungInHand, WaitRefused, Goto
<1> QED
  BY <1>5, <1>6 DEF Inductive

LEMMA HandOverKeepsInductive ==
  ASSUME Inductive, NEW l \in Launchers, NEW measured \in Rung \cup {NoRung},
         NEW reported \in BOOLEAN, HandOver(l, measured, reported),
         faults' \in Nat, calm' \in BOOLEAN,
         UNCHANGED <<setting, seats, status, incarnation, request, want, tally, begun>>
  PROVE  Inductive'
<1>1. /\ pc' \in [Launchers -> Call]
      /\ walk' \in [Launchers -> Walk]
      /\ hand' \in [Launchers -> Hand]
      /\ session' \in [Launchers -> Session]
  BY HandOverIsTyped DEF Inductive
<1>2. TypeOK'
  BY <1>1, SeatsUntouched DEF Inductive, TypeOK, setting
<1>3. NamesUnique' /\ RungInHand'
  BY SeatsUntouched DEF Inductive, TypeOK, RungInHand, HandOver, Return, Goto
<1> QED
  BY <1>2, <1>3 DEF Inductive

LEMMA ProbedKeepsInductive ==
  ASSUME Inductive, NEW l \in Launchers, Probed(l)
  PROVE  Inductive'
<1>1. PICK s \in InHand(l) :
        HandOver(l, MeasuredRung(s.ctx, TargetIds(s).uid, TargetIds(s).gid), TRUE)
  BY DEF Probed
<1>2. MeasuredRung(s.ctx, TargetIds(s).uid, TargetIds(s).gid) \in Rung \cup {NoRung}
  BY InHandIsTyped, MeasuredIsTyped DEF Inductive
<1> QED
  BY <1>1, <1>2, EnvironmentIsTyped, HandOverKeepsInductive DEF Probed

LEMMA UnprobedKeepsInductive ==
  ASSUME Inductive, NEW l \in Launchers, Unprobed(l)
  PROVE  Inductive'
<1>1. /\ NoFault \/ Fault
      /\ \/ HandOver(l, NoRung, FALSE)
         \/ \E s \in InHand(l) : HandOver(l, MeasuredRung(s.ctx, WantedUid(l), WantedGid(l)), FALSE)
  BY DEF Unprobed
<1>2. \A s \in InHand(l) : MeasuredRung(s.ctx, WantedUid(l), WantedGid(l)) \in Rung \cup {NoRung}
  BY InHandIsTyped, MeasuredIsTyped DEF Inductive
<1>3. PICK measured \in Rung \cup {NoRung} : HandOver(l, measured, FALSE)
  BY <1>1, <1>2
<1>4. faults' \in Nat /\ calm' \in BOOLEAN
  BY <1>1, EnvironmentIsTyped
<1> QED
  BY <1>3, <1>4, HandOverKeepsInductive DEF Unprobed

LEMMA CorrectKeepsInductive ==
  ASSUME Inductive, NEW l \in Launchers, Correct(l)
  PROVE  Inductive'
<1>1. PICK s \in InHand(l) : want' = [want EXCEPT ![l] = Corrected(want[l], Correction(l, s))]
  BY DEF Correct
<1>2. Correction(l, s) \in Ids
  BY InHandIsTyped, CorrectionIsTyped DEF Inductive
<1>3. Corrected(want[l], Correction(l, s)) \in Request
  BY <1>2, WantedIsTyped DEF Inductive, Corrected, Request, Ids
<1>4. want' \in [Launchers -> Request] /\ NoHand \in Hand
  BY <1>1, <1>3 DEF Inductive, TypeOK, NoHand, Hand, NoRung, NoSeat
<1>5. TypeOK'
  BY <1>4, SeatsUntouched DEF Inductive, TypeOK, Correct, Goto, NoFault, setting, Call
<1>6. NamesUnique' /\ RungInHand'
  BY SeatsUntouched DEF Inductive, TypeOK, RungInHand, Correct, Goto
<1> QED
  BY <1>5, <1>6 DEF Inductive

-----------------------------------------------------------------------------
(* The steps of the node and of the other writers. *)

LEMMA MovedKeepsRungInHand ==
  ASSUME Inductive, walk' = Moved, UNCHANGED pc
  PROVE  walk' \in [Launchers -> Walk] /\ RungInHand'
BY MovedIsTyped, WalkIsTyped DEF Inductive, RungInHand, Moved, Walk

LEMMA ReportKeepsInductive ==
  ASSUME Inductive, NEW n \in DOMAIN status, NEW phase \in Phase, Report(n, phase),
         NoFault \/ Fault
  PROVE  Inductive'
<1>1. status' \in [NamesIn(seats') -> Phase]
  BY DEF Report, Inductive, TypeOK
<1>2. TypeOK'
  BY <1>1, EnvironmentIsTyped, MovedKeepsRungInHand DEF Inductive, TypeOK, Report, setting
<1>3. NamesUnique' /\ RungInHand'
  BY MovedKeepsRungInHand DEF Inductive, NamesUnique, Report
<1> QED
  BY <1>2, <1>3 DEF Inductive

LEMMA NodeKeepsInductive ==
  ASSUME Inductive, Node
  PROVE  Inductive'
<1>1. PICK n \in DOMAIN status : KubeletStarts(n) \/ KubeletRefusesIt(n) \/ SeatExits(n)
  BY DEF Node
<1>2. "running" \in Phase /\ "refused" \in Phase /\ "exited" \in Phase
  BY DEF Phase
<1> QED
  BY <1>1, <1>2, ReportKeepsInductive DEF KubeletStarts, KubeletRefusesIt, SeatExits

LEMMA OtherWriteKeepsInductive ==
  ASSUME Inductive, OtherWrite
  PROVE  Inductive'
<1>1. TypeOK'
  BY EnvironmentIsTyped, MovedKeepsRungInHand, SeatsUntouched
     DEF Inductive, TypeOK, OtherWrite, setting
<1>2. NamesUnique' /\ RungInHand'
  BY MovedKeepsRungInHand, SeatsUntouched DEF OtherWrite
<1> QED
  BY <1>1, <1>2 DEF Inductive

LEMMA PodReplacedKeepsInductive ==
  ASSUME Inductive, PodReplaced
  PROVE  Inductive'
<1>1. /\ seats' \in Seq(Seat)
      /\ NamesIn(seats') = {}
      /\ status' \in [NamesIn(seats') -> Phase]
      /\ NamesUnique'
  BY DEF PodReplaced, NamesIn, NamesUnique
<1>2. incarnation' \in Nat
  BY DEF PodReplaced, Inductive, TypeOK
<1>3. TypeOK'
  BY <1>1, <1>2, EnvironmentIsTyped, MovedKeepsRungInHand
     DEF Inductive, TypeOK, PodReplaced, setting
<1> QED
  BY <1>1, <1>3, MovedKeepsRungInHand DEF Inductive, PodReplaced

-----------------------------------------------------------------------------
(* The theorems. *)

LEMMA NextKeepsInductive ==
  ASSUME Inductive, [Next]_vars
  PROVE  Inductive'
<1>1. ASSUME NEW l \in Launchers, Launch(l)
      PROVE  Inductive'
  BY <1>1, BeginKeepsInductive DEF Launch
<1>2. ASSUME NEW l \in Launchers, NoRungAdmitted(l) \/ PutInvalid(l)
      PROVE  Inductive'
  BY <1>2, EnvironmentIsTyped, RaiseKeepsInductive DEF NoRungAdmitted, PutInvalid
<1>3. ASSUME NEW l \in Launchers, WaitTimesOut(l)
      PROVE  Inductive'
  <2>1. faults' \in Nat /\ calm' \in BOOLEAN
    BY <1>3 DEF WaitTimesOut, Inductive, TypeOK
  <2> QED
    BY <1>3, <2>1, RaiseKeepsInductive DEF WaitTimesOut
<1>4. ASSUME NEW l \in Launchers, CallFails(l)
      PROVE  Inductive'
  BY <1>4, EnvironmentIsTyped, RaiseKeepsInductive DEF CallFails
<1>5. ASSUME NEW l \in Launchers, Step(l)
      PROVE  Inductive'
  BY <1>2, <1>3, <1>5, ReconnectKeepsInductive, StartWalkKeepsInductive,
     TryRungKeepsInductive, GetSubresourceKeepsInductive, PutConflictsKeepsInductive,
     PutDeniedKeepsInductive, PutAcceptedKeepsInductive, WaitRunningKeepsInductive,
     WaitRefusedKeepsInductive, ProbedKeepsInductive, UnprobedKeepsInductive,
     CorrectKeepsInductive
     DEF Step
<1>6. CASE UNCHANGED vars
  BY <1>6 DEF vars, Inductive, TypeOK, NamesUnique, RungInHand
<1> QED
  BY <1>1, <1>4, <1>5, <1>6, PutLostKeepsInductive, NodeKeepsInductive,
     OtherWriteKeepsInductive, PodReplacedKeepsInductive
     DEF Next

(* The inductive invariant of attach, which TypeOK and NamesUnique are part  *)
(* of and the theorems about seats rest on.                                  *)
THEOREM InductiveAlways == Spec => []Inductive
<1>1. Init => Inductive
  BY InitEstablishesInductive
<1>2. Inductive /\ [Next]_vars => Inductive'
  BY NextKeepsInductive
<1> QED
  BY <1>1, <1>2, PTL DEF Spec

(* Every reachable state is well-typed: in particular the status the kubelet *)
(* reports names exactly the containers of the list, whatever the launchers  *)
(* spliced into it.                                                          *)
THEOREM TypeCorrect == Spec => []TypeOK
<1>1. Inductive => TypeOK
  BY DEF Inductive
<1> QED
  BY <1>1, InductiveAlways, PTL

(* No two containers of the pod ever share a name, with any number of        *)
(* launchers and however stale the name each of them walks with.             *)
THEOREM NamesStayUnique == Spec => []NamesUnique
<1>1. Inductive => NamesUnique
  BY DEF Inductive
<1> QED
  BY <1>1, InductiveAlways, PTL

-----------------------------------------------------------------------------
(* The inductive invariant, a launcher at a time.  A launcher walks with a   *)
(* seat's name, waits for a container it authored, measures one it may use   *)
(* and hands that one over; what it says of an earlier pod of this name is   *)
(* not asked about, and it never speaks of a later one.                      *)

Acceptable(l, n, reused) ==
  \E e \in Entries(seats) : /\ e.name = n
                            /\ ~OwnedByAnother(e.owner, Owner[l])
                            /\ ~reused => e.owner = Owner[l] /\ e.key = Key[l]

WalksWithAName(l) == pc[l] \in {"try", "get", "put", "wait"} => walk[l].name \in Nat \ {0}

NothingHandedYet(l) == pc[l] # "idle" => session[l] = NoSession

OfThisPodOrEarlier(l) ==
  walk[l].podAt <= incarnation /\ hand[l].podAt <= incarnation /\ session[l].podAt <= incarnation

WaitsForItsOwn(l) ==
  pc[l] = "wait" /\ walk[l].podAt = incarnation => Acceptable(l, walk[l].name, FALSE)

MeasuresItsOwn(l) ==
  pc[l] = "measure" =>
    /\ hand[l].name \in Nat
    /\ hand[l].name # Sidecar /\ hand[l].podAt = incarnation
         => Acceptable(l, hand[l].name, hand[l].reused)

HandedItsOwn(l) == Handed(l) => Acceptable(l, session[l].name, session[l].reused)

Own(l) == /\ WalksWithAName(l) /\ NothingHandedYet(l) /\ OfThisPodOrEarlier(l)
          /\ WaitsForItsOwn(l) /\ MeasuresItsOwn(l) /\ HandedItsOwn(l)

Owning == Inductive /\ \A l \in Launchers : Own(l)

-----------------------------------------------------------------------------
(* Entries stay: until the pod is replaced, an entry of the list is neither  *)
(* removed nor changed.                                                      *)

LEMMA StoredKeepsEntries ==
  ASSUME Inductive, NEW l \in Launchers, Stored(l)
  PROVE  /\ Entries(seats) \subseteq Entries(seats)'
         /\ Admitted(l, walk[l].rung) \in Entries(seats)'
         /\ Admitted(l, walk[l].rung).name = walk[l].name
         /\ Unique(seats) /\ Unique(seats)'
         /\ NamesIn(seats)' = NamesIn(seats) \cup {walk[l].name}
<1> DEFINE s == Admitted(l, walk[l].rung)
<1>1. walk[l].rung \in Rung
  BY DEF Inductive, RungInHand, Stored
<1>2. s \in Seat /\ s.name = walk[l].name
  BY <1>1, SubmittedIsTyped DEF Inductive
<1>3. seats \in Seq(Seat) /\ Unique(seats)
  BY DEF Inductive, TypeOK, NamesUnique, Unique
<1>4. \A e \in Entries(seats) : e.name = walk[l].name => e = s
  BY DEF Stored, NameTaken, Entries
<1> HIDE DEF s
<1>5. seats' = Append(Without(seats, s.name), s)
  BY <1>2 DEF Stored, Spliced, s
<1>6. /\ Entries(seats') = {e \in Entries(seats) : e.name # s.name} \cup {s}
      /\ Unique(seats')
      /\ NamesIn(seats') = NamesIn(seats) \cup {s.name}
  BY <1>2, <1>3, <1>5, SpliceKeepsNamesUnique
<1> QED
  BY <1>2, <1>3, <1>4, <1>6 DEF s

LEMMA EarlierIsEnough ==
  ASSUME NEW l, NEW n, NEW reused, Acceptable(l, n, reused),
         Entries(seats) \subseteq Entries(seats)'
  PROVE  Acceptable(l, n, reused)'
BY DEF Acceptable

(* A launcher that does nothing itself keeps what it holds. *)
LEMMA BystanderKeepsOwn ==
  ASSUME Inductive, NEW l \in Launchers, Own(l),
         pc'[l] = pc[l], hand'[l] = hand[l], session'[l] = session[l],
         walk'[l].name = walk[l].name, walk'[l].podAt = walk[l].podAt,
         \/ incarnation' = incarnation /\ Entries(seats) \subseteq Entries(seats)'
         \/ incarnation' = incarnation + 1
  PROVE  Own(l)'
<1>1. /\ incarnation \in Nat
      /\ walk[l].podAt \in Nat /\ hand[l].podAt \in Nat /\ session[l].podAt \in Nat
  BY DEF Inductive, TypeOK, Walk, Hand, Session
<1>2. WalksWithAName(l)' /\ NothingHandedYet(l)'
  BY DEF Own, WalksWithAName, NothingHandedYet
<1>3. OfThisPodOrEarlier(l)'
  BY <1>1 DEF Own, OfThisPodOrEarlier
<1>4. CASE incarnation' = incarnation /\ Entries(seats) \subseteq Entries(seats)'
  <2>1. WaitsForItsOwn(l)' /\ MeasuresItsOwn(l)' /\ HandedItsOwn(l)'
    BY <1>4, EarlierIsEnough
       DEF Own, WaitsForItsOwn, MeasuresItsOwn, HandedItsOwn, Handed, Acceptable
  <2> QED
    BY <1>2, <1>3, <2>1 DEF Own
<1>5. CASE incarnation' = incarnation + 1
  <2>1. /\ walk'[l].podAt # incarnation'
        /\ hand'[l].podAt # incarnation'
        /\ session'[l].podAt # incarnation'
    BY <1>1, <1>5 DEF Own, OfThisPodOrEarlier
  <2>2. WaitsForItsOwn(l)' /\ MeasuresItsOwn(l)' /\ HandedItsOwn(l)'
    BY <2>1 DEF Own, WaitsForItsOwn, MeasuresItsOwn, HandedItsOwn, Handed
  <2> QED
    BY <1>2, <1>3, <2>2 DEF Own
<1> QED
  BY <1>4, <1>5

(* Every other launcher keeps what it holds when one takes a step. *)
LEMMA OthersKeepOwn ==
  ASSUME Owning, NEW l \in Launchers, Own(l)',
         incarnation' = incarnation, Entries(seats) \subseteq Entries(seats)',
         \A m \in Launchers \ {l} :
           /\ pc'[m] = pc[m] /\ hand'[m] = hand[m] /\ session'[m] = session[m]
           /\ walk'[m].name = walk[m].name /\ walk'[m].podAt = walk[m].podAt
  PROVE  \A m \in Launchers : Own(m)'
BY BystanderKeepsOwn DEF Owning

-----------------------------------------------------------------------------
(* The steps of a launcher. *)

LEMMA FreeNameIsAName ==
  ASSUME Inductive
  PROVE  NextContainerName(seats) \in Nat \ {0}
BY NextNameIsFree DEF Inductive, TypeOK

LEMMA ExistingIsAcceptable ==
  ASSUME Inductive, NEW l \in Launchers, NEW s \in Existing(l)
  PROVE  /\ s.name \in Nat
         /\ s.name # Sidecar => Acceptable(l, s.name, TRUE)
<1> DEFINE offered == RunningSeat(pod, seats, Up, WantedIds(l), Owner[l])
<1>1. s.name \in Nat
  BY ExistingIsTyped DEF Inductive, Seat
<1>2. CASE s \in pod.sidecar
  BY <1>1, <1>2, InputAssumption DEF Inductive, TypeOK, Sidecar
<1>3. CASE \E n \in offered : s = SeatNamed(seats, n)
  <2>1. PICK n \in offered : s = SeatNamed(seats, n)
    BY <1>3
  <2>2. PICK e \in Entries(seats) : e.name = n /\ ~OwnedByAnother(e.owner, Owner[l])
    BY <2>1, RunningSeatRuns
  <2>3. s = e
    BY <2>1, <2>2, SeatNamedIsTheEntry DEF Inductive, NamesUnique, Unique
  <2> QED
    BY <1>1, <2>2, <2>3 DEF Acceptable
<1> QED
  BY <1>2, <1>3 DEF Existing

LEMMA EndedIsOwn ==
  ASSUME Inductive, NEW l \in Launchers,
         pc'[l] = "idle", walk'[l].podAt \in {0, walk[l].podAt}, hand'[l].podAt \in {0, hand[l].podAt},
         session'[l].outcome = "failed", session'[l].podAt = 0,
         OfThisPodOrEarlier(l), incarnation' = incarnation
  PROVE  Own(l)'
BY DEF Inductive, TypeOK, Own, WalksWithAName, NothingHandedYet, OfThisPodOrEarlier,
       WaitsForItsOwn, MeasuresItsOwn, HandedItsOwn, Handed

LEMMA RaiseKeepsOwn ==
  ASSUME Inductive, NEW l \in Launchers, Own(l), Raise(l), incarnation' = incarnation
  PROVE  Own(l)'
<1>1. /\ pc'[l] = "idle" /\ walk'[l] = NoWalk /\ hand'[l] = NoHand
      /\ session'[l] = [NoSession EXCEPT !.outcome = "failed", !.corrected = Correcting(l)]
  BY DEF Raise, Return, Goto, Inductive, TypeOK
<1>2. /\ walk'[l].podAt = 0 /\ hand'[l].podAt = 0
      /\ session'[l].outcome = "failed" /\ session'[l].podAt = 0
  BY <1>1 DEF NoWalk, NoHand, NoSession
<1> QED
  BY <1>1, <1>2, EndedIsOwn DEF Own

LEMMA BeginKeepsOwn ==
  ASSUME Inductive, NEW l \in Launchers, NEW r \in Requests, Own(l), Begin(l, r)
  PROVE  Own(l)'
<1>1. /\ pc'[l] = "read" /\ walk'[l] = walk[l] /\ hand'[l] = hand[l]
      /\ session'[l] = NoSession /\ incarnation' = incarnation /\ incarnation \in Nat
  BY DEF Begin, Goto, Inductive, TypeOK
<1> QED
  BY <1>1 DEF Own, WalksWithAName, NothingHandedYet, OfThisPodOrEarlier, WaitsForItsOwn,
              MeasuresItsOwn, HandedItsOwn, Handed, NoSession

LEMMA ReconnectKeepsOwn ==
  ASSUME Inductive, NEW l \in Launchers, Own(l), Reconnect(l)
  PROVE  Own(l)'
<1>1. PICK s \in Existing(l) :
        hand' = [hand EXCEPT ![l] = [name |-> s.name, reused |-> TRUE,
                                     rung |-> RungOfSpec(s.ctx), podAt |-> incarnation]]
  BY DEF Reconnect
<1>2. /\ pc[l] = "read" /\ pc'[l] = "measure" /\ walk' = walk /\ session' = session
      /\ hand'[l].name = s.name /\ hand'[l].reused = TRUE /\ hand'[l].podAt = incarnation
      /\ incarnation' = incarnation /\ incarnation \in Nat /\ seats' = seats
  BY <1>1 DEF Reconnect, Goto, Inductive, TypeOK
<1>3. MeasuresItsOwn(l)'
  BY <1>2, ExistingIsAcceptable DEF MeasuresItsOwn, Acceptable
<1>4. HandedItsOwn(l)' /\ NothingHandedYet(l)'
  BY <1>2 DEF Own, HandedItsOwn, Handed, NothingHandedYet, NoSession
<1> QED
  BY <1>2, <1>3, <1>4 DEF Own, WalksWithAName, OfThisPodOrEarlier, WaitsForItsOwn

(* A step within the walk: nothing is waited for, measured or handed over. *)
LEMMA WalkingKeepsOwn ==
  ASSUME Inductive, NEW l \in Launchers, Own(l), pc[l] # "idle",
         pc'[l] \in {"try", "get", "put"}, walk'[l].name \in Nat \ {0},
         walk'[l].podAt \in {0, walk[l].podAt},
         UNCHANGED <<hand, session, incarnation>>
  PROVE  Own(l)'
<1>1. incarnation \in Nat
  BY DEF Inductive, TypeOK
<1>2. HandedItsOwn(l)' /\ NothingHandedYet(l)'
  BY DEF Own, HandedItsOwn, Handed, NothingHandedYet, NoSession
<1>3. OfThisPodOrEarlier(l)'
  BY <1>1 DEF Own, OfThisPodOrEarlier
<1>4. WalksWithAName(l)' /\ WaitsForItsOwn(l)' /\ MeasuresItsOwn(l)'
  BY DEF WalksWithAName, WaitsForItsOwn, MeasuresItsOwn
<1> QED
  BY <1>2, <1>3, <1>4 DEF Own

LEMMA StartWalkKeepsOwn ==
  ASSUME Inductive, NEW l \in Launchers, Own(l), StartWalk(l)
  PROVE  Own(l)'
<1>1. /\ pc[l] = "read" /\ pc'[l] = "try"
      /\ walk'[l].name = NextContainerName(seats) /\ walk'[l].podAt = 0
  BY DEF StartWalk, Goto, NoWalk, Inductive, TypeOK
<1> QED
  BY <1>1, FreeNameIsAName, WalkingKeepsOwn DEF StartWalk

LEMMA TryRungKeepsOwn ==
  ASSUME Inductive, NEW l \in Launchers, Own(l), TryRung(l)
  PROVE  Own(l)'
<1> DEFINE rung == NextRung(walk[l].todo, walk[l].degradedFirst)
<1>1. \/ Drop(l, rung) /\ UNCHANGED pc
      \/ Take(l, rung) /\ Goto(l, "get")
  BY DEF TryRung
<1>2. pc[l] = "try" /\ pc'[l] \in {"try", "get"}
  BY <1>1 DEF TryRung, Goto, Inductive, TypeOK
<1>3. walk'[l].name = walk[l].name /\ walk'[l].podAt = walk[l].podAt
  <2>1. walk \in [Launchers -> Walk] /\ walk[l] \in Walk
    BY WalkIsTyped
  <2>2. CASE Drop(l, rung)
    BY <2>1, <2>2 DEF Drop, Walk
  <2>3. CASE Take(l, rung)
    BY <2>1, <2>3 DEF Take, Walk
  <2> QED
    BY <1>1, <2>2, <2>3
<1> QED
  BY <1>2, <1>3, WalkingKeepsOwn DEF TryRung, Own, WalksWithAName

LEMMA GetSubresourceKeepsOwn ==
  ASSUME Inductive, NEW l \in Launchers, Own(l), GetSubresource(l)
  PROVE  Own(l)'
<1>1. /\ pc[l] = "get" /\ pc'[l] = "put"
      /\ walk'[l].name = walk[l].name /\ walk'[l].podAt = walk[l].podAt
  BY DEF GetSubresource, Goto, Inductive, TypeOK, Walk
<1> QED
  BY <1>1, WalkingKeepsOwn DEF GetSubresource, Own, WalksWithAName

LEMMA PutConflictsKeepsOwn ==
  ASSUME Inductive, NEW l \in Launchers, Own(l), PutConflicts(l)
  PROVE  Own(l)'
<1>1. CASE Goto(l, "get") /\ UNCHANGED <<walk, hand, session>>
  <2>1. pc[l] = "put" /\ pc'[l] = "get" /\ walk'[l] = walk[l]
    BY <1>1 DEF PutConflicts, Goto, Inductive, TypeOK
  <2> QED
    BY <1>1, <2>1, WalkingKeepsOwn DEF PutConflicts, Own, WalksWithAName
<1>2. CASE Raise(l)
  BY <1>2, RaiseKeepsOwn DEF PutConflicts
<1> QED
  BY <1>1, <1>2 DEF PutConflicts

LEMMA PutDeniedKeepsOwn ==
  ASSUME Inductive, NEW l \in Launchers, Own(l), PutDenied(l)
  PROVE  Own(l)'
<1>1. /\ pc[l] = "put" /\ pc'[l] = "try"
      /\ walk'[l].name = walk[l].name /\ walk'[l].podAt = walk[l].podAt
  BY DEF PutDenied, Drop, Goto, Inductive, TypeOK, Walk
<1> QED
  BY <1>1, WalkingKeepsOwn DEF PutDenied, Own, WalksWithAName

LEMMA PutAcceptedKeepsOwn ==
  ASSUME Inductive, NEW l \in Launchers, Own(l), PutAccepted(l)
  PROVE  Own(l)'
<1>1. /\ walk'[l].name = walk[l].name /\ walk'[l].podAt = incarnation
  BY WalkIsTyped DEF PutAccepted, Moved, Walk
<1>2. /\ pc[l] = "put" /\ pc'[l] = "wait" /\ incarnation' = incarnation /\ incarnation \in Nat
      /\ hand' = hand /\ session' = session
  BY DEF PutAccepted, Stored, Goto, Inductive, TypeOK
<1>3. Acceptable(l, walk[l].name, FALSE)'
  <2> DEFINE s == Admitted(l, walk[l].rung)
  <2>1. s \in Entries(seats)' /\ s.name = walk[l].name
    BY StoredKeepsEntries DEF PutAccepted
  <2>2. s.owner = Owner[l] /\ s.key = Key[l]
    BY DEF Admitted, Authored
  <2> HIDE DEF s
  <2>3. \E e \in Entries(seats)' : /\ e.name = walk[l].name
                                   /\ ~OwnedByAnother(e.owner, Owner[l])
                                   /\ e.owner = Owner[l] /\ e.key = Key[l]
    BY <2>1, <2>2 DEF OwnedByAnother
  <2>4. walk[l].name = walk'[l].name
    BY <1>1
  <2> QED
    BY <2>3, <2>4, <1>1 DEF Acceptable
<1>4. WalksWithAName(l)' /\ OfThisPodOrEarlier(l)'
  BY <1>1, <1>2 DEF Own, WalksWithAName, OfThisPodOrEarlier
<1>5. WaitsForItsOwn(l)' /\ MeasuresItsOwn(l)'
  BY <1>2, <1>3 DEF WaitsForItsOwn, MeasuresItsOwn
<1>6. HandedItsOwn(l)' /\ NothingHandedYet(l)'
  BY <1>2 DEF Own, HandedItsOwn, Handed, NothingHandedYet, NoSession
<1> QED
  BY <1>4, <1>5, <1>6 DEF Own

LEMMA PutLostKeepsOwn ==
  ASSUME Inductive, NEW l \in Launchers, Own(l), PutLost(l)
  PROVE  Own(l)'
<1>1. /\ pc'[l] = "idle" /\ walk'[l] = NoWalk /\ hand' = hand /\ incarnation' = incarnation
      /\ session'[l] = [NoSession EXCEPT !.outcome = "failed", !.corrected = Correcting(l)]
  BY DEF PutLost, Moved, Inductive, TypeOK
<1>2. /\ walk'[l].podAt = 0 /\ session'[l].outcome = "failed" /\ session'[l].podAt = 0
  BY <1>1 DEF NoWalk, NoSession
<1> QED
  BY <1>1, <1>2, EndedIsOwn DEF Own

LEMMA WaitRunningKeepsOwn ==
  ASSUME Inductive, NEW l \in Launchers, Own(l), WaitRunning(l)
  PROVE  Own(l)'
<1>1. /\ pc[l] = "wait" /\ pc'[l] = "measure" /\ incarnation' = incarnation /\ seats' = seats
      /\ walk'[l].podAt = 0 /\ session' = session /\ incarnation \in Nat
      /\ hand'[l].name = walk[l].name /\ hand'[l].reused = FALSE
      /\ hand'[l].podAt = walk[l].podAt
  BY DEF WaitRunning, Goto, NoWalk, Inductive, TypeOK
<1>2. walk[l].name \in Nat /\ walk[l].podAt <= incarnation
  BY <1>1 DEF Own, WalksWithAName, OfThisPodOrEarlier
<1>3. MeasuresItsOwn(l)'
  BY <1>1, <1>2 DEF Own, MeasuresItsOwn, WaitsForItsOwn, Acceptable
<1>4. OfThisPodOrEarlier(l)'
  BY <1>1, <1>2 DEF Own, OfThisPodOrEarlier
<1>5. HandedItsOwn(l)' /\ NothingHandedYet(l)'
  BY <1>1 DEF Own, HandedItsOwn, Handed, NothingHandedYet, NoSession
<1> QED
  BY <1>1, <1>3, <1>4, <1>5 DEF Own, WalksWithAName, WaitsForItsOwn

LEMMA WaitRefusedKeepsOwn ==
  ASSUME Inductive, NEW l \in Launchers, Own(l), WaitRefused(l)
  PROVE  Own(l)'
<1>1. /\ pc[l] = "wait" /\ pc'[l] = "try"
      /\ walk'[l].name = NextContainerName(seats) /\ walk'[l].podAt = walk[l].podAt
  BY DEF WaitRefused, Goto, Inductive, TypeOK, Walk
<1> QED
  BY <1>1, FreeNameIsAName, WalkingKeepsOwn DEF WaitRefused

LEMMA HandOverKeepsOwn ==
  ASSUME Inductive, NEW l \in Launchers, Own(l), NEW measured, NEW reported,
         HandOver(l, measured, reported),
         pc[l] = "measure", UNCHANGED <<seats, incarnation>>
  PROVE  Own(l)'
<1>1. /\ pc'[l] = "idle" /\ walk'[l].podAt = 0 /\ hand'[l].podAt = 0 /\ incarnation \in Nat
      /\ session'[l].name = hand[l].name /\ session'[l].reused = hand[l].reused
      /\ session'[l].podAt = hand[l].podAt
  BY DEF HandOver, Return, Goto, NoWalk, NoHand, Inductive, TypeOK
<1>2. HandedItsOwn(l)'
  BY <1>1 DEF Own, MeasuresItsOwn, HandedItsOwn, Handed, Acceptable
<1>3. OfThisPodOrEarlier(l)'
  BY <1>1 DEF Own, OfThisPodOrEarlier
<1> QED
  BY <1>1, <1>2, <1>3 DEF Own, WalksWithAName, NothingHandedYet, WaitsForItsOwn, MeasuresItsOwn

LEMMA CorrectKeepsOwn ==
  ASSUME Inductive, NEW l \in Launchers, Own(l), Correct(l)
  PROVE  Own(l)'
<1>1. /\ pc[l] = "measure" /\ pc'[l] = "read" /\ hand'[l].podAt = 0 /\ walk' = walk
      /\ session' = session /\ incarnation' = incarnation /\ incarnation \in Nat
  BY DEF Correct, Goto, NoHand, Inductive, TypeOK
<1>2. HandedItsOwn(l)' /\ NothingHandedYet(l)'
  BY <1>1 DEF Own, HandedItsOwn, Handed, NothingHandedYet, NoSession
<1> QED
  BY <1>1, <1>2 DEF Own, WalksWithAName, OfThisPodOrEarlier, WaitsForItsOwn, MeasuresItsOwn

(* One launcher's step leaves the variables of the others alone. *)
LEMMA OthersAreBystanders ==
  ASSUME Inductive, NEW l \in Launchers, Launch(l) \/ Step(l) \/ PutLost(l) \/ CallFails(l),
         NEW m \in Launchers, m # l
  PROVE  /\ pc'[m] = pc[m] /\ hand'[m] = hand[m] /\ session'[m] = session[m]
         /\ walk'[m].name = walk[m].name /\ walk'[m].podAt = walk[m].podAt
         /\ walk'[m].todo = walk[m].todo /\ walk'[m].rung = walk[m].rung
<1>a. /\ walk \in [Launchers -> Walk]
      /\ Moved[m].name = walk[m].name /\ Moved[m].podAt = walk[m].podAt
      /\ Moved[m].todo = walk[m].todo /\ Moved[m].rung = walk[m].rung
  BY WalkIsTyped DEF Moved, Walk
<1>b. /\ pc \in [Launchers -> Call] /\ hand \in [Launchers -> Hand]
      /\ session \in [Launchers -> Session]
  BY DEF Inductive, TypeOK
<1>1. CASE Launch(l)
  BY <1>1, <1>b DEF Launch, Begin, Goto
<1>2. ASSUME NEW result, Return(l, result)
      PROVE  pc'[m] = pc[m] /\ hand'[m] = hand[m] /\ session'[m] = session[m] /\ walk'[m] = walk[m]
  BY <1>2, <1>a, <1>b DEF Return, Goto
<1>3. CASE NoRungAdmitted(l) \/ PutInvalid(l) \/ WaitTimesOut(l) \/ CallFails(l)
  BY <1>2, <1>3 DEF NoRungAdmitted, PutInvalid, WaitTimesOut, CallFails, Raise
<1>4. CASE Probed(l) \/ Unprobed(l)
  BY <1>2, <1>4 DEF Probed, Unprobed, HandOver
<1>5. CASE Reconnect(l) \/ StartWalk(l) \/ GetSubresource(l) \/ WaitRunning(l)
           \/ WaitRefused(l) \/ Correct(l)
  BY <1>5, <1>a, <1>b
     DEF Reconnect, StartWalk, GetSubresource, WaitRunning, WaitRefused, Correct, Goto
<1>6. CASE TryRung(l) \/ PutDenied(l)
  BY <1>6, <1>a, <1>b DEF TryRung, PutDenied, Take, Drop, Goto
<1>7. CASE PutConflicts(l)
  BY <1>2, <1>7, <1>b DEF PutConflicts, Raise, Goto
<1>8. CASE PutAccepted(l) \/ PutLost(l)
  <2>1. Moved \in [Launchers -> Walk]
    BY MovedIsTyped DEF Inductive
  <2>2. walk'[m] = Moved[m]
    BY <1>8, <2>1 DEF PutAccepted, PutLost
  <2> QED
    BY <1>8, <1>a, <1>b, <2>2 DEF PutAccepted, PutLost, Goto
<1> QED
  BY <1>1, <1>3, <1>4, <1>5, <1>6, <1>7, <1>8 DEF Step

(* Only a stored PUT touches the list, and it keeps every entry. *)
LEMMA LauncherKeepsEntries ==
  ASSUME Inductive, NEW l \in Launchers, Launch(l) \/ Step(l) \/ PutLost(l) \/ CallFails(l)
  PROVE  incarnation' = incarnation /\ Entries(seats) \subseteq Entries(seats)'
<1>1. CASE Stored(l)
  BY <1>1, StoredKeepsEntries
     DEF Launch, Begin, Step, PutLost, CallFails, Reconnect, StartWalk, TryRung, NoRungAdmitted,
         GetSubresource, PutConflicts, PutInvalid, PutDenied, PutAccepted, WaitRunning,
         WaitRefused, WaitTimesOut, Probed, Unprobed, Correct
<1>2. CASE ~Stored(l)
  BY <1>2
     DEF Launch, Begin, Step, PutLost, CallFails, Reconnect, StartWalk, TryRung, NoRungAdmitted,
         GetSubresource, PutConflicts, PutInvalid, PutDenied, PutAccepted, WaitRunning,
         WaitRefused, WaitTimesOut, Probed, Unprobed, Correct, Entries
<1> QED
  BY <1>1, <1>2

LEMMA LauncherKeepsOwn ==
  ASSUME Owning, NEW l \in Launchers, Launch(l) \/ Step(l) \/ PutLost(l) \/ CallFails(l)
  PROVE  \A m \in Launchers : Own(m)'
<1>1. Inductive /\ Own(l) /\ incarnation' = incarnation
  BY LauncherKeepsEntries DEF Owning
<1>2. Launch(l) => Own(l)'
  BY <1>1, BeginKeepsOwn DEF Launch
<1>3. NoRungAdmitted(l) \/ PutInvalid(l) \/ WaitTimesOut(l) \/ CallFails(l) => Own(l)'
  BY <1>1, RaiseKeepsOwn DEF NoRungAdmitted, PutInvalid, WaitTimesOut, CallFails
<1>4. Probed(l) \/ Unprobed(l) => Own(l)'
  BY <1>1, HandOverKeepsOwn DEF Probed, Unprobed
<1>5. Own(l)'
  BY <1>1, <1>2, <1>3, <1>4, ReconnectKeepsOwn, StartWalkKeepsOwn, TryRungKeepsOwn,
     GetSubresourceKeepsOwn, PutConflictsKeepsOwn, PutDeniedKeepsOwn, PutAcceptedKeepsOwn,
     PutLostKeepsOwn, WaitRunningKeepsOwn, WaitRefusedKeepsOwn, CorrectKeepsOwn
     DEF Step
<1> QED
  BY <1>1, <1>5, OthersAreBystanders, LauncherKeepsEntries, BystanderKeepsOwn DEF Owning

(* The node and the other writers. *)
LEMMA EnvironmentKeepsOwn ==
  ASSUME Owning, Node \/ OtherWrite \/ PodReplaced
  PROVE  \A m \in Launchers : Own(m)'
<1> SUFFICES ASSUME NEW m \in Launchers
             PROVE  Own(m)'
  OBVIOUS
<1>1. /\ pc' = pc /\ hand' = hand /\ session' = session /\ walk' = Moved
      /\ \/ incarnation' = incarnation /\ seats' = seats
         \/ incarnation' = incarnation + 1
  BY DEF Node, KubeletStarts, KubeletRefusesIt, SeatExits, Report, OtherWrite, PodReplaced
<1>2. Moved[m].name = walk[m].name /\ Moved[m].podAt = walk[m].podAt
  BY WalkIsTyped DEF Moved, Walk, Owning
<1>3. /\ walk'[m].name = walk[m].name /\ walk'[m].podAt = walk[m].podAt
      /\ seats' = seats => Entries(seats) \subseteq Entries(seats)'
  BY <1>1, <1>2 DEF Entries
<1> QED
  BY <1>1, <1>3, BystanderKeepsOwn DEF Owning

-----------------------------------------------------------------------------
(* The theorems. *)

(* What each launcher walks with, waits for, measures and holds is a seat it *)
(* may hand over, at every call it makes.                                    *)
THEOREM OwningAlways == Spec => []Owning
<1>1. Init => Owning
  <2> SUFFICES ASSUME Init
               PROVE  \A l \in Launchers : Own(l)
    BY InitEstablishesInductive DEF Owning
  <2> QED
    BY DEF Init, Own, WalksWithAName, NothingHandedYet, OfThisPodOrEarlier, WaitsForItsOwn,
           MeasuresItsOwn, HandedItsOwn, Handed, NoWalk, NoHand, NoSession
<1>2. Owning /\ [Next]_vars => Owning'
  <2> SUFFICES ASSUME Owning, [Next]_vars
               PROVE  \A l \in Launchers : Own(l)'
    BY NextKeepsInductive DEF Owning
  <2>1. CASE UNCHANGED vars
    BY <2>1 DEF vars, Owning, Own, WalksWithAName, NothingHandedYet, OfThisPodOrEarlier,
                WaitsForItsOwn, MeasuresItsOwn, HandedItsOwn, Handed, Acceptable, Entries
  <2> QED
    BY <2>1, LauncherKeepsOwn, EnvironmentKeepsOwn DEF Next
<1> QED
  BY <1>1, <1>2, PTL DEF Spec

(* The seat an attach hands over is never provably somebody else's, and one  *)
(* it says it landed is the container it authored, however many launchers    *)
(* race for a name, however stale their reads, and whatever the policy, the  *)
(* node and the other writers do.                                            *)
THEOREM HandedSeatIsAlwaysOwn == Spec => []HandedSeatIsOwn
<1>1. ASSUME Owning
      PROVE  HandedSeatIsOwn
  <2> SUFFICES ASSUME NEW l \in Launchers, Handed(l)
               PROVE  /\ session[l].name \in NamesIn(seats)
                      /\ LET s == SeatNamed(seats, session[l].name) IN
                         /\ ~OwnedByAnother(s.owner, Owner[l])
                         /\ ~session[l].reused => s.owner = Owner[l] /\ s.key = Key[l]
    BY DEF HandedSeatIsOwn
  <2>1. PICK e \in Entries(seats) :
          /\ e.name = session[l].name
          /\ ~OwnedByAnother(e.owner, Owner[l])
          /\ ~session[l].reused => e.owner = Owner[l] /\ e.key = Key[l]
    BY <1>1 DEF Owning, Own, HandedItsOwn, Acceptable
  <2>2. e.name \in NamesIn(seats) /\ SeatNamed(seats, e.name) = e
    BY <1>1, SeatNamedIsTheEntry DEF Owning, Inductive, NamesUnique, Unique
  <2> QED
    BY <2>1, <2>2
<1> QED
  BY <1>1, OwningAlways, PTL

-----------------------------------------------------------------------------
(* The mapping, named. *)

LedgerNow  == [n \in NamesIn(seats) |-> SeatStamp(n)]
BusyNow    == {l \in Launchers : pc[l] # "idle"}
SettledNow == [l \in Launchers |-> Settled(l)]
GivenNow   == [l \in Launchers |-> session[l].name]

(* The steps of the ledger, in these terms. *)
LEMMA MapsToBegin ==
  ASSUME NEW l \in Launchers, l \notin BusyNow, BusyNow' = BusyNow \cup {l},
         GivenNow' = [GivenNow EXCEPT ![l] = NoSeat], UNCHANGED <<LedgerNow, SettledNow>>
  PROVE  Ledger!Next
BY DEF Ledger!Next, Ledger!Begin, Ledger!NoName, NoSeat, BusyNow, GivenNow, LedgerNow, SettledNow

LEMMA MapsToFail ==
  ASSUME NEW l \in Launchers, l \in BusyNow, BusyNow' = BusyNow \ {l},
         SettledNow' = [SettledNow EXCEPT ![l] = NoSeat], UNCHANGED <<LedgerNow, GivenNow>>
  PROVE  Ledger!Next
BY DEF Ledger!Next, Ledger!Fail, Ledger!NoName, NoSeat, BusyNow, GivenNow, LedgerNow, SettledNow

LEMMA MapsToLetGo ==
  ASSUME NEW l \in Launchers, SettledNow' = [SettledNow EXCEPT ![l] = NoSeat],
         UNCHANGED <<LedgerNow, BusyNow, GivenNow>>
  PROVE  Ledger!Next
BY DEF Ledger!Next, Ledger!LetGo, Ledger!NoName, NoSeat, BusyNow, GivenNow, LedgerNow, SettledNow

LEMMA MapsToHandOver ==
  ASSUME NEW l \in Launchers, l \in BusyNow, SettledNow[l] # NoSeat,
         GivenNow' = [GivenNow EXCEPT ![l] = SettledNow[l]],
         SettledNow' = [SettledNow EXCEPT ![l] = NoSeat],
         BusyNow' = BusyNow \ {l}, UNCHANGED LedgerNow
  PROVE  Ledger!Next
BY DEF Ledger!Next, Ledger!HandOver, Ledger!NoName, NoSeat, BusyNow, GivenNow, LedgerNow, SettledNow

LEMMA MapsToAdopt ==
  ASSUME NEW l \in Launchers, NEW n, l \in BusyNow, SettledNow[l] = NoSeat,
         n = Sidecar \/ (n \in DOMAIN LedgerNow /\ ~OwnedByAnother(LedgerNow[n].owner, Owner[l])),
         SettledNow' = [SettledNow EXCEPT ![l] = n], UNCHANGED <<LedgerNow, BusyNow, GivenNow>>
  PROVE  Ledger!Next
<1>1. n \in DOMAIN LedgerNow \cup {Ledger!Sidecar}
  BY DEF Sidecar, Ledger!Sidecar
<1>2. Ledger!Adopt(l, n)
  BY DEF Ledger!Adopt, Ledger!Reuses, Ledger!NoName, Ledger!Sidecar, NoSeat, Sidecar,
         OwnedByAnother, BusyNow, GivenNow, LedgerNow, SettledNow
<1> QED
  BY <1>1, <1>2 DEF Ledger!Next, LedgerNow

LEMMA MapsToLand ==
  ASSUME NEW l \in Launchers, NEW n, l \in BusyNow,
         n \notin DOMAIN LedgerNow, n # Sidecar,
         LedgerNow' = [m \in DOMAIN LedgerNow \cup {n} |->
                         IF m = n THEN [owner |-> Owner[l], key |-> Key[l]] ELSE LedgerNow[m]],
         \/ SettledNow' = [SettledNow EXCEPT ![l] = n] /\ UNCHANGED <<BusyNow, GivenNow>>
         \/ /\ SettledNow' = [SettledNow EXCEPT ![l] = NoSeat]
            /\ BusyNow' = BusyNow \ {l} /\ UNCHANGED GivenNow
  PROVE  Ledger!Next
<1>1. n \in DOMAIN LedgerNow'
  OBVIOUS
<1>2. Ledger!Land(l)
  BY <1>1 DEF Ledger!Land, Ledger!Stamp, Ledger!NoName, Ledger!Sidecar, NoSeat, Sidecar,
              BusyNow, GivenNow, LedgerNow, SettledNow
<1> QED
  BY <1>2 DEF Ledger!Next

LEMMA MapsToNothing ==
  ASSUME UNCHANGED <<LedgerNow, BusyNow, SettledNow, GivenNow>>
  PROVE  UNCHANGED Ledger!vars
BY DEF Ledger!vars, LedgerNow, BusyNow, SettledNow, GivenNow

-----------------------------------------------------------------------------
(* One launcher's step, mapped: the rest of the ledger's state is as it was. *)

LEMMA MappedStep ==
  ASSUME Owning, NEW l \in Launchers, Launch(l) \/ Step(l) \/ PutLost(l) \/ CallFails(l)
  PROVE  /\ SettledNow' = [SettledNow EXCEPT ![l] = Settled(l)']
         /\ GivenNow' = [GivenNow EXCEPT ![l] = session'[l].name]
         /\ pc'[l] = "idle" => BusyNow' = BusyNow \ {l}
         /\ pc'[l] # "idle" => BusyNow' = BusyNow \cup {l}
<1>1. \A m \in Launchers \ {l} :
        /\ pc'[m] = pc[m] /\ session'[m] = session[m] /\ Settled(m)' = Settled(m)
  BY OthersAreBystanders DEF Owning, Settled
<1> QED
  BY <1>1 DEF SettledNow, GivenNow, BusyNow

(* An attach that stays under way and keeps the seat it has settled on. *)
LEMMA QuietStep ==
  ASSUME Owning, NEW l \in Launchers, Step(l), seats' = seats, session' = session,
         pc[l] # "idle", pc'[l] # "idle", Settled(l)' = Settled(l)
  PROVE  UNCHANGED Ledger!vars
<1>1. LedgerNow' = LedgerNow
  BY DEF LedgerNow, SeatStamp
<1>2. SettledNow' = SettledNow /\ GivenNow' = GivenNow /\ BusyNow' = BusyNow
  BY MappedStep DEF SettledNow, GivenNow, BusyNow
<1> QED
  BY <1>1, <1>2, MapsToNothing

LEMMA RaiseMaps ==
  ASSUME Owning, NEW l \in Launchers, Step(l) \/ CallFails(l), Raise(l), pc[l] # "idle",
         seats' = seats
  PROVE  Ledger!Next
<1>1. pc'[l] = "idle" /\ session'[l].name = NoSeat
  BY DEF Raise, Return, Goto, NoSession, Owning, Inductive, TypeOK
<1>2. session[l].name = NoSeat
  BY DEF Owning, Own, NothingHandedYet, NoSession
<1>3. Settled(l)' = NoSeat
  BY <1>1 DEF Settled
<1>4. LedgerNow' = LedgerNow
  BY DEF LedgerNow, SeatStamp
<1>5. GivenNow' = GivenNow
  BY <1>1, <1>2, MappedStep DEF GivenNow
<1>6. l \in BusyNow /\ BusyNow' = BusyNow \ {l} /\ SettledNow' = [SettledNow EXCEPT ![l] = NoSeat]
  BY <1>1, <1>3, MappedStep DEF BusyNow
<1> QED
  BY <1>4, <1>5, <1>6, MapsToFail

LEMMA LaunchMaps ==
  ASSUME Owning, NEW l \in Launchers, Launch(l)
  PROVE  Ledger!Next
<1>1. pc[l] = "idle" /\ pc'[l] = "read" /\ session'[l] = NoSession /\ seats' = seats
  BY DEF Launch, Begin, Goto, Owning, Inductive, TypeOK
<1>2. LedgerNow' = LedgerNow
  BY <1>1 DEF LedgerNow, SeatStamp
<1>3. Settled(l) = NoSeat /\ Settled(l)' = NoSeat
  BY <1>1 DEF Settled
<1>4. SettledNow' = SettledNow
  BY <1>3, MappedStep DEF SettledNow
<1>5. GivenNow' = [GivenNow EXCEPT ![l] = NoSeat]
  BY <1>1, MappedStep DEF NoSession
<1>6. l \notin BusyNow /\ BusyNow' = BusyNow \cup {l}
  BY <1>1, MappedStep DEF BusyNow
<1> QED
  BY <1>2, <1>4, <1>5, <1>6, MapsToBegin

LEMMA ReconnectMaps ==
  ASSUME Owning, NEW l \in Launchers, Reconnect(l)
  PROVE  Ledger!Next
<1>1. PICK s \in Existing(l) :
        hand' = [hand EXCEPT ![l] = [name |-> s.name, reused |-> TRUE,
                                     rung |-> RungOfSpec(s.ctx), podAt |-> incarnation]]
  BY DEF Reconnect
<1>2. /\ pc[l] = "read" /\ pc'[l] = "measure" /\ hand'[l].name = s.name
      /\ session' = session /\ seats' = seats
  BY <1>1 DEF Reconnect, Goto, Owning, Inductive, TypeOK
<1>3. Settled(l) = NoSeat /\ Settled(l)' = s.name
  BY <1>2 DEF Settled
<1>4. s.name = Sidecar \/ (s.name \in DOMAIN LedgerNow /\ ~OwnedByAnother(LedgerNow[s.name].owner, Owner[l]))
  <2> SUFFICES ASSUME s.name # Sidecar
               PROVE  s.name \in DOMAIN LedgerNow /\ ~OwnedByAnother(LedgerNow[s.name].owner, Owner[l])
    OBVIOUS
  <2>1. PICK e \in Entries(seats) : e.name = s.name /\ ~OwnedByAnother(e.owner, Owner[l])
    BY ExistingIsAcceptable DEF Owning, Acceptable
  <2>2. e.name \in NamesIn(seats) /\ SeatNamed(seats, e.name) = e
    BY SeatNamedIsTheEntry DEF Owning, Inductive, NamesUnique, Unique
  <2> QED
    BY <2>1, <2>2 DEF LedgerNow, SeatStamp
<1>5. LedgerNow' = LedgerNow
  BY <1>2 DEF LedgerNow, SeatStamp
<1>6. /\ GivenNow' = GivenNow
      /\ l \in BusyNow /\ BusyNow' = BusyNow
      /\ SettledNow[l] = NoSeat /\ SettledNow' = [SettledNow EXCEPT ![l] = s.name]
  BY <1>2, <1>3, MappedStep DEF GivenNow, BusyNow, SettledNow, Step
<1> QED
  BY <1>4, <1>5, <1>6, MapsToAdopt

LEMMA LetGoMaps ==
  ASSUME Owning, NEW l \in Launchers, WaitRefused(l) \/ Correct(l)
  PROVE  Ledger!Next
<1>1. /\ pc[l] # "idle" /\ pc'[l] \in {"try", "read"} /\ session' = session /\ seats' = seats
  BY DEF WaitRefused, Correct, Goto, Owning, Inductive, TypeOK
<1>2. Settled(l)' = NoSeat
  BY <1>1 DEF Settled
<1>3. LedgerNow' = LedgerNow
  BY <1>1 DEF LedgerNow, SeatStamp
<1>4. /\ GivenNow' = GivenNow /\ BusyNow' = BusyNow
      /\ SettledNow' = [SettledNow EXCEPT ![l] = NoSeat]
  BY <1>1, <1>2, MappedStep DEF GivenNow, BusyNow, Step
<1> QED
  BY <1>3, <1>4, MapsToLetGo

LEMMA HandOverMaps ==
  ASSUME Owning, NEW l \in Launchers, Probed(l) \/ Unprobed(l)
  PROVE  Ledger!Next
<1>1. pc[l] = "measure" /\ seats' = seats /\ \E measured, reported : HandOver(l, measured, reported)
  BY DEF Probed, Unprobed
<1>2. pc'[l] = "idle" /\ session'[l].name = hand[l].name
  BY <1>1 DEF HandOver, Return, Goto, Owning, Inductive, TypeOK
<1>3. hand[l].name \in Nat
  BY <1>1 DEF Owning, Own, MeasuresItsOwn
<1>4. Settled(l) = hand[l].name /\ Settled(l)' = NoSeat
  BY <1>1, <1>2 DEF Settled
<1>5. LedgerNow' = LedgerNow
  BY <1>1 DEF LedgerNow, SeatStamp
<1>6. SettledNow[l] = hand[l].name /\ SettledNow[l] # NoSeat
  BY <1>3, <1>4 DEF SettledNow, NoSeat
<1>7. /\ GivenNow' = [GivenNow EXCEPT ![l] = SettledNow[l]]
      /\ l \in BusyNow /\ BusyNow' = BusyNow \ {l}
      /\ SettledNow' = [SettledNow EXCEPT ![l] = NoSeat]
  BY <1>1, <1>2, <1>4, <1>6, MappedStep DEF BusyNow, Step
<1> QED
  BY <1>5, <1>6, <1>7, MapsToHandOver

(* What a stored PUT does to the ledger. *)
LEMMA StoredStamps ==
  ASSUME Owning, NEW l \in Launchers, Stored(l)
  PROVE  LET n     == walk[l].name
             stamp == [owner |-> Owner[l], key |-> Key[l]]
         IN  /\ n \in NamesIn(seats) => LedgerNow' = LedgerNow /\ LedgerNow[n] = stamp
             /\ n \notin NamesIn(seats) =>
                  LedgerNow' = [m \in DOMAIN LedgerNow \cup {n} |->
                                  IF m = n THEN stamp ELSE LedgerNow[m]]
<1> DEFINE n == walk[l].name
           s == Admitted(l, walk[l].rung)
           stamp == [owner |-> Owner[l], key |-> Key[l]]
<1>1. /\ Entries(seats) \subseteq Entries(seats')
      /\ s \in Entries(seats') /\ s.name = n
      /\ Unique(seats) /\ Unique(seats')
      /\ NamesIn(seats') = NamesIn(seats) \cup {n}
  BY StoredKeepsEntries DEF Owning, Entries
<1>2. s.owner = Owner[l] /\ s.key = Key[l]
  BY DEF Admitted, Authored
<1> HIDE DEF s
<1>3. SeatNamed(seats', n) = s
  BY <1>1, SeatNamedIsTheEntry
<1>4. ASSUME NEW m \in NamesIn(seats)
      PROVE  SeatNamed(seats', m) = SeatNamed(seats, m)
  <2>1. PICK i \in DOMAIN seats : SeatNamed(seats, m) = seats[i] /\ seats[i].name = m
    BY SeatNamedIsThere
  <2>2. seats[i] \in Entries(seats')
    BY <1>1, <2>1 DEF Entries
  <2> QED
    BY <1>1, <2>1, <2>2, SeatNamedIsTheEntry
<1>5. LedgerNow' = [m \in NamesIn(seats) \cup {n} |->
                      [owner |-> SeatNamed(seats', m).owner, key |-> SeatNamed(seats', m).key]]
  BY <1>1 DEF LedgerNow, SeatStamp
<1>6. LedgerNow = [m \in NamesIn(seats) |->
                      [owner |-> SeatNamed(seats, m).owner, key |-> SeatNamed(seats, m).key]]
  BY DEF LedgerNow, SeatStamp
<1>7. CASE n \in NamesIn(seats)
  <2>1. NamesIn(seats) \cup {n} = NamesIn(seats)
    BY <1>7
  <2>2. LedgerNow' = LedgerNow
    BY <1>4, <1>5, <1>6, <2>1
  <2>3. LedgerNow[n] = stamp
    BY <1>2, <1>3, <1>4, <1>6, <1>7
  <2> QED
    BY <1>7, <2>2, <2>3
<1>8. CASE n \notin NamesIn(seats)
  <2>1. DOMAIN LedgerNow = NamesIn(seats)
    BY <1>6
  <2>2. LedgerNow' = [m \in NamesIn(seats) \cup {n} |-> IF m = n THEN stamp ELSE LedgerNow[m]]
    BY <1>2, <1>3, <1>4, <1>5, <1>6
  <2> QED
    BY <1>8, <2>1, <2>2
<1> QED
  BY <1>7, <1>8

LEMMA PutAcceptedMaps ==
  ASSUME Owning, NEW l \in Launchers, PutAccepted(l)
  PROVE  Ledger!Next
<1> DEFINE n == walk[l].name
<1>1. /\ pc[l] = "put" /\ pc'[l] = "wait" /\ session' = session /\ Stored(l)
      /\ walk'[l].name = n
  <2>1. walk'[l].name = n
    BY WalkIsTyped DEF PutAccepted, Moved, Walk, Owning
  <2> QED
    BY <2>1 DEF PutAccepted, Stored, Goto, Owning, Inductive, TypeOK
<1>2. n # Sidecar
  BY <1>1 DEF Owning, Own, WalksWithAName, Sidecar
<1>3. Settled(l) = NoSeat /\ Settled(l)' = n
  BY <1>1 DEF Settled
<1>4. /\ l \in BusyNow /\ BusyNow' = BusyNow /\ GivenNow' = GivenNow
      /\ SettledNow[l] = NoSeat /\ SettledNow' = [SettledNow EXCEPT ![l] = n]
  BY <1>1, <1>3, MappedStep DEF BusyNow, GivenNow, SettledNow, Step
<1>5. DOMAIN LedgerNow = NamesIn(seats)
  BY DEF LedgerNow
<1> HIDE DEF n
<1>6. CASE n \in NamesIn(seats)
  <2>1. LedgerNow' = LedgerNow /\ LedgerNow[n] = [owner |-> Owner[l], key |-> Key[l]]
    BY <1>1, <1>6, StoredStamps DEF n
  <2>2. LedgerNow[n].owner = Owner[l]
    BY <2>1
  <2> QED
    BY <1>4, <1>5, <1>6, <2>1, <2>2, MapsToAdopt DEF OwnedByAnother
<1>7. CASE n \notin NamesIn(seats)
  <2>1. LedgerNow' = [m \in DOMAIN LedgerNow \cup {n} |->
                        IF m = n THEN [owner |-> Owner[l], key |-> Key[l]] ELSE LedgerNow[m]]
    BY <1>1, <1>7, StoredStamps DEF n
  <2> QED
    BY <1>2, <1>4, <1>5, <1>7, <2>1, MapsToLand
<1> QED
  BY <1>6, <1>7

LEMMA PutLostMaps ==
  ASSUME Owning, NEW l \in Launchers, PutLost(l)
  PROVE  Ledger!Next
<1> DEFINE n == walk[l].name
<1>1. /\ pc[l] = "put" /\ pc'[l] = "idle" /\ session'[l].name = NoSeat /\ Stored(l)
  BY DEF PutLost, Stored, NoSession, Owning, Inductive, TypeOK
<1>2. n # Sidecar
  BY <1>1 DEF Owning, Own, WalksWithAName, Sidecar
<1>3. Settled(l)' = NoSeat /\ session[l].name = NoSeat
  BY <1>1 DEF Settled, Owning, Own, NothingHandedYet, NoSession
<1>4. /\ l \in BusyNow /\ BusyNow' = BusyNow \ {l} /\ GivenNow' = GivenNow
      /\ SettledNow' = [SettledNow EXCEPT ![l] = NoSeat]
  BY <1>1, <1>3, MappedStep DEF BusyNow, GivenNow
<1>5. DOMAIN LedgerNow = NamesIn(seats)
  BY DEF LedgerNow
<1> HIDE DEF n
<1>6. CASE n \in NamesIn(seats)
  <2>1. LedgerNow' = LedgerNow
    BY <1>1, <1>6, StoredStamps DEF n
  <2> QED
    BY <1>4, <2>1, MapsToFail
<1>7. CASE n \notin NamesIn(seats)
  <2>1. LedgerNow' = [m \in DOMAIN LedgerNow \cup {n} |->
                        IF m = n THEN [owner |-> Owner[l], key |-> Key[l]] ELSE LedgerNow[m]]
    BY <1>1, <1>7, StoredStamps DEF n
  <2> QED
    BY <1>2, <1>4, <1>5, <1>7, <2>1, MapsToLand
<1> QED
  BY <1>6, <1>7

-----------------------------------------------------------------------------
(* Every step. *)

LEMMA WalkingIsQuiet ==
  ASSUME Owning, NEW l \in Launchers,
         \/ StartWalk(l) \/ TryRung(l) \/ GetSubresource(l) \/ PutDenied(l)
         \/ PutConflicts(l) /\ ~Raise(l)
         \/ WaitRunning(l)
  PROVE  UNCHANGED Ledger!vars
<1>1. Step(l) /\ seats' = seats /\ session' = session
  BY DEF Step, StartWalk, TryRung, GetSubresource, PutDenied, PutConflicts, WaitRunning
<1>2. pc[l] # "idle" /\ pc'[l] # "idle" /\ Settled(l)' = Settled(l)
  <2>0. pc \in [Launchers -> Call] /\ hand \in [Launchers -> Hand]
    BY DEF Owning, Inductive, TypeOK
  <2>1. CASE StartWalk(l) \/ GetSubresource(l) \/ PutDenied(l) \/ (PutConflicts(l) /\ ~Raise(l))
    BY <2>0, <2>1 DEF StartWalk, GetSubresource, PutDenied, PutConflicts, Goto, Settled
  <2>2. CASE TryRung(l)
    BY <2>0, <2>2 DEF TryRung, Goto, Settled
  <2>3. CASE WaitRunning(l)
    <3>1. pc[l] = "wait" /\ pc'[l] = "measure" /\ hand'[l].name = walk[l].name
      BY <2>0, <2>3 DEF WaitRunning, Goto
    <3> QED
      BY <3>1 DEF Settled
  <2> QED
    BY <2>1, <2>2, <2>3
<1> QED
  BY <1>1, <1>2, QuietStep

LEMMA StepMaps ==
  ASSUME Owning, NEW l \in Launchers, Launch(l) \/ Step(l) \/ PutLost(l) \/ CallFails(l)
  PROVE  Ledger!Next \/ UNCHANGED Ledger!vars
<1>1. NoRungAdmitted(l) \/ PutInvalid(l) \/ WaitTimesOut(l) \/ CallFails(l)
        \/ (PutConflicts(l) /\ Raise(l)) => Ledger!Next
  BY RaiseMaps
     DEF NoRungAdmitted, PutInvalid, WaitTimesOut, CallFails, PutConflicts, Step
<1>2. WaitRefused(l) \/ Correct(l) => Ledger!Next
  BY LetGoMaps
<1>3. Probed(l) \/ Unprobed(l) => Ledger!Next
  BY HandOverMaps
<1> QED
  BY <1>1, <1>2, <1>3, LaunchMaps, ReconnectMaps, PutAcceptedMaps, PutLostMaps, WalkingIsQuiet
     DEF Step

LEMMA EnvironmentMaps ==
  ASSUME Owning, Node \/ OtherWrite \/ PodReplaced
  PROVE  Ledger!Next \/ UNCHANGED Ledger!vars
<1>1. /\ pc' = pc /\ hand' = hand /\ session' = session /\ walk' = Moved
      /\ seats' = seats \/ PodReplaced
  BY DEF Node, KubeletStarts, KubeletRefusesIt, SeatExits, Report, OtherWrite, PodReplaced
<1>2. \A l \in Launchers : Settled(l)' = Settled(l)
  <2> SUFFICES ASSUME NEW l \in Launchers
               PROVE  Settled(l)' = Settled(l)
    OBVIOUS
  <2>1. walk'[l].name = walk[l].name
    BY <1>1, WalkIsTyped DEF Moved, Walk, Owning
  <2> QED
    BY <1>1, <2>1 DEF Settled
<1>3. BusyNow' = BusyNow /\ SettledNow' = SettledNow /\ GivenNow' = GivenNow
  BY <1>1, <1>2 DEF BusyNow, SettledNow, GivenNow
<1>4. CASE seats' = seats
  <2>1. LedgerNow' = LedgerNow
    BY <1>4 DEF LedgerNow, SeatStamp
  <2> QED
    BY <1>3, <2>1, MapsToNothing
<1>5. CASE PodReplaced
  <2>1. NamesIn(seats') = {}
    BY <1>5 DEF PodReplaced, NamesIn
  <2>2. LedgerNow' = <<>>
    BY <2>1 DEF LedgerNow
  <2> QED
    BY <1>3, <2>2
       DEF Ledger!Next, Ledger!PodReplaced, LedgerNow, BusyNow, SettledNow, GivenNow
<1> QED
  BY <1>1, <1>4, <1>5

(* Attach implements the ledger of names, for any number of launchers,       *)
(* attaches and faults: names are taken one at a time, under the taker's own *)
(* stamp and never again; no stamp changes; an attach settles only on a seat *)
(* it landed or may reuse, and hands over the one it settled on.             *)
THEOREM AttachImplementsLedger == Spec => ImplementsLedger
<1>1. Init => Ledger!Init
  <2> SUFFICES ASSUME Init
               PROVE  Ledger!Init
    OBVIOUS
  <2>1. NamesIn(seats) = {}
    BY DEF Init, NamesIn
  <2>2. LedgerNow = <<>>
    BY <2>1 DEF LedgerNow
  <2>3. BusyNow = {} /\ SettledNow = [l \in Launchers |-> NoSeat]
        /\ GivenNow = [l \in Launchers |-> NoSeat]
    BY DEF Init, BusyNow, SettledNow, GivenNow, Settled, NoSession
  <2> QED
    BY <2>2, <2>3
       DEF Ledger!Init, Ledger!NoName, NoSeat, LedgerNow, BusyNow, SettledNow, GivenNow
<1>2. Owning /\ [Next]_vars => [Ledger!Next]_(Ledger!vars)
  <2> SUFFICES ASSUME Owning, [Next]_vars
               PROVE  Ledger!Next \/ UNCHANGED Ledger!vars
    OBVIOUS
  <2>1. CASE UNCHANGED vars
    BY <2>1 DEF vars, Ledger!vars, Settled, SeatStamp
  <2> QED
    BY <2>1, StepMaps, EnvironmentMaps DEF Next
<1> QED
  BY <1>1, <1>2, OwningAlways, PTL DEF Spec, ImplementsLedger, Ledger!Spec

-----------------------------------------------------------------------------
(* The names an attach spends.  Before a walk has stored anything it has     *)
(* spent one less than it may; a correction, made once, allows one more.     *)

Unspent == {"read", "try", "get", "put"}

Allowed(l) == tally[l].refused + (IF Correcting(l) THEN 1 ELSE 0)
                               + (IF pc[l] \in Unspent THEN 0 ELSE 1)

(* An attach that has walked no ladder. *)
Reconnecting(l) ==
  \/ pc[l] = "read" /\ ~Correcting(l)
  \/ pc[l] = "measure" /\ hand[l].reused /\ ~Correcting(l)
  \/ session[l].outcome = "seat" /\ session[l].reused /\ ~session[l].corrected

Counted(l) == /\ Correcting(l) => ~want[l].correct
              /\ tally[l].spent <= Allowed(l)
              /\ Reconnecting(l) => tally[l].spent = 0

LEMMA TallyIsTyped ==
  ASSUME Inductive, NEW l \in Launchers
  PROVE  /\ tally \in [Launchers -> [spent : Nat, refused : Nat]]
         /\ tally[l].spent \in Nat /\ tally[l].refused \in Nat
BY DEF Inductive, TypeOK

(* A step that spends nothing and answers no refusal. *)
LEMMA SpendsNothing ==
  ASSUME Inductive, NEW l \in Launchers, Counted(l),
         want'[l] = want[l], request'[l] = request[l], tally'[l] = tally[l],
         pc'[l] \in Unspent => pc[l] \in Unspent,
         Reconnecting(l)' => Reconnecting(l)
  PROVE  Counted(l)'
BY TallyIsTyped DEF Counted, Allowed, Correcting

LEMMA BeginKeepsCounted ==
  ASSUME Inductive, NEW l \in Launchers, NEW r \in Requests, Begin(l, r)
  PROVE  Counted(l)'
<1>1. /\ want'[l] = r /\ request'[l] = r /\ tally'[l] = NoTally
  BY DEF Begin, Inductive, TypeOK
<1>2. tally'[l].spent = 0 /\ tally'[l].refused = 0
  BY <1>1 DEF NoTally
<1> QED
  BY <1>1, <1>2 DEF Counted, Allowed, Correcting

LEMMA RaiseKeepsCounted ==
  ASSUME Inductive, NEW l \in Launchers, Counted(l), Raise(l),
         UNCHANGED <<want, request, tally>>
  PROVE  Counted(l)'
<1>1. /\ pc'[l] = "idle"
      /\ session'[l] = [NoSession EXCEPT !.outcome = "failed", !.corrected = Correcting(l)]
  BY DEF Raise, Return, Goto, Inductive, TypeOK
<1>2. session'[l].outcome = "failed"
  BY <1>1 DEF NoSession
<1> QED
  BY <1>1, <1>2, SpendsNothing DEF Unspent, Reconnecting

LEMMA ReconnectKeepsCounted ==
  ASSUME Inductive, NEW l \in Launchers, Counted(l), Reconnect(l)
  PROVE  Counted(l)'
<1>1. /\ pc[l] = "read" /\ pc'[l] = "measure" /\ UNCHANGED <<want, request, tally, session>>
  BY DEF Reconnect, Goto, Inductive, TypeOK
<1> QED
  BY <1>1, SpendsNothing DEF Unspent, Reconnecting, Correcting

(* A step from one call of the walk to another, or to the wait or measure    *)
(* after it.                                                                 *)
LEMMA WalkKeepsCounted ==
  ASSUME Inductive, NEW l \in Launchers, Own(l), Counted(l), pc[l] # "idle",
         pc'[l] \in {"try", "get", "put"} /\ pc[l] \in Unspent,
         UNCHANGED <<want, request, tally, session>>
  PROVE  Counted(l)'
<1>1. session'[l].outcome = "none"
  BY DEF Own, NothingHandedYet, NoSession
<1> QED
  BY <1>1, SpendsNothing DEF Unspent, Reconnecting

LEMMA WalkingKeepsCounted ==
  ASSUME Inductive, NEW l \in Launchers, Own(l), Counted(l),
         StartWalk(l) \/ TryRung(l) \/ GetSubresource(l) \/ PutDenied(l)
  PROVE  Counted(l)'
<1>1. UNCHANGED <<want, request, tally, session>>
  BY DEF StartWalk, TryRung, GetSubresource, PutDenied
<1>2. pc'[l] \in {"try", "get", "put"} /\ pc[l] \in Unspent
  BY DEF StartWalk, TryRung, GetSubresource, PutDenied, Goto, Unspent, Inductive, TypeOK
<1> QED
  BY <1>1, <1>2, WalkKeepsCounted DEF Unspent

LEMMA PutConflictsKeepsCounted ==
  ASSUME Inductive, NEW l \in Launchers, Own(l), Counted(l), PutConflicts(l)
  PROVE  Counted(l)'
<1>1. CASE Goto(l, "get") /\ UNCHANGED session
  <2>1. pc[l] = "put" /\ pc'[l] = "get"
    BY <1>1 DEF PutConflicts, Goto, Inductive, TypeOK
  <2> QED
    BY <1>1, <2>1, WalkKeepsCounted DEF PutConflicts, Unspent
<1>2. CASE Raise(l)
  BY <1>2, RaiseKeepsCounted DEF PutConflicts
<1> QED
  BY <1>1, <1>2 DEF PutConflicts

LEMMA StoredKeepsCounted ==
  ASSUME Inductive, NEW l \in Launchers, Own(l), Counted(l), PutAccepted(l) \/ PutLost(l)
  PROVE  Counted(l)'
<1>1. /\ pc[l] = "put" /\ pc'[l] \in {"wait", "idle"}
      /\ UNCHANGED <<want, request>>
  BY DEF PutAccepted, PutLost, Stored, Goto, Inductive, TypeOK
<1>2. session'[l].outcome # "seat"
  <2>1. CASE PutAccepted(l)
    BY <1>1, <2>1 DEF PutAccepted, Own, NothingHandedYet, NoSession
  <2>2. CASE PutLost(l)
    <3>1. session'[l] = [NoSession EXCEPT !.outcome = "failed", !.corrected = Correcting(l)]
      BY <2>2 DEF PutLost, Inductive, TypeOK
    <3> QED
      BY <3>1 DEF NoSession
  <2> QED
    BY <2>1, <2>2
<1>3. ~Reconnecting(l)'
  BY <1>1, <1>2 DEF Reconnecting
<1>4. /\ tally'[l].spent \in {tally[l].spent, tally[l].spent + 1}
      /\ tally'[l].refused = tally[l].refused
  BY TallyIsTyped DEF PutAccepted, PutLost, Stored
<1>5. tally[l].spent <= tally[l].refused + (IF Correcting(l) THEN 1 ELSE 0)
  BY <1>1, TallyIsTyped DEF Counted, Allowed, Unspent
<1>6. tally'[l].spent <= tally'[l].refused + (IF Correcting(l) THEN 1 ELSE 0) + 1
  BY <1>4, <1>5, TallyIsTyped
<1> QED
  BY <1>1, <1>3, <1>6 DEF Counted, Allowed, Unspent, Correcting

LEMMA WaitRunningKeepsCounted ==
  ASSUME Inductive, NEW l \in Launchers, Own(l), Counted(l), WaitRunning(l)
  PROVE  Counted(l)'
<1>1. /\ pc[l] = "wait" /\ pc'[l] = "measure" /\ ~hand'[l].reused
      /\ UNCHANGED <<want, request, tally, session>>
  BY DEF WaitRunning, Goto, Inductive, TypeOK
<1>2. session'[l].outcome = "none"
  BY <1>1 DEF Own, NothingHandedYet, NoSession
<1> QED
  BY <1>1, <1>2, SpendsNothing DEF Unspent, Reconnecting

LEMMA WaitRefusedKeepsCounted ==
  ASSUME Inductive, NEW l \in Launchers, Own(l), Counted(l), WaitRefused(l)
  PROVE  Counted(l)'
<1>1. /\ pc[l] = "wait" /\ pc'[l] = "try"
      /\ UNCHANGED <<want, request, session>>
      /\ tally'[l].spent = tally[l].spent /\ tally'[l].refused = tally[l].refused + 1
  BY TallyIsTyped DEF WaitRefused, Goto, Inductive, TypeOK
<1>2. ~Reconnecting(l)'
  BY <1>1 DEF Reconnecting, Own, NothingHandedYet, NoSession
<1>3. tally[l].spent <= tally[l].refused + (IF Correcting(l) THEN 1 ELSE 0) + 1
  BY <1>1 DEF Counted, Allowed, Unspent
<1>4. tally'[l].spent <= tally'[l].refused + (IF Correcting(l) THEN 1 ELSE 0)
  BY <1>1, <1>3, TallyIsTyped
<1> QED
  BY <1>1, <1>2, <1>4, TallyIsTyped DEF Counted, Allowed, Unspent, Correcting

LEMMA HandOverKeepsCounted ==
  ASSUME Inductive, NEW l \in Launchers, Counted(l), NEW measured, NEW reported,
         HandOver(l, measured, reported), pc[l] = "measure", UNCHANGED <<want, request, tally>>
  PROVE  Counted(l)'
<1>1. /\ pc'[l] = "idle" /\ session'[l].reused = hand[l].reused
      /\ session'[l].corrected = Correcting(l)
  BY DEF HandOver, Return, Goto, Inductive, TypeOK
<1>2. Reconnecting(l)' => Reconnecting(l)
  BY <1>1 DEF Reconnecting
<1> QED
  BY <1>1, <1>2, SpendsNothing DEF Unspent

LEMMA CorrectKeepsCounted ==
  ASSUME Inductive, NEW l \in Launchers, Own(l), Counted(l), Correct(l)
  PROVE  Counted(l)'
<1>1. PICK s \in InHand(l) : /\ Correction(l, s) # NoIds
                             /\ want' = [want EXCEPT ![l] = Corrected(@, Correction(l, s))]
  BY DEF Correct
<1>2. want[l].correct = TRUE /\ want[l] \in Request /\ want \in [Launchers -> Request]
  BY <1>1 DEF Correction, Inductive, TypeOK, Request
<1>3. ~want'[l].correct /\ want'[l] # want[l]
  BY <1>1, <1>2 DEF Corrected, Request
<1>4. want[l] = request[l] /\ UNCHANGED <<request, tally, session>>
  BY <1>2 DEF Counted, Correcting, Correct
<1>5. Correcting(l)'
  BY <1>3, <1>4 DEF Correcting
<1>6. pc[l] = "measure" /\ pc'[l] = "read"
  BY DEF Correct, Goto, Inductive, TypeOK
<1>7. ~Reconnecting(l)'
  BY <1>4, <1>5, <1>6 DEF Reconnecting, Own, NothingHandedYet, NoSession
<1>8. tally[l].spent <= tally[l].refused + 1
  BY <1>4, <1>6, TallyIsTyped DEF Counted, Allowed, Unspent, Correcting
<1>9. tally'[l].spent <= Allowed(l)'
  BY <1>4, <1>5, <1>6, <1>8, TallyIsTyped DEF Allowed, Unspent
<1> QED
  BY <1>3, <1>7, <1>9 DEF Counted

(* One launcher's step leaves the requests and the counts of the others. *)
LEMMA OthersKeepRequests ==
  ASSUME Inductive, NEW l \in Launchers, Launch(l) \/ Step(l) \/ PutLost(l) \/ CallFails(l),
         NEW m \in Launchers, m # l
  PROVE  want'[m] = want[m] /\ request'[m] = request[m] /\ tally'[m] = tally[m]
<1>1. /\ want \in [Launchers -> Request] /\ request \in [Launchers -> Requests]
      /\ tally \in [Launchers -> [spent : Nat, refused : Nat]]
  BY DEF Inductive, TypeOK
<1>2. CASE Launch(l)
  BY <1>1, <1>2 DEF Launch, Begin
<1>3. CASE PutAccepted(l) \/ PutLost(l)
  BY <1>1, <1>3 DEF PutAccepted, PutLost, Stored
<1>4. CASE Correct(l)
  BY <1>1, <1>4 DEF Correct
<1>5. CASE WaitRefused(l)
  BY <1>1, <1>5 DEF WaitRefused
<1> QED
  BY <1>2, <1>3, <1>4, <1>5
     DEF Step, CallFails, Reconnect, StartWalk, TryRung, NoRungAdmitted, GetSubresource,
         PutConflicts, PutInvalid, PutDenied, WaitRunning, WaitTimesOut, Probed, Unprobed

LEMMA LauncherKeepsCounted ==
  ASSUME Owning, NEW l \in Launchers, Counted(l),
         Launch(l) \/ Step(l) \/ PutLost(l) \/ CallFails(l)
  PROVE  Counted(l)'
<1>1. Inductive /\ Own(l)
  BY DEF Owning
<1>2. Launch(l) => Counted(l)'
  BY <1>1, BeginKeepsCounted DEF Launch
<1>3. NoRungAdmitted(l) \/ PutInvalid(l) \/ WaitTimesOut(l) \/ CallFails(l) => Counted(l)'
  BY <1>1, RaiseKeepsCounted DEF NoRungAdmitted, PutInvalid, WaitTimesOut, CallFails
<1>4. Probed(l) \/ Unprobed(l) => Counted(l)'
  BY <1>1, HandOverKeepsCounted DEF Probed, Unprobed
<1> QED
  BY <1>1, <1>2, <1>3, <1>4, ReconnectKeepsCounted, WalkingKeepsCounted,
     PutConflictsKeepsCounted, StoredKeepsCounted, WaitRunningKeepsCounted,
     WaitRefusedKeepsCounted, CorrectKeepsCounted
     DEF Step

LEMMA NextKeepsCounted ==
  ASSUME Owning, \A l \in Launchers : Counted(l), [Next]_vars
  PROVE  \A l \in Launchers : Counted(l)'
<1> SUFFICES ASSUME NEW m \in Launchers
             PROVE  Counted(m)'
  OBVIOUS
<1>1. ASSUME pc'[m] = pc[m], hand'[m] = hand[m], session'[m] = session[m],
             want'[m] = want[m], request'[m] = request[m], tally'[m] = tally[m]
      PROVE  Counted(m)'
  BY <1>1, SpendsNothing DEF Owning, Reconnecting, Correcting
<1>2. CASE UNCHANGED vars \/ Node \/ OtherWrite \/ PodReplaced
  BY <1>1, <1>2
     DEF vars, Node, KubeletStarts, KubeletRefusesIt, SeatExits, Report, OtherWrite, PodReplaced
<1>3. ASSUME NEW l \in Launchers, Launch(l) \/ Step(l) \/ PutLost(l) \/ CallFails(l)
      PROVE  Counted(m)'
  <2>1. CASE m = l
    BY <1>3, <2>1, LauncherKeepsCounted
  <2>2. CASE m # l
    BY <1>1, <1>3, <2>2, OthersAreBystanders, OthersKeepRequests DEF Owning
  <2> QED
    BY <2>1, <2>2
<1> QED
  BY <1>2, <1>3 DEF Next

(* An attach spends one name per pass and one more per refusal by the node,  *)
(* and none when it reconnects straight away, whatever is denied, rehearsed, *)
(* lost or raced for on the way.                                             *)
THEOREM NamesSpentAreAlwaysCounted == Spec => []NamesSpentAreCounted
<1> DEFINE AllCounted == \A l \in Launchers : Counted(l)
<1>1. Init => AllCounted
  BY DEF Init, Counted, Allowed, Reconnecting, Correcting, NoTally, NoSession, Unspent
<1>2. Owning /\ AllCounted /\ [Next]_vars => AllCounted'
  BY NextKeepsCounted
<1>3. Owning /\ AllCounted => NamesSpentAreCounted
  <2> SUFFICES ASSUME Owning, NEW l \in Launchers, Counted(l)
               PROVE  /\ tally[l].spent <= tally[l].refused + (IF Correcting(l) THEN 2 ELSE 1)
                      /\ session[l].outcome = "seat" /\ session[l].reused /\ ~session[l].corrected
                           => tally[l].spent = 0
    BY DEF NamesSpentAreCounted
  <2>1. tally[l].spent \in Nat /\ tally[l].refused \in Nat
    BY TallyIsTyped DEF Owning
  <2> QED
    BY <2>1 DEF Counted, Allowed, Reconnecting
<1> QED
  BY <1>1, <1>2, <1>3, OwningAlways, PTL DEF Spec

-----------------------------------------------------------------------------
(* What a launcher submits.  It walks the ladder its own request allows, the *)
(* rung it is about to store has been rehearsed - or its name is taken, and  *)
(* the API server will refuse it - and a correction asks for a real uid.     *)

TheLadder(l) == RungsToTry(pod, want[l].target, WantedUid(l), want[l].ceiling)

OnTheLadder(l) ==
  /\ pc[l] \in {"try", "get", "put", "wait"} => walk[l].todo \subseteq TheLadder(l)
  /\ pc[l] \in {"get", "put", "wait"} => walk[l].rung \in TheLadder(l)

AsksAsRequested(l) ==
  /\ want[l].ceiling = request[l].ceiling
  /\ plain /\ pc[l] # "idle" => want[l].uid = NoId \/ want[l].uid > 0

RehearsedFirst(l) ==
  calm /\ policy.serves /\ pc[l] \in {"get", "put"} =>
    ~Rehearsed(l, walk[l].rung) \/ NameTaken(l, walk[l].rung)

Walks(l) == OnTheLadder(l) /\ AsksAsRequested(l) /\ RehearsedFirst(l)

(* A seat that can run and be used, as far as a rehearsal could tell. *)
FitSeat(s) ==
  /\ plain /\ s.ctx.uid = 0 /\ pod.workload[s.target].uid > 0 => s.ctx.ptrace
  /\ Foreseeable(s) => pod.nonRoot /\ pod.workload[s.target].nonRoot = "false"

SeatsAreFit == calm /\ policy.serves => \A s \in Entries(seats) : FitSeat(s)

Walking == Owning /\ SeatsAreFit /\ \A l \in Launchers : Walks(l)

(* The ceiling and the label. *)
UnderCeiling(l, n) ==
  request[l].ceiling \in {"degraded", "seat"} =>
    \E e \in Entries(seats) : e.name = n /\ ~e.ctx.ptrace /\ e.ctx.uid # 0

KeepsCeiling(l) ==
  /\ pc[l] = "wait" /\ walk[l].podAt = incarnation => UnderCeiling(l, walk[l].name)
  /\ pc[l] = "measure" /\ hand[l].name # Sidecar /\ hand[l].podAt = incarnation
       => UnderCeiling(l, hand[l].name)
  /\ Handed(l) => UnderCeiling(l, session[l].name)

LabelledTruly(l) ==
  Handed(l) /\ session[l].measured =>
    \E e \in Entries(seats) :
      /\ e.name = session[l].name
      /\ session[l].reported \/ (ByTheManifest(l) /\ e.target = request[l].target)
           => ~LabelOutruns(l, e)

Honest(l) == KeepsCeiling(l) /\ LabelledTruly(l)
AllHonest == \A l \in Launchers : Honest(l)

-----------------------------------------------------------------------------
(* What every step leaves alone. *)

LEMMA SettingStays ==
  ASSUME Inductive, [Next]_vars
  PROVE  /\ pod' = pod /\ policy' = policy
         /\ plain' => plain
         /\ calm' => calm
<1>1. plain \in BOOLEAN /\ calm \in BOOLEAN
  BY DEF Inductive, TypeOK
<1>2. pod' = pod /\ policy' = policy /\ (plain' => plain)
  <2>1. ASSUME NEW l \in Launchers, Step(l) \/ PutLost(l) \/ CallFails(l)
        PROVE  pod' = pod /\ policy' = policy /\ plain' = plain
    BY <2>1
       DEF setting, Step, PutLost, CallFails, Reconnect, StartWalk, TryRung, NoRungAdmitted,
           GetSubresource, PutConflicts, PutInvalid, PutDenied, PutAccepted, WaitRunning,
           WaitRefused, WaitTimesOut, Probed, Unprobed, Correct
  <2>2. ASSUME NEW l \in Launchers, Launch(l)
        PROVE  pod' = pod /\ policy' = policy /\ (plain' => plain)
    BY <1>1, <2>2 DEF Launch, Begin
  <2>3. CASE Node \/ OtherWrite \/ PodReplaced
    BY <2>3 DEF setting, Node, KubeletStarts, KubeletRefusesIt, SeatExits, Report, OtherWrite,
                PodReplaced
  <2> QED
    BY <2>1, <2>2, <2>3 DEF Next, vars
<1>3. calm' => calm
  BY <1>1
     DEF Next, vars, NoFault, Fault, Launch, Begin, Step, PutLost, CallFails, Reconnect,
         StartWalk, TryRung, NoRungAdmitted, GetSubresource, PutConflicts, PutInvalid, PutDenied,
         PutAccepted, WaitRunning, WaitRefused, WaitTimesOut, Probed, Unprobed, Correct,
         Node, KubeletStarts, KubeletRefusesIt, SeatExits, Report, OtherWrite, PodReplaced
<1> QED
  BY <1>2, <1>3

(* A name stays taken: what it would be refused for is there to stay. *)
LEMMA NameStaysTaken ==
  ASSUME NEW l \in Launchers, NameTaken(l, walk[l].rung),
         Entries(seats) \subseteq Entries(seats)',
         walk'[l].name = walk[l].name, walk'[l].rung = walk[l].rung,
         UNCHANGED <<pod, policy>>, want'[l] = want[l]
  PROVE  NameTaken(l, walk[l].rung)'
<1>1. Admitted(l, walk[l].rung)' = Admitted(l, walk[l].rung)
  BY DEF Admitted, Authored, Asked, WantedUid, WantedGid
<1>2. \E e \in Entries(seats) : e.name = walk[l].name /\ e # Admitted(l, walk[l].rung)
  BY DEF NameTaken, Entries
<1>3. \E e \in Entries(seats)' : e.name = walk'[l].name /\ e # Admitted(l, walk[l].rung)'
  BY <1>1, <1>2
<1> QED
  BY <1>3 DEF NameTaken, Entries

LEMMA RehearsalStands ==
  ASSUME NEW l \in Launchers, walk'[l].rung = walk[l].rung,
         UNCHANGED <<pod, policy>>, want'[l] = want[l]
  PROVE  /\ Rehearsed(l, walk[l].rung)' <=> Rehearsed(l, walk[l].rung)
         /\ TheLadder(l)' = TheLadder(l)
BY DEF Rehearsed, Asked, WantedUid, WantedGid, TheLadder

(* A launcher whose walk does not move. *)
LEMMA WalkAtRest ==
  ASSUME Inductive, NEW l \in Launchers, Walks(l), [Next]_vars,
         pc'[l] \in {"get", "put"} => pc[l] \in {"get", "put"},
         pc'[l] \in {"try", "get", "put", "wait"} => pc[l] \in {"try", "get", "put", "wait"},
         pc'[l] \in {"get", "put", "wait"} => pc[l] \in {"get", "put", "wait"},
         pc'[l] # "idle" => pc[l] # "idle",
         pc'[l] \in {"try", "get", "put", "wait"} =>
           walk'[l].name = walk[l].name /\ walk'[l].rung = walk[l].rung
             /\ walk'[l].todo = walk[l].todo,
         want'[l] = want[l], request'[l] = request[l],
         calm' => Entries(seats) \subseteq Entries(seats)'
  PROVE  Walks(l)'
<1>1. UNCHANGED <<pod, policy>> /\ (plain' => plain) /\ (calm' => calm)
  BY SettingStays
<1>2. AsksAsRequested(l)'
  BY <1>1 DEF Walks, AsksAsRequested
<1>3. OnTheLadder(l)'
  BY <1>1, RehearsalStands DEF Walks, OnTheLadder
<1>4. RehearsedFirst(l)'
  <2> SUFFICES ASSUME calm', policy'.serves, pc'[l] \in {"get", "put"}
               PROVE  ~Rehearsed(l, walk[l].rung)' \/ NameTaken(l, walk[l].rung)'
    BY DEF RehearsedFirst
  <2>1. ~Rehearsed(l, walk[l].rung) \/ NameTaken(l, walk[l].rung)
    BY <1>1 DEF Walks, RehearsedFirst
  <2> QED
    BY <1>1, <2>1, RehearsalStands, NameStaysTaken
<1> QED
  BY <1>2, <1>3, <1>4 DEF Walks

-----------------------------------------------------------------------------
(* The steps of a walk. *)

LEMMA BeginKeepsWalks ==
  ASSUME Inductive, NEW l \in Launchers, NEW r \in Requests, Begin(l, r)
  PROVE  Walks(l)'
<1>1. /\ want'[l] = r /\ request'[l] = r /\ pc'[l] = "read" /\ (plain' => Plainly(r))
  BY DEF Begin, Goto, Inductive, TypeOK
<1> QED
  BY <1>1 DEF Walks, OnTheLadder, AsksAsRequested, RehearsedFirst, Plainly

LEMMA CorrectKeepsWalks ==
  ASSUME Inductive, NEW l \in Launchers, Walks(l), Correct(l)
  PROVE  Walks(l)'
<1>1. PICK s \in InHand(l) : /\ Correction(l, s) # NoIds
                             /\ want' = [want EXCEPT ![l] = Corrected(@, Correction(l, s))]
  BY DEF Correct
<1>2. /\ pc[l] = "measure" /\ pc'[l] = "read" /\ request' = request
      /\ want[l] \in Request /\ want \in [Launchers -> Request]
  BY DEF Correct, Goto, Inductive, TypeOK
<1>3. Correction(l, s).uid > 0
  <2>1. Correction(l, s) \in Ids
    BY <1>2, InHandIsTyped, CorrectionIsTyped DEF Inductive
  <2> QED
    BY <1>1, <2>1 DEF Correction, IdCorrection, NoIds, NoId, Ids, Id
<1>4. want'[l].uid = Correction(l, s).uid /\ want'[l].ceiling = want[l].ceiling
  BY <1>1, <1>2 DEF Corrected, Request
<1> QED
  BY <1>2, <1>3, <1>4 DEF Walks, OnTheLadder, AsksAsRequested, RehearsedFirst

(* A walk starts, or goes on at a rung below. *)
LEMMA TryingKeepsWalks ==
  ASSUME Inductive, NEW l \in Launchers, Walks(l), [Next]_vars,
         pc[l] # "idle", pc'[l] = "try",
         want'[l] = want[l], request'[l] = request[l],
         walk'[l].todo \subseteq TheLadder(l)
  PROVE  Walks(l)'
<1>1. UNCHANGED <<pod, policy>> /\ (plain' => plain)
  BY SettingStays
<1>2. TheLadder(l)' = TheLadder(l)
  BY <1>1 DEF TheLadder, WantedUid
<1> QED
  BY <1>1, <1>2 DEF Walks, OnTheLadder, AsksAsRequested, RehearsedFirst

LEMMA TryRungKeepsWalks ==
  ASSUME Inductive, NEW l \in Launchers, Walks(l), TryRung(l), [Next]_vars
  PROVE  Walks(l)'
<1> DEFINE rung == NextRung(walk[l].todo, walk[l].degradedFirst)
<1>1. /\ walk \in [Launchers -> Walk] /\ walk[l] \in Walk /\ pc \in [Launchers -> Call]
      /\ pc[l] = "try" /\ want' = want /\ request' = request /\ seats' = seats
  BY WalkIsTyped DEF TryRung, Inductive, TypeOK
<1>2. UNCHANGED <<pod, policy>> /\ (plain' => plain)
  BY SettingStays
<1>3. rung \in walk[l].todo /\ walk[l].todo \subseteq TheLadder(l)
  BY <1>1, NextRungIsOnTheLadder DEF TryRung, Walk, Walks, OnTheLadder
<1> HIDE DEF rung
<1>4. CASE Drop(l, rung) /\ UNCHANGED pc
  <2>1. pc'[l] = "try" /\ walk'[l].todo \subseteq TheLadder(l)
    BY <1>1, <1>3, <1>4 DEF Drop, Walk
  <2> QED
    BY <1>1, <2>1, TryingKeepsWalks
<1>5. CASE /\ Take(l, rung) /\ Goto(l, "get")
           /\ calm' /\ policy.serves => ~Rehearsed(l, rung) \/ NameTaken(l, rung)
  <2>1. /\ pc'[l] = "get" /\ walk'[l].todo = walk[l].todo /\ walk'[l].rung = rung
        /\ walk'[l].name = walk[l].name
    BY <1>1, <1>5 DEF Take, Goto, Walk
  <2>2. TheLadder(l)' = TheLadder(l)
    BY <1>1, <1>2 DEF TheLadder, WantedUid
  <2>3. OnTheLadder(l)' /\ AsksAsRequested(l)'
    BY <1>1, <1>2, <1>3, <2>1, <2>2 DEF OnTheLadder, AsksAsRequested, Walks
  <2>4. Asked(l, walk[l].rung)' = Asked(l, rung) /\ WantedUid(l)' = WantedUid(l)
    BY <1>1, <1>2, <2>1 DEF Asked, WantedUid, WantedGid
  <2>5. Admitted(l, walk[l].rung)' = Admitted(l, rung)
    BY <1>1, <1>2, <2>1, <2>4 DEF Admitted, Authored
  <2>6. Rehearsed(l, walk[l].rung)' = Rehearsed(l, rung)
    BY <1>2, <2>4 DEF Rehearsed
  <2>7. NameTaken(l, walk[l].rung)' = NameTaken(l, rung)
    BY <1>1, <2>1, <2>5 DEF NameTaken
  <2> QED
    BY <1>2, <1>5, <2>3, <2>6, <2>7 DEF Walks, RehearsedFirst
<1>6. \/ Drop(l, rung) /\ UNCHANGED pc
      \/ /\ Take(l, rung) /\ Goto(l, "get")
         /\ calm' /\ policy.serves => ~Rehearsed(l, rung) \/ NameTaken(l, rung)
  BY DEF TryRung, Answered, Fault, rung
<1> QED
  BY <1>4, <1>5, <1>6

LEMMA PutAcceptedKeepsWalks ==
  ASSUME Inductive, NEW l \in Launchers, Walks(l), PutAccepted(l), [Next]_vars
  PROVE  Walks(l)'
<1>1. /\ pc[l] = "put" /\ pc'[l] = "wait" /\ want' = want /\ request' = request
      /\ walk'[l].todo = walk[l].todo /\ walk'[l].rung = walk[l].rung
  BY WalkIsTyped DEF PutAccepted, Stored, Goto, Moved, Walk, Inductive, TypeOK
<1>2. UNCHANGED <<pod, policy>> /\ (plain' => plain)
  BY SettingStays
<1>3. TheLadder(l)' = TheLadder(l)
  BY <1>1, <1>2 DEF TheLadder, WantedUid
<1> QED
  BY <1>1, <1>2, <1>3 DEF Walks, OnTheLadder, AsksAsRequested, RehearsedFirst

(* A launcher's own step, whichever it is. *)
LEMMA LauncherKeepsWalks ==
  ASSUME Inductive, NEW l \in Launchers, Walks(l), [Next]_vars,
         Launch(l) \/ Step(l) \/ PutLost(l) \/ CallFails(l)
  PROVE  Walks(l)'
<1>t. pc \in [Launchers -> Call] /\ walk \in [Launchers -> Walk] /\ walk[l] \in Walk
  BY WalkIsTyped DEF Inductive, TypeOK
<1>1. ASSUME NEW result, Return(l, result)
      PROVE  pc'[l] = "idle"
  BY <1>1, <1>t DEF Return, Goto
<1>2. ASSUME pc'[l] \in {"idle", "read", "measure"}, pc'[l] # "idle" => pc[l] # "idle",
             UNCHANGED <<want, request>>
      PROVE  Walks(l)'
  BY <1>2, WalkAtRest, SettingStays DEF Walks, OnTheLadder, AsksAsRequested, RehearsedFirst
<1>3. CASE NoRungAdmitted(l) \/ PutInvalid(l) \/ WaitTimesOut(l) \/ CallFails(l)
           \/ Probed(l) \/ Unprobed(l) \/ PutLost(l)
  <2>1. pc'[l] = "idle" /\ UNCHANGED <<want, request>>
    BY <1>1, <1>3, <1>t
       DEF NoRungAdmitted, PutInvalid, WaitTimesOut, CallFails, Probed, Unprobed, PutLost,
           Raise, HandOver, Stored
  <2> QED
    BY <1>2, <2>1
<1>4. CASE Reconnect(l) \/ WaitRunning(l)
  <2>1. pc[l] # "idle" /\ pc'[l] = "measure" /\ UNCHANGED <<want, request>>
    BY <1>4, <1>t DEF Reconnect, WaitRunning, Goto
  <2> QED
    BY <1>2, <2>1
<1>5. CASE StartWalk(l) \/ WaitRefused(l) \/ PutDenied(l)
  <2>1. pc[l] # "idle" /\ pc'[l] = "try" /\ UNCHANGED <<want, request>>
    BY <1>5, <1>t DEF StartWalk, WaitRefused, PutDenied, Goto
  <2>2. walk'[l].todo \subseteq TheLadder(l)
    <3>1. CASE StartWalk(l)
      BY <3>1, <1>t DEF StartWalk, NoWalk, TheLadder
    <3>2. CASE WaitRefused(l) \/ PutDenied(l)
      <4>1. walk'[l].todo = walk[l].todo \ {walk[l].rung}
        <5>1. CASE WaitRefused(l)
          BY <5>1, <1>t DEF WaitRefused, Walk
        <5>2. CASE PutDenied(l)
          BY <5>2, <1>t DEF PutDenied, Drop, Walk
        <5> QED
          BY <3>2, <5>1, <5>2
      <4> QED
        BY <3>2, <4>1 DEF Walks, OnTheLadder, WaitRefused, PutDenied
    <3> QED
      BY <1>5, <3>1, <3>2
  <2> QED
    BY <2>1, <2>2, TryingKeepsWalks
<1>6. CASE GetSubresource(l) \/ (PutConflicts(l) /\ UNCHANGED walk /\ Goto(l, "get"))
  <2>1. /\ pc[l] \in {"get", "put"} /\ pc'[l] \in {"get", "put"}
        /\ UNCHANGED <<want, request, seats>>
        /\ walk'[l].name = walk[l].name /\ walk'[l].rung = walk[l].rung
        /\ walk'[l].todo = walk[l].todo
    <3>1. CASE GetSubresource(l)
      <4>1. /\ pc[l] = "get" /\ pc' = [pc EXCEPT ![l] = "put"]
            /\ walk' = [walk EXCEPT ![l] = [walk[l] EXCEPT !.attempt = @ + 1, !.current = TRUE]]
            /\ UNCHANGED <<want, request, seats>>
        BY <3>1 DEF GetSubresource, Goto, setting
      <4> QED
        BY <4>1, <1>t DEF Walk
    <3>2. CASE PutConflicts(l) /\ UNCHANGED walk /\ Goto(l, "get")
      BY <3>2, <1>t DEF PutConflicts, Goto
    <3> QED
      BY <1>6, <3>1, <3>2
  <2>2. Entries(seats) \subseteq Entries(seats)'
    BY <2>1 DEF Entries
  <2> QED
    BY <2>1, <2>2, WalkAtRest
<1>7. CASE PutConflicts(l) /\ Raise(l)
  BY <1>1, <1>2, <1>7 DEF PutConflicts, Raise
<1> QED
  BY <1>3, <1>4, <1>5, <1>6, <1>7, BeginKeepsWalks, CorrectKeepsWalks, TryRungKeepsWalks,
     PutAcceptedKeepsWalks
     DEF Launch, Step, PutConflicts

(* The other launchers, and everybody else. *)
LEMMA NextKeepsWalks ==
  ASSUME Owning, \A l \in Launchers : Walks(l), [Next]_vars
  PROVE  \A l \in Launchers : Walks(l)'
<1> SUFFICES ASSUME NEW m \in Launchers
             PROVE  Walks(m)'
  OBVIOUS
<1>0. Inductive /\ Walks(m)
  BY DEF Owning
<1>1. ASSUME pc'[m] = pc[m], walk'[m].name = walk[m].name, walk'[m].rung = walk[m].rung,
             walk'[m].todo = walk[m].todo, want'[m] = want[m], request'[m] = request[m],
             calm' => Entries(seats) \subseteq Entries(seats)'
      PROVE  Walks(m)'
  BY <1>0, <1>1, WalkAtRest
<1>2. CASE UNCHANGED vars
  BY <1>1, <1>2 DEF vars, Entries
<1>3. CASE Node \/ OtherWrite \/ PodReplaced
  <2>1. /\ pc' = pc /\ walk' = Moved /\ want' = want /\ request' = request
        /\ seats' = seats \/ ~calm'
    BY <1>3 DEF Node, KubeletStarts, KubeletRefusesIt, SeatExits, Report, OtherWrite,
                PodReplaced, Fault
  <2>2. /\ Moved[m].name = walk[m].name /\ Moved[m].rung = walk[m].rung
        /\ Moved[m].todo = walk[m].todo
    BY <1>0, WalkIsTyped DEF Moved, Walk
  <2>3. calm' => Entries(seats) \subseteq Entries(seats)'
    BY <2>1 DEF Entries
  <2> QED
    BY <1>1, <2>1, <2>2, <2>3
<1>4. ASSUME NEW l \in Launchers, Launch(l) \/ Step(l) \/ PutLost(l) \/ CallFails(l)
      PROVE  Walks(m)'
  <2>1. CASE m = l
    BY <1>0, <1>4, <2>1, LauncherKeepsWalks
  <2>2. CASE m # l
    BY <1>0, <1>1, <1>4, <2>2, OthersAreBystanders, OthersKeepRequests, LauncherKeepsEntries
  <2> QED
    BY <2>1, <2>2
<1> QED
  BY <1>2, <1>3, <1>4 DEF Next

-----------------------------------------------------------------------------
(* The seats a walk stores. *)

(* What a rung that was rehearsed stores: root only at the full rung, with   *)
(* its capability unless the target's uid is not known, and under            *)
(* runAsNonRoot only where the pod asks for it.                              *)
LEMMA RehearsedIsFit ==
  ASSUME Owning, NEW l \in Launchers, Walks(l), pc[l] = "put", calm, policy.serves,
         ~NameTaken(l, walk[l].rung)
  PROVE  FitSeat(Admitted(l, walk[l].rung))
<1> DEFINE rung == walk[l].rung
           asked == Asked(l, rung)
           s == Admitted(l, rung)
<1>1. /\ rung \in TheLadder(l) /\ ~Rehearsed(l, rung)
      /\ plain => want[l].uid = NoId \/ want[l].uid > 0
  BY DEF Walks, OnTheLadder, RehearsedFirst, AsksAsRequested
<1>2. /\ rung \in Rung
      /\ rung = "full" => ~RunsAsNonRoot(pod, want[l].target)
      /\ rung = "degraded" => WantedUid(l) > 0
  BY <1>1 DEF TheLadder, RungsToTry
<1>3. /\ want[l].target \in Workloads /\ pod.workload[want[l].target] \in Facts
      /\ WantedUid(l) \in Id /\ asked \in Context /\ policy \in Policy
  BY <1>2, PodIsTyped, WantedIsTyped, RungContextIsOne, InputAssumption
     DEF Owning, Inductive, Request, Asked, TypeOK
<1>4. s.ctx = Admit(policy, asked) /\ s.target = want[l].target
  BY DEF Admitted, Authored
<1>5. /\ s.ctx.uid = asked.uid
      /\ s.ctx.ptrace = (asked.ptrace /\ ~policy.strip)
      /\ s.ctx.nonRoot = (asked.nonRoot \/ policy.addNonRoot)
  BY <1>3, <1>4 DEF Admit, Context
<1>6. asked.uid = 0 => /\ rung = "full"
                       /\ asked = [uid |-> 0, gid |-> NoId, ptrace |-> TRUE, nonRoot |-> FALSE]
  BY <1>2, <1>3 DEF Asked, RungContext, Rung, Id, NoId
<1>7. ASSUME plain, s.ctx.uid = 0, pod.workload[s.target].uid > 0
      PROVE  s.ctx.ptrace
  <2>1. WantedUid(l) > 0
    BY <1>1, <1>4, <1>7 DEF WantedUid
  <2>2. ~CapabilitiesRemoved(asked, Admit(policy, asked))
    BY <1>1, <2>1 DEF Rehearsed
  <2> QED
    BY <1>4, <1>5, <1>6, <1>7, <2>2 DEF CapabilitiesRemoved
<1>8. ASSUME Foreseeable(s)
      PROVE  pod.nonRoot /\ pod.workload[s.target].nonRoot = "false"
  <2>1. s.ctx.uid = 0 /\ (s.ctx.nonRoot \/ pod.nonRoot)
    BY <1>8 DEF Foreseeable, KubeletRefuses, RunsAsUid
  <2>2. ~AdmissionWedgesTheKubelet(asked, Admit(policy, asked))
    BY <1>1 DEF Rehearsed
  <2>3. ~s.ctx.nonRoot
    BY <1>4, <1>5, <1>6, <2>1, <2>2 DEF AdmissionWedgesTheKubelet, Wedged
  <2>4. ~RunsAsNonRoot(pod, want[l].target) /\ pod.nonRoot
    BY <1>2, <1>5, <1>6, <2>1, <2>3
  <2>5. pod.workload[want[l].target].nonRoot \in {"true", "false", "unstated"}
    BY <1>3 DEF Facts, Stated
  <2> QED
    BY <1>4, <2>4, <2>5 DEF RunsAsNonRoot
<1> QED
  BY <1>7, <1>8 DEF FitSeat

LEMMA NextKeepsSeatsFit ==
  ASSUME Walking, [Next]_vars
  PROVE  SeatsAreFit'
<1> SUFFICES ASSUME calm', policy'.serves, NEW s \in Entries(seats)'
             PROVE  FitSeat(s)'
  BY DEF SeatsAreFit
<1>1. Owning /\ Inductive
  BY DEF Walking, Owning
<1>2. UNCHANGED <<pod, policy>> /\ (plain' => plain) /\ calm
  BY <1>1, SettingStays
<1>3. FitSeat(s) => FitSeat(s)'
  BY <1>2 DEF FitSeat, Foreseeable
<1>4. s \in Entries(seats) => FitSeat(s)
  BY <1>2 DEF Walking, SeatsAreFit
<1>5. ASSUME NEW l \in Launchers, Stored(l)
      PROVE  FitSeat(s)
  <2>1. Entries(seats') = {e \in Entries(seats) : e.name # walk[l].name}
                             \cup {Admitted(l, walk[l].rung)}
    <3>1. walk[l].rung \in Rung
      BY <1>1, <1>5 DEF Inductive, RungInHand, Stored
    <3>2. Admitted(l, walk[l].rung) \in Seat /\ Admitted(l, walk[l].rung).name = walk[l].name
      BY <1>1, <3>1, SubmittedIsTyped DEF Inductive
    <3>3. seats \in Seq(Seat) /\ Unique(seats)
      BY <1>1 DEF Inductive, TypeOK, NamesUnique, Unique
    <3> QED
      BY <1>5, <3>2, <3>3, SpliceKeepsNamesUnique DEF Stored, Spliced
  <2>2. FitSeat(Admitted(l, walk[l].rung))
    BY <1>1, <1>2, <1>5, RehearsedIsFit DEF Walking, Stored
  <2>3. s \in Entries(seats) \/ s = Admitted(l, walk[l].rung)
    BY <2>1 DEF Entries
  <2> QED
    BY <1>4, <2>2, <2>3
<1>6. CASE \A l \in Launchers : ~Stored(l)
  <2>1. seats' = seats \/ seats' = <<>>
    BY <1>6
       DEF Next, vars, Launch, Begin, Step, PutLost, CallFails, Reconnect, StartWalk, TryRung,
           NoRungAdmitted, GetSubresource, PutConflicts, PutInvalid, PutDenied, PutAccepted,
           WaitRunning, WaitRefused, WaitTimesOut, Probed, Unprobed, Correct, Node,
           KubeletStarts, KubeletRefusesIt, SeatExits, Report, OtherWrite, PodReplaced
  <2>2. s \in Entries(seats)
    BY <2>1 DEF Entries
  <2> QED
    BY <1>3, <1>4, <2>2
<1> QED
  BY <1>3, <1>5, <1>6

(* What a walk has still to try, and the container it is about to store, are *)
(* what the rehearsal and the pre-skips left.                                *)
THEOREM WalkingAlways == Spec => []Walking
<1> DEFINE AllFit == SeatsAreFit /\ \A l \in Launchers : Walks(l)
<1>1. Init => AllFit
  BY DEF Init, SeatsAreFit, Entries, Walks, OnTheLadder, AsksAsRequested, RehearsedFirst
<1>2. Owning /\ AllFit /\ [Next]_vars => AllFit'
  BY NextKeepsWalks, NextKeepsSeatsFit DEF Walking
<1>3. Walking <=> Owning /\ AllFit
  BY DEF Walking
<1> QED
  BY <1>1, <1>2, <1>3, OwningAlways, PTL DEF Spec

(* In a cluster that serves dry runs, the seats the ladder leaves can run    *)
(* and be used: no root without its capability beside a target known to run  *)
(* as somebody else, none the node was bound to refuse - whatever stale name *)
(* a launcher walks with and whoever else walks at the time.                 *)
THEOREM StoredSeatsAlwaysRun == Spec => []StoredSeatsRun
<1>1. ASSUME Walking
      PROVE  StoredSeatsRun
  <2>1. calm /\ policy.serves => \A i \in DOMAIN seats : FitSeat(seats[i])
    BY <1>1 DEF Walking, SeatsAreFit, Entries
  <2> QED
    BY <2>1 DEF StoredSeatsRun, NoStrippedRoot, NoForeseeableWedge, FitSeat
<1> QED
  BY <1>1, WalkingAlways, PTL

-----------------------------------------------------------------------------
(* The ceiling and the label of a seat handed over. *)

(* A launcher that does nothing itself keeps both. *)
LEMMA BystanderStaysHonest ==
  ASSUME Owning, NEW l \in Launchers, Honest(l), Own(l)',
         pc'[l] = pc[l], hand'[l] = hand[l], session'[l] = session[l], request'[l] = request[l],
         walk'[l].name = walk[l].name, walk'[l].podAt = walk[l].podAt, pod' = pod,
         \/ incarnation' = incarnation /\ Entries(seats) \subseteq Entries(seats)'
         \/ incarnation' = incarnation + 1
  PROVE  Honest(l)'
<1>1. CASE incarnation' = incarnation /\ Entries(seats) \subseteq Entries(seats)'
  <2>1. Handed(l)' <=> Handed(l)
    BY <1>1 DEF Handed
  <2>2. KeepsCeiling(l)'
    BY <1>1, <2>1 DEF Honest, KeepsCeiling, UnderCeiling
  <2>3. LabelledTruly(l)'
    BY <1>1, <2>1
       DEF Honest, LabelledTruly, ByTheManifest, RunsAsStated, LabelOutruns, Self, TargetIds
  <2> QED
    BY <2>2, <2>3 DEF Honest
<1>2. CASE incarnation' = incarnation + 1
  <2>1. /\ incarnation \in Nat
        /\ walk[l].podAt \in Nat /\ hand[l].podAt \in Nat /\ session[l].podAt \in Nat
    BY DEF Owning, Inductive, TypeOK, Walk, Hand, Session
  <2>2. walk'[l].podAt # incarnation' /\ hand'[l].podAt # incarnation' /\ ~Handed(l)'
    BY <1>2, <2>1 DEF Owning, Own, OfThisPodOrEarlier, Handed
  <2> QED
    BY <2>2 DEF Honest, KeepsCeiling, LabelledTruly
<1> QED
  BY <1>1, <1>2

(* A step that neither waits, nor measures, nor hands anything over. *)
LEMMA NothingIsHonest ==
  ASSUME NEW l \in Launchers, pc'[l] \notin {"wait", "measure"}, ~Handed(l)'
  PROVE  Honest(l)'
BY DEF Honest, KeepsCeiling, LabelledTruly

(* Below full the ladder has no root and no capability, whatever a policy    *)
(* makes of the rung.                                                        *)
LEMMA StoredKeepsTheCeiling ==
  ASSUME Walking, NEW l \in Launchers, Stored(l),
         request'[l] = request[l], walk'[l].name = walk[l].name
  PROVE  UnderCeiling(l, walk[l].name)'
<1> DEFINE rung == walk[l].rung
           asked == Asked(l, rung)
           s == Admitted(l, rung)
<1> SUFFICES ASSUME request[l].ceiling \in {"degraded", "seat"}
             PROVE  s \in Entries(seats)' /\ s.name = walk[l].name /\ ~s.ctx.ptrace /\ s.ctx.uid # 0
  <2> HIDE DEF s
  <2> QED
    BY DEF UnderCeiling
<1>1. s \in Entries(seats)' /\ s.name = walk[l].name
  BY StoredKeepsEntries DEF Walking, Owning
<1>2. rung \in TheLadder(l) /\ want[l].ceiling \in {"degraded", "seat"}
  BY DEF Walking, Walks, OnTheLadder, AsksAsRequested, Stored
<1>3. rung \in {"degraded", "seat"} /\ (rung = "degraded" => WantedUid(l) > 0)
  BY <1>2 DEF TheLadder, RungsToTry, Rung, Below, LadderIndex, NoRung
<1>4. WantedUid(l) \in Id /\ asked \in Context /\ policy \in Policy
  BY <1>3, WantedIsTyped, RungContextIsOne, InputAssumption
     DEF Walking, Owning, Inductive, TypeOK, Asked, Rung
<1>5. ~asked.ptrace /\ asked.uid # 0
  BY <1>3, <1>4 DEF Asked, RungContext, Id, NoId
<1>6. s.ctx = Admit(policy, asked)
  BY DEF Admitted, Authored
<1>7. ~s.ctx.ptrace /\ s.ctx.uid # 0
  BY <1>4, <1>5, <1>6 DEF Admit, Context
<1> QED
  BY <1>1, <1>7

LEMMA ReconnectStaysHonest ==
  ASSUME Walking, NEW l \in Launchers, Reconnect(l)
  PROVE  Honest(l)'
<1>0. Inductive /\ Own(l) /\ want[l].ceiling = request[l].ceiling
  BY DEF Walking, Owning, Walks, AsksAsRequested
<1>1. PICK s \in Existing(l) :
        hand' = [hand EXCEPT ![l] = [name |-> s.name, reused |-> TRUE,
                                     rung |-> RungOfSpec(s.ctx), podAt |-> incarnation]]
  BY DEF Reconnect
<1>2. /\ pc[l] = "read" /\ pc'[l] = "measure" /\ hand'[l].name = s.name
      /\ session' = session /\ seats' = seats /\ request' = request
  BY <1>0, <1>1 DEF Reconnect, Goto, Inductive, TypeOK
<1>3. ~Handed(l)'
  BY <1>0, <1>2 DEF Own, NothingHandedYet, NoSession, Handed
<1>4. ~AboveCeiling(s.ctx, want[l].ceiling, WantedUid(l))
  BY DEF Existing
<1>5. request[l].ceiling \in {"degraded", "seat"} => ~s.ctx.ptrace /\ s.ctx.uid # 0
  BY <1>0, <1>4 DEF AboveCeiling, RungOfSpec, NoRung
<1>6. s.name # Sidecar => s \in Entries(seats)
  <2> SUFFICES ASSUME s.name # Sidecar
               PROVE  s \in Entries(seats)
    OBVIOUS
  <2>1. s \notin pod.sidecar
    BY <1>0, InputAssumption DEF Inductive, TypeOK, Sidecar
  <2>2. PICK n \in RunningSeat(pod, seats, Up, WantedIds(l), Owner[l]) : s = SeatNamed(seats, n)
    BY <2>1 DEF Existing
  <2>3. n \in NamesIn(seats)
    BY RunningSeatRuns
  <2> QED
    BY <2>2, <2>3, SeatNamedIsThere DEF Entries
<1>7. hand'[l].name # Sidecar => UnderCeiling(l, hand[l].name)'
  BY <1>2, <1>5, <1>6 DEF UnderCeiling, Entries
<1> QED
  BY <1>2, <1>3, <1>7 DEF Honest, KeepsCeiling, LabelledTruly

LEMMA PutAcceptedStaysHonest ==
  ASSUME Walking, NEW l \in Launchers, PutAccepted(l)
  PROVE  Honest(l)'
<1>0. Inductive /\ Own(l)
  BY DEF Walking, Owning
<1>1. /\ pc[l] = "put" /\ pc'[l] = "wait" /\ walk'[l].name = walk[l].name
      /\ session' = session /\ request' = request /\ Stored(l)
  BY <1>0, WalkIsTyped DEF PutAccepted, Stored, Goto, Moved, Walk, Inductive, TypeOK
<1>2. ~Handed(l)'
  BY <1>0, <1>1 DEF Own, NothingHandedYet, NoSession, Handed
<1>3. UnderCeiling(l, walk[l].name)'
  BY <1>1, StoredKeepsTheCeiling
<1> QED
  BY <1>1, <1>2, <1>3 DEF Honest, KeepsCeiling, LabelledTruly

LEMMA WaitRunningStaysHonest ==
  ASSUME Walking, NEW l \in Launchers, Honest(l), WaitRunning(l)
  PROVE  Honest(l)'
<1>0. Inductive /\ Own(l)
  BY DEF Walking, Owning
<1>1. /\ pc[l] = "wait" /\ pc'[l] = "measure" /\ hand'[l].name = walk[l].name
      /\ hand'[l].podAt = walk[l].podAt /\ incarnation' = incarnation
      /\ session' = session /\ request' = request /\ seats' = seats
  BY <1>0 DEF WaitRunning, Goto, Inductive, TypeOK
<1>2. ~Handed(l)'
  BY <1>0, <1>1 DEF Own, NothingHandedYet, NoSession, Handed
<1> QED
  BY <1>1, <1>2 DEF Honest, KeepsCeiling, LabelledTruly, UnderCeiling

(* The seat in hand, where it is an ephemeral one, is the entry of its name. *)
LEMMA InHandIsTheEntry ==
  ASSUME NEW l \in Launchers, hand[l].name # Sidecar, NEW s \in InHand(l)
  PROVE  s \in Entries(seats) /\ s.name = hand[l].name
BY DEF InHand, Entries

(* measured_rung: full is the effective capability, degraded the same ids. *)
LEMMA MeasuredRungIsSo ==
  ASSUME NEW s \in Seat, NEW uid \in Id, NEW gid \in Id
  PROVE  /\ MeasuredRung(s.ctx, uid, gid) = "full" => EffectivePtrace(s.ctx)
         /\ MeasuredRung(s.ctx, uid, gid) = "degraded" => Self(s) = [uid |-> uid, gid |-> gid]
                                                          /\ uid # NoId /\ gid # NoId
<1>1. EffectivePtrace(s.ctx) \in BOOLEAN
  BY DEF EffectivePtrace, Seat, Context
<1>2. CASE EffectivePtrace(s.ctx)
  BY <1>2 DEF MeasuredRung
<1>3. CASE ~EffectivePtrace(s.ctx) /\ uid = NoId
  BY <1>3, ImageAssumption DEF MeasuredRung, NoRung, RunsAsUid, NoId
<1>4. CASE ~EffectivePtrace(s.ctx) /\ uid \notin {NoId, RunsAsUid(s.ctx)}
  BY <1>4 DEF MeasuredRung
<1>5. CASE ~EffectivePtrace(s.ctx) /\ uid = RunsAsUid(s.ctx) /\ uid # NoId
  <2>1. MeasuredRung(s.ctx, uid, gid) = CASE gid = NoId -> NoRung
                                          [] gid = RunsAsGid(s.ctx) -> "degraded"
                                          [] gid \notin {NoId, RunsAsGid(s.ctx)} -> "seat"
    BY <1>5 DEF MeasuredRung
  <2>2. RunsAsGid(s.ctx) # NoId
    BY ImageAssumption DEF RunsAsGid, NoId
  <2> QED
    BY <1>5, <2>1, <2>2 DEF Self, NoRung
<1> QED
  BY <1>1, <1>2, <1>3, <1>4, <1>5

(* What a hand-over is labelled with. *)
LEMMA HandOverStaysHonest ==
  ASSUME Owning, NEW l \in Launchers, Honest(l), pc[l] = "measure",
         UNCHANGED <<seats, incarnation, request, pod>>,
         NEW measured, NEW reported, HandOver(l, measured, reported),
         hand[l].name # Sidecar /\ measured # NoRung =>
           \E e \in Entries(seats) :
             /\ e.name = hand[l].name
             /\ \/ reported
                \/ /\ request[l].uid = NoId /\ request[l].gid = NoId
                   /\ ~Correcting(l)
                   /\ RunsAsStated(request[l].target)
                   /\ e.target = request[l].target
                => /\ measured = "full" => EffectivePtrace(e.ctx)
                   /\ measured = "degraded" => Self(e) = TargetIds(e)
  PROVE  Honest(l)'
<1>1. /\ pc'[l] = "idle" /\ session'[l].name = hand[l].name /\ session'[l].podAt = hand[l].podAt
      /\ session'[l].corrected = Correcting(l)
      /\ session'[l].rung = IF measured # NoRung THEN measured ELSE hand[l].rung
      /\ session'[l].measured = (measured # NoRung) /\ session'[l].reported = reported
  BY DEF HandOver, Return, Goto, Owning, Inductive, TypeOK
<1>2. Handed(l)' => hand[l].name # Sidecar /\ hand[l].podAt = incarnation
  BY <1>1 DEF Handed
<1>3. KeepsCeiling(l)'
  BY <1>1, <1>2 DEF Honest, KeepsCeiling, UnderCeiling
<1>4. LabelledTruly(l)'
  <2> SUFFICES ASSUME Handed(l)', session'[l].measured
               PROVE  \E e \in Entries(seats)' :
                        /\ e.name = session'[l].name
                        /\ session'[l].reported \/ (ByTheManifest(l)' /\ e.target = request'[l].target)
                             => ~LabelOutruns(l, e)'
    BY DEF LabelledTruly
  <2>1. PICK e \in Entries(seats) :
          /\ e.name = hand[l].name
          /\ \/ reported
             \/ /\ request[l].uid = NoId /\ request[l].gid = NoId
                /\ ~Correcting(l)
                /\ RunsAsStated(request[l].target)
                /\ e.target = request[l].target
             => /\ measured = "full" => EffectivePtrace(e.ctx)
                /\ measured = "degraded" => Self(e) = TargetIds(e)
    BY <1>1, <1>2
  <2>2. ByTheManifest(l)' => /\ request[l].uid = NoId /\ request[l].gid = NoId
                             /\ ~Correcting(l) /\ RunsAsStated(request[l].target)
    BY <1>1 DEF ByTheManifest, RunsAsStated
  <2>3. LabelOutruns(l, e)' <=> \/ measured = "full" /\ ~EffectivePtrace(e.ctx)
                                \/ measured = "degraded" /\ Self(e) # TargetIds(e)
    BY <1>1 DEF LabelOutruns, TargetIds
  <2>4. e \in Entries(seats)'
    BY DEF Entries
  <2> QED
    BY <1>1, <2>1, <2>2, <2>3, <2>4
<1> QED
  BY <1>3, <1>4 DEF Honest

LEMMA ProbedStaysHonest ==
  ASSUME Walking, NEW l \in Launchers, Honest(l), Probed(l)
  PROVE  Honest(l)'
<1>0. Owning /\ TypeOK
  BY DEF Walking, Owning, Inductive
<1>1. PICK s \in InHand(l) :
        HandOver(l, MeasuredRung(s.ctx, TargetIds(s).uid, TargetIds(s).gid), TRUE)
  BY DEF Probed
<1> DEFINE measured == MeasuredRung(s.ctx, TargetIds(s).uid, TargetIds(s).gid)
<1>2. s \in Seat /\ TargetIds(s).uid \in Id /\ TargetIds(s).gid \in Id
  BY <1>0, InHandIsTyped, TargetIdsAreTyped
<1>3. /\ measured = "full" => EffectivePtrace(s.ctx)
      /\ measured = "degraded" => Self(s) = TargetIds(s)
  BY <1>2, MeasuredRungIsSo DEF TargetIds
<1>4. hand[l].name # Sidecar => s \in Entries(seats) /\ s.name = hand[l].name
  BY InHandIsTheEntry
<1>5. pc[l] = "measure" /\ UNCHANGED <<seats, incarnation, request, pod>>
  BY DEF Probed, setting
<1> HIDE DEF measured
<1> QED
  BY <1>0, <1>1, <1>3, <1>4, <1>5, HandOverStaysHonest DEF measured

LEMMA UnprobedStaysHonest ==
  ASSUME Walking, NEW l \in Launchers, Honest(l), Unprobed(l)
  PROVE  Honest(l)'
<1>0. Owning /\ TypeOK
  BY DEF Walking, Owning, Inductive
<1>1. pc[l] = "measure" /\ UNCHANGED <<seats, incarnation, request, pod>>
  BY DEF Unprobed, setting
<1>2. CASE HandOver(l, NoRung, FALSE)
  BY <1>0, <1>1, <1>2, HandOverStaysHonest
<1>3. ASSUME NEW s \in InHand(l),
             HandOver(l, MeasuredRung(s.ctx, WantedUid(l), WantedGid(l)), FALSE)
      PROVE  Honest(l)'
  <2> DEFINE measured == MeasuredRung(s.ctx, WantedUid(l), WantedGid(l))
  <2>1. s \in Seat /\ WantedUid(l) \in Id /\ WantedGid(l) \in Id
    BY <1>0, InHandIsTyped, WantedIsTyped
  <2>2. /\ measured = "full" => EffectivePtrace(s.ctx)
        /\ measured = "degraded" => Self(s) = [uid |-> WantedUid(l), gid |-> WantedGid(l)]
                                    /\ WantedUid(l) # NoId /\ WantedGid(l) # NoId
    BY <2>1, MeasuredRungIsSo
  <2>3. ASSUME request[l].uid = NoId, request[l].gid = NoId, ~Correcting(l),
               RunsAsStated(request[l].target), s.target = request[l].target,
               measured = "degraded"
        PROVE  Self(s) = TargetIds(s)
    BY <2>2, <2>3 DEF Correcting, WantedUid, WantedGid, RunsAsStated, TargetIds
  <2>4. hand[l].name # Sidecar => s \in Entries(seats) /\ s.name = hand[l].name
    BY InHandIsTheEntry
  <2> HIDE DEF measured
  <2> QED
    BY <1>0, <1>1, <1>3, <2>2, <2>3, <2>4, HandOverStaysHonest DEF measured
<1> QED
  BY <1>2, <1>3 DEF Unprobed

LEMMA LauncherStaysHonest ==
  ASSUME Walking, NEW l \in Launchers, Honest(l),
         Launch(l) \/ Step(l) \/ PutLost(l) \/ CallFails(l)
  PROVE  Honest(l)'
<1>0. /\ Inductive /\ Own(l) /\ pc \in [Launchers -> Call]
      /\ session \in [Launchers -> Session]
  BY DEF Walking, Owning, Inductive, TypeOK
<1>1. CASE Launch(l)
  <2>1. pc'[l] = "read" /\ session'[l] = NoSession
    BY <1>0, <1>1 DEF Launch, Begin, Goto
  <2> QED
    BY <2>1, NothingIsHonest DEF Handed, NoSession
<1>2. CASE Raise(l)
  <2>1. pc'[l] = "idle" /\ session'[l].outcome = "failed"
    BY <1>0, <1>2 DEF Raise, Return, Goto, NoSession
  <2> QED
    BY <2>1, NothingIsHonest DEF Handed
<1>3. CASE PutLost(l)
  <2>1. pc'[l] = "idle" /\ session'[l].outcome = "failed"
    BY <1>0, <1>3 DEF PutLost, NoSession
  <2> QED
    BY <2>1, NothingIsHonest DEF Handed
<1>4. CASE \/ StartWalk(l) \/ TryRung(l) \/ GetSubresource(l) \/ PutDenied(l) \/ WaitRefused(l)
           \/ Correct(l) \/ (PutConflicts(l) /\ ~Raise(l))
  <2>1. /\ pc[l] # "idle" /\ pc'[l] \in {"read", "try", "get", "put"} /\ session' = session
    BY <1>0, <1>4
       DEF StartWalk, TryRung, GetSubresource, PutDenied, WaitRefused, Correct, PutConflicts, Goto
  <2>2. ~Handed(l)'
    BY <1>0, <2>1 DEF Own, NothingHandedYet, NoSession, Handed
  <2> QED
    BY <2>1, <2>2, NothingIsHonest
<1>5. NoRungAdmitted(l) \/ PutInvalid(l) \/ WaitTimesOut(l) \/ CallFails(l) => Raise(l)
  BY DEF NoRungAdmitted, PutInvalid, WaitTimesOut, CallFails
<1> QED
  BY <1>1, <1>2, <1>3, <1>4, <1>5, ReconnectStaysHonest, PutAcceptedStaysHonest,
     WaitRunningStaysHonest, ProbedStaysHonest, UnprobedStaysHonest
     DEF Step

LEMMA NextStaysHonest ==
  ASSUME Walking, AllHonest, [Next]_vars, Owning'
  PROVE  AllHonest'
<1> SUFFICES ASSUME NEW m \in Launchers
             PROVE  Honest(m)'
  BY DEF AllHonest
<1>0. Owning /\ Inductive /\ Honest(m) /\ Own(m)' /\ pod' = pod
  BY SettingStays DEF Walking, Owning, AllHonest
<1>1. ASSUME pc'[m] = pc[m], hand'[m] = hand[m], session'[m] = session[m],
             request'[m] = request[m], walk'[m].name = walk[m].name,
             walk'[m].podAt = walk[m].podAt,
             \/ incarnation' = incarnation /\ Entries(seats) \subseteq Entries(seats)'
             \/ incarnation' = incarnation + 1
      PROVE  Honest(m)'
  BY <1>0, <1>1, BystanderStaysHonest
<1>2. CASE UNCHANGED vars
  BY <1>1, <1>2 DEF vars, Entries
<1>3. CASE Node \/ OtherWrite \/ PodReplaced
  <2>1. /\ pc' = pc /\ hand' = hand /\ session' = session /\ request' = request /\ walk' = Moved
        /\ \/ incarnation' = incarnation /\ seats' = seats
           \/ incarnation' = incarnation + 1
    BY <1>3 DEF Node, KubeletStarts, KubeletRefusesIt, SeatExits, Report, OtherWrite, PodReplaced
  <2>2. Moved[m].name = walk[m].name /\ Moved[m].podAt = walk[m].podAt
    BY <1>0, WalkIsTyped DEF Moved, Walk
  <2>3. seats' = seats => Entries(seats) \subseteq Entries(seats)'
    BY DEF Entries
  <2> QED
    BY <1>1, <2>1, <2>2, <2>3
<1>4. ASSUME NEW l \in Launchers, Launch(l) \/ Step(l) \/ PutLost(l) \/ CallFails(l)
      PROVE  Honest(m)'
  <2>1. CASE m = l
    BY <1>0, <1>4, <2>1, LauncherStaysHonest
  <2>2. CASE m # l
    BY <1>0, <1>1, <1>4, <2>2, OthersAreBystanders, OthersKeepRequests, LauncherKeepsEntries
  <2> QED
    BY <2>1, <2>2
<1> QED
  BY <1>2, <1>3, <1>4 DEF Next

(* A seat handed over is under the ceiling its attach was given, whoever     *)
(* landed it; and a label said to be measured claims no more than the kernel *)
(* grants - of the seat itself where it reported, of the target that was     *)
(* named and runs as stated where the manifest stood in for the report.      *)
THEOREM RungsAreAlwaysHonest == Spec => []RungsAreHonest
<1>1. Init => AllHonest
  BY DEF Init, AllHonest, Honest, KeepsCeiling, LabelledTruly, Handed, NoSession
<1>2. Walking /\ AllHonest /\ [Next]_vars /\ Owning' => AllHonest'
  BY NextStaysHonest
<1>3. ASSUME Owning, AllHonest
      PROVE  RungsAreHonest
  <2>0. Unique(seats)
    BY <1>3 DEF Owning, Inductive, NamesUnique, Unique
  <2>1. CeilingHonoured
    BY <1>3, <2>0, SeatNamedIsTheEntry
       DEF CeilingHonoured, AllHonest, Honest, KeepsCeiling, UnderCeiling
  <2>2. LabelsDoNotOverclaim
    BY <1>3, <2>0, SeatNamedIsTheEntry DEF LabelsDoNotOverclaim, AllHonest, Honest, LabelledTruly
  <2> QED
    BY <2>1, <2>2 DEF RungsAreHonest
<1> QED
  BY <1>1, <1>2, <1>3, WalkingAlways, OwningAlways, PTL DEF Spec

-----------------------------------------------------------------------------
(* The next attach is free, for one launcher.  First, a census of which      *)
(* seats a reconnect is offered, by index: p is the pod, list its seats, U   *)
(* the indices of those that run.                                            *)

RealIds(p, w)   == [uid |-> p.workload[w].realUid, gid |-> p.workload[w].realGid]
StatedIds(p, w) == [uid |-> p.workload[w].uid, gid |-> p.workload[w].gid]

Pins(s, ids) == s.ctx.uid = ids.uid /\ s.ctx.gid = ids.gid

(* What the measurement of a seat asks for, of a user who pinned no ids. *)
Need(p, s) == IdCorrection(Self(s), RealIds(p, s.target), NoIds)

Overrides(list, j, i) ==
  /\ j > i
  /\ list[j].target = list[i].target
  /\ list[j].ctx.uid = list[i].ctx.uid
  /\ list[i].ctx.uid # NoId
  /\ list[j].ctx.gid \notin {NoId, list[i].ctx.gid}

(* The seats nothing that runs supersedes. *)
Live(list, U) == {i \in U : \A j \in U : ~Overrides(list, j, i)}

(* The indices of the seats of those names. *)
UpAt(list, up) == {i \in DOMAIN list : list[i].name \in up}

Offers(list, U, ids) == \E i \in Live(list, U) : Pins(list[i], ids)

(* Whichever seat is measured, the seat it asks for is there. *)
Served(p, list, U, i) == Need(p, list[i]) # NoIds => Offers(list, U, Need(p, list[i]))
AllServed(p, list, U) == \A i \in U : Served(p, list, U, i)

(* A seat with the real ids of w would not supersede the one on offer. *)
OffersElsewhere(p, list, U, w, ids) ==
  \E i \in Live(list, U) : /\ Pins(list[i], ids)
                           /\ ~(list[i].target = w /\ list[i].ctx.uid = RealIds(p, w).uid)

(* After the first pass for w: only the seat with the real ids of w may be   *)
(* wanting.                                                                  *)
AllButServed(p, list, U, w) ==
  \A i \in U : LET ids == Need(p, list[i]) IN
    ids # NoIds => \/ ids = RealIds(p, w)
                   \/ OffersElsewhere(p, list, U, w, ids)
                   \/ Offers(list, U, ids) /\ Offers(list, U, RealIds(p, w))

(* Before the second: once that seat is there, all are served. *)
AwaitsOne(p, list, U, w) ==
  \A i \in U : LET ids == Need(p, list[i]) IN
    ids # NoIds => ids = RealIds(p, w) \/ OffersElsewhere(p, list, U, w, ids)

(* The contexts the ladder leaves: by the manifest, or by a measurement. *)
AsStated(p, s) == s.ctx.uid \in {NoId, 0} \/ Pins(s, StatedIds(p, s.target))

KnownKind(p, s) ==
  /\ AsStated(p, s) \/ Pins(s, RealIds(p, s.target))
  /\ s.ctx.ptrace => s.ctx.uid = 0

-----------------------------------------------------------------------------
(* What the census says. *)

LEMMA RealIdsAreNumbers ==
  ASSUME NEW p \in Pod, NEW w \in Workloads
  PROVE  RealIds(p, w).uid \in Nat /\ RealIds(p, w).gid \in Nat
BY DEF RealIds, Pod, Facts

(* A correction asks for the target's own ids, of a seat that has others and *)
(* is not root.                                                              *)
LEMMA NeedIsTheRealIds ==
  ASSUME NEW p \in Pod, NEW s \in Seat
  PROVE  /\ Need(p, s) \in {NoIds, RealIds(p, s.target)}
         /\ Need(p, s) # NoIds => /\ Need(p, s).uid \in Nat \ {0}
                                  /\ Need(p, s).gid \in Nat
         /\ Pins(s, RealIds(p, s.target)) => Need(p, s) = NoIds
<1>1. s.target \in Workloads /\ s.ctx \in Context
  BY DEF Seat
<1>2. RealIds(p, s.target).uid \in Nat /\ RealIds(p, s.target).gid \in Nat
  BY <1>1, RealIdsAreNumbers
<1>3. RealIds(p, s.target) = [uid |-> RealIds(p, s.target).uid, gid |-> RealIds(p, s.target).gid]
  BY DEF RealIds
<1>4. Need(p, s) = IF \/ Self(s).uid = 0 \/ RealIds(p, s.target).uid <= 0
                      \/ RealIds(p, s.target).gid = NoId
                      \/ Self(s) = RealIds(p, s.target)
                     THEN NoIds ELSE RealIds(p, s.target)
  BY <1>3 DEF Need, IdCorrection, NoIds, NoId
<1>5. Pins(s, RealIds(p, s.target)) => Self(s) = RealIds(p, s.target)
  <2> SUFFICES ASSUME Pins(s, RealIds(p, s.target))
               PROVE  Self(s) = RealIds(p, s.target)
    OBVIOUS
  <2>1. Self(s).uid = RealIds(p, s.target).uid /\ Self(s).gid = RealIds(p, s.target).gid
    BY <1>2 DEF Pins, Self, RunsAsUid, RunsAsGid, NoId
  <2> QED
    BY <2>1, <1>3 DEF Self
<1> QED
  BY <1>2, <1>4, <1>5

(* A seat on its target's own uid and on another group asks for correction. *)
LEMMA OtherGroupNeedsCorrection ==
  ASSUME NEW p \in Pod, NEW s \in Seat,
         s.ctx.uid = RealIds(p, s.target).uid, s.ctx.uid # 0,
         s.ctx.gid # NoId, s.ctx.gid # RealIds(p, s.target).gid
  PROVE  Need(p, s) = RealIds(p, s.target) /\ Need(p, s) # NoIds
<1>1. s.target \in Workloads /\ s.ctx \in Context
  BY DEF Seat
<1>2. RealIds(p, s.target).uid \in Nat /\ RealIds(p, s.target).gid \in Nat
  BY <1>1, RealIdsAreNumbers
<1>3. RealIds(p, s.target) = [uid |-> RealIds(p, s.target).uid, gid |-> RealIds(p, s.target).gid]
  BY DEF RealIds
<1>4. Self(s).uid = s.ctx.uid /\ Self(s).gid = s.ctx.gid
  BY <1>2 DEF Self, RunsAsUid, RunsAsGid, NoId
<1>5. Self(s) # RealIds(p, s.target)
  BY <1>4, <1>3
<1>6. Need(p, s) = RealIds(p, s.target)
  BY <1>2, <1>3, <1>4, <1>5 DEF Need, IdCorrection, NoIds, NoId
<1> QED
  BY <1>6, <1>2 DEF NoIds, NoId

(* A seat that runs last is superseded by none, and supersedes only the      *)
(* seats it overrides.                                                       *)
LEMMA TheLastIsLive ==
  ASSUME NEW S, NEW list \in Seq(S), NEW U \in SUBSET (DOMAIN list), NEW k \in DOMAIN list,
         \A i \in U : i < k
  PROVE  Live(list, U \cup {k}) = {k} \cup {i \in Live(list, U) : ~Overrides(list, k, i)}
<1>a. Len(list) \in Nat /\ DOMAIN list = 1 .. Len(list)
  BY LenProperties
<1>b. k \in Nat /\ \A i \in U : i \in Nat
  BY <1>a
<1>1. \A i \in U : ~(i > k)
  BY <1>b
<1>2. ~(k > k)
  BY <1>b
<1> QED
  BY <1>1, <1>2 DEF Live, Overrides

LEMMA SomeSeatIsLive ==
  ASSUME NEW S, NEW list \in Seq(S), NEW U \in SUBSET (DOMAIN list), U # {}
  PROVE  Live(list, U) # {}
<1> DEFINE n == Len(list)
           T == {n - i : i \in U}
<1>1. n \in Nat /\ DOMAIN list = 1 .. n
  BY LenProperties
<1>2. T \in SUBSET Nat /\ T # {}
  BY <1>1
<1>3. PICK t \in T : \A m \in T : t <= m
  BY <1>2, LeastNatural
<1>4. PICK i \in U : t = n - i
  BY <1>3
<1>5. \A j \in U : ~(j > i)
  <2> SUFFICES ASSUME NEW j \in U PROVE ~(j > i)
    OBVIOUS
  <2>1. n - j \in T
    OBVIOUS
  <2>2. n - i <= n - j
    BY <2>1, <1>3, <1>4
  <2> QED
    BY <2>2, <1>1
<1> QED
  BY <1>5 DEF Live, Overrides

(* Two live seats on one container and one uid pin one group. *)
LEMMA LiveSeatsAgree ==
  ASSUME NEW S, NEW list \in Seq(S), NEW U \in SUBSET (DOMAIN list),
         NEW i \in Live(list, U), NEW j \in Live(list, U),
         list[i].target = list[j].target, list[i].ctx.uid = list[j].ctx.uid,
         list[i].ctx.uid # NoId, list[i].ctx.gid # NoId, list[j].ctx.gid # NoId
  PROVE  list[i].ctx.gid = list[j].ctx.gid
<1>1. i \in U /\ j \in U /\ ~Overrides(list, i, j) /\ ~Overrides(list, j, i)
  BY DEF Live
<1>a. Len(list) \in Nat /\ DOMAIN list = 1 .. Len(list)
  BY LenProperties
<1>2. i < j \/ j < i \/ i = j
  BY <1>1, <1>a
<1> QED
  BY <1>1, <1>2 DEF Overrides

(* With everybody served, nobody waits for more than the seat of w. *)
LEMMA AllServedIsMore ==
  ASSUME NEW p \in Pod, NEW list \in Seq(Seat), NEW U \in SUBSET (DOMAIN list),
         NEW w \in Workloads, AllServed(p, list, U)
  PROVE  AllButServed(p, list, U, w)
<1> SUFFICES ASSUME NEW i \in U,
                    Need(p, list[i]) # NoIds,
                    Need(p, list[i]) # RealIds(p, w),
                    ~OffersElsewhere(p, list, U, w, Need(p, list[i]))
             PROVE  /\ Offers(list, U, Need(p, list[i]))
                    /\ Offers(list, U, RealIds(p, w))
  BY DEF AllButServed
<1> DEFINE ids == Need(p, list[i])
<1>1. \A j \in U : list[j] \in Seat
  BY ElementOfSeq, LenProperties
<1>2. Offers(list, U, ids)
  BY DEF AllServed, Served
<1>3. PICK q \in Live(list, U) : Pins(list[q], ids)
  BY <1>2 DEF Offers
<1>4. list[q].target = w /\ list[q].ctx.uid = RealIds(p, w).uid
  BY <1>3 DEF OffersElsewhere
<1>5. q \in U
  BY DEF Live
<1>6. ids.uid \in Nat \ {0} /\ ids.gid \in Nat /\ ids = RealIds(p, list[i].target)
  BY <1>1, NeedIsTheRealIds
<1>7. list[q].ctx.uid = ids.uid /\ list[q].ctx.gid = ids.gid
  BY <1>3 DEF Pins
<1>8. list[q].ctx.gid # RealIds(p, w).gid
  BY <1>4, <1>6, <1>7 DEF RealIds
<1>9. Need(p, list[q]) = RealIds(p, w) /\ Need(p, list[q]) # NoIds
  <2>1. list[q] \in Seat
    BY <1>1, <1>5
  <2>2. list[q].ctx.uid # 0 /\ list[q].ctx.gid # NoId
    BY <1>6, <1>7 DEF NoId
  <2> QED
    BY <1>4, <1>8, <2>1, <2>2, OtherGroupNeedsCorrection
<1>10. Offers(list, U, RealIds(p, w))
  BY <1>5, <1>9 DEF AllServed, Served
<1> QED
  BY <1>2, <1>10

(* The seat of a first pass runs: it supersedes none that is wanted but the  *)
(* one with the real ids of its target, which its own measurement asks for.  *)
LEMMA FirstSeatLands ==
  ASSUME NEW p \in Pod, NEW list \in Seq(Seat), NEW U \in SUBSET (DOMAIN list),
         NEW k \in DOMAIN list, \A i \in U : i < k,
         \A i \in U : KnownKind(p, list[i]),
         AsStated(p, list[k]), AllServed(p, list, U)
  PROVE  /\ AllButServed(p, list, U \cup {k}, list[k].target)
         /\ Need(p, list[k]) = NoIds => AllServed(p, list, U \cup {k})
<1> DEFINE w == list[k].target
           V == U \cup {k}
<1>0. /\ \A j \in DOMAIN list : list[j] \in Seat
      /\ w \in Workloads
  <2>1. \A j \in DOMAIN list : list[j] \in Seat
    BY ElementOfSeq, LenProperties
  <2> QED
    BY <2>1 DEF Seat
<1>1. Live(list, V) = {k} \cup {i \in Live(list, U) : ~Overrides(list, k, i)}
  BY TheLastIsLive
<1>2. AllButServed(p, list, U, w)
  BY <1>0, AllServedIsMore
<1>3. CASE \A i \in Live(list, U) : ~Overrides(list, k, i)
  <2>1. Live(list, U) \subseteq Live(list, V)
    BY <1>1, <1>3
  <2>2. \A ids : Offers(list, U, ids) => Offers(list, V, ids)
    BY <2>1 DEF Offers
  <2>3. \A ids : OffersElsewhere(p, list, U, w, ids) => OffersElsewhere(p, list, V, w, ids)
    BY <2>1 DEF OffersElsewhere
  <2>4. Need(p, list[k]) \in {NoIds, RealIds(p, w)}
    BY <1>0, NeedIsTheRealIds
  <2>5. AllButServed(p, list, V, w)
    BY <1>2, <2>2, <2>3, <2>4 DEF AllButServed
  <2>6. Need(p, list[k]) = NoIds => AllServed(p, list, V)
    BY <2>2 DEF AllServed, Served
  <2> QED
    BY <2>5, <2>6
<1>4. CASE \E i \in Live(list, U) : Overrides(list, k, i)
  <2>1. PICK i \in Live(list, U) : Overrides(list, k, i)
    BY <1>4
  <2>2. /\ i \in U
        /\ list[i].target = w
        /\ list[i].ctx.uid = list[k].ctx.uid
        /\ list[k].ctx.uid # NoId
        /\ list[k].ctx.gid # NoId
        /\ list[k].ctx.gid # list[i].ctx.gid
    BY <2>1 DEF Overrides, Live
  <2>3. CASE list[k].ctx.uid = 0
    (* A seat at root: the seats that are wanted are not. *)
    <3>1. ASSUME NEW ids, ids.uid # 0, Offers(list, U, ids)
          PROVE  Offers(list, V, ids)
      BY <1>1, <2>3, <3>1 DEF Offers, Overrides, Pins
    <3>2. ASSUME NEW ids, ids.uid # 0, OffersElsewhere(p, list, U, w, ids)
          PROVE  OffersElsewhere(p, list, V, w, ids)
      BY <1>1, <2>3, <3>2 DEF OffersElsewhere, Overrides, Pins
    <3>3. Need(p, list[k]) = NoIds
      BY <2>3 DEF Need, IdCorrection, Self, RunsAsUid, NoId
    <3>4. \A j \in U : Need(p, list[j]) # NoIds => Need(p, list[j]).uid # 0
      BY <1>0, NeedIsTheRealIds
    <3>5. AllServed(p, list, V)
      BY <3>1, <3>3, <3>4 DEF AllServed, Served
    <3>6. AllButServed(p, list, V, w)
      BY <1>0, <3>5, AllServedIsMore
    <3> QED
      BY <3>5, <3>6
  <2>4. CASE list[k].ctx.uid # 0
    (* A seat by the manifest: the one it supersedes has the real ids. *)
    <3>1. Pins(list[k], StatedIds(p, w))
      BY <2>2, <2>4 DEF AsStated
    <3>2. ~Pins(list[i], StatedIds(p, w))
      BY <2>2, <3>1 DEF Pins
    <3>3. Pins(list[i], RealIds(p, w))
      BY <2>2, <2>4, <3>2 DEF KnownKind, AsStated
    <3>4. RealIds(p, w).uid \in Nat /\ RealIds(p, w).gid \in Nat
      BY <1>0, RealIdsAreNumbers
    <3>5. Need(p, list[k]) # NoIds /\ Need(p, list[k]) = RealIds(p, w)
      BY <1>0, <2>2, <2>4, <3>3, OtherGroupNeedsCorrection DEF Pins
    <3>6. ASSUME NEW j \in U, Need(p, list[j]) # NoIds, Need(p, list[j]) # RealIds(p, w)
          PROVE  OffersElsewhere(p, list, V, w, Need(p, list[j]))
      <4> DEFINE ids == Need(p, list[j])
      <4>1. PICK q \in Live(list, U) : Pins(list[q], ids)
        BY <3>6 DEF AllServed, Served, Offers
      <4>2. q \in U /\ KnownKind(p, list[q])
        BY DEF Live
      <4>3. ids.uid \in Nat \ {0} /\ ids.gid \in Nat /\ ids = RealIds(p, list[j].target)
        BY <1>0, <3>6, NeedIsTheRealIds
      <4>4. ~(list[q].target = w /\ list[q].ctx.uid = RealIds(p, w).uid)
        <5> SUFFICES ASSUME list[q].target = w, list[q].ctx.uid = RealIds(p, w).uid
                     PROVE  FALSE
          OBVIOUS
        <5>1. list[q].ctx.gid = list[i].ctx.gid
          BY <1>0, <2>2, <3>3, <3>4, <4>1, <4>3, LiveSeatsAgree DEF Pins, NoId
        <5>2. ids.uid = RealIds(p, w).uid /\ ids.gid = RealIds(p, w).gid
          BY <3>3, <4>1, <5>1 DEF Pins
        <5> QED
          BY <3>6, <4>3, <5>2 DEF RealIds
      <4>5. ~Overrides(list, k, q)
        BY <2>2, <3>3, <4>4 DEF Overrides, Pins
      <4> QED
        BY <1>1, <4>1, <4>4, <4>5 DEF OffersElsewhere
    <3>7. AllButServed(p, list, V, w)
      BY <3>5, <3>6 DEF AllButServed
    <3> QED
      BY <3>5, <3>7
  <2> QED
    BY <2>3, <2>4
<1> QED
  BY <1>3, <1>4

(* The corrected seat runs: all are served. *)
LEMMA CorrectedSeatLands ==
  ASSUME NEW p \in Pod, NEW list \in Seq(Seat), NEW U \in SUBSET (DOMAIN list),
         NEW k \in DOMAIN list, \A i \in U : i < k,
         Pins(list[k], RealIds(p, list[k].target)), AwaitsOne(p, list, U, list[k].target)
  PROVE  AllServed(p, list, U \cup {k})
<1> DEFINE w == list[k].target
           V == U \cup {k}
<1>0. \A j \in DOMAIN list : list[j] \in Seat
  BY ElementOfSeq, LenProperties
<1>1. Live(list, V) = {k} \cup {i \in Live(list, U) : ~Overrides(list, k, i)}
  BY TheLastIsLive
<1>2. Offers(list, V, RealIds(p, w))
  BY <1>1 DEF Offers
<1>3. Need(p, list[k]) = NoIds
  BY <1>0, NeedIsTheRealIds
<1>4. \A ids : OffersElsewhere(p, list, U, w, ids) => Offers(list, V, ids)
  BY <1>1 DEF OffersElsewhere, Offers, Overrides, Pins
<1> QED
  BY <1>2, <1>3, <1>4 DEF AwaitsOne, AllServed, Served

(* The corrected seat is there already, or it is what all wait for. *)
LEMMA NothingIsAwaited ==
  ASSUME NEW p, NEW list, NEW U, NEW w,
         AllButServed(p, list, U, w), Offers(list, U, RealIds(p, w))
  PROVE  AllServed(p, list, U)
BY DEF AllButServed, AllServed, Served, OffersElsewhere, Offers

LEMMA OneIsAwaited ==
  ASSUME NEW p, NEW list, NEW U, NEW w,
         AllButServed(p, list, U, w), ~Offers(list, U, RealIds(p, w))
  PROVE  AwaitsOne(p, list, U, w)
BY DEF AllButServed, AwaitsOne

(* A seat that does not run yet changes nothing of all this. *)
LEMMA CensusStays ==
  ASSUME NEW p, NEW list, NEW longer, NEW U, \A i \in U : longer[i] = list[i]
  PROVE  /\ Live(longer, U) = Live(list, U)
         /\ AllServed(p, longer, U) <=> AllServed(p, list, U)
         /\ \A w : AwaitsOne(p, longer, U, w) <=> AwaitsOne(p, list, U, w)
<1>1. Live(longer, U) = Live(list, U)
  BY DEF Live, Overrides
<1>2. \A i \in Live(list, U) : i \in U
  BY DEF Live
<1>3. \A ids : Offers(longer, U, ids) <=> Offers(list, U, ids)
  BY <1>1, <1>2 DEF Offers
<1>4. \A w, ids : OffersElsewhere(p, longer, U, w, ids) <=> OffersElsewhere(p, list, U, w, ids)
  BY <1>1, <1>2 DEF OffersElsewhere
<1> QED
  BY <1>1, <1>3, <1>4 DEF AllServed, Served, AwaitsOne

-----------------------------------------------------------------------------
(* The inductive invariant, for one launcher.  A first pass, which pins no   *)
(* gid, leaves at most one seat wanting: the one with the real ids of its    *)
(* target.  Its measurement asks for that one, and the second pass lands it. *)

OneLauncher == \A l, m \in Launchers : l = m

Running == UpAt(seats, Up)

EveryoneServed  == AllServed(pod, seats, Running)
AllButOne(l)    == AllButServed(pod, seats, Running, want[l].target)
OneIsWanting(l) == AwaitsOne(pod, seats, Running, want[l].target)

InFirstPass(l) == want[l].gid = NoId
Wants(l)       == [uid |-> want[l].uid, gid |-> want[l].gid]
WantsTheReal(l) == Wants(l) = RealIds(pod, want[l].target)

(* The seat of the pass runs. *)
Landed(l, n) ==
  /\ AllButOne(l)
  /\ SeatNamed(seats, n).target = want[l].target
  /\ Need(pod, SeatNamed(seats, n)) = NoIds => EveryoneServed

FirstPass(l) ==
  /\ pc[l] \in {"idle", "read", "try", "get", "put"} => EveryoneServed
  /\ pc[l] = "wait" => /\ AsStated(pod, SeatNamed(seats, walk[l].name))
                       /\ IF walk[l].name \in Up THEN Landed(l, walk[l].name) ELSE EveryoneServed
  /\ pc[l] = "measure" => IF hand[l].reused THEN EveryoneServed ELSE Landed(l, hand[l].name)

(* The corrected walk still has every rung below full to try, and submits    *)
(* the full one only where a policy refuses it.                              *)
HasItsRungs(l) ==
  /\ TheLadder(l) \ {"full"} \subseteq walk[l].todo
  /\ walk[l].degradedFirst = DegradedFirst(pod, want[l].target, WantedUid(l), want[l].ceiling)
  /\ walk[l].rung = "full" => policy.denyPtrace /\ ~policy.strip

SecondPass(l) ==
  /\ pc[l] \in {"idle", "measure"} => EveryoneServed
  /\ pc[l] = "read" => \/ AllButOne(l) /\ WantsTheReal(l)
                       \/ EveryoneServed /\ Offers(seats, Running, Wants(l))
  /\ pc[l] \in {"try", "get", "put"} => OneIsWanting(l) /\ WantsTheReal(l) /\ HasItsRungs(l)
  /\ pc[l] = "wait" => /\ WantsTheReal(l)
                       /\ Pins(SeatNamed(seats, walk[l].name), Wants(l))
                       /\ IF walk[l].name \in Up THEN EveryoneServed ELSE OneIsWanting(l)

(* What an attach of an undisturbed history asks for. *)
Asks(l) ==
  pc[l] # "idle" => /\ want[l].probe /\ want[l].ceiling # "full"
                    /\ IF InFirstPass(l) THEN want[l].uid = NoId /\ want[l].correct
                       ELSE want[l].uid > 0 /\ ~want[l].correct /\ ~want[l].new

AtItsSeat(l) ==
  /\ pc[l] \in {"try", "get", "put"} => walk[l].name \notin NamesIn(seats)
  /\ pc[l] = "wait" => /\ seats # <<>>
                       /\ seats[Len(seats)].name = walk[l].name
                       /\ seats[Len(seats)].target = want[l].target
  /\ pc[l] = "measure" => hand[l].name \in Up
  /\ Handed(l) => session[l].name \in Up

(* Nothing exits, and only the seat that is waited for may still start. *)
NoneIsStuck(l) ==
  \A n \in DOMAIN status :
    /\ status[n] # "exited"
    /\ status[n] = "refused" => KubeletRefuses(pod, SeatNamed(seats, n).ctx)
    /\ status[n] = "pending" => pc[l] = "wait" /\ walk[l].name = n

Stamped(l) == \A s \in Entries(seats) : s.owner = Owner[l] /\ s.name # Sidecar

KnownSeats == \A s \in Entries(seats) : KnownKind(pod, s)

Census(l) == /\ KnownSeats /\ NoneIsStuck(l) /\ Asks(l) /\ AtItsSeat(l)
             /\ IF InFirstPass(l) THEN FirstPass(l) ELSE SecondPass(l)

Kept(l) == Stamped(l) /\ (Undisturbed => Census(l))

(* The list as a sequence of seats, its names unique, its statuses by name. *)
LEMMA TheList ==
  ASSUME Inductive
  PROVE  /\ seats \in Seq(Seat) /\ Unique(seats)
         /\ Len(seats) \in Nat /\ DOMAIN seats = 1 .. Len(seats)
         /\ \A i \in DOMAIN seats : seats[i] \in Seat /\ seats[i] \in Entries(seats)
         /\ DOMAIN status = NamesIn(seats) /\ Up \subseteq NamesIn(seats)
         /\ Running \subseteq DOMAIN seats
         /\ pod \in Pod /\ policy \in Policy
<1>1. seats \in Seq(Seat) /\ DOMAIN status = NamesIn(seats) /\ Unique(seats)
  BY DEF Inductive, TypeOK, NamesUnique, Unique
<1>2. Len(seats) \in Nat /\ DOMAIN seats = 1 .. Len(seats)
  BY <1>1, LenProperties
<1>3. \A i \in DOMAIN seats : seats[i] \in Seat /\ seats[i] \in Entries(seats)
  BY <1>1, <1>2, ElementOfSeq DEF Entries
<1>4. Up \subseteq NamesIn(seats) /\ Running \subseteq DOMAIN seats
  BY <1>1 DEF Up, Running, UpAt
<1> QED
  BY <1>1, <1>2, <1>3, <1>4, PodIsTyped, InputAssumption DEF Inductive, TypeOK

(* The seat of a running name. *)
LEMMA RunningSeatIsAt ==
  ASSUME Inductive, NEW n \in NamesIn(seats)
  PROVE  \E i \in DOMAIN seats :
           /\ seats[i].name = n /\ SeatNamed(seats, n) = seats[i]
           /\ n \in Up <=> i \in Running
BY TheList, SeatNamedIsThere DEF Running, UpAt

(* A step that leaves the pod's seats as they are. *)
LEMMA CensusUnmoved ==
  ASSUME UNCHANGED <<pod, policy, seats, status>>
  PROVE  /\ Up' = Up /\ Running' = Running
         /\ EveryoneServed' <=> EveryoneServed
         /\ KnownSeats' <=> KnownSeats
         /\ \A l \in Launchers : Stamped(l)' <=> Stamped(l)
<1>1. Up' = Up
  BY DEF Up
<1>2. Running' = Running
  BY <1>1 DEF Running
<1> QED
  BY <1>1, <1>2 DEF EveryoneServed, KnownSeats, Stamped

LEMMA NobodyElseIsStuck ==
  ASSUME NEW l \in Launchers, NoneIsStuck(l), UNCHANGED <<pod, seats, status>>,
         pc[l] = "wait" /\ walk[l].name \in DOMAIN status => status[walk[l].name] # "pending"
  PROVE  NoneIsStuck(l)'
BY DEF NoneIsStuck

(* The part of a history a theorem of it needs. *)
LEMMA UndisturbedSoFar ==
  ASSUME Inductive, [Next]_vars, Undisturbed'
  PROVE  Undisturbed
<1>1. pod' = pod /\ policy' = policy /\ (plain' => plain) /\ (calm' => calm)
  BY SettingStays
<1>2. corrects' => corrects
  <2>1. CASE \E l \in Launchers : Launch(l)
    BY <2>1 DEF Launch, Begin
  <2>2. CASE ~\E l \in Launchers : Launch(l)
    BY <2>2
       DEF Next, vars, setting, Step, PutLost, CallFails, Reconnect, StartWalk, TryRung,
           NoRungAdmitted, GetSubresource, PutConflicts, PutInvalid, PutDenied, PutAccepted,
           WaitRunning, WaitRefused, WaitTimesOut, Probed, Unprobed, Correct, Node,
           KubeletStarts, KubeletRefusesIt, SeatExits, Report, OtherWrite, PodReplaced
  <2> QED
    BY <2>1, <2>2
<1> QED
  BY <1>1, <1>2 DEF Undisturbed, PolicyLeavesGidsAlone, FullNeverComesFirst

(* A fault ends an undisturbed history. *)
LEMMA FaultsDisturb ==
  ASSUME Fault
  PROVE  ~Undisturbed'
BY DEF Fault, Undisturbed

-----------------------------------------------------------------------------
(* The steps, in an undisturbed history. *)

LEMMA BeginKeepsCensus ==
  ASSUME Inductive, NEW l \in Launchers, NEW r \in Requests, Begin(l, r),
         Undisturbed', Census(l)
  PROVE  Census(l)'
<1>1. /\ want'[l] = r /\ pc'[l] = "read" /\ session'[l] = NoSession /\ pc[l] = "idle"
  BY DEF Begin, Goto, Inductive, TypeOK
<1>2. UNCHANGED <<pod, policy, seats, status>>
  BY DEF Begin
<1>3. Plainly(r) /\ r.probe /\ r.correct
  BY DEF Begin, Undisturbed
<1>4. EveryoneServed
  BY <1>1 DEF Census, FirstPass, SecondPass
<1>5. EveryoneServed' /\ KnownSeats' /\ NoneIsStuck(l)'
  BY <1>1, <1>2, <1>4, CensusUnmoved, NobodyElseIsStuck DEF Census
<1>6. InFirstPass(l)' /\ Asks(l)'
  BY <1>1, <1>3 DEF Plainly, InFirstPass, Asks
<1>7. AtItsSeat(l)'
  BY <1>1 DEF AtItsSeat, Handed, NoSession
<1>8. FirstPass(l)'
  BY <1>1, <1>5 DEF FirstPass
<1> QED
  BY <1>5, <1>6, <1>7, <1>8 DEF Census

(* A reconnect is offered a seat exactly where the census has one. *)
LEMMA ReusableIsLive ==
  ASSUME Inductive, NEW l \in Launchers, Stamped(l), NEW ids
  PROVE  \A i : i \in Reusable(seats, Up, ids, Owner[l])
                 <=> i \in Live(seats, Running) /\ (ids = NoIds \/ Pins(seats[i], ids))
<1>1. \A i \in DOMAIN seats : seats[i].owner = Owner[l]
  BY TheList DEF Stamped
<1>2. \A x, y : x = y => ~OwnedByAnother(x, y)
  BY DEF OwnedByAnother
<1>3. \A i \in DOMAIN seats :
        seats[i].name \in SupersededSeats(seats, Up)
          <=> i \in Running /\ \E j \in Running : Overrides(seats, j, i)
  <2> TAKE i \in DOMAIN seats
  <2>1. ASSUME seats[i].name \in SupersededSeats(seats, Up)
        PROVE  i \in Running /\ \E j \in Running : Overrides(seats, j, i)
    <3>1. PICK k \in DOMAIN seats :
            /\ seats[k].name = seats[i].name
            /\ seats[k].name \in Up
            /\ seats[k].ctx.uid # NoId
            /\ \E j \in DOMAIN seats :
                 /\ j > k
                 /\ seats[j].name \in Up
                 /\ seats[j].target = seats[k].target
                 /\ seats[j].ctx.uid = seats[k].ctx.uid
                 /\ ~OwnedByAnother(seats[j].owner, seats[k].owner)
                 /\ seats[j].ctx.gid \notin {NoId, seats[k].ctx.gid}
      BY <2>1 DEF SupersededSeats
    <3>2. k = i
      BY <3>1, TheList DEF Unique
    <3> QED
      BY <3>1, <3>2 DEF Running, UpAt, Overrides
  <2>2. ASSUME i \in Running, NEW j \in Running, Overrides(seats, j, i)
        PROVE  seats[i].name \in SupersededSeats(seats, Up)
    <3>1. i \in DOMAIN seats /\ j \in DOMAIN seats /\ seats[i].name \in Up /\ seats[j].name \in Up
      BY <2>2 DEF Running, UpAt
    <3>2. ~OwnedByAnother(seats[j].owner, seats[i].owner)
      BY <1>1, <1>2, <3>1
    <3> QED
      BY <2>2, <3>1, <3>2 DEF SupersededSeats, Overrides
  <2> QED
    BY <2>1, <2>2
<1>4. \A i \in DOMAIN seats :
        seats[i].name \in Up \ SupersededSeats(seats, Up) <=> i \in Live(seats, Running)
  BY <1>3 DEF Live, Running, UpAt
<1>5. \A i \in Live(seats, Running) : i \in DOMAIN seats
  BY DEF Live, Running, UpAt
<1>6. \A i \in DOMAIN seats : ~OwnedByAnother(seats[i].owner, Owner[l])
  BY <1>1, <1>2
<1> QED
  BY <1>4, <1>5, <1>6 DEF Reusable, Pins

LEMMA FoundIsReusable ==
  ASSUME Inductive, NEW l \in Launchers, NEW ids
  PROVE  /\ \A n \in RunningSeat(pod, seats, Up, ids, Owner[l]) :
              \E i \in Reusable(seats, Up, ids, Owner[l]) : seats[i].name = n
         /\ Reusable(seats, Up, ids, Owner[l]) # {}
              => RunningSeat(pod, seats, Up, ids, Owner[l]) # {}
<1> DEFINE candidates == Reusable(seats, Up, ids, Owner[l])
           able == {i \in candidates : ~CannotReachItsTarget(pod, seats[i])}
           pool == IF able # {} THEN able ELSE candidates
<1>1. RunningSeat(pod, seats, Up, ids, Owner[l])
        = {seats[i].name : i \in {i \in pool : \A j \in pool : i <= j}}
  BY DEF RunningSeat
<1>2. pool \subseteq candidates
  OBVIOUS
<1>3. ASSUME candidates # {}
      PROVE  \E i \in pool : \A j \in pool : i <= j
  <2>1. candidates \subseteq DOMAIN seats
    BY DEF Reusable
  <2>2. pool # {}
    BY <1>3
  <2>3. pool \in SUBSET Nat
    BY <1>2, <2>1, TheList
  <2> QED
    BY <2>2, <2>3, LeastNatural
<1> HIDE DEF pool, candidates
<1>4. candidates # {} => RunningSeat(pod, seats, Up, ids, Owner[l]) # {}
  BY <1>1, <1>3
<1>5. \A n \in RunningSeat(pod, seats, Up, ids, Owner[l]) : \E i \in candidates : seats[i].name = n
  BY <1>1, <1>2
<1> QED
  BY <1>4, <1>5 DEF candidates

(* One is offered where one with those ids runs and is not superseded. *)
LEMMA FoundIsOffered ==
  ASSUME Inductive, NEW l \in Launchers, Stamped(l), NEW ids, ids # NoIds
  PROVE  RunningSeat(pod, seats, Up, ids, Owner[l]) # {} <=> Offers(seats, Running, ids)
<1>1. \A i : i \in Reusable(seats, Up, ids, Owner[l])
               <=> i \in Live(seats, Running) /\ Pins(seats[i], ids)
  BY ReusableIsLive
<1>2. Offers(seats, Running, ids) <=> Reusable(seats, Up, ids, Owner[l]) # {}
  BY <1>1 DEF Offers
<1> QED
  BY <1>2, FoundIsReusable

LEMMA TheFoundIsLive ==
  ASSUME Inductive, NEW l \in Launchers, Stamped(l), NEW ids, ids # NoIds,
         NEW n \in RunningSeat(pod, seats, Up, ids, Owner[l])
  PROVE  \E i \in Live(seats, Running) : seats[i].name = n /\ Pins(seats[i], ids)
<1>1. PICK i \in Reusable(seats, Up, ids, Owner[l]) : seats[i].name = n
  BY FoundIsReusable
<1>2. i \in Live(seats, Running) /\ Pins(seats[i], ids)
  BY <1>1, ReusableIsLive
<1> QED
  BY <1>1, <1>2

(* In the second pass: the seat offered is as wanted, and no ceiling hides it. *)
LEMMA SecondPassFinds ==
  ASSUME Inductive, NEW l \in Launchers, Stamped(l), KnownSeats, Asks(l), pod.sidecar = {},
         pc[l] # "idle", ~InFirstPass(l)
  PROVE  Existing(l) # {} <=> Offers(seats, Running, Wants(l))
<1> DEFINE found == RunningSeat(pod, seats, Up, WantedIds(l), Owner[l])
<1>1. want[l].uid > 0 /\ want[l].gid # NoId /\ WantedUid(l) = want[l].uid
  BY DEF Asks, InFirstPass, WantedUid, NoId
<1>2. WantedIds(l) = Wants(l) /\ Wants(l) # NoIds
  BY <1>1 DEF WantedIds, Wants, NoIds
<1>3. found # {} <=> Offers(seats, Running, Wants(l))
  BY <1>2, FoundIsOffered
<1>4. ASSUME NEW n \in found
      PROVE  ~AboveCeiling(SeatNamed(seats, n).ctx, want[l].ceiling, WantedUid(l))
  <2>1. PICK i \in Live(seats, Running) : seats[i].name = n /\ Pins(seats[i], Wants(l))
    BY <1>2, <1>4, TheFoundIsLive
  <2>2. i \in DOMAIN seats
    BY <2>1 DEF Live, Running, UpAt
  <2>3. SeatNamed(seats, n) = seats[i] /\ KnownKind(pod, seats[i]) /\ seats[i].ctx \in Context
    BY <2>1, <2>2, TheList, SeatNamedIsTheEntry DEF KnownSeats, Seat
  <2>4. seats[i].ctx.uid = want[l].uid /\ ~seats[i].ctx.ptrace
    BY <1>1, <2>1, <2>3 DEF Pins, Wants, KnownKind
  <2> QED
    BY <1>1, <2>3, <2>4 DEF AboveCeiling, RungOfSpec, NoId
<1>5. Existing(l) = {s \in {SeatNamed(seats, n) : n \in found} :
                       ~AboveCeiling(s.ctx, want[l].ceiling, WantedUid(l))}
  BY DEF Existing
<1> HIDE DEF found
<1>6. Existing(l) # {} <=> found # {}
  BY <1>4, <1>5
<1> QED
  BY <1>3, <1>6

(* An attach under way that only moves on. *)
LEMMA AsksTheSame ==
  ASSUME NEW l \in Launchers, Asks(l), want'[l] = want[l], pc[l] # "idle"
  PROVE  /\ Asks(l)' /\ (InFirstPass(l)' <=> InFirstPass(l)) /\ Wants(l)' = Wants(l)
BY DEF Asks, InFirstPass, Wants

LEMMA ReconnectKeepsCensus ==
  ASSUME Inductive, NEW l \in Launchers, Reconnect(l), Stamped(l), Undisturbed, Census(l),
         NothingHandedYet(l)
  PROVE  Census(l)'
<1>1. /\ UNCHANGED <<pod, policy, seats, status, want, session>>
      /\ pc[l] = "read" /\ pc'[l] = "measure" /\ Existing(l) # {}
      /\ \E s \in Existing(l) : hand'[l].name = s.name /\ hand'[l].reused
  BY DEF Reconnect, setting, Goto, Inductive, TypeOK
<1>2. hand'[l].name \in Up /\ hand'[l].reused
  <2>1. PICK s \in Existing(l) : hand'[l].name = s.name /\ hand'[l].reused
    BY <1>1
  <2>2. PICK n \in RunningSeat(pod, seats, Up, WantedIds(l), Owner[l]) : s = SeatNamed(seats, n)
    BY <2>1 DEF Existing, Undisturbed
  <2>3. n \in Up /\ n \in NamesIn(seats)
    BY <2>2, RunningSeatRuns
  <2>4. s.name = n
    BY <2>2, <2>3, SeatNamedIsThere
  <2> QED
    BY <2>1, <2>3, <2>4
<1>3. EveryoneServed
  <2>1. CASE InFirstPass(l)
    BY <1>1, <2>1 DEF Census, FirstPass
  <2>2. CASE ~InFirstPass(l)
    <3>1. Offers(seats, Running, Wants(l))
      BY <1>1, <2>2, SecondPassFinds DEF Census, Undisturbed
    <3>2. SecondPass(l)
      BY <2>2 DEF Census
    <3> QED
      BY <1>1, <3>1, <3>2, NothingIsAwaited
         DEF SecondPass, AllButOne, WantsTheReal, EveryoneServed
  <2> QED
    BY <2>1, <2>2
<1>4. EveryoneServed' /\ KnownSeats' /\ NoneIsStuck(l)'
  BY <1>1, <1>3, CensusUnmoved, NobodyElseIsStuck DEF Census
<1>5. Asks(l)' /\ (InFirstPass(l)' <=> InFirstPass(l))
  BY <1>1, AsksTheSame DEF Census
<1>6. AtItsSeat(l)'
  <2>1. Up' = Up
    BY <1>1, CensusUnmoved
  <2>2. ~Handed(l)'
    BY <1>1 DEF NothingHandedYet, Handed, NoSession
  <2> QED
    BY <1>1, <1>2, <2>1, <2>2 DEF AtItsSeat
<1>7. FirstPass(l)' /\ SecondPass(l)'
  BY <1>1, <1>2, <1>4 DEF FirstPass, SecondPass
<1> QED
  BY <1>4, <1>5, <1>6, <1>7 DEF Census

LEMMA StartWalkKeepsCensus ==
  ASSUME Inductive, NEW l \in Launchers, StartWalk(l), Stamped(l), Undisturbed, Census(l),
         NothingHandedYet(l)
  PROVE  Census(l)'
<1>1. /\ UNCHANGED <<pod, policy, seats, status, want, session>>
      /\ pc[l] = "read" /\ pc'[l] = "try" /\ (want[l].new \/ Existing(l) = {})
      /\ walk'[l].todo = TheLadder(l)
      /\ walk'[l].degradedFirst
           = DegradedFirst(pod, want[l].target, WantedUid(l), want[l].ceiling)
      /\ walk'[l].name = NextContainerName(seats) /\ walk'[l].rung = NoRung
  BY DEF StartWalk, setting, Goto, Inductive, TypeOK, NoWalk, TheLadder
<1>2. walk'[l].name \notin NamesIn(seats)
  BY <1>1, TheList, NextNameIsFree
<1>3. KnownSeats' /\ NoneIsStuck(l)' /\ (EveryoneServed' <=> EveryoneServed)
  BY <1>1, CensusUnmoved, NobodyElseIsStuck DEF Census
<1>4. Asks(l)' /\ (InFirstPass(l)' <=> InFirstPass(l)) /\ Wants(l)' = Wants(l)
  BY <1>1, AsksTheSame DEF Census
<1>5. AtItsSeat(l)'
  <2>1. ~Handed(l)'
    BY <1>1 DEF NothingHandedYet, Handed, NoSession
  <2> QED
    BY <1>1, <1>2, <2>1 DEF AtItsSeat
<1>6. CASE InFirstPass(l)
  <2>1. FirstPass(l)'
    BY <1>1, <1>3, <1>6 DEF Census, FirstPass
  <2> QED
    BY <1>3, <1>4, <1>5, <1>6, <2>1 DEF Census
<1>7. CASE ~InFirstPass(l)
  <2>1. ~Offers(seats, Running, Wants(l))
    <3>1. ~want[l].new
      BY <1>1, <1>7 DEF Census, Asks
    <3> QED
      BY <1>1, <1>7, <3>1, SecondPassFinds DEF Census, Undisturbed
  <2>2. AllButOne(l) /\ WantsTheReal(l)
    BY <1>1, <1>7, <2>1 DEF Census, SecondPass
  <2>3. OneIsWanting(l)
    BY <2>1, <2>2, OneIsAwaited DEF AllButOne, WantsTheReal, OneIsWanting
  <2>4. Running' = Running /\ WantedUid(l)' = WantedUid(l) /\ TheLadder(l)' = TheLadder(l)
    BY <1>1, CensusUnmoved DEF WantedUid, TheLadder
  <2>5. OneIsWanting(l)' /\ WantsTheReal(l)'
    BY <1>1, <1>4, <2>2, <2>3, <2>4 DEF OneIsWanting, WantsTheReal
  <2>6. HasItsRungs(l)'
    BY <1>1, <2>4 DEF HasItsRungs, NoRung
  <2>7. SecondPass(l)'
    BY <1>1, <2>5, <2>6 DEF SecondPass
  <2> QED
    BY <1>3, <1>4, <1>5, <1>7, <2>7 DEF Census
<1> QED
  BY <1>6, <1>7

-----------------------------------------------------------------------------
(* The walk. *)

(* A step of a walk that stays at its name, with the seats as they are.      *)
LEMMA WalkOnKeepsCensus ==
  ASSUME Inductive, NEW l \in Launchers, Census(l), NothingHandedYet(l),
         UNCHANGED <<pod, policy, seats, status, want, session>>,
         pc[l] \in {"try", "get", "put"}, pc'[l] \in {"try", "get", "put"},
         walk'[l].name = walk[l].name,
         ~InFirstPass(l) => HasItsRungs(l)'
  PROVE  Census(l)'
<1>1. KnownSeats' /\ NoneIsStuck(l)' /\ (EveryoneServed' <=> EveryoneServed)
  BY CensusUnmoved, NobodyElseIsStuck DEF Census
<1>2. Asks(l)' /\ (InFirstPass(l)' <=> InFirstPass(l)) /\ Wants(l)' = Wants(l)
  BY AsksTheSame DEF Census
<1>3. AtItsSeat(l)'
  <2>1. ~Handed(l)'
    BY DEF NothingHandedYet, Handed, NoSession
  <2> QED
    BY <2>1 DEF AtItsSeat, Census
<1>4. CASE InFirstPass(l)
  <2>1. FirstPass(l)'
    BY <1>1, <1>4 DEF Census, FirstPass
  <2> QED
    BY <1>1, <1>2, <1>3, <1>4, <2>1 DEF Census
<1>5. CASE ~InFirstPass(l)
  <2>1. OneIsWanting(l) /\ WantsTheReal(l)
    BY <1>5 DEF Census, SecondPass
  <2>2. Running' = Running
    BY CensusUnmoved
  <2>3. OneIsWanting(l)' /\ WantsTheReal(l)'
    BY <1>2, <2>1, <2>2 DEF OneIsWanting, WantsTheReal
  <2>4. SecondPass(l)'
    BY <1>5, <2>3 DEF SecondPass
  <2> QED
    BY <1>1, <1>2, <1>3, <1>5, <2>4 DEF Census
<1> QED
  BY <1>4, <1>5

(* Below full, the corrected walk submits the measured ids, and nothing in   *)
(* the cluster objects to them.                                              *)
LEMMA CorrectedRungsPass ==
  ASSUME Inductive, NEW l \in Launchers, Asks(l), pc[l] # "idle", ~InFirstPass(l), Undisturbed,
         NEW rung \in {"degraded", "seat"}
  PROVE  /\ ~Rehearsed(l, rung) /\ ~Refused(l, rung)
         /\ Pins(Admitted(l, rung), Wants(l)) /\ ~Admitted(l, rung).ctx.ptrace
<1>1. /\ want[l].uid > 0 /\ want[l].gid # NoId
      /\ WantedUid(l) = want[l].uid /\ WantedGid(l) = want[l].gid
  BY DEF Asks, InFirstPass, WantedUid, WantedGid, NoId
<1>2. Asked(l, rung) = [uid |-> want[l].uid, gid |-> want[l].gid, ptrace |-> FALSE,
                        nonRoot |-> TRUE]
  BY <1>1 DEF Asked, RungContext
<1>3. policy.setGid = NoId /\ policy.denyGid = NoId
  BY DEF Undisturbed, PolicyLeavesGidsAlone
<1>4. /\ Admit(policy, Asked(l, rung)).uid = want[l].uid
      /\ Admit(policy, Asked(l, rung)).gid = want[l].gid
      /\ ~Admit(policy, Asked(l, rung)).ptrace
  <2>2. /\ Admit(policy, Asked(l, rung)).uid = Asked(l, rung).uid
        /\ Admit(policy, Asked(l, rung)).gid = Asked(l, rung).gid
    BY <1>3, <1>2 DEF Admit
  <2>3. Admit(policy, Asked(l, rung)).ptrace = (Asked(l, rung).ptrace /\ ~policy.strip)
    BY <1>2 DEF Admit
  <2>4. ~Asked(l, rung).ptrace
    BY <1>2
  <2>5. Asked(l, rung).uid = want[l].uid /\ Asked(l, rung).gid = want[l].gid
    BY <1>2
  <2> QED
    BY <2>2, <2>3, <2>4, <2>5
<1>5. ~Denied(policy, Asked(l, rung))
  BY <1>3, <1>4 DEF Denied
<1>6. ~Rehearsed(l, rung)
  BY <1>1, <1>2, <1>4, <1>5
     DEF Rehearsed, AdmissionWedgesTheKubelet, CapabilitiesRemoved, Wedged, NoId
<1>7. Admitted(l, rung).ctx = Admit(policy, Asked(l, rung))
  BY DEF Admitted, Authored
<1> QED
  BY <1>4, <1>5, <1>6, <1>7 DEF Refused, Pins, Wants

(* A corrected walk never comes to the full rung, but where it is refused.   *)
LEMMA FullComesRefused ==
  ASSUME Inductive, NEW l \in Launchers, Asks(l), pc[l] = "try", ~InFirstPass(l), Undisturbed,
         HasItsRungs(l), OnTheLadder(l), walk[l].todo # {},
         NextRung(walk[l].todo, walk[l].degradedFirst) = "full"
  PROVE  policy.denyPtrace /\ ~policy.strip
<1> SUFFICES ASSUME ~pod.sharePid
             PROVE  FALSE
  BY DEF Undisturbed, FullNeverComesFirst
<1>1. want[l].uid > 0 /\ WantedUid(l) = want[l].uid /\ want[l].ceiling \in {"degraded", "seat", NoRung}
  BY WantedIsTyped DEF Asks, InFirstPass, WantedUid, NoId, Inductive, Request, Rung
<1>2. walk[l].todo \in SUBSET Rung /\ walk[l].degradedFirst \in BOOLEAN
  BY DEF Inductive, TypeOK, Walk
<1>3. "full" \in TheLadder(l)
  BY <1>2, NextRungIsOnTheLadder DEF OnTheLadder
<1>4. want[l].ceiling = NoRung
  BY <1>1, <1>3 DEF TheLadder, RungsToTry, Below, LadderIndex, NoRung
<1>5. walk[l].degradedFirst
  BY <1>1, <1>4 DEF HasItsRungs, DegradedFirst, SharesPidNamespaceAcrossUids
<1>6. "degraded" \in walk[l].todo
  BY <1>1, <1>4 DEF HasItsRungs, TheLadder, RungsToTry, Below, Rung
<1> DEFINE turn(rung) == Turn(rung, walk[l].degradedFirst)
<1>7. turn("full") = 1 /\ turn("degraded") = 0
  BY <1>5 DEF Turn, LadderIndex
<1>8. \A other \in walk[l].todo : turn("degraded") <= turn(other)
  BY <1>2, <1>5 DEF Turn, LadderIndex, Rung
<1>9. \A other \in walk[l].todo :
        turn(NextRung(walk[l].todo, walk[l].degradedFirst)) <= turn(other)
  BY <1>6, <1>8 DEF NextRung
<1>10. turn("full") <= turn("degraded")
  BY <1>6, <1>9
<1> QED
  BY <1>7, <1>10

LEMMA TryRungKeepsCensus ==
  ASSUME Inductive, NEW l \in Launchers, TryRung(l), Undisturbed, Undisturbed', Census(l),
         NothingHandedYet(l), OnTheLadder(l)
  PROVE  Census(l)'
<1> DEFINE rung == NextRung(walk[l].todo, walk[l].degradedFirst)
<1>1. /\ UNCHANGED <<pod, policy, seats, status, want, session>>
      /\ pc[l] = "try" /\ walk[l].todo # {}
  BY DEF TryRung, setting
<1>2. walk[l] \in Walk /\ walk \in [Launchers -> Walk] /\ pc \in [Launchers -> Call]
  BY DEF Inductive, TypeOK
<1>3. rung \in walk[l].todo /\ rung \in Rung
  BY <1>1, <1>2, NextRungIsOnTheLadder DEF Walk
<1>4. ~InFirstPass(l) => HasItsRungs(l) /\ Asks(l)
  BY <1>1 DEF Census, SecondPass
<1>5. TheLadder(l)' = TheLadder(l) /\ WantedUid(l)' = WantedUid(l)
  BY <1>1 DEF TheLadder, WantedUid
<1>6. CASE /\ Rehearsed(l, rung)
           /\ walk' = [walk EXCEPT ![l] = [walk[l] EXCEPT !.todo = @ \ {rung}, !.rung = NoRung,
                                                       !.attempt = 0]]
           /\ pc' = pc
  <2>1. /\ walk'[l].name = walk[l].name /\ walk'[l].rung = NoRung
        /\ walk'[l].todo = walk[l].todo \ {rung}
        /\ walk'[l].degradedFirst = walk[l].degradedFirst
    BY <1>2, <1>6 DEF Walk
  <2>2. ASSUME ~InFirstPass(l)
        PROVE  HasItsRungs(l)'
    <3>1. rung = "full"
      BY <1>1, <1>3, <1>4, <1>6, <2>2, CorrectedRungsPass DEF Rung
    <3> QED
      BY <1>1, <1>4, <1>5, <2>1, <2>2, <3>1 DEF HasItsRungs, NoRung
  <2> QED
    BY <1>1, <1>6, <2>1, <2>2, WalkOnKeepsCensus
<1>7. CASE /\ walk' = [walk EXCEPT ![l] = [walk[l] EXCEPT !.rung = rung, !.attempt = 0]]
           /\ pc'[l] = "get"
  <2>1. /\ walk'[l].name = walk[l].name /\ walk'[l].rung = rung
        /\ walk'[l].todo = walk[l].todo /\ walk'[l].degradedFirst = walk[l].degradedFirst
    BY <1>2, <1>7 DEF Walk
  <2>2. ASSUME ~InFirstPass(l)
        PROVE  HasItsRungs(l)'
    <3>1. rung = "full" => policy.denyPtrace /\ ~policy.strip
      BY <1>1, <1>4, <2>2, FullComesRefused
    <3> QED
      BY <1>1, <1>4, <1>5, <2>1, <2>2, <3>1 DEF HasItsRungs
  <2> QED
    BY <1>1, <1>7, <2>1, <2>2, WalkOnKeepsCensus
<1>8. ~Fault
  BY FaultsDisturb
<1> QED
  BY <1>2, <1>6, <1>7, <1>8 DEF TryRung, Drop, Take, Goto

(* The seat rung is never dropped, so a corrected walk has always one left;  *)
(* a first pass that has none raises, with the seats as they were.           *)
LEMMA GivesUpKeepsCensus ==
  ASSUME Inductive, NEW l \in Launchers, Raise(l), Census(l), EveryoneServed,
         pc[l] # "wait", UNCHANGED <<pod, policy, seats, status, want>>
  PROVE  Census(l)'
<1>1. pc'[l] = "idle" /\ session'[l].outcome = "failed"
  BY DEF Raise, Return, Goto, Inductive, TypeOK, NoSession
<1>2. KnownSeats' /\ NoneIsStuck(l)' /\ EveryoneServed'
  BY CensusUnmoved, NobodyElseIsStuck DEF Census
<1>3. Asks(l)' /\ AtItsSeat(l)'
  BY <1>1 DEF Asks, AtItsSeat, Handed
<1>4. FirstPass(l)' /\ SecondPass(l)'
  BY <1>1, <1>2 DEF FirstPass, SecondPass
<1> QED
  BY <1>2, <1>3, <1>4 DEF Census

LEMMA NoRungAdmittedKeepsCensus ==
  ASSUME Inductive, NEW l \in Launchers, NoRungAdmitted(l), Census(l)
  PROVE  Census(l)'
<1>1. /\ UNCHANGED <<pod, policy, seats, status, want>>
      /\ pc[l] = "try" /\ walk[l].todo = {} /\ Raise(l)
  BY DEF NoRungAdmitted, setting
<1>2. want[l].ceiling \in Rung \cup {NoRung}
  BY WantedIsTyped DEF Inductive, Request
<1>3. "seat" \in TheLadder(l)
  BY <1>2 DEF TheLadder, RungsToTry, Below, LadderIndex, Rung, NoRung
<1>4. InFirstPass(l)
  BY <1>1, <1>3 DEF Census, SecondPass, HasItsRungs
<1>5. EveryoneServed
  BY <1>1, <1>4 DEF Census, FirstPass
<1> QED
  BY <1>1, <1>5, GivesUpKeepsCensus

LEMMA GetSubresourceKeepsCensus ==
  ASSUME Inductive, NEW l \in Launchers, GetSubresource(l), Census(l), NothingHandedYet(l)
  PROVE  Census(l)'
<1>1. /\ UNCHANGED <<pod, policy, seats, status, want, session>>
      /\ pc[l] = "get" /\ pc'[l] = "put"
      /\ walk'[l].name = walk[l].name /\ walk'[l].rung = walk[l].rung
      /\ walk'[l].todo = walk[l].todo /\ walk'[l].degradedFirst = walk[l].degradedFirst
  BY DEF GetSubresource, setting, Goto, Inductive, TypeOK, Walk
<1>2. ~InFirstPass(l) => HasItsRungs(l)'
  BY <1>1 DEF Census, SecondPass, HasItsRungs, TheLadder, WantedUid
<1> QED
  BY <1>1, <1>2, WalkOnKeepsCensus

LEMMA PutConflictsKeepsCensus ==
  ASSUME Inductive, NEW l \in Launchers, PutConflicts(l), Undisturbed', Census(l),
         NothingHandedYet(l)
  PROVE  Census(l)'
<1>1. /\ UNCHANGED <<pod, policy, seats, status, want, walk, session>>
      /\ pc[l] = "put" /\ pc'[l] = "get"
  BY DEF PutConflicts, setting, Goto, Inductive, TypeOK, Undisturbed
<1>2. ~InFirstPass(l) => HasItsRungs(l)'
  BY <1>1 DEF Census, SecondPass, HasItsRungs, TheLadder, WantedUid
<1> QED
  BY <1>1, <1>2, WalkOnKeepsCensus

LEMMA PutIsNeverInvalid ==
  ASSUME Inductive, NEW l \in Launchers, PutInvalid(l), Census(l)
  PROVE  FALSE
BY DEF PutInvalid, NameTaken, Census, AtItsSeat, NamesIn

LEMMA PutDeniedKeepsCensus ==
  ASSUME Inductive, NEW l \in Launchers, PutDenied(l), Undisturbed, Census(l),
         NothingHandedYet(l)
  PROVE  Census(l)'
<1>1. /\ UNCHANGED <<pod, policy, seats, status, want, session>>
      /\ pc[l] = "put" /\ pc'[l] = "try"
      /\ walk'[l].name = walk[l].name /\ walk'[l].rung = NoRung
      /\ walk'[l].todo = walk[l].todo \ {walk[l].rung}
      /\ walk'[l].degradedFirst = walk[l].degradedFirst
      /\ Refused(l, walk[l].rung) /\ walk[l].rung \in Rung
  BY DEF PutDenied, setting, Goto, Drop, Inductive, TypeOK, Walk, RungInHand
<1>2. ASSUME ~InFirstPass(l)
      PROVE  HasItsRungs(l)'
  <2>1. walk[l].rung = "full"
    BY <1>1, <1>2, CorrectedRungsPass DEF Rung, Census
  <2> QED
    BY <1>1, <1>2, <2>1 DEF Census, SecondPass, HasItsRungs, TheLadder, WantedUid, NoRung
<1> QED
  BY <1>1, <1>2, WalkOnKeepsCensus

(* What the rungs of a first pass look like, once admitted: by the manifest. *)
LEMMA SubmittedIsKnown ==
  ASSUME Inductive, NEW l \in Launchers, Asks(l), pc[l] # "idle", Undisturbed,
         NEW rung \in Rung, ~InFirstPass(l) => rung # "full" /\ WantsTheReal(l)
  PROVE  /\ KnownKind(pod, Admitted(l, rung))
         /\ InFirstPass(l) => AsStated(pod, Admitted(l, rung))
         /\ ~InFirstPass(l) => Pins(Admitted(l, rung), Wants(l))
<1> DEFINE a == Admitted(l, rung)
<1>1. a.target = want[l].target /\ a.ctx = Admit(policy, Asked(l, rung))
  BY DEF Admitted, Authored
<1>2. CASE InFirstPass(l)
  <2>1. want[l].uid = NoId /\ want[l].gid = NoId
    BY <1>2 DEF Asks, InFirstPass
  <2>2. /\ WantedUid(l) = pod.workload[want[l].target].uid
        /\ WantedGid(l) = pod.workload[want[l].target].gid
    BY <2>1 DEF WantedUid, WantedGid
  <2>3. policy.setGid = NoId
    BY DEF Undisturbed, PolicyLeavesGidsAlone
  <2> DEFINE asked == Asked(l, rung)
  <2>4. asked \in Context
    BY WantedIsTyped, RungContextIsOne DEF Asked, Inductive
  <2>5. a.ctx.uid = asked.uid /\ a.ctx.gid = asked.gid /\ (a.ctx.ptrace => asked.ptrace)
    <3> HIDE DEF asked
    <3>1. a.ctx = Admit(policy, asked)
      BY <1>1 DEF asked
    <3>2. a.ctx.uid = asked.uid /\ a.ctx.gid = asked.gid
      BY <2>3, <2>4, <3>1 DEF Admit, Context
    <3>3. a.ctx.ptrace = (asked.ptrace /\ ~policy.strip)
      BY <2>4, <3>1 DEF Admit, Context
    <3> QED
      BY <3>2, <3>3
  <2>6. /\ asked.ptrace => asked.uid = 0
        /\ \/ asked.uid \in {NoId, 0}
           \/ asked.uid = WantedUid(l) /\ asked.gid = WantedGid(l)
    BY DEF Asked, RungContext, Rung
  <2>7. AsStated(pod, a)
    BY <1>1, <2>2, <2>5, <2>6 DEF AsStated, Pins, StatedIds
  <2> QED
    BY <1>2, <2>5, <2>6, <2>7 DEF KnownKind
<1>3. CASE ~InFirstPass(l)
  <2>1. Pins(a, Wants(l)) /\ ~a.ctx.ptrace
    BY <1>3, CorrectedRungsPass DEF Rung
  <2>2. Pins(a, RealIds(pod, a.target))
    BY <1>1, <1>3, <2>1 DEF WantsTheReal
  <2> QED
    BY <1>3, <2>1, <2>2 DEF KnownKind
<1> QED
  BY <1>2, <1>3

(* Whoever stores a seat, it bears the launcher's own stamp. *)
LEMMA StoredIsStamped ==
  ASSUME Inductive, NEW l \in Launchers, Stored(l), Stamped(l), walk[l].name \in Nat \ {0}
  PROVE  Stamped(l)'
<1> DEFINE a == Admitted(l, walk[l].rung)
<1>1. walk[l].rung \in Rung
  BY DEF Inductive, RungInHand, Stored
<1>2. a \in Seat /\ a.name = walk[l].name /\ a.owner = Owner[l]
  BY <1>1, SubmittedIsTyped DEF Inductive, Admitted, Authored
<1>3. seats' = Append(Without(seats, a.name), a)
  BY <1>2 DEF Stored, Spliced
<1> HIDE DEF a
<1>4. Entries(seats') = {e \in Entries(seats) : e.name # a.name} \cup {a}
  BY <1>2, <1>3, TheList, SpliceKeepsNamesUnique
<1> QED
  BY <1>2, <1>4 DEF Stamped, Sidecar

(* A fresh name: the list grows by one, at its end. *)
LEMMA StoredGrowsTheList ==
  ASSUME Inductive, NEW l \in Launchers, Stored(l), walk[l].name \notin NamesIn(seats)
  PROVE  LET a == Admitted(l, walk[l].rung) IN
         /\ a \in Seat /\ a.name = walk[l].name
         /\ seats' = Append(seats, a)
         /\ seats' # <<>> /\ seats'[Len(seats')] = a
         /\ Entries(seats)' = Entries(seats) \cup {a}
         /\ SeatNamed(seats', walk[l].name) = a
         /\ \A n \in NamesIn(seats) : SeatNamed(seats', n) = SeatNamed(seats, n)
         /\ Up' = Up /\ Running' = Running
         /\ walk[l].name \notin Up'
         /\ \A i \in Running : seats'[i] = seats[i]
<1> DEFINE a == Admitted(l, walk[l].rung)
<1>1. walk[l].rung \in Rung
  BY DEF Inductive, RungInHand, Stored
<1>2. a \in Seat /\ a.name = walk[l].name
  BY <1>1, SubmittedIsTyped DEF Inductive
<1>3. seats' = Append(seats, a)
  BY DEF Stored, Spliced, Without
<1>4. /\ Unique(seats)' /\ Entries(seats) \subseteq Entries(seats)' /\ a \in Entries(seats)'
  BY StoredKeepsEntries
<1> HIDE DEF a
<1>5. /\ Len(seats) \in Nat /\ DOMAIN seats = 1 .. Len(seats) /\ seats \in Seq(Seat)
  BY TheList
<1>6. /\ Len(seats') = Len(seats) + 1 /\ DOMAIN seats' = 1 .. Len(seats) + 1
      /\ seats'[Len(seats) + 1] = a
      /\ \A i \in 1 .. Len(seats) : seats'[i] = seats[i]
  BY <1>2, <1>3, <1>5
<1>7. seats' # <<>> /\ seats'[Len(seats')] = a
  BY <1>5, <1>6
<1>8. Entries(seats)' = Entries(seats) \cup {a}
  BY <1>4, <1>5, <1>6 DEF Entries
<1>9. SeatNamed(seats', walk[l].name) = a
  BY <1>2, <1>4, SeatNamedIsTheEntry
<1>10. ASSUME NEW n \in NamesIn(seats)
       PROVE  SeatNamed(seats', n) = SeatNamed(seats, n)
  <2>1. PICK i \in DOMAIN seats : SeatNamed(seats, n) = seats[i] /\ seats[i].name = n
    BY SeatNamedIsThere
  <2>2. seats[i] \in Entries(seats)'
    BY <1>4, TheList
  <2>3. SeatNamed(seats', n) = seats[i]
    BY <1>4, <2>1, <2>2, SeatNamedIsTheEntry
  <2> QED
    BY <2>1, <2>3
<1>11. Up' = Up /\ walk[l].name \notin Up'
  <2>1. walk[l].name \notin DOMAIN status
    BY TheList
  <2>2. status' = [n \in DOMAIN status \cup {walk[l].name} |->
                     IF n = walk[l].name THEN "pending" ELSE status[n]]
    BY <2>1 DEF Stored
  <2> QED
    BY <2>1, <2>2 DEF Up
<1>12. Running' = Running
  BY <1>2, <1>5, <1>6, <1>11 DEF Running, UpAt
<1>13. \A i \in Running : seats'[i] = seats[i]
  BY <1>5, <1>6, TheList
<1> QED
  BY <1>2, <1>3, <1>7, <1>8, <1>9, <1>10, <1>11, <1>12, <1>13 DEF a

LEMMA PutAcceptedKeepsCensus ==
  ASSUME Inductive, NEW l \in Launchers, PutAccepted(l), Undisturbed, Census(l),
         NothingHandedYet(l)
  PROVE  Census(l)'
<1> DEFINE a == Admitted(l, walk[l].rung)
<1>1. /\ UNCHANGED <<pod, policy, want, session>> /\ Stored(l)
      /\ pc[l] = "put" /\ pc'[l] = "wait" /\ walk[l].rung \in Rung
      /\ ~Refused(l, walk[l].rung) /\ a.target = want[l].target
  BY DEF PutAccepted, Stored, setting, Goto, Inductive, TypeOK, RungInHand, Admitted, Authored
<1>2. walk'[l].name = walk[l].name
  BY WalkIsTyped DEF PutAccepted, Moved, Walk
<1>3. walk[l].name \notin NamesIn(seats) /\ Asks(l)
  BY <1>1 DEF Census, AtItsSeat
<1>4. /\ a \in Seat /\ a.name = walk[l].name
      /\ seats' # <<>> /\ seats'[Len(seats')] = a
      /\ Entries(seats)' = Entries(seats) \cup {a}
      /\ SeatNamed(seats', walk[l].name) = a
      /\ \A n \in NamesIn(seats) : SeatNamed(seats', n) = SeatNamed(seats, n)
      /\ Up' = Up /\ Running' = Running /\ walk[l].name \notin Up'
      /\ \A i \in Running : seats'[i] = seats[i]
  BY <1>1, <1>3, StoredGrowsTheList
<1>5. ASSUME ~InFirstPass(l)
      PROVE  walk[l].rung # "full" /\ WantsTheReal(l) /\ OneIsWanting(l)
  <2>1. WantsTheReal(l) /\ OneIsWanting(l) /\ HasItsRungs(l)
    BY <1>1, <1>5 DEF Census, SecondPass
  <2>2. ASSUME walk[l].rung = "full"
        PROVE  FALSE
    <3>1. policy.denyPtrace /\ ~policy.strip
      BY <2>1, <2>2 DEF HasItsRungs
    <3>2. Asked(l, walk[l].rung).ptrace
      BY <2>2 DEF Asked, RungContext
    <3>3. Asked(l, walk[l].rung) \in Context
      BY <1>1, WantedIsTyped, RungContextIsOne DEF Asked, Inductive
    <3>4. Admit(policy, Asked(l, walk[l].rung)).ptrace
            = (Asked(l, walk[l].rung).ptrace /\ ~policy.strip)
      BY <3>3 DEF Admit, Context
    <3> QED
      BY <1>1, <3>1, <3>2, <3>4 DEF Refused, Denied
  <2> QED
    BY <2>1, <2>2
<1>6. /\ KnownKind(pod, a)
      /\ InFirstPass(l) => AsStated(pod, a)
      /\ ~InFirstPass(l) => Pins(a, Wants(l))
  BY <1>1, <1>3, <1>5, SubmittedIsKnown
<1> HIDE DEF a
<1>7. Asks(l)' /\ (InFirstPass(l)' <=> InFirstPass(l)) /\ Wants(l)' = Wants(l)
  BY <1>1, <1>3, AsksTheSame
<1>8. KnownSeats'
  BY <1>1, <1>4, <1>6 DEF Census, KnownSeats
<1>9. NoneIsStuck(l)'
  <2>1. /\ DOMAIN status = NamesIn(seats)
        /\ status' = [n \in DOMAIN status \cup {walk[l].name} |->
                        IF n = walk[l].name THEN "pending" ELSE status[n]]
    BY <1>1, <1>3, TheList DEF Stored
  <2>2. ASSUME NEW n \in DOMAIN status', n # walk[l].name
        PROVE  /\ status'[n] \notin {"exited", "pending"}
               /\ status'[n] = "refused" => KubeletRefuses(pod, SeatNamed(seats, n).ctx)'
    <3>1. n \in DOMAIN status /\ status'[n] = status[n] /\ n \in NamesIn(seats)
      BY <2>1, <2>2
    <3>2. status[n] \notin {"exited", "pending"}
      BY <1>1, <3>1 DEF Census, NoneIsStuck
    <3>3. status[n] = "refused" => KubeletRefuses(pod, SeatNamed(seats, n).ctx)
      BY <3>1 DEF Census, NoneIsStuck
    <3>4. SeatNamed(seats', n) = SeatNamed(seats, n)
      BY <1>4, <3>1
    <3> QED
      BY <1>1, <3>1, <3>2, <3>3, <3>4
  <2>3. status'[walk[l].name] = "pending"
    BY <2>1
  <2> QED
    BY <1>1, <1>2, <2>2, <2>3 DEF NoneIsStuck
<1>10. AtItsSeat(l)'
  <2>1. ~Handed(l)'
    BY <1>1 DEF NothingHandedYet, Handed, NoSession
  <2> QED
    BY <1>1, <1>2, <1>4, <2>1 DEF AtItsSeat
<1>11. CASE InFirstPass(l)
  <2>1. EveryoneServed
    BY <1>1, <1>11 DEF Census, FirstPass
  <2>2. EveryoneServed'
    BY <1>1, <1>4, <2>1, CensusStays DEF EveryoneServed
  <2>3. FirstPass(l)'
    <3>1. SeatNamed(seats', walk'[l].name) = a /\ walk'[l].name \notin Up' /\ pc'[l] = "wait"
      BY <1>1, <1>2, <1>4
    <3>2. AsStated(pod', a)
      BY <1>1, <1>6, <1>11
    <3> QED
      BY <2>2, <3>1, <3>2 DEF FirstPass
  <2> QED
    BY <1>7, <1>8, <1>9, <1>10, <1>11, <2>3 DEF Census
<1>12. CASE ~InFirstPass(l)
  <2>1. OneIsWanting(l)'
    BY <1>1, <1>4, <1>5, <1>12, CensusStays DEF OneIsWanting
  <2>2. WantsTheReal(l)'
    BY <1>1, <1>5, <1>7, <1>12 DEF WantsTheReal
  <2>3. SecondPass(l)'
    <3>1. SeatNamed(seats', walk'[l].name) = a /\ walk'[l].name \notin Up' /\ pc'[l] = "wait"
      BY <1>1, <1>2, <1>4
    <3>2. Pins(a, Wants(l)')
      BY <1>6, <1>7, <1>12
    <3> QED
      BY <2>1, <2>2, <3>1, <3>2 DEF SecondPass
  <2> QED
    BY <1>7, <1>8, <1>9, <1>10, <1>12, <2>3 DEF Census
<1> QED
  BY <1>11, <1>12

LEMMA WaitRunningKeepsCensus ==
  ASSUME Inductive, NEW l \in Launchers, WaitRunning(l), Census(l), NothingHandedYet(l)
  PROVE  Census(l)'
<1>1. /\ UNCHANGED <<pod, policy, seats, status, want, session>>
      /\ pc[l] = "wait" /\ pc'[l] = "measure" /\ walk[l].name \in Up
      /\ hand'[l].name = walk[l].name /\ ~hand'[l].reused
  BY DEF WaitRunning, setting, Goto, Inductive, TypeOK
<1>2. status[walk[l].name] = "running" /\ Up' = Up
  BY <1>1, CensusUnmoved DEF Up
<1>3. KnownSeats' /\ NoneIsStuck(l)' /\ (EveryoneServed' <=> EveryoneServed)
  BY <1>1, <1>2, CensusUnmoved, NobodyElseIsStuck DEF Census
<1>4. Asks(l)' /\ (InFirstPass(l)' <=> InFirstPass(l))
  BY <1>1, AsksTheSame DEF Census
<1>5. AtItsSeat(l)'
  <2>1. ~Handed(l)'
    BY <1>1 DEF NothingHandedYet, Handed, NoSession
  <2> QED
    BY <1>1, <1>2, <2>1 DEF AtItsSeat
<1>6. CASE InFirstPass(l)
  <2>1. Landed(l, walk[l].name)
    BY <1>1, <1>6 DEF Census, FirstPass
  <2>2. Running' = Running
    BY <1>1, CensusUnmoved
  <2>3. Landed(l, hand[l].name)'
    BY <1>1, <1>3, <2>1, <2>2 DEF Landed, AllButOne
  <2>4. FirstPass(l)'
    BY <1>1, <2>3 DEF FirstPass
  <2> QED
    BY <1>3, <1>4, <1>5, <1>6, <2>4 DEF Census
<1>7. CASE ~InFirstPass(l)
  <2>1. SecondPass(l)'
    BY <1>1, <1>3, <1>7 DEF Census, SecondPass
  <2> QED
    BY <1>3, <1>4, <1>5, <1>7, <2>1 DEF Census
<1> QED
  BY <1>6, <1>7

(* Only a seat of a first pass is refused by the node. *)
LEMMA WaitRefusedKeepsCensus ==
  ASSUME Inductive, NEW l \in Launchers, WaitRefused(l), Census(l), NothingHandedYet(l)
  PROVE  Census(l)'
<1>1. /\ UNCHANGED <<pod, policy, seats, status, want, session>>
      /\ pc[l] = "wait" /\ pc'[l] = "try"
      /\ walk[l].name \in DOMAIN status /\ status[walk[l].name] \in {"refused", "exited"}
      /\ walk'[l].name = NextContainerName(seats)
  BY DEF WaitRefused, setting, Goto, Inductive, TypeOK, Walk
<1>2. /\ KubeletRefuses(pod, SeatNamed(seats, walk[l].name).ctx)
      /\ walk[l].name \notin Up
  BY <1>1 DEF Census, NoneIsStuck, Up
<1>3. InFirstPass(l)
  <2> SUFFICES ASSUME ~InFirstPass(l)
               PROVE  FALSE
    OBVIOUS
  <2>1. Pins(SeatNamed(seats, walk[l].name), Wants(l)) /\ want[l].uid > 0
    BY <1>1 DEF Census, SecondPass, Asks
  <2> QED
    BY <1>2, <2>1 DEF Pins, Wants, KubeletRefuses, RunsAsUid, NoId
<1>4. EveryoneServed
  BY <1>1, <1>2, <1>3 DEF Census, FirstPass
<1>5. KnownSeats' /\ NoneIsStuck(l)' /\ EveryoneServed'
  BY <1>1, <1>4, CensusUnmoved, NobodyElseIsStuck DEF Census
<1>6. Asks(l)' /\ InFirstPass(l)'
  BY <1>1, <1>3, AsksTheSame DEF Census
<1>7. walk'[l].name \notin NamesIn(seats)
  BY <1>1, TheList, NextNameIsFree
<1>8. AtItsSeat(l)'
  <2>1. ~Handed(l)'
    BY <1>1 DEF NothingHandedYet, Handed, NoSession
  <2> QED
    BY <1>1, <1>7, <2>1 DEF AtItsSeat
<1>9. FirstPass(l)'
  BY <1>1, <1>5 DEF FirstPass
<1> QED
  BY <1>5, <1>6, <1>8, <1>9 DEF Census

-----------------------------------------------------------------------------
(* The measurement. *)

(* The seat in hand is the one that runs under that name. *)
LEMMA MeasuredIsTheEntry ==
  ASSUME Inductive, NEW l \in Launchers, Stamped(l), Undisturbed, Census(l), pc[l] = "measure"
  PROVE  /\ InHand(l) # {}
         /\ \A s \in InHand(l) :
              /\ s = SeatNamed(seats, hand[l].name) /\ s.name = hand[l].name /\ s.name # Sidecar
              /\ s \in Seat
              /\ \E i \in Running : s = seats[i]
<1>1. hand[l].name \in Up /\ hand[l].name \in NamesIn(seats)
  BY TheList DEF Census, AtItsSeat
<1>2. PICK i \in DOMAIN seats : /\ seats[i].name = hand[l].name
                               /\ SeatNamed(seats, hand[l].name) = seats[i]
                               /\ i \in Running
  BY <1>1, RunningSeatIsAt
<1>3. seats[i].name # Sidecar /\ seats[i] \in Seat
  BY TheList DEF Stamped
<1>4. \A j \in DOMAIN seats : seats[j].name = hand[l].name => j = i
  BY <1>2, TheList DEF Unique
<1>5. InHand(l) = {seats[i]}
  BY <1>1, <1>2, <1>3, <1>4 DEF InHand
<1> QED
  BY <1>2, <1>3, <1>5

(* A first pass pins no id, so its correction is what the measurement asks;  *)
(* a second pass corrects nothing.                                           *)
LEMMA CorrectionIsTheNeed ==
  ASSUME Inductive, NEW l \in Launchers, Asks(l), pc[l] # "idle", NEW s, s.name # Sidecar
  PROVE  Correction(l, s) = IF InFirstPass(l) THEN Need(pod, s) ELSE NoIds
BY DEF Correction, Asks, InFirstPass, Need, NoIds, TargetIds, RealIds

(* The attach returns with the seat in hand. *)
LEMMA HandsOverKeepsCensus ==
  ASSUME Inductive, NEW l \in Launchers, Undisturbed, Census(l), pc[l] = "measure",
         NEW measured, NEW reported, HandOver(l, measured, reported), EveryoneServed,
         UNCHANGED <<pod, policy, seats, status, want>>
  PROVE  Census(l)'
<1>1. pc'[l] = "idle" /\ session'[l].name = hand[l].name
  BY DEF HandOver, Return, Goto, Inductive, TypeOK
<1>2. hand[l].name \in Up /\ Up' = Up
  BY CensusUnmoved DEF Census, AtItsSeat
<1>3. KnownSeats' /\ NoneIsStuck(l)' /\ EveryoneServed'
  BY CensusUnmoved, NobodyElseIsStuck DEF Census
<1>4. Asks(l)' /\ AtItsSeat(l)'
  BY <1>1, <1>2 DEF Asks, AtItsSeat
<1>5. FirstPass(l)' /\ SecondPass(l)'
  BY <1>1, <1>3 DEF FirstPass, SecondPass
<1> QED
  BY <1>3, <1>4, <1>5 DEF Census

LEMMA ProbedKeepsCensus ==
  ASSUME Inductive, NEW l \in Launchers, Probed(l), Stamped(l), Undisturbed, Census(l)
  PROVE  Census(l)'
<1>1. UNCHANGED <<pod, policy, seats, status, want>> /\ pc[l] = "measure"
  BY DEF Probed, setting
<1>2. PICK s \in InHand(l) :
        /\ Correction(l, s) = NoIds
        /\ HandOver(l, MeasuredRung(s.ctx, TargetIds(s).uid, TargetIds(s).gid), TRUE)
  BY DEF Probed
<1>3. s = SeatNamed(seats, hand[l].name) /\ s.name # Sidecar /\ Asks(l)
  BY <1>1, MeasuredIsTheEntry DEF Census
<1>4. EveryoneServed
  <2>1. CASE InFirstPass(l)
    <3>1. Need(pod, s) = NoIds
      BY <1>1, <1>2, <1>3, <2>1, CorrectionIsTheNeed
    <3> QED
      BY <1>1, <1>3, <2>1, <3>1 DEF Census, FirstPass, Landed
  <2>2. CASE ~InFirstPass(l)
    BY <1>1, <2>2 DEF Census, SecondPass
  <2> QED
    BY <2>1, <2>2
<1> QED
  BY <1>1, <1>2, <1>4, HandsOverKeepsCensus

(* Every seat of such a history reports. *)
LEMMA NeverUnprobed ==
  ASSUME Inductive, NEW l \in Launchers, Unprobed(l), Stamped(l), Undisturbed, Undisturbed',
         Census(l)
  PROVE  FALSE
<1>1. pc[l] = "measure" /\ want[l].probe
  BY DEF Unprobed, Census, Asks
<1>2. InHand(l) # {}
  BY <1>1, MeasuredIsTheEntry
<1> QED
  BY <1>1, <1>2, FaultsDisturb DEF Unprobed

LEMMA CorrectKeepsCensus ==
  ASSUME Inductive, NEW l \in Launchers, Correct(l), Stamped(l), Undisturbed, Census(l),
         NothingHandedYet(l)
  PROVE  Census(l)'
<1>1. /\ UNCHANGED <<pod, policy, seats, status, session>>
      /\ pc[l] = "measure" /\ pc'[l] = "read" /\ want[l] \in Request
  BY WantedIsTyped DEF Correct, setting, Goto, Inductive, TypeOK
<1>2. PICK s \in InHand(l) :
        /\ Correction(l, s) # NoIds
        /\ want' = [want EXCEPT ![l] = Corrected(want[l], Correction(l, s))]
  BY DEF Correct
<1>3. /\ s = SeatNamed(seats, hand[l].name) /\ s.name # Sidecar /\ Asks(l) /\ s \in Seat
      /\ \E i \in Running : s = seats[i]
  BY <1>1, <1>2, MeasuredIsTheEntry DEF Census
<1>4. InFirstPass(l) /\ Correction(l, s) = Need(pod, s)
  BY <1>1, <1>2, <1>3, CorrectionIsTheNeed
<1> DEFINE ids == Need(pod, s)
<1>5. /\ ids # NoIds /\ ids = RealIds(pod, s.target)
      /\ ids.uid \in Nat \ {0} /\ ids.gid \in Nat
  BY <1>2, <1>3, <1>4, TheList, NeedIsTheRealIds
<1>6. /\ want'[l].uid = ids.uid /\ want'[l].gid = ids.gid /\ want'[l].target = want[l].target
      /\ want'[l].probe = want[l].probe /\ want'[l].ceiling = want[l].ceiling
      /\ ~want'[l].new /\ ~want'[l].correct
  BY <1>1, <1>2, <1>4 DEF Corrected, Request, Inductive, TypeOK
<1>7. Wants(l)' = ids
  BY <1>5, <1>6 DEF Wants, RealIds
<1>8. ~InFirstPass(l)' /\ Asks(l)'
  BY <1>1, <1>3, <1>4, <1>5, <1>6 DEF InFirstPass, Asks, NoId
<1>9. KnownSeats' /\ NoneIsStuck(l)' /\ (EveryoneServed' <=> EveryoneServed) /\ Running' = Running
  BY <1>1, CensusUnmoved, NobodyElseIsStuck DEF Census
<1>10. AtItsSeat(l)'
  <2>1. ~Handed(l)'
    BY <1>1 DEF NothingHandedYet, Handed, NoSession
  <2> QED
    BY <1>1, <2>1 DEF AtItsSeat
<1>11. CASE hand[l].reused
  <2>1. EveryoneServed
    BY <1>1, <1>4, <1>11 DEF Census, FirstPass
  <2>2. Offers(seats, Running, ids)
    BY <1>3, <1>5, <2>1 DEF EveryoneServed, AllServed, Served
  <2>3. EveryoneServed' /\ Offers(seats, Running, Wants(l))'
    BY <1>1, <1>7, <1>9, <2>1, <2>2
  <2>4. SecondPass(l)'
    BY <1>1, <2>3 DEF SecondPass
  <2> QED
    BY <1>8, <1>9, <1>10, <2>4 DEF Census
<1>12. CASE ~hand[l].reused
  <2>1. Landed(l, hand[l].name)
    BY <1>1, <1>4, <1>12 DEF Census, FirstPass
  <2>2. AllButOne(l) /\ s.target = want[l].target
    BY <1>3, <2>1 DEF Landed
  <2>3. AllButOne(l)' /\ WantsTheReal(l)'
    BY <1>1, <1>5, <1>6, <1>7, <1>9, <2>2 DEF AllButOne, WantsTheReal
  <2>4. SecondPass(l)'
    BY <1>1, <2>3 DEF SecondPass
  <2> QED
    BY <1>8, <1>9, <1>10, <2>4 DEF Census
<1> QED
  BY <1>11, <1>12

-----------------------------------------------------------------------------
(* The node and the other writers. *)

(* They move a launcher's body on, and leave the rest of it alone.           *)
LEMMA LaunchersLeftAlone ==
  ASSUME Inductive, NEW l \in Launchers, Census(l), walk' = Moved,
         UNCHANGED <<pod, policy, seats, incarnation, pc, want, hand, session>>
  PROVE  /\ walk'[l].name = walk[l].name /\ walk'[l].rung = walk[l].rung
         /\ walk'[l].todo = walk[l].todo /\ walk'[l].degradedFirst = walk[l].degradedFirst
         /\ Asks(l)' /\ (InFirstPass(l)' <=> InFirstPass(l)) /\ Wants(l)' = Wants(l)
         /\ WantsTheReal(l)' <=> WantsTheReal(l)
         /\ HasItsRungs(l) => HasItsRungs(l)'
         /\ Up \subseteq Up' => AtItsSeat(l)'
         /\ KnownSeats'
<1>1. /\ walk'[l].name = walk[l].name /\ walk'[l].rung = walk[l].rung
      /\ walk'[l].todo = walk[l].todo /\ walk'[l].degradedFirst = walk[l].degradedFirst
  BY WalkIsTyped DEF Moved, Walk
<1>2. Asks(l)' /\ (InFirstPass(l)' <=> InFirstPass(l)) /\ Wants(l)' = Wants(l)
  BY DEF Census, Asks, InFirstPass, Wants
<1>3. WantsTheReal(l)' <=> WantsTheReal(l)
  BY <1>2 DEF WantsTheReal
<1>4. HasItsRungs(l) => HasItsRungs(l)'
  BY <1>1 DEF HasItsRungs, TheLadder, WantedUid
<1>5. Up \subseteq Up' => AtItsSeat(l)'
  BY <1>1 DEF Census, AtItsSeat, Handed
<1>6. KnownSeats'
  BY DEF Census, KnownSeats
<1> QED
  BY <1>1, <1>2, <1>3, <1>4, <1>5, <1>6

(* Where none comes up, all is as it was. *)
LEMMA NoneComesUp ==
  ASSUME Inductive, NEW l \in Launchers, Census(l), walk' = Moved,
         UNCHANGED <<pod, policy, seats, incarnation, pc, want, hand, session>>,
         Up' = Up, NoneIsStuck(l)'
  PROVE  Census(l)'
<1>1. /\ walk'[l].name = walk[l].name
      /\ Asks(l)' /\ (InFirstPass(l)' <=> InFirstPass(l)) /\ Wants(l)' = Wants(l)
      /\ WantsTheReal(l)' <=> WantsTheReal(l)
      /\ HasItsRungs(l) => HasItsRungs(l)'
      /\ AtItsSeat(l)' /\ KnownSeats'
  BY LaunchersLeftAlone
<1>2. Running' = Running
  BY DEF Running
<1>3. /\ EveryoneServed' <=> EveryoneServed
      /\ AllButOne(l)' <=> AllButOne(l)
      /\ OneIsWanting(l)' <=> OneIsWanting(l)
  BY <1>2 DEF EveryoneServed, AllButOne, OneIsWanting
<1>4. CASE InFirstPass(l)
  <2>1. FirstPass(l)
    BY <1>4 DEF Census
  <2>2. FirstPass(l)'
    BY <1>1, <1>3, <2>1 DEF FirstPass, Landed
  <2> QED
    BY <1>1, <1>4, <2>2 DEF Census
<1>5. CASE ~InFirstPass(l)
  <2>1. SecondPass(l)
    BY <1>5 DEF Census
  <2>2. Offers(seats, Running, Wants(l))' <=> Offers(seats, Running, Wants(l))
    BY <1>1, <1>2
  <2>3. Pins(SeatNamed(seats, walk[l].name), Wants(l))'
          <=> Pins(SeatNamed(seats, walk[l].name), Wants(l))
    BY <1>1
  <2>4. SecondPass(l)'
    BY <1>1, <1>3, <2>1, <2>2, <2>3 DEF SecondPass
  <2> QED
    BY <1>1, <1>5, <2>4 DEF Census
<1> QED
  BY <1>4, <1>5

LEMMA OtherWriteKeepsCensus ==
  ASSUME Inductive, NEW l \in Launchers, Census(l), OtherWrite
  PROVE  Census(l)'
<1>1. /\ walk' = Moved
      /\ UNCHANGED <<pod, policy, seats, status, incarnation, pc, want, hand, session>>
  BY DEF OtherWrite, setting
<1>2. walk'[l].name = walk[l].name
  BY <1>1, WalkIsTyped DEF Moved, Walk
<1>3. Up' = Up /\ NoneIsStuck(l)'
  BY <1>1, <1>2 DEF Up, Census, NoneIsStuck
<1> QED
  BY <1>1, <1>3, NoneComesUp

LEMMA KubeletRefusesKeepsCensus ==
  ASSUME Inductive, NEW l \in Launchers, Census(l), NEW n \in DOMAIN status, KubeletRefusesIt(n)
  PROVE  Census(l)'
<1>1. /\ walk' = Moved /\ status' = [status EXCEPT ![n] = "refused"] /\ status[n] = "pending"
      /\ KubeletRefuses(pod, SeatNamed(seats, n).ctx)
      /\ UNCHANGED <<pod, policy, seats, incarnation, pc, want, hand, session>>
  BY DEF KubeletRefusesIt, Report, setting
<1>2. walk'[l].name = walk[l].name
  BY <1>1, WalkIsTyped DEF Moved, Walk
<1>3. DOMAIN status' = DOMAIN status
  BY <1>1
<1>4. Up' = Up
  BY <1>1 DEF Up
<1>5. NoneIsStuck(l)'
  BY <1>1, <1>2, <1>3 DEF Census, NoneIsStuck
<1> QED
  BY <1>1, <1>4, <1>5, NoneComesUp

(* The seat that was waited for comes up: the landings of the census.        *)
LEMMA KubeletStartsKeepsCensus ==
  ASSUME Inductive, NEW l \in Launchers, Census(l), NEW n \in DOMAIN status, KubeletStarts(n)
  PROVE  Census(l)'
<1> DEFINE k == Len(seats)
<1>1. /\ walk' = Moved /\ status' = [status EXCEPT ![n] = "running"] /\ status[n] = "pending"
      /\ UNCHANGED <<pod, policy, seats, incarnation, pc, want, hand, session>>
  BY DEF KubeletStarts, Report, setting
<1>2. pc[l] = "wait" /\ walk[l].name = n
  BY <1>1 DEF Census, NoneIsStuck
<1>3. Up' = Up \cup {n} /\ n \notin Up
  BY <1>1 DEF Up
<1>4. seats # <<>> /\ seats[k].name = n /\ seats[k].target = want[l].target
  BY <1>2 DEF Census, AtItsSeat
<1>5. /\ k \in DOMAIN seats /\ seats[k] \in Entries(seats)
      /\ Running \in SUBSET (DOMAIN seats) /\ seats \in Seq(Seat) /\ pod \in Pod
  BY <1>4, TheList
<1>6. Running' = Running \cup {k}
  <2>1. \A i \in DOMAIN seats : seats[i].name = n <=> i = k
    BY <1>4, <1>5, TheList DEF Unique
  <2> QED
    BY <1>1, <1>3, <1>5, <2>1 DEF Running, UpAt
<1>7. \A i \in Running : i < k
  <2>1. k \notin Running
    BY <1>3, <1>4 DEF Running, UpAt
  <2> QED
    BY <1>5, <2>1, TheList
<1>8. SeatNamed(seats, n) = seats[k]
  BY <1>4, <1>5, TheList, SeatNamedIsTheEntry
<1>9. \A i \in Running : KnownKind(pod, seats[i])
  BY <1>5, TheList DEF Census, KnownSeats
<1>10. /\ walk'[l].name = n
       /\ Asks(l)' /\ (InFirstPass(l)' <=> InFirstPass(l)) /\ Wants(l)' = Wants(l)
       /\ WantsTheReal(l)' <=> WantsTheReal(l)
       /\ AtItsSeat(l)' /\ KnownSeats'
  BY <1>1, <1>2, <1>3, LaunchersLeftAlone
<1>11. NoneIsStuck(l)'
  <2>1. DOMAIN status' = DOMAIN status /\ status'[n] = "running"
        /\ \A m \in DOMAIN status : m # n => status'[m] = status[m]
    BY <1>1
  <2> QED
    BY <1>1, <1>2, <2>1 DEF Census, NoneIsStuck
<1> HIDE DEF k
<1>12. CASE InFirstPass(l)
  <2>1. AsStated(pod, seats[k]) /\ AllServed(pod, seats, Running)
    BY <1>2, <1>3, <1>8, <1>12 DEF Census, FirstPass, EveryoneServed
  <2>2. /\ AllButServed(pod, seats, Running \cup {k}, seats[k].target)
        /\ Need(pod, seats[k]) = NoIds => AllServed(pod, seats, Running \cup {k})
    BY <1>5, <1>7, <1>9, <2>1, FirstSeatLands
  <2>3. Landed(l, n)'
    BY <1>1, <1>4, <1>6, <1>8, <2>2 DEF Landed, AllButOne, EveryoneServed
  <2>4. FirstPass(l)'
    BY <1>1, <1>2, <1>3, <1>8, <1>10, <2>1, <2>3 DEF FirstPass, Landed
  <2> QED
    BY <1>10, <1>11, <1>12, <2>4 DEF Census
<1>13. CASE ~InFirstPass(l)
  <2>1. /\ WantsTheReal(l) /\ Pins(seats[k], Wants(l))
        /\ AwaitsOne(pod, seats, Running, want[l].target)
    BY <1>2, <1>3, <1>8, <1>13 DEF Census, SecondPass, OneIsWanting
  <2>2. Pins(seats[k], RealIds(pod, seats[k].target))
    BY <1>4, <2>1 DEF WantsTheReal
  <2>3. AllServed(pod, seats, Running \cup {k})
    BY <1>4, <1>5, <1>7, <2>1, <2>2, CorrectedSeatLands
  <2>4. EveryoneServed'
    BY <1>1, <1>6, <2>3 DEF EveryoneServed
  <2>5. SecondPass(l)'
    BY <1>1, <1>2, <1>3, <1>8, <1>10, <2>1, <2>4 DEF SecondPass
  <2> QED
    BY <1>10, <1>11, <1>13, <2>5 DEF Census
<1> QED
  BY <1>12, <1>13

-----------------------------------------------------------------------------
(* Together. *)

LEMMA NextKeepsStamped ==
  ASSUME Owning, NEW l \in Launchers, OneLauncher, Stamped(l), [Next]_vars
  PROVE  Stamped(l)'
<1>1. CASE Stored(l)
  <2>1. walk[l].name \in Nat \ {0}
    BY <1>1 DEF Owning, Own, WalksWithAName, Stored
  <2> QED
    BY <1>1, <2>1, StoredIsStamped DEF Owning
<1>2. CASE ~Stored(l)
  <2>1. seats' = seats \/ seats' = <<>>
    BY <1>2
       DEF OneLauncher, Next, vars, Launch, Begin, Step, PutLost, CallFails, Reconnect, StartWalk,
           TryRung, NoRungAdmitted, GetSubresource, PutConflicts, PutInvalid, PutDenied,
           PutAccepted, WaitRunning, WaitRefused, WaitTimesOut, Probed, Unprobed, Correct, Node,
           KubeletStarts, KubeletRefusesIt, SeatExits, Report, OtherWrite, PodReplaced
  <2> QED
    BY <2>1 DEF Stamped, Entries
<1> QED
  BY <1>1, <1>2

LEMMA NextKeepsCensus ==
  ASSUME Walking, NEW l \in Launchers, OneLauncher, Stamped(l), Census(l),
         Undisturbed, Undisturbed', [Next]_vars
  PROVE  Census(l)'
<1>1. Inductive /\ NothingHandedYet(l) /\ OnTheLadder(l)
  BY DEF Walking, Owning, Own, Walks
<1>2. ~Fault
  BY FaultsDisturb
<1>3. CASE Launch(l)
  BY <1>1, <1>3, BeginKeepsCensus DEF Launch
<1>4. CASE Step(l)
  <2>1. ~WaitTimesOut(l)
    BY DEF WaitTimesOut, Undisturbed
  <2> QED
    BY <1>1, <1>4, <2>1, ReconnectKeepsCensus, StartWalkKeepsCensus, TryRungKeepsCensus,
       NoRungAdmittedKeepsCensus, GetSubresourceKeepsCensus, PutConflictsKeepsCensus,
       PutIsNeverInvalid, PutDeniedKeepsCensus, PutAcceptedKeepsCensus, WaitRunningKeepsCensus,
       WaitRefusedKeepsCensus, ProbedKeepsCensus, NeverUnprobed, CorrectKeepsCensus
       DEF Step
<1>5. ~PutLost(l) /\ ~CallFails(l) /\ ~PodReplaced /\ \A n : ~SeatExits(n)
  BY <1>2 DEF PutLost, CallFails, PodReplaced, SeatExits
<1>6. CASE Node
  BY <1>1, <1>5, <1>6, KubeletStartsKeepsCensus, KubeletRefusesKeepsCensus DEF Node
<1>7. CASE OtherWrite
  BY <1>1, <1>7, OtherWriteKeepsCensus
<1>8. CASE UNCHANGED vars
  <2>1. UNCHANGED <<pod, policy, seats, status, incarnation, pc, want, walk, hand, session>>
    BY <1>8 DEF vars
  <2> QED
    BY <2>1
       DEF Census, KnownSeats, NoneIsStuck, Asks, AtItsSeat, Handed, Up, InFirstPass, FirstPass,
           SecondPass, Landed, AllButOne, OneIsWanting, EveryoneServed, Running, WantsTheReal,
           Wants, HasItsRungs, TheLadder, WantedUid
<1>9. Launch(l) \/ Step(l) \/ PutLost(l) \/ CallFails(l) \/ Node \/ OtherWrite \/ PodReplaced
        \/ UNCHANGED vars
  BY DEF Next, OneLauncher
<1> QED
  BY <1>3, <1>4, <1>5, <1>6, <1>7, <1>8, <1>9

LEMMA CensusFindsTheSeats ==
  ASSUME Inductive, NEW l \in Launchers, Stamped(l), Census(l), pc[l] = "idle", Handed(l)
  PROVE  LET found(ids) == RunningSeat(pod, seats, Up, ids, Owner[l])
         IN  /\ found(NoIds) # {}
             /\ \A n \in found(NoIds) :
                  LET s   == SeatNamed(seats, n)
                      ids == IdCorrection(Self(s), TargetIds(s), NoIds)
                  IN  ids # NoIds => found(ids) # {}
<1> DEFINE found(ids) == RunningSeat(pod, seats, Up, ids, Owner[l])
<1>1. EveryoneServed /\ session[l].name \in Up
  BY DEF Census, FirstPass, SecondPass, AtItsSeat
<1>2. Running # {}
  <2>1. session[l].name \in NamesIn(seats)
    BY <1>1, TheList
  <2> QED
    BY <1>1, <2>1, RunningSeatIsAt
<1>3. Live(seats, Running) # {}
  BY <1>2, TheList, SomeSeatIsLive
<1>4. Reusable(seats, Up, NoIds, Owner[l]) # {}
  BY <1>3, ReusableIsLive
<1>5. found(NoIds) # {}
  BY <1>4, FoundIsReusable
<1>6. ASSUME NEW n \in found(NoIds), Need(pod, SeatNamed(seats, n)) # NoIds
      PROVE  found(Need(pod, SeatNamed(seats, n))) # {}
  <2>1. n \in Up /\ n \in NamesIn(seats)
    BY <1>6, RunningSeatRuns
  <2>2. PICK i \in Running : SeatNamed(seats, n) = seats[i]
    BY <2>1, RunningSeatIsAt
  <2>3. Offers(seats, Running, Need(pod, seats[i]))
    BY <1>1, <1>6, <2>2 DEF EveryoneServed, AllServed, Served
  <2> QED
    BY <1>6, <2>2, <2>3, FoundIsOffered
<1>7. \A s : Need(pod, s) = IdCorrection(Self(s), TargetIds(s), NoIds)
  BY DEF Need, RealIds, TargetIds
<1> QED
  BY <1>5, <1>6, <1>7

(* One launcher at a time: after undisturbed attaches that named no ids and  *)
(* were free to measure and correct, in whatever order of containers,        *)
(* ceilings and --new, the next one finds a seat, and where that seat asks   *)
(* to be corrected, the corrected one: id_correction costs two names, and    *)
(* only ever two (launcher.attach).                                          *)
THEOREM NextAttachIsAlwaysFree ==
  ASSUME OneLauncher
  PROVE  Spec => []NextAttachIsFree
<1> DEFINE Free == \A l \in Launchers : Kept(l)
<1>1. Init => Free
  <2> SUFFICES ASSUME Init, NEW l \in Launchers
               PROVE  Kept(l)
    OBVIOUS
  <2>1. Stamped(l) /\ KnownSeats
    BY DEF Init, Stamped, KnownSeats, Entries
  <2>2. NoneIsStuck(l) /\ Running = {} /\ pc[l] = "idle" /\ ~Handed(l)
    BY DEF Init, NoneIsStuck, Running, UpAt, Handed, NoSession
  <2>3. EveryoneServed
    BY <2>2 DEF EveryoneServed, AllServed
  <2> QED
    BY <2>1, <2>2, <2>3 DEF Kept, Census, Asks, AtItsSeat, FirstPass, SecondPass
<1>2. Free /\ Walking /\ [Next]_vars => Free'
  <2> SUFFICES ASSUME Free, Walking, [Next]_vars, NEW l \in Launchers
               PROVE  Kept(l)'
    BY DEF Free
  <2>1. Inductive /\ Owning
    BY DEF Walking, Owning
  <2>2. Stamped(l)'
    BY <2>1, NextKeepsStamped DEF Kept
  <2>3. ASSUME Undisturbed'
        PROVE  Census(l)'
    BY <2>1, <2>3, UndisturbedSoFar, NextKeepsCensus DEF Kept
  <2> QED
    BY <2>2, <2>3 DEF Kept
<1>3. Free /\ Walking => NextAttachIsFree
  BY CensusFindsTheSeats DEF NextAttachIsFree, Kept, Walking, Owning
<1> HIDE DEF Free
<1> QED
  BY <1>1, <1>2, <1>3, WalkingAlways, PTL DEF Spec

=============================================================================
