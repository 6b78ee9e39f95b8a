-------------------------- MODULE DatasetRebuildProofs --------------------------
(***************************************************************************)
(* Proofs about the audits and rebuilds.  First the algorithms they share  *)
(* (BagAlignment, HandEvents), for streams of any length: which message is *)
(* chosen for an instant, which frames a trim keeps, which windows belong  *)
(* to the events of a hand.  Then DatasetRebuild, for any number of bags,  *)
(* settings, launches and recordings: what is reported is not stale, what  *)
(* has a manifest is complete, what is old is not lost early.  Then the    *)
(* review of the gripper (GripperReview): verdicts agree with the list of  *)
(* bad episodes, and no event of a hand is lost between the cycles.  Then  *)
(* the episode editor (EpisodeEditor), for any recordings: a decision that *)
(* stands is in the configuration, a plan is of a real one, and an export  *)
(* holds the frames that the playback shows.  Last the conversion          *)
(* (RosbagConversion), for any bags, chunks and drops: what is read in     *)
(* chunks is what the whole bag gives, an episode is whole, and a bag      *)
(* without one is reported.                                                *)
(***************************************************************************)
EXTENDS DatasetRebuild, HandEvents, GripperReview, EpisodeEditor, RosbagConversion,
        WellFoundedInduction, FiniteSetTheorems, SequenceTheorems, TLAPS

(* A set of naturals has a least element.                                  *)
LEMMA LeastNatural ==
    ASSUME NEW S \in SUBSET Nat, S # {}
    PROVE  \E i \in S : \A j \in S : i <= j
<1> DEFINE R == OpToRel(<, Nat)
<1>1. \A i, j \in Nat : j < i => <<j, i>> \in R
  BY Zenon DEF OpToRel
<1>2. IsWellFoundedOn(R, Nat)
  BY NatLessThanWellFounded
<1> HIDE DEF R
<1>3. PICK i \in S : \A j \in S : <<j, i>> \notin R
  BY <1>2, WFMin
<1>4. \A j \in S : ~(j < i)
  BY <1>1, <1>3
<1> QED BY <1>4

(* The i-th smallest element of a set of positions.                        *)
LEMMA RankedElement ==
    ASSUME NEW m \in Nat, NEW s \in SUBSET (1..m), NEW i \in 1..Cardinality(s)
    PROVE  \E e \in s : Cardinality({x \in s : x < e}) = i - 1
<1> DEFINE Below(k) == {x \in s : x < k}
           K == {k \in Nat : Cardinality(Below(k)) >= i}
<1>1. 1..m \subseteq Nat /\ IsFiniteSet(1..m)
  BY FS_Interval
<1>2. IsFiniteSet(s)
  BY <1>1, FS_Subset
<1>0. \A x \in s : x \in Nat /\ 0 < x /\ x < m + 1
  OBVIOUS
<1>3. \A k \in Nat : IsFiniteSet(Below(k)) /\ Cardinality(Below(k)) \in Nat
  <2> TAKE k \in Nat
  <2>1. Below(k) \in SUBSET s
    OBVIOUS
  <2> QED BY <1>2, <2>1, FS_Subset, FS_CardinalityType
<1>4. m + 1 \in K
  <2>1. Below(m + 1) = s
    BY <1>0
  <2>2. m + 1 \in Nat /\ Cardinality(s) >= i
    BY <1>2, FS_CardinalityType
  <2> QED BY <2>1, <2>2
<1>5. PICK k \in K : \A j \in K : k <= j
  <2> HIDE DEF K
  <2>1. K \in SUBSET Nat
    BY DEF K
  <2> QED BY <1>4, <2>1, LeastNatural
<1>6. k # 0
  <2>0. \A x \in s : ~(x < 0)
    BY <1>0
  <2>1. Below(0) = {}
    BY <2>0
  <2>2. Cardinality(Below(0)) = 0
    BY <2>1, FS_EmptySet
  <2> QED BY <2>2
<1>7. k - 1 \in Nat /\ Cardinality(Below(k - 1)) < i
  <2>1. k - 1 \in Nat /\ k - 1 \notin K
    BY <1>5, <1>6
  <2> QED BY <1>3, <2>1
<1>8. k - 1 \in s
  <2> SUFFICES ASSUME k - 1 \notin s PROVE FALSE
    OBVIOUS
  <2>1. \A x \in s : x < k <=> x < k - 1
    BY <1>0, <1>7
  <2>2. Below(k) = Below(k - 1)
    BY <2>1
  <2> QED BY <1>5, <1>7, <2>2
<1>9. Cardinality(Below(k)) = Cardinality(Below(k - 1)) + 1
  <2>1. \A x \in s : x < k <=> (x < k - 1 \/ x = k - 1)
    BY <1>0, <1>7
  <2>2. Below(k) = Below(k - 1) \cup {k - 1}
    BY <1>8, <2>1
  <2>3. k - 1 \notin Below(k - 1)
    BY <1>7
  <2>4. IsFiniteSet(Below(k - 1))
    BY <1>3, <1>7
  <2> HIDE DEF Below
  <2>5. Cardinality(Below(k - 1) \cup {k - 1}) = Cardinality(Below(k - 1)) + 1
    BY <2>3, <2>4, FS_AddElement
  <2> QED BY <2>2, <2>5
<1>10. Cardinality(Below(k - 1)) = i - 1
  <2>1. PICK c \in Nat, d \in Nat : c = Cardinality(Below(k - 1)) /\ d = Cardinality(Below(k))
    BY <1>3, <1>5, <1>7
  <2>2. c < i /\ d >= i /\ d = c + 1
    BY <1>5, <1>7, <1>9, <2>1
  <2>3. i \in Nat
    BY <1>2, FS_CardinalityType
  <2> QED BY <2>1, <2>2, <2>3
<1> QED BY <1>8, <1>10

(* The last element of a non-empty set of positions.                       *)
LEMMA LastPosition ==
    ASSUME NEW n \in Nat, NEW S \in SUBSET (1..n), S # {}
    PROVE  \E i \in S : \A j \in S : j <= i
<1> DEFINE M == {n - i : i \in S}
<1>1. M \in SUBSET Nat /\ M # {}
  <2>1. PICK i \in S : TRUE
    OBVIOUS
  <2>2. n - i \in M
    OBVIOUS
  <2>3. M \in SUBSET Nat
    OBVIOUS
  <2> QED BY <2>2, <2>3
<1>2. PICK m \in M : \A k \in M : m <= k
  BY <1>1, LeastNatural
<1>3. PICK i \in S : m = n - i
  BY <1>2
<1>4. \A j \in S : n - i <= n - j
  BY <1>2, <1>3
<1> QED BY <1>3, <1>4

(* A set of integers with a bound has a greatest or least element.         *)
LEMMA GreatestBelow ==
    ASSUME NEW t \in Int, NEW S \in SUBSET Int, S # {}, \A x \in S : x <= t
    PROVE  \E x \in S : \A y \in S : y <= x
<1> DEFINE M == {t - x : x \in S}
<1>1. M \in SUBSET Nat /\ M # {}
  <2>1. PICK x \in S : TRUE
    OBVIOUS
  <2>2. t - x \in M
    OBVIOUS
  <2>3. M \in SUBSET Nat
    OBVIOUS
  <2> QED BY <2>2, <2>3
<1>2. PICK m \in M : \A k \in M : m <= k
  BY <1>1, LeastNatural
<1>3. PICK x \in S : m = t - x
  BY <1>2
<1>4. \A y \in S : t - x <= t - y
  BY <1>2, <1>3
<1> QED BY <1>3, <1>4

LEMMA LeastAbove ==
    ASSUME NEW t \in Int, NEW S \in SUBSET Int, S # {}, \A x \in S : t <= x
    PROVE  \E x \in S : \A y \in S : x <= y
<1> DEFINE M == {x - t : x \in S}
<1>1. M \in SUBSET Nat /\ M # {}
  <2>1. PICK x \in S : TRUE
    OBVIOUS
  <2>2. x - t \in M
    OBVIOUS
  <2>3. M \in SUBSET Nat
    OBVIOUS
  <2> QED BY <2>2, <2>3
<1>2. PICK m \in M : \A k \in M : m <= k
  BY <1>1, LeastNatural
<1>3. PICK x \in S : m = x - t
  BY <1>2
<1>4. \A y \in S : x - t <= y - t
  BY <1>2, <1>3
<1> QED BY <1>3, <1>4
-----------------------------------------------------------------------------
(* On a stream in order the messages before an instant are its first ones. *)
LEMMA BeforeIsPrefix ==
    ASSUME NEW ts \in Seq(Int), NEW t \in Int, Increasing(ts)
    PROVE  /\ Before(ts, t) \in 0..Len(ts)
           /\ \A i \in 1..Len(ts) : ts[i] < t <=> i <= Before(ts, t)
<1> DEFINE S == {i \in DOMAIN ts : ts[i] < t}
<1>0. Len(ts) \in Nat /\ DOMAIN ts = 1..Len(ts) /\ \A i \in 1..Len(ts) : ts[i] \in Int
  OBVIOUS
<1>1. CASE S = {}
  <2>1. Before(ts, t) = 0
    BY <1>1, FS_EmptySet DEF Before
  <2> QED BY <1>0, <1>1, <2>1
<1>2. CASE S # {}
  <2>1. PICK k \in S : \A j \in S : j <= k
    BY <1>0, <1>2, LastPosition
  <2>2. S = 1..k
    <3>1. \A i \in 1..k : ts[i] < t
      <4> TAKE i \in 1..k
      <4>1. i \in 1..Len(ts) /\ k \in 1..Len(ts) /\ ts[k] < t
        BY <1>0, <2>1
      <4>2. CASE i = k
        BY <4>1, <4>2
      <4>3. CASE i # k
        <5>1. ts[i] < ts[k]
          BY <1>0, <4>1, <4>3 DEF Increasing
        <5> QED BY <1>0, <4>1, <5>1
      <4> QED BY <4>2, <4>3
    <3> QED BY <1>0, <2>1, <3>1
  <2>3. Cardinality(1..k) = k
    BY <1>0, <2>1, FS_Interval
  <2>4. Before(ts, t) = k
    BY <2>2, <2>3 DEF Before
  <2>5. \A i \in 1..Len(ts) : ts[i] < t <=> i \in 1..k
    BY <1>0, <2>2
  <2> QED BY <1>0, <2>1, <2>4, <2>5
<1> QED BY <1>1, <1>2

(* A message closer than every other, or as close and earlier, is the one  *)
(* that argmin finds.                                                      *)
Closest(ts, t, i) ==
    \A j \in DOMAIN ts : \/ Distance(ts[i], t) < Distance(ts[j], t)
                         \/ Distance(ts[i], t) = Distance(ts[j], t) /\ i <= j
LEMMA ClosestIsFirst ==
    ASSUME NEW ts \in Seq(Int), NEW t \in Int, NEW i \in 1..Len(ts), Closest(ts, t, i)
    PROVE  NearestFirst(ts, t) = i
<1>1. DOMAIN ts = 1..Len(ts) /\ \A k \in 1..Len(ts) : Distance(ts[k], t) \in Int
  BY DEF Distance
<1>2. \E k \in DOMAIN ts : Closest(ts, t, k)
  BY <1>1
<1>3. NearestFirst(ts, t) \in DOMAIN ts /\ Closest(ts, t, NearestFirst(ts, t))
  BY <1>2 DEF NearestFirst, Closest
<1> HIDE DEF NearestFirst
<1> QED BY SMTT(20), <1>1, <1>3 DEF Closest

(* Whichever neighbour of the instant wins, and the later one wins only    *)
(* when it is strictly closer, is the closest message of all.              *)
THEOREM NearestAgreement ==
    ASSUME NEW ts \in Seq(Int) \ {<<>>}, NEW t \in Int, Increasing(ts)
    PROVE  NearestAgree(ts, t)
<1> DEFINE n == Len(ts)  b == Before(ts, t)
<1>1. /\ n \in Nat /\ n >= 1 /\ DOMAIN ts = 1..n /\ b \in 0..n
      /\ \A i \in 1..n : ts[i] \in Int
      /\ \A i, j \in 1..n : i < j => ts[i] < ts[j]
      /\ \A i \in 1..n : ts[i] < t <=> i <= b
  <2>1. n \in Nat /\ n >= 1 /\ DOMAIN ts = 1..n /\ \A i \in 1..n : ts[i] \in Int
    OBVIOUS
  <2>2. b \in 0..n /\ \A i \in 1..n : ts[i] < t <=> i <= b
    BY BeforeIsPrefix
  <2>3. \A i, j \in 1..n : i < j => ts[i] < ts[j]
    BY <2>1 DEF Increasing
  <2> HIDE DEF n, b
  <2> QED BY <2>1, <2>2, <2>3
<1> DEFINE d(i) == Distance(ts[i], t)
<1>2. \A i \in 1..n : d(i) = IF i <= b THEN t - ts[i] ELSE ts[i] - t
  BY <1>1 DEF Distance
<1>3. \A i, j \in 1..n : i < j /\ j <= b => d(j) < d(i)
  BY <1>1, <1>2
<1>4. \A i, j \in 1..n : b < i /\ i < j => d(i) < d(j)
  BY <1>1, <1>2
<1>5. \A i \in 1..n : d(i) \in Int
  BY <1>1, <1>2
<1> HIDE DEF b, n, d
<1>6. ASSUME NEW i \in 1..n, i = b \/ i = b + 1,
             b \in 1..n /\ i = b + 1 => d(i) < d(b),
             b + 1 \in 1..n /\ i = b => d(i) <= d(b + 1)
      PROVE  NearestFirst(ts, t) = i
  <2>1. \A j \in 1..n : d(i) < d(j) \/ (d(i) = d(j) /\ i <= j)
    <3> TAKE j \in 1..n
    <3>1. CASE j <= b
      <4>1. b \in 1..n /\ (j = b \/ d(b) < d(j))
        BY <1>1, <1>3, <3>1
      <4> QED BY <1>1, <1>5, <1>6, <3>1, <4>1
    <3>2. CASE b < j
      <4>1. b + 1 \in 1..n /\ (j = b + 1 \/ d(b + 1) < d(j))
        BY <1>1, <1>4, <3>2
      <4> QED BY <1>1, <1>5, <1>6, <3>2, <4>1
    <3> QED BY <1>1, <3>1, <3>2
  <2>2. Closest(ts, t, i)
    BY <1>1, <2>1 DEF Closest, d
  <2> QED BY <1>6, <2>2, ClosestIsFirst DEF n
<1>7. NearestSorted(ts, t) = NearestFirst(ts, t)
  <2>1. NearestSorted(ts, t) =
          IF b = 0 THEN 1 ELSE IF b < n /\ d(b + 1) < d(b) THEN b + 1 ELSE b
    BY DEF NearestSorted, b, n, d
  <2>2. NearestSorted(ts, t) \in 1..n
    BY <1>1, <2>1
  <2> QED BY <1>1, <1>5, <1>6, <2>1, <2>2
<1>8. NearestClipped(ts, t) = NearestFirst(ts, t)
  <2> DEFINE right == IF b < n THEN b + 1 ELSE n
             left  == IF right > 1 THEN right - 1 ELSE 1
  <2>1. NearestClipped(ts, t) = IF d(right) < d(left) THEN right ELSE left
    BY DEF NearestClipped, b, n, d
  <2>2. CASE b = 0
    <3>1. right = 1 /\ left = 1
      BY <1>1, <2>2
    <3> QED BY <1>1, <1>5, <1>6, <2>1, <2>2, <3>1
  <2>3. CASE b # 0 /\ b < n
    <3>1. right = b + 1 /\ left = b
      BY <1>1, <2>3
    <3> QED BY <1>1, <1>5, <1>6, <2>1, <2>3, <3>1
  <2>4. CASE b # 0 /\ b = n
    <3>1. right = n /\ (n > 1 => left = n - 1) /\ (n = 1 => left = n)
      BY <1>1, <2>4
    <3>2. NearestClipped(ts, t) = n
      BY <1>1, <1>3, <2>1, <2>4, <3>1
    <3> QED BY <1>1, <1>5, <1>6, <2>4, <3>2
  <2> QED BY <1>1, <2>2, <2>3, <2>4
<1> QED BY <1>7, <1>8 DEF NearestAgree
-----------------------------------------------------------------------------
(* What CHOOSE finds: the newest message of a set of positions, the newest *)
(* stamp not after an instant, the oldest not before it.                   *)
LEMMA NewestExists ==
    ASSUME NEW ts \in Seq(Int), NEW t \in Int, Past(ts, t) # {}
    PROVE  /\ CausalHold(ts, t) \in Past(ts, t)
           /\ \A j \in Past(ts, t) : ts[j] <= ts[CausalHold(ts, t)]
<1> DEFINE P == Past(ts, t)
<1>1. /\ P \in SUBSET (1..Len(ts)) /\ Len(ts) \in Nat
      /\ \A i \in P : ts[i] \in Int /\ ts[i] <= t
  BY DEF Past
<1> DEFINE V == {ts[i] : i \in P}
<1>2. V \in SUBSET Int /\ V # {} /\ \A x \in V : x <= t
  <2>1. PICK i \in P : TRUE
    OBVIOUS
  <2>2. ts[i] \in V
    OBVIOUS
  <2> QED BY <1>1, <2>2
<1> HIDE DEF P
<1>3. PICK x \in V : \A y \in V : y <= x
  BY <1>2, GreatestBelow
<1> DEFINE T == {i \in P : ts[i] = x}
<1>4. T \in SUBSET (1..Len(ts)) /\ T # {}
  BY <1>1, <1>3
<1>5. PICK k \in T : \A j \in T : j <= k
  BY <1>1, <1>4, LastPosition
<1>6. \A j \in P : ts[j] < ts[k] \/ (ts[j] = ts[k] /\ j <= k)
  <2> TAKE j \in P
  <2>1. ts[j] <= x /\ ts[k] = x
    BY <1>3, <1>5
  <2> QED BY SMTT(20), <1>1, <1>2, <1>5, <2>1
<1>7. \E i \in P : \A j \in P : ts[j] < ts[i] \/ (ts[j] = ts[i] /\ j <= i)
  BY <1>5, <1>6
<1>8. /\ CausalHold(ts, t) \in P
      /\ \A j \in P : \/ ts[j] < ts[CausalHold(ts, t)]
                      \/ ts[j] = ts[CausalHold(ts, t)] /\ j <= CausalHold(ts, t)
  BY <1>7 DEF CausalHold, Newest, P
<1> DEFINE h == CausalHold(ts, t)
<1> HIDE DEF h
<1>9. h \in P /\ \A j \in P : ts[j] < ts[h] \/ ts[j] = ts[h]
  BY <1>8 DEF h
<1>10. \A j \in P : ts[j] <= ts[h]
  <2> TAKE j \in P
  <2>1. ts[j] \in Int /\ ts[h] \in Int
    BY <1>1, <1>9
  <2> QED BY <1>9, <2>1
<1> QED BY <1>9, <1>10 DEF h, P

LEMMA StampsOfStream ==
    ASSUME NEW ts \in Seq(Int)
    PROVE  Stamps(ts) \in SUBSET Int /\ \A i \in DOMAIN ts : ts[i] \in Stamps(ts)
BY DEF Stamps

LEMMA LastByIsLast ==
    ASSUME NEW ts \in Seq(Int), NEW t \in Int, NEW x \in Stamps(ts), x <= t,
           \A y \in Stamps(ts) : y <= t => y <= x
    PROVE  LastBy(ts, t) = x
<1>1. Stamps(ts) \in SUBSET Int
  BY StampsOfStream
<1>2. LastBy(ts, t) \in Stamps(ts) /\ LastBy(ts, t) <= t /\ x <= LastBy(ts, t)
  BY DEF LastBy
<1>3. LastBy(ts, t) <= x
  BY <1>2
<1> HIDE DEF LastBy
<1> QED BY <1>1, <1>2, <1>3

LEMMA FirstFromExists ==
    ASSUME NEW ts \in Seq(Int), NEW t \in Int, NEW y \in Stamps(ts), t <= y
    PROVE  FirstFrom(ts, t) \in Stamps(ts) /\ FirstFrom(ts, t) >= t
<1> DEFINE A == {z \in Stamps(ts) : t <= z}
<1>1. A \in SUBSET Int /\ A # {} /\ \A z \in A : t <= z
  BY StampsOfStream
<1>2. PICK x \in A : \A z \in A : x <= z
  BY <1>1, LeastAbove
<1>3. x \in Stamps(ts) /\ x >= t /\ \A z \in Stamps(ts) : z >= t => x <= z
  BY <1>1, <1>2, StampsOfStream
<1> QED BY <1>3 DEF FirstFrom

(* The message that a rebuild holds for a frame is the one whose age the   *)
(* audit has measured, also when stamps repeat or run backwards.           *)
THEOREM HoldMeasured ==
    ASSUME NEW ts \in Seq(Int), NEW t \in Int
    PROVE  HoldIsMeasured(ts, t)
<1> SUFFICES ASSUME Past(ts, t) # {}
             PROVE  LET i == CausalHold(ts, t)
                    IN /\ i \in Past(ts, t) /\ \A j \in Past(ts, t) : ts[j] <= ts[i]
                       /\ Age(ts, t) = t - ts[i]
                       /\ Bracketed(ts, t) =>
                            Age(ts, t) <= Bracket(ts, t) /\ 2 * Nearer(ts, t) <= Bracket(ts, t)
  BY DEF HoldIsMeasured
<1> DEFINE i == CausalHold(ts, t)
<1>1. i \in Past(ts, t) /\ \A j \in Past(ts, t) : ts[j] <= ts[i]
  BY NewestExists
<1>2. i \in DOMAIN ts /\ ts[i] \in Int /\ ts[i] <= t /\ ts[i] \in Stamps(ts)
  BY <1>1, StampsOfStream DEF Past
<1> HIDE DEF i
<1>3. \A y \in Stamps(ts) : y <= t => y <= ts[i]
  BY <1>1 DEF Stamps, Past
<1>4. LastBy(ts, t) = ts[i]
  BY <1>2, <1>3, LastByIsLast
<1>5. Age(ts, t) = t - ts[i]
  BY <1>4 DEF Age
<1>6. ASSUME Bracketed(ts, t)
      PROVE  Age(ts, t) <= Bracket(ts, t) /\ 2 * Nearer(ts, t) <= Bracket(ts, t)
  <2>1. PICK y \in Stamps(ts) : t <= y
    BY <1>6 DEF Bracketed
  <2>2. FirstFrom(ts, t) \in Int /\ FirstFrom(ts, t) >= t
    BY <2>1, FirstFromExists, StampsOfStream
  <2> DEFINE f == FirstFrom(ts, t)
  <2>3. Bracket(ts, t) = f - ts[i]
    BY <1>4 DEF Bracket
  <2>4. Nearer(ts, t) = IF t - ts[i] < f - t THEN t - ts[i] ELSE f - t
    BY <1>5 DEF Nearer
  <2> HIDE DEF f
  <2>5. f \in Int /\ f >= t
    BY <2>2 DEF f
  <2> QED BY <1>2, <1>5, <2>3, <2>4, <2>5
<1> QED BY <1>1, <1>5, <1>6 DEF i

(* Trimming keeps every frame in which a command moves, however many idle  *)
(* frames are kept around the motion.                                      *)
THEOREM TrimKeeps ==
    ASSUME NEW active \in Seq(BOOLEAN), NEW pre \in Nat, NEW post \in Nat
    PROVE  TrimKeepsMotion(active, pre, post)
<1> DEFINE n == Len(active)  on == {i \in DOMAIN active : Bridged(active)[i]}
<1>1. n \in Nat /\ DOMAIN active = 1..n
  OBVIOUS
<1>2. DOMAIN Bridged(active) = 1..n /\ \A i \in 1..n : active[i] => Bridged(active)[i]
  BY <1>1 DEF Bridged
<1>3. on \in SUBSET (1..n) /\ \A i \in 1..n : active[i] => i \in on
  BY <1>1, <1>2
<1> DEFINE first == CHOOSE i \in on : \A j \in on : i <= j
           last  == CHOOSE i \in on : \A j \in on : j <= i
<1>4. TrimRange(active, pre, post) =
        IF on = {} THEN [start |-> 0, end |-> n + 1]
        ELSE [start |-> IF first > pre THEN first - pre ELSE 0,
              end   |-> IF LastKept(last, post) < n + 1 THEN LastKept(last, post) ELSE n + 1]
  BY DEF TrimRange
<1> HIDE DEF on, n
<1>5. ASSUME on # {}
      PROVE  /\ first \in on /\ last \in on
             /\ \A j \in on : first <= j /\ j <= last
  <2>1. \E i \in on : \A j \in on : i <= j
    BY <1>1, <1>3, <1>5, LeastNatural
  <2>2. \E i \in on : \A j \in on : j <= i
    BY <1>1, <1>3, <1>5, LastPosition
  <2> QED BY <2>1, <2>2
<1> HIDE DEF first, last
<1>6. ASSUME NEW i \in 1..n, active[i]
      PROVE  TrimRange(active, pre, post).start <= i /\ i < TrimRange(active, pre, post).end
  <2>1. i \in on
    BY <1>3, <1>6
  <2>2. first \in 1..n /\ last \in 1..n /\ first <= i /\ i <= last
    BY <1>3, <1>5, <2>1
  <2>3. LastKept(last, post) = last + 1 + post
    BY DEF LastKept, TrimEnd
  <2>4. /\ TrimRange(active, pre, post).start = IF first > pre THEN first - pre ELSE 0
        /\ TrimRange(active, pre, post).end =
             IF LastKept(last, post) < n + 1 THEN LastKept(last, post) ELSE n + 1
    BY <1>4, <2>1
  <2> QED BY <1>1, <2>2, <2>3, <2>4
<1> QED BY <1>1, <1>6 DEF TrimKeepsMotion
-----------------------------------------------------------------------------
Commands == [at : Int, value : Int]

LEMMA NextIsNext ==
    ASSUME NEW E \in SUBSET Nat, NEW e \in E, Later(E, e) # {}
    PROVE  /\ NextOf(E, e) \in E /\ NextOf(E, e) > e
           /\ \A f \in E : f > e => NextOf(E, e) <= f
<1>1. Later(E, e) \in SUBSET Nat
  BY DEF Later
<1>2. \E f \in Later(E, e) : \A g \in Later(E, e) : f <= g
  BY <1>1, LeastNatural
<1>3. NextOf(E, e) \in Later(E, e) /\ \A g \in Later(E, e) : NextOf(E, e) <= g
  BY <1>2 DEF NextOf
<1> QED BY <1>3 DEF Later

(* Until the next edge is not after any later one.                         *)
LEMMA UntilIsBefore ==
    ASSUME NEW cmd \in Seq(Commands), InOrder(cmd), NEW E \in SUBSET DOMAIN cmd,
           NEW e \in E, NEW f \in E, e < f, NEW end
    PROVE  Until(cmd, E, e, end) \in Int /\ Until(cmd, E, e, end) <= cmd[f].at
<1>1. E \in SUBSET Nat /\ f \in Later(E, e)
  BY DEF Later
<1> DEFINE k == NextOf(E, e)
<1>2. k \in E /\ k <= f
  BY <1>1, NextIsNext DEF Later
<1>3. Until(cmd, E, e, end) = cmd[k].at
  BY <1>1 DEF Until
<1> HIDE DEF k
<1>4. cmd[k] \in Commands /\ cmd[f] \in Commands /\ cmd[k].at <= cmd[f].at
  BY <1>2 DEF InOrder
<1> QED BY <1>3, <1>4 DEF Commands

LEMMA EdgesArePositions ==
    ASSUME NEW cmd \in Seq(Commands)
    PROVE  /\ Edges(cmd) \in SUBSET (2..Len(cmd)) /\ Edges(cmd) \in SUBSET DOMAIN cmd
           /\ \A e \in DOMAIN cmd : cmd[e].at \in Int
<1>1. Len(cmd) \in Nat /\ DOMAIN cmd = 1..Len(cmd)
  OBVIOUS
<1>2. Edges(cmd) \in SUBSET (2..Len(cmd))
  BY DEF Edges
<1>3. \A e \in DOMAIN cmd : cmd[e] \in Commands
  OBVIOUS
<1>4. \A e \in DOMAIN cmd : cmd[e].at \in Int
  BY <1>3 DEF Commands
<1> QED BY <1>1, <1>2, <1>4

(* No two grasps of a claw share an instant in which the hand may answer.  *)
THEOREM ClawWindowsAreApart ==
    ASSUME NEW cmd \in Seq(Commands), InOrder(cmd), NEW end \in Int, EventWindow \in Int
    PROVE  ClawWindowsApart(cmd, end)
<1> SUFFICES ASSUME NEW e \in Edges(cmd), NEW f \in Edges(cmd), e < f
             PROVE  ClawWindow(cmd, end, e) < cmd[f].at
  BY DEF ClawWindowsApart
<1> DEFINE u == Until(cmd, Edges(cmd), e, end)
<1>1. u \in Int /\ u <= cmd[f].at /\ cmd[e].at \in Int /\ cmd[f].at \in Int
  BY EdgesArePositions, UntilIsBefore
<1>2. ClawWindow(cmd, end, e) =
        IF cmd[e].at + EventWindow < u - 1 THEN cmd[e].at + EventWindow ELSE u - 1
  BY DEF ClawWindow, Lesser
<1> HIDE DEF u
<1> QED BY <1>1, <1>2

(* Nor do two held grasps of task 3; they are held for MinHold, so as much *)
(* lies between them, and their windows end with the interval.             *)
THEOREM HeldWindowsAreApart ==
    ASSUME NEW cmd \in Seq(Commands), InOrder(cmd), NEW start \in Int, NEW end \in Int,
           EventWindow \in Int, MinHold \in Int
    PROVE  HeldWindowsApart(cmd, start, end)
<1> DEFINE W == Within(cmd, start, end)  H == Held(cmd, start, end)
<1>1. /\ H \in SUBSET W /\ W \in SUBSET Edges(cmd) /\ W \in SUBSET DOMAIN cmd
      /\ \A e \in W : cmd[e].at \in Int /\ cmd[e].at <= end
  BY EdgesArePositions DEF Within, Held
<1>2. ASSUME NEW e \in H
      PROVE  HeldWindow(cmd, start, end, e) \in Int /\ HeldWindow(cmd, start, end, e) <= end
  <2> DEFINE u == Until(cmd, H, e, end)
  <2>1. u \in Int
    <3>1. CASE Later(H, e) = {}
      BY <3>1 DEF Until
    <3>2. CASE Later(H, e) # {}
      <4>1. NextOf(H, e) \in H
        <5>1. H \in SUBSET Nat
          BY <1>1
        <5> HIDE DEF H
        <5> QED BY <5>1, <1>2, <3>2, NextIsNext
      <4> QED BY <1>1, <3>2, <4>1 DEF Until
    <3> QED BY <3>1, <3>2
  <2>2. HeldWindow(cmd, start, end, e) =
          LET v == IF u - 1 < end THEN u - 1 ELSE end
          IN IF cmd[e].at + EventWindow < v THEN cmd[e].at + EventWindow ELSE v
    BY DEF HeldWindow, Lesser
  <2>3. cmd[e].at \in Int
    BY <1>1, <1>2
  <2> HIDE DEF u
  <2> QED BY <2>1, <2>2, <2>3
<1>3. ASSUME NEW e \in H, NEW f \in H, e < f
      PROVE  HeldWindow(cmd, start, end, e) < cmd[f].at /\ cmd[f].at - cmd[e].at >= MinHold
  <2> DEFINE u == Until(cmd, H, e, end)  w == Until(cmd, W, e, end)
  <2>1. u \in Int /\ u <= cmd[f].at
    BY <1>1, <1>3, UntilIsBefore
  <2>2. w \in Int /\ w <= cmd[f].at
    BY <1>1, <1>3, UntilIsBefore
  <2>3. HeldWindow(cmd, start, end, e) =
          LET v == IF u - 1 < end THEN u - 1 ELSE end
          IN IF cmd[e].at + EventWindow < v THEN cmd[e].at + EventWindow ELSE v
    BY DEF HeldWindow, Lesser
  <2>4. (IF w < end THEN w ELSE end) - cmd[e].at >= MinHold
    BY <1>3 DEF Held, HoldEnd, Lesser
  <2>5. cmd[e].at \in Int /\ cmd[f].at \in Int
    BY <1>1, <1>3
  <2> HIDE DEF u, w
  <2>6. HeldWindow(cmd, start, end, e) < cmd[f].at
    BY <2>1, <2>3, <2>5
  <2> QED BY <2>2, <2>4, <2>5, <2>6
<1> QED BY <1>2, <1>3 DEF HeldWindowsApart

(* The same for the grasps of Beijing, held or not before the interval is  *)
(* cut out.                                                                *)
THEOREM StableWindowsAreApart ==
    ASSUME NEW cmd \in Seq(Commands), InOrder(cmd), NEW end \in Int,
           EventWindow \in Int, MinHold \in Int
    PROVE  StableWindowsApart(cmd, end)
<1> DEFINE E == Edges(cmd)  S == Stable(cmd)
<1>1. S \in SUBSET E /\ E \in SUBSET DOMAIN cmd /\ \A e \in E : cmd[e].at \in Int
  BY EdgesArePositions DEF Stable
<1>2. ASSUME NEW e \in S, NEW f \in S, e < f
      PROVE  StableWindow(cmd, end, e) < cmd[f].at /\ cmd[f].at - cmd[e].at >= MinHold
  <2> DEFINE k == NextOf(S, e)  w == Until(cmd, E, e, cmd[Len(cmd)].at)
  <2>1. w \in Int /\ w <= cmd[f].at
    BY <1>1, <1>2, UntilIsBefore
  <2>2. w - cmd[e].at >= MinHold
    BY <1>2 DEF Stable
  <2>3. f \in Later(S, e)
    BY <1>2 DEF Later
  <2>4. k \in S /\ k <= f
    BY <1>1, <1>2, <2>3, NextIsNext
  <2>5. StableWindow(cmd, end, e) =
          IF cmd[e].at + EventWindow < cmd[k].at - 1 THEN cmd[e].at + EventWindow
                                                     ELSE cmd[k].at - 1
    BY <2>3 DEF StableWindow, Lesser
  <2> HIDE DEF k, w
  <2>6. cmd[k].at <= cmd[f].at
    BY <1>1, <2>4 DEF InOrder
  <2>7. cmd[e].at \in Int /\ cmd[f].at \in Int /\ cmd[k].at \in Int
    BY <1>1, <1>2, <2>4
  <2>8. StableWindow(cmd, end, e) < cmd[f].at
    BY SMTT(20), <2>5, <2>6, <2>7
  <2>9. cmd[f].at - cmd[e].at >= MinHold
    BY <2>1, <2>2, <2>7
  <2> QED BY <2>8, <2>9
<1> QED BY <1>2 DEF StableWindowsApart

(* A claw that was closed is opened next, whatever its commands in between *)
(* (which are no edges) did.                                               *)
THEOREM ClawsDoAlternate ==
    ASSUME NEW cmd \in Seq(Commands)
    PROVE  ClawsAlternate(cmd)
<1> SUFFICES ASSUME NEW e \in Edges(cmd), Later(Edges(cmd), e) # {}
             PROVE  Closed(cmd, NextOf(Edges(cmd), e)) # Closed(cmd, e)
  BY DEF ClawsAlternate
<1> DEFINE E == Edges(cmd)  f == NextOf(E, e)
<1>1. E \in SUBSET (2..Len(cmd)) /\ E \in SUBSET Nat
  BY EdgesArePositions
<1>2. f \in E /\ f > e /\ \A g \in E : g > e => f <= g
  BY <1>1, NextIsNext
<1>3. \A i \in 2..Len(cmd) : i \notin E => Closed(cmd, i) = Closed(cmd, i - 1)
  BY DEF Edges
<1>4. Closed(cmd, f) # Closed(cmd, f - 1)
  BY <1>2 DEF Edges
<1> HIDE DEF E, f
<1> DEFINE K == {k \in e..(f - 1) : Closed(cmd, k) # Closed(cmd, e)}
<1>5. K = {}
  <2> SUFFICES ASSUME K # {}
               PROVE  FALSE
    OBVIOUS
  <2>1. K \in SUBSET Nat
    BY <1>1, <1>2 DEF E
  <2>2. PICK k \in K : \A j \in K : k <= j
    BY <2>1, LeastNatural
  <2>3. e \in 2..Len(cmd) /\ f \in 2..Len(cmd)
    BY <1>1, <1>2 DEF E
  <2>4. k \in (e + 1)..(f - 1)
    BY <2>2, <2>3
  <2>5. k - 1 \notin K
    BY <2>1, <2>2, <2>4
  <2>6. Closed(cmd, k - 1) = Closed(cmd, e)
    BY <2>3, <2>4, <2>5
  <2>7. k \in E
    BY <1>3, <2>2, <2>3, <2>4, <2>6
  <2> QED BY <1>1, <1>2, <2>3, <2>4, <2>7
<1>6. f - 1 \in e..(f - 1)
  BY <1>1, <1>2 DEF E
<1>7. Closed(cmd, f - 1) = Closed(cmd, e)
  BY <1>5, <1>6
<1> QED BY <1>4, <1>7 DEF f, E
-----------------------------------------------------------------------------
(* The shape of the state, as far as the properties depend on it.  A       *)
(* recording d knows the sizes of its versions; what a cache holds of an   *)
(* audit was noted before it was read, and read before now.                *)
RebuildTools == {"dry2", "rebuild1", "rebuild2", "rebuild3", "exportB"}
JobFields   == {"tool", "at", "given", "todo", "seen", "rows", "wanted"}
OutFields   == {"owner", "wanted", "data", "videos", "manifest", "given", "said", "going"}
DiskOk(d)      == d.ver \in Nat \ {0} /\ d.sizes \in Seq(Nat) /\ Len(d.sizes) = d.ver
CacheRow(r, d) == r.stat \in Nat /\ r.ver \in Nat /\ r.stat <= r.ver /\ r.ver <= d.ver

DiskType  == DOMAIN disk = Bags /\ \A b \in Bags : DiskOk(disk[b])
CacheType == /\ DOMAIN cache = Caches /\ \A c \in Caches : DOMAIN cache[c] = Bags
             /\ \A t \in AllAudits : \A e \in Bags :
                   cache[t][e] # None => CacheRow(cache[t][e], disk[e])
ListsType == DOMAIN lists = AllAudits /\ \A a \in AllAudits : lists[a] \subseteq Bags
JobType   == Busy => /\ DOMAIN job = JobFields /\ job.tool \in AllAudits \cup RebuildTools
                     /\ job.at \in 1..Len(Phases(job.tool))
                     /\ job.todo \subseteq Bags /\ DOMAIN job.rows \subseteq Bags
                     /\ DOMAIN job.seen \subseteq job.todo
                     /\ job.wanted = job.todo \cup DOMAIN job.rows
OutType   == DOMAIN out = OutFields /\ DOMAIN out.data \subseteq Bags
Shape     == /\ task \in Tasks /\ DOMAIN source \subseteq Bags
             /\ DiskType /\ CacheType /\ ListsType /\ JobType /\ OutType

(* Work is done when the phase is over.                                    *)
Worked == Busy /\ job.at > (IF job.tool = "exportB" THEN 2 ELSE 1) => job.todo = {}

(* A result r of tool t for episode e, by a launch given g, where d is the *)
(* recording and n the length of the episode: it is current, or as good as *)
(* the cache of the tool can tell.                                         *)
GivenOk(g, D)      == \A b \in Bags : g.start[b] \in Nat \ {0} /\ g.start[b] <= D[b].ver
Fresher(r, e, g)   == r.ver >= g.start[e] /\ r.sampling = g.sampling
SameSized(r, e, g, d) == \E v \in g.start[e]..d.ver : d.sizes[v] = r.size
Audited(t, r, e, g)   == r.ver >= g.start[e] /\ (t # "auditB" => r.set = g.set)
Rebuilt(r, e, g, d, n) == /\ Fresher(r, e, g) \/ SameSized(r, e, g, d)
                          /\ r.n = n /\ r.set = g.set
RowOk(t, r, e, g, d, n) == /\ t \in AllAudits => Audited(t, r, e, g)
                           /\ t = "rebuild2" => Rebuilt(r, e, g, d, n)
                           /\ t = "exportB" => Fresher(r, e, g)
SeenOk(t, r, e, g, d, n) ==
    /\ t \in AllAudits => r.ver \in Nat /\ r.ver <= d.ver
    /\ t = "rebuild2" => /\ DOMAIN r = {"ver", "n", "set", "sampling", "size"}
                         /\ Fresher(r, e, g) /\ r.n = n /\ r.set = g.set
RowsOk(t, rows, g, D, S) == \A e \in DOMAIN rows : RowOk(t, rows[e], e, g, D[e], S[e])
Current    == Busy => /\ GivenOk(job.given, disk)
                      /\ RowsOk(job.tool, job.rows, job.given, disk, source)
                      /\ \A e \in DOMAIN job.seen :
                            SeenOk(job.tool, job.seen[e], e, job.given, disk[e], source[e])
OutCurrent == out.owner \in {"rebuild2", "exportB"} =>
                 GivenOk(out.given, disk) /\ RowsOk(out.owner, out.data, out.given, disk, source)

(* What a rebuild has written so far.                                      *)
Writing(t) == /\ out.owner = t /\ out.wanted = job.wanted /\ out.given = job.given
              /\ ~out.going /\ ~out.said
Done1      == Busy /\ job.tool = "rebuild1" /\ job.at \in 3..5 =>
                 /\ Writing("rebuild1")
                 /\ out.manifest => job.at = 5
                 /\ job.at \in {4, 5} => DOMAIN out.data = job.wanted
                 /\ job.at = 5 => out.manifest
Done2      == Busy /\ job.tool = "rebuild2" /\ job.at \in {3, 4} =>
                 /\ Writing("rebuild2") /\ ~out.manifest /\ out.videos = DOMAIN out.data
                 /\ DOMAIN out.data \subseteq job.wanted
                 /\ job.at = 4 => DOMAIN out.data = job.wanted
Done3      == Busy /\ job.tool = "rebuild3" /\ job.at \in 3..5 =>
                 /\ Writing("rebuild3") /\ ~out.manifest
                 /\ job.at \in {4, 5} => DOMAIN out.data = job.wanted
                 /\ job.at = 5 => out.videos = job.wanted
DoneB      == Busy /\ job.tool = "exportB" =>
                 IF job.at = 1 THEN DOMAIN job.rows = {}
                 ELSE /\ Writing("exportB") /\ ~out.manifest
                      /\ out.videos = DOMAIN job.rows /\ DOMAIN out.data = DOMAIN job.rows
Written    == Done1 /\ Done2 /\ Done3 /\ DoneB

RebuildInv == Shape /\ Worked /\ Current /\ Written /\ ManifestMeansComplete /\ OutCurrent
-----------------------------------------------------------------------------
(* Helpers: rows, and the order of the phases.                             *)
LEMMA MinusIs ==
    ASSUME NEW rows, NEW S
    PROVE  /\ DOMAIN Minus(rows, S) = DOMAIN rows \ S
           /\ \A x \in DOMAIN rows \ S : Minus(rows, S)[x] = rows[x]
BY DEF Minus

LEMMA PutRowsOk ==
    ASSUME NEW t, NEW rows, NEW g, NEW D, NEW S, NEW e, NEW row,
           RowsOk(t, rows, g, D, S), RowOk(t, row, e, g, D[e], S[e])
    PROVE  RowsOk(t, Put(rows, e, row), g, D, S)
<1> DEFINE new == Put(rows, e, row)
<1>1. /\ DOMAIN new = DOMAIN rows \cup {e} /\ new[e] = row
      /\ \A x \in DOMAIN rows : x # e => new[x] = rows[x]
  BY DEF Put
<1> HIDE DEF new
<1>2. \A x \in DOMAIN rows : RowOk(t, rows[x], x, g, D[x], S[x])
  BY DEF RowsOk
<1>3. ASSUME NEW x \in DOMAIN new
      PROVE  RowOk(t, new[x], x, g, D[x], S[x])
  <2>1. CASE x = e
    BY <1>1, <2>1
  <2>2. CASE x # e
    <3>1. x \in DOMAIN rows /\ new[x] = rows[x]
      BY <1>1, <1>3, <2>2
    <3> QED BY <1>2, <3>1
  <2> QED BY <2>1, <2>2
<1>4. RowsOk(t, new, g, D, S)
  BY <1>3 DEF RowsOk
<1> QED BY <1>4 DEF new

LEMMA FewerRowsOk ==
    ASSUME NEW t, NEW rows, NEW g, NEW D, NEW S, NEW gone, RowsOk(t, rows, g, D, S)
    PROVE  RowsOk(t, Minus(rows, gone), g, D, S)
<1> DEFINE new == Minus(rows, gone)
<1>1. DOMAIN new = DOMAIN rows \ gone /\ \A x \in DOMAIN rows \ gone : new[x] = rows[x]
  BY MinusIs
<1> HIDE DEF new
<1>2. \A x \in DOMAIN new : RowOk(t, new[x], x, g, D[x], S[x])
  BY <1>1 DEF RowsOk
<1>3. RowsOk(t, new, g, D, S)
  BY <1>2 DEF RowsOk
<1> QED BY <1>3 DEF new

LEMMA NoRowsOk ==
    ASSUME NEW t, NEW rows, NEW g, NEW D, NEW S, DOMAIN rows = {}
    PROVE  RowsOk(t, rows, g, D, S)
BY DEF RowsOk

LEMMA OutIsCurrent == OutCurrent => RebuiltIsCurrent
<1> SUFFICES ASSUME OutCurrent
             PROVE  RebuiltIsCurrent
  OBVIOUS
<1>1. ASSUME out.owner = "exportB", NEW e \in DOMAIN out.data
      PROVE  ReadSince(out.data[e], e)
  <2>1. RowOk("exportB", out.data[e], e, out.given, disk[e], source[e])
    BY <1>1 DEF OutCurrent, RowsOk
  <2> QED BY <2>1 DEF RowOk, Fresher, ReadSince
<1>2. ASSUME out.owner = "rebuild2", NEW e \in DOMAIN out.data
      PROVE  /\ ReadSince(out.data[e], e) \/ SizeSeenSince(out.data[e], e)
             /\ out.data[e].n = source[e] /\ out.data[e].set = out.given.set
  <2>1. RowOk("rebuild2", out.data[e], e, out.given, disk[e], source[e])
    BY <1>2 DEF OutCurrent, RowsOk
  <2>2. Rebuilt(out.data[e], e, out.given, disk[e], source[e])
    BY <2>1 DEF RowOk
  <2> QED BY <2>2 DEF Rebuilt, Fresher, SameSized, ReadSince, SizeSeenSince
<1> QED BY <1>1, <1>2 DEF RebuiltIsCurrent

LEMMA RecordingIs ==
    ASSUME NEW before \in Seq(Nat), NEW k, k.size \in Nat
    PROVE  /\ DiskOk(Recording(before, k)) /\ Recording(before, k).ver = Len(before) + 1
           /\ \A v \in 1..Len(before) : Recording(before, k).sizes[v] = before[v]
<1>1. Recording(before, k).ver = Len(before) + 1 /\ Recording(before, k).sizes = Append(before, k.size)
  BY DEF Recording
<1>2. /\ Append(before, k.size) \in Seq(Nat) /\ Len(Append(before, k.size)) = Len(before) + 1
      /\ \A v \in 1..Len(before) : Append(before, k.size)[v] = before[v]
  BY AppendProperties
<1>3. Len(before) \in Nat
  BY LenProperties
<1> QED BY <1>1, <1>2, <1>3 DEF DiskOk

LEMMA EmptyIsSequence == <<>> \in Seq(Nat) /\ Len(<<>>) = 0
OBVIOUS

LEMMA PhaseTable ==
    /\ \A t \in AllAudits : Len(Phases(t)) = 3 /\ Phases(t)[1] = "work"
                            /\ Phases(t)[2] \in {"csv", "lists"} /\ Phases(t)[3] \in {"csv", "lists"}
    /\ Len(Phases("dry2")) = 1 /\ Phases("dry2")[1] = "work"
    /\ Len(Phases("rebuild2")) = 4 /\ Phases("rebuild2")[1] = "work"
    /\ Phases("rebuild2")[2] = "delete" /\ Phases("rebuild2")[3] = "save"
    /\ Phases("rebuild2")[4] = "manifest"
    /\ Len(Phases("rebuild1")) = 5 /\ Phases("rebuild1")[1] = "work"
    /\ Phases("rebuild1")[2] = "delete" /\ Phases("rebuild1")[3] = "data"
    /\ Phases("rebuild1")[4] = "manifest" /\ Phases("rebuild1")[5] = "videos"
    /\ Len(Phases("rebuild3")) = 5 /\ Phases("rebuild3")[1] = "work"
    /\ Phases("rebuild3")[2] = "delete" /\ Phases("rebuild3")[3] = "data"
    /\ Phases("rebuild3")[4] = "videos" /\ Phases("rebuild3")[5] = "manifest"
    /\ Len(Phases("exportB")) = 3 /\ Phases("exportB")[1] = "delete"
    /\ Phases("exportB")[2] = "work" /\ Phases("exportB")[3] = "manifest"
BY DEF Phases, AllAudits, ClawMain, LowdimMain, Task3Audit, BeijingMain, Task2Main, Task2Phases,
       Task1Main, Task3Main, Task3Phases, ExportMain

(* Which tool is where in each phase.                                      *)
LEMMA Positions ==
    ASSUME JobType, Busy
    PROVE  /\ job.at \in 1..5
           /\ At("work") => job.at = (IF job.tool = "exportB" THEN 2 ELSE 1)
           /\ At("csv") \/ At("lists") => job.tool \in AllAudits /\ job.at \in {2, 3}
           /\ At("delete") => job.tool \in {"rebuild1", "rebuild2", "rebuild3", "exportB"}
                              /\ job.at = (IF job.tool = "exportB" THEN 1 ELSE 2)
           /\ At("save") => job.tool = "rebuild2" /\ job.at = 3
           /\ At("data") => job.tool \in {"rebuild1", "rebuild3"} /\ job.at = 3
           /\ At("videos") => \/ job.tool = "rebuild1" /\ job.at = 5
                              \/ job.tool = "rebuild3" /\ job.at = 4
           /\ At("manifest") => \/ job.tool = "rebuild2" /\ job.at = 4
                                \/ job.tool = "rebuild1" /\ job.at = 4
                                \/ job.tool = "rebuild3" /\ job.at = 5
                                \/ job.tool = "exportB" /\ job.at = 3
<1>1. job.tool \in AllAudits \cup RebuildTools /\ job.at \in 1..Len(Phases(job.tool))
  BY DEF JobType
<1>2. CASE job.tool \in AllAudits
  <2>1. job.at \in 1..3 /\ job.tool # "exportB"
    BY <1>1, <1>2, PhaseTable DEF AllAudits
  <2> QED BY <1>2, <2>1, PhaseTable DEF At
<1>3. CASE job.tool = "dry2"
  BY <1>1, <1>3, PhaseTable DEF At
<1>4. CASE job.tool = "rebuild1"
  BY <1>1, <1>4, PhaseTable DEF At
<1>5. CASE job.tool = "rebuild2"
  BY <1>1, <1>5, PhaseTable DEF At
<1>6. CASE job.tool = "rebuild3"
  BY <1>1, <1>6, PhaseTable DEF At
<1>7. CASE job.tool = "exportB"
  BY <1>1, <1>7, PhaseTable DEF At
<1> QED BY <1>1, <1>2, <1>3, <1>4, <1>5, <1>6, <1>7 DEF RebuildTools
-----------------------------------------------------------------------------
(* The episodes of the converted dataset are numbered within the bags.     *)
LEMMA EpisodesAreBags ==
    ASSUME NEW missing \in SUBSET Bags
    PROVE  1..Cardinality(Bags \ missing) \subseteq Bags
<1>1. PICK k \in 1..9 : Bags = 1..k
  BY RebuildAssumption DEF RebuildAssumption
<1>2. IsFiniteSet(Bags) /\ Cardinality(Bags) = k
  <2>1. IsFiniteSet(1..k) /\ Cardinality(1..k) = IF 1 > k THEN 0 ELSE k - 1 + 1
    BY FS_Interval
  <2> QED BY <1>1, <2>1
<1>3. Cardinality(Bags \ missing) \in Nat /\ Cardinality(Bags \ missing) <= k
  BY <1>2, FS_Subset, FS_CardinalityType
<1> QED BY <1>1, <1>3

LEMMA NothingIsEmpty == DOMAIN <<>> = {}
OBVIOUS

LEMMA InitKeeps == Init => RebuildInv
<1> SUFFICES ASSUME Init
             PROVE  RebuildInv
  OBVIOUS
<1>1. ~Busy /\ job = NoJob
  BY DEF Init, Busy
<1>2. DOMAIN source \subseteq Bags
  <2>1. PICK missing \in {{}, {1}} :
            source = LET names == [i \in 1..(Cardinality(Bags \ missing)) |-> i + Cardinality(missing)]
                     IN [i \in DOMAIN names |-> Length(disk[names[i]], Converted)]
    BY DEF Init
  <2>2. DOMAIN source = 1..Cardinality(Bags \ missing)
    BY <2>1
  <2>3. 1 \in Bags
    BY RebuildAssumption DEF RebuildAssumption
  <2> QED BY <2>2, <2>3, EpisodesAreBags
<1>3. DiskType
  <2>1. PICK k \in Kinds : disk = [b \in Bags |-> Recording(<<>>, IF b = 1 THEN k ELSE Sound)]
    BY DEF Init
  <2>2. k.size \in Nat /\ Sound.size \in Nat
    BY DEF Kinds, Sound
  <2>3. \A b \in Bags : DiskOk(disk[b])
    BY <2>1, <2>2, RecordingIs, EmptyIsSequence
  <2> QED BY <2>1, <2>3 DEF DiskType
<1>4. CacheType /\ ListsType /\ OutType /\ JobType
  BY <1>1, NothingIsEmpty DEF Init, CacheType, ListsType, OutType, JobType, NoOutput, OutFields, AllAudits, Caches
<1>5. Worked /\ Current /\ Written
  BY <1>1 DEF Worked, Current, Written, Done1, Done2, Done3, DoneB
<1>6. ManifestMeansComplete /\ OutCurrent
  BY DEF Init, NoOutput, ManifestMeansComplete, OutCurrent
<1> QED BY <1>2, <1>3, <1>4, <1>5, <1>6 DEF RebuildInv, Shape, Init

(* A bag is recorded again: its version grows, and the sizes of the        *)
(* versions before stay known.                                             *)
LEMMA ResultStays ==
    ASSUME NEW t, NEW r, NEW e \in Bags, NEW g, NEW D, NEW E, NEW n, GivenOk(g, D),
           D[e].ver \in Nat, E[e].ver \in Nat, D[e].ver <= E[e].ver,
           \A v \in 1..D[e].ver : E[e].sizes[v] = D[e].sizes[v]
    PROVE  /\ RowOk(t, r, e, g, D[e], n) => RowOk(t, r, e, g, E[e], n)
           /\ SeenOk(t, r, e, g, D[e], n) => SeenOk(t, r, e, g, E[e], n)
<1>1. g.start[e] \in Nat \ {0} /\ g.start[e] <= D[e].ver
  BY DEF GivenOk
<1>2. SameSized(r, e, g, D[e]) => SameSized(r, e, g, E[e])
  <2> SUFFICES ASSUME NEW v \in g.start[e]..D[e].ver, D[e].sizes[v] = r.size
               PROVE  SameSized(r, e, g, E[e])
    BY DEF SameSized
  <2>1. v \in 1..D[e].ver /\ v \in g.start[e]..E[e].ver
    BY <1>1
  <2>2. E[e].sizes[v] = r.size
    BY <2>1
  <2> QED BY <2>1, <2>2 DEF SameSized
<1>3. Rebuilt(r, e, g, D[e], n) => Rebuilt(r, e, g, E[e], n)
  BY <1>2 DEF Rebuilt
<1>4. r.ver \in Nat /\ r.ver <= D[e].ver => r.ver <= E[e].ver
  OBVIOUS
<1> QED BY <1>3, <1>4 DEF RowOk, SeenOk

LEMMA RowsStay ==
    ASSUME NEW t, NEW rows, NEW g, NEW D, NEW E, NEW S, GivenOk(g, D), DOMAIN rows \subseteq Bags,
           \A b \in Bags : /\ D[b].ver \in Nat /\ E[b].ver \in Nat /\ D[b].ver <= E[b].ver
                           /\ \A v \in 1..D[b].ver : E[b].sizes[v] = D[b].sizes[v]
    PROVE  GivenOk(g, E) /\ (RowsOk(t, rows, g, D, S) => RowsOk(t, rows, g, E, S))
<1>1. GivenOk(g, E)
  BY DEF GivenOk
<1>2. ASSUME RowsOk(t, rows, g, D, S), NEW e \in DOMAIN rows
      PROVE  RowOk(t, rows[e], e, g, E[e], S[e])
  <2>1. RowOk(t, rows[e], e, g, D[e], S[e]) /\ e \in Bags
    BY <1>2 DEF RowsOk
  <2> QED BY <2>1, ResultStays
<1> QED BY <1>1, <1>2 DEF RowsOk

LEMMA RecordKeeps == RebuildInv /\ Record => RebuildInv'
<1> SUFFICES ASSUME RebuildInv, Record
             PROVE  RebuildInv'
  OBVIOUS
<1>1. UNCHANGED <<task, source, cache, csv, lists, job, out>>
  BY DEF Record
<1>2. /\ DiskType'
      /\ \A b \in Bags : /\ disk[b].ver \in Nat /\ disk'[b].ver \in Nat /\ disk[b].ver <= disk'[b].ver
                         /\ \A v \in 1..disk[b].ver : disk'[b].sizes[v] = disk[b].sizes[v]
  <2>1. PICK b \in Bags, k \in Kinds : disk' = [disk EXCEPT ![b] = Recording(disk[b].sizes, k)]
    BY DEF Record
  <2>2. k.size \in Nat
    BY DEF Kinds, Sound
  <2>3. DiskType
    BY DEF RebuildInv, Shape
  <2>4. DiskOk(disk[b])
    BY <2>3 DEF DiskType
  <2>5. /\ DiskOk(Recording(disk[b].sizes, k)) /\ Recording(disk[b].sizes, k).ver = disk[b].ver + 1
        /\ \A v \in 1..disk[b].ver : Recording(disk[b].sizes, k).sizes[v] = disk[b].sizes[v]
    <3>1. disk[b].sizes \in Seq(Nat) /\ Len(disk[b].sizes) = disk[b].ver
      BY <2>4 DEF DiskOk
    <3> QED BY <2>2, <3>1, RecordingIs
  <2> DEFINE new == Recording(disk[b].sizes, k)
  <2>6. disk'[b] = new /\ DOMAIN disk' = Bags /\ \A x \in Bags : x # b => disk'[x] = disk[x]
    BY <2>1, <2>3 DEF DiskType
  <2> HIDE DEF new
  <2>7. DiskType'
    BY <2>3, <2>5, <2>6 DEF DiskType, new
  <2>8. ASSUME NEW x \in Bags
        PROVE  /\ disk[x].ver \in Nat /\ disk'[x].ver \in Nat /\ disk[x].ver <= disk'[x].ver
               /\ \A v \in 1..disk[x].ver : disk'[x].sizes[v] = disk[x].sizes[v]
    <3>1. disk[x].ver \in Nat
      BY <2>3 DEF DiskType, DiskOk
    <3>2. CASE x = b
      BY <2>5, <2>6, <3>1, <3>2 DEF new
    <3>3. CASE x # b
      BY <2>6, <3>1, <3>3
    <3> QED BY <3>2, <3>3
  <2> QED BY <2>7, <2>8
<1>3. CacheType'
  <2>1. CacheType
    BY DEF RebuildInv, Shape
  <2>2. ASSUME NEW t \in AllAudits, NEW e \in Bags, cache[t][e] # None
        PROVE  CacheRow(cache[t][e], disk'[e])
    <3>1. CacheRow(cache[t][e], disk[e])
      BY <2>1, <2>2 DEF CacheType
    <3> QED BY <1>2, <3>1 DEF CacheRow
  <2> QED BY <1>1, <2>1, <2>2 DEF CacheType
<1>4. Shape'
  BY <1>1, <1>2, <1>3 DEF RebuildInv, Shape, ListsType, JobType, OutType, Busy
<1>5. Current'
  <2> SUFFICES ASSUME Busy
               PROVE  /\ GivenOk(job.given, disk')
                      /\ RowsOk(job.tool, job.rows, job.given, disk', source)
                      /\ \A e \in DOMAIN job.seen :
                            SeenOk(job.tool, job.seen[e], e, job.given, disk'[e], source[e])
    BY <1>1 DEF Current, Busy
  <2>1. /\ GivenOk(job.given, disk) /\ RowsOk(job.tool, job.rows, job.given, disk, source)
        /\ \A e \in DOMAIN job.seen :
              SeenOk(job.tool, job.seen[e], e, job.given, disk[e], source[e])
        /\ DOMAIN job.rows \subseteq Bags /\ DOMAIN job.seen \subseteq Bags
    BY DEF RebuildInv, Shape, JobType, Current
  <2>2. GivenOk(job.given, disk') /\ RowsOk(job.tool, job.rows, job.given, disk', source)
    BY <1>2, <2>1, RowsStay
  <2>3. ASSUME NEW e \in DOMAIN job.seen
        PROVE  SeenOk(job.tool, job.seen[e], e, job.given, disk'[e], source[e])
    <3>1. e \in Bags /\ SeenOk(job.tool, job.seen[e], e, job.given, disk[e], source[e])
      BY <2>1
    <3> QED BY <1>2, <2>1, <3>1, ResultStays
  <2> QED BY <2>2, <2>3
<1>6. OutCurrent'
  <2> SUFFICES ASSUME out.owner \in {"rebuild2", "exportB"}
               PROVE  GivenOk(out.given, disk') /\ RowsOk(out.owner, out.data, out.given, disk', source)
    BY <1>1 DEF OutCurrent
  <2>1. /\ GivenOk(out.given, disk) /\ RowsOk(out.owner, out.data, out.given, disk, source)
        /\ DOMAIN out.data \subseteq Bags
    BY DEF RebuildInv, Shape, OutType, OutCurrent
  <2> QED BY <1>2, <2>1, RowsStay
<1>7. Worked' /\ Written' /\ ManifestMeansComplete'
  BY <1>1 DEF RebuildInv, Worked, Written, Done1, Done2, Done3, DoneB, Writing,
              ManifestMeansComplete, Busy
<1> QED BY <1>4, <1>5, <1>6, <1>7 DEF RebuildInv

(* The end of a launch, whenever it comes.                                 *)
LEMMA StopKeeps == RebuildInv /\ Stop => RebuildInv'
<1> SUFFICES ASSUME RebuildInv, Stop
             PROVE  RebuildInv'
  OBVIOUS
<1>1. UNCHANGED <<task, disk, source, cache, csv, lists, out>> /\ ~Busy'
  BY DEF Stop, Busy
<1>2. Shape'
  BY <1>1 DEF RebuildInv, Shape, DiskType, CacheType, ListsType, JobType, OutType
<1>3. Worked' /\ Current' /\ Written' /\ ManifestMeansComplete' /\ OutCurrent'
  BY <1>1 DEF RebuildInv, Worked, Current, Written, Done1, Done2, Done3, DoneB,
              ManifestMeansComplete, OutCurrent
<1> QED BY <1>2, <1>3 DEF RebuildInv

(* A new launch: an audit takes from its cache what it accepts.            *)
LEMMA TaskTools ==
    ASSUME RebuildInv
    PROVE  /\ Audits(task) \subseteq AllAudits /\ Rebuilds(task) \subseteq RebuildTools
           /\ AllAudits \subseteq Caches
<1>1. task \in {"task1", "task2", "task3", "beijing"}
  BY RebuildAssumption DEF RebuildAssumption, RebuildInv, Shape
<1> QED BY <1>1 DEF Audits, Rebuilds, AllAudits, RebuildTools, Caches

LEMMA HitIsCurrent ==
    ASSUME RebuildInv, NEW t \in AllAudits, NEW e \in Bags, NEW s, Hit(t, cache[t][e], e, s),
           NEW a
    PROVE  RowOk(t, cache[t][e], e, Given(s, a), disk[e], source[e])
<1>1. cache[t][e] # None
  BY DEF Hit
<1>2. CacheRow(cache[t][e], disk[e])
  BY <1>1 DEF RebuildInv, Shape, CacheType
<1>3. DiskOk(disk[e])
  BY DEF RebuildInv, Shape, DiskType
<1>4. cache[t][e].stat = disk[e].ver /\ (t # "auditB" => cache[t][e].set = s)
  BY DEF Hit, AllAudits, ClawHit, LowdimHit, Task3AuditHit, BeijingHit, AuditedFile, SameFile
<1>5. cache[t][e].ver = disk[e].ver
  BY <1>2, <1>3, <1>4 DEF CacheRow, DiskOk
<1>6. Given(s, a).set = s /\ Given(s, a).start[e] = disk[e].ver
  BY DEF Given
<1>7. Audited(t, cache[t][e], e, Given(s, a))
  BY <1>2, <1>4, <1>5, <1>6 DEF Audited, CacheRow
<1>8. t # "rebuild2" /\ t # "exportB"
  BY DEF AllAudits
<1> QED BY <1>7, <1>8 DEF RowOk

LEMMA LaunchKeeps == RebuildInv /\ Launch => RebuildInv'
<1> SUFFICES ASSUME RebuildInv, Launch
             PROVE  RebuildInv'
  OBVIOUS
<1>1. UNCHANGED <<task, disk, source, cache, csv, lists, out>>
  BY DEF Launch, StartAudit, StartRebuild, Idle
<1>2. PICK t, s, a, todo, rows :
          /\ t \in AllAudits \cup RebuildTools /\ job' = Job(t, Given(s, a), todo, rows)
          /\ todo \subseteq Bags /\ DOMAIN rows \subseteq Bags
          /\ RowsOk(t, rows, Given(s, a), disk, source)
          /\ t = "exportB" => DOMAIN rows = {}
  <2>1. PICK s \in Settings :
            \/ \E t \in Audits(task) : StartAudit(t, s)
            \/ \E t \in Rebuilds(task) : \E a \in SamplingsOf(t) : StartRebuild(t, s, a)
    BY DEF Launch
  <2>2. CASE \E t \in Audits(task) : StartAudit(t, s)
    <3>1. PICK t \in Audits(task) : StartAudit(t, s)
      BY <2>2
    <3> DEFINE hits == {e \in Selected(t) : Hit(t, cache[t][e], e, s)}
               rows == [e \in hits |-> cache[t][e]]
    <3>2. job' = Job(t, Given(s, Converted), Selected(t) \ hits, rows)
      BY <3>1 DEF StartAudit
    <3>3. t \in AllAudits /\ Selected(t) \subseteq Bags
      BY TaskTools DEF Selected, RebuildInv, Shape
    <3>4. \A e \in hits : RowOk(t, rows[e], e, Given(s, Converted), disk[e], source[e])
      BY <3>3, HitIsCurrent
    <3>5. DOMAIN rows = hits /\ hits \subseteq Selected(t)
      OBVIOUS
    <3> HIDE DEF hits, rows
    <3>6. Selected(t) \ hits \subseteq Bags /\ DOMAIN rows \subseteq Bags
      BY <3>3, <3>5
    <3>7. RowsOk(t, rows, Given(s, Converted), disk, source)
      BY <3>4, <3>5 DEF RowsOk
    <3>8. t # "exportB"
      BY <3>3 DEF AllAudits
    <3> QED BY <3>2, <3>3, <3>6, <3>7, <3>8
  <2>3. CASE \E t \in Rebuilds(task) : \E a \in SamplingsOf(t) : StartRebuild(t, s, a)
    <3>1. PICK t \in Rebuilds(task) : \E a \in SamplingsOf(t) : StartRebuild(t, s, a)
      BY <2>3
    <3>2. PICK a \in SamplingsOf(t) : StartRebuild(t, s, a)
      BY <3>1
    <3>3. job' = Job(t, Given(s, a), lists[AuditOf(t)], <<>>)
      BY <3>2 DEF StartRebuild
    <3>4. AuditOf(t) \in AllAudits /\ t \in RebuildTools
      BY TaskTools DEF AuditOf, AllAudits
    <3>5. lists[AuditOf(t)] \subseteq Bags
      BY <3>4 DEF RebuildInv, Shape, ListsType
    <3>6. RowsOk(t, <<>>, Given(s, a), disk, source)
      BY NothingIsEmpty, NoRowsOk
    <3> QED BY <3>3, <3>4, <3>5, <3>6, NothingIsEmpty
  <2> QED BY <2>1, <2>2, <2>3
<1>3. /\ DOMAIN job' = JobFields /\ job'.tool = t /\ job'.at = 1 /\ job'.given = Given(s, a)
      /\ job'.todo = todo /\ job'.seen = <<>> /\ job'.rows = rows /\ job'.wanted = todo \cup DOMAIN rows
  BY <1>2 DEF Job, JobFields
<1>4. 1 \in 1..Len(Phases(t))
  <2>1. t \in AllAudits \cup RebuildTools
    BY <1>2
  <2> QED BY <2>1, PhaseTable DEF RebuildTools
<1>5. JobType'
  BY <1>2, <1>3, <1>4, NothingIsEmpty DEF JobType
<1>6. Shape'
  BY <1>1, <1>5 DEF RebuildInv, Shape, DiskType, CacheType, ListsType, OutType
<1>7. Current'
  <2>1. GivenOk(Given(s, a), disk)
    <3>1. \A b \in Bags : DiskOk(disk[b])
      BY DEF RebuildInv, Shape, DiskType
    <3>2. \A b \in Bags : Given(s, a).start[b] = disk[b].ver
      BY DEF Given
    <3> QED BY <3>1, <3>2 DEF GivenOk, DiskOk
  <2>2. DOMAIN job'.seen = {}
    BY <1>3, NothingIsEmpty
  <2> QED BY <1>1, <1>2, <1>3, <2>1, <2>2 DEF Current
<1>8. Worked' /\ Done1' /\ Done2' /\ Done3' /\ DoneB'
  BY <1>2, <1>3 DEF Worked, Done1, Done2, Done3, DoneB
<1>9. ManifestMeansComplete' /\ OutCurrent'
  BY <1>1 DEF RebuildInv, ManifestMeansComplete, OutCurrent
<1> QED BY <1>6, <1>7, <1>8, <1>9 DEF RebuildInv, Written
-----------------------------------------------------------------------------
(* How a job goes on: to its next phase, or with one result more.          *)
LEMMA OnwardKeeps ==
    ASSUME JobType, Busy, job' = Onward(job)
    PROVE  /\ JobType'
           /\ Busy' => /\ job'.at = job.at + 1 /\ job'.at <= Len(Phases(job.tool))
                       /\ job'.tool = job.tool /\ job'.given = job.given /\ job'.todo = job.todo
                       /\ job'.seen = job.seen /\ job'.rows = job.rows /\ job'.wanted = job.wanted
<1>1. /\ DOMAIN job = JobFields /\ job.tool \in AllAudits \cup RebuildTools
      /\ job.at \in 1..Len(Phases(job.tool)) /\ job.at \in 1..5
  BY Positions DEF JobType
<1>2. Len(Phases(job.tool)) \in 1..5
  BY <1>1, PhaseTable DEF RebuildTools
<1>3. CASE job.at = Len(Phases(job.tool))
  BY <1>3 DEF Onward, Busy, JobType
<1>4. CASE job.at # Len(Phases(job.tool))
  <2>1. job' = [job EXCEPT !.at = @ + 1]
    BY <1>4 DEF Onward
  <2>2. /\ DOMAIN job' = JobFields
        /\ job'.at = job.at + 1 /\ job'.tool = job.tool /\ job'.given = job.given
        /\ job'.todo = job.todo /\ job'.seen = job.seen /\ job'.rows = job.rows
        /\ job'.wanted = job.wanted
    BY <1>1, <2>1 DEF JobFields
  <2>3. job'.at \in 1..Len(Phases(job.tool))
    BY <1>1, <1>2, <1>4, <2>2
  <2> QED BY <2>2, <2>3 DEF JobType
<1> QED BY <1>3, <1>4

LEMMA JobIsBusy ==
    ASSUME JobType, Busy, job'.tool = job.tool
    PROVE  Busy'
<1>1. job.tool \in AllAudits \cup RebuildTools
  BY DEF JobType
<1>2. job'.tool # "none"
  BY <1>1 DEF AllAudits, RebuildTools
<1> QED BY <1>2 DEF Busy, NoJob

LEMMA SeenKeeps ==
    ASSUME JobType, Busy, NEW e \in job.todo, NEW row, job' = Seen(e, row)
    PROVE  /\ JobType' /\ Busy'
           /\ job'.tool = job.tool /\ job'.at = job.at /\ job'.given = job.given
           /\ job'.rows = job.rows /\ job'.wanted = job.wanted
           /\ job'.seen = Put(job.seen, e, row)
<1>1. /\ DOMAIN job = JobFields /\ job.tool \in AllAudits \cup RebuildTools
      /\ DOMAIN job.seen \subseteq job.todo
  BY DEF JobType
<1>2. job' = [job EXCEPT !.seen = Put(job.seen, e, row)]
  BY DEF Seen
<1>3. /\ DOMAIN job' = JobFields /\ job'.todo = job.todo /\ job'.rows = job.rows
      /\ job'.tool = job.tool /\ job'.at = job.at /\ job'.given = job.given
      /\ job'.wanted = job.wanted /\ job'.seen = Put(job.seen, e, row)
  BY <1>1, <1>2 DEF JobFields
<1>4. DOMAIN job'.seen \subseteq job'.todo
  BY <1>1, <1>3 DEF Put
<1>5. Busy'
  BY <1>3, JobIsBusy
<1>6. JobType'
  BY <1>3, <1>4, <1>5 DEF JobType
<1> QED BY <1>3, <1>5, <1>6

LEMMA DoneKeeps ==
    ASSUME JobType, Busy, NEW e \in job.todo, NEW row, job' = Done(e, row)
    PROVE  /\ JobType' /\ Busy'
           /\ job'.tool = job.tool /\ job'.at = job.at /\ job'.given = job.given
           /\ job'.wanted = job.wanted /\ job'.rows = Put(job.rows, e, row)
           /\ job'.seen = Minus(job.seen, {e})
<1>1. /\ DOMAIN job = JobFields /\ job.tool \in AllAudits \cup RebuildTools
      /\ job.todo \subseteq Bags /\ DOMAIN job.rows \subseteq Bags
      /\ DOMAIN job.seen \subseteq job.todo /\ job.wanted = job.todo \cup DOMAIN job.rows
  BY DEF JobType
<1>2. job' = [job EXCEPT !.todo = job.todo \ {e}, !.seen = Minus(job.seen, {e}),
                         !.rows = Put(job.rows, e, row)]
  BY DEF Done
<1>3. /\ DOMAIN job' = JobFields /\ job'.todo = job.todo \ {e}
      /\ job'.rows = Put(job.rows, e, row) /\ job'.seen = Minus(job.seen, {e})
      /\ job'.tool = job.tool /\ job'.at = job.at /\ job'.given = job.given
      /\ job'.wanted = job.wanted
  BY <1>1, <1>2 DEF JobFields
<1>4. DOMAIN job'.rows = DOMAIN job.rows \cup {e}
  BY <1>3 DEF Put
<1>5. DOMAIN job'.seen = DOMAIN job.seen \ {e}
  BY <1>3 DEF Minus
<1>6. /\ job'.wanted = job'.todo \cup DOMAIN job'.rows /\ DOMAIN job'.rows \subseteq Bags
      /\ DOMAIN job'.seen \subseteq job'.todo /\ job'.todo \subseteq Bags
  BY <1>1, <1>3, <1>4, <1>5
<1>7. Busy'
  BY <1>3, JobIsBusy
<1>8. job'.at \in 1..Len(Phases(job'.tool)) /\ job'.tool \in AllAudits \cup RebuildTools
  BY <1>3 DEF JobType
<1>9. JobType'
  BY <1>3, <1>6, <1>8 DEF JobType
<1> QED BY <1>3, <1>7, <1>9

(* What the results of a launch are, one more seen or done.                *)
LEMMA SeenIsCurrent ==
    ASSUME RebuildInv, Busy, NEW e \in job.todo, NEW row, job' = Seen(e, row),
           UNCHANGED <<disk, source>>,
           SeenOk(job.tool, row, e, job.given, disk[e], source[e])
    PROVE  Current'
<1>1. /\ Busy' /\ job'.tool = job.tool /\ job'.given = job.given /\ job'.rows = job.rows
      /\ job'.seen = Put(job.seen, e, row)
  BY SeenKeeps DEF RebuildInv, Shape
<1>2. /\ GivenOk(job.given, disk) /\ RowsOk(job.tool, job.rows, job.given, disk, source)
      /\ \A x \in DOMAIN job.seen :
            SeenOk(job.tool, job.seen[x], x, job.given, disk[x], source[x])
  BY DEF RebuildInv, Current
<1>3. ASSUME NEW x \in DOMAIN job'.seen
      PROVE  SeenOk(job.tool, job'.seen[x], x, job.given, disk[x], source[x])
  <2>1. x = e \/ x \in DOMAIN job.seen
    BY <1>1 DEF Put
  <2>2. CASE x = e
    <3>1. job'.seen[x] = row
      BY <1>1, <2>2 DEF Put
    <3> QED BY <2>2, <3>1
  <2>3. CASE x # e
    <3>1. x \in DOMAIN job.seen /\ job'.seen[x] = job.seen[x]
      BY <1>1, <2>1, <2>3 DEF Put
    <3> QED BY <1>2, <3>1
  <2> QED BY <2>2, <2>3
<1>4. disk' = disk /\ source' = source
  OBVIOUS
<1>5. GivenOk(job'.given, disk') /\ RowsOk(job'.tool, job'.rows, job'.given, disk', source')
  BY <1>1, <1>2, <1>4
<1>6. \A x \in DOMAIN job'.seen :
          SeenOk(job'.tool, job'.seen[x], x, job'.given, disk'[x], source'[x])
  BY <1>1, <1>3, <1>4
<1> QED BY <1>5, <1>6 DEF Current

LEMMA DoneIsCurrent ==
    ASSUME RebuildInv, Busy, NEW e \in job.todo, NEW row, job' = Done(e, row),
           UNCHANGED <<disk, source>>,
           RowOk(job.tool, row, e, job.given, disk[e], source[e])
    PROVE  Current'
<1>1. /\ Busy' /\ job'.tool = job.tool /\ job'.given = job.given
      /\ job'.rows = Put(job.rows, e, row) /\ job'.seen = Minus(job.seen, {e})
  BY DoneKeeps DEF RebuildInv, Shape
<1>2. /\ GivenOk(job.given, disk) /\ RowsOk(job.tool, job.rows, job.given, disk, source)
      /\ \A x \in DOMAIN job.seen :
            SeenOk(job.tool, job.seen[x], x, job.given, disk[x], source[x])
  BY DEF RebuildInv, Current
<1>3. RowsOk(job.tool, job'.rows, job.given, disk, source)
  BY <1>1, <1>2, PutRowsOk
<1>4. ASSUME NEW x \in DOMAIN job'.seen
      PROVE  SeenOk(job.tool, job'.seen[x], x, job.given, disk[x], source[x])
  <2>1. x \in DOMAIN job.seen /\ job'.seen[x] = job.seen[x]
    BY <1>1 DEF Minus
  <2> QED BY <1>2, <2>1
<1>5. disk' = disk /\ source' = source
  OBVIOUS
<1>6. GivenOk(job'.given, disk') /\ RowsOk(job'.tool, job'.rows, job'.given, disk', source')
  BY <1>1, <1>2, <1>3, <1>5
<1>7. \A x \in DOMAIN job'.seen :
          SeenOk(job'.tool, job'.seen[x], x, job'.given, disk'[x], source'[x])
  BY <1>1, <1>4, <1>5
<1> QED BY <1>6, <1>7 DEF Current

(* A step of the work of an audit or of a rebuild other than the export.   *)
LEMMA WorkKeeps ==
    ASSUME RebuildInv, At("work"), job.tool # "exportB", JobType', Current', CacheType',
           job'.tool = job.tool, job'.at = job.at, UNCHANGED <<task, disk, source, lists, out>>
    PROVE  RebuildInv'
<1>1. Busy /\ job.at = 1
  BY Positions DEF At, RebuildInv, Shape
<1>2. Shape'
  BY DEF RebuildInv, Shape, DiskType, ListsType, OutType
<1>3. Worked' /\ Written'
  BY <1>1 DEF Worked, Written, Done1, Done2, Done3, DoneB
<1>4. ManifestMeansComplete' /\ OutCurrent'
  BY DEF RebuildInv, ManifestMeansComplete, OutCurrent
<1> QED BY <1>2, <1>3, <1>4 DEF RebuildInv

LEMMA CacheStays ==
    ASSUME RebuildInv, UNCHANGED <<cache, disk>>
    PROVE  CacheType'
BY DEF RebuildInv, Shape, CacheType

LEMMA StatKeeps == RebuildInv /\ Stat => RebuildInv'
<1> SUFFICES ASSUME RebuildInv, Stat
             PROVE  RebuildInv'
  OBVIOUS
<1>1. /\ Busy /\ JobType /\ At("work") /\ job.tool \in AllAudits /\ job.tool # "exportB"
      /\ UNCHANGED <<task, disk, source, cache, lists, out>>
  BY DEF Stat, Working, At, RebuildInv, Shape, AllAudits
<1>2. PICK e \in Untouched : job' = Seen(e, [ver |-> disk[e].ver])
  BY DEF Stat
<1>3. e \in job.todo /\ e \in Bags
  BY <1>1 DEF Untouched, JobType
<1>4. disk[e].ver \in Nat
  BY <1>3 DEF RebuildInv, Shape, DiskType, DiskOk
<1>5. SeenOk(job.tool, [ver |-> disk[e].ver], e, job.given, disk[e], source[e])
  <2>1. job.tool # "rebuild2"
    BY <1>1 DEF AllAudits
  <2> QED BY <1>4, <2>1 DEF SeenOk
<1>6. Current'
  BY <1>1, <1>2, <1>3, <1>5, SeenIsCurrent
<1>7. JobType' /\ job'.tool = job.tool /\ job'.at = job.at
  BY <1>1, <1>2, <1>3, SeenKeeps
<1> QED BY <1>1, <1>6, <1>7, CacheStays, WorkKeeps

LEMMA AuditKeeps == RebuildInv /\ Audit => RebuildInv'
<1> SUFFICES ASSUME RebuildInv, Audit
             PROVE  RebuildInv'
  OBVIOUS
<1>1. /\ Busy /\ JobType /\ At("work") /\ job.tool \in AllAudits /\ job.tool # "exportB"
      /\ UNCHANGED <<task, disk, source, lists, out>>
  BY DEF Audit, Working, At, RebuildInv, Shape, AllAudits
<1>2. PICK e \in DOMAIN job.seen :
          /\ job' = Done(e, Looked(job.tool, e, job.seen[e].ver, job.given.set))
          /\ cache' = [cache EXCEPT ![job.tool][e] =
                          Looked(job.tool, e, job.seen[e].ver, job.given.set)]
  BY DEF Audit
<1> DEFINE row == Looked(job.tool, e, job.seen[e].ver, job.given.set)
<1>3. row.stat = job.seen[e].ver /\ row.ver = disk[e].ver /\ row.set = job.given.set
  BY DEF Looked
<1>4. job' = Done(e, row) /\ cache' = [cache EXCEPT ![job.tool][e] = row]
  BY <1>2
<1> HIDE DEF row
<1>5. e \in job.todo /\ e \in Bags
  BY <1>1 DEF JobType
<1>6. /\ GivenOk(job.given, disk)
      /\ SeenOk(job.tool, job.seen[e], e, job.given, disk[e], source[e])
  BY <1>1 DEF RebuildInv, Current
<1>7. disk[e].ver \in Nat
  BY <1>5 DEF RebuildInv, Shape, DiskType, DiskOk
<1>8. CacheRow(row, disk[e])
  BY <1>1, <1>3, <1>6, <1>7 DEF SeenOk, CacheRow
<1>9. RowOk(job.tool, row, e, job.given, disk[e], source[e])
  <2>1. job.tool # "rebuild2"
    BY <1>1 DEF AllAudits
  <2> QED BY <1>1, <1>3, <1>5, <1>6, <1>7, <2>1 DEF RowOk, Audited, GivenOk
<1>10. Current'
  BY <1>1, <1>4, <1>5, <1>9, DoneIsCurrent
<1>11. JobType' /\ job'.tool = job.tool /\ job'.at = job.at
  BY <1>1, <1>4, <1>5, DoneKeeps
<1>12. CacheType'
  <2>1. CacheType /\ AllAudits \subseteq Caches
    BY TaskTools DEF RebuildInv, Shape
  <2>2. /\ DOMAIN cache' = Caches /\ \A c \in Caches : DOMAIN cache'[c] = Bags
        /\ \A t \in AllAudits : \A x \in Bags :
              cache'[t][x] = IF t = job.tool /\ x = e THEN row ELSE cache[t][x]
    BY <1>1, <1>4, <1>5, <2>1 DEF CacheType
  <2>3. ASSUME NEW t \in AllAudits, NEW x \in Bags, cache'[t][x] # None
        PROVE  CacheRow(cache'[t][x], disk[x])
    BY <1>8, <2>1, <2>2, <2>3 DEF CacheType
  <2>4. disk' = disk
    BY <1>1
  <2> QED BY <2>2, <2>3, <2>4 DEF CacheType
<1> QED BY <1>1, <1>10, <1>11, <1>12, WorkKeeps

(* What a rebuild takes from its cache, or reads from the bag.             *)
LEMMA FreshIsOk ==
    ASSUME RebuildInv, Busy, NEW e \in Bags
    PROVE  /\ DOMAIN Fresh(e) = {"ver", "n", "set", "sampling", "size"}
           /\ Fresher(Fresh(e), e, job.given) /\ Fresh(e).set = job.given.set
<1>1. /\ DOMAIN Fresh(e) = {"ver", "n", "set", "sampling", "size"}
      /\ Fresh(e).ver = disk[e].ver /\ Fresh(e).sampling = job.given.sampling
      /\ Fresh(e).set = job.given.set
  BY DEF Fresh
<1>2. GivenOk(job.given, disk) /\ disk[e].ver \in Nat
  BY DEF RebuildInv, Current, Shape, DiskType, DiskOk
<1>3. disk[e].ver >= job.given.start[e]
  BY <1>2 DEF GivenOk
<1> QED BY <1>1, <1>3 DEF Fresher

LEMMA ReuseKeeps == RebuildInv /\ Reuse => RebuildInv'
<1> SUFFICES ASSUME RebuildInv, Reuse
             PROVE  RebuildInv'
  OBVIOUS
<1>1. /\ Busy /\ JobType /\ At("work") /\ job.tool \in {"dry2", "rebuild1", "rebuild2", "rebuild3"}
      /\ UNCHANGED <<task, disk, source, cache, lists, out>>
  BY DEF Reuse, Working, At, RebuildInv, Shape
<1>2. PICK e \in Untouched : Cached(e) /\ job' = Done(e, cache[CacheOf(job.tool)][e])
  BY DEF Reuse
<1> DEFINE row == cache[CacheOf(job.tool)][e]
<1>3. job' = Done(e, row) /\ Hit(job.tool, row, e, job.given.set)
  BY <1>2 DEF Cached
<1> HIDE DEF row
<1>4. e \in job.todo /\ e \in Bags
  BY <1>1 DEF Untouched, JobType
<1>5. RowOk(job.tool, row, e, job.given, disk[e], source[e])
  <2>1. job.tool \notin AllAudits /\ job.tool # "exportB"
    BY <1>1 DEF AllAudits
  <2>2. ASSUME job.tool = "rebuild2"
        PROVE  Rebuilt(row, e, job.given, disk[e], source[e])
    <3>1. row.size = disk[e].sizes[disk[e].ver] /\ row.set = job.given.set /\ row.n = source[e]
      BY <1>3, <2>2 DEF Hit, Task2Hit, RebuiltFile, SameSize, SizeOf
    <3>2. GivenOk(job.given, disk) /\ disk[e].ver \in Nat
      BY <1>1, <1>4 DEF RebuildInv, Current, Shape, DiskType, DiskOk
    <3>3. disk[e].ver \in job.given.start[e]..disk[e].ver
      BY <1>4, <3>2 DEF GivenOk
    <3>4. SameSized(row, e, job.given, disk[e])
      BY <3>1, <3>3 DEF SameSized
    <3> QED BY <3>1, <3>4 DEF Rebuilt
  <2> QED BY <2>1, <2>2 DEF RowOk
<1>6. Current'
  BY <1>1, <1>3, <1>4, <1>5, DoneIsCurrent
<1>7. JobType' /\ job'.tool = job.tool /\ job'.at = job.at
  BY <1>1, <1>3, <1>4, DoneKeeps
<1> QED BY <1>1, <1>6, <1>7, CacheStays, WorkKeeps

LEMMA ReadKeeps == RebuildInv /\ ReadBag => RebuildInv'
<1> SUFFICES ASSUME RebuildInv, ReadBag
             PROVE  RebuildInv'
  OBVIOUS
<1>1. /\ Busy /\ JobType /\ At("work") /\ job.tool \in {"dry2", "rebuild2"}
      /\ UNCHANGED <<task, disk, source, cache, lists, out>>
  BY DEF ReadBag, Working, At, RebuildInv, Shape
<1>2. PICK e \in Untouched : \E row \in Task2Extract(e) : job' = Seen(e, row)
  BY DEF ReadBag
<1>3. e \in job.todo /\ e \in Bags
  BY <1>1 DEF Untouched, JobType
<1>4. PICK row \in Task2Extract(e) : job' = Seen(e, row)
  BY <1>2
<1>5. row = Fresh(e) /\ row.n = source[e]
  BY <1>4 DEF Task2Extract, CountChecked, CountAsExpected
<1>6. SeenOk(job.tool, row, e, job.given, disk[e], source[e])
  <2>1. job.tool \notin AllAudits
    BY <1>1 DEF AllAudits
  <2> QED BY <1>1, <1>3, <1>5, <2>1, FreshIsOk DEF SeenOk
<1>7. Current'
  BY <1>1, <1>3, <1>4, <1>6, SeenIsCurrent
<1>8. JobType' /\ job'.tool = job.tool /\ job'.at = job.at
  BY <1>1, <1>3, <1>4, SeenKeeps
<1> QED BY <1>1, <1>7, <1>8, CacheStays, WorkKeeps

(* The caches of the rebuilds: whatever is put there.                      *)
LEMMA RebuildCacheKeeps ==
    ASSUME RebuildInv, NEW c \in {"task2cache", "task3cache"}, NEW e \in Bags, NEW row,
           cache' = [cache EXCEPT ![c][e] = row], UNCHANGED disk
    PROVE  CacheType'
<1>1. CacheType /\ c \in Caches /\ c \notin AllAudits
  BY DEF RebuildInv, Shape, Caches, AllAudits
<1>2. /\ DOMAIN cache' = Caches /\ \A k \in Caches : DOMAIN cache'[k] = Bags
      /\ \A k \in Caches : k # c => cache'[k] = cache[k]
  BY <1>1 DEF CacheType
<1>3. \A t \in AllAudits : cache'[t] = cache[t]
  BY <1>1, <1>2 DEF Caches
<1> QED BY <1>1, <1>2, <1>3 DEF CacheType

LEMMA KeepKeeps == RebuildInv /\ Keep => RebuildInv'
<1> SUFFICES ASSUME RebuildInv, Keep
             PROVE  RebuildInv'
  OBVIOUS
<1>1. /\ Busy /\ JobType /\ At("work") /\ job.tool \in {"dry2", "rebuild2"}
      /\ UNCHANGED <<task, disk, source, lists, out>>
  BY DEF Keep, Working, At, RebuildInv, Shape
<1>2. PICK e \in DOMAIN job.seen :
          /\ job' = Done(e, [job.seen[e] EXCEPT !.size = SizeOf(disk[e])])
          /\ cache' = [cache EXCEPT !["task2cache"][e] = [job.seen[e] EXCEPT !.size = SizeOf(disk[e])]]
  BY DEF Keep
<1> DEFINE row == [job.seen[e] EXCEPT !.size = SizeOf(disk[e])]
<1>3. job' = Done(e, row) /\ cache' = [cache EXCEPT !["task2cache"][e] = row]
  BY <1>2
<1>4. e \in job.todo /\ e \in Bags
  BY <1>1 DEF JobType
<1>5. RowOk(job.tool, row, e, job.given, disk[e], source[e])
  <2>1. job.tool \notin AllAudits /\ job.tool # "exportB"
    BY <1>1 DEF AllAudits
  <2>2. SeenOk(job.tool, job.seen[e], e, job.given, disk[e], source[e])
    BY <1>1 DEF RebuildInv, Current
  <2>3. ASSUME job.tool = "rebuild2"
        PROVE  Rebuilt(row, e, job.given, disk[e], source[e])
    <3>1. /\ DOMAIN job.seen[e] = {"ver", "n", "set", "sampling", "size"}
          /\ Fresher(job.seen[e], e, job.given) /\ job.seen[e].n = source[e]
          /\ job.seen[e].set = job.given.set
      BY <2>2, <2>3 DEF SeenOk
    <3>2. /\ row.ver = job.seen[e].ver /\ row.sampling = job.seen[e].sampling
          /\ row.n = job.seen[e].n /\ row.set = job.seen[e].set
      BY <3>1
    <3> HIDE DEF row
    <3> QED BY <3>1, <3>2 DEF Rebuilt, Fresher
  <2> HIDE DEF row
  <2> QED BY <2>1, <2>3 DEF RowOk
<1> HIDE DEF row
<1>6. Current'
  BY <1>1, <1>3, <1>4, <1>5, DoneIsCurrent
<1>7. JobType' /\ job'.tool = job.tool /\ job'.at = job.at
  BY <1>1, <1>3, <1>4, DoneKeeps
<1>8. CacheType'
  BY <1>1, <1>3, <1>4, RebuildCacheKeeps
<1> QED BY <1>1, <1>6, <1>7, <1>8, WorkKeeps

LEMMA ExtractKeeps == RebuildInv /\ Extract => RebuildInv'
<1> SUFFICES ASSUME RebuildInv, Extract
             PROVE  RebuildInv'
  OBVIOUS
<1>1. /\ Busy /\ JobType /\ At("work") /\ job.tool = "rebuild3"
      /\ UNCHANGED <<task, disk, source, lists, out>>
  BY DEF Extract, Working, At, RebuildInv, Shape
<1>2. PICK e \in Untouched : \E row \in Task3Extract(e) :
          job' = Done(e, row) /\ cache' = [cache EXCEPT !["task3cache"][e] = row]
  BY DEF Extract
<1>3. e \in job.todo /\ e \in Bags
  BY <1>1 DEF Untouched, JobType
<1>4. PICK row : job' = Done(e, row) /\ cache' = [cache EXCEPT !["task3cache"][e] = row]
  BY <1>2
<1>5. RowOk(job.tool, row, e, job.given, disk[e], source[e])
  BY <1>1 DEF RowOk, AllAudits
<1>6. Current'
  BY <1>1, <1>3, <1>4, <1>5, DoneIsCurrent
<1>7. JobType' /\ job'.tool = job.tool /\ job'.at = job.at
  BY <1>1, <1>3, <1>4, DoneKeeps
<1>8. CacheType'
  BY <1>1, <1>3, <1>4, RebuildCacheKeeps
<1> QED BY <1>1, <1>6, <1>7, <1>8, WorkKeeps

(* The export writes an episode as soon as it has read it.                 *)
LEMMA ExportKeeps == RebuildInv /\ ExportEpisode => RebuildInv'
<1> SUFFICES ASSUME RebuildInv, ExportEpisode
             PROVE  RebuildInv'
  OBVIOUS
<1>1. /\ Busy /\ JobType /\ At("work") /\ job.tool = "exportB" /\ job.at = 2
      /\ UNCHANGED <<task, disk, source, cache, lists>>
  BY Positions DEF ExportEpisode, Working, At, RebuildInv, Shape
<1>2. PICK e \in job.todo : \E row \in ReadEpisode(e) :
          /\ job' = Done(e, row)
          /\ out' = [out EXCEPT !.data = Put(out.data, e, row), !.videos = out.videos \cup {e}]
  BY DEF ExportEpisode
<1>3. PICK row \in ReadEpisode(e) :
          /\ job' = Done(e, row)
          /\ out' = [out EXCEPT !.data = Put(out.data, e, row), !.videos = out.videos \cup {e}]
  BY <1>2
<1>4. e \in Bags /\ row = Fresh(e)
  BY <1>1, <1>3 DEF JobType, ReadEpisode
<1>5. RowOk("exportB", row, e, job.given, disk[e], source[e])
  BY <1>1, <1>4, FreshIsOk DEF RowOk, AllAudits
<1>6. /\ JobType' /\ Busy' /\ job'.tool = job.tool /\ job'.at = job.at /\ job'.given = job.given
      /\ job'.wanted = job.wanted /\ job'.rows = Put(job.rows, e, row)
  BY <1>1, <1>3, DoneKeeps
<1>7. Current'
  BY <1>1, <1>3, <1>5, DoneIsCurrent
<1>8. /\ Writing("exportB") /\ ~out.manifest
      /\ out.videos = DOMAIN job.rows /\ DOMAIN out.data = DOMAIN job.rows
  BY <1>1 DEF RebuildInv, Written, DoneB
<1>9. /\ DOMAIN out' = OutFields /\ out'.owner = out.owner /\ out'.wanted = out.wanted
      /\ out'.given = out.given /\ out'.manifest = out.manifest
      /\ out'.said = out.said /\ out'.going = out.going
      /\ out'.videos = out.videos \cup {e} /\ out'.data = Put(out.data, e, row)
  BY <1>3 DEF RebuildInv, Shape, OutType, OutFields
<1>10. /\ DOMAIN out'.data = DOMAIN out.data \cup {e}
       /\ DOMAIN job'.rows = DOMAIN job.rows \cup {e}
  BY <1>6, <1>9 DEF Put
<1>11. Shape'
  BY <1>1, <1>4, <1>6, <1>9, <1>10, CacheStays
     DEF RebuildInv, Shape, DiskType, ListsType, OutType
<1>12. Worked' /\ Written'
  BY <1>1, <1>6, <1>8, <1>9, <1>10 DEF Worked, Written, Done1, Done2, Done3, DoneB, Writing
<1>13. ManifestMeansComplete'
  BY <1>8, <1>9 DEF Writing, ManifestMeansComplete
<1>14. OutCurrent'
  <2>1. /\ GivenOk(job.given, disk) /\ RowsOk("exportB", out.data, job.given, disk, source)
        /\ out'.given = job.given /\ out'.owner = "exportB"
    BY <1>1, <1>8, <1>9 DEF RebuildInv, Current, OutCurrent, Writing
  <2>2. RowsOk("exportB", out'.data, job.given, disk, source)
    BY <1>5, <1>9, <2>1, PutRowsOk
  <2> QED BY <1>1, <2>1, <2>2 DEF OutCurrent
<1> QED BY <1>7, <1>11, <1>12, <1>13, <1>14 DEF RebuildInv
-----------------------------------------------------------------------------
(* A phase that ends without writing to the dataset.                       *)
LEMMA OnwardCurrent ==
    ASSUME RebuildInv, Busy, job' = Onward(job), UNCHANGED <<disk, source>>
    PROVE  Current'
<1>1. JobType
  BY DEF RebuildInv, Shape
<1>2. Busy' => /\ job'.tool = job.tool /\ job'.given = job.given
               /\ job'.seen = job.seen /\ job'.rows = job.rows
  BY <1>1, OnwardKeeps
<1> QED BY <1>2 DEF RebuildInv, Current

LEMMA AllDoneKeeps == RebuildInv /\ AllDone => RebuildInv'
<1> SUFFICES ASSUME RebuildInv, AllDone
             PROVE  RebuildInv'
  OBVIOUS
<1>1. /\ Busy /\ JobType /\ job.todo = {} /\ job' = Onward(job)
      /\ job.at = (IF job.tool = "exportB" THEN 2 ELSE 1)
      /\ UNCHANGED <<task, disk, source, cache, lists, out>>
  BY Positions DEF AllDone, At, RebuildInv, Shape
<1>2. /\ JobType'
      /\ Busy' => /\ job'.at = job.at + 1 /\ job'.tool = job.tool /\ job'.todo = {}
                  /\ job'.rows = job.rows /\ job'.wanted = job.wanted /\ job'.given = job.given
  BY <1>1, OnwardKeeps
<1>3. Shape'
  BY <1>1, <1>2 DEF RebuildInv, Shape, DiskType, CacheType, ListsType, OutType
<1>4. Current'
  BY <1>1, OnwardCurrent
<1>5. Worked' /\ Done1' /\ Done2' /\ Done3'
  BY <1>1, <1>2 DEF Worked, Done1, Done2, Done3
<1>6. DoneB'
  <2> SUFFICES ASSUME Busy', job'.tool = "exportB"
               PROVE  DoneB'
    BY DEF DoneB
  <2>1. /\ Writing("exportB") /\ ~out.manifest
        /\ out.videos = DOMAIN job.rows /\ DOMAIN out.data = DOMAIN job.rows
    BY <1>1, <1>2 DEF RebuildInv, Written, DoneB
  <2> QED BY <1>1, <1>2, <2>1 DEF DoneB, Writing
<1>7. ManifestMeansComplete' /\ OutCurrent'
  BY <1>1 DEF RebuildInv, ManifestMeansComplete, OutCurrent
<1> QED BY <1>3, <1>4, <1>5, <1>6, <1>7 DEF RebuildInv, Written

(* An audit writes its table or its lists.                                 *)
LEMMA ReportKeeps == RebuildInv /\ (Table \/ Lists) => RebuildInv'
<1> SUFFICES ASSUME RebuildInv, Table \/ Lists
             PROVE  RebuildInv'
  OBVIOUS
<1>1. /\ Busy /\ JobType /\ job' = Onward(job) /\ job.tool \in AllAudits /\ job.at \in {2, 3}
      /\ UNCHANGED <<task, disk, source, cache, out>>
  BY Positions DEF Table, Lists, At, RebuildInv, Shape
<1>2. /\ JobType'
      /\ Busy' => /\ job'.at = job.at + 1 /\ job'.tool = job.tool /\ job'.todo = job.todo
  BY <1>1, OnwardKeeps
<1>3. ListsType'
  <2>1. DOMAIN job.rows \subseteq Bags
    BY <1>1 DEF JobType
  <2>2. CASE Table
    BY <2>2 DEF Table, RebuildInv, Shape, ListsType
  <2>3. CASE Lists
    BY <1>1, <2>1, <2>3 DEF Lists, RebuildInv, Shape, ListsType
  <2> QED BY <2>2, <2>3
<1>4. Shape'
  BY <1>1, <1>2, <1>3 DEF RebuildInv, Shape, DiskType, CacheType, OutType
<1>5. Current'
  BY <1>1, OnwardCurrent
<1>6. job.todo = {}
  BY <1>1 DEF RebuildInv, Worked, AllAudits
<1>7. Worked' /\ Written'
  BY <1>1, <1>2, <1>6 DEF Worked, Written, Done1, Done2, Done3, DoneB, AllAudits
<1>8. ManifestMeansComplete' /\ OutCurrent'
  BY <1>1 DEF RebuildInv, ManifestMeansComplete, OutCurrent
<1> QED BY <1>4, <1>5, <1>7, <1>8 DEF RebuildInv
-----------------------------------------------------------------------------
(* A rebuild writes only when it has the values of every episode: the      *)
(* export aside, which writes as it goes.                                  *)
LEMMA WritesWhatItHas ==
    ASSUME RebuildInv, Busy,
           At("delete") \/ At("save") \/ At("data") \/ At("videos") \/ At("manifest"),
           job.tool # "exportB" \/ At("manifest")
    PROVE  job.todo = {} /\ DOMAIN job.rows = job.wanted
<1>1. JobType /\ Worked
  BY DEF RebuildInv, Shape
<1>2. job.at > (IF job.tool = "exportB" THEN 2 ELSE 1)
  BY <1>1, Positions
<1> QED BY <1>1, <1>2 DEF JobType, Worked

LEMMA UnlinkKeeps == RebuildInv /\ Unlink => RebuildInv'
<1> SUFFICES ASSUME RebuildInv, Unlink
             PROVE  RebuildInv'
  OBVIOUS
<1>1. /\ Busy /\ JobType /\ At("delete")
      /\ job.tool \in {"rebuild1", "rebuild2", "rebuild3", "exportB"}
      /\ job.at = (IF job.tool = "exportB" THEN 1 ELSE 2)
      /\ UNCHANGED <<task, disk, source, cache, lists, job>>
  BY Positions DEF Unlink, At, RebuildInv, Shape
<1>2. OutType
  BY DEF RebuildInv, Shape
<1>3. PICK S : /\ DOMAIN out' = OutFields /\ out'.owner = out.owner /\ out'.given = out.given
               /\ out'.going /\ (out'.data = out.data \/ out'.data = Minus(out.data, S))
  <2>1. CASE out' = [out EXCEPT !.going = TRUE, !.manifest = FALSE]
    BY <1>2, <2>1 DEF OutType, OutFields
  <2>2. CASE \E S \in SUBSET DOMAIN out.data :
                 S # {} /\ out' = [out EXCEPT !.going = TRUE, !.data = Minus(out.data, S)]
    BY <1>2, <2>2 DEF OutType, OutFields
  <2>3. CASE \E e \in out.videos : out' = [out EXCEPT !.going = TRUE, !.videos = out.videos \ {e}]
    BY <1>2, <2>3 DEF OutType, OutFields
  <2> QED BY <2>1, <2>2, <2>3 DEF Unlink
<1>4. DOMAIN out'.data \subseteq DOMAIN out.data
  BY <1>3 DEF Minus
<1>5. Shape'
  BY <1>1, <1>2, <1>3, <1>4 DEF RebuildInv, Shape, DiskType, CacheType, ListsType, JobType, OutType, Busy
<1>6. Worked' /\ Current' /\ Written'
  BY <1>1 DEF RebuildInv, Worked, Current, Written, Done1, Done2, Done3, DoneB, Busy
<1>7. ManifestMeansComplete'
  BY <1>3 DEF ManifestMeansComplete
<1>8. OutCurrent'
  <2> SUFFICES ASSUME out.owner \in {"rebuild2", "exportB"}
               PROVE  GivenOk(out.given, disk) /\ RowsOk(out.owner, out'.data, out.given, disk, source)
    BY <1>1, <1>3 DEF OutCurrent
  <2>1. GivenOk(out.given, disk) /\ RowsOk(out.owner, out.data, out.given, disk, source)
    BY DEF RebuildInv, OutCurrent
  <2> QED BY <1>3, <2>1, FewerRowsOk
<1> QED BY <1>5, <1>6, <1>7, <1>8 DEF RebuildInv

LEMMA DeleteKeeps == RebuildInv /\ Delete => RebuildInv'
<1> SUFFICES ASSUME RebuildInv, Delete
             PROVE  RebuildInv'
  OBVIOUS
<1>1. /\ Busy /\ JobType /\ At("delete") /\ job' = Onward(job)
      /\ job.tool \in {"rebuild1", "rebuild2", "rebuild3", "exportB"}
      /\ job.at = (IF job.tool = "exportB" THEN 1 ELSE 2)
      /\ UNCHANGED <<task, disk, source, cache, lists>>
  BY Positions DEF Delete, At, RebuildInv, Shape
<1>2. /\ DOMAIN out' = OutFields /\ out'.owner = job.tool /\ out'.wanted = job.wanted
      /\ out'.given = job.given /\ out'.data = <<>> /\ out'.videos = {}
      /\ ~out'.manifest /\ ~out'.said /\ ~out'.going
  BY DEF Delete, NoOutput, OutFields
<1>3. /\ JobType'
      /\ Busy' => /\ job'.at = job.at + 1 /\ job'.tool = job.tool /\ job'.todo = job.todo
                  /\ job'.rows = job.rows /\ job'.wanted = job.wanted /\ job'.given = job.given
  BY <1>1, OnwardKeeps
<1>4. Shape'
  BY <1>1, <1>2, <1>3, NothingIsEmpty DEF RebuildInv, Shape, DiskType, CacheType, ListsType, OutType
<1>5. Current'
  BY <1>1, OnwardCurrent
<1>6. Worked'
  BY <1>1, <1>3, WritesWhatItHas DEF Worked
<1>7. Done1' /\ Done2' /\ Done3'
  BY <1>1, <1>2, <1>3, NothingIsEmpty DEF Done1, Done2, Done3, Writing
<1>8. DoneB'
  <2>1. DoneB /\ (job.tool = "exportB" => DOMAIN job.rows = {})
    BY <1>1 DEF RebuildInv, Written, DoneB
  <2> QED BY <1>1, <1>2, <1>3, <2>1, NothingIsEmpty DEF DoneB, Writing
<1>9. ManifestMeansComplete' /\ OutCurrent'
  <2>1. GivenOk(job.given, disk)
    BY <1>1 DEF RebuildInv, Current
  <2>2. RowsOk(out'.owner, out'.data, job.given, disk, source)
    BY <1>2, NothingIsEmpty, NoRowsOk
  <2> QED BY <1>1, <1>2, <2>1, <2>2 DEF ManifestMeansComplete, OutCurrent
<1> QED BY <1>4, <1>5, <1>6, <1>7, <1>8, <1>9 DEF RebuildInv, Written

(* An episode is saved, or the last was.                                   *)
LEMMA SaveKeeps == RebuildInv /\ Save => RebuildInv'
<1> SUFFICES ASSUME RebuildInv, Save
             PROVE  RebuildInv'
  OBVIOUS
<1>1. /\ Busy /\ JobType /\ job.tool = "rebuild2" /\ job.at = 3
      /\ UNCHANGED <<task, disk, source, cache, lists>>
  BY Positions DEF Save, At, RebuildInv, Shape
<1>2. /\ Writing("rebuild2") /\ ~out.manifest
      /\ out.videos = DOMAIN out.data /\ DOMAIN out.data \subseteq job.wanted
      /\ DOMAIN job.rows = job.wanted /\ job.todo = {}
  BY <1>1, WritesWhatItHas DEF Save, RebuildInv, Written, Done2
<1> DEFINE left == job.wanted \ DOMAIN out.data
           e    == CHOOSE e \in left : \A other \in left : e <= other
<1>3. CASE left = {}
  <2>1. job' = Onward(job) /\ out' = out
    BY <1>3 DEF Save
  <2>2. /\ JobType'
        /\ Busy' => /\ job'.at = 4 /\ job'.tool = job.tool /\ job'.todo = {}
                    /\ job'.wanted = job.wanted /\ job'.given = job.given
    BY <1>1, <1>2, <2>1, OnwardKeeps
  <2>3. Shape'
    BY <1>1, <2>1, <2>2 DEF RebuildInv, Shape, DiskType, CacheType, ListsType, OutType
  <2>4. Current'
    BY <1>1, <2>1, OnwardCurrent
  <2>5. Worked' /\ Written'
    BY <1>1, <1>2, <1>3, <2>1, <2>2 DEF Worked, Written, Done1, Done2, Done3, DoneB, Writing
  <2>6. ManifestMeansComplete' /\ OutCurrent'
    BY <1>1, <2>1 DEF RebuildInv, ManifestMeansComplete, OutCurrent
  <2> QED BY <2>3, <2>4, <2>5, <2>6 DEF RebuildInv
<1>4. CASE left # {}
  <2>1. /\ job' = job
        /\ out' = [out EXCEPT !.data = Put(out.data, e, job.rows[e]), !.videos = out.videos \cup {e}]
    BY <1>4 DEF Save
  <2>2. e \in left
    <3>1. left \subseteq 1..9
      BY <1>1, <1>2, RebuildAssumption DEF JobType, RebuildAssumption
    <3>2. \E x \in left : \A other \in left : x <= other
      <4>1. \A S \in SUBSET (1..9) : S # {} => \E x \in S : \A y \in S : x <= y
        BY LeastNatural
      <4> QED BY <1>4, <3>1, <4>1
    <3> QED BY <3>2
  <2>3. e \in DOMAIN job.rows
    BY <1>2, <2>2
  <2> DEFINE row == job.rows[e]
  <2>4. /\ out'.owner = out.owner /\ out'.wanted = out.wanted /\ out'.given = out.given
        /\ out'.manifest = out.manifest /\ out'.videos = out.videos \cup {e}
        /\ out'.said = out.said /\ out'.going = out.going
        /\ out'.data = Put(out.data, e, row) /\ DOMAIN out' = OutFields
    BY <2>1 DEF RebuildInv, Shape, OutType, OutFields
  <2>5. e \in job.wanted
    BY <2>2
  <2> HIDE DEF e, left, row
  <2>6. DOMAIN out'.data = DOMAIN out.data \cup {e} /\ e \in Bags
    BY <1>1, <2>4, <2>5 DEF JobType, Put
  <2>7. Shape'
    BY <1>1, <2>1, <2>4, <2>6 DEF RebuildInv, Shape, DiskType, CacheType, ListsType, JobType, OutType, Busy
  <2>8. Current' /\ Worked'
    BY <1>1, <2>1 DEF RebuildInv, Current, Worked, Busy
  <2>9. Written'
    BY <1>1, <1>2, <2>1, <2>4, <2>5, <2>6
       DEF RebuildInv, Written, Done1, Done2, Done3, DoneB, Writing, Busy
  <2>10. ManifestMeansComplete'
    BY <1>2, <2>4 DEF Writing, ManifestMeansComplete
  <2>11. RowOk("rebuild2", row, e, job.given, disk[e], source[e])
    BY <1>1, <2>3 DEF row, RebuildInv, Current, RowsOk
  <2>12. GivenOk(job.given, disk) /\ RowsOk("rebuild2", out.data, job.given, disk, source)
    BY <1>1, <1>2 DEF RebuildInv, Current, OutCurrent, Writing
  <2>13. OutCurrent'
    <3>1. RowsOk("rebuild2", out'.data, job.given, disk, source)
      BY <2>4, <2>11, <2>12, PutRowsOk
    <3> QED BY <1>1, <1>2, <2>4, <2>12, <3>1 DEF OutCurrent, Writing
  <2> QED BY <2>7, <2>8, <2>9, <2>10, <2>13 DEF RebuildInv
<1> QED BY <1>3, <1>4

(* All data at once.                                                       *)
LEMMA DataKeeps == RebuildInv /\ Data => RebuildInv'
<1> SUFFICES ASSUME RebuildInv, Data
             PROVE  RebuildInv'
  OBVIOUS
<1>1. /\ Busy /\ JobType /\ job.tool \in {"rebuild1", "rebuild3"} /\ job.at = 3
      /\ job' = Onward(job) /\ UNCHANGED <<task, disk, source, cache, lists>>
  BY Positions DEF Data, At, RebuildInv, Shape
<1>2. /\ DOMAIN job.rows = job.wanted /\ job.todo = {} /\ job.wanted \subseteq Bags
      /\ Writing(job.tool) /\ ~out.manifest
  BY <1>1, WritesWhatItHas DEF Data, RebuildInv, Written, Done1, Done3, JobType
<1>3. /\ out'.owner = out.owner /\ out'.wanted = out.wanted /\ out'.given = out.given
      /\ out'.manifest = out.manifest /\ out'.videos = out.videos /\ out'.data = job.rows
      /\ out'.said = out.said /\ out'.going = out.going
      /\ DOMAIN out' = OutFields
  BY DEF Data, RebuildInv, Shape, OutType, OutFields
<1>4. /\ JobType'
      /\ Busy' => /\ job'.at = 4 /\ job'.tool = job.tool /\ job'.todo = {}
                  /\ job'.wanted = job.wanted /\ job'.given = job.given
  BY <1>1, <1>2, OnwardKeeps
<1>5. Shape'
  BY <1>1, <1>2, <1>3, <1>4 DEF RebuildInv, Shape, DiskType, CacheType, ListsType, OutType
<1>6. Current'
  BY <1>1, OnwardCurrent
<1>7. Worked' /\ Written'
  BY <1>1, <1>2, <1>3, <1>4
     DEF RebuildInv, Worked, Written, Done1, Done2, Done3, DoneB, Writing
<1>8. ManifestMeansComplete' /\ OutCurrent'
  BY <1>1, <1>2, <1>3 DEF Writing, ManifestMeansComplete, OutCurrent
<1> QED BY <1>5, <1>6, <1>7, <1>8 DEF RebuildInv

(* A video is linked or encoded, or the last was.                          *)
LEMMA VideosKeeps == RebuildInv /\ Videos => RebuildInv'
<1> SUFFICES ASSUME RebuildInv, Videos
             PROVE  RebuildInv'
  OBVIOUS
<1>1. /\ Busy /\ JobType
      /\ \/ job.tool = "rebuild1" /\ job.at = 5
         \/ job.tool = "rebuild3" /\ job.at = 4
      /\ UNCHANGED <<task, disk, source, cache, lists>>
  BY Positions DEF Videos, At, RebuildInv, Shape
<1>2. /\ DOMAIN job.rows = job.wanted /\ job.todo = {} /\ Writing(job.tool)
      /\ DOMAIN out.data = job.wanted /\ (job.tool = "rebuild1" => out.manifest)
      /\ (job.tool = "rebuild3" => ~out.manifest)
  <2>1. DOMAIN job.rows = job.wanted /\ job.todo = {}
    BY <1>1, WritesWhatItHas DEF Videos
  <2>2. CASE job.tool = "rebuild1"
    BY <1>1, <2>1, <2>2 DEF RebuildInv, Written, Done1
  <2>3. CASE job.tool = "rebuild3"
    BY <1>1, <2>1, <2>3 DEF RebuildInv, Written, Done3
  <2> QED BY <1>1, <2>2, <2>3
<1>3. CASE job.wanted = out.videos /\ job' = Onward(job) /\ out' = [out EXCEPT !.said = LastPhase]
  <2>1. /\ JobType'
        /\ Busy' => /\ job'.at = job.at + 1 /\ job'.at <= Len(Phases(job.tool))
                    /\ job'.tool = job.tool /\ job'.todo = {}
                    /\ job'.wanted = job.wanted /\ job'.given = job.given
    BY <1>1, <1>2, <1>3, OnwardKeeps
  <2>2. /\ out'.owner = out.owner /\ out'.wanted = out.wanted /\ out'.given = out.given
        /\ out'.manifest = out.manifest /\ out'.videos = out.videos /\ out'.data = out.data
        /\ out'.going = out.going /\ out'.said = LastPhase /\ DOMAIN out' = OutFields
    BY <1>3 DEF RebuildInv, Shape, OutType, OutFields
  <2>3. Shape'
    BY <1>1, <2>1, <2>2 DEF RebuildInv, Shape, DiskType, CacheType, ListsType, OutType
  <2>4. Current'
    BY <1>1, <1>3, OnwardCurrent
  <2>5. LastPhase <=> job.tool = "rebuild1"
    BY <1>1, PhaseTable DEF LastPhase
  <2>6. Busy' => job.tool = "rebuild3" /\ job'.at = 5
    <3>1. CASE job.tool = "rebuild1" /\ job.at = 5
      <4>1. Len(Phases(job.tool)) = 5
        BY <3>1, PhaseTable
      <4>2. Busy' => job'.at = 6
        BY <2>1, <3>1
      <4>3. Busy' => job'.at <= 5
        BY <2>1, <4>1
      <4> QED BY <4>2, <4>3
    <3>2. CASE job.tool = "rebuild3" /\ job.at = 4
      BY <2>1, <3>2
    <3> QED BY <1>1, <3>1, <3>2
  <2>7. Worked' /\ Written'
    BY <1>1, <1>2, <1>3, <2>1, <2>2, <2>5, <2>6
       DEF Worked, Written, Done1, Done2, Done3, DoneB, Writing
  <2>8. ManifestMeansComplete'
    BY <1>2, <1>3, <2>2, <2>5 DEF ManifestMeansComplete, Writing
  <2>9. OutCurrent'
    BY <1>1, <2>2 DEF RebuildInv, OutCurrent
  <2> QED BY <2>3, <2>4, <2>7, <2>8, <2>9 DEF RebuildInv
<1>4. CASE \E e \in job.wanted \ out.videos :
              out' = [out EXCEPT !.videos = out.videos \cup {e}] /\ UNCHANGED job
  <2>1. PICK e \in job.wanted \ out.videos :
            out' = [out EXCEPT !.videos = out.videos \cup {e}] /\ UNCHANGED job
    BY <1>4
  <2>2. /\ out'.owner = out.owner /\ out'.wanted = out.wanted /\ out'.given = out.given
        /\ out'.manifest = out.manifest /\ out'.videos = out.videos \cup {e}
        /\ out'.said = out.said /\ out'.going = out.going
        /\ out'.data = out.data /\ DOMAIN out' = OutFields
    BY <2>1 DEF RebuildInv, Shape, OutType, OutFields
  <2>3. Shape'
    BY <1>1, <2>1, <2>2 DEF RebuildInv, Shape, DiskType, CacheType, ListsType, JobType, OutType, Busy
  <2>4. Current' /\ Worked'
    BY <1>1, <2>1 DEF RebuildInv, Current, Worked, Busy
  <2>5. Written'
    BY <1>1, <2>1, <2>2 DEF RebuildInv, Written, Done1, Done2, Done3, DoneB, Writing, Busy
  <2>6. ManifestMeansComplete' /\ OutCurrent'
    BY <1>1, <1>2, <2>2 DEF RebuildInv, Writing, ManifestMeansComplete, OutCurrent
  <2> QED BY <2>3, <2>4, <2>5, <2>6 DEF RebuildInv
<1> QED BY <1>3, <1>4 DEF Videos

(* The manifest: by then data and videos are complete, but for task 1.     *)
LEMMA ManifestKeeps == RebuildInv /\ Manifest => RebuildInv'
<1> SUFFICES ASSUME RebuildInv, Manifest
             PROVE  RebuildInv'
  OBVIOUS
<1>1. /\ Busy /\ JobType /\ At("manifest") /\ job' = Onward(job)
      /\ \/ job.tool = "rebuild2" /\ job.at = 4
         \/ job.tool = "rebuild1" /\ job.at = 4
         \/ job.tool = "rebuild3" /\ job.at = 5
         \/ job.tool = "exportB" /\ job.at = 3
      /\ UNCHANGED <<task, disk, source, cache, lists>>
  BY Positions DEF Manifest, At, RebuildInv, Shape
<1>2. DOMAIN job.rows = job.wanted /\ job.todo = {}
  BY <1>1, WritesWhatItHas
<1>3. /\ out'.owner = out.owner /\ out'.wanted = out.wanted /\ out'.given = out.given
      /\ out'.manifest /\ out'.videos = out.videos /\ out'.data = out.data
      /\ out'.going = out.going /\ out'.said = LastPhase /\ DOMAIN out' = OutFields
  BY DEF Manifest, RebuildInv, Shape, OutType, OutFields
<1>4. /\ JobType'
      /\ Busy' => /\ job'.at = job.at + 1 /\ job'.at <= Len(Phases(job.tool))
                  /\ job'.tool = job.tool /\ job'.todo = {}
                  /\ job'.wanted = job.wanted /\ job'.given = job.given
  BY <1>1, <1>2, OnwardKeeps
<1>5. Busy' => job.tool = "rebuild1" /\ job'.tool = "rebuild1" /\ job'.at = 5
  <2>1. CASE job.tool = "rebuild1"
    BY <1>1, <1>4, <2>1
  <2>2. CASE job.tool # "rebuild1"
    <3>1. job.at = Len(Phases(job.tool)) /\ job.at \in Nat
      <4>1. CASE job.tool = "rebuild2" /\ job.at = 4
        BY <4>1, PhaseTable
      <4>2. CASE job.tool = "rebuild3" /\ job.at = 5
        BY <4>2, PhaseTable
      <4>3. CASE job.tool = "exportB" /\ job.at = 3
        BY <4>3, PhaseTable
      <4> QED BY <1>1, <2>2, <4>1, <4>2, <4>3
    <3> QED BY <1>4, <3>1
  <2> QED BY <2>1, <2>2
<1>6. Shape'
  BY <1>1, <1>3, <1>4 DEF RebuildInv, Shape, DiskType, CacheType, ListsType, OutType
<1>7. Current'
  BY <1>1, OnwardCurrent
<1>8. Writing(job.tool) /\ DOMAIN out.data = job.wanted
      /\ (job.tool # "rebuild1" => out.videos = job.wanted)
  <2>1. CASE job.tool = "rebuild1"
    BY <1>1, <2>1 DEF RebuildInv, Written, Done1
  <2>2. CASE job.tool = "rebuild2"
    BY <1>1, <2>2 DEF RebuildInv, Written, Done2
  <2>3. CASE job.tool = "rebuild3"
    BY <1>1, <2>3 DEF RebuildInv, Written, Done3
  <2>4. CASE job.tool = "exportB"
    BY <1>1, <1>2, <2>4 DEF RebuildInv, Written, DoneB
  <2> QED BY <1>1, <2>1, <2>2, <2>3, <2>4
<1>9. job.tool = "rebuild1" => ~LastPhase
  BY <1>1, PhaseTable DEF LastPhase
<1>10. Worked' /\ Written'
  <2>1. CASE ~Busy'
    BY <2>1 DEF Worked, Written, Done1, Done2, Done3, DoneB
  <2>2. CASE Busy'
    <3>1. /\ job.tool = "rebuild1" /\ job'.tool = "rebuild1" /\ job'.at = 5 /\ job'.todo = {}
          /\ job'.wanted = job.wanted /\ job'.given = job.given /\ ~LastPhase
      BY <1>4, <1>5, <1>9, <2>2
    <3>2. ~out'.said
      BY <1>3, <3>1
    <3> QED BY <1>3, <1>8, <3>1, <3>2 DEF Worked, Written, Done1, Done2, Done3, DoneB, Writing
  <2> QED BY <2>1, <2>2
<1>11. ManifestMeansComplete'
  BY <1>3, <1>8, <1>9 DEF ManifestMeansComplete, Writing
<1>12. OutCurrent'
  BY <1>1, <1>3 DEF RebuildInv, OutCurrent
<1> QED BY <1>6, <1>7, <1>10, <1>11, <1>12 DEF RebuildInv
-----------------------------------------------------------------------------
LEMMA InvariantHolds == Spec => []RebuildInv
<1>1. RebuildInv /\ [Next]_vars => RebuildInv'
  <2> SUFFICES ASSUME RebuildInv, [Next]_vars
               PROVE  RebuildInv'
    OBVIOUS
  <2>1. CASE Next
    BY <2>1, RecordKeeps, LaunchKeeps, StatKeeps, AuditKeeps, ReuseKeeps, ReadKeeps, KeepKeeps,
       ExtractKeeps, ExportKeeps, AllDoneKeeps, ReportKeeps, UnlinkKeeps,
       DeleteKeeps, SaveKeeps, DataKeeps, VideosKeeps, ManifestKeeps, StopKeeps DEF Next
  <2>2. CASE UNCHANGED vars
    <3>1. Shape'
      BY <2>2 DEF vars, RebuildInv, Shape, DiskType, CacheType, ListsType, JobType, OutType, Busy
    <3>2. Worked' /\ Current'
      BY <2>2 DEF vars, RebuildInv, Worked, Current, Busy
    <3>3. Written'
      BY <2>2 DEF vars, RebuildInv, Written, Done1, Done2, Done3, DoneB, Writing, Busy
    <3>4. ManifestMeansComplete' /\ OutCurrent'
      BY <2>2 DEF vars, RebuildInv, ManifestMeansComplete, OutCurrent
    <3> QED BY <3>1, <3>2, <3>3, <3>4 DEF RebuildInv
  <2> QED BY <2>1, <2>2
<1> QED BY <1>1, InitKeeps, PTL DEF Spec

(* A dataset with a manifest holds the values of exactly the episodes it   *)
(* was built for, and their videos unless it is task 1's; one whose tool   *)
(* said "Complete" holds everything.  That is so wherever launches were    *)
(* interrupted, until a later one begins to remove the dataset.            *)
THEOREM ManifestsAreComplete == Spec => []ManifestMeansComplete
<1>1. RebuildInv => ManifestMeansComplete
  BY DEF RebuildInv
<1> QED BY <1>1, InvariantHolds, PTL

(* What an audit reports and what the export writes is not of a recording  *)
(* replaced before they were launched, also when a bag is replaced between *)
(* the look at its size and its reading; what the task 2 rebuild writes    *)
(* may be, but only under the size of a recording that was there since.    *)
THEOREM NothingIsStale == Spec => []NothingStale
<1>1. RebuildInv => NothingStale
  <2> SUFFICES ASSUME RebuildInv
               PROVE  AuditIsCurrent
    BY OutIsCurrent DEF NothingStale, RebuildInv
  <2> SUFFICES ASSUME At("csv") \/ At("lists"), NEW e \in DOMAIN job.rows
               PROVE  /\ job.rows[e].ver >= job.given.start[e]
                      /\ job.tool = "auditB" \/ job.rows[e].set = job.given.set
    BY DEF AuditIsCurrent
  <2>1. Busy /\ job.tool \in AllAudits
    BY Positions DEF At, RebuildInv, Shape
  <2>2. RowOk(job.tool, job.rows[e], e, job.given, disk[e], source[e])
    BY <2>1 DEF RebuildInv, Current, RowsOk
  <2> QED BY <2>1, <2>2 DEF RowOk, Audited
<1> QED BY <1>1, InvariantHolds, PTL

(* However often the rebuilds are launched, stopped and launched again, no *)
(* values of an earlier dataset are given up for one whose values are      *)
(* incomplete; but the export gives them up first.                         *)
THEOREM OldOutputsSurvive == Spec => OldOutputSurvives
<1>1. RebuildInv /\ [Next]_vars =>
        [~(DOMAIN out.data \subseteq DOMAIN out'.data) /\ job.tool # "exportB"
            => DOMAIN job.rows = job.wanted]_vars
  <2> SUFFICES ASSUME RebuildInv, Next, ~(DOMAIN out.data \subseteq DOMAIN out'.data),
                      job.tool # "exportB"
               PROVE  DOMAIN job.rows = job.wanted
    OBVIOUS
  <2>1. out' # out
    OBVIOUS
  <2>2. CASE ExportEpisode
    BY <2>2 DEF ExportEpisode, Working
  <2>3. CASE Delete \/ Unlink
    BY <2>3, WritesWhatItHas DEF Delete, Unlink, At
  <2>4. CASE Save
    BY <2>4, WritesWhatItHas DEF Save, At
  <2>5. CASE Data
    BY <2>5, WritesWhatItHas DEF Data, At
  <2>6. CASE Videos
    BY <2>6, WritesWhatItHas DEF Videos, At
  <2>7. CASE Manifest
    BY <2>7, WritesWhatItHas DEF Manifest, At
  <2> QED BY <2>1, <2>2, <2>3, <2>4, <2>5, <2>6, <2>7
          DEF Next, Record, Launch, StartAudit, StartRebuild, Idle, Stat, Audit, Reuse, ReadBag, Keep,
              Extract, AllDone, Table, Lists, Stop
<1> QED BY <1>1, InvariantHolds, PTL DEF Spec, OldOutputSurvives

(* The two ways of telling which episodes of a merged dataset qualify      *)
(* agree: along the chain of manifests, and by their recordings - provided *)
(* that every episode of the first dataset has one.                        *)
THEOREM TracesAgree ==
    ASSUME NEW base, NEW merged, NEW ok, NEW self,
           \A o \in DOMAIN merged : merged[o] \subseteq DOMAIN base,
           \A s \in DOMAIN base : base[s] # {} /\ \A b \in base[s] : self[b] = {b}
    PROVE  TraceChain(merged, TraceChain(base, ok))
             = QualifiedOutputs(RawSources(merged, RawSources(base, self)), ok)
<1> DEFINE raw == RawSources(base, self)  all == RawSources(merged, raw)
<1>1. DOMAIN raw = DOMAIN base /\ \A s \in DOMAIN base : raw[s] = base[s]
  BY DEF RawSources
<1>2. DOMAIN all = DOMAIN merged /\ \A o \in DOMAIN merged : all[o] = UNION {raw[s] : s \in merged[o]}
  BY DEF RawSources
<1> HIDE DEF raw, all
<1>3. ASSUME NEW o \in DOMAIN merged
      PROVE  o \in TraceChain(merged, TraceChain(base, ok)) <=> o \in QualifiedOutputs(all, ok)
  <2>1. \A s \in merged[o] : s \in TraceChain(base, ok) <=> raw[s] \subseteq ok
    BY <1>1 DEF TraceChain, AllQualify
  <2>2. all[o] \subseteq ok <=> \A s \in merged[o] : raw[s] \subseteq ok
    BY <1>2
  <2>3. all[o] # {} <=> merged[o] # {}
    <3>1. \A s \in merged[o] : raw[s] # {}
      BY <1>1
    <3> QED BY <1>2, <3>1
  <2>4. merged[o] \subseteq TraceChain(base, ok) <=> all[o] \subseteq ok
    BY <2>1, <2>2
  <2> QED BY <1>2, <2>3, <2>4 DEF TraceChain, AllQualify, QualifiedOutputs
<1>4. TraceChain(merged, TraceChain(base, ok)) \subseteq DOMAIN merged
  BY DEF TraceChain, AllQualify
<1>5. QualifiedOutputs(all, ok) \subseteq DOMAIN merged
  BY <1>2 DEF QualifiedOutputs
<1>6. TraceChain(merged, TraceChain(base, ok)) = QualifiedOutputs(all, ok)
  BY <1>3, <1>4, <1>5
<1> QED BY <1>6 DEF all, raw
-----------------------------------------------------------------------------
(* The manual review: verdicts and bad episodes after any commands.        *)
Judged(s) == {e \in DOMAIN s.decisions : s.decisions[e] # "skip"}
Verdicts(s, bad) ==
    /\ \A e \in Judged(s) : e \in s.bad <=> s.decisions[e] = "bad"
    /\ s.bad \ Judged(s) = bad \ Judged(s)

LEMMA ObeyKeepsVerdicts ==
    ASSUME NEW s, NEW bad, NEW todo, NEW command \in Answers, s.quit \in BOOLEAN,
           s = [at |-> s.at, bad |-> s.bad, decisions |-> s.decisions, quit |-> s.quit],
           Verdicts(s, bad)
    PROVE  /\ Verdicts(Obey(s, todo, command), bad)
           /\ Obey(s, todo, command).quit \in BOOLEAN
           /\ Obey(s, todo, command) = [at |-> Obey(s, todo, command).at,
                                        bad |-> Obey(s, todo, command).bad,
                                        decisions |-> Obey(s, todo, command).decisions,
                                        quit |-> Obey(s, todo, command).quit]
<1>1. PICK e : e = todo[s.at]
  OBVIOUS
<1>2. PICK t : t = Obey(s, todo, command)
  OBVIOUS
<1>3. CASE t = s
  BY <1>2, <1>3
<1>4. CASE ~(s.quit \/ s.at > Len(todo))
  <2>1. CASE command = "ok"
    <3>1. t = [at |-> s.at + 1, bad |-> s.bad \ {e}, decisions |-> Decide(s, e, "ok"), quit |-> s.quit]
      <4>1. t = [s EXCEPT !.at = @ + 1, !.bad = @ \ {e}, !.decisions = Decide(s, e, "ok")]
        BY <1>1, <1>2, <1>4, <2>1 DEF Obey
      <4> QED BY <4>1
    <3>2. /\ DOMAIN t.decisions = DOMAIN s.decisions \cup {e} /\ t.decisions[e] = "ok"
          /\ \A f \in DOMAIN s.decisions : f # e => t.decisions[f] = s.decisions[f]
      BY <3>1 DEF Decide
    <3>3. Judged(t) = Judged(s) \cup {e}
      BY <3>2 DEF Judged
    <3>4. Verdicts(t, bad)
      BY <3>1, <3>2, <3>3 DEF Verdicts, Judged
    <3> QED BY <1>2, <3>1, <3>4
  <2>2. CASE command = "bad"
    <3>1. t = [at |-> s.at + 1, bad |-> s.bad \cup {e}, decisions |-> Decide(s, e, "bad"), quit |-> s.quit]
      <4>1. t = [s EXCEPT !.at = @ + 1, !.bad = @ \cup {e}, !.decisions = Decide(s, e, "bad")]
        BY <1>1, <1>2, <1>4, <2>2 DEF Obey
      <4> QED BY <4>1
    <3>2. /\ DOMAIN t.decisions = DOMAIN s.decisions \cup {e} /\ t.decisions[e] = "bad"
          /\ \A f \in DOMAIN s.decisions : f # e => t.decisions[f] = s.decisions[f]
      BY <3>1 DEF Decide
    <3>3. Judged(t) = Judged(s) \cup {e}
      BY <3>2 DEF Judged
    <3>4. Verdicts(t, bad)
      BY <3>1, <3>2, <3>3 DEF Verdicts, Judged
    <3> QED BY <1>2, <3>1, <3>4
  <2>3. CASE command = "skip" /\ e \notin DOMAIN s.decisions
    <3>1. t = [at |-> s.at + 1, bad |-> s.bad, decisions |-> Decide(s, e, "skip"), quit |-> s.quit]
      <4>1. t = [s EXCEPT !.at = @ + 1, !.decisions = Decide(s, e, "skip")]
        BY <1>1, <1>2, <1>4, <2>3 DEF Obey
      <4> QED BY <4>1
    <3>2. /\ DOMAIN t.decisions = DOMAIN s.decisions \cup {e} /\ t.decisions[e] = "skip"
          /\ \A f \in DOMAIN s.decisions : f # e => t.decisions[f] = s.decisions[f]
      BY <3>1 DEF Decide
    <3>3. Judged(t) = Judged(s) /\ \A f \in Judged(s) : t.decisions[f] = s.decisions[f]
      BY <2>3, <3>2 DEF Judged
    <3>4. Verdicts(t, bad)
      BY <3>1, <3>3 DEF Verdicts
    <3> QED BY <1>2, <3>1, <3>4
  <2>4. CASE command \in {"previous", "quit"} \/ (command = "skip" /\ e \in DOMAIN s.decisions)
    <3>1. /\ t = [at |-> t.at, bad |-> s.bad, decisions |-> s.decisions, quit |-> t.quit]
          /\ t.quit \in BOOLEAN
      <4>1. CASE command = "previous"
        BY <1>1, <1>2, <1>4, <4>1 DEF Obey
      <4>2. CASE command = "quit"
        BY <1>1, <1>2, <1>4, <4>2 DEF Obey
      <4>3. CASE command = "skip" /\ e \in DOMAIN s.decisions
        BY <1>1, <1>2, <1>4, <4>3 DEF Obey
      <4> QED BY <2>4, <4>1, <4>2, <4>3
    <3>2. t.bad = s.bad /\ t.decisions = s.decisions
      BY <3>1
    <3>3. Verdicts(t, bad)
      BY <3>2 DEF Verdicts, Judged
    <3> QED BY <1>2, <3>1, <3>3
  <2>5. CASE command = "unknown"
    BY <1>2, <1>3, <1>4, <2>5 DEF Obey
  <2> QED BY <2>1, <2>2, <2>3, <2>4, <2>5 DEF Answers
<1>5. CASE s.quit \/ s.at > Len(todo)
  BY <1>2, <1>3, <1>5 DEF Obey
<1> QED BY <1>4, <1>5

(* After any commands an episode called bad is in the list of bad ones, an *)
(* episode called ok is not, and one without a verdict is as it was before *)
(* the review (main of qc_gripper_episode_alignment.py).                   *)
THEOREM VerdictsAgree ==
    ASSUME NEW bad, NEW todo, NEW commands, NEW after, after[0] = Reviewing(bad),
           \A i \in Nat : /\ commands[i + 1] \in Answers
                          /\ after[i + 1] = Obey(after[i], todo, commands[i + 1])
    PROVE  \A i \in Nat : Verdicts(after[i], bad)
<1> DEFINE Whole(s) == s = [at |-> s.at, bad |-> s.bad, decisions |-> s.decisions, quit |-> s.quit]
           Good(i)  == /\ after[i].quit \in BOOLEAN /\ Whole(after[i]) /\ Verdicts(after[i], bad)
<1>1. Good(0)
  BY DEF Reviewing, Verdicts, Judged
<1>2. ASSUME NEW i \in Nat, Good(i) PROVE Good(i + 1)
  <2>1. PICK s : s = after[i]
    OBVIOUS
  <2>2. PICK command \in Answers : command = commands[i + 1]
    OBVIOUS
  <2>3. s.quit \in BOOLEAN /\ Whole(s) /\ Verdicts(s, bad)
    BY <1>2, <2>1
  <2>4. /\ Verdicts(Obey(s, todo, command), bad)
        /\ Obey(s, todo, command).quit \in BOOLEAN /\ Whole(Obey(s, todo, command))
    BY <2>3, ObeyKeepsVerdicts
  <2>5. after[i + 1] = Obey(s, todo, command)
    BY <2>1, <2>2
  <2> QED BY <2>4, <2>5
<1> HIDE DEF Good
<1>3. \A i \in Nat : Good(i)
  <2>1. SUFFICES ASSUME {i \in Nat : ~Good(i)} # {} PROVE FALSE
    OBVIOUS
  <2>2. PICK m \in Nat : ~Good(m) /\ \A i \in Nat : ~Good(i) => m <= i
    BY <2>1, LeastNatural
  <2>3. m - 1 \in Nat
    BY <1>1, <2>2
  <2>4. Good((m - 1) + 1)
    BY <1>2, <2>2, <2>3
  <2> QED BY <2>2, <2>3, <2>4
<1> QED BY <1>3 DEF Good
-----------------------------------------------------------------------------
(* The automatic review: how the events of a hand become cycles.           *)
Unclosed(p) == IF p.pending = 0 THEN 0 ELSE 1
Accounts(p, i, events) ==
    /\ p = [pending |-> p.pending, cycles |-> p.cycles, orphans |-> p.orphans]
    /\ p.pending \in Nat /\ p.orphans \in Nat /\ p.cycles \in Seq([close : Nat, open : Nat])
    /\ i = 2 * Len(p.cycles) + p.orphans + Unclosed(p)
    /\ p.pending # 0 <=> i > 0 /\ events[i].to = "closed"
    /\ p.orphans = IF i > 0 /\ events[1].to = "open" THEN 1 ELSE 0

LEMMA PairAccounts ==
    ASSUME NEW events \in Seq([to : Sides, frame : Nat \ {0}]), NEW p, NEW i \in Nat, i + 1 \in DOMAIN events,
           i > 0 => events[i + 1].to # events[i].to, Accounts(p, i, events)
    PROVE  Accounts(Pair(p, events[i + 1]), i + 1, events)
<1>1. PICK e \in [to : Sides, frame : Nat \ {0}] : e = events[i + 1]
  <2>1. i + 1 \in 1..Len(events)
    OBVIOUS
  <2> QED BY <2>1, ElementOfSeq
<1>2. PICK cycles \in Seq([close : Nat, open : Nat]), pending \in Nat, orphans \in Nat :
          p = [pending |-> pending, cycles |-> cycles, orphans |-> orphans]
  BY DEF Accounts
<1>3. i > 0 => events[i] \in [to : Sides, frame : Nat \ {0}]
  <2>1. SUFFICES ASSUME i > 0 PROVE events[i] \in [to : Sides, frame : Nat \ {0}]
    OBVIOUS
  <2>2. Len(events) \in Nat /\ i + 1 \in 1..Len(events)
    OBVIOUS
  <2>3. i \in 1..Len(events)
    BY <2>1, <2>2
  <2> QED BY <2>3, ElementOfSeq
<1>4. Len(cycles) \in Nat
  BY <1>2
<1>5. /\ i = 2 * Len(cycles) + orphans + (IF pending = 0 THEN 0 ELSE 1)
      /\ pending # 0 <=> i > 0 /\ events[i].to = "closed"
      /\ orphans = IF i > 0 /\ events[1].to = "open" THEN 1 ELSE 0
  BY <1>2 DEF Accounts, Unclosed
<1>6. CASE e.to = "closed"
  <2>1. pending = 0
    BY <1>1, <1>5, <1>6
  <2>2. Pair(p, e) = [pending |-> e.frame, cycles |-> cycles, orphans |-> orphans]
    BY <1>2, <1>6 DEF Pair
  <2>3. orphans = IF i + 1 > 0 /\ events[1].to = "open" THEN 1 ELSE 0
    <3>1. i = 0 => events[1].to = "closed"
      BY <1>1, <1>6
    <3> QED BY <1>5, <3>1
  <2>4. i + 1 = 2 * Len(cycles) + orphans + 1
    BY <1>4, <1>5, <2>1
  <2>5. e.frame \in Nat \ {0} /\ (e.frame # 0 <=> i + 1 > 0 /\ e.to = "closed")
    BY <1>6
  <2>6. Accounts([pending |-> e.frame, cycles |-> cycles, orphans |-> orphans], i + 1, events)
    BY <1>1, <1>2, <2>3, <2>4, <2>5 DEF Accounts, Unclosed
  <2> QED BY <1>1, <2>2, <2>6
<1>7. CASE e.to = "open" /\ pending = 0
  <2>1. i = 0
    BY <1>1, <1>3, <1>5, <1>7 DEF Sides
  <2>2. orphans = 0 /\ Len(cycles) = 0
    BY <1>4, <1>5, <2>1
  <2>3. Pair(p, e) = [pending |-> 0, cycles |-> cycles, orphans |-> 1]
    BY <1>2, <1>7, <2>2 DEF Pair
  <2>4. e.to # "closed" /\ events[i + 1].to = "open" /\ events[1].to = "open"
    BY <1>1, <1>7, <2>1
  <2>5. Accounts([pending |-> 0, cycles |-> cycles, orphans |-> 1], i + 1, events)
    BY <1>2, <2>1, <2>2, <2>4 DEF Accounts, Unclosed
  <2> QED BY <1>1, <2>3, <2>5
<1>8. CASE e.to = "open" /\ pending # 0
  <2>1. PICK longer : longer = Append(cycles, [close |-> pending, open |-> e.frame])
    OBVIOUS
  <2>2. longer \in Seq([close : Nat, open : Nat]) /\ Len(longer) = Len(cycles) + 1
    BY <2>1
  <2>3. Pair(p, e) = [pending |-> 0, cycles |-> longer, orphans |-> orphans]
    BY <1>2, <1>8, <2>1 DEF Pair
  <2>4. i > 0
    BY <1>5, <1>8
  <2>5. i + 1 = 2 * Len(longer) + orphans
    BY <1>4, <1>5, <1>8, <2>2
  <2>6. events[i + 1].to # "closed"
    BY <1>1, <1>8
  <2>7. orphans = IF i + 1 > 0 /\ events[1].to = "open" THEN 1 ELSE 0
    BY <1>5, <2>4
  <2>8. Accounts([pending |-> 0, cycles |-> longer, orphans |-> orphans], i + 1, events)
    <3>1. PICK t : t = [pending |-> 0, cycles |-> longer, orphans |-> orphans]
      OBVIOUS
    <3>2. t.pending = 0 /\ t.cycles = longer /\ t.orphans = orphans
      BY <3>1
    <3>3. Unclosed(t) = 0
      BY <3>2 DEF Unclosed
    <3>4. i + 1 = 2 * Len(t.cycles) + t.orphans + Unclosed(t)
      <4>1. Len(longer) \in Nat
        BY <1>4, <2>2
      <4>2. PICK n \in Nat : n = Len(longer) /\ n = Len(t.cycles)
        BY <3>2, <4>1
      <4>3. i + 1 = 2 * n + orphans + 0
        BY <2>5, <4>2
      <4> QED BY <3>2, <3>3, <4>2, <4>3
    <3>5. t.pending # 0 <=> i + 1 > 0 /\ events[i + 1].to = "closed"
      BY <2>6, <3>2
    <3>6. Accounts(t, i + 1, events)
      BY <2>2, <2>7, <3>1, <3>2, <3>4, <3>5 DEF Accounts
    <3> QED BY <3>1, <3>6
  <2>9. Accounts(Pair(p, e), i + 1, events)
    BY <2>3, <2>8
  <2> QED BY <1>1, <2>9
<1> QED BY <1>1, <1>6, <1>7, <1>8 DEF Sides

(* Of events that alternate none is lost: each is the closing or opening   *)
(* of a cycle, the one opening of a hand that began closed, or the last    *)
(* closing of a hand that stays closed (pair_cycles).                      *)
THEOREM EventsAreAccounted ==
    ASSUME NEW events \in Seq([to : Sides, frame : Nat \ {0}]), NEW after,
           \A i \in 1..Len(events) - 1 : events[i + 1].to # events[i].to,
           after[0] = Pairing,
           \A i \in 0..Len(events) - 1 : after[i + 1] = Pair(after[i], events[i + 1])
    PROVE  LET p == after[Len(events)]
           IN /\ Len(events) = 2 * Len(p.cycles) + p.orphans + Unclosed(p)
              /\ p.orphans = IF Len(events) > 0 /\ events[1].to = "open" THEN 1 ELSE 0
              /\ p.pending # 0 <=> Len(events) > 0 /\ events[Len(events)].to = "closed"
<1> DEFINE Good(i) == Accounts(after[i], i, events)
<1>0. Len(events) \in Nat
  OBVIOUS
<1>1. Good(0)
  <2>1. PICK p : p = after[0]
    OBVIOUS
  <2>2. p = [pending |-> 0, cycles |-> <<>>, orphans |-> 0]
    BY <2>1 DEF Pairing
  <2>3. <<>> \in Seq([close : Nat, open : Nat]) /\ Len(<<>>) = 0
    OBVIOUS
  <2>4. Accounts(p, 0, events)
    BY <2>2, <2>3 DEF Accounts, Unclosed
  <2> QED BY <2>1, <2>4
<1>2. ASSUME NEW i \in Nat, i < Len(events), Good(i) PROVE Good(i + 1)
  <2>1. i + 1 \in DOMAIN events /\ i \in 0..Len(events) - 1
    BY <1>0, <1>2
  <2>2. i > 0 => events[i + 1].to # events[i].to
    BY <1>0, <1>2
  <2>3. Accounts(Pair(after[i], events[i + 1]), i + 1, events)
    BY <1>2, <2>1, <2>2, PairAccounts
  <2> QED BY <2>1, <2>3
<1> HIDE DEF Good
<1>3. \A i \in Nat : i <= Len(events) => Good(i)
  <2>1. SUFFICES ASSUME {i \in Nat : i <= Len(events) /\ ~Good(i)} # {} PROVE FALSE
    OBVIOUS
  <2>2. PICK m \in Nat : /\ m <= Len(events) /\ ~Good(m)
                         /\ \A i \in Nat : i <= Len(events) /\ ~Good(i) => m <= i
    BY <2>1, LeastNatural
  <2>3. m - 1 \in Nat /\ m - 1 < Len(events)
    BY <1>0, <1>1, <2>2
  <2>4. Good((m - 1) + 1)
    BY <1>2, <2>2, <2>3
  <2> QED BY <2>2, <2>3, <2>4
<1>4. PICK n \in Nat : n = Len(events)
  BY <1>0
<1>p. PICK p : p = after[n]
  OBVIOUS
<1>a. Accounts(p, n, events)
  BY <1>3, <1>4, <1>p DEF Good
<1>5. p.pending # 0 <=> n > 0 /\ events[n].to = "closed"
  BY <1>a DEF Accounts
<1>6. n = 2 * Len(p.cycles) + p.orphans + Unclosed(p)
  BY <1>a DEF Accounts
<1>7. p.orphans = IF n > 0 /\ events[1].to = "open" THEN 1 ELSE 0
  BY <1>a DEF Accounts
<1> QED BY <1>4, <1>p, <1>5, <1>6, <1>7

-----------------------------------------------------------------------------
(* The episode editor.  Configurations, what a widget may show, and what   *)
(* an auto-trim plan was computed from.                                    *)
Config == [Episodes -> Ranges]
Shows  == {"drop", "keep", Unset}
Pairs  == {r \in Int \X Int : r[1] <= r[2]}
PlanOf(c, s, p) == [rows |-> Plan(c, [e \in Episodes |-> s], p), basis |-> c, params |-> p]
Planned == \E c \in Config, s \in Suggestions, p \in PlanParams : plan = PlanOf(c, s, p)

Edited ==
    /\ cfg \in Config /\ opened \in Datasets
    /\ saved \in [Datasets -> Config \cup {<<>>}] /\ uploaded \in Files \cup {<<>>}
    /\ keys \in [Episodes -> Shows] /\ asked \in [Episodes -> Shows]
    /\ shown \in Pairs
    /\ sampled \in Seq(Episodes) /\ selected \in ToSet(Options(sampled))
    /\ plan = NoPlan \/ Planned

(* A decision that stands is the one in the configuration, the checkbox    *)
(* shows it or has forgotten its value, and no file is applied over it.    *)
Agrees(c, k, a, file, e) ==
    a[e] # Unset => a[e] = Flag(c[e].drop) /\ k[e] \in {Unset, a[e]} /\ e \notin DOMAIN file
Standing == \A e \in Episodes : Agrees(cfg, keys, asked, uploaded, e)

EditorInv == Edited /\ Standing

LEMMA SortedKeysType ==
    ASSUME NEW s \in SUBSET Episodes
    PROVE  SortedKeys(s) \in Seq(Episodes)
<1> DEFINE Nth(i) == CHOOSE e \in s : Cardinality({x \in s : x < e}) = i - 1
<1>1. IsFiniteSet(Episodes)
  BY ExportAssumption, FS_Interval DEF Episodes
<1>2. Cardinality(s) \in Nat
  BY <1>1, FS_Subset, FS_CardinalityType
<1>3. \A i \in 1..Cardinality(s) : Nth(i) \in Episodes
  BY RankedElement, ExportAssumption DEF Episodes
<1>4. SortedKeys(s) = [i \in 1..Cardinality(s) |-> Nth(i)]
  BY DEF SortedKeys
<1> HIDE DEF Nth
<1> QED BY <1>2, <1>3, <1>4

(* What is selected after the script ran is an option, and one that was is *)
(* kept.                                                                   *)
LEMMA SelectsOption ==
    ASSUME NEW ids \in Seq(Episodes), NEW sel
    PROVE  /\ Select(ids, sel) \in ToSet(Options(ids))
           /\ ToSet(Options(ids)) \subseteq Episodes
           /\ sel \in ToSet(Options(ids)) => Select(ids, sel) = sel
<1>1. EpisodeTable \in Seq(Episodes) /\ EpisodeTable # <<>>
  BY ExportAssumption DEF EpisodeTable, Episodes
<1>2. Options(ids) \in Seq(Episodes) /\ Options(ids) # <<>>
  BY <1>1 DEF Options
<1> QED BY <1>2 DEF Select, ToSet

LEMMA RangeFields ==
    ASSUME NEW r \in Ranges
    PROVE  /\ r.start \in Int /\ r.end \in Int /\ r.drop \in BOOLEAN
           /\ r = [start |-> r.start, end |-> r.end, drop |-> r.drop]
BY DEF Ranges

LEMMA MakesRange ==
    ASSUME NEW lo \in Int, NEW hi \in Int, NEW b \in BOOLEAN
    PROVE  [start |-> lo, end |-> hi, drop |-> b] \in Ranges
BY DEF Ranges

LEMMA SetsDrop ==
    ASSUME NEW r \in Ranges, NEW b \in BOOLEAN
    PROVE  [r EXCEPT !.drop = b] \in Ranges /\ [r EXCEPT !.drop = b].drop = b
<1>1. PICK t : t = [start |-> r.start, end |-> r.end, drop |-> b]
  OBVIOUS
<1>2. [r EXCEPT !.drop = b] = t
  BY <1>1, RangeFields
<1> QED BY <1>1, <1>2, RangeFields, MakesRange

LEMMA NoTrimFits == NoTrim \in Ranges /\ Default \in Config
<1>1. Frames \in Int /\ 0 \in Int
  BY ExportAssumption
<1>2. NoTrim \in Ranges
  BY <1>1, MakesRange DEF NoTrim
<1> QED BY <1>2 DEF Default, Config

(* A slider shows a pair, in order, whatever range it is given.            *)
LEMMA OrderedFits == ASSUME NEW r \in Ranges PROVE Ordered(r.start, r.end) \in Pairs
BY RangeFields DEF Ordered, Pairs

LEMMA AppliedFits ==
    ASSUME NEW file \in Files \cup Config \cup {<<>>}, NEW c \in Config
    PROVE  /\ Applied(file, c) \in Config
           /\ \A e \in Episodes \ DOMAIN file : Applied(file, c)[e] = c[e]
<1>1. ASSUME NEW e \in Episodes, e \in DOMAIN file PROVE file[e] \in Ranges
  <2>1. CASE file = <<>>
    BY <1>1, <2>1
  <2>2. CASE file \in Config
    BY <1>1, <2>2 DEF Config
  <2>3. CASE file \in Files
    BY <1>1, <2>3, FilesAssumption
  <2> QED BY <2>1, <2>2, <2>3
<1> QED BY <1>1 DEF Applied, Config

LEMMA DropsFits ==
    ASSUME NEW c \in Config, NEW eps, NEW b \in BOOLEAN
    PROVE  /\ Drops(c, eps, b) \in Config
           /\ \A e \in Episodes : /\ e \in eps => Drops(c, eps, b)[e].drop = b
                                  /\ e \notin eps => Drops(c, eps, b)[e] = c[e]
<1>1. ASSUME NEW e \in Episodes PROVE [c[e] EXCEPT !.drop = b] \in Ranges /\ [c[e] EXCEPT !.drop = b].drop = b
  BY SetsDrop DEF Config
<1> QED BY <1>1 DEF Drops, Config

LEMMA SubsetFits ==
    ASSUME NEW c \in Config, NEW chosen, NEW b \in BOOLEAN
    PROVE  /\ ApplySubset(c, chosen, b) \in Config
           /\ ~b => \A e \in Episodes \ chosen : ApplySubset(c, chosen, b)[e] = c[e]
<1>1. ASSUME NEW e \in Episodes, NEW d \in BOOLEAN PROVE [c[e] EXCEPT !.drop = d] \in Ranges
  BY SetsDrop DEF Config
<1>2. \A e \in Episodes : c[e] \in Ranges
  BY DEF Config
<1> QED BY <1>1, <1>2 DEF ApplySubset, Config

(* The slider writes a trim, the checkbox what it shows.                   *)
LEMMA ShownFits ==
    ASSUME NEW c \in Config, NEW k \in [Episodes -> Shows], NEW e \in Episodes, NEW r \in Pairs
    PROVE  /\ Checkbox(c, k, e) \in {"drop", "keep"}
           /\ AsShown(c, k, e, r) \in Config
           /\ AsShown(c, k, e, r)[e].drop = (Checkbox(c, k, e) = "drop")
           /\ \A x \in Episodes \ {e} : AsShown(c, k, e, r)[x] = c[x]
<1> DEFINE new == [start |-> r[1], end |-> r[2], drop |-> Checkbox(c, k, e) = "drop"]
<1>1. Checkbox(c, k, e) \in {"drop", "keep"}
  BY DEF Checkbox, Flag, Shows
<1>2. r[1] \in Int /\ r[2] \in Int
  BY DEF Pairs
<1>3. (Checkbox(c, k, e) = "drop") \in BOOLEAN
  BY Zenon
<1>4. new \in Ranges
  BY <1>2, <1>3, MakesRange
<1> HIDE DEF new
<1>5. /\ [c EXCEPT ![e] = new] \in Config /\ [c EXCEPT ![e] = new][e] = new
      /\ \A x \in Episodes \ {e} : [c EXCEPT ![e] = new][x] = c[x]
  BY <1>4 DEF Config
<1>6. AsShown(c, k, e, r) = [c EXCEPT ![e] = new]
  BY DEF AsShown, new
<1>7. new.drop = (Checkbox(c, k, e) = "drop")
  BY DEF new
<1> QED BY <1>1, <1>5, <1>6, <1>7, Zenon

(* The script behind every event.                                          *)
LEMMA RerunKeeps ==
    ASSUME EditorInv, NEW c \in Config, NEW k \in [Episodes -> Shows], NEW ids \in Seq(Episodes),
           NEW sel, NEW file \in Files \cup {<<>>}, Rerun(c, k, ids, sel, file),
           asked' \in [Episodes -> Shows], \A e \in Episodes :
               asked'[e] # Unset => /\ k[e] \in {Unset, asked'[e]} /\ e \notin DOMAIN file
                                    /\ \/ asked'[e] = Flag(c[e].drop)
                                       \/ e = Select(ids, sel) /\ k[e] # Unset,
           opened' \in Datasets, saved' \in [Datasets -> Config \cup {<<>>}],
           plan' = NoPlan \/ Planned'
    PROVE  EditorInv'
<1> DEFINE e == Select(ids, sel)
           old == IF e = selected THEN shown ELSE <<>>
<1>1. e \in Episodes /\ e \in ToSet(Options(ids))
  BY SelectsOption
<1>2. PICK r \in Slider(c, e, old) : shown' = r /\ cfg' = Applied(file, AsShown(c, k, e, r))
  BY DEF Rerun
<1>3. r \in Pairs
  <2>1. Ordered(c[e].start, c[e].end) \in Pairs
    BY <1>1, OrderedFits DEF Config
  <2>2. r = Ordered(c[e].start, c[e].end) \/ r = shown
    BY <1>2 DEF Slider
  <2> QED BY <2>1, <2>2 DEF EditorInv, Edited
<1>4. selected' = e /\ sampled' = ids /\ uploaded' = file
  BY DEF Rerun
<1> DEFINE k1 == [k EXCEPT ![e] = Checkbox(c, k, e)]
<1>5. PICK keep : keys' = [x \in Episodes |-> IF x = e THEN k1[e] ELSE IF x \in keep THEN k1[x] ELSE Unset]
  BY DEF Rerun, Forgotten
<1>6. /\ Checkbox(c, k, e) \in {"drop", "keep"}
      /\ AsShown(c, k, e, r) \in Config
      /\ AsShown(c, k, e, r)[e].drop = (Checkbox(c, k, e) = "drop")
      /\ \A x \in Episodes \ {e} : AsShown(c, k, e, r)[x] = c[x]
  BY <1>1, <1>3, ShownFits
<1>7. /\ keys' \in [Episodes -> Shows] /\ keys'[e] = Checkbox(c, k, e)
      /\ \A x \in Episodes \ {e} : keys'[x] \in {Unset, k[x]}
  BY <1>1, <1>5, <1>6 DEF Shows
<1>8. cfg' \in Config /\ \A x \in Episodes \ DOMAIN file : cfg'[x] = AsShown(c, k, e, r)[x]
  BY <1>2, <1>6, AppliedFits
<1> HIDE DEF e, old, k1
<1>9. Edited'
  BY <1>1, <1>2, <1>3, <1>4, <1>7, <1>8 DEF Edited
<1>10. ASSUME NEW x \in Episodes, asked'[x] # Unset
       PROVE  asked'[x] = Flag(cfg'[x].drop) /\ keys'[x] \in {Unset, asked'[x]} /\ x \notin DOMAIN uploaded'
  <2>1. k[x] \in {Unset, asked'[x]} /\ x \notin DOMAIN file /\ cfg'[x] = AsShown(c, k, e, r)[x]
    BY <1>8, <1>10
  <2>2. asked'[x] \in {"drop", "keep"}
    BY <1>10 DEF Shows
  <2>3. CASE x # e
    BY <1>4, <1>6, <1>7, <1>10, <2>1, <2>3 DEF e
  <2>4. CASE x = e
    <3>1. Checkbox(c, k, e) = asked'[x]
      <4>1. CASE k[x] = Unset
        BY <1>10, <2>1, <2>4, <4>1 DEF Checkbox
      <4>2. CASE k[x] # Unset
        BY <2>1, <2>4, <4>2 DEF Checkbox
      <4> QED BY <4>1, <4>2
    <3>2. Flag(cfg'[x].drop) = asked'[x]
      <4>1. cfg'[x].drop = (asked'[x] = "drop")
        BY <1>6, <2>1, <2>4, <3>1, Zenon
      <4> QED BY <2>2, <4>1 DEF Flag
    <3> QED BY <1>4, <1>7, <2>1, <2>4, <3>1, <3>2
  <2> QED BY <2>3, <2>4
<1> QED BY <1>9, <1>10 DEF EditorInv, Standing, Agrees

LEMMA EditorStarts == EditorInit => EditorInv
<1> SUFFICES ASSUME EditorInit PROVE EditorInv
  OBVIOUS
<1>1. shown \in Pairs
  BY ExportAssumption DEF EditorInit, Pairs
<1>2. sampled \in Seq(Episodes) /\ selected \in ToSet(Options(sampled))
  BY ExportAssumption DEF EditorInit, Options, EpisodeTable, Episodes, ToSet
<1>3. keys \in [Episodes -> Shows] /\ asked \in [Episodes -> Shows]
  BY DEF EditorInit, Shows
<1> QED BY <1>1, <1>2, <1>3, NoTrimFits DEF EditorInit, EditorInv, Edited, Standing, Agrees

(* Events that change only the configuration, or leave it to the script.   *)
LEMMA EditKeeps ==
    ASSUME EditorInv, NEW c \in Config, NEW touched, Edit(c, touched),
           \A e \in Episodes \ touched : c[e].drop = cfg[e].drop
    PROVE  EditorInv'
<1>1. /\ Rerun(c, keys, sampled, selected, uploaded) /\ asked' = Free(touched \cup DOMAIN uploaded)
      /\ UNCHANGED <<opened, saved, plan>>
  BY DEF Edit
<1>2. /\ keys \in [Episodes -> Shows] /\ sampled \in Seq(Episodes) /\ uploaded \in Files \cup {<<>>}
      /\ opened' \in Datasets /\ saved' \in [Datasets -> Config \cup {<<>>}] /\ (plan' = NoPlan \/ Planned')
  BY <1>1 DEF EditorInv, Edited, Planned
<1>3. asked' \in [Episodes -> Shows]
  BY <1>1 DEF Free, EditorInv, Edited, Shows
<1>4. \A e \in Episodes : asked'[e] # Unset => asked'[e] = asked[e] /\ e \notin touched \cup DOMAIN uploaded
  BY <1>1 DEF Free
<1>5. \A e \in Episodes :
          asked'[e] # Unset => /\ keys[e] \in {Unset, asked'[e]} /\ e \notin DOMAIN uploaded
                               /\ \/ asked'[e] = Flag(c[e].drop)
                                  \/ e = Select(sampled, selected) /\ keys[e] # Unset
  BY <1>4 DEF EditorInv, Standing, Agrees
<1>6. Rerun(c, keys, sampled, selected, uploaded)
  BY <1>1
<1> QED BY <1>2, <1>3, <1>5, <1>6, RerunKeeps

LEMMA AsideKeeps ==
    ASSUME EditorInv, NEW ids \in Seq(Episodes), Aside(ids), plan' = NoPlan \/ Planned'
    PROVE  EditorInv'
<1>1. Rerun(cfg, keys, ids, selected, uploaded) /\ UNCHANGED <<opened, saved, asked>>
  BY DEF Aside
<1>2. /\ cfg \in Config /\ keys \in [Episodes -> Shows] /\ uploaded \in Files \cup {<<>>}
      /\ asked' \in [Episodes -> Shows]
      /\ opened' \in Datasets /\ saved' \in [Datasets -> Config \cup {<<>>}]
  BY <1>1 DEF EditorInv, Edited
<1>3. \A e \in Episodes :
          asked'[e] # Unset => /\ keys[e] \in {Unset, asked'[e]} /\ e \notin DOMAIN uploaded
                               /\ \/ asked'[e] = Flag(cfg[e].drop)
                                  \/ e = Select(ids, selected) /\ keys[e] # Unset
  BY <1>1 DEF EditorInv, Standing, Agrees
<1> QED BY <1>1, <1>2, <1>3, RerunKeeps

LEMMA SamePlan == ASSUME EditorInv, UNCHANGED plan PROVE plan' = NoPlan \/ Planned'
BY DEF EditorInv, Edited, Planned

LEMMA OpenSourceKeeps == ASSUME EditorInv, NEW d \in Datasets, OpenSource(d) PROVE EditorInv'
<1> DEFINE c == Applied(saved[d], Default)
<1>1. c \in Config
  BY AppliedFits, NoTrimFits DEF EditorInv, Edited
<1>2. /\ opened' = d /\ saved' = saved /\ uploaded' = uploaded /\ plan' = plan
      /\ cfg' = Applied(uploaded, c) /\ shown' = Ordered(c[1].start, c[1].end)
      /\ keys' = [e \in Episodes |-> IF e = 1 THEN Flag(c[1].drop) ELSE Unset]
      /\ selected' = 1 /\ sampled' = <<>> /\ asked' = [e \in Episodes |-> Unset]
  BY DEF OpenSource
<1> HIDE DEF c
<1>3. cfg' \in Config
  BY <1>1, <1>2, AppliedFits DEF EditorInv, Edited
<1>4. shown' \in Pairs
  <2>1. c[1] \in Ranges
    BY <1>1, ExportAssumption DEF Config, Episodes
  <2> QED BY <1>2, <2>1, OrderedFits
<1>5. keys' \in [Episodes -> Shows] /\ asked' \in [Episodes -> Shows]
  BY <1>2 DEF Shows, Flag
<1>6. sampled' \in Seq(Episodes) /\ selected' \in ToSet(Options(sampled'))
  BY <1>2, ExportAssumption DEF Options, EpisodeTable, Episodes, ToSet
<1>7. plan' = NoPlan \/ Planned'
  BY <1>2, SamePlan
<1> QED BY <1>2, <1>3, <1>4, <1>5, <1>6, <1>7 DEF EditorInv, Edited, Standing, Agrees

LEMMA MarkKeeps == ASSUME EditorInv, MarkListed \/ DropGroup \/ ContactFlip PROVE EditorInv'
<1>1. PICK eps : \E b \in BOOLEAN : Edit(Drops(cfg, eps, b), eps)
  <2>1. CASE MarkListed
    BY <2>1 DEF MarkListed
  <2>2. CASE DropGroup
    BY <2>2 DEF DropGroup
  <2>3. CASE ContactFlip
    <3>1. PICK e : Edit(Drops(cfg, {e}, ~cfg[e].drop), {e})
      BY <2>3 DEF ContactFlip
    <3>2. (~cfg[e].drop) \in BOOLEAN
      BY Zenon
    <3> QED BY <3>1, <3>2
  <2> QED BY <2>1, <2>2, <2>3
<1>2. PICK b \in BOOLEAN : Edit(Drops(cfg, eps, b), eps)
  BY <1>1
<1>0. cfg \in Config
  BY DEF EditorInv, Edited
<1>3. Drops(cfg, eps, b) \in Config /\ \A e \in Episodes \ eps : Drops(cfg, eps, b)[e].drop = cfg[e].drop
  BY <1>0, DropsFits
<1> QED BY <1>2, <1>3, EditKeeps

LEMMA LoadWhitelistKeeps == ASSUME EditorInv, LoadWhitelist PROVE EditorInv'
<1>1. PICK ids \in SUBSET Episodes :
          LET c == ApplySubset(cfg, ids, TRUE) IN
          /\ Rerun(c, WhitelistKeys(c), SortedKeys(ids), selected, uploaded)
          /\ asked' = [e \in Episodes |-> IF e \in DOMAIN uploaded THEN Unset ELSE Flag(c[e].drop)]
          /\ UNCHANGED <<opened, saved, plan>>
  BY DEF LoadWhitelist
<1> DEFINE c == ApplySubset(cfg, ids, TRUE)
<1>2. c \in Config
  BY SubsetFits DEF EditorInv, Edited
<1>3. WhitelistKeys(c) \in [Episodes -> Shows] /\ asked' \in [Episodes -> Shows]
  BY <1>1 DEF WhitelistKeys, Flag, Shows
<1>4. SortedKeys(ids) \in Seq(Episodes)
  BY SortedKeysType
<1>5. /\ Rerun(c, WhitelistKeys(c), SortedKeys(ids), selected, uploaded)
      /\ \A e \in Episodes : asked'[e] = IF e \in DOMAIN uploaded THEN Unset ELSE Flag(c[e].drop)
      /\ UNCHANGED <<opened, saved, plan>>
  BY <1>1
<1> HIDE DEF c
<1>6. ASSUME NEW e \in Episodes, asked'[e] # Unset
      PROVE  /\ WhitelistKeys(c)[e] \in {Unset, asked'[e]} /\ e \notin DOMAIN uploaded
             /\ \/ asked'[e] = Flag(c[e].drop)
                \/ e = Select(SortedKeys(ids), selected) /\ WhitelistKeys(c)[e] # Unset
  BY <1>5, <1>6 DEF WhitelistKeys
<1>7. /\ uploaded \in Files \cup {<<>>}
      /\ opened' \in Datasets /\ saved' \in [Datasets -> Config \cup {<<>>}] /\ (plan' = NoPlan \/ Planned')
  BY <1>5, SamePlan DEF EditorInv, Edited
<1> QED BY <1>2, <1>3, <1>4, <1>5, <1>6, <1>7, RerunKeeps

(* The auto-trim plan.                                                     *)
LEMMA Clamped ==
    ASSUME NEW r \in Ranges
    PROVE  /\ From(r) \in 0..Frames /\ To(r) \in 0..Frames /\ From(r) <= To(r)
           /\ \A i \in Int : From(r) <= i /\ i < To(r) <=> 0 <= i /\ i < Frames /\ r.start <= i /\ i < r.end
           /\ From(r) < To(r) => r.start <= From(r) /\ To(r) <= r.end
<1>1. r.start \in Int /\ r.end \in Int /\ Frames \in Nat
  BY RangeFields, ExportAssumption
<1>2. /\ From(r) = IF r.start < 0 THEN 0 ELSE IF r.start > Frames THEN Frames ELSE r.start
      /\ To(r) = IF r.end < From(r) THEN From(r) ELSE IF r.end > Frames THEN Frames ELSE r.end
  BY <1>1 DEF From, To, Between
<1> QED BY <1>1, <1>2

LEMMA SuggestionFits ==
    ASSUME NEW s \in Suggestions
    PROVE  s.start \in 0..Frames /\ s.end \in 0..Frames /\ s.start <= s.end /\ s.active \in BOOLEAN
<1>1. Frames \in 0..Frames /\ 0 \in 0..Frames /\ 1 \in 0..Frames /\ 0 <= Frames /\ 1 <= Frames
  BY ExportAssumption
<1>2. TRUE \in BOOLEAN /\ FALSE \in BOOLEAN
    OBVIOUS
<1>3. CASE s = [start |-> 0, end |-> Frames, active |-> FALSE]
  BY <1>1, <1>2, <1>3
<1>4. CASE s = [start |-> 0, end |-> Frames, active |-> TRUE]
  BY <1>1, <1>2, <1>4
<1>5. CASE s = [start |-> 1, end |-> Frames, active |-> TRUE]
  BY <1>1, <1>2, <1>5
<1> QED BY <1>3, <1>4, <1>5 DEF Suggestions

LEMMA PlanRowFits ==
    ASSUME NEW r \in Ranges, NEW s \in Suggestions, NEW p \in PlanParams
    PROVE  /\ PlanRow(r, s, p).skip <=> r.drop /\ ~p.includeDropped
           /\ PlanRow(r, s, p).skip => PlanRow(r, s, p).to = r
           /\ PlanRow(r, s, p).to \in Ranges
           /\ r.drop => PlanRow(r, s, p).to.drop
           /\ p.neverExpand /\ p.noActivity # "empty_keep_one" =>
                LET to == PlanRow(r, s, p).to
                IN \/ r.start <= to.start /\ to.end <= r.end
                   \/ \A i \in Int : ~(r.start <= i /\ i < r.end /\ to.start <= i /\ i < to.end)
<1> DEFINE from == From(r)
           upto == To(r)
<1>1. /\ r.start \in Int /\ r.end \in Int /\ r.drop \in BOOLEAN
      /\ from \in 0..Frames /\ upto \in 0..Frames /\ from <= upto
      /\ \A i \in Int : from <= i /\ i < upto <=> 0 <= i /\ i < Frames /\ r.start <= i /\ i < r.end
      /\ from < upto => r.start <= from /\ upto <= r.end
  BY RangeFields, Clamped
<1>2. s.start \in 0..Frames /\ s.end \in 0..Frames /\ s.start <= s.end /\ s.active \in BOOLEAN
  BY SuggestionFits
<1>3. /\ p.includeDropped \in BOOLEAN /\ p.neverExpand \in BOOLEAN
      /\ p.noActivity \in {"keep", "drop", "empty_keep_one"}
  BY DEF PlanParams
<1> HIDE DEF from, upto
<1> DEFINE new == PlannedRange(<<from, upto>>, s, p)
           d   == r.drop \/ (~s.active /\ p.noActivity = "drop")
<1>4. PICK lo, hi : new = <<lo, hi>> /\ lo \in 0..Frames /\ hi \in 0..Frames /\
          (p.neverExpand /\ p.noActivity # "empty_keep_one" =>
              \/ r.start <= lo /\ hi <= r.end
              \/ \A i \in Int : ~(r.start <= i /\ i < r.end /\ lo <= i /\ i < hi))
  <2>1. CASE ~s.active /\ p.noActivity = "empty_keep_one"
    BY <1>1, <2>1, ExportAssumption DEF PlannedRange
  <2>2. CASE ~s.active /\ p.noActivity # "empty_keep_one"
    <3>1. new = <<from, upto>>
      BY <2>2 DEF PlannedRange
    <3>2. \/ r.start <= from /\ upto <= r.end
          \/ \A i \in Int : ~(r.start <= i /\ i < r.end /\ from <= i /\ i < upto)
      BY <1>1
    <3> QED BY <1>1, <3>1, <3>2
  <2>3. CASE s.active
    <3> DEFINE l == IF from > s.start THEN from ELSE s.start
               h == IF upto < s.end THEN upto ELSE s.end
    <3>1. new = IF p.neverExpand /\ h > l THEN <<l, h>> ELSE <<s.start, s.end>>
      BY <2>3 DEF PlannedRange
    <3>2. CASE p.neverExpand /\ h > l
      <4>1. new = <<l, h>>
        BY <3>1, <3>2
      <4>2. l \in 0..Frames /\ h \in 0..Frames /\ r.start <= l /\ h <= r.end
        BY <1>1, <1>2, <3>2
      <4> QED BY <4>1, <4>2
    <3>3. CASE ~(p.neverExpand /\ h > l)
      <4>1. new = <<s.start, s.end>>
        BY <3>1, <3>3
      <4>2. p.neverExpand => \A i \in Int : ~(r.start <= i /\ i < r.end /\ s.start <= i /\ i < s.end)
        <5> SUFFICES ASSUME p.neverExpand, NEW i \in Int, r.start <= i, i < r.end, s.start <= i, i < s.end
                     PROVE  FALSE
          OBVIOUS
        <5>1. 0 <= i /\ i < Frames
          BY <1>2, ExportAssumption
        <5>2. from <= i /\ i < upto
          BY <1>1, <5>1
        <5> QED BY <1>1, <1>2, <3>3, <5>2
      <4> QED BY <1>2, <4>1, <4>2
    <3> QED BY <3>2, <3>3
  <2> QED BY <1>2, <2>1, <2>2, <2>3
<1>5. d \in BOOLEAN /\ (r.drop => d)
  BY Zenon
<1> HIDE DEF new, d
<1>9. <<From(r), To(r)>> = <<from, upto>>
  BY DEF from, upto
<1>6. PlanRow(r, s, p) = IF r.drop /\ ~p.includeDropped THEN [skip |-> TRUE, to |-> r]
                         ELSE [skip |-> FALSE, to |-> [start |-> new[1], end |-> new[2], drop |-> d]]
  BY <1>9, Zenon DEF PlanRow, new, d
<1>7. CASE r.drop /\ ~p.includeDropped
  <2>1. PlanRow(r, s, p) = [skip |-> TRUE, to |-> r]
    BY <1>6, <1>7
  <2>2. PlanRow(r, s, p).skip = TRUE /\ PlanRow(r, s, p).to = r
    BY <2>1
  <2>3. r.start <= r.start /\ r.end <= r.end
    BY <1>1
  <2> QED BY <1>7, <2>2, <2>3, Zenon
<1>8. CASE ~(r.drop /\ ~p.includeDropped)
  <2>1. PICK t : t = [start |-> lo, end |-> hi, drop |-> d]
    OBVIOUS
  <2>2. PlanRow(r, s, p) = [skip |-> FALSE, to |-> t]
    BY <1>4, <1>6, <1>8, <2>1
  <2>3. t \in Ranges /\ t.start = lo /\ t.end = hi /\ t.drop = d
    BY <1>4, <1>5, <2>1, MakesRange
  <2>4. PlanRow(r, s, p).to = t /\ PlanRow(r, s, p).skip = FALSE
    BY <2>2
  <2> QED BY <1>4, <1>5, <1>8, <2>3, <2>4
<1> QED BY <1>7, <1>8

LEMMA PlanAt ==
    ASSUME NEW c \in Config, NEW s \in Suggestions, NEW p \in PlanParams, NEW e \in Episodes
    PROVE  c[e] \in Ranges /\ PlanOf(c, s, p).rows[e] = PlanRow(c[e], s, p)
BY DEF PlanOf, Plan, Config

LEMMA ComputePlanKeeps == ASSUME EditorInv, ComputePlan PROVE EditorInv'
<1>1. PICK s \in Suggestions, p \in PlanParams :
          /\ Aside(sampled)
          /\ plan' = [rows |-> Plan(cfg, [e \in Episodes |-> s], p), basis |-> cfg, params |-> p]
  BY DEF ComputePlan
<1>2. plan' = PlanOf(cfg, s, p) /\ cfg \in Config /\ sampled \in Seq(Episodes)
  BY <1>1 DEF PlanOf, EditorInv, Edited
<1>3. Planned'
  BY <1>2 DEF Planned
<1> QED BY <1>1, <1>2, <1>3, AsideKeeps

LEMMA UsePlanKeeps == ASSUME EditorInv, UsePlan PROVE EditorInv'
<1>1. PICK c \in Config, s \in Suggestions, p \in PlanParams : plan = PlanOf(c, s, p)
  BY DEF UsePlan, EditorInv, Edited, Planned
<1> DEFINE to == ApplyPlan(cfg, plan.rows)
           touched == {e \in Episodes : ~plan.rows[e].skip}
<1>2. \A e \in Episodes : to[e] \in Ranges /\ (e \notin touched => to[e] = cfg[e])
  <2> TAKE e \in Episodes
  <2>1. cfg[e] \in Ranges
    BY DEF EditorInv, Edited, Config
  <2>2. c[e] \in Ranges /\ plan.rows[e] = PlanRow(c[e], s, p)
    BY <1>1, PlanAt
  <2>3. PlanRow(c[e], s, p).to \in Ranges
    BY <2>2, PlanRowFits
  <2> QED BY <2>1, <2>2, <2>3 DEF ApplyPlan
<1>3. to \in Config
  BY <1>2 DEF ApplyPlan, Config
<1>4. Edit(to, touched)
  BY DEF UsePlan
<1> HIDE DEF to, touched
<1> QED BY <1>2, <1>3, <1>4, EditKeeps

LEMMA SampleKeeps ==
    ASSUME EditorInv, ToggleRegroup \/ ClearPlan \/ SampleEpisodes \/ SampleGroups \/ ClearSample \/ ExportDataset
    PROVE  EditorInv'
<1>1. sampled \in Seq(Episodes) /\ <<>> \in Seq(Episodes)
  BY DEF EditorInv, Edited
<1>2. (\E ids \in Seq(Episodes) : Aside(ids)) /\ (plan' = plan \/ plan' = NoPlan)
  <2>1. CASE SampleEpisodes
    <3>1. PICK kind \in {"raw", "kept"}, min \in 0..Frames, n \in 0..EpisodeCount :
              \E s \in Samples(EpisodeCandidates(cfg, kind, min), n) : Aside(SortedKeys(s)) /\ plan' = plan
      BY <2>1 DEF SampleEpisodes
    <3>2. PICK s \in Samples(EpisodeCandidates(cfg, kind, min), n) : Aside(SortedKeys(s)) /\ plan' = plan
      BY <3>1
    <3>3. s \in SUBSET Episodes
      BY DEF Samples, EpisodeCandidates
    <3> QED BY <3>2, <3>3, SortedKeysType
  <2>2. CASE ToggleRegroup \/ ClearPlan \/ SampleGroups \/ ClearSample \/ ExportDataset
    BY <1>1, <2>2 DEF ToggleRegroup, ClearPlan, SampleGroups, ClearSample, ExportDataset
  <2> QED BY <2>1, <2>2
<1> QED BY <1>2, SamePlan, AsideKeeps

LEMMA UseSampleKeeps == ASSUME EditorInv, UseEpisodes \/ UseGroups PROVE EditorInv'
<1>1. PICK chosen : \E b \in BOOLEAN : UseSample(chosen, b)
  BY DEF UseEpisodes, UseGroups
<1>2. PICK b \in BOOLEAN : UseSample(chosen, b)
  BY <1>1
<1> DEFINE touched == IF b THEN Episodes ELSE chosen
<1>3. Edit(ApplySubset(cfg, chosen, b), touched)
  BY <1>2 DEF UseSample
<1>4. cfg \in Config
  BY DEF EditorInv, Edited
<1>5. /\ ApplySubset(cfg, chosen, b) \in Config
      /\ \A e \in Episodes \ touched : ApplySubset(cfg, chosen, b)[e].drop = cfg[e].drop
  BY <1>4, SubsetFits
<1> QED BY <1>3, <1>5, EditKeeps

(* The selected episode.  A decision about it sets its checkbox.           *)
LEMMA ChooseKeeps == ASSUME EditorInv, Choose PROVE EditorInv'
<1>1. PICK e : Rerun(cfg, keys, sampled, e, uploaded) /\ UNCHANGED <<opened, saved, plan, asked>>
  BY DEF Choose
<1>2. /\ cfg \in Config /\ keys \in [Episodes -> Shows] /\ uploaded \in Files \cup {<<>>}
      /\ sampled \in Seq(Episodes) /\ asked' \in [Episodes -> Shows]
      /\ opened' \in Datasets /\ saved' \in [Datasets -> Config \cup {<<>>}]
      /\ (plan' = NoPlan \/ Planned')
  BY <1>1, SamePlan DEF EditorInv, Edited
<1>3. \A x \in Episodes :
          asked'[x] # Unset => /\ keys[x] \in {Unset, asked'[x]} /\ x \notin DOMAIN uploaded
                               /\ \/ asked'[x] = Flag(cfg[x].drop)
                                  \/ x = Select(sampled, e) /\ keys[x] # Unset
  BY <1>1 DEF EditorInv, Standing, Agrees
<1> QED BY <1>1, <1>2, <1>3, RerunKeeps

LEMMA DecisionKeeps ==
    ASSUME EditorInv, NEW c \in Config, NEW b \in BOOLEAN, NEW sel,
           Rerun(c, [keys EXCEPT ![selected] = Flag(b)], sampled, sel, uploaded),
           asked' = [asked EXCEPT ![selected] = IF selected \in DOMAIN uploaded THEN Unset ELSE Flag(b)],
           UNCHANGED <<opened, saved, plan>>,
           \A e \in Episodes \ {selected} : c[e].drop = cfg[e].drop,
           c[selected].drop = b \/ selected = Select(sampled, sel)
    PROVE  EditorInv'
<1> DEFINE k == [keys EXCEPT ![selected] = Flag(b)]
<1>1. /\ selected \in Episodes /\ keys \in [Episodes -> Shows] /\ asked \in [Episodes -> Shows]
      /\ sampled \in Seq(Episodes) /\ uploaded \in Files \cup {<<>>}
      /\ opened' \in Datasets /\ saved' \in [Datasets -> Config \cup {<<>>}]
      /\ (plan' = NoPlan \/ Planned')
  BY SamePlan, SelectsOption DEF EditorInv, Edited
<1>2. Flag(b) \in Shows /\ Flag(b) # Unset /\ Unset \in Shows
  BY DEF Flag, Shows, Unset
<1>3. k \in [Episodes -> Shows] /\ asked' \in [Episodes -> Shows]
  BY <1>1, <1>2
<1>4. \A e \in Episodes : k[e] = IF e = selected THEN Flag(b) ELSE keys[e]
  BY <1>1
<1>5. \A e \in Episodes : asked'[e] = IF e # selected THEN asked[e]
                                      ELSE IF e \in DOMAIN uploaded THEN Unset ELSE Flag(b)
  BY <1>1
<1> HIDE DEF k
<1>6. \A e \in Episodes :
          asked'[e] # Unset => /\ k[e] \in {Unset, asked'[e]} /\ e \notin DOMAIN uploaded
                               /\ \/ asked'[e] = Flag(c[e].drop)
                                  \/ e = Select(sampled, sel) /\ k[e] # Unset
  BY <1>2, <1>4, <1>5 DEF EditorInv, Standing, Agrees
<1>7. Rerun(c, k, sampled, sel, uploaded)
  BY DEF k
<1> QED BY <1>1, <1>3, <1>6, <1>7, RerunKeeps

LEMMA CheckKeeps == ASSUME EditorInv, Check PROVE EditorInv'
<1> DEFINE b == keys[selected] # "drop"
<1>1. b \in BOOLEAN
  BY Zenon
<1>2. cfg \in Config /\ selected = Select(sampled, selected)
  BY SelectsOption DEF EditorInv, Edited
<1>3. /\ Rerun(cfg, [keys EXCEPT ![selected] = Flag(b)], sampled, selected, uploaded)
      /\ asked' = [asked EXCEPT ![selected] = IF selected \in DOMAIN uploaded THEN Unset ELSE Flag(b)]
      /\ UNCHANGED <<opened, saved, plan>>
  BY DEF Check
<1> HIDE DEF b
<1> QED BY <1>1, <1>2, <1>3, DecisionKeeps

LEMMA ReviewKeeps == ASSUME EditorInv, ReviewAndAdvance PROVE EditorInv'
<1>1. PICK b \in BOOLEAN :
          /\ Rerun(Drops(cfg, {selected}, b), ReviewKeys(b), sampled, After(Options(sampled), selected),
                   uploaded)
          /\ asked' = [asked EXCEPT ![selected] = IF selected \in DOMAIN uploaded THEN Unset ELSE Flag(b)]
          /\ UNCHANGED <<opened, saved, plan>>
  BY DEF ReviewAndAdvance
<1>2. cfg \in Config /\ selected \in Episodes
  BY SelectsOption DEF EditorInv, Edited
<1>3. /\ Drops(cfg, {selected}, b) \in Config
      /\ \A e \in Episodes \ {selected} : Drops(cfg, {selected}, b)[e].drop = cfg[e].drop
      /\ Drops(cfg, {selected}, b)[selected].drop = b
  BY <1>2, DropsFits
<1>4. Rerun(Drops(cfg, {selected}, b), [keys EXCEPT ![selected] = Flag(b)], sampled,
            After(Options(sampled), selected), uploaded)
  BY <1>1 DEF ReviewKeys
<1> QED BY <1>1, <1>3, <1>4, DecisionKeeps

LEMMA SlideKeeps == ASSUME EditorInv, Slide PROVE EditorInv'
<1>1. PICK lo \in Int, hi \in Int :
          /\ lo <= hi /\ shown' = <<lo, hi>>
          /\ cfg' = Applied(uploaded, AsShown(cfg, keys, selected, <<lo, hi>>))
          /\ UNCHANGED <<opened, saved, uploaded, selected, keys, sampled, plan, asked>>
  <2>1. Widened \subseteq Int
    BY DEF Widened
  <2> QED BY <2>1 DEF Slide
<1> DEFINE r == <<lo, hi>>
<1>2. selected \in Episodes /\ r \in Pairs
  BY <1>1, SelectsOption DEF EditorInv, Edited, Pairs
<1> HIDE DEF r
<1>3. /\ AsShown(cfg, keys, selected, r) \in Config
      /\ AsShown(cfg, keys, selected, r)[selected].drop = (Checkbox(cfg, keys, selected) = "drop")
      /\ \A x \in Episodes \ {selected} : AsShown(cfg, keys, selected, r)[x] = cfg[x]
  <2>1. cfg \in Config /\ keys \in [Episodes -> Shows]
    BY DEF EditorInv, Edited
  <2> QED BY <1>2, <2>1, ShownFits, Zenon
<1>4. /\ cfg' \in Config
      /\ \A e \in Episodes \ DOMAIN uploaded : cfg'[e] = AsShown(cfg, keys, selected, r)[e]
  <2>1. cfg' = Applied(uploaded, AsShown(cfg, keys, selected, r))
    BY <1>1 DEF r
  <2>2. uploaded \in Files \cup Config \cup {<<>>}
    BY DEF EditorInv, Edited
  <2> QED BY <1>3, <2>1, <2>2, AppliedFits
<1>5. Edited'
  BY <1>1, <1>2, <1>4, SamePlan DEF r, EditorInv, Edited
<1>6. ASSUME NEW e \in Episodes, asked[e] # Unset PROVE asked[e] = Flag(cfg'[e].drop)
  <2>1. asked[e] = Flag(cfg[e].drop) /\ keys[e] \in {Unset, asked[e]} /\ e \notin DOMAIN uploaded
    BY <1>6 DEF EditorInv, Standing, Agrees
  <2>2. asked[e] \in {"drop", "keep"}
    BY <1>6 DEF EditorInv, Edited, Shows
  <2>3. CASE e = selected
    <3>1. Checkbox(cfg, keys, e) = asked[e]
      BY <1>6, <2>1 DEF Checkbox
    <3>2. cfg'[e].drop = (asked[e] = "drop")
      BY <1>3, <1>4, <2>1, <2>3, <3>1, Zenon
    <3> QED BY <2>2, <3>2 DEF Flag
  <2> QED BY <1>3, <1>4, <2>1, <2>3
<1> QED BY <1>1, <1>5, <1>6 DEF EditorInv, Standing, Agrees

LEMMA SuggestKeeps == ASSUME EditorInv, Suggest PROVE EditorInv'
<1>1. PICK s \in Suggestions :
          Edit([cfg EXCEPT ![selected] = [start |-> s.start, end |-> s.end, drop |-> @.drop]], {})
  BY DEF Suggest
<1> DEFINE new == [start |-> s.start, end |-> s.end, drop |-> cfg[selected].drop]
<1>2. cfg \in Config /\ selected \in Episodes
  BY SelectsOption DEF EditorInv, Edited
<1>3. cfg[selected] \in Ranges /\ s.start \in 0..Frames /\ s.end \in 0..Frames /\ s.start <= s.end
  BY <1>2, SuggestionFits DEF Config
<1>4. new \in Ranges /\ new.drop = cfg[selected].drop
  BY <1>3, RangeFields, MakesRange
<1>5. Edit([cfg EXCEPT ![selected] = new], {})
  BY <1>1
<1> HIDE DEF new
<1>6. /\ [cfg EXCEPT ![selected] = new] \in Config
      /\ \A e \in Episodes : [cfg EXCEPT ![selected] = new][e].drop = cfg[e].drop
  BY <1>2, <1>4 DEF Config
<1> QED BY <1>5, <1>6, EditKeeps

LEMMA FileKeeps ==
    ASSUME EditorInv, NEW f \in Files \cup {<<>>}, Rerun(cfg, keys, sampled, selected, f),
           asked' = asked \/ asked' = Free(DOMAIN f), f = uploaded \/ asked' = Free(DOMAIN f),
           opened' = opened, saved' \in [Datasets -> Config \cup {<<>>}], plan' = plan
    PROVE  EditorInv'
<1>1. /\ cfg \in Config /\ keys \in [Episodes -> Shows] /\ sampled \in Seq(Episodes)
      /\ opened' \in Datasets /\ (plan' = NoPlan \/ Planned')
  BY SamePlan DEF EditorInv, Edited
<1>2. asked' \in [Episodes -> Shows]
  BY DEF Free, EditorInv, Edited, Shows
<1>3. \A e \in Episodes : asked'[e] # Unset => asked'[e] = asked[e] /\ (f = uploaded \/ e \notin DOMAIN f)
  BY DEF Free
<1>4. \A e \in Episodes :
          asked'[e] # Unset => /\ keys[e] \in {Unset, asked'[e]} /\ e \notin DOMAIN f
                               /\ \/ asked'[e] = Flag(cfg[e].drop)
                                  \/ e = Select(sampled, selected) /\ keys[e] # Unset
  BY <1>3 DEF EditorInv, Standing, Agrees
<1> QED BY <1>1, <1>2, <1>4, RerunKeeps

LEMMA SaveTrimsKeeps == ASSUME EditorInv, SaveTrims \/ Upload PROVE EditorInv'
<1>1. CASE Upload
  <2>1. PICK f \in Files \cup {<<>>} : /\ Rerun(cfg, keys, sampled, selected, f) /\ asked' = Free(DOMAIN f)
                                       /\ UNCHANGED <<opened, saved, plan>>
    BY <1>1 DEF Upload
  <2> QED BY <2>1, FileKeeps DEF EditorInv, Edited
<1>2. CASE SaveTrims
  <2>1. /\ Rerun(cfg, keys, sampled, selected, uploaded)
        /\ saved' = [saved EXCEPT ![opened] = AsShown(cfg, keys, selected, shown')]
        /\ UNCHANGED <<opened, plan, asked>>
    BY <1>2 DEF SaveTrims
  <2>2. selected \in Episodes /\ Select(sampled, selected) = selected
    BY SelectsOption DEF EditorInv, Edited
  <2>3. shown' \in Pairs
    <3>1. PICK r \in Slider(cfg, selected, shown) : shown' = r
      BY <2>1, <2>2 DEF Rerun
    <3>2. cfg[selected] \in Ranges
      BY <2>2 DEF EditorInv, Edited, Config
    <3>3. Ordered(cfg[selected].start, cfg[selected].end) \in Pairs
      BY <3>2, OrderedFits
    <3> QED BY <3>1, <3>3 DEF Slider, EditorInv, Edited
  <2>4. AsShown(cfg, keys, selected, shown') \in Config
    BY <2>2, <2>3, ShownFits DEF EditorInv, Edited
  <2>5. saved' \in [Datasets -> Config \cup {<<>>}]
    BY <2>1, <2>4 DEF EditorInv, Edited
  <2> QED BY <2>1, <2>5, FileKeeps DEF EditorInv, Edited
<1> QED BY <1>1, <1>2

LEMMA EditorInvHolds == EditorSpec => []EditorInv
<1>1. EditorInv /\ [EditorNext]_editorVars => EditorInv'
  <2>1. ASSUME EditorInv, EditorNext PROVE EditorInv'
    BY <2>1, OpenSourceKeeps, MarkKeeps, LoadWhitelistKeeps, ComputePlanKeeps, UsePlanKeeps, SampleKeeps,
       UseSampleKeeps, ChooseKeeps, CheckKeeps, SlideKeeps, ReviewKeeps, SuggestKeeps, SaveTrimsKeeps
       DEF EditorNext
  <2>2. ASSUME EditorInv, UNCHANGED editorVars PROVE EditorInv'
    BY <2>2 DEF editorVars, EditorInv, Edited, Planned, Standing, Agrees
  <2> QED BY <2>1, <2>2
<1> QED BY EditorStarts, <1>1, PTL DEF EditorSpec

(* A decision by whitelist, review button or checkbox stands until         *)
(* something else decides, for any number of episodes and events: the      *)
(* checkbox of an episode that is shown later (lerobot_episode_editor_v8,  *)
(* line 2397) writes back the decision, or what it has forgotten.          *)
THEOREM DecisionsStand == EditorSpec => []DecisionStands
<1>1. EditorInv => DecisionStands
  BY DEF EditorInv, Standing, Agrees, DecisionStands
<1> QED BY EditorInvHolds, <1>1, PTL

(* Every plan that the editor can come to hold leaves drops and, with      *)
(* "never expand", manual trims as promised (build_auto_trim_plan).        *)
THEOREM PlansRespectEdits == EditorSpec => []PlanRespectsEdits
<1>1. EditorInv => PlanRespectsEdits
  <2> SUFFICES ASSUME EditorInv, plan # NoPlan, NEW e \in Episodes
               PROVE  LET to == ApplyPlan(plan.basis, plan.rows)
                          was == plan.basis[e]
                      IN /\ was.drop => to[e].drop
                         /\ was.drop /\ ~plan.params.includeDropped => to[e] = was
                         /\ plan.params.neverExpand /\ plan.params.noActivity # "empty_keep_one"
                            => \/ was.start <= to[e].start /\ to[e].end <= was.end
                               \/ \A i \in was.start..(was.end - 1) : i \notin to[e].start..(to[e].end - 1)
    BY DEF PlanRespectsEdits
  <2>1. PICK c \in Config, s \in Suggestions, p \in PlanParams : plan = PlanOf(c, s, p)
    BY DEF EditorInv, Edited, Planned
  <2> DEFINE row == PlanRow(c[e], s, p)
  <2>2. c[e] \in Ranges /\ plan.rows[e] = row /\ plan.basis = c /\ plan.params = p
    BY <2>1, PlanAt DEF PlanOf
  <2>3. ApplyPlan(plan.basis, plan.rows)[e] = row.to
    <3>1. row.skip => row.to = c[e]
      BY <2>2, PlanRowFits
    <3> QED BY <2>2, <3>1 DEF ApplyPlan
  <2>4. /\ row.skip <=> c[e].drop /\ ~p.includeDropped
        /\ row.skip => row.to = c[e]
        /\ row.to \in Ranges
        /\ c[e].drop => row.to.drop
        /\ p.neverExpand /\ p.noActivity # "empty_keep_one" =>
             \/ c[e].start <= row.to.start /\ row.to.end <= c[e].end
             \/ \A i \in Int : ~(c[e].start <= i /\ i < c[e].end /\ row.to.start <= i /\ i < row.to.end)
    BY <2>2, PlanRowFits
  <2>5. /\ row.to.start \in Int /\ row.to.end \in Int /\ c[e].start \in Int /\ c[e].end \in Int
    BY <2>2, <2>4, RangeFields
  <2> HIDE DEF row
  <2>6. p.neverExpand /\ p.noActivity # "empty_keep_one" =>
           \/ c[e].start <= row.to.start /\ row.to.end <= c[e].end
           \/ \A i \in c[e].start..(c[e].end - 1) : i \notin row.to.start..(row.to.end - 1)
    BY <2>4, <2>5
  <2> QED BY <2>2, <2>3, <2>4, <2>6, Zenon
<1> QED BY EditorInvHolds, <1>1, PTL
-----------------------------------------------------------------------------
(* What an export puts together.  Lists of lists are followed by what the  *)
(* first of them give (PutTogether), sums of numbers by their partial sums *)
(* (Sums): a least i at which two such functions differ stands in for an   *)
(* induction over the list.                                                *)

(* The first i sequences of ss put together, for each i.                   *)
PutTogether(F, ss, X) ==
    /\ F \in [0..Len(ss) -> Seq(X)]
    /\ F[0] = <<>>
    /\ \A i \in 1..Len(ss) : F[i] = F[i - 1] \o ss[i]

LEMMA JoinedExist ==
    ASSUME NEW X, NEW ss \in Seq(Seq(X))
    PROVE  \E F : PutTogether(F, ss, X)
<1> DEFINE n == Len(ss)
           Upto(F, m) == /\ F \in [0..m -> Seq(X)]
                         /\ F[0] = <<>>
                         /\ \A i \in 1..m : F[i] = F[i - 1] \o ss[i]
           Without == {m \in 0..n : ~\E F : Upto(F, m)}
<1>1. n \in Nat /\ \A i \in 1..n : ss[i] \in Seq(X)
  BY LenProperties, ElementOfSeq
<1> HIDE DEF n, Upto
<1>2. ASSUME Without # {} PROVE FALSE
  <2>1. PICK m \in Without : \A j \in Without : m <= j
    <3>1. Without \in SUBSET Nat
      BY <1>1
    <3> QED BY <1>2, <3>1, LeastNatural
  <2>2. m # 0
    <3>1. Upto([i \in 0..0 |-> <<>>], 0)
      BY EmptySeq DEF Upto
    <3> QED BY <2>1, <3>1
  <2>3. m - 1 \in 0..n /\ m - 1 \notin Without /\ m \in 1..n
    BY <1>1, <2>1, <2>2
  <2>4. PICK F : Upto(F, m - 1)
    BY <2>3
  <2> DEFINE G == [i \in 0..m |-> IF i = m THEN F[m - 1] \o ss[m] ELSE F[i]]
  <2>5. F[m - 1] \o ss[m] \in Seq(X)
    BY <1>1, <2>3, <2>4, ConcatProperties DEF Upto
  <2>6. G \in [0..m -> Seq(X)]
    BY <2>3, <2>4, <2>5 DEF Upto
  <2>7. G[0] = <<>>
    BY <2>3, <2>4 DEF Upto
  <2>8. ASSUME NEW i \in 1..m PROVE G[i] = G[i - 1] \o ss[i]
    <3>1. CASE i = m
      <4>1. G[m] = F[m - 1] \o ss[m] /\ G[m - 1] = F[m - 1]
        <5>1. m \in 0..m /\ m - 1 \in 0..m /\ m - 1 # m
          BY <1>1, <2>3
        <5> QED BY <5>1
      <4> QED BY <3>1, <4>1
    <3>2. CASE i # m
      <4>1. i \in 1..m - 1 /\ G[i] = F[i] /\ G[i - 1] = F[i - 1]
        BY <1>1, <2>3, <3>2
      <4> QED BY <2>4, <4>1 DEF Upto
    <3> QED BY <3>1, <3>2
  <2>9. Upto(G, m)
    BY <2>6, <2>7, <2>8 DEF Upto
  <2> QED BY <2>1, <2>9
<1>3. \E F : Upto(F, n)
  <2>1. n \in 0..n
    BY <1>1
  <2> QED BY <1>2, <2>1
<1> QED BY <1>3 DEF PutTogether, n, Upto

(* FlattenSeq is the last of them.                                         *)
LEMMA Flattened ==
    ASSUME NEW X, NEW ss \in Seq(Seq(X)), NEW F, PutTogether(F, ss, X)
    PROVE  FlattenSeq(ss) = F[Len(ss)] /\ FlattenSeq(ss) \in Seq(X)
<1>1. Len(ss) \in Nat /\ \A i \in 1..Len(ss) : ss[i] \in Seq(X)
  BY LenProperties, ElementOfSeq
<1>2. CASE Len(ss) = 0
  <2>1. ss = <<>>
    BY <1>2, EmptySeq
  <2> QED BY <1>2, <2>1, EmptySeq DEF FlattenSeq, PutTogether
<1>3. CASE Len(ss) # 0
  <2> DEFINE flatten[i \in 1..Len(ss)] == IF i = 1 THEN ss[i] ELSE flatten[i - 1] \o ss[i]
             G == [i \in 1..Len(ss) |-> F[i]]
             Differ == {i \in 1..Len(ss) : flatten[i] # F[i]}
  <2>1. FlattenSeq(ss) = flatten[Len(ss)]
    BY <1>3 DEF FlattenSeq
  <2>2. ASSUME NEW i \in 1..Len(ss) PROVE F[i] = IF i = 1 THEN ss[i] ELSE F[i - 1] \o ss[i]
    <3>1. F[i] = F[i - 1] \o ss[i] /\ ss[i] \in Seq(X) /\ F[0] = <<>>
      BY <1>1 DEF PutTogether
    <3>2. i = 1 => F[i - 1] = <<>>
      BY <3>1
    <3> QED BY <3>1, <3>2, ConcatEmptySeq
  <2>3. G = [i \in 1..Len(ss) |-> IF i = 1 THEN ss[i] ELSE G[i - 1] \o ss[i]]
    <3>1. ASSUME NEW i \in 1..Len(ss), i # 1 PROVE G[i - 1] = F[i - 1]
      BY <1>1, <3>1
    <3> QED BY <2>2, <3>1
  <2> HIDE DEF G
  <2>4. flatten = [i \in 1..Len(ss) |-> IF i = 1 THEN ss[i] ELSE flatten[i - 1] \o ss[i]]
    BY <2>3
  <2> HIDE DEF flatten
  <2>5. ASSUME Differ # {} PROVE FALSE
    <3>1. PICK i \in Differ : \A j \in Differ : i <= j
      <4>1. Differ \in SUBSET Nat
        BY <1>1
      <4> QED BY <2>5, <4>1, LeastNatural
    <3>2. i \in 1..Len(ss) /\ i # 1
      BY <2>2, <2>4, <3>1
    <3>3. i - 1 \in 1..Len(ss) /\ i - 1 \notin Differ
      BY <1>1, <3>1, <3>2
    <3>4. flatten[i] = F[i - 1] \o ss[i]
      BY <2>4, <3>2, <3>3
    <3> QED BY <2>2, <3>1, <3>2, <3>4
  <2>6. Len(ss) \in 0..Len(ss) /\ Len(ss) \in 1..Len(ss)
    BY <1>1, <1>3
  <2> QED BY <2>1, <2>5, <2>6 DEF PutTogether
<1> QED BY <1>2, <1>3

(* Whatever part is flattened on its own.                                  *)
LEMMA FlattenPart ==
    ASSUME NEW X, NEW ss \in Seq(Seq(X)), NEW F, PutTogether(F, ss, X),
           NEW b \in 0..Len(ss), NEW a \in 0..b
    PROVE  F[b] = F[a] \o FlattenSeq(SubSeq(ss, a + 1, b))
<1> DEFINE t == SubSeq(ss, a + 1, b)
<1>1. Len(ss) \in Nat /\ \A i \in 1..Len(ss) : ss[i] \in Seq(X)
  BY LenProperties, ElementOfSeq
<1>2. t \in Seq(Seq(X)) /\ Len(t) = b - a /\ \A i \in 1..b - a : t[i] = ss[a + i]
  <2>1. a + 1 \in Int /\ b \in Int /\ \A i \in a + 1..b : ss[i] \in Seq(X)
    BY <1>1
  <2>2. /\ t \in Seq(Seq(X)) /\ Len(t) = IF a + 1 <= b THEN b - (a + 1) + 1 ELSE 0
        /\ \A i \in 1..b - (a + 1) + 1 : t[i] = ss[(a + 1) + i - 1]
    <3> DEFINE lo == a + 1
    <3>1. lo \in Int /\ b \in Int /\ \A i \in lo..b : ss[i] \in Seq(X)
      BY <2>1
    <3> HIDE DEF lo
    <3>2. /\ SubSeq(ss, lo, b) \in Seq(Seq(X)) /\ Len(SubSeq(ss, lo, b)) = IF lo <= b THEN b - lo + 1 ELSE 0
          /\ \A i \in 1..b - lo + 1 : SubSeq(ss, lo, b)[i] = ss[lo + i - 1]
      BY ONLY <3>1, SubSeqProperties
    <3> QED BY <3>2 DEF lo
  <2>3. b - (a + 1) + 1 = b - a /\ \A i \in 1..b - a : (a + 1) + i - 1 = a + i
    BY <2>1
  <2>4. (IF a + 1 <= b THEN b - (a + 1) + 1 ELSE 0) = b - a
    BY <1>1
  <2> QED BY <2>2, <2>3, <2>4
<1> HIDE DEF t
<1>3. PICK H : PutTogether(H, t, X)
  BY <1>2, JoinedExist
<1>4. FlattenSeq(t) = H[b - a]
  BY <1>2, <1>3, Flattened
<1>6. b - a \in Nat /\ b - a \in 0..b - a /\ a + (b - a) = b /\ a \in 0..Len(ss) /\ a \in Nat
  BY <1>1
<1> DEFINE Differ == {j \in 0..b - a : F[a + j] # F[a] \o H[j]}
<1>5. ASSUME Differ # {} PROVE FALSE
  <2>1. PICK j \in Differ : \A k \in Differ : j <= k
    <3>1. 0..b - a \subseteq Nat
      BY <1>6
    <3> QED BY <1>5, <3>1, LeastNatural
  <2>2. j # 0
    <3>1. F[a] \in Seq(X) /\ H[0] = <<>>
      BY <1>3, <1>6 DEF PutTogether
    <3>2. a + 0 = a
      BY <1>6
    <3>3. F[a] \o H[0] = F[a]
      BY <3>1, ConcatEmptySeq
    <3>4. F[a + 0] = F[a] \o H[0]
      BY <3>2, <3>3
    <3> QED BY <2>1, <3>4
  <2>3. /\ j \in 1..b - a /\ j - 1 \in 0..b - a /\ j - 1 \notin Differ
        /\ a + j \in 1..Len(ss) /\ (a + j) - 1 = a + (j - 1) /\ a + (j - 1) \in 0..Len(ss)
    <3>1. j \in 0..b - a /\ \A k \in Differ : j <= k
      BY <2>1
    <3> HIDE DEF Differ
    <3>2. j \in 1..b - a /\ j - 1 \in 0..b - a /\ ~(j <= j - 1)
      BY <1>6, <2>2, <3>1
    <3>3. j - 1 \notin Differ
      BY <3>1, <3>2
    <3> QED BY <1>1, <1>6, <3>2, <3>3
  <2>4. F[a + j] = F[a + (j - 1)] \o ss[a + j]
    BY <2>3 DEF PutTogether
  <2>5. H[j] = H[j - 1] \o ss[a + j]
    BY <1>2, <1>3, <2>3 DEF PutTogether
  <2>6. F[a] \in Seq(X) /\ H[j - 1] \in Seq(X) /\ ss[a + j] \in Seq(X)
    BY <1>1, <1>2, <1>3, <1>6, <2>3 DEF PutTogether
  <2>7. F[a + (j - 1)] = F[a] \o H[j - 1]
    BY <2>3
  <2>8. (F[a] \o H[j - 1]) \o ss[a + j] = F[a] \o (H[j - 1] \o ss[a + j])
    <3> DEFINE p == F[a]
               q == H[j - 1]
               r == ss[a + j]
    <3>1. p \in Seq(X) /\ q \in Seq(X) /\ r \in Seq(X)
      BY <2>6
    <3> HIDE DEF p, q, r
    <3>2. (p \o q) \o r = p \o (q \o r)
      BY ONLY <3>1, ConcatAssociative, SMTT(20)
    <3> QED BY <3>2 DEF p, q, r
  <2> QED BY <2>1, <2>4, <2>5, <2>7, <2>8
<1> QED BY <1>4, <1>5, <1>6 DEF t

LEMMA FlattenConcat ==
    ASSUME NEW X, NEW s \in Seq(Seq(X)), NEW t \in Seq(Seq(X))
    PROVE  FlattenSeq(s \o t) = FlattenSeq(s) \o FlattenSeq(t)
<1> DEFINE u == s \o t
<1>1. Len(s) \in Nat /\ Len(t) \in Nat
  BY LenProperties
<1>2. u \in Seq(Seq(X)) /\ Len(u) = Len(s) + Len(t)
  BY ConcatProperties
<1>3. SubSeq(u, 1, Len(s)) = s
  <2>1. /\ SubSeq(u, 1, Len(s)) \in Seq(Seq(X)) /\ Len(SubSeq(u, 1, Len(s))) = Len(s)
        /\ \A i \in 1..Len(s) : SubSeq(u, 1, Len(s))[i] = u[i]
    <3>1. \A i \in 1..Len(s) : u[i] \in Seq(X)
      BY <1>1, <1>2, ElementOfSeq
    <3>2. Len(s) - 1 + 1 = Len(s) /\ \A i \in 1..Len(s) : 1 + i - 1 = i
      BY <1>1
    <3>3. (IF 1 <= Len(s) THEN Len(s) - 1 + 1 ELSE 0) = Len(s)
      BY <1>1
    <3> QED BY <1>1, <3>1, <3>2, <3>3, SubSeqProperties
  <2>2. \A i \in 1..Len(s) : u[i] = s[i]
    BY <1>1, ConcatProperties
  <2> QED BY <2>1, <2>2, SeqEqual
<1>4. SubSeq(u, Len(s) + 1, Len(u)) = t
  <2> DEFINE v == SubSeq(u, Len(s) + 1, Len(u))
  <2>1. /\ v \in Seq(Seq(X)) /\ Len(v) = Len(t)
        /\ \A i \in 1..Len(t) : v[i] = u[Len(s) + i]
    <3>1. \A i \in Len(s) + 1..Len(u) : u[i] \in Seq(X)
      BY <1>1, <1>2, ElementOfSeq
    <3>2. Len(u) - (Len(s) + 1) + 1 = Len(t) /\ \A i \in 1..Len(t) : (Len(s) + 1) + i - 1 = Len(s) + i
      BY <1>1, <1>2
    <3>3. (IF Len(s) + 1 <= Len(u) THEN Len(u) - (Len(s) + 1) + 1 ELSE 0) = Len(t)
      BY <1>1, <1>2
    <3>4. Len(s) + 1 \in Int /\ Len(u) \in Int
      BY <1>1, <1>2
    <3> QED BY <3>1, <3>2, <3>3, <3>4, SubSeqProperties
  <2>2. ASSUME NEW i \in 1..Len(t) PROVE u[Len(s) + i] = t[i]
    <3>1. Len(s) + i \in 1..Len(s) + Len(t) /\ ~(Len(s) + i <= Len(s)) /\ (Len(s) + i) - Len(s) = i
      BY <1>1
    <3> QED BY <3>1, ConcatProperties
  <2> HIDE DEF v
  <2> QED BY <2>1, <2>2, SeqEqual DEF v
<1>5. PICK F : PutTogether(F, u, X)
  BY <1>2, JoinedExist
<1>6. Len(s) \in 0..Len(u) /\ Len(u) \in 0..Len(u) /\ 0 \in 0..Len(s) /\ Len(s) \in 0..Len(u)
  BY <1>1, <1>2
<1> HIDE DEF u
<1>7. F[Len(s)] = F[0] \o FlattenSeq(SubSeq(u, 1, Len(s)))
  <2>1. F[Len(s)] = F[0] \o FlattenSeq(SubSeq(u, 0 + 1, Len(s)))
    BY <1>2, <1>5, <1>6, FlattenPart
  <2> QED BY <2>1
<1>8. F[Len(u)] = F[Len(s)] \o FlattenSeq(SubSeq(u, Len(s) + 1, Len(u)))
  BY <1>2, <1>5, <1>6, FlattenPart
<1>9. FlattenSeq(s) \in Seq(X) /\ FlattenSeq(u) = F[Len(u)] /\ F[0] = <<>>
  BY <1>2, <1>5, JoinedExist, Flattened DEF PutTogether
<1>10. <<>> \o FlattenSeq(s) = FlattenSeq(s)
  BY <1>9, ConcatEmptySeq
<1>11. F[Len(s)] = FlattenSeq(s)
  BY <1>3, <1>7, <1>9, <1>10 
<1>12. FlattenSeq(u) = FlattenSeq(s) \o FlattenSeq(t)
  BY <1>4, <1>8, <1>9, <1>11
<1> QED BY <1>12 DEF u

LEMMA FlattenTyped ==
    ASSUME NEW X, NEW ss \in Seq(Seq(X))
    PROVE  FlattenSeq(ss) \in Seq(X)
<1>1. PICK F : PutTogether(F, ss, X)
  BY JoinedExist
<1> QED BY <1>1, Flattened

(* Functions of elements, and one applied to every element of a sequence.  *)
Maps(A, Y)  == [A -> Y]
Image(f, s) == [i \in DOMAIN s |-> f[s[i]]]

LEMMA ImageTyped ==
    ASSUME NEW A, NEW Y, NEW f \in Maps(A, Y), NEW s \in Seq(A)
    PROVE  /\ Image(f, s) \in Seq(Y) /\ Len(Image(f, s)) = Len(s) /\ DOMAIN Image(f, s) = 1..Len(s)
           /\ \A i \in 1..Len(s) : Image(f, s)[i] = f[s[i]]
<1>1. Len(s) \in Nat /\ DOMAIN s = 1..Len(s) /\ \A i \in 1..Len(s) : s[i] \in A
  BY LenProperties, ElementOfSeq
<1>2. Image(f, s) \in [1..Len(s) -> Y]
  BY <1>1 DEF Image, Maps
<1> QED BY <1>1, <1>2 DEF Image

LEMMA ImageConcat ==
    ASSUME NEW A, NEW Y, NEW f \in Maps(A, Y), NEW s \in Seq(A), NEW t \in Seq(A)
    PROVE  Image(f, s \o t) = Image(f, s) \o Image(f, t)
<1> DEFINE p == Image(f, s)
           q == Image(f, t)
           u == s \o t
           r == Image(f, u)
<1>1. s \o t \in Seq(A) /\ Len(s \o t) = Len(s) + Len(t) /\ Len(s) \in Nat /\ Len(t) \in Nat
  BY ConcatProperties, LenProperties
<1>2. p \in Seq(Y) /\ Len(p) = Len(s) /\ \A i \in 1..Len(s) : p[i] = f[s[i]]
  <2>1. /\ Image(f, s) \in Seq(Y) /\ Len(Image(f, s)) = Len(s)
        /\ \A i \in 1..Len(s) : Image(f, s)[i] = f[s[i]]
    BY ImageTyped
  <2> QED BY <2>1
<1>9. q \in Seq(Y) /\ Len(q) = Len(t) /\ \A i \in 1..Len(t) : q[i] = f[t[i]]
  <2>1. /\ Image(f, t) \in Seq(Y) /\ Len(Image(f, t)) = Len(t)
        /\ \A i \in 1..Len(t) : Image(f, t)[i] = f[t[i]]
    BY ImageTyped
  <2> QED BY <2>1
<1>3. r \in Seq(Y) /\ Len(r) = Len(s) + Len(t) /\ \A i \in 1..Len(s) + Len(t) : r[i] = f[(s \o t)[i]]
  <2>1. u \in Seq(A) /\ Len(u) = Len(s) + Len(t)
    BY <1>1
  <2> HIDE DEF u
  <2>2. /\ Image(f, u) \in Seq(Y) /\ Len(Image(f, u)) = Len(u)
        /\ \A i \in 1..Len(u) : Image(f, u)[i] = f[u[i]]
    BY <2>1, ImageTyped
  <2> QED BY <2>1, <2>2 DEF u
<1> HIDE DEF p, q, r
<1>10. p \in Seq(Y) /\ q \in Seq(Y) /\ Len(p) = Len(s) /\ Len(q) = Len(t)
  BY <1>2, <1>9
<1>4. p \o q \in Seq(Y) /\ Len(p \o q) = Len(s) + Len(t)
  <2>1. p \o q \in Seq(Y) /\ Len(p \o q) = Len(p) + Len(q)
    BY <1>10, ConcatProperties
  <2> QED BY <1>10, <2>1
<1>5. ASSUME NEW i \in 1..Len(s) + Len(t) PROVE r[i] = (p \o q)[i]
  <2>1. (s \o t)[i] = IF i <= Len(s) THEN s[i] ELSE t[i - Len(s)]
    BY ConcatProperties
  <2>2. (p \o q)[i] = IF i <= Len(s) THEN p[i] ELSE q[i - Len(s)]
    BY <1>10, ConcatProperties
  <2>3. CASE i <= Len(s)
    <3>1. i \in 1..Len(s)
      BY <1>1, <2>3
    <3> QED BY <1>2, <1>9, <1>3, <2>1, <2>2, <2>3, <3>1
  <2>4. CASE ~(i <= Len(s))
    <3>1. i - Len(s) \in 1..Len(t)
      BY <1>1, <2>4
    <3> QED BY <1>2, <1>9, <1>3, <2>1, <2>2, <2>4, <3>1
  <2> QED BY <2>3, <2>4
<1>6. r = p \o q
  BY <1>3, <1>4, <1>5, SeqEqual
<1> QED BY <1>6 DEF p, q, r

(* What an element contributes may be put together list by list.           *)
PieceByPiece(f, ss, vv) == Len(vv) = Len(ss) /\ \A i \in 1..Len(ss) : vv[i] = FlattenSeq(Image(f, ss[i]))

LEMMA FlattenMap ==
    ASSUME NEW A, NEW X, NEW f \in Maps(A, Seq(X)), NEW ss \in Seq(Seq(A)),
           NEW vv \in Seq(Seq(X)), PieceByPiece(f, ss, vv)
    PROVE  FlattenSeq(Image(f, FlattenSeq(ss))) = FlattenSeq(vv)
<1>1. Len(ss) \in Nat /\ DOMAIN ss = 1..Len(ss) /\ \A i \in 1..Len(ss) : ss[i] \in Seq(A)
  BY LenProperties, ElementOfSeq
<1>2. ASSUME NEW s \in Seq(A) PROVE Image(f, s) \in Seq(Seq(X)) /\ FlattenSeq(Image(f, s)) \in Seq(X)
  <2>1. Image(f, s) \in Seq(Seq(X))
    BY ImageTyped
  <2>2. PICK F : PutTogether(F, Image(f, s), X)
    BY <2>1, JoinedExist
  <2> QED BY <2>1, <2>2, Flattened
<1>3. Len(vv) = Len(ss) /\ \A i \in 1..Len(ss) : vv[i] = FlattenSeq(Image(f, ss[i]))
  BY DEF PieceByPiece
<1>4. PICK F : PutTogether(F, ss, A)
  BY JoinedExist
<1> DEFINE G == [i \in 0..Len(ss) |-> FlattenSeq(Image(f, F[i]))]
<1>5. \A i \in 0..Len(ss) : F[i] \in Seq(A)
  BY <1>4 DEF PutTogether
<1>6. G \in [0..Len(vv) -> Seq(X)]
  BY <1>2, <1>3, <1>5
<1>7. G[0] = <<>>
  <2>1. F[0] = <<>> /\ 0 \in 0..Len(ss)
    BY <1>1, <1>4 DEF PutTogether
  <2>2. Image(f, <<>>) = <<>>
    BY DEF Image
  <2>3. FlattenSeq(<<>>) = <<>>
    BY DEF FlattenSeq
  <2> QED BY <2>1, <2>2, <2>3
<1>8. ASSUME NEW i \in 1..Len(vv) PROVE G[i] = G[i - 1] \o vv[i]
  <2>1. i \in 1..Len(ss) /\ i \in 0..Len(ss) /\ i - 1 \in 0..Len(ss)
    BY <1>1, <1>3
  <2>2. F[i] = F[i - 1] \o ss[i] /\ F[i - 1] \in Seq(A) /\ ss[i] \in Seq(A)
    BY <1>1, <1>4, <1>5, <2>1 DEF PutTogether
  <2> DEFINE p == F[i - 1]
             q == ss[i]
  <2>3. p \in Seq(A) /\ q \in Seq(A)
    BY <2>2
  <2> HIDE DEF p, q
  <2>4. Image(f, p \o q) = Image(f, p) \o Image(f, q)
    BY ONLY f \in Maps(A, Seq(X)), <2>3, ImageConcat
  <2>5. FlattenSeq(Image(f, p) \o Image(f, q)) = FlattenSeq(Image(f, p)) \o FlattenSeq(Image(f, q))
    BY <1>2, <2>3, FlattenConcat
  <2>6. G[i] = FlattenSeq(Image(f, F[i])) /\ G[i - 1] = FlattenSeq(Image(f, F[i - 1]))
    BY <2>1
  <2>7. vv[i] = FlattenSeq(Image(f, ss[i]))
    BY <1>3, <2>1
  <2> QED BY <2>2, <2>4, <2>5, <2>6, <2>7 DEF p, q
<1>9. FlattenSeq(vv) = G[Len(vv)]
  <2> HIDE DEF G
  <2>1. PutTogether(G, vv, X)
    BY <1>6, <1>7, <1>8 DEF PutTogether
  <2> QED BY <2>1, Flattened
<1>10. FlattenSeq(ss) = F[Len(ss)] /\ Len(ss) \in 0..Len(ss)
  BY <1>1, <1>4, Flattened
<1>11. FlattenSeq(vv) = FlattenSeq(Image(f, FlattenSeq(ss)))
  BY <1>3, <1>9, <1>10
<1> QED BY <1>11

LEMMA FlattenOne ==
    ASSUME NEW X, NEW s \in Seq(X)
    PROVE  FlattenSeq(<<s>>) = s
<1> DEFINE F == [i \in 0..1 |-> IF i = 0 THEN <<>> ELSE s]
<1>1. <<s>> \in Seq(Seq(X)) /\ Len(<<s>>) = 1 /\ <<s>>[1] = s
  OBVIOUS
<1>2. <<>> \in Seq(X) /\ <<>> \o s = s
  BY EmptySeq, ConcatEmptySeq
<1>3. PutTogether(F, <<s>>, X)
  BY <1>1, <1>2 DEF PutTogether
<1>4. F[Len(<<s>>)] = s
  BY <1>1
<1> HIDE DEF F
<1> QED BY <1>1, <1>3, <1>4, Flattened
(* The greatest of a set of positions.                                     *)
LEMMA GreatestOf ==
    ASSUME NEW m \in Nat, NEW S \in SUBSET (1..m), S # {}
    PROVE  /\ Max(S) \in S /\ \A x \in S : Max(S) >= x
           /\ \A x \in S : (\A y \in S : x >= y) => Max(S) = x
<1>1. PICK y \in S : \A x \in S : x <= y
  BY LastPosition
<1>2. Max(S) \in S /\ \A x \in S : Max(S) >= x
  <2>1. \A x \in S : y >= x
    BY <1>1
  <2> QED BY <2>1 DEF Max
<1>3. \A x \in S : (\A z \in S : x >= z) => Max(S) = x
  <2>1. SUFFICES ASSUME NEW x \in S, \A z \in S : x >= z PROVE Max(S) = x
    OBVIOUS
  <2>2. x >= Max(S)
    BY <1>2, <2>1
  <2>3. Max(S) >= x
    BY <1>2, <2>1
  <2>4. x \in 1..m /\ Max(S) \in 1..m
    BY <1>2
  <2> HIDE DEF Max
  <2> QED BY <2>2, <2>3, <2>4
<1> QED BY <1>2, <1>3

(* A fold over a sequence of numbers is the last of its partial sums.      *)
Sums(F, w) ==
    /\ F \in [0..Len(w) -> Nat]
    /\ F[0] = 0
    /\ \A i \in 1..Len(w) : F[i] = F[i - 1] + w[i]

LEMMA TotalIs ==
    ASSUME NEW w \in Seq(Nat), NEW F, Sums(F, w)
    PROVE  Total(w) = F[Len(w)] /\ Total(w) \in Nat
<1> DEFINE n == Len(w)
           Step(h, s) == IF s = {} THEN 0 ELSE h[s \ {Max(s)}] + w[Max(s)]
           Folds(h, m) == h = [s \in SUBSET (1..m) |-> Step(h, s)]
           Without == {m \in 0..n : ~\E h : Folds(h, m)}
<1>1. n \in Nat /\ DOMAIN w = 1..n
  BY LenProperties
<1> HIDE DEF n
<1>2. ASSUME NEW m \in Nat, NEW s \in SUBSET (1..m), s # {}, m \notin s
      PROVE  s \in SUBSET (1..m - 1) /\ s \ {Max(s)} \in SUBSET (1..m - 1)
  <2>1. s \in SUBSET (1..m - 1)
    BY <1>2
  <2> QED BY <2>1
<1>3. ASSUME NEW m \in Nat, NEW s \in SUBSET (1..m), m \in s
      PROVE  Max(s) = m /\ s \ {m} \in SUBSET (1..m - 1)
  <2>1. \A y \in s : m >= y
    OBVIOUS
  <2>2. Max(s) = m
    BY <1>3, <2>1, GreatestOf
  <2> QED BY <1>3, <2>2
<1>4. ASSUME Without # {} PROVE FALSE
  <2>1. PICK m \in Without : \A j \in Without : m <= j
    <3>1. Without \in SUBSET Nat
      BY <1>1
    <3> QED BY <1>4, <3>1, LeastNatural
  <2>2. m # 0
    <3> DEFINE g == [s \in SUBSET (1..0) |-> 0]
    <3>1. \A s \in SUBSET (1..0) : s = {}
      OBVIOUS
    <3>2. Folds(g, 0)
      BY <3>1
    <3> QED BY <2>1, <3>2
  <2>3. m - 1 \in 0..n /\ m \in Nat /\ m \in 1..n /\ ~(m <= m - 1)
    BY <1>1, <2>1, <2>2
  <2>4. PICK g : Folds(g, m - 1)
    BY <2>1, <2>3
  <2> DEFINE h == [s \in SUBSET (1..m) |-> IF m \in s THEN g[s \ {m}] + w[m] ELSE g[s]]
  <2>5. ASSUME NEW s \in SUBSET (1..m) PROVE h[s] = Step(h, s)
    <3>1. CASE s = {}
      <4>1. h[s] = g[{}] /\ {} \in SUBSET (1..m - 1)
        BY <3>1
      <4>2. g[{}] = 0
        BY <2>4, <4>1
      <4> QED BY <3>1, <4>1, <4>2
    <3>2. CASE m \in s
      <4>1. Max(s) = m /\ s \ {m} \in SUBSET (1..m - 1) /\ s \ {m} \in SUBSET (1..m)
        BY <1>3, <2>3, <3>2
      <4>2. h[s \ {m}] = g[s \ {m}]
        BY <4>1
      <4>3. h[s] = g[s \ {m}] + w[m]
        BY <3>2
      <4> QED BY <3>2, <4>1, <4>2, <4>3
    <3>3. CASE s # {} /\ m \notin s
      <4>1. s \in SUBSET (1..m - 1) /\ s \ {Max(s)} \in SUBSET (1..m - 1)
        BY <1>2, <2>3, <3>3
      <4>2. g[s] = g[s \ {Max(s)}] + w[Max(s)]
        BY <2>4, <3>3, <4>1
      <4>3. h[s \ {Max(s)}] = g[s \ {Max(s)}] /\ h[s] = g[s]
        BY <3>3
      <4> QED BY <3>3, <4>2, <4>3
    <3> QED BY <3>1, <3>2, <3>3
  <2>6. Folds(h, m)
    BY <2>5
  <2> QED BY <2>1, <2>6
<1> DEFINE iter == CHOOSE h : Folds(h, n)
<1>5. Folds(iter, n)
  <2>1. \E h : Folds(h, n)
    <3>1. n \in 0..n
      BY <1>1
    <3> QED BY <1>4, <3>1
  <2> QED BY <2>1
<1>6. Total(w) = iter[1..n]
  BY <1>1 DEF Total, FoldLeft, MapThenFoldSet
<1> HIDE DEF iter
<1> DEFINE Differ == {i \in 0..n : iter[1..i] # F[i]}
<1>7. ASSUME Differ # {} PROVE FALSE
  <2>1. PICK i \in Differ : \A j \in Differ : i <= j
    <3>1. Differ \in SUBSET Nat
      BY <1>1
    <3> QED BY <1>7, <3>1, LeastNatural
  <2>2. i # 0
    <3>1. 1..0 = {} /\ {} \in SUBSET (1..n)
      OBVIOUS
    <3>2. iter[{}] = 0
      BY <1>5, <3>1
    <3> QED BY <2>1, <3>1, <3>2 DEF Sums
  <2>3. i - 1 \in 0..n /\ i \in Nat /\ i \in 1..n /\ ~(i <= i - 1)
    BY <1>1, <2>1, <2>2
  <2>4. iter[1..i - 1] = F[i - 1]
    BY <2>1, <2>3
  <2>5. Max(1..i) = i /\ (1..i) \ {i} = 1..i - 1
    <3>1. (1..i) \in SUBSET (1..i) /\ i \in 1..i
      BY <2>3
    <3>2. Max(1..i) = i
      BY <1>3, <2>3, <3>1
    <3>3. (1..i) \ {i} = 1..i - 1
      BY <2>3
    <3> QED BY <3>2, <3>3
  <2>6. (1..i) \in SUBSET (1..n) /\ (1..i) # {}
    <3>1. i \in 1..i /\ i <= n
      BY <1>1, <2>3
    <3>2. \A j \in 1..i : j \in 1..n
      BY <1>1, <3>1
    <3> QED BY <3>1, <3>2
  <2>7. iter[1..i] = Step(iter, 1..i)
    BY <1>5, <2>6
  <2>8. iter[1..i] = iter[1..i - 1] + w[i]
    BY <2>5, <2>6, <2>7
  <2>9. F[i] = F[i - 1] + w[i]
    BY <2>3 DEF Sums, n
  <2> QED BY <2>1, <2>4, <2>8, <2>9
<1>8. n \in 0..n /\ F[n] \in Nat
  BY <1>1 DEF Sums, n
<1> QED BY <1>6, <1>7, <1>8 DEF n

(* What is put together has partial sums of lengths; so has any sequence   *)
(* of numbers.                                                             *)
LEMMA SumsExist ==
    ASSUME NEW n \in Nat, NEW w \in [1..n -> Nat]
    PROVE  w \in Seq(Nat) /\ Len(w) = n /\ \E H : Sums(H, w)
<1> DEFINE marks(k) == [j \in 1..k |-> 0]
           ss == [i \in 1..n |-> marks(w[i])]
<1>1. \A k \in Nat : marks(k) \in Seq({0}) /\ Len(marks(k)) = k
  OBVIOUS
<1> HIDE DEF marks
<1>2. ss \in [1..n -> Seq({0})]
  BY <1>1
<1>3. ss \in Seq(Seq({0})) /\ Len(ss) = n /\ \A i \in 1..n : ss[i] \in Seq({0}) /\ Len(ss[i]) = w[i]
  <2>1. ASSUME NEW Z, ss \in [1..n -> Z] PROVE ss \in Seq(Z) /\ Len(ss) = n
    BY <2>1
  <2>2. ss \in Seq(Seq({0})) /\ Len(ss) = n
    BY <1>2, <2>1
  <2>3. ASSUME NEW i \in 1..n PROVE ss[i] \in Seq({0}) /\ Len(ss[i]) = w[i]
    BY <1>1
  <2> QED BY <2>2, <2>3
<1>4. w \in Seq(Nat) /\ Len(w) = n
  OBVIOUS
<1> HIDE DEF ss
<1>5. PICK F : PutTogether(F, ss, {0})
  BY <1>3, JoinedExist
<1> DEFINE H == [i \in 0..n |-> Len(F[i])]
<1>6. \A i \in 0..n : F[i] \in Seq({0})
  BY <1>3, <1>5 DEF PutTogether
<1>7. H \in [0..n -> Nat]
  BY <1>6, LenProperties
<1>8. H[0] = 0
  BY <1>5, EmptySeq DEF PutTogether
<1>9. ASSUME NEW i \in 1..n PROVE H[i] = H[i - 1] + w[i]
  <2>1. i \in 0..n /\ i - 1 \in 0..n
    OBVIOUS
  <2> DEFINE p == F[i - 1]
             q == ss[i]
  <2>2. F[i] = p \o q /\ p \in Seq({0}) /\ q \in Seq({0}) /\ Len(q) = w[i]
    BY <1>3, <1>5, <1>6, <2>1 DEF PutTogether
  <2>3. H[i] = Len(F[i]) /\ H[i - 1] = Len(p)
    BY <2>1
  <2> HIDE DEF p, q, H
  <2>4. Len(p \o q) = Len(p) + Len(q)
    BY <2>2, ConcatProperties
  <2> QED BY <2>2, <2>3, <2>4
<1> HIDE DEF H
<1>10. Sums(H, w)
  BY <1>4, <1>7, <1>8, <1>9 DEF Sums
<1> QED BY <1>4, <1>10

LEMMA TotalGrows ==
    ASSUME NEW n \in Nat, NEW v \in [1..n -> Nat], NEW w \in [1..n -> Nat], \A i \in 1..n : v[i] <= w[i]
    PROVE  Total(v) \in Nat /\ Total(w) \in Nat /\ Total(v) <= Total(w)
<1>1. /\ v \in Seq(Nat) /\ Len(v) = n /\ \E G : Sums(G, v)
      /\ w \in Seq(Nat) /\ Len(w) = n /\ \E H : Sums(H, w)
  BY SumsExist
<1>2. PICK G : Sums(G, v)
  BY <1>1
<1>3. PICK H : Sums(H, w)
  BY <1>1
<1>4. /\ G \in [0..n -> Nat] /\ G[0] = 0 /\ \A i \in 1..n : G[i] = G[i - 1] + v[i]
      /\ H \in [0..n -> Nat] /\ H[0] = 0 /\ \A i \in 1..n : H[i] = H[i - 1] + w[i]
  BY <1>1, <1>2, <1>3 DEF Sums
<1> DEFINE Above == {i \in 0..n : H[i] < G[i]}
<1>5. ASSUME Above # {} PROVE FALSE
  <2>1. PICK m \in Above : \A j \in Above : m <= j
    <3>1. Above \in SUBSET Nat
      OBVIOUS
    <3> QED BY <1>5, <3>1, LeastNatural
  <2>2. m # 0
    BY <1>4, <2>1
  <2>3. m \in 1..n /\ m - 1 \in 0..n /\ m - 1 \notin Above
    BY <2>1, <2>2
  <2>4. G[m - 1] <= H[m - 1] /\ G[m - 1] \in Nat /\ H[m - 1] \in Nat /\ v[m] <= w[m]
    BY <1>4, <2>3
  <2>5. G[m] = G[m - 1] + v[m] /\ H[m] = H[m - 1] + w[m] /\ v[m] \in Nat /\ w[m] \in Nat
    BY <1>4, <2>3
  <2> QED BY <2>1, <2>4, <2>5
<1>6. G[n] <= H[n] /\ G[n] \in Nat /\ H[n] \in Nat
  <2>1. n \in 0..n /\ n \notin Above
    BY <1>5
  <2>2. G[n] \in Nat /\ H[n] \in Nat
    BY <1>4, <2>1
  <2> QED BY <2>1, <2>2
<1>7. Total(v) = G[n] /\ Total(w) = H[n]
  BY <1>1, <1>2, <1>3, TotalIs
<1> QED BY <1>6, <1>7

(* The length of what is put together is the total of the lengths.         *)
LEMMA FlattenLength ==
    ASSUME NEW X, NEW ss \in Seq(Seq(X)), NEW w \in Seq(Nat), Len(w) = Len(ss),
           \A i \in 1..Len(ss) : w[i] = Len(ss[i])
    PROVE  Len(FlattenSeq(ss)) = Total(w)
<1>1. PICK F : PutTogether(F, ss, X)
  BY JoinedExist
<1> DEFINE H == [i \in 0..Len(ss) |-> Len(F[i])]
<1>2. Len(ss) \in Nat /\ \A i \in 1..Len(ss) : ss[i] \in Seq(X)
  BY LenProperties, ElementOfSeq
<1>3. \A i \in 0..Len(ss) : F[i] \in Seq(X)
  BY <1>1 DEF PutTogether
<1>4. H \in [0..Len(w) -> Nat]
  BY <1>3, LenProperties
<1>5. H[0] = 0
  <2>1. F[0] = <<>> /\ 0 \in 0..Len(ss)
    BY <1>1, <1>2 DEF PutTogether
  <2> QED BY <2>1, EmptySeq
<1>6. ASSUME NEW i \in 1..Len(w) PROVE H[i] = H[i - 1] + w[i]
  <2>1. i \in 1..Len(ss) /\ i \in 0..Len(ss) /\ i - 1 \in 0..Len(ss)
    BY <1>2
  <2> DEFINE p == F[i - 1]
             q == ss[i]
  <2>2. F[i] = p \o q /\ p \in Seq(X) /\ q \in Seq(X)
    BY <1>1, <1>2, <1>3, <2>1 DEF PutTogether
  <2>3. H[i] = Len(F[i]) /\ H[i - 1] = Len(p) /\ w[i] = Len(q)
    BY <2>1
  <2> HIDE DEF p, q, H
  <2>4. Len(p \o q) = Len(p) + Len(q)
    BY <2>2, ConcatProperties
  <2> QED BY <2>2, <2>3, <2>4
<1>7. FlattenSeq(ss) = F[Len(ss)] /\ H[Len(ss)] = Len(F[Len(ss)])
  BY <1>1, <1>2, Flattened
<1> HIDE DEF H
<1>8. Sums(H, w)
  BY <1>4, <1>5, <1>6 DEF Sums
<1>9. Total(w) = H[Len(w)]
  BY <1>8, TotalIs
<1> QED BY <1>7, <1>9

(* Chunks cut a sequence without losing anything, into nonempty pieces.    *)
LEMMA ChunksWhole ==
    ASSUME NEW X, NEW t \in Seq(X), NEW size \in Nat \ {0}
    PROVE  Chunks(t, size) \in Seq(Seq(X)) /\ FlattenSeq(Chunks(t, size)) = t
<1> DEFINE n == Len(t)
           k == (n + size - 1) \div size
           cs == Chunks(t, size)
           Cut(i) == Between(0, i * size, n)
           G == [i \in 0..k |-> SubSeq(t, 1, Cut(i))]
<1>1. n \in Nat /\ \A i \in 1..n : t[i] \in X
  BY LenProperties, ElementOfSeq
<1> HIDE DEF n
<1>2. k \in Nat /\ k * size >= n /\ (k - 1) * size < n
  BY <1>1
<1>3. cs = [i \in 1..k |-> SubSeq(t, (i - 1) * size + 1, Cut(i))]
  BY DEF Chunks, n
<1> HIDE DEF k, cs
<1>4. ASSUME NEW i \in 0..k PROVE Cut(i) \in 0..n /\ i * size \in Nat
  <2>1. i * size \in Nat
    BY <1>2
  <2> QED BY <1>1, <2>1 DEF Between
<1>5. ASSUME NEW i \in 1..k
      PROVE  i - 1 \in 0..k /\ Cut(i - 1) = (i - 1) * size /\ Cut(i - 1) < Cut(i)
  <2>1. i - 1 \in 0..k /\ i \in 0..k
    BY <1>2
  <2>2. (i - 1) * size <= (k - 1) * size
    BY <1>2
  <2>3. (i - 1) * size < n /\ (i - 1) * size \in Nat
    BY <1>1, <1>2, <1>4, <2>1, <2>2
  <2>4. (i - 1) * size < i * size
    BY <1>2
  <2> QED BY <1>1, <1>4, <2>1, <2>3, <2>4 DEF Between
<1>6. ASSUME NEW a \in 1..n + 1, NEW b \in a - 1..n PROVE SubSeq(t, a, b) \in Seq(X)
  <2>1. a \in Int /\ b \in Int /\ \A i \in a..b : t[i] \in X
    BY <1>1
  <2> QED BY <2>1, SubSeqProperties
<1>7. ASSUME NEW i \in 1..k PROVE cs[i] = SubSeq(t, Cut(i - 1) + 1, Cut(i)) /\ cs[i] \in Seq(X)
  <2>1. cs[i] = SubSeq(t, Cut(i - 1) + 1, Cut(i))
    BY <1>3, <1>5
  <2>2. i \in 0..k /\ i - 1 \in 0..k
    BY <1>2, <1>5
  <2>3. Cut(i - 1) + 1 \in 1..n + 1 /\ Cut(i) \in (Cut(i - 1) + 1) - 1..n
    <3>1. Cut(i - 1) \in 0..n /\ Cut(i) \in 0..n /\ Cut(i - 1) < Cut(i)
      BY <1>4, <1>5, <2>2
    <3> HIDE DEF Cut
    <3> QED BY <1>1, <3>1
  <2> QED BY <1>6, <2>1, <2>3
<1>8. cs \in Seq(Seq(X)) /\ Len(cs) = k
  <2>1. cs \in [1..k -> Seq(X)]
    BY <1>3, <1>7
  <2> QED BY <1>2, <2>1
<1>9. ASSUME NEW i \in 0..k PROVE G[i] \in Seq(X)
  <2>1. Cut(i) \in 1 - 1..n /\ 1 \in 1..n + 1
    BY <1>1, <1>4
  <2> QED BY <1>6, <2>1
<1>10. G[0] = <<>>
  <2>1. 0 * size = 0 /\ 0 \in 0..k
    BY <1>2
  <2>2. Cut(0) = 0
    BY <1>1, <2>1 DEF Between
  <2>3. SubSeq(t, 1, 0) = <<>>
    BY SubSeqEmpty
  <2> QED BY <2>1, <2>2, <2>3
<1>11. ASSUME NEW i \in 1..k PROVE G[i] = G[i - 1] \o cs[i]
  <2>1. i \in 0..k /\ i - 1 \in 0..k
    BY <1>2, <1>5
  <2> DEFINE a == Cut(i - 1)
             b == Cut(i)
  <2>2. a \in 0..n /\ b \in 0..n /\ a < b
    BY <1>4, <1>5, <2>1
  <2>3. cs[i] = SubSeq(t, a + 1, b) /\ G[i] = SubSeq(t, 1, b) /\ G[i - 1] = SubSeq(t, 1, a)
    BY <1>7, <2>1
  <2> HIDE DEF a, b
  <2>4. a \in 1 - 1..n /\ b \in a..n /\ 1 \in 1..n + 1
    BY <1>1, <2>2
  <2>5. SubSeq(t, 1, a) \o SubSeq(t, a + 1, b) = SubSeq(t, 1, b)
    BY <2>4, ConcatAdjacentSubSeq DEF n
  <2> QED BY <2>3, <2>5
<1>12. G[k] = t
  <2>1. k \in 0..k
    BY <1>2
  <2>2. Cut(k) = n
    BY <1>1, <1>2, <2>1, <1>4 DEF Between
  <2>3. G[k] = SubSeq(t, 1, n)
    BY <2>1, <2>2
  <2> QED BY <2>3, SubSeqFull DEF n
<1> HIDE DEF G
<1>13. G \in [0..Len(cs) -> Seq(X)]
  <2>1. G \in [0..k -> Seq(X)]
    BY <1>9 DEF G
  <2> QED BY <1>8, <2>1
<1>14. PutTogether(G, cs, X)
  BY <1>8, <1>10, <1>11, <1>13 DEF PutTogether
<1>15. FlattenSeq(cs) = t
  BY <1>8, <1>12, <1>14, Flattened
<1> QED BY <1>8, <1>15 DEF cs

(* What is put together in two steps may be put together in one.           *)
LEMMA FlattenTwice ==
    ASSUME NEW A, NEW B, NEW X, NEW f \in Maps(A, Seq(B)), NEW g \in Maps(B, Seq(X)),
           NEW h \in Maps(A, Seq(X)), NEW t \in Seq(A),
           \A a \in A : FlattenSeq(Image(g, f[a])) = h[a]
    PROVE  FlattenSeq(Image(g, FlattenSeq(Image(f, t)))) = FlattenSeq(Image(h, t))
<1> DEFINE ss == Image(f, t)
           vv == Image(h, t)
<1>1. \A i \in 1..Len(t) : t[i] \in A
  BY ElementOfSeq
<1>2. ss \in Seq(Seq(B)) /\ Len(ss) = Len(t) /\ \A i \in 1..Len(t) : ss[i] = f[t[i]]
  BY ImageTyped
<1>3. vv \in Seq(Seq(X)) /\ Len(vv) = Len(t) /\ \A i \in 1..Len(t) : vv[i] = h[t[i]]
  BY ImageTyped
<1> HIDE DEF ss, vv
<1>4. PieceByPiece(g, ss, vv)
  BY <1>1, <1>2, <1>3 DEF PieceByPiece
<1>5. FlattenSeq(Image(g, FlattenSeq(ss))) = FlattenSeq(vv)
  BY <1>2, <1>3, <1>4, FlattenMap
<1> QED BY <1>5 DEF ss, vv

(* The frames of a segment, of an episode in the playback, and the others  *)
(* of the lists that the export and its summary work on.                   *)
Shots    == Episodes \X (0..Frames)
Segs     == [episode : Episodes, start : 0..Frames, end : 0..Frames]
Played(c)   == [e \in Episodes |-> IF c[e].drop THEN <<>> ELSE FramesOf(e, From(c[e]), To(c[e]))]
Segmented(c) == [e \in Episodes |->
                   IF Skips(c[e]) THEN <<>>
                   ELSE <<[episode |-> e, start |-> From(c[e]), end |-> To(c[e])]>>]
Kept(c)     == [e \in Episodes |-> IF c[e].drop THEN <<>> ELSE <<e>>]
Filmed      == [s \in Segs |-> FramesOf(s.episode, s.start, s.end)]
NotEmpty(S) == [s \in Seq(S) |-> IF s = <<>> THEN <<>> ELSE <<s>>]
Itself(S)   == [s \in S |-> s]

LEMMA FramesAreShots ==
    ASSUME NEW e \in Episodes, NEW lo \in 0..Frames, NEW hi \in 0..Frames
    PROVE  /\ FramesOf(e, lo, hi) \in Seq(Shots)
           /\ lo <= hi => Len(FramesOf(e, lo, hi)) = hi - lo
           /\ hi <= lo => FramesOf(e, lo, hi) = <<>>
<1>1. \A i \in 1..(hi - lo) : <<e, lo + i - 1>> \in Shots
  BY ExportAssumption DEF Shots
<1>2. CASE hi <= lo
  <2>1. 1..(hi - lo) = {}
    BY <1>2
  <2>2. FramesOf(e, lo, hi) = <<>>
    BY <2>1 DEF FramesOf
  <2>3. hi = lo => hi - lo = 0
    OBVIOUS
  <2> QED BY <1>2, <2>2, <2>3, EmptySeq
<1>3. CASE lo < hi
  <2>1. hi - lo \in Nat /\ ~(hi <= lo)
    BY <1>3
  <2>2. FramesOf(e, lo, hi) \in [1..(hi - lo) -> Shots]
    BY <1>1 DEF FramesOf
  <2>3. FramesOf(e, lo, hi) \in Seq(Shots) /\ Len(FramesOf(e, lo, hi)) = hi - lo
    BY <2>1, <2>2
  <2> QED BY <2>1, <2>3
<1> QED BY <1>2, <1>3

LEMMA TrimsFit ==
    ASSUME NEW c \in Config, NEW e \in Episodes
    PROVE  From(c[e]) \in 0..Frames /\ To(c[e]) \in 0..Frames /\ From(c[e]) <= To(c[e])
           /\ c[e].drop \in BOOLEAN
<1>1. c[e] \in Ranges
  BY DEF Config
<1> QED BY <1>1, Clamped, RangeFields

LEMMA ListsTyped ==
    ASSUME NEW c \in Config
    PROVE  /\ Played(c) \in Maps(Episodes, Seq(Shots))
           /\ Segmented(c) \in Maps(Episodes, Seq(Segs))
           /\ Kept(c) \in Maps(Episodes, Seq(Episodes))
           /\ Filmed \in Maps(Segs, Seq(Shots))
<1>1. ASSUME NEW e \in Episodes PROVE Played(c)[e] \in Seq(Shots)
  <2>1. FramesOf(e, From(c[e]), To(c[e])) \in Seq(Shots)
    BY TrimsFit, FramesAreShots
  <2> QED BY <2>1, EmptySeq DEF Played
<1>2. ASSUME NEW e \in Episodes PROVE Segmented(c)[e] \in Seq(Segs)
  <2>1. [episode |-> e, start |-> From(c[e]), end |-> To(c[e])] \in Segs
    BY TrimsFit DEF Segs
  <2>2. <<[episode |-> e, start |-> From(c[e]), end |-> To(c[e])]>> \in Seq(Segs)
    BY <2>1
  <2> QED BY <2>2, EmptySeq DEF Segmented
<1>3. ASSUME NEW e \in Episodes PROVE Kept(c)[e] \in Seq(Episodes)
  <2>1. <<e>> \in Seq(Episodes)
    OBVIOUS
  <2> QED BY <2>1, EmptySeq DEF Kept
<1>4. ASSUME NEW s \in Segs PROVE Filmed[s] \in Seq(Shots)
  <2>1. s.episode \in Episodes /\ s.start \in 0..Frames /\ s.end \in 0..Frames
    BY DEF Segs
  <2> QED BY <2>1, FramesAreShots DEF Filmed
<1>5. /\ Played(c) \in [Episodes -> Seq(Shots)] /\ Segmented(c) \in [Episodes -> Seq(Segs)]
      /\ Kept(c) \in [Episodes -> Seq(Episodes)]
  BY <1>1, <1>2, <1>3 DEF Played, Segmented, Kept
<1>6. Filmed \in [Segs -> Seq(Shots)]
  BY <1>4 DEF Filmed
<1> QED BY <1>5, <1>6 DEF Maps

(* The table of episodes; the groups of an export, and of the editor.      *)
LEMMA TableIs ==
    /\ EpisodeTable \in Seq(Episodes) /\ Len(EpisodeTable) = EpisodeCount /\ DOMAIN EpisodeTable = Episodes
    /\ \A e \in Episodes : EpisodeTable[e] = e
<1>1. EpisodeTable = [i \in 1..EpisodeCount |-> i] /\ EpisodeCount \in Nat
  BY ExportAssumption DEF EpisodeTable, Episodes
<1> QED BY <1>1 DEF Episodes

LEMMA ValidIs ==
    ASSUME NEW c \in Config
    PROVE  Valid(c) = FlattenSeq(Image(Kept(c), EpisodeTable)) /\ Valid(c) \in Seq(Episodes)
<1>1. Image(Kept(c), EpisodeTable) = [e \in Episodes |-> IF c[e].drop THEN <<>> ELSE <<e>>]
  BY TableIs DEF Image, Kept
<1>2. Kept(c) \in Maps(Episodes, Seq(Episodes))
  BY ListsTyped
<1>3. Image(Kept(c), EpisodeTable) \in Seq(Seq(Episodes))
  BY <1>2, TableIs, ImageTyped
<1>4. FlattenSeq(Image(Kept(c), EpisodeTable)) \in Seq(Episodes)
  BY <1>3, FlattenTyped
<1> QED BY <1>1, <1>4 DEF Valid

(* Leaving out the empty lists of a list changes nothing of what it puts   *)
(* together.                                                               *)
LEMMA EmptyOnesMayGo ==
    ASSUME NEW S, NEW ss \in Seq(Seq(S))
    PROVE  /\ FlattenSeq(Image(NotEmpty(S), ss)) \in Seq(Seq(S))
           /\ FlattenSeq(FlattenSeq(Image(NotEmpty(S), ss))) = FlattenSeq(ss)
<1> DEFINE f == NotEmpty(S)
           B == Seq(S)
           g == Itself(B)
           exported == FlattenSeq(Image(f, ss))
<1>1. \A s \in Seq(B) : Image(g, s) = s
  <2>1. SUFFICES ASSUME NEW s \in Seq(B) PROVE Image(g, s) = s
    OBVIOUS
  <2>2. Len(s) \in Nat /\ DOMAIN s = 1..Len(s) /\ \A i \in 1..Len(s) : s[i] \in B
    BY LenProperties, ElementOfSeq
  <2>3. s = [i \in 1..Len(s) |-> s[i]]
    BY <2>2
  <2> QED BY <2>2, <2>3 DEF Image, Itself
<1>2. f \in Maps(B, Seq(B))
  <2>1. ASSUME NEW s \in B PROVE f[s] \in Seq(B)
    <3>1. <<s>> \in Seq(B)
      OBVIOUS
    <3> QED BY <3>1, EmptySeq DEF NotEmpty
  <2>2. f \in [B -> Seq(B)]
    BY <2>1 DEF NotEmpty
  <2> HIDE DEF B, f
  <2> QED BY <2>2 DEF Maps
<1>3. g \in Maps(B, B)
  <2> HIDE DEF B
  <2> QED BY DEF Itself, Maps
<1>4. ASSUME NEW s \in B PROVE FlattenSeq(Image(g, f[s])) = g[s]
  <2>1. f[s] \in Seq(B) /\ g[s] = s
    <3>1. <<s>> \in Seq(B)
      OBVIOUS
    <3> QED BY <3>1, EmptySeq DEF NotEmpty, Itself
  <2>2. Image(g, f[s]) = f[s]
    BY <1>1, <2>1
  <2>3. FlattenSeq(f[s]) = s
    <3>1. CASE s = <<>>
      <4>1. f[s] = <<>>
        BY <3>1 DEF NotEmpty
      <4> QED BY <3>1, <4>1, EmptySeq DEF FlattenSeq
    <3>2. CASE s # <<>>
      <4>1. f[s] = <<s>>
        BY <3>2 DEF NotEmpty
      <4> QED BY <4>1, FlattenOne
    <3> QED BY <3>1, <3>2
  <2> QED BY <2>1, <2>2, <2>3
<1>5. ss \in Seq(B)
  OBVIOUS
<1>6. Image(f, ss) \in Seq(Seq(B))
  <2> HIDE DEF B, f
  <2> QED BY <1>2, <1>5, ImageTyped
<1>7. exported \in Seq(B)
  <2> HIDE DEF B, f
  <2> QED BY <1>6, FlattenTyped
<1>8. FlattenSeq(Image(g, FlattenSeq(Image(f, ss)))) = FlattenSeq(Image(g, ss))
  <2>1. g \in Maps(B, Seq(S))
    BY <1>3
  <2>2. \A s \in B : FlattenSeq(Image(g, f[s])) = g[s]
    BY <1>4
  <2> HIDE DEF B, f, g
  <2> QED BY ONLY <1>2, <1>5, <2>1, <2>2, FlattenTwice
<1> HIDE DEF g, f
<1>9. FlattenSeq(exported) = FlattenSeq(ss)
  BY <1>1, <1>5, <1>7, <1>8
<1> QED BY <1>7, <1>9 DEF f

(* A segment shows the frames that its episode plays.                      *)
LEMMA CutPlays ==
    ASSUME NEW c \in Config, NEW e \in Episodes
    PROVE  FlattenSeq(Image(Filmed, Segmented(c)[e])) = Played(c)[e]
<1>1. /\ From(c[e]) \in 0..Frames /\ To(c[e]) \in 0..Frames /\ From(c[e]) <= To(c[e])
      /\ c[e].drop \in BOOLEAN
  BY TrimsFit
<1> DEFINE seg == [episode |-> e, start |-> From(c[e]), end |-> To(c[e])]
           shots == FramesOf(e, From(c[e]), To(c[e]))
<1>2. shots \in Seq(Shots) /\ (To(c[e]) <= From(c[e]) => shots = <<>>)
  BY <1>1, FramesAreShots
<1>3. Played(c)[e] = IF c[e].drop THEN <<>> ELSE shots
  BY DEF Played
<1>4. CASE Skips(c[e])
  <2>1. Played(c)[e] = <<>>
    BY <1>2, <1>3, <1>4 DEF Skips
  <2>2. Segmented(c)[e] = <<>>
    BY <1>4 DEF Segmented
  <2>3. Image(Filmed, <<>>) = <<>>
    BY DEF Image
  <2> QED BY <2>1, <2>2, <2>3, EmptySeq DEF FlattenSeq
<1>5. CASE ~Skips(c[e])
  <2>1. Played(c)[e] = shots
    BY <1>3, <1>5 DEF Skips
  <2>2. Segmented(c)[e] = <<seg>>
    BY <1>5 DEF Segmented
  <2>3. Filmed[seg] = shots
    BY <1>1 DEF Filmed, Segs
  <2> HIDE DEF seg, shots
  <2>4. Image(Filmed, <<seg>>) = <<shots>>
    BY <2>3 DEF Image
  <2> QED BY <1>2, <2>1, <2>2, <2>4, FlattenOne
<1> QED BY <1>4, <1>5

LEMMA ExportedIs ==
    ASSUME NEW exported \in Seq(Seq(Segs))
    PROVE  ExportedFrames(exported) = FlattenSeq(Image(Filmed, FlattenSeq(exported)))
<1> DEFINE vv == [i \in DOMAIN exported |-> FlattenSeq(Image(Filmed, exported[i]))]
<1>1. Len(exported) \in Nat /\ DOMAIN exported = 1..Len(exported) /\ \A i \in 1..Len(exported) : exported[i] \in Seq(Segs)
  BY LenProperties, ElementOfSeq
<1>2. ASSUME NEW i \in DOMAIN exported
      PROVE  Image(Filmed, exported[i]) = [j \in DOMAIN exported[i] |->
                 FramesOf(exported[i][j].episode, exported[i][j].start, exported[i][j].end)]
  <2>1. \A j \in DOMAIN exported[i] : exported[i][j] \in Segs
    BY <1>1, LenProperties, ElementOfSeq
  <2> QED BY <2>1 DEF Image, Filmed
<1>3. ExportedFrames(exported) = FlattenSeq(vv)
  BY <1>2 DEF ExportedFrames
<1>4. Filmed \in Maps(Segs, Seq(Shots))
  <2>1. PICK c : c \in Config
    BY NoTrimFits
  <2> QED BY <2>1, ListsTyped
<1>5. \A s \in Seq(Segs) : FlattenSeq(Image(Filmed, s)) \in Seq(Shots)
  <2>1. SUFFICES ASSUME NEW s \in Seq(Segs) PROVE FlattenSeq(Image(Filmed, s)) \in Seq(Shots)
    OBVIOUS
  <2>2. Image(Filmed, s) \in Seq(Seq(Shots))
    BY <1>4, ImageTyped
  <2> QED BY <2>2, FlattenTyped
<1>6. vv \in Seq(Seq(Shots)) /\ PieceByPiece(Filmed, exported, vv)
  <2>1. vv \in [1..Len(exported) -> Seq(Shots)]
    BY <1>1, <1>5
  <2> QED BY <1>1, <2>1 DEF PieceByPiece
<1> HIDE DEF vv
<1>7. FlattenSeq(Image(Filmed, FlattenSeq(exported))) = FlattenSeq(vv)
  BY ONLY <1>4, <1>6, exported \in Seq(Seq(Segs)), FlattenMap
<1> QED BY <1>3, <1>7

(* An export plays what its groups play, whatever the segments it makes.   *)
LEMMA ExportPlays ==
    ASSUME NEW c \in Config, NEW gs \in Seq(Seq(Episodes)), NEW merge, NEW regrouped,
           gs = ExportGroups(c, merge, regrouped)
    PROVE  ExportedFrames(Export(c, merge, regrouped)) = FlattenSeq(Image(Played(c), FlattenSeq(gs)))
<1> DEFINE ss == [i \in DOMAIN gs |-> Segments(c, gs[i])]
           exported == Export(c, merge, regrouped)
           t == FlattenSeq(gs)
<1>1. Len(gs) \in Nat /\ DOMAIN gs = 1..Len(gs) /\ \A i \in 1..Len(gs) : gs[i] \in Seq(Episodes)
  BY LenProperties, ElementOfSeq
<1>2. /\ Played(c) \in Maps(Episodes, Seq(Shots)) /\ Segmented(c) \in Maps(Episodes, Seq(Segs))
      /\ Filmed \in Maps(Segs, Seq(Shots))
  BY ListsTyped
<1>3. ASSUME NEW g \in Seq(Episodes)
      PROVE  Segments(c, g) = FlattenSeq(Image(Segmented(c), g)) /\ Segments(c, g) \in Seq(Segs)
  <2>1. \A i \in DOMAIN g : g[i] \in Episodes
    BY LenProperties, ElementOfSeq
  <2>2. Image(Segmented(c), g) = [i \in DOMAIN g |->
            IF Skips(c[g[i]]) THEN <<>>
            ELSE <<[episode |-> g[i], start |-> From(c[g[i]]), end |-> To(c[g[i]])]>>]
    BY <2>1 DEF Image, Segmented
  <2>3. Segments(c, g) = FlattenSeq(Image(Segmented(c), g))
    BY <2>2 DEF Segments
  <2>4. Image(Segmented(c), g) \in Seq(Seq(Segs))
    BY <1>2, ImageTyped
  <2> QED BY <2>3, <2>4, FlattenTyped
<1>4. ss \in Seq(Seq(Segs)) /\ Len(ss) = Len(gs) /\ \A i \in 1..Len(gs) : ss[i] = FlattenSeq(Image(Segmented(c), gs[i]))
  <2>1. ss \in [1..Len(gs) -> Seq(Segs)]
    BY <1>1, <1>3
  <2> QED BY <1>1, <1>3, <2>1
<1>5. FlattenSeq(ss) = FlattenSeq(Image(Segmented(c), t))
  <2> DEFINE f == Segmented(c)
  <2>1. f \in Maps(Episodes, Seq(Segs)) /\ ss \in Seq(Seq(Segs)) /\ PieceByPiece(f, gs, ss)
    BY <1>2, <1>4 DEF PieceByPiece
  <2> HIDE DEF ss, f
  <2>2. FlattenSeq(Image(f, FlattenSeq(gs))) = FlattenSeq(ss)
    BY ONLY <2>1, gs \in Seq(Seq(Episodes)), FlattenMap
  <2> QED BY <2>2 DEF f
<1>6. exported = FlattenSeq(Image(NotEmpty(Segs), ss))
  <2>1. \A i \in DOMAIN ss : ss[i] = Segments(c, gs[i]) /\ ss[i] \in Seq(Segs)
    BY <1>1, <1>3
  <2>2. DOMAIN ss = DOMAIN gs
    OBVIOUS
  <2> HIDE DEF ss
  <2>3. Image(NotEmpty(Segs), ss) = [i \in DOMAIN gs |->
            IF Segments(c, gs[i]) = <<>> THEN <<>> ELSE <<Segments(c, gs[i])>>]
    BY <2>1, <2>2 DEF Image, NotEmpty
  <2> QED BY <2>3 DEF Export
<1> HIDE DEF ss
<1>7. exported \in Seq(Seq(Segs)) /\ FlattenSeq(exported) = FlattenSeq(ss)
  BY <1>4, <1>6, EmptyOnesMayGo
<1> HIDE DEF exported, t
<1>8. t \in Seq(Episodes)
  BY FlattenTyped DEF t
<1>9. ExportedFrames(exported) = FlattenSeq(Image(Filmed, FlattenSeq(Image(Segmented(c), t))))
  BY <1>5, <1>7, ExportedIs
<1>10. FlattenSeq(Image(Filmed, FlattenSeq(Image(Segmented(c), t)))) = FlattenSeq(Image(Played(c), t))
  <2> DEFINE f == Segmented(c)
             h == Played(c)
  <2>1. f \in Maps(Episodes, Seq(Segs)) /\ h \in Maps(Episodes, Seq(Shots))
    BY <1>2
  <2>2. \A e \in Episodes : FlattenSeq(Image(Filmed, f[e])) = h[e]
    BY CutPlays
  <2> HIDE DEF f, h
  <2>3. FlattenSeq(Image(Filmed, FlattenSeq(Image(f, t)))) = FlattenSeq(Image(h, t))
    BY ONLY <1>2, <1>8, <2>1, <2>2, FlattenTwice
  <2> QED BY <2>3 DEF f, h
<1> QED BY <1>9, <1>10 DEF exported, t

(* All ways to group show every frame that is kept, once and in order.     *)
LEMMA GroupsAreWhole ==
    ASSUME NEW c \in Config, NEW merge \in BOOLEAN, NEW regrouped \in BOOLEAN
    PROVE  LET gs == ExportGroups(c, merge, regrouped) IN
           /\ gs \in Seq(Seq(Episodes))
           /\ FlattenSeq(gs) \in {EpisodeTable, Valid(c)}
<1>1. EpisodeTable \in Seq(Episodes) /\ Valid(c) \in Seq(Episodes)
  BY TableIs, ValidIs
<1>2. GroupSize \in Nat \ {0} /\ 1 \in Nat \ {0}
  BY ExportAssumption
<1>3. /\ \A t \in {EpisodeTable, Valid(c)} : \A size \in {1, GroupSize} :
             Chunks(t, size) \in Seq(Seq(Episodes)) /\ FlattenSeq(Chunks(t, size)) = t
  <2>1. SUFFICES ASSUME NEW t \in {EpisodeTable, Valid(c)}, NEW size \in {1, GroupSize}
                 PROVE  Chunks(t, size) \in Seq(Seq(Episodes)) /\ FlattenSeq(Chunks(t, size)) = t
    OBVIOUS
  <2>2. t \in Seq(Episodes) /\ size \in Nat \ {0}
    BY <1>1, <1>2
  <2> QED BY <2>2, ChunksWhole
<1>4. ExportGroups(c, merge, regrouped) \in
         {Chunks(EpisodeTable, 1), Chunks(Valid(c), GroupSize), Chunks(EpisodeTable, GroupSize)}
  BY DEF ExportGroups
<1> QED BY <1>3, <1>4

LEMMA RegroupingKeepsFrames ==
    ASSUME NEW c \in Config, NEW t \in {EpisodeTable, Valid(c)}
    PROVE  FlattenSeq(Image(Played(c), t)) = Playback(c, EpisodeTable, TRUE)
<1>1. Image(Played(c), EpisodeTable) = [i \in DOMAIN EpisodeTable |->
          IF c[EpisodeTable[i]].drop THEN <<>>
          ELSE FramesOf(EpisodeTable[i], From(c[EpisodeTable[i]]), To(c[EpisodeTable[i]]))]
  BY TableIs DEF Image, Played
<1>2. FlattenSeq(Image(Played(c), EpisodeTable)) = Playback(c, EpisodeTable, TRUE)
  BY <1>1 DEF Playback
<1> DEFINE f == Kept(c)
           h == Played(c)
           s == EpisodeTable
<1>3. f \in Maps(Episodes, Seq(Episodes)) /\ h \in Maps(Episodes, Seq(Shots)) /\ s \in Seq(Episodes)
  BY ListsTyped, TableIs
<1>4. ASSUME NEW e \in Episodes PROVE FlattenSeq(Image(h, f[e])) = h[e]
  <2>1. h[e] \in Seq(Shots)
    BY <1>3 DEF Maps
  <2>2. CASE c[e].drop
    <3>1. f[e] = <<>> /\ h[e] = <<>>
      BY <2>2 DEF Kept, Played
    <3>2. Image(h, <<>>) = <<>>
      BY DEF Image
    <3> QED BY <3>1, <3>2, EmptySeq DEF FlattenSeq
  <2>3. CASE ~c[e].drop
    <3>1. f[e] = <<e>>
      BY <2>3 DEF Kept
    <3>2. Image(h, <<e>>) = <<h[e]>>
      BY DEF Image
    <3> HIDE DEF h, f
    <3> QED BY <2>1, <3>1, <3>2, FlattenOne
  <2> QED BY <2>2, <2>3
<1>5. FlattenSeq(Image(h, FlattenSeq(Image(f, s)))) = FlattenSeq(Image(h, s))
  <2> HIDE DEF f, h, s
  <2> QED BY ONLY <1>3, <1>4, FlattenTwice
<1>6. Valid(c) = FlattenSeq(Image(f, s))
  BY ValidIs
<1> QED BY <1>2, <1>5, <1>6

(* The number of frames of a list of episodes, by the length table.        *)
LEMMA FramesCounted ==
    ASSUME NEW c \in Config, NEW g \in Seq(Episodes), NEW w, w = [j \in DOMAIN g |-> KeptLength(c, g[j])]
    PROVE  Len(FlattenSeq(Image(Played(c), g))) = Total(w) /\ Total(w) \in Nat
<1> DEFINE ss == Image(Played(c), g)
<1>1. Len(g) \in Nat /\ DOMAIN g = 1..Len(g) /\ \A i \in 1..Len(g) : g[i] \in Episodes
  BY LenProperties, ElementOfSeq
<1>2. ASSUME NEW e \in Episodes
      PROVE  Len(Played(c)[e]) = KeptLength(c, e) /\ KeptLength(c, e) \in Nat
  <2>1. From(c[e]) \in 0..Frames /\ To(c[e]) \in 0..Frames /\ From(c[e]) <= To(c[e])
    BY TrimsFit
  <2>2. Len(FramesOf(e, From(c[e]), To(c[e]))) = To(c[e]) - From(c[e])
    BY <2>1, FramesAreShots
  <2>3. Len(Played(c)[e]) = IF c[e].drop THEN 0 ELSE To(c[e]) - From(c[e])
    BY <2>2, EmptySeq DEF Played
  <2>4. KeptLength(c, e) = IF c[e].drop THEN 0 ELSE To(c[e]) - From(c[e])
    BY DEF KeptLength
  <2>5. (IF c[e].drop THEN 0 ELSE To(c[e]) - From(c[e])) \in Nat
    BY <2>1, ExportAssumption
  <2> QED BY <2>3, <2>4, <2>5
<1>3. w = [i \in 1..Len(g) |-> KeptLength(c, g[i])]
  BY <1>1
<1>4. w \in Seq(Nat) /\ Len(w) = Len(g) /\ \A i \in 1..Len(g) : w[i] = KeptLength(c, g[i])
  <2>1. w \in [1..Len(g) -> Nat]
    BY <1>1, <1>2, <1>3
  <2> QED BY <1>1, <1>3, <2>1
<1>5. Played(c) \in Maps(Episodes, Seq(Shots))
  BY ListsTyped
<1>6. ss \in Seq(Seq(Shots)) /\ Len(ss) = Len(g) /\ \A i \in 1..Len(g) : ss[i] = Played(c)[g[i]]
  <2> DEFINE f == Played(c)
             Y == Seq(Shots)
  <2>1. f \in Maps(Episodes, Y)
    BY <1>5
  <2> HIDE DEF f, Y
  <2>2. Image(f, g) \in Seq(Y) /\ Len(Image(f, g)) = Len(g) /\ \A i \in 1..Len(g) : Image(f, g)[i] = f[g[i]]
    BY ONLY <2>1, g \in Seq(Episodes), ImageTyped
  <2> QED BY <2>2 DEF f, Y
<1> HIDE DEF ss
<1>7. \A i \in 1..Len(ss) : w[i] = Len(ss[i])
  BY <1>1, <1>2, <1>4, <1>6
<1>8. Len(w) = Len(ss)
  BY <1>4, <1>6
<1>9. Len(FlattenSeq(ss)) = Total(w)
  BY ONLY <1>4, <1>6, <1>7, <1>8, FlattenLength
<1>10. FlattenSeq(ss) \in Seq(Shots)
  BY <1>6, FlattenTyped
<1>11. Len(FlattenSeq(ss)) \in Nat
  BY <1>10, LenProperties
<1> QED BY <1>9, <1>11 DEF ss

(* The rows of a list of groups, by the length table.                      *)
Lengths(c, g)  == [j \in DOMAIN g |-> KeptLength(c, g[j])]
TrueRows(c, gs) == [i \in DOMAIN gs |-> Total(Lengths(c, gs[i]))]

LEMMA GroupsCounted ==
    ASSUME NEW c \in Config, NEW gs \in Seq(Seq(Episodes))
    PROVE  /\ Len(FlattenSeq(Image(Played(c), FlattenSeq(gs)))) = Total(TrueRows(c, gs))
           /\ TrueRows(c, gs) \in Seq(Nat)
<1> DEFINE f == Played(c)
           vv == [i \in DOMAIN gs |-> FlattenSeq(Image(f, gs[i]))]
           rows == TrueRows(c, gs)
<1>1. Len(gs) \in Nat /\ DOMAIN gs = 1..Len(gs) /\ \A i \in 1..Len(gs) : gs[i] \in Seq(Episodes)
  BY LenProperties, ElementOfSeq
<1>2. rows = [i \in DOMAIN gs |-> Total(Lengths(c, gs[i]))]
  BY DEF TrueRows
<1>3. ASSUME NEW i \in 1..Len(gs)
      PROVE  /\ FlattenSeq(Image(f, gs[i])) \in Seq(Shots)
             /\ rows[i] = Len(FlattenSeq(Image(f, gs[i]))) /\ rows[i] \in Nat
  <2> DEFINE g == gs[i]
             w == Lengths(c, g)
  <2>1. g \in Seq(Episodes) /\ rows[i] = Total(w)
    BY <1>1, <1>2
  <2>2. f \in Maps(Episodes, Seq(Shots))
    BY ListsTyped
  <2> HIDE DEF g, f
  <2>3. Image(f, g) \in Seq(Seq(Shots))
    BY ONLY <2>1, <2>2, ImageTyped
  <2>4. FlattenSeq(Image(f, g)) \in Seq(Shots)
    BY ONLY <2>3, FlattenTyped
  <2>5. Len(FlattenSeq(Image(f, g))) = Total(w) /\ Total(w) \in Nat
    BY ONLY <2>1, c \in Config, FramesCounted DEF f, Lengths
  <2> QED BY <2>1, <2>4, <2>5 DEF g
<1>4. /\ vv \in Seq(Seq(Shots)) /\ PieceByPiece(f, gs, vv)
      /\ Len(vv) = Len(gs) /\ \A i \in 1..Len(gs) : vv[i] = FlattenSeq(Image(f, gs[i]))
  <2>1. vv \in [1..Len(gs) -> Seq(Shots)]
    BY <1>1, <1>3
  <2> QED BY <1>1, <2>1 DEF PieceByPiece
<1>5. rows \in Seq(Nat) /\ Len(rows) = Len(gs)
  <2>1. rows \in [1..Len(gs) -> Nat]
    <3>1. \A i \in 1..Len(gs) : rows[i] \in Nat
      BY <1>3
    <3>2. rows = [i \in 1..Len(gs) |-> rows[i]]
      BY <1>1, <1>2
    <3> HIDE DEF rows
    <3> QED BY <3>1, <3>2
  <2> DEFINE n == Len(gs)
  <2>2. n \in Nat /\ rows \in [1..n -> Nat]
    BY <1>1, <2>1
  <2> HIDE DEF rows, n
  <2>3. rows \in Seq(Nat) /\ Len(rows) = n
    BY ONLY <2>2
  <2> QED BY <2>3 DEF n
<1>6. f \in Maps(Episodes, Seq(Shots))
  BY ListsTyped
<1> HIDE DEF f, vv, rows
<1>7. \A i \in 1..Len(vv) : rows[i] = Len(vv[i])
  BY <1>3, <1>4
<1>8. FlattenSeq(Image(f, FlattenSeq(gs))) = FlattenSeq(vv)
  BY ONLY <1>4, <1>6, gs \in Seq(Seq(Episodes)), FlattenMap
<1>9. Len(rows) = Len(vv)
  BY <1>4, <1>5
<1>10. Len(FlattenSeq(vv)) = Total(rows)
  BY ONLY <1>4, <1>5, <1>7, <1>9, FlattenLength
<1> QED BY <1>5, <1>8, <1>10 DEF f, rows

(* The summary counts an episode by its range as it stands: never less     *)
(* than its frames, and no more if the range lies inside the episode.      *)
LEMMA SummaryFramesBound ==
    ASSUME NEW c \in Config, NEW e \in Episodes
    PROVE  /\ SummaryFrames(c[e]) \in Nat /\ KeptLength(c, e) \in Nat
           /\ KeptLength(c, e) <= SummaryFrames(c[e])
           /\ c[e].drop \/ Inside(c[e]) => KeptLength(c, e) = SummaryFrames(c[e])
<1>1. c[e].start \in Int /\ c[e].end \in Int /\ c[e].drop \in BOOLEAN /\ Frames \in Nat
  BY RangeFields, ExportAssumption DEF Config
<1>2. /\ From(c[e]) = IF c[e].start < 0 THEN 0 ELSE IF c[e].start > Frames THEN Frames ELSE c[e].start
      /\ To(c[e]) = IF c[e].end < From(c[e]) THEN From(c[e])
                    ELSE IF c[e].end > Frames THEN Frames ELSE c[e].end
  BY <1>1 DEF From, To, Between
<1>3. CASE c[e].drop
  BY <1>3 DEF KeptLength, SummaryFrames
<1>4. CASE ~c[e].drop
  <2>1. KeptLength(c, e) = To(c[e]) - From(c[e])
    BY <1>4 DEF KeptLength
  <2>2. SummaryFrames(c[e]) = IF c[e].end > c[e].start THEN c[e].end - c[e].start ELSE 0
    BY <1>4 DEF SummaryFrames
  <2> QED BY <1>1, <1>2, <1>4, <2>1, <2>2 DEF Inside
<1> QED BY <1>1, <1>3, <1>4

LEMMA SummaryIs ==
    ASSUME NEW c \in Config, NEW merge \in BOOLEAN, NEW regrouped \in BOOLEAN, NEW gs \in Seq(Seq(Episodes)),
           gs = ExportGroups(c, merge, regrouped)
    PROVE  /\ Total(TrueRows(c, gs)) <= Total(Summary(c, merge, regrouped))
           /\ (\A e \in Episodes : c[e].drop \/ Inside(c[e]))
              => Total(TrueRows(c, gs)) = Total(Summary(c, merge, regrouped))
<1> DEFINE rows == Summary(c, merge, regrouped)
           exact == TrueRows(c, gs)
<1>1. Len(gs) \in Nat /\ DOMAIN gs = 1..Len(gs) /\ \A i \in 1..Len(gs) : gs[i] \in Seq(Episodes)
  BY LenProperties, ElementOfSeq
<1>2. rows = [i \in DOMAIN gs |-> Total([j \in DOMAIN gs[i] |-> SummaryFrames(c[gs[i][j]])])]
  BY DEF Summary, ExportGroups, Groups
<1>3. ASSUME NEW i \in 1..Len(gs)
      PROVE  /\ rows[i] \in Nat /\ exact[i] \in Nat /\ exact[i] <= rows[i]
             /\ (\A e \in Episodes : c[e].drop \/ Inside(c[e])) => exact[i] = rows[i]
  <2> DEFINE g == gs[i]
             v == Lengths(c, g)
             w == [j \in DOMAIN g |-> SummaryFrames(c[g[j]])]
  <2>1. Len(g) \in Nat /\ DOMAIN g = 1..Len(g) /\ \A j \in 1..Len(g) : g[j] \in Episodes
    <3>1. g \in Seq(Episodes)
      BY <1>1
    <3> HIDE DEF g
    <3> QED BY <3>1, LenProperties, ElementOfSeq
  <2>2. rows[i] = Total(w) /\ exact[i] = Total(v)
    BY <1>1, <1>2 DEF TrueRows
  <2> HIDE DEF g
  <2>3. /\ v \in [1..Len(g) -> Nat] /\ w \in [1..Len(g) -> Nat]
        /\ \A j \in 1..Len(g) : v[j] <= w[j]
    BY <2>1, SummaryFramesBound DEF Lengths
  <2>4. (\A e \in Episodes : c[e].drop \/ Inside(c[e])) => v = w
    BY <2>1, SummaryFramesBound DEF Lengths
  <2> DEFINE n == Len(g)
  <2> HIDE DEF v, w, n
  <2>5. Total(v) \in Nat /\ Total(w) \in Nat /\ Total(v) <= Total(w)
    <3>1. n \in Nat /\ v \in [1..n -> Nat] /\ w \in [1..n -> Nat] /\ \A j \in 1..n : v[j] <= w[j]
      BY <2>1, <2>3 DEF n
    <3> QED BY ONLY <3>1, TotalGrows
  <2> QED BY <2>2, <2>4, <2>5
<1>4. rows \in [1..Len(gs) -> Nat] /\ exact \in [1..Len(gs) -> Nat]
  <2>1. DOMAIN rows = 1..Len(gs) /\ rows = [i \in 1..Len(gs) |-> rows[i]]
    BY <1>1, <1>2
  <2>2. DOMAIN exact = 1..Len(gs) /\ exact = [i \in 1..Len(gs) |-> exact[i]]
    BY <1>1 DEF TrueRows
  <2> HIDE DEF rows, exact
  <2> QED BY <1>3, <2>1, <2>2
<1> DEFINE n == Len(gs)
<1> HIDE DEF rows, exact, n
<1>5. n \in Nat /\ rows \in [1..n -> Nat] /\ exact \in [1..n -> Nat] /\ \A i \in 1..n : exact[i] <= rows[i]
  BY <1>1, <1>3, <1>4 DEF n
<1>6. Total(exact) <= Total(rows)
  BY ONLY <1>5, TotalGrows
<1>7. (\A e \in Episodes : c[e].drop \/ Inside(c[e])) => exact = rows
  BY <1>3, <1>4
<1> QED BY <1>6, <1>7 DEF rows, exact

LEMMA ConfigAgrees ==
    ASSUME NEW c \in Config, NEW merge \in BOOLEAN, NEW regrouped \in BOOLEAN
    PROVE  LET exported == ExportedFrames(Export(c, merge, regrouped)) IN
           /\ exported = Playback(c, EpisodeTable, TRUE)
           /\ Len(exported) = Total([e \in Episodes |-> KeptLength(c, e)])
           /\ Len(exported) <= Total(Summary(c, merge, regrouped))
           /\ (\A e \in Episodes : c[e].drop \/ Inside(c[e]))
              => Len(exported) = Total(Summary(c, merge, regrouped))
<1> DEFINE exported == ExportedFrames(Export(c, merge, regrouped))
<1>1. PICK gs : gs = ExportGroups(c, merge, regrouped)
  OBVIOUS
<1>2. gs \in Seq(Seq(Episodes)) /\ FlattenSeq(gs) \in {EpisodeTable, Valid(c)}
  BY <1>1, GroupsAreWhole
<1>3. exported = FlattenSeq(Image(Played(c), FlattenSeq(gs)))
  BY <1>1, <1>2, ExportPlays
<1>4. FlattenSeq(Image(Played(c), FlattenSeq(gs))) = Playback(c, EpisodeTable, TRUE)
  BY <1>2, RegroupingKeepsFrames
<1>5. /\ Len(exported) <= Total(Summary(c, merge, regrouped))
      /\ (\A e \in Episodes : c[e].drop \/ Inside(c[e]))
         => Len(exported) = Total(Summary(c, merge, regrouped))
  <2>1. Len(exported) = Total(TrueRows(c, gs))
    BY <1>2, <1>3, GroupsCounted
  <2> QED BY <1>1, <1>2, <2>1, SummaryIs
<1>6. Len(FlattenSeq(Image(Played(c), EpisodeTable))) = Total([e \in Episodes |-> KeptLength(c, e)])
  <2>1. PICK w : w = [e \in Episodes |-> KeptLength(c, e)]
    OBVIOUS
  <2>2. w = [j \in DOMAIN EpisodeTable |-> KeptLength(c, EpisodeTable[j])]
    BY <2>1, TableIs
  <2>3. EpisodeTable \in Seq(Episodes)
    BY TableIs
  <2>4. Len(FlattenSeq(Image(Played(c), EpisodeTable))) = Total(w)
    BY <2>2, <2>3, FramesCounted
  <2> QED BY <2>1, <2>4
<1>7. FlattenSeq(Image(Played(c), EpisodeTable)) = Playback(c, EpisodeTable, TRUE)
  BY RegroupingKeepsFrames
<1> QED BY <1>3, <1>4, <1>5, <1>6, <1>7

(* Whether groups are made of what is left is a switch of the page only.   *)
LEMMA RegroupIsSwitch == EditorSpec => [](regroup \in BOOLEAN)
<1>1. EditorInit => regroup \in BOOLEAN
  BY DEF EditorInit
<1>2. regroup \in BOOLEAN /\ [EditorNext]_editorVars => (regroup \in BOOLEAN)'
  <2> SUFFICES ASSUME regroup \in BOOLEAN, [EditorNext]_editorVars PROVE regroup' \in BOOLEAN
    OBVIOUS
  <2>1. ASSUME NEW c, NEW touched, Edit(c, touched) PROVE regroup' = regroup
    BY <2>1 DEF Edit
  <2>2. CASE MarkListed \/ DropGroup \/ ContactFlip \/ UsePlan \/ UseEpisodes \/ UseGroups \/ Suggest
    BY <2>1, <2>2 DEF MarkListed, DropGroup, ContactFlip, UsePlan, UseEpisodes, UseGroups, UseSample, Suggest
  <2>3. CASE ComputePlan \/ ClearPlan \/ SampleEpisodes \/ SampleGroups \/ ClearSample \/ ExportDataset
    BY <2>3 DEF ComputePlan, ClearPlan, SampleEpisodes, SampleGroups, ClearSample, ExportDataset
  <2>4. CASE LoadWhitelist \/ Choose \/ Check \/ Slide \/ ReviewAndAdvance \/ SaveTrims \/ Upload
    BY <2>4 DEF LoadWhitelist, Choose, Check, Slide, ReviewAndAdvance, SaveTrims, Upload
  <2>5. CASE ToggleRegroup
    BY <2>5 DEF ToggleRegroup
  <2>6. CASE \E d \in Datasets : OpenSource(d)
    BY <2>6 DEF OpenSource
  <2>7. CASE UNCHANGED editorVars
    BY <2>7 DEF editorVars
  <2> QED BY <2>2, <2>3, <2>4, <2>5, <2>6, <2>7 DEF EditorNext
<1> QED BY <1>1, <1>2, PTL DEF EditorSpec

(* Whatever was edited, whatever ranges a file gave, and with any size of  *)
(* groups, the exported dataset holds the frames the playback shows, in    *)
(* its order, as many as the length table counts (export_trimmed_dataset,  *)
(* playback_sequence, build_length_table); summarize_export announces      *)
(* these, or more where a file gave a range beyond an episode's frames.    *)
THEOREM ExportShowsPlayback == EditorSpec => []FramesAgree
<1>1. EditorInv /\ regroup \in BOOLEAN => FramesAgree
  BY ConfigAgrees DEF EditorInv, Edited, FramesAgree
<1> QED BY EditorInvHolds, RegroupIsSwitch, <1>1, PTL
-----------------------------------------------------------------------------
(* The conversion.  A recording has for each key a stream in order.        *)
InBagOrder == {s \in [Keys -> Seq(Nat)] : \A k \in Keys : Increasing(s[k])}

LEMMA PickedMembers ==
    ASSUME NEW S, NEW ts \in Seq(S), NEW I \in SUBSET DOMAIN ts
    PROVE  /\ Picked(ts, I) \in Seq(S)
           /\ \A n \in DOMAIN Picked(ts, I) : \E i \in I : Picked(ts, I)[n] = ts[i]
<1> DEFINE Rank(n) == CHOOSE i \in I : Cardinality({j \in I : j < i}) = n - 1
<1>1. PICK l \in Nat : l = Len(ts) /\ I \in SUBSET (1..l)
  OBVIOUS
<1>2. Cardinality(I) \in Nat
  <2>1. IsFiniteSet(1..l)
    BY <1>1, FS_Interval
  <2> QED BY <1>1, <2>1, FS_Subset, FS_CardinalityType
<1>3. \A n \in 1..Cardinality(I) : Rank(n) \in I
  BY <1>1, RankedElement
<1>4. Picked(ts, I) = [n \in 1..Cardinality(I) |-> ts[Rank(n)]]
  BY DEF Picked
<1> HIDE DEF Rank
<1>5. \A n \in 1..Cardinality(I) : ts[Rank(n)] \in S
  BY <1>1, <1>3
<1> QED BY <1>2, <1>3, <1>4, <1>5

LEMMA SampledFits ==
    ASSUME NEW n \in Nat
    PROVE  /\ \A i \in DOMAIN Sampled(n, Drop, Jump) : Sampled(n, Drop, Jump)[i] \in 1..n
           /\ \A i, j \in DOMAIN Sampled(n, Drop, Jump) :
                  i < j => Sampled(n, Drop, Jump)[i] < Sampled(n, Drop, Jump)[j]
           /\ \E m \in Nat : DOMAIN Sampled(n, Drop, Jump) = 1..m
<1> DEFINE rest == n - 2 * Drop
           m    == IF rest <= 0 THEN 0 ELSE (rest + Jump - 1) \div Jump
<1>1. Drop \in Nat /\ Jump \in Nat /\ Jump > 0 /\ rest \in Int
  BY ConversionAssumption DEF ConversionAssumption
<1>2. m \in Nat /\ (m > 0 => (m - 1) * Jump < rest)
  <2>1. CASE rest <= 0
    BY <2>1
  <2>2. CASE rest > 0
    <3>1. PICK a \in Nat : a = rest + Jump - 1
      BY <1>1, <2>2
    <3>2. PICK q \in Nat : q = a \div Jump
      BY <1>1, <3>1
    <3>3. q * Jump <= a
      BY <1>1, <3>1, <3>2
    <3>4. (q - 1) * Jump = q * Jump - Jump
      BY <1>1, <3>2
    <3> QED BY <1>1, <2>2, <3>1, <3>2, <3>3, <3>4
  <2> QED BY <1>1, <2>1, <2>2
<1>3. Sampled(n, Drop, Jump) = [i \in 1..m |-> Drop + (i - 1) * Jump + 1]
  BY DEF Sampled
<1> HIDE DEF m
<1>4. ASSUME NEW i \in 1..m PROVE Drop + (i - 1) * Jump + 1 \in 1..n
  <2>1. (i - 1) * Jump <= (m - 1) * Jump /\ (i - 1) * Jump \in Nat
    BY <1>1, <1>2
  <2>2. (m - 1) * Jump \in Int
    BY <1>1, <1>2
  <2>3. PICK x \in Nat, y \in Int : x = (i - 1) * Jump /\ y = (m - 1) * Jump /\ x <= y /\ y < rest
    BY <1>2, <2>1, <2>2
  <2> QED BY <1>1, <2>3
<1>5. ASSUME NEW i \in 1..m, NEW j \in 1..m, i < j
      PROVE  Drop + (i - 1) * Jump + 1 < Drop + (j - 1) * Jump + 1
  <2>1. PICK d \in Nat : d = j - 1 - i
    BY <1>2, <1>5
  <2>2. (j - 1) * Jump = (i - 1) * Jump + Jump + d * Jump
    BY <1>1, <1>2, <2>1
  <2>3. d * Jump \in Nat /\ (i - 1) * Jump \in Nat
    BY <1>1, <1>2, <2>1
  <2>4. PICK x \in Nat, y \in Nat : x = (i - 1) * Jump /\ y = d * Jump
    BY <2>3
  <2>5. PICK z \in Nat : z = (j - 1) * Jump
    BY <1>1, <2>2, <2>4
  <2>6. z = x + Jump + y
    BY <2>2, <2>4, <2>5
  <2>7. Drop + x + 1 < Drop + z + 1
    BY <1>1, <2>4, <2>6
  <2> QED BY ZenonT(20), <2>4, <2>5, <2>7
<1> DEFINE Place(i) == Drop + (i - 1) * Jump + 1
<1>6. /\ \A i \in 1..m : Place(i) \in 1..n
      /\ \A i, j \in 1..m : i < j => Place(i) < Place(j)
  BY ZenonT(20), <1>4, <1>5
<1>7. Sampled(n, Drop, Jump) = [i \in 1..m |-> Place(i)]
  BY <1>3
<1> HIDE DEF Place
<1>8. /\ DOMAIN Sampled(n, Drop, Jump) = 1..m
      /\ \A i \in 1..m : Sampled(n, Drop, Jump)[i] = Place(i)
  BY <1>7
<1> QED BY <1>2, <1>6, <1>8

LEMMA PrefixOfStream ==
    ASSUME NEW ts \in Seq(Nat), NEW e
    PROVE  Before(ts, e) \in 0..Len(ts)
<1>1. PICK l \in Nat : l = Len(ts) /\ {i \in DOMAIN ts : ts[i] < e} \in SUBSET (1..l)
  OBVIOUS
<1>2. IsFiniteSet(1..l) /\ Cardinality(1..l) = l
  <2>1. IsFiniteSet(1..l)
    BY <1>1, FS_Interval
  <2>2. 1 \in Int /\ l \in Int
    BY <1>1
  <2>3. Cardinality(1..l) = IF 1 > l THEN 0 ELSE l - 1 + 1
    BY <2>2, FS_Interval
  <2> QED BY <1>1, <2>1, <2>3
<1>3. PICK S \in SUBSET (1..l) : S = {i \in DOMAIN ts : ts[i] < e}
  BY <1>1
<1>4. Cardinality(S) \in Nat /\ Cardinality(S) <= l
  BY <1>2, FS_Subset, FS_CardinalityType
<1> QED BY <1>1, <1>3, <1>4 DEF Before

(* The instants of the training frames are in order.                       *)
LEMMA MainInOrder ==
    ASSUME NEW s \in InBagOrder
    PROVE  MainStamps(s) \in Seq(Nat) /\ Increasing(MainStamps(s))
<1>1. PICK main \in Seq(Nat) : main = s[MainOf(s)] /\ Increasing(main)
  BY ConversionAssumption DEF MainOf, MostMessages, InBagOrder, Keys, ConversionAssumption
<1>0. PICK l \in Nat : l = Len(main) /\ DOMAIN main = 1..l
  OBVIOUS
<1>a. PICK at : at = Sampled(l, Drop, Jump)
  OBVIOUS
<1>2. PICK m \in Nat : DOMAIN at = 1..m
  BY <1>a, SampledFits
<1>3. /\ \A i \in 1..m : at[i] \in DOMAIN main
      /\ \A i, j \in 1..m : i < j => at[i] < at[j]
  BY <1>0, <1>a, <1>2, SampledFits
<1> DEFINE kept == [i \in DOMAIN at |-> main[at[i]]]
<1>4. MainStamps(s) = SubSeq(kept, 1, Before(kept, MinEnd(s)))
  BY <1>1, <1>0, <1>a DEF MainStamps
<1>5. kept \in Seq(Nat) /\ Len(kept) = m
  BY <1>1, <1>2, <1>3
<1>6. \A i, j \in 1..m : i < j => kept[i] < kept[j]
  BY <1>1, <1>2, <1>3 DEF Increasing
<1> HIDE DEF kept
<1>7. PICK n \in 0..m : n = Before(kept, MinEnd(s))
  BY <1>5, PrefixOfStream
<1>8. /\ SubSeq(kept, 1, n) \in Seq(Nat) /\ Len(SubSeq(kept, 1, n)) = n
      /\ \A i \in 1..n : SubSeq(kept, 1, n)[i] = kept[i]
  BY <1>5, <1>7
<1> QED BY <1>4, <1>6, <1>7, <1>8 DEF Increasing

LEMMA ChunkInOrder ==
    ASSUME NEW s \in InBagOrder, NEW c \in Nat \ {0}
    PROVE  /\ ChunkStamps(s, c) \in Seq(Nat)
           /\ \A i \in DOMAIN ChunkStamps(s, c) :
                  /\ Head(ChunkStamps(s, c)) <= ChunkStamps(s, c)[i]
                  /\ ChunkStamps(s, c)[i] <= Last(ChunkStamps(s, c))
<1>1. PICK m \in Seq(Nat) : m = MainStamps(s) /\ \A i, j \in 1..Len(m) : i < j => m[i] < m[j]
  BY MainInOrder DEF Increasing
<1>2. PICK a \in Nat \ {0}, b \in Nat :
          a = (c - 1) * ChunkSize + 1 /\ b = IF c * ChunkSize < Len(m) THEN c * ChunkSize ELSE Len(m)
  <2>1. PICK d \in Nat : d = c - 1
    OBVIOUS
  <2>2. d * ChunkSize \in Nat /\ c * ChunkSize \in Nat /\ Len(m) \in Nat
    BY <2>1, ConversionAssumption DEF ConversionAssumption
  <2> QED BY <2>1, <2>2
<1>3. ChunkStamps(s, c) = SubSeq(m, a, b) /\ b <= Len(m)
  BY <1>1, <1>2, ConversionAssumption DEF ChunkStamps, ConversionAssumption
<1>4. PICK ts : ts = SubSeq(m, a, b)
  OBVIOUS
<1>5. /\ ts \in Seq(Nat) /\ Len(ts) = IF a <= b THEN b - a + 1 ELSE 0
      /\ \A i \in 1..Len(ts) : ts[i] = m[a + i - 1]
  <2>1. \A i \in a..b : m[i] \in Nat
    BY <1>3
  <2>2. /\ ts \in Seq(Nat) /\ Len(ts) = IF a <= b THEN b - a + 1 ELSE 0
        /\ \A i \in 1..b - a + 1 : ts[i] = m[a + i - 1]
    BY <1>4, <2>1, SubSeqProperties
  <2> QED BY <2>2
<1>6. ASSUME NEW i \in 1..Len(ts) PROVE ts[1] <= ts[i] /\ ts[i] <= ts[Len(ts)]
  <2>z. ts \in Seq(Nat)
    BY <1>5
  <2>a. PICK n \in Nat : n = Len(ts)
    BY <2>z
  <2>b. PICK l \in Nat : l = Len(m)
    BY <1>1
  <2>0. n = Len(ts) /\ l = Len(m) /\ i \in 1..n /\ b <= l
    BY <1>2, <1>3, <2>a, <2>b
  <2>c. a <= b /\ n = b - a + 1
    BY <1>5, <2>0
  <2>1. /\ 1 \in 1..n /\ n \in 1..n
        /\ a \in 1..l /\ a + i - 1 \in 1..l /\ a + n - 1 \in 1..l
    BY <2>0, <2>c
  <2>y. \A h \in 1..n : ts[h] = m[a + h - 1]
    BY <1>5, <2>0
  <2>2. ts[1] = m[a + 1 - 1] /\ ts[i] = m[a + i - 1] /\ ts[n] = m[a + n - 1]
    BY SMTT(20), <2>0, <2>1, <2>y
  <2>x. \A h \in 1..l : m[h] \in Nat
    BY <2>0
  <2>3. m[a] \in Nat /\ m[a + i - 1] \in Nat /\ m[a + n - 1] \in Nat
    BY SMTT(20), <2>1, <2>x
  <2>4. PICK x \in 1..l, y \in 1..l : x = a + i - 1 /\ y = a + n - 1 /\ a <= x /\ x <= y
    BY <1>2, <2>0, <2>1
  <2>5. m[a] <= m[x] /\ m[x] <= m[y]
    <3>1. m[x] \in Nat /\ m[y] \in Nat /\ m[a] \in Nat
      BY <2>3, <2>4
    <3>2. (a < x => m[a] < m[x]) /\ (x < y => m[x] < m[y])
      <4>1. \A g, h \in 1..l : g < h => m[g] < m[h]
        BY <1>1, <2>0
      <4> QED BY <2>1, <2>4, <4>1
    <3> QED BY <2>1, <2>4, <3>1, <3>2
  <2>6. a + 1 - 1 = a
    OBVIOUS
  <2> QED BY <2>0, <2>2, <2>4, <2>5, <2>6
<1>7. ts # <<>> => Head(ts) = ts[1]
  BY <1>5
<1>8. DOMAIN ts = 1..Len(ts) /\ \A i \in DOMAIN ts : Head(ts) <= ts[i] /\ ts[i] <= Last(ts)
  <2>1. DOMAIN ts = 1..Len(ts) /\ Last(ts) = ts[Len(ts)]
    BY <1>5 DEF Last
  <2>2. \A i \in 1..Len(ts) : ts # <<>>
    BY <1>5
  <2> QED BY <1>6, <1>7, <2>1, <2>2
<1> QED BY <1>3, <1>4, <1>5, <1>8

(* A message that the whole bag has closest is among those a chunk reads,  *)
(* if it is close at all, and of these it is the closest to itself.        *)
IsAligned(s, k, t, i) ==
    /\ Close(s, k, t) => \/ i = AlignWhole(s, t)[k]
                         \/ Paused(s, k, t) /\ i = Missing
    /\ s[k] = <<>> => i = Missing

LEMMA SourceIsAligned ==
    ASSUME NEW s \in InBagOrder, NEW c \in Nat \ {0}, NEW n \in DOMAIN ChunkStamps(s, c), NEW k \in Keys
    PROVE  LET t == ChunkStamps(s, c)[n] IN IsAligned(s, k, t, Source(s, k, t, Window(s, c, k)))
<1>1. PICK ts \in Seq(Nat) : ts = ChunkStamps(s, c) /\ n \in 1..Len(ts)
  BY ChunkInOrder
<1>2. PICK t \in Nat : t = ts[n]
  BY <1>1
<1>3. PICK lo, hi : lo = Head(ts) /\ hi = Last(ts)
  OBVIOUS
<1>4. lo <= t /\ t <= hi /\ lo \in Nat /\ hi \in Nat
  <2>1. DOMAIN ts = 1..Len(ts) /\ ts # <<>> /\ Head(ts) \in Nat /\ Last(ts) \in Nat
    BY <1>1 DEF Last
  <2> QED BY <1>1, <1>2, <1>3, <2>1, ChunkInOrder
<1>5. PICK sk \in Seq(Nat) : sk = s[k] /\ Increasing(sk)
  BY DEF InBagOrder
<1>6. PICK read \in SUBSET DOMAIN sk :
          /\ read = Window(s, c, k)
          /\ \A i \in DOMAIN sk : i \in read <=> lo - FrameTime <= sk[i] /\ sk[i] <= hi + FrameTime
  <2>1. Window(s, c, k) = {i \in DOMAIN sk : lo - FrameTime <= sk[i] /\ sk[i] <= hi + FrameTime}
    BY <1>1, <1>3, <1>5 DEF Window
  <2> QED BY <2>1
<1>7. sk = <<>> => read = {}
  BY <1>6
<1> SUFFICES IsAligned(s, k, t, Source(s, k, t, read))
  BY <1>1, <1>2, <1>6
<1>8. CASE Paused(s, k, t)
  <2>1. AlignWhole(s, t)[k] = Flagged
    BY <1>8 DEF AlignWhole
  <2> QED BY <1>5, <1>7, <1>8, <2>1 DEF IsAligned, Source
<1>9. CASE ~Paused(s, k, t) /\ ~Close(s, k, t)
  <2>1. sk = <<>> => Source(s, k, t, read) = Missing
    BY <1>7, <1>9 DEF Source
  <2> QED BY <1>5, <1>9, <2>1 DEF IsAligned
<1>10. CASE ~Paused(s, k, t) /\ Close(s, k, t)
  <2>1. sk # <<>> /\ Distance(sk[NearestFirst(sk, t)], t) <= FrameTime
    BY <1>5, <1>10 DEF Close
  <2>2. sk \in Seq(Int) \ {<<>>} /\ t \in Int
    <3>1. Len(sk) \in Nat /\ sk = [i \in 1..Len(sk) |-> sk[i]] /\ \A i \in 1..Len(sk) : sk[i] \in Int
      OBVIOUS
    <3> QED BY <2>1, <3>1
  <2>3. PICK j : j = NearestFirst(sk, t) /\ j = NearestSorted(sk, t)
    BY <1>5, <2>2, NearestAgreement DEF NearestAgree
  <2>4. j \in DOMAIN sk
    <3>1. PICK b \in 0..Len(sk) : b = Before(sk, t)
      BY PrefixOfStream
    <3>2. Len(sk) \in Nat /\ Len(sk) > 0 /\ DOMAIN sk = 1..Len(sk)
      BY <2>1
    <3>3. j = IF b = 0 THEN 1
              ELSE IF b < Len(sk) /\ Distance(sk[b + 1], t) < Distance(sk[b], t) THEN b + 1 ELSE b
      BY <2>3, <3>1 DEF NearestSorted
    <3> QED BY <3>2, <3>3
  <2>5. PICK x \in Nat : x = sk[j]
    BY <2>4
  <2>6. j \in read
    <3>1. Distance(x, t) <= FrameTime /\ FrameTime \in Nat
      BY <2>1, <2>3, <2>5, ConversionAssumption DEF FrameTime, ConversionAssumption
    <3>2. lo - FrameTime <= x /\ x <= hi + FrameTime
      BY <1>4, <2>5, <3>1 DEF Distance
    <3> QED BY <1>6, <2>4, <2>5, <3>2
  <2>7. \A i \in DOMAIN sk : sk[i] \in Nat /\ (i # j => sk[i] # x)
    <3>1. \A i \in DOMAIN sk : i \in Int /\ sk[i] \in Nat
      BY <1>5
    <3>2. \A i \in DOMAIN sk : (i < j => sk[i] < sk[j]) /\ (j < i => sk[j] < sk[i])
      BY <1>5, <2>4 DEF Increasing
    <3> QED BY <2>4, <2>5, <3>1, <3>2
  <2>8. \A i \in DOMAIN sk : /\ Distance(sk[i], x) \in Nat /\ Distance(x, x) = 0
                             /\ i # j => Distance(sk[i], x) > 0
    BY <2>7 DEF Distance
  <2> DEFINE Nearest(i) == \A m \in read : \/ Distance(sk[i], x) < Distance(sk[m], x)
                                           \/ Distance(sk[i], x) = Distance(sk[m], x) /\ i <= m
  <2>9. Nearest(j)
    <3> SUFFICES ASSUME NEW m \in read
                 PROVE  \/ Distance(sk[j], x) < Distance(sk[m], x)
                        \/ Distance(sk[j], x) = Distance(sk[m], x) /\ j <= m
      OBVIOUS
    <3>1. Distance(sk[j], x) = 0 /\ m \in DOMAIN sk /\ j \in Int
      <4>1. sk[j] = x /\ Distance(x, x) = 0
        BY <2>4, <2>5, <2>8
      <4> QED BY <1>6, <2>4, <4>1
    <3>2. m = j => Distance(sk[m], x) = 0 /\ j <= m
      BY <3>1
    <3>3. m # j => 0 < Distance(sk[m], x)
      BY <2>8, <3>1
    <3> QED BY <3>1, <3>2, <3>3
  <2>10. \A i \in read : Nearest(i) => i = j
    <3> SUFFICES ASSUME NEW i \in read, Nearest(i), i # j PROVE FALSE
      OBVIOUS
    <3>1. Distance(sk[i], x) < Distance(sk[j], x) \/ Distance(sk[i], x) = Distance(sk[j], x)
      BY <2>6
    <3>2. Distance(sk[j], x) = 0 /\ Distance(sk[i], x) \in Nat /\ Distance(sk[i], x) > 0
      BY <2>4, <2>5, <2>8
    <3> QED BY <3>1, <3>2
  <2>11. Source(s, k, t, read) = CHOOSE i \in read : Nearest(i)
    <3>1. sk[AlignedIndex(sk, t)] = x /\ read # {}
      BY <2>3, <2>5, <2>6 DEF AlignedIndex
    <3> QED BY <1>5, <1>10, <3>1 DEF Source
  <2> HIDE DEF Nearest
  <2>12. (CHOOSE i \in read : Nearest(i)) = j
    BY <2>6, <2>9, <2>10
  <2>13. AlignWhole(s, t)[k] = j
    BY <1>5, <1>10, <2>1, <2>3 DEF AlignWhole
  <2> QED BY <1>5, <2>1, <2>11, <2>12, <2>13 DEF IsAligned
<1> QED BY <1>8, <1>9, <1>10

(* What the chunks of a bag may add to the dataset.                        *)
TakenIn(s, b, c) == {Frame(s, b, c, t) : t \in ToSet(ChunkStamps(s, c))}
TakenFrom(s, b)  == UNION {TakenIn(s, b, c) : c \in Nat \ {0}}
AlignsAsWhole(s, f) == \A k \in Keys : IsAligned(s, k, f.t, f.src[k])

Recordings == Seq(InBagOrder)

LEMMA RecordedInit == ConversionInit => stamps \in Recordings
<1> SUFFICES ASSUME ConversionInit PROVE stamps \in Seq(InBagOrder)
  BY DEF Recordings
<1>1. stamps \in RawDirs
  BY DEF ConversionInit
<1>2. stamps \in Seq([Keys -> Seq(Nat)]) /\ \A b \in DOMAIN stamps, k \in Keys : Increasing(stamps[b][k])
  BY <1>1, ConversionAssumption DEF ConversionAssumption
<1>3. Len(stamps) \in Nat /\ DOMAIN stamps = 1..Len(stamps) /\ stamps = [b \in 1..Len(stamps) |-> stamps[b]]
  BY <1>2
<1>4. \A b \in 1..Len(stamps) : stamps[b] \in InBagOrder
  BY <1>2, <1>3 DEF InBagOrder
<1> QED BY <1>3, <1>4

LEMMA TakenAligned ==
    ASSUME NEW s \in InBagOrder, NEW b, NEW f \in TakenFrom(s, b)
    PROVE  f.bag = b /\ AlignsAsWhole(s, f)
<1>1. PICK c \in Nat \ {0} : f \in TakenIn(s, b, c)
  BY DEF TakenFrom
<1>2. PICK t \in ToSet(ChunkStamps(s, c)) : f = Frame(s, b, c, t)
  BY <1>1 DEF TakenIn
<1>3. PICK n \in DOMAIN ChunkStamps(s, c) : t = ChunkStamps(s, c)[n]
  BY DEF ToSet
<1>4. f.bag = b /\ f.t = t /\ f.src = [k \in Keys |-> Source(s, k, t, Window(s, c, k))]
  BY <1>2 DEF Frame, AlignSingle
<1>5. \A k \in Keys : IsAligned(s, k, t, Source(s, k, t, Window(s, c, k)))
  BY <1>3, SourceIsAligned
<1> QED BY <1>4, <1>5 DEF AlignsAsWhole

LEMMA ChunkFramesType ==
    ASSUME NEW s \in InBagOrder, NEW b, NEW c \in Nat \ {0}
    PROVE  ChunkFrames(s, b, c) \in Seq(TakenFrom(s, b))
<1>1. PICK ts \in Seq(Nat) : ts = ChunkStamps(s, c)
  BY ChunkInOrder
<1> DEFINE fs == [i \in DOMAIN ts |-> Frame(s, b, c, ts[i])]
           I  == {i \in DOMAIN ts : Added(fs[i].src)}
<1>2. \A i \in DOMAIN ts : fs[i] \in TakenFrom(s, b)
  BY <1>1 DEF TakenFrom, TakenIn, ToSet
<1>3. fs \in Seq(TakenFrom(s, b)) /\ I \in SUBSET DOMAIN fs
  BY <1>1, <1>2
<1>4. ChunkFrames(s, b, c) = Picked(fs, I)
  BY <1>1 DEF ChunkFrames
<1> HIDE DEF fs, I
<1> QED BY <1>3, <1>4, PickedMembers

LEMMA ChunkCountType == ASSUME NEW s \in InBagOrder PROVE ChunkCount(s) \in Nat
<1>1. PICK m \in Seq(Nat) : m = MainStamps(s)
  BY MainInOrder
<1>2. Len(m) \in Nat /\ ChunkSize \in Nat \ {0}
  BY ConversionAssumption DEF ConversionAssumption
<1>3. (Len(m) + ChunkSize - 1) \div ChunkSize \in Nat
  BY <1>2
<1> QED BY <1>1, <1>3 DEF ChunkCount

(* The frames of a bag, chunk by chunk.                                    *)
LEMMA FramesByStep ==
    ASSUME NEW s \in InBagOrder, NEW b
    PROVE  /\ FramesBy(s, b)[0] = <<>>
           /\ \A c \in 1..ChunkCount(s) : FramesBy(s, b)[c] = FramesBy(s, b)[c - 1] \o ChunkFrames(s, b, c)
<1>1. PICK n \in Nat : n = ChunkCount(s)
  BY ChunkCountType
<1> DEFINE Joins(f, m) == f = [c \in 0..m |-> IF c = 0 THEN <<>> ELSE f[c - 1] \o ChunkFrames(s, b, c)]
           Without     == {m \in Nat : ~ \E f : Joins(f, m)}
<1>2. Without = {}
  <2> SUFFICES ASSUME Without # {} PROVE FALSE
    OBVIOUS
  <2>1. PICK m \in Without : \A j \in Without : m <= j
    BY LeastNatural
  <2>2. m # 0
    <3>1. Joins([c \in 0..0 |-> <<>>], 0)
      OBVIOUS
    <3> QED BY <3>1
  <2>a. m \in Nat
    BY <2>1
  <2>b. PICK k \in Nat : m = k + 1
    BY <2>2, <2>a
  <2>3. m = k + 1 /\ k \notin Without /\ k \in 0..m /\ m \in Nat
    <3>1. k \notin Without
      <4>1. ~(m <= k)
        BY <2>b
      <4> QED BY <2>1, <4>1
    <3>2. k \in 0..m
      BY <2>b
    <3> HIDE DEF Without
    <3> QED BY <2>a, <2>b, <3>1, <3>2
  <2>4. PICK f : Joins(f, k)
    BY <2>3
  <2> DEFINE g == [c \in 0..m |-> IF c = m THEN f[k] \o ChunkFrames(s, b, m) ELSE f[c]]
  <2>5. ASSUME NEW c \in 0..m PROVE g[c] = IF c = 0 THEN <<>> ELSE g[c - 1] \o ChunkFrames(s, b, c)
    <3>1. CASE c = m
      <4>1. c # 0 /\ c - 1 = k /\ k # m /\ k \in 0..m
        BY <2>b, <2>3, <3>1
      <4>2. g[c] = f[k] \o ChunkFrames(s, b, m) /\ g[k] = f[k]
        BY <3>1, <4>1
      <4> QED BY <3>1, <4>1, <4>2
    <3>2. CASE c # m
      <4>1. c \in 0..k /\ (c # 0 => c - 1 \in 0..k)
        BY <2>3, <3>2
      <4>2. g[c] = f[c] /\ (c # 0 => g[c - 1] = f[c - 1])
        BY <2>3, <4>1
      <4>3. f[c] = IF c = 0 THEN <<>> ELSE f[c - 1] \o ChunkFrames(s, b, c)
        BY <2>4, <4>1
      <4> QED BY <4>2, <4>3
    <3> QED BY <3>1, <3>2
  <2>6. g = [c \in 0..m |-> g[c]]
    OBVIOUS
  <2> HIDE DEF g
  <2>7. Joins(g, m)
    BY <2>5, <2>6
  <2> QED BY <2>1, <2>7
<1>3. \E f : Joins(f, n)
  <2>1. n \notin Without
    BY <1>2
  <2> HIDE DEF Joins
  <2> QED BY <2>1
<1>4. FramesBy(s, b) = CHOOSE f : Joins(f, n)
  BY <1>1 DEF FramesBy
<1> HIDE DEF Joins
<1>5. Joins(FramesBy(s, b), n)
  BY <1>3, <1>4
<1> DEFINE f == FramesBy(s, b)
<1>6. f = [c \in 0..n |-> IF c = 0 THEN <<>> ELSE f[c - 1] \o ChunkFrames(s, b, c)]
  BY <1>5 DEF Joins
<1> HIDE DEF f
<1>7. f[0] = <<>>
  BY <1>6
<1>8. ASSUME NEW c \in 1..n PROVE f[c] = f[c - 1] \o ChunkFrames(s, b, c)
  <2>1. c \in 0..n /\ c # 0
    OBVIOUS
  <2> QED BY <1>6, <2>1
<1> QED BY <1>1, <1>7, <1>8 DEF f

LEMMA FramesByType ==
    ASSUME NEW s \in InBagOrder, NEW b, NEW c \in 0..ChunkCount(s)
    PROVE  FramesBy(s, b)[c] \in Seq(TakenFrom(s, b))
<1>1. PICK n \in Nat : n = ChunkCount(s)
  BY ChunkCountType
<1> DEFINE Bad == {m \in 0..n : FramesBy(s, b)[m] \notin Seq(TakenFrom(s, b))}
<1>2. Bad = {}
  <2> SUFFICES ASSUME Bad # {} PROVE FALSE
    OBVIOUS
  <2>0. Bad \in SUBSET Nat
    BY <1>1
  <2> HIDE DEF Bad
  <2>1. PICK m \in Bad : \A j \in Bad : m <= j
    BY <2>0, LeastNatural
  <2> USE DEF Bad
  <2>2. m # 0
    <3>1. FramesBy(s, b)[0] = <<>>
      BY FramesByStep
    <3>2. <<>> \in Seq(TakenFrom(s, b))
      OBVIOUS
    <3> QED BY <2>1, <3>1, <3>2
  <2>z. m \in 1..n
    BY <1>1, <2>1, <2>2
  <2>3. m - 1 \in 0..n /\ m - 1 \notin Bad
    <3>1. m - 1 \in 0..n /\ ~(m <= m - 1)
      BY <1>1, <2>z
    <3> QED BY <2>1, <3>1
  <2>4. FramesBy(s, b)[m - 1] \in Seq(TakenFrom(s, b)) /\ ChunkFrames(s, b, m) \in Seq(TakenFrom(s, b))
    BY <1>1, <2>2, <2>3, ChunkFramesType
  <2>5. FramesBy(s, b)[m] = FramesBy(s, b)[m - 1] \o ChunkFrames(s, b, m)
    BY <1>1, <2>z, FramesByStep
  <2> HIDE DEF Bad
  <2>6. FramesBy(s, b)[m] \in Seq(TakenFrom(s, b))
    <3> DEFINE u == FramesBy(s, b)[m - 1]
               v == ChunkFrames(s, b, m)
    <3> HIDE DEF u, v
    <3>1. u \o v \in Seq(TakenFrom(s, b))
      <4>1. u \in Seq(TakenFrom(s, b)) /\ v \in Seq(TakenFrom(s, b))
        BY <2>4 DEF u, v
      <4> QED BY <4>1
    <3> QED BY <2>5, <3>1 DEF u, v
  <2> QED BY <2>1, <2>6 DEF Bad
<1> QED BY <1>1, <1>2

LEMMA SuffixOfJoined ==
    ASSUME NEW S, NEW p \in Seq(S), NEW s \in Seq(S)
    PROVE  IsSuffix(s, p \o s)
<1>0. p \o s \in Seq(S)
  OBVIOUS
<1>1. PICK t \in Seq(S) : t = p \o s
  BY <1>0
<1>a. Len(s) \in Nat /\ Len(p) \in Nat
  OBVIOUS
<1>2. PICK l \in Nat, n \in Nat : l = Len(s) /\ n = Len(p)
  BY <1>a
<1>3. Len(t) = n + l /\ \A i \in 1..l : t[n + i] = s[i]
  BY <1>1, <1>2
<1>4. PICK a, z : a = Reverse(s) /\ z = Reverse(t)
  OBVIOUS
<1>5. /\ a \in Seq(S) /\ z \in Seq(S) /\ Len(a) = l /\ Len(z) = n + l
      /\ \A i \in 1..l : a[i] = s[l - i + 1] /\ z[i] = t[n + l - i + 1]
  <2>1. a = [i \in 1..l |-> s[l - i + 1]] /\ z = [i \in 1..n + l |-> t[n + l - i + 1]]
    BY <1>2, <1>3, <1>4 DEF Reverse
  <2>2. \A i \in 1..l : s[l - i + 1] \in S
    BY <1>2
  <2>3. \A i \in 1..n + l : t[n + l - i + 1] \in S
    BY <1>2, <1>3
  <2>4. \A i \in 1..l : i \in 1..n + l
    BY <1>2
  <2> QED BY <1>2, <2>1, <2>2, <2>3, <2>4
<1>6. \A i \in 1..l : a[i] = z[i]
  <2> TAKE i \in 1..l
  <2>1. l \in Nat /\ n \in Nat
    BY <1>2
  <2>2. PICK j \in Int : j = l - i + 1
    BY <2>1
  <2>3. j \in 1..l /\ n + l - i + 1 = n + j
    BY <2>1, <2>2
  <2> QED BY <1>3, <1>5, <2>2, <2>3
<1>7. SubSeq(a, 1, l) = SubSeq(z, 1, l)
  <2>1. /\ SubSeq(a, 1, l) \in Seq(S) /\ Len(SubSeq(a, 1, l)) = l
        /\ \A i \in 1..l : SubSeq(a, 1, l)[i] = a[i]
    BY <1>2, <1>5
  <2>2. /\ SubSeq(z, 1, l) \in Seq(S) /\ Len(SubSeq(z, 1, l)) = l
        /\ \A i \in 1..l : SubSeq(z, 1, l)[i] = z[i]
    BY <1>2, <1>5
  <2> QED BY <1>6, <2>1, <2>2
<1> QED BY <1>1, <1>2, <1>4, <1>5, <1>7 DEF IsSuffix, IsPrefix

(***************************************************************************)
(* What a run has collected of the recordings d when it reads bag q of the *)
(* order o: the bags x have failed, the buffer u holds the frames of the   *)
(* first chunks of the bag after frames of failed bags, and e holds an     *)
(* episode of every bag before that has not failed.                        *)
(***************************************************************************)
Of(d, X)   == UNION {TakenFrom(d[b], b) : b \in X}
Whole(d, f, b, x) == f # <<>> /\ \E p \in Seq(Of(d, x)) : f = p \o AllFrames(d[b], b)
ChunksIn(c) == IF c = 0 THEN 0 ELSE c - 1
Begun(d, o, q, c, u, x) ==
    q <= Len(o) => /\ c <= ChunkCount(d[o[q]]) + 1
                   /\ \E p \in Seq(Of(d, x)) : u = p \o FramesBy(d[o[q]], o[q])[ChunksIn(c)]
OnlyWhole(d, o, q, e, x) ==
    \A i \in DOMAIN e : \E n \in 1..(q - 1) : o[n] \notin x /\ Whole(d, e[i], o[n], x)
AllWhole(d, o, q, e, x) ==
    \A n \in 1..(q - 1) : o[n] \in x \/ \E i \in DOMAIN e : Whole(d, e[i], o[n], x)
Places(d, o, q, c, x) ==
    /\ o \in Seq(DOMAIN d) /\ \A i, j \in DOMAIN o : o[i] = o[j] => i = j
    /\ q \in Nat \ {0} /\ q <= Len(o) + 1 /\ c \in Nat
    /\ x \subseteq DOMAIN d /\ \A b \in x : \E n \in 1..(q - 1) : b = o[n]
Collected(d, o, q, c, u, e, x) ==
    /\ Places(d, o, q, c, x)
    /\ u \in Seq(Of(d, DOMAIN d)) /\ e \in Seq(Seq(Of(d, DOMAIN d)))
    /\ Begun(d, o, q, c, u, x) /\ OnlyWhole(d, o, q, e, x) /\ AllWhole(d, o, q, e, x)

LEMMA SeqOfMore == ASSUME NEW A, NEW B, A \subseteq B, NEW s \in Seq(A) PROVE s \in Seq(B)
<1>1. Len(s) \in Nat /\ s = [i \in 1..Len(s) |-> s[i]] /\ \A i \in 1..Len(s) : s[i] \in A
  OBVIOUS
<1>2. \A i \in 1..Len(s) : s[i] \in B
  BY <1>1
<1> QED BY <1>1, <1>2

LEMMA OfMore == ASSUME NEW d, NEW X, NEW Y, X \subseteq Y, NEW s \in Seq(Of(d, X)) PROVE s \in Seq(Of(d, Y))
<1>1. Of(d, X) \subseteq Of(d, Y)
  BY DEF Of
<1> HIDE DEF Of
<1> QED BY <1>1, SeqOfMore

LEMMA OfOne == ASSUME NEW d, NEW b, NEW s \in Seq(TakenFrom(d[b], b)), NEW X, b \in X PROVE s \in Seq(Of(d, X))
<1>1. TakenFrom(d[b], b) \subseteq Of(d, X)
  BY DEF Of
<1> QED BY <1>1, SeqOfMore

LEMMA WholeStays ==
    ASSUME NEW d, NEW f, NEW b, NEW x, NEW y, x \subseteq y, Whole(d, f, b, x)
    PROVE  Whole(d, f, b, y)
<1>1. PICK p \in Seq(Of(d, x)) : f = p \o AllFrames(d[b], b)
  BY DEF Whole
<1>2. p \in Seq(Of(d, y))
  BY OfMore
<1> QED BY <1>1, <1>2 DEF Whole

LEMMA Joined == ASSUME NEW S, NEW s \in Seq(S), NEW t \in Seq(S) PROVE s \o t \in Seq(S)
OBVIOUS

(* Nothing of the next bag is in the buffer yet.                           *)
LEMMA NextBegins ==
    ASSUME NEW d \in Recordings, NEW o \in Seq(DOMAIN d), NEW q \in Nat \ {0}, NEW x, NEW u \in Seq(Of(d, x))
    PROVE  Begun(d, o, q, 0, u, x)
<1> SUFFICES ASSUME q <= Len(o)
             PROVE  0 <= ChunkCount(d[o[q]]) + 1 /\ u = u \o FramesBy(d[o[q]], o[q])[0]
  BY DEF Begun, ChunksIn
<1>1. PICK b \in DOMAIN d : b = o[q] /\ d[b] \in InBagOrder
  BY DEF Recordings
<1>2. ChunkCount(d[b]) \in Nat /\ FramesBy(d[b], b)[0] = <<>>
  BY <1>1, ChunkCountType, FramesByStep
<1>3. u = u \o <<>>
  OBVIOUS
<1> QED BY <1>1, <1>2, <1>3

LEMMA StartCollects ==
    ASSUME NEW d \in Recordings, NEW o \in Seq(DOMAIN d), \A i, j \in DOMAIN o : o[i] = o[j] => i = j
    PROVE  Collected(d, o, 1, 0, <<>>, <<>>, {})
<1>1. Places(d, o, 1, 0, {})
  BY DEF Places
<1>2. <<>> \in Seq(Of(d, {})) /\ <<>> \in Seq(Of(d, DOMAIN d)) /\ <<>> \in Seq(Seq(Of(d, DOMAIN d)))
  OBVIOUS
<1>3. Begun(d, o, 1, 0, <<>>, {})
  <2>1. 1 \in Nat \ {0}
    OBVIOUS
  <2> QED BY <1>2, <2>1, NextBegins
<1>4. OnlyWhole(d, o, 1, <<>>, {}) /\ AllWhole(d, o, 1, <<>>, {})
  BY DEF OnlyWhole, AllWhole
<1> QED BY <1>1, <1>2, <1>3, <1>4 DEF Collected

LEMMA ScanCollects ==
    ASSUME NEW d \in Recordings, NEW o, NEW q, NEW u, NEW e, NEW x, Collected(d, o, q, 0, u, e, x), q <= Len(o)
    PROVE  Collected(d, o, q, 1, u, e, x)
<1>1. Places(d, o, q, 1, x)
  BY DEF Collected, Places
<1>a. d[o[q]] \in InBagOrder
  BY DEF Collected, Places, Recordings
<1>2. ChunkCount(d[o[q]]) \in Nat
  BY <1>a, ChunkCountType
<1>3. ChunksIn(1) = ChunksIn(0) /\ 1 <= ChunkCount(d[o[q]]) + 1
  BY <1>2 DEF ChunksIn
<1>4. Begun(d, o, q, 1, u, x)
  BY <1>3 DEF Collected, Begun
<1> QED BY <1>1, <1>4 DEF Collected

LEMMA ChunkCollects ==
    ASSUME NEW d \in Recordings, NEW o, NEW q, NEW c, NEW u, NEW e, NEW x,
           Collected(d, o, q, c, u, e, x), q <= Len(o), c \in 1..ChunkCount(d[o[q]])
    PROVE  Collected(d, o, q, c + 1, u \o ChunkFrames(d[o[q]], o[q], c), e, x)
<1>1. PICK b \in DOMAIN d : b = o[q] /\ d[b] \in InBagOrder
  BY DEF Collected, Places, Recordings
<1>2. PICK n \in Nat : n = ChunkCount(d[b]) /\ c \in 1..n
  BY <1>1, ChunkCountType
<1>3. PICK v \in Seq(TakenFrom(d[b], b)) : v = ChunkFrames(d[b], b, c)
  BY <1>1, <1>2, ChunkFramesType
<1>4. Places(d, o, q, c + 1, x)
  BY DEF Collected, Places
<1>5. u \o v \in Seq(Of(d, DOMAIN d))
  <2>1. u \in Seq(Of(d, DOMAIN d)) /\ v \in Seq(Of(d, DOMAIN d))
    BY <1>3, OfOne DEF Collected
  <2> QED BY <2>1, Joined
<1>6. Begun(d, o, q, c + 1, u \o v, x)
  <2>1. PICK p \in Seq(Of(d, x)) : u = p \o FramesBy(d[b], b)[c - 1]
    <3>1. ChunksIn(c) = c - 1
      BY <1>2 DEF ChunksIn
    <3>2. Begun(d, o, q, c, u, x)
      BY DEF Collected
    <3>3. \E p \in Seq(Of(d, x)) : u = p \o FramesBy(d[b], b)[ChunksIn(c)]
      BY <1>1, <3>2 DEF Begun
    <3> QED BY <3>1, <3>3
  <2>2. PICK w \in Seq(TakenFrom(d[b], b)) : w = FramesBy(d[b], b)[c - 1] /\ FramesBy(d[b], b)[c] = w \o v
    <3>1. c - 1 \in 0..n
      BY <1>2
    <3>2. FramesBy(d[b], b)[c] = FramesBy(d[b], b)[c - 1] \o v
      BY <1>1, <1>2, <1>3, FramesByStep
    <3> QED BY <1>1, <1>2, <3>1, <3>2, FramesByType
  <2>3. u \o v = p \o FramesBy(d[b], b)[c]
    <3> DEFINE S == Of(d, x) \cup TakenFrom(d[b], b)
    <3>1. p \in Seq(S) /\ w \in Seq(S) /\ v \in Seq(S)
      BY SeqOfMore
    <3> HIDE DEF S
    <3>2. (p \o w) \o v = p \o (w \o v)
      BY <3>1
    <3> QED BY <2>1, <2>2, <3>2
  <2>4. ChunksIn(c + 1) = c /\ c + 1 <= n + 1
    BY <1>2 DEF ChunksIn
  <2> QED BY <1>1, <1>2, <2>3, <2>4 DEF Begun
<1> QED BY <1>1, <1>3, <1>4, <1>5, <1>6 DEF Collected

LEMMA SaveCollects ==
    ASSUME NEW d \in Recordings, NEW o, NEW q, NEW c, NEW u, NEW e, NEW x,
           Collected(d, o, q, c, u, e, x), q <= Len(o), c > ChunkCount(d[o[q]]), c > 0, u # <<>>
    PROVE  Collected(d, o, q + 1, 0, <<>>, Append(e, u), x)
<1>1. PICK b \in DOMAIN d : b = o[q] /\ d[b] \in InBagOrder
  BY DEF Collected, Places, Recordings
<1>2. PICK n \in Nat : n = ChunkCount(d[b])
  BY <1>1, ChunkCountType
<1>3. /\ o \in Seq(DOMAIN d) /\ q \in Nat \ {0} /\ q <= Len(o) /\ Len(o) \in Nat
      /\ e \in Seq(Seq(Of(d, DOMAIN d))) /\ u \in Seq(Of(d, DOMAIN d))
  BY DEF Collected, Places
<1>4. Places(d, o, q + 1, 0, x)
  <2>1. \A y \in x : \E m \in 1..(q + 1 - 1) : y = o[m]
    <3> TAKE y \in x
    <3>1. PICK m \in 1..(q - 1) : y = o[m]
      BY DEF Collected, Places
    <3> QED BY <1>3, <3>1
  <2> QED BY <1>3, <2>1 DEF Collected, Places
<1>5. <<>> \in Seq(Of(d, x)) /\ <<>> \in Seq(Of(d, DOMAIN d)) /\ Append(e, u) \in Seq(Seq(Of(d, DOMAIN d)))
  BY <1>3
<1>6. Begun(d, o, q + 1, 0, <<>>, x)
  <2>1. q + 1 \in Nat \ {0}
    BY <1>3
  <2> QED BY <1>3, <1>5, <2>1, NextBegins
<1>7. Whole(d, u, b, x) /\ b \notin x
  <2>1. PICK p \in Seq(Of(d, x)) : u = p \o FramesBy(d[b], b)[ChunksIn(c)] /\ c <= n + 1
    BY <1>1, <1>2 DEF Collected, Begun
  <2>2. ChunksIn(c) = n
    <3>1. c \in Nat /\ c > n
      BY <1>1, <1>2 DEF Collected, Places
    <3> QED BY <1>2, <2>1, <3>1 DEF ChunksIn
  <2>3. b \notin x
    <3> SUFFICES ASSUME b \in x PROVE FALSE
      OBVIOUS
    <3>1. PICK m \in 1..(q - 1) : b = o[m]
      BY DEF Collected, Places
    <3>2. m \in DOMAIN o /\ q \in DOMAIN o /\ m # q
      BY <1>3, <3>1
    <3> QED BY <1>1, <3>1, <3>2 DEF Collected, Places
  <2> QED BY <1>2, <2>1, <2>2, <2>3 DEF Whole, AllFrames
<1>8. PICK l \in Nat : l = Len(e) /\ DOMAIN e = 1..l
  BY <1>3
<1>9. PICK g : g = Append(e, u)
  OBVIOUS
<1>10. DOMAIN g = 1..(l + 1) /\ g[l + 1] = u /\ \A i \in 1..l : g[i] = e[i]
  BY <1>3, <1>8, <1>9
<1>11. OnlyWhole(d, o, q + 1, g, x)
  <2> SUFFICES ASSUME NEW i \in 1..(l + 1)
               PROVE  \E m \in 1..(q + 1 - 1) : o[m] \notin x /\ Whole(d, g[i], o[m], x)
    BY <1>3, <1>10 DEF OnlyWhole
  <2>1. CASE i = l + 1
    <3>1. q \in 1..(q + 1 - 1)
      BY <1>3
    <3> QED BY <1>1, <1>7, <1>10, <2>1, <3>1
  <2>2. CASE i # l + 1
    <3>1. i \in 1..l
      BY <1>8, <2>2
    <3>2. PICK m \in 1..(q - 1) : o[m] \notin x /\ Whole(d, e[i], o[m], x)
      BY <1>8, <3>1 DEF Collected, OnlyWhole
    <3>3. m \in 1..(q + 1 - 1)
      BY <1>3
    <3> QED BY <1>10, <3>1, <3>2, <3>3
  <2> QED BY <2>1, <2>2
<1>12. AllWhole(d, o, q + 1, g, x)
  <2> SUFFICES ASSUME NEW m \in 1..(q + 1 - 1)
               PROVE  o[m] \in x \/ \E i \in DOMAIN g : Whole(d, g[i], o[m], x)
    BY <1>3 DEF AllWhole
  <2>1. CASE m = q
    <3>1. l + 1 \in DOMAIN g
      BY <1>8, <1>10
    <3> QED BY <1>1, <1>7, <1>10, <2>1, <3>1
  <2>2. CASE m # q
    <3>1. m \in 1..(q - 1)
      BY <1>3, <2>2
    <3>2. o[m] \in x \/ \E i \in 1..l : Whole(d, e[i], o[m], x)
      BY <1>8, <3>1 DEF Collected, AllWhole
    <3>3. \A i \in 1..l : i \in DOMAIN g
      BY <1>8, <1>10
    <3> QED BY <1>10, <3>2, <3>3
  <2> QED BY <2>1, <2>2
<1> QED BY <1>4, <1>5, <1>6, <1>9, <1>11, <1>12 DEF Collected

LEMMA FailCollects ==
    ASSUME NEW d \in Recordings, NEW o, NEW q, NEW c, NEW u, NEW e, NEW x,
           Collected(d, o, q, c, u, e, x), q <= Len(o), NEW v \in Seq(TakenFrom(d[o[q]], o[q]))
    PROVE  Collected(d, o, q + 1, 0, u \o v, e, x \cup {o[q]})
<1>1. PICK b \in DOMAIN d : b = o[q] /\ d[b] \in InBagOrder
  BY DEF Collected, Places, Recordings
<1>2. PICK n \in Nat : n = ChunkCount(d[b])
  BY <1>1, ChunkCountType
<1>3. /\ o \in Seq(DOMAIN d) /\ q \in Nat \ {0} /\ q <= Len(o) /\ Len(o) \in Nat
      /\ e \in Seq(Seq(Of(d, DOMAIN d))) /\ x \subseteq DOMAIN d
  BY DEF Collected, Places
<1>4. PICK y : y = x \cup {b}
  OBVIOUS
<1>5. x \subseteq y /\ b \in y /\ y \subseteq DOMAIN d
  BY <1>3, <1>4
<1>6. u \o v \in Seq(Of(d, y)) /\ u \o v \in Seq(Of(d, DOMAIN d))
  <2>1. PICK p \in Seq(Of(d, x)) : u = p \o FramesBy(d[b], b)[ChunksIn(c)] /\ c <= n + 1
    BY <1>1, <1>2 DEF Collected, Begun
  <2>2. ChunksIn(c) \in 0..n
    <3>1. c \in Nat
      BY DEF Collected, Places
    <3> QED BY <1>2, <2>1, <3>1 DEF ChunksIn
  <2>3. PICK w \in Seq(TakenFrom(d[b], b)) : w = FramesBy(d[b], b)[ChunksIn(c)]
    BY <1>1, <1>2, <2>2, FramesByType
  <2>4. p \in Seq(Of(d, y)) /\ w \in Seq(Of(d, y)) /\ v \in Seq(Of(d, y))
    BY <1>1, <1>5, OfMore, OfOne
  <2>5. u \o v \in Seq(Of(d, y))
    <3>1. p \o w \in Seq(Of(d, y))
      BY <2>4, Joined
    <3> QED BY <2>1, <2>3, <2>4, <3>1, Joined
  <2> QED BY <1>5, <2>5, OfMore
<1>7. Places(d, o, q + 1, 0, y)
  <2>1. \A z \in y : \E m \in 1..(q + 1 - 1) : z = o[m]
    <3> TAKE z \in y
    <3>1. CASE z = b
      BY <1>1, <1>3, <3>1
    <3>2. CASE z \in x
      <4>1. PICK m \in 1..(q - 1) : z = o[m]
        BY <3>2 DEF Collected, Places
      <4> QED BY <1>3, <4>1
    <3> QED BY <1>4, <3>1, <3>2
  <2> QED BY <1>3, <1>5, <2>1 DEF Collected, Places
<1>8. Begun(d, o, q + 1, 0, u \o v, y)
  <2>1. q + 1 \in Nat \ {0}
    BY <1>3
  <2> QED BY <1>3, <1>6, <2>1, NextBegins
<1>9. OnlyWhole(d, o, q + 1, e, y)
  <2> SUFFICES ASSUME NEW i \in DOMAIN e
               PROVE  \E m \in 1..(q + 1 - 1) : o[m] \notin y /\ Whole(d, e[i], o[m], y)
    BY <1>3 DEF OnlyWhole
  <2>1. PICK m \in 1..(q - 1) : o[m] \notin x /\ Whole(d, e[i], o[m], x)
    BY DEF Collected, OnlyWhole
  <2>2. m \in DOMAIN o /\ q \in DOMAIN o /\ m # q /\ m \in 1..(q + 1 - 1)
    BY <1>3
  <2>3. o[m] # o[q]
    BY <2>2 DEF Collected, Places
  <2>4. Whole(d, e[i], o[m], y)
    BY <1>5, <2>1, WholeStays
  <2> QED BY <1>1, <1>4, <2>1, <2>2, <2>3, <2>4
<1>10. AllWhole(d, o, q + 1, e, y)
  <2> SUFFICES ASSUME NEW m \in 1..(q + 1 - 1), o[m] \notin y
               PROVE  \E i \in DOMAIN e : Whole(d, e[i], o[m], y)
    BY <1>3 DEF AllWhole
  <2>1. m \in 1..(q - 1)
    <3>1. m # q
      BY <1>1, <1>5
    <3> QED BY <1>3, <3>1
  <2>2. PICK i \in DOMAIN e : Whole(d, e[i], o[m], x)
    BY <1>5, <2>1 DEF Collected, AllWhole
  <2> QED BY <1>5, <2>2, WholeStays
<1> QED BY <1>1, <1>3, <1>4, <1>6, <1>7, <1>8, <1>9, <1>10 DEF Collected

ConversionInv ==
    /\ stamps \in Recordings /\ Collected(stamps, order, pos, chunk, buffer, episodes, failed)
    /\ status = "done" => pos > Len(order) /\ failed \subseteq errorFile

LEMMA ConversionStarts == ConversionInit => ConversionInv
<1> SUFFICES ASSUME ConversionInit PROVE ConversionInv
  OBVIOUS
<1>1. stamps \in Recordings
  BY RecordedInit
<1>2. order = <<>> /\ pos = 1 /\ chunk = 0 /\ buffer = <<>> /\ episodes = <<>> /\ failed = {} /\ status = "idle"
  BY DEF ConversionInit
<1>3. <<>> \in Seq(DOMAIN stamps) /\ \A i, j \in DOMAIN <<>> : <<>>[i] = <<>>[j] => i = j
  OBVIOUS
<1>4. Collected(stamps, <<>>, 1, 0, <<>>, <<>>, {})
  BY <1>1, <1>3, StartCollects
<1> QED BY <1>1, <1>2, <1>4 DEF ConversionInv

LEMMA StartKeeps == ASSUME ConversionInv, Start PROVE ConversionInv'
<1>1. /\ stamps' = stamps /\ stamps \in Recordings /\ order' \in Orders /\ status' = "running"
      /\ pos' = 1 /\ chunk' = 0 /\ buffer' = <<>> /\ episodes' = <<>> /\ failed' = {}
  BY DEF ConversionInv, Start
<1>2. order' \in Seq(DOMAIN stamps) /\ \A i, j \in DOMAIN order' : order'[i] = order'[j] => i = j
  <2>1. PICK n \in 1..Len(stamps) : order' \in [1..n -> DOMAIN stamps]
    BY <1>1 DEF Orders, BagFiles
  <2>2. n \in Nat
    BY <1>1 DEF Recordings
  <2> QED BY <1>1, <2>1, <2>2 DEF Orders, BagFiles
<1>3. Collected(stamps, order', 1, 0, <<>>, <<>>, {})
  BY <1>1, <1>2, StartCollects
<1>4. Collected(stamps', order', pos', chunk', buffer', episodes', failed')
  BY <1>1, <1>3
<1> QED BY <1>1, <1>4 DEF ConversionInv

LEMMA ScanKeeps == ASSUME ConversionInv, Scan PROVE ConversionInv'
<1>1. /\ stamps' = stamps /\ stamps \in Recordings /\ status' = "running"
      /\ pos <= Len(order) /\ chunk = 0 /\ chunk' = 1
      /\ order' = order /\ pos' = pos /\ buffer' = buffer /\ episodes' = episodes /\ failed' = failed
      /\ Collected(stamps, order, pos, chunk, buffer, episodes, failed)
  BY DEF ConversionInv, Scan, Reading
<1>2. Collected(stamps, order, pos, 1, buffer, episodes, failed)
  BY <1>1, ScanCollects
<1>3. Collected(stamps', order', pos', chunk', buffer', episodes', failed')
  BY <1>1, <1>2
<1> QED BY <1>1, <1>3 DEF ConversionInv

LEMMA ChunkKeeps == ASSUME ConversionInv, Chunk PROVE ConversionInv'
<1>1. /\ stamps' = stamps /\ stamps \in Recordings /\ status' = "running" /\ pos <= Len(order)
      /\ chunk \in 1..ChunkCount(stamps[order[pos]]) /\ chunk' = chunk + 1
      /\ buffer' = buffer \o ChunkFrames(stamps[order[pos]], order[pos], chunk)
      /\ order' = order /\ pos' = pos /\ episodes' = episodes /\ failed' = failed
      /\ Collected(stamps, order, pos, chunk, buffer, episodes, failed)
  BY DEF ConversionInv, Chunk, Reading, Bag
<1>2. Collected(stamps, order, pos, chunk + 1, buffer \o ChunkFrames(stamps[order[pos]], order[pos], chunk),
                episodes, failed)
  BY <1>1, ChunkCollects
<1>3. Collected(stamps', order', pos', chunk', buffer', episodes', failed')
  BY <1>1, <1>2
<1> QED BY <1>1, <1>3 DEF ConversionInv

LEMMA SaveEpisodeKeeps == ASSUME ConversionInv, SaveEpisode PROVE ConversionInv'
<1>1. /\ stamps' = stamps /\ stamps \in Recordings /\ status' = "running" /\ pos <= Len(order)
      /\ chunk > ChunkCount(stamps[order[pos]]) /\ chunk > 0 /\ chunk' = 0 /\ pos' = pos + 1
      /\ buffer # <<>>
      /\ buffer' = <<>> /\ episodes' = Append(episodes, buffer)
      /\ order' = order /\ failed' = failed
      /\ Collected(stamps, order, pos, chunk, buffer, episodes, failed)
  BY DEF ConversionInv, SaveEpisode, Reading, Read, Bag, NextBag, LeftAfterSave, AfterSave
<1>2. Collected(stamps, order, pos + 1, 0, <<>>, Append(episodes, buffer), failed)
  BY <1>1, SaveCollects
<1>3. Collected(stamps', order', pos', chunk', buffer', episodes', failed')
  BY <1>1, <1>2
<1> QED BY <1>1, <1>3 DEF ConversionInv

(* A bag fails after some of its frames have been added.                   *)
LEMMA BagFailsKeeps ==
    ASSUME ConversionInv, Reading, BagFails,
           NEW v \in Seq(TakenFrom(stamps[order[pos]], order[pos])), buffer' = buffer \o v
    PROVE  ConversionInv'
<1>1. /\ stamps' = stamps /\ stamps \in Recordings /\ status' = "running" /\ pos <= Len(order)
      /\ chunk' = 0 /\ pos' = pos + 1 /\ buffer' = buffer \o v
      /\ order' = order /\ episodes' = episodes /\ failed' = failed \cup {order[pos]}
      /\ Collected(stamps, order, pos, chunk, buffer, episodes, failed)
  BY DEF ConversionInv, BagFails, Reading, Bag, NextBag
<1>2. Collected(stamps, order, pos + 1, 0, buffer \o v, episodes, failed \cup {order[pos]})
  BY <1>1, FailCollects
<1>3. Collected(stamps', order', pos', chunk', buffer', episodes', failed')
  BY <1>1, <1>2
<1> QED BY <1>1, <1>3 DEF ConversionInv

LEMMA NothingAdded ==
    ASSUME ConversionInv, Reading, BagFails, buffer' = buffer PROVE ConversionInv'
<1>0. <<>> \in Seq(TakenFrom(stamps[order[pos]], order[pos]))
  OBVIOUS
<1>1. PICK v \in Seq(TakenFrom(stamps[order[pos]], order[pos])) : v = <<>>
  BY <1>0
<1>2. buffer' = buffer \o v
  <2>1. buffer \in Seq(Of(stamps, DOMAIN stamps))
    BY DEF ConversionInv, Collected
  <2>2. buffer \o <<>> = buffer
    BY <2>1
  <2> QED BY <1>1, <2>2
<1> QED BY <1>2, BagFailsKeeps

LEMMA UnusableKeeps == ASSUME ConversionInv, Unusable PROVE ConversionInv'
<1>1. Reading /\ BagFails /\ buffer' = buffer
  BY DEF Unusable
<1> QED BY <1>1, NothingAdded

LEMMA ErrorKeeps == ASSUME ConversionInv, Error PROVE ConversionInv'
<1>1. Reading /\ BagFails
  BY DEF Error
<1>2. CASE chunk \in 1..ChunkCount(stamps[Bag]) /\ ~ChunkRaises(stamps[Bag], chunk)
  <2>1. PICK b \in DOMAIN stamps : b = order[pos] /\ stamps[b] \in InBagOrder
    <3>1. stamps \in Recordings /\ order \in Seq(DOMAIN stamps) /\ pos \in Nat \ {0} /\ pos <= Len(order)
      BY <1>1 DEF ConversionInv, Collected, Places, Reading
    <3>2. order[pos] \in DOMAIN stamps
      BY <3>1
    <3>3. \A b \in DOMAIN stamps : stamps[b] \in InBagOrder
      BY <3>1 DEF Recordings
    <3> QED BY <3>2, <3>3
  <2>2. PICK n \in 0..Len(ChunkFrames(stamps[b], b, chunk)) :
            buffer' = buffer \o SubSeq(ChunkFrames(stamps[b], b, chunk), 1, n)
    BY <1>2, <2>1 DEF Error, Bag
  <2>3. PICK m \in Nat : m = ChunkCount(stamps[b])
    BY <2>1, ChunkCountType
  <2>4. chunk \in Nat \ {0}
    BY <1>2, <2>1, <2>3 DEF Bag
  <2>5. PICK s \in Seq(TakenFrom(stamps[b], b)) : s = ChunkFrames(stamps[b], b, chunk)
    BY <2>1, <2>4, ChunkFramesType
  <2>6. SubSeq(s, 1, n) \in Seq(TakenFrom(stamps[b], b))
    BY <2>2, <2>5
  <2> QED BY <1>1, <2>1, <2>2, <2>5, <2>6, BagFailsKeeps
<1>3. CASE ~(chunk \in 1..ChunkCount(stamps[Bag]) /\ ~ChunkRaises(stamps[Bag], chunk))
  BY <1>1, <1>3, NothingAdded DEF Error
<1> QED BY <1>2, <1>3

LEMMA FinishKeeps == ASSUME ConversionInv, Finish PROVE ConversionInv'
<1>1. /\ stamps' = stamps /\ stamps \in Recordings /\ pos > Len(order) /\ failed \subseteq errorFile'
      /\ order' = order /\ pos' = pos /\ chunk' = chunk /\ buffer' = buffer
      /\ episodes' = episodes /\ failed' = failed
      /\ Collected(stamps, order, pos, chunk, buffer, episodes, failed)
  BY DEF ConversionInv, Finish, WrittenErrors, ErrorLines
<1>2. Collected(stamps', order', pos', chunk', buffer', episodes', failed')
  BY <1>1
<1> QED BY <1>1, <1>2 DEF ConversionInv

LEMMA PausedKeeps == ASSUME ConversionInv, Killed \/ UNCHANGED conversionVars PROVE ConversionInv'
<1>1. /\ stamps' = stamps /\ stamps \in Recordings /\ errorFile' = errorFile
      /\ (status' = status \/ status' = "idle")
      /\ order' = order /\ pos' = pos /\ chunk' = chunk /\ buffer' = buffer
      /\ episodes' = episodes /\ failed' = failed
      /\ Collected(stamps, order, pos, chunk, buffer, episodes, failed)
  BY DEF ConversionInv, Killed, conversionVars
<1>2. Collected(stamps', order', pos', chunk', buffer', episodes', failed')
  BY <1>1
<1> QED BY <1>1, <1>2 DEF ConversionInv

LEMMA ConversionInvHolds == ConversionSpec => []ConversionInv
<1>1. ConversionInv /\ [ConversionNext]_conversionVars => ConversionInv'
  <2> SUFFICES ASSUME ConversionInv, [ConversionNext]_conversionVars PROVE ConversionInv'
    OBVIOUS
  <2> QED BY StartKeeps, ScanKeeps, ChunkKeeps, SaveEpisodeKeeps, UnusableKeeps, ErrorKeeps,
             FinishKeeps, PausedKeeps DEF ConversionNext
<1> QED BY <1>1, ConversionStarts, PTL DEF ConversionSpec

(* Reading a bag in chunks gives every frame the messages that reading the *)
(* whole bag gives it (chunk_process.py against align_frame_data).         *)
THEOREM ChunksAlignAsWhole == ConversionSpec => []ChunkedIsWhole
<1>1. ConversionInv => ChunkedIsWhole
  <2> SUFFICES ASSUME ConversionInv, NEW f \in ToSet(buffer) PROVE AlignsAsWhole(stamps[f.bag], f)
    BY DEF ChunkedIsWhole, AlignsAsWhole, IsAligned
  <2>1. buffer \in Seq(Of(stamps, DOMAIN stamps))
    BY DEF ConversionInv, Collected
  <2>2. f \in Of(stamps, DOMAIN stamps)
    BY <2>1 DEF ToSet
  <2>3. PICK b \in DOMAIN stamps : f \in TakenFrom(stamps[b], b)
    BY <2>2 DEF Of
  <2>4. stamps[b] \in InBagOrder
    BY DEF ConversionInv, Recordings
  <2> QED BY <2>3, <2>4, TakenAligned
<1> QED BY <1>1, ConversionInvHolds, PTL

LEMMA WholeHasSuffix ==
    ASSUME NEW d \in Recordings, NEW b \in DOMAIN d, NEW x \in SUBSET DOMAIN d, NEW e, Whole(d, e, b, x)
    PROVE  /\ IsSuffix(AllFrames(d[b], b), e)
           /\ AllFrames(d[b], b) = <<>> => \A f \in ToSet(e) : f.bag \in x
           /\ \A j \in 1..(Len(e) - Len(AllFrames(d[b], b))) : e[j].bag \in x
<1>0. \A y \in DOMAIN d : d[y] \in InBagOrder
  BY DEF Recordings
<1>1. PICK p \in Seq(Of(d, x)) : e = p \o AllFrames(d[b], b)
  BY DEF Whole
<1>2. PICK s \in Seq(TakenFrom(d[b], b)) : s = AllFrames(d[b], b)
  <2>1. PICK n \in Nat : n = ChunkCount(d[b])
    BY <1>0, ChunkCountType
  <2>2. n \in 0..n
    BY <2>1
  <2> QED BY <1>0, <2>1, <2>2, FramesByType DEF AllFrames
<1>3. p \in Seq(Of(d, DOMAIN d)) /\ s \in Seq(Of(d, DOMAIN d))
  BY OfMore, OfOne
<1>4. IsSuffix(s, p \o s)
  BY <1>3, SuffixOfJoined
<1>5. ASSUME NEW j \in 1..(Len(p \o s) - Len(s)) PROVE (p \o s)[j].bag \in x
  <2>1. PICK m \in Nat, l \in Nat : m = Len(p) /\ l = Len(s) /\ Len(p \o s) = m + l
    <3>1. Len(p) \in Nat /\ Len(s) \in Nat /\ Len(p \o s) = Len(p) + Len(s)
      BY <1>3
    <3> QED BY <3>1
  <2>2. j \in 1..m
    BY <2>1
  <2>3. (p \o s)[j] = p[j]
    BY <1>3, <2>1, <2>2
  <2>4. p[j] \in Of(d, x)
    BY <2>1, <2>2
  <2>5. PICK y \in x : p[j] \in TakenFrom(d[y], y)
    BY <2>4 DEF Of
  <2>6. p[j].bag = y
    BY <1>0, <2>5, TakenAligned
  <2> QED BY <2>3, <2>6
<1>6. ASSUME s = <<>>, NEW f \in ToSet(p \o s) PROVE f.bag \in x
  <2>1. p \o s = p
    BY <1>3, <1>6
  <2>2. PICK j \in DOMAIN p : f = p[j]
    BY <1>6, <2>1 DEF ToSet
  <2>3. p[j] \in Of(d, x)
    BY <2>2
  <2>4. PICK y \in x : p[j] \in TakenFrom(d[y], y)
    BY <2>3 DEF Of
  <2> QED BY <1>0, <2>2, <2>4, TakenAligned
<1> QED BY <1>1, <1>2, <1>4, <1>5, <1>6

(* An episode of a finished run is all of one bag that was read, after at  *)
(* most what failed bags have left (kuavo_dataset.py, save_episode).       *)
THEOREM EpisodesHoldTheirBag == ConversionSpec => []EpisodesAreWhole
<1>1. ConversionInv => EpisodesAreWhole
  <2> SUFFICES ASSUME ConversionInv, NEW i \in DOMAIN episodes
               PROVE  \E b \in ToSet(order) \ failed :
                          /\ IsSuffix(AllFrames(stamps[b], b), episodes[i])
                          /\ \A j \in 1..(Len(episodes[i]) - Len(AllFrames(stamps[b], b))) :
                                 episodes[i][j].bag \in failed
    BY DEF EpisodesAreWhole
  <2>1. PICK n \in 1..(pos - 1) : order[n] \notin failed /\ Whole(stamps, episodes[i], order[n], failed)
    BY DEF ConversionInv, Collected, OnlyWhole
  <2>2. /\ order \in Seq(DOMAIN stamps) /\ pos \in Nat \ {0} /\ pos <= Len(order) + 1
        /\ failed \subseteq DOMAIN stamps /\ stamps \in Recordings
    BY DEF ConversionInv, Collected, Places
  <2>3. n \in DOMAIN order
    <3>1. Len(order) \in Nat /\ DOMAIN order = 1..Len(order)
      BY <2>2
    <3> QED BY <2>2, <3>1
  <2>4. PICK b \in DOMAIN stamps : b = order[n] /\ b \in ToSet(order)
    BY <2>2, <2>3 DEF ToSet
  <2> QED BY <2>1, <2>2, <2>4, WholeHasSuffix
<1> QED BY <1>1, ConversionInvHolds, PTL

(* A bag of a finished run is named in error.txt or has an episode of its  *)
(* frames; one that gave none has an episode of leftovers of failed bags.  *)
THEOREM LossesAreReported == ConversionSpec => []MissingReported
<1>1. ConversionInv => MissingReported
  <2> SUFFICES ASSUME ConversionInv, status = "done", NEW b \in ToSet(order), b \notin failed \cap errorFile
               PROVE  \E i \in DOMAIN episodes :
                          /\ episodes[i] # <<>> /\ IsSuffix(AllFrames(stamps[b], b), episodes[i])
                          /\ AllFrames(stamps[b], b) = <<>> =>
                                 \A f \in ToSet(episodes[i]) : f.bag \in failed
    BY DEF MissingReported
  <2>1. PICK n \in DOMAIN order : b = order[n]
    BY DEF ToSet
  <2>2. /\ order \in Seq(DOMAIN stamps) /\ pos \in Nat \ {0} /\ pos > Len(order)
        /\ failed \subseteq DOMAIN stamps
        /\ failed \subseteq errorFile /\ stamps \in Recordings
    BY DEF ConversionInv, Collected, Places
  <2>3. n \in 1..(pos - 1)
    <3>1. Len(order) \in Nat /\ DOMAIN order = 1..Len(order)
      BY <2>2
    <3> QED BY <2>2, <3>1
  <2>4. PICK i \in DOMAIN episodes : Whole(stamps, episodes[i], order[n], failed)
    BY <2>1, <2>2, <2>3 DEF ConversionInv, Collected, AllWhole
  <2>5. b \in DOMAIN stamps /\ episodes[i] # <<>>
    BY <2>1, <2>2, <2>4 DEF Whole
  <2> QED BY <2>1, <2>2, <2>4, <2>5, WholeHasSuffix
<1> QED BY <1>1, ConversionInvHolds, PTL
=============================================================================
