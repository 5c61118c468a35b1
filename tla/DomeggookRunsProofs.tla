-------------------------- MODULE DomeggookRunsProofs --------------------------
(***************************************************************************)
(* Proofs about DomeggookRuns (and DomeggookDetails, which it extends), for *)
(* any products, modes, positions, lists, budgets, batches and faults.     *)
(***************************************************************************)
EXTENDS DomeggookRuns, FiniteSetTheorems, WellFoundedInduction, TLAPS

-----------------------------------------------------------------------------
(* The invariants. *)

\* A run's place tells of its mode, its list and its calls.
TypeInv ==
    /\ TypeOK
    /\ pc # "down" => mode \in Mode
    /\ pc = "write" => index < Len(list) /\ attempt = 0
    /\ pc = "batch" /\ attempt > 0 => used < Budget /\ index < Len(list)

\* Full and daily runs share the file of their details, and what it is about.
Shared ==
    \A m \in Mode : \A n \in DetailModes(m) :
        detailState[n] = detailState[m] /\ due[n] = due[m]

\* The product is a target, and comes before every product that is due.
Behind(p, m) == found[p] > 0 /\ \A q \in due[m] : Precedes(p, q)

\* In the main runs: the first n of the list s, and the last product that was
\* completed, come before what is due.
MainPlace(m, s, n, last) ==
    /\ \A k \in 1..n : Behind(s[k], m)
    /\ last # 0 => Behind(last, m)

MainFile(m) ==
    /\ \A p \in due[m] : found[p] > 0
    /\ detailState[m] # None =>
        MainPlace(m, detailState[m].list, detailState[m].next, detailState[m].last)

\* The list s begins the order of all targets.
Beginning(s) ==
    /\ \A i \in DOMAIN s : found[s[i]] > 0
    /\ \A i, j \in DOMAIN s : i < j => Precedes(s[i], s[j])
    /\ \A p \in Product, i \in DOMAIN s :
        found[p] > 0 /\ Precedes(p, s[i]) => p \in ToSet(s)

InDetails == pc \in {"batch", "write", "detailsDone"}

MainRun ==
    InDetails /\ mode # "fixed" =>
        /\ Beginning(list)
        /\ MainPlace(mode, list, index, startLast)
        /\ pc = "write" => ToSet(Batch) \cap due[mode] = {}

\* In the fixed collection: what is due is in the list s, after its first n, among
\* which is the last product that was completed.
FixedPlace(s, n, last) ==
    /\ due["fixed"] \subseteq ToSet(s)
    /\ \A k \in 1..n : s[k] \notin due["fixed"]
    /\ last # 0 => \E k \in 1..n : s[k] = last

\* As long as its lists have lost nothing and kept their order.
FixedKept == "fixed" \in Mode /\ "fixed" \notin relisted

FixedFile ==
    FixedKept /\ detailState["fixed"] # None =>
        FixedPlace(detailState["fixed"].list, detailState["fixed"].next,
                   detailState["fixed"].last)

FixedRun ==
    FixedKept /\ InDetails /\ mode = "fixed" =>
        /\ FixedPlace(list, index, startLast)
        /\ pc = "write" => ToSet(Batch) \cap due["fixed"] = {}

DetailsInv ==
    /\ TypeInv /\ Shared
    /\ \A m \in Mode \ {"fixed"} : MainFile(m)
    /\ MainRun
    /\ FixedFile /\ FixedRun
    /\ pc = "detailsDone" => index = Len(list)

WithinLimit(s) == \A c \in DOMAIN NoSample : Cardinality(s[c]) <= CategoryLimit

\* The sample is within its limit, in memory and on disk, and what has been
\* recorded is in the list that goes from there to the details.
SampleInv ==
    /\ WithinLimit(sample)
    /\ \A m \in Mode : discoveryState[m] # None => WithinLimit(discoveryState[m].sample)
    /\ "fixed" \in Mode /\ discoveryState["fixed"] # None =>
        recorded \subseteq ToSet(discoveryState["fixed"].ids)
    /\ mode = "fixed" /\ pc \in {"listing", "discovered", "beginDetails"} =>
        recorded \subseteq ToSet(ids)
    /\ mode = "fixed" /\ pc \in {"batch", "write"} => recorded \subseteq ToSet(list)

-----------------------------------------------------------------------------
(* The lists. *)

\* InOrder lists a finite set by a strict total order, every element once.
LEMMA InOrderLists ==
  ASSUME NEW S, IsFiniteSet(S), NEW before,
         \A x \in S : <<x, x>> \notin before,
         \A x, y, z \in S :
            <<x, y>> \in before /\ <<y, z>> \in before => <<x, z>> \in before,
         \A x, y \in S : x # y => <<x, y>> \in before \/ <<y, x>> \in before
  PROVE  /\ Cardinality(S) \in Nat
         /\ InOrder(S, before) \in [1..Cardinality(S) -> S]
         /\ \A i, j \in 1..Cardinality(S) :
                i < j => <<InOrder(S, before)[i], InOrder(S, before)[j]>> \in before
         /\ \A x \in S : \E i \in 1..Cardinality(S) : InOrder(S, before)[i] = x
<1> DEFINE n == Cardinality(S)
           Earlier(x) == {y \in S : <<y, x>> \in before}
           rank == [x \in S |-> Cardinality(Earlier(x))]
           s == InOrder(S, before)
<1>1. n \in Nat
  BY FS_CardinalityType
<1>2. ASSUME NEW x \in S
      PROVE  IsFiniteSet(Earlier(x)) /\ Cardinality(Earlier(x)) \in 0..n - 1
  <2>1. Earlier(x) \in SUBSET (S \ {x})
    OBVIOUS
  <2>2. IsFiniteSet(S \ {x}) /\ Cardinality(S \ {x}) = n - 1
    BY FS_RemoveElement
  <2> HIDE DEF Earlier
  <2>3. IsFiniteSet(Earlier(x)) /\ Cardinality(Earlier(x)) <= n - 1
    BY <2>1, <2>2, FS_Subset
  <2>4. Cardinality(Earlier(x)) \in Nat
    BY <2>3, FS_CardinalityType
  <2>5. QED
    BY <1>1, <2>3, <2>4
<1>3. ASSUME NEW x \in S, NEW y \in S, <<x, y>> \in before
      PROVE  Cardinality(Earlier(x)) < Cardinality(Earlier(y))
  <2>1. Earlier(x) \cup {x} \in SUBSET Earlier(y) /\ x \notin Earlier(x)
    BY <1>3
  <2> HIDE DEF Earlier
  <2>2. Cardinality(Earlier(x) \cup {x}) = Cardinality(Earlier(x)) + 1
    BY <1>2, <2>1, FS_AddElement
  <2>3. Cardinality(Earlier(x) \cup {x}) <= Cardinality(Earlier(y))
    BY <1>2, <2>1, FS_Subset
  <2>4. QED
    BY <1>1, <1>2, <2>2, <2>3
<1> HIDE DEF Earlier
<1>4. ASSUME NEW x \in S, NEW y \in S, rank[x] = rank[y]
      PROVE  x = y
  <2>1. /\ Cardinality(Earlier(x)) \in Nat
        /\ Cardinality(Earlier(x)) = Cardinality(Earlier(y))
    BY <1>1, <1>2, <1>4
  <2>2. <<x, y>> \notin before /\ <<y, x>> \notin before
    BY <1>3, <2>1
  <2>3. QED
    BY <2>2
<1>5. rank \in Injection(S, 0..n - 1)
  <2>1. rank \in [S -> 0..n - 1]
    BY <1>2
  <2>2. \A x, y \in S : rank[x] = rank[y] => x = y
    BY <1>4
  <2> HIDE DEF rank
  <2>3. QED
    BY <2>1, <2>2 DEF Injection, IsInjective
<1>6. IsFiniteSet(0..n - 1) /\ Cardinality(0..n - 1) = n
  <2> HIDE DEF n
  <2> DEFINE last == n - 1
  <2>1. last \in Int /\ last >= -1 /\ last + 1 = n
    BY <1>1
  <2> HIDE DEF last
  <2>2. IsFiniteSet(0..last) /\ Cardinality(0..last) = IF 0 > last THEN 0 ELSE last - 0 + 1
    <3>1. 0 \in Int
      OBVIOUS
    <3>2. QED
      BY <2>1, <3>1, FS_Interval, Zenon
  <2>3. IsFiniteSet(0..last) /\ Cardinality(0..last) = n
    BY <2>1, <2>2
  <2>4. QED
    BY <2>3 DEF last
<1>7. rank \in Surjection(S, 0..n - 1)
  <2> HIDE DEF rank
  <2>1. \A T : IsFiniteSet(T) /\ rank \in Injection(S, T) /\ Cardinality(S) = Cardinality(T)
                => rank \in Surjection(S, T)
    BY FS_Injection
  <2>2. QED
    BY <1>5, <1>6, <2>1
<1>8. ASSUME NEW i \in 1..n
      PROVE  s[i] \in S /\ rank[s[i]] = i - 1
  <2>1. i - 1 \in 0..n - 1
    BY <1>1
  <2>2. \E x \in S : rank[x] = i - 1
    BY <1>7, <2>1 DEF Surjection
  <2>3. \E x \in S : Cardinality(Earlier(x)) = i - 1
    BY <2>2
  <2>4. s[i] = CHOOSE x \in S : Cardinality(Earlier(x)) = i - 1
    BY DEF InOrder, Earlier
  <2>5. QED
    BY <2>3, <2>4
<1>9. s \in [1..n -> S]
  <2> DEFINE next(i) == CHOOSE x \in S : Cardinality(Earlier(x)) = i - 1
  <2>1. s = [i \in 1..n |-> next(i)]
    BY DEF InOrder, Earlier
  <2>2. \A i \in 1..n : next(i) \in S
    BY <1>8, <2>1
  <2> HIDE DEF next, n
  <2>3. QED
    BY <2>1, <2>2
<1>10. ASSUME NEW i \in 1..n, NEW j \in 1..n, i < j
       PROVE  <<s[i], s[j]>> \in before
  <2>1. /\ s[i] \in S /\ s[j] \in S
        /\ Cardinality(Earlier(s[i])) = i - 1 /\ Cardinality(Earlier(s[j])) = j - 1
    BY <1>8
  <2>2. s[i] # s[j]
    BY <1>1, <1>10, <2>1
  <2>3. <<s[j], s[i]>> \notin before
    BY <1>1, <1>3, <1>10, <2>1
  <2>4. QED
    BY <2>1, <2>2, <2>3
<1>11. ASSUME NEW x \in S
       PROVE  \E i \in 1..n : s[i] = x
  <2>1. rank[x] \in 0..n - 1
    BY <1>2
  <2>2. rank[x] + 1 \in 1..n /\ (rank[x] + 1) - 1 = rank[x]
    BY <1>1, <2>1
  <2>3. s[rank[x] + 1] \in S /\ rank[s[rank[x] + 1]] = rank[x]
    BY <1>8, <2>2
  <2>4. s[rank[x] + 1] = x
    BY <1>4, <2>3
  <2>5. QED
    BY <2>2, <2>4
<1>12. QED
  BY <1>1, <1>9, <1>10, <1>11

\* The order of the query is a strict total one.
LEMMA PrecedesOrders ==
  ASSUME found \in [Product -> Nat]
  PROVE  /\ \A p \in Product : ~Precedes(p, p)
         /\ \A p, q, r \in Product : Precedes(p, q) /\ Precedes(q, r) => Precedes(p, r)
         /\ \A p, q \in Product : p # q => Precedes(p, q) \/ Precedes(q, p)
<1>1. \A p \in Product : p \in Nat /\ found[p] \in Nat
  BY DetailsAssumption
<1>2. QED
  BY <1>1 DEF Precedes

\* What the query returns: the targets, sorted.
LEMMA DiscoveredIdsSorted ==
  ASSUME found \in [Product -> Nat]
  PROVE  /\ DiscoveredIds \in Seq(Product)
         /\ \A i \in DOMAIN DiscoveredIds : found[DiscoveredIds[i]] > 0
         /\ \A i, j \in DOMAIN DiscoveredIds :
                i < j => Precedes(DiscoveredIds[i], DiscoveredIds[j])
         /\ \A p \in Product : found[p] > 0 =>
                \E i \in DOMAIN DiscoveredIds : DiscoveredIds[i] = p
<1> DEFINE S == {p \in Product : found[p] > 0}
           before == {pair \in Product \X Product : Precedes(pair[1], pair[2])}
           s == InOrder(S, before)
<1>1. \A p, q \in Product : <<p, q>> \in before <=> Precedes(p, q)
  OBVIOUS
<1>2. S \in SUBSET Product
  OBVIOUS
<1>3. IsFiniteSet(S)
  BY <1>2, FS_Subset, DetailsAssumption
<1> HIDE DEF before
<1>4. /\ \A x \in S : <<x, x>> \notin before
      /\ \A x, y, z \in S :
            <<x, y>> \in before /\ <<y, z>> \in before => <<x, z>> \in before
      /\ \A x, y \in S : x # y => <<x, y>> \in before \/ <<y, x>> \in before
  BY <1>1, <1>2, PrecedesOrders
<1> HIDE DEF S
<1>5. /\ Cardinality(S) \in Nat
      /\ s \in [1..Cardinality(S) -> S]
      /\ \A i, j \in 1..Cardinality(S) : i < j => <<s[i], s[j]>> \in before
      /\ \A x \in S : \E i \in 1..Cardinality(S) : s[i] = x
  BY <1>3, <1>4, InOrderLists
<1>6. DiscoveredIds = s
  BY DEF DiscoveredIds, S, before
<1> HIDE DEF s
<1>7. DiscoveredIds \in Seq(Product) /\ DOMAIN DiscoveredIds = 1..Cardinality(S)
  BY <1>2, <1>5, <1>6
<1>8. QED
  BY <1>1, <1>2, <1>5, <1>6, <1>7 DEF S

LEMMA FirstOfFits ==
  ASSUME NEW S, NEW s \in Seq(S), NEW n \in Nat
  PROVE  /\ FirstOf(s, n) \in Seq(S)
         /\ Len(FirstOf(s, n)) <= Len(s)
         /\ DOMAIN FirstOf(s, n) = 1..Len(FirstOf(s, n))
         /\ \A i \in 1..Len(FirstOf(s, n)) : FirstOf(s, n)[i] = s[i]
<1> DEFINE last == IF Len(s) < n THEN Len(s) ELSE n
<1>1. last \in Nat /\ last <= Len(s)
  OBVIOUS
<1> HIDE DEF last
<1>2. /\ SubSeq(s, 1, last) \in Seq(S) /\ Len(SubSeq(s, 1, last)) = last
      /\ \A i \in 1..last : SubSeq(s, 1, last)[i] = s[i]
  BY <1>1
<1>3. FirstOf(s, n) = SubSeq(s, 1, last)
  BY DEF FirstOf, last
<1>4. QED
  BY <1>1, <1>2, <1>3

LEMMA ConcatElements ==
  ASSUME NEW S, NEW s \in Seq(S), NEW t \in Seq(S)
  PROVE  ToSet(s \o t) = ToSet(s) \cup ToSet(t)
<1> DEFINE u == s \o t
<1>1. /\ u \in Seq(S) /\ Len(u) = Len(s) + Len(t) /\ Len(s) \in Nat /\ Len(t) \in Nat
      /\ \A i \in 1..Len(s) : u[i] = s[i]
      /\ \A i \in 1..Len(t) : u[Len(s) + i] = t[i]
  OBVIOUS
<1> HIDE DEF u
<1>2. /\ DOMAIN u = 1..Len(s) + Len(t)
      /\ DOMAIN s = 1..Len(s) /\ DOMAIN t = 1..Len(t)
  BY <1>1
<1>3. ASSUME NEW i \in 1..Len(s) + Len(t)
      PROVE  u[i] \in ToSet(s) \cup ToSet(t)
  <2>1. CASE i <= Len(s)
    <3>1. i \in 1..Len(s) /\ u[i] = s[i]
      BY <1>1, <2>1
    <3>2. QED
      BY <1>2, <3>1 DEF ToSet
  <2>2. CASE i > Len(s)
    <3>1. i - Len(s) \in 1..Len(t) /\ Len(s) + (i - Len(s)) = i
      BY <1>1, <2>2
    <3>2. QED
      BY <1>1, <1>2, <3>1 DEF ToSet
  <2>3. QED
    BY <1>1, <2>1, <2>2
<1>4. ASSUME NEW i \in 1..Len(s)
      PROVE  s[i] \in ToSet(u)
  <2>1. i \in 1..Len(s) + Len(t)
    BY <1>1
  <2>2. QED
    BY <1>1, <1>2, <2>1 DEF ToSet
<1>5. ASSUME NEW i \in 1..Len(t)
      PROVE  t[i] \in ToSet(u)
  <2>1. Len(s) + i \in 1..Len(s) + Len(t)
    BY <1>1
  <2>2. QED
    BY <1>1, <1>2, <2>1 DEF ToSet
<1>6. ToSet(u) \subseteq ToSet(s) \cup ToSet(t)
  BY <1>2, <1>3 DEF ToSet
<1>7. ToSet(s) \subseteq ToSet(u) /\ ToSet(t) \subseteq ToSet(u)
  BY <1>2, <1>4, <1>5 DEF ToSet
<1>8. QED
  BY <1>6, <1>7 DEF u

-----------------------------------------------------------------------------
(* Types. *)

LEMMA ModesKnown ==
  /\ Mode \subseteq {"full", "daily", "fixed"} /\ "none" \notin Mode
  /\ \A m \in Mode : m \in DetailModes(m) /\ DetailModes(m) \subseteq Mode
  /\ \A m \in Mode : \A n \in DetailModes(m) :
        DetailModes(n) = DetailModes(m) /\ (n = "fixed" <=> m = "fixed")
<1>1. Mode \subseteq {"full", "daily", "fixed"}
  BY DetailsAssumption DEF Mode
<1>2. QED
  BY <1>1 DEF DetailModes

LEMMA NumbersKnown ==
  /\ Budget \in Nat /\ Budget > 0 /\ BatchSize \in Nat /\ BatchSize > 0
  /\ MaxAttempts \in Nat /\ MaxAttempts > 0 /\ ProductLimit \in Nat
  /\ MaxFaults \in Nat /\ MaxTime \in Nat /\ MaxTime > 0
  /\ CategoryLimit \in Nat /\ CategoryLimit > 0
  /\ NumPositions \in Nat /\ NumPositions > 0
  /\ 0 \notin Product /\ Product \subseteq Nat
  BY DetailsAssumption, RunsAssumption

LEMMA FirstFits == First \in Place /\ NoSample \in Samples
<1>1. First \in Place
  BY NumbersKnown DEF First, Place, Position
<1>2. NoSample \in Samples
  BY DEF NoSample, Samples
<1>3. QED
  BY <1>1, <1>2

LEMMA TypeInit == Init => TypeInv
<1> SUFFICES ASSUME Init PROVE TypeInv
  OBVIOUS
<1>1. found \in [Product -> 0..MaxTime] /\ at \in 0..MaxTime
  BY NumbersKnown DEF Init
<1>2. /\ detailState \in [Mode -> DetailFile \cup {None}]
      /\ discoveryState \in [Mode -> DiscoveryFile \cup {None}]
      /\ due \in [Mode -> SUBSET Product] /\ relisted \subseteq Mode
  BY DEF Init
<1>3. /\ used \in 0..Budget /\ attempt \in 0..MaxAttempts /\ faults \in 0..MaxFaults
      /\ list \in Seq(Product) /\ index \in 0..Len(list)
      /\ startLast \in Product \cup {0} /\ ids \in Seq(Product)
  BY NumbersKnown DEF Init
<1>4. here \in Place /\ sample \in Samples
  BY FirstFits DEF Init
<1>5. QED
  BY <1>1, <1>2, <1>3, <1>4 DEF TypeInv, TypeOK, Init

\* Where a collection of details goes on is a place of its list.
LEMMA ResumeIndexFits ==
  ASSUME NEW s \in Seq(Product), NEW state \in DetailFile \cup {None}
  PROVE  ResumeIndex(s, state) \in 0..Len(s)
<1>1. CASE state = None
  BY <1>1 DEF ResumeIndex
<1>2. CASE state # None /\ state.list = s
  BY <1>2 DEF ResumeIndex, DetailFile
<1>3. CASE state # None /\ state.list # s /\ state.last \in ToSet(s)
  <2>1. \E i \in DOMAIN s : s[i] = state.last
    BY <1>3 DEF ToSet
  <2>2. (CHOOSE i \in DOMAIN s : s[i] = state.last) \in DOMAIN s
    BY <2>1
  <2>3. QED
    BY <1>3, <2>2 DEF ResumeIndex
<1>4. CASE state # None /\ state.list # s /\ state.last \notin ToSet(s)
  BY <1>4 DEF ResumeIndex
<1>5. QED
  BY <1>1, <1>2, <1>3, <1>4

\* A batch is the part of the list that is to come.
LEMMA BatchFits ==
  ASSUME TypeOK, index < Len(list)
  PROVE  /\ Batch \in Seq(Product)
         /\ Len(Batch) \in Nat /\ Len(Batch) > 0
         /\ index + Len(Batch) \in 0..Len(list)
         /\ \A k \in 1..Len(Batch) : Batch[k] = list[index + k]
         /\ Last(Batch) \in Product
         /\ Last(Batch) = list[index + Len(Batch)]
<1> DEFINE last == IF index + BatchSize < Len(list) THEN index + BatchSize ELSE Len(list)
<1>1. /\ list \in Seq(Product) /\ index \in Nat
      /\ last \in Nat /\ last > index /\ last <= Len(list)
  BY NumbersKnown DEF TypeOK
<1> HIDE DEF last
<1>2. /\ SubSeq(list, index + 1, last) \in Seq(Product)
      /\ Len(SubSeq(list, index + 1, last)) = last - index
      /\ \A k \in 1..last - index : SubSeq(list, index + 1, last)[k] = list[index + k]
  BY <1>1
<1>3. Batch = SubSeq(list, index + 1, last)
  BY DEF Batch, last
<1>4. QED
  BY <1>1, <1>2, <1>3 DEF Last

LEMMA BatchIsNext ==
  ASSUME TypeOK, index < Len(list)
  PROVE  \A k \in 1..index + Len(Batch) : k > index => list[k] \in ToSet(Batch)
<1>1. /\ Len(Batch) \in Nat /\ Batch \in Seq(Product) /\ index \in Nat
      /\ \A k \in 1..Len(Batch) : Batch[k] = list[index + k]
  BY BatchFits DEF TypeOK
<1>2. ASSUME NEW k \in 1..index + Len(Batch), k > index
      PROVE  list[k] \in ToSet(Batch)
  <2>1. k - index \in 1..Len(Batch) /\ index + (k - index) = k
    BY <1>1, <1>2
  <2>2. Batch[k - index] = list[k]
    BY <1>1, <2>1
  <2>3. k - index \in DOMAIN Batch
    BY <1>1, <2>1
  <2>4. QED
    BY <2>2, <2>3 DEF ToSet
<1>3. QED
  BY <1>2

LEMMA LeastNumber ==
  ASSUME NEW S \in SUBSET Nat, S # {}
  PROVE  \E x \in S : \A y \in S : x <= y
<1> DEFINE R == {pair \in Nat \X Nat : pair[1] < pair[2]}
<1>1. IsWellFoundedOn(R, Nat)
  BY NatLessThanWellFounded DEF OpToRel
<1> HIDE DEF R
<1>2. PICK x \in S : \A y \in S : <<y, x>> \notin R
  BY <1>1, WFMin
<1>3. ASSUME NEW y \in S PROVE x <= y
  <2>1. x \in Nat /\ y \in Nat
    OBVIOUS
  <2>2. ~(y < x)
    BY <1>2, <2>1 DEF R
  <2>3. QED
    BY <2>1, <2>2
<1>4. QED
  BY <1>3

\* A set of numbers with a bound has a greatest one.
LEMMA GreatestNumber ==
  ASSUME NEW n \in Nat, NEW S \in SUBSET (0..n), S # {}
  PROVE  Max(S) \in S /\ \A y \in S : y <= Max(S)
<1> DEFINE T == {y \in 0..n : n - y \in S}
<1>1. \A y \in S : y \in 0..n /\ n - y \in 0..n /\ n - (n - y) = y
  OBVIOUS
<1>2. \A y \in S : n - y \in T
  BY <1>1
<1>3. T \in SUBSET Nat /\ T # {}
  <2>1. PICK y \in S : TRUE
    OBVIOUS
  <2>2. n - y \in T
    BY <1>2
  <2>3. \A z \in T : z \in Nat
    OBVIOUS
  <2> HIDE DEF T
  <2>4. QED
    BY <2>2, <2>3
<1>4. PICK z \in T : \A y \in T : z <= y
  BY <1>3, LeastNumber
<1>5. z \in 0..n /\ n - z \in S
  OBVIOUS
<1>6. ASSUME NEW y \in S
      PROVE  n - z >= y
  <2>1. z <= n - y
    BY <1>2, <1>4
  <2>2. QED
    BY <1>1, <1>5, <2>1
<1>7. \E x \in S : \A y \in S : x >= y
  BY <1>5, <1>6
<1>8. Max(S) \in S /\ \A y \in S : Max(S) >= y
  BY <1>7 DEF Max
<1>9. \A y \in S : y \in Int
  OBVIOUS
<1>10. QED
  BY <1>8, <1>9

LEMMA NowFits ==
  ASSUME TypeOK
  PROVE  Now \in 0..MaxTime
<1> DEFINE times ==
        {0} \cup {found[p] : p \in Product} \cup
        {discoveryState[m].at : m \in {n \in Mode : discoveryState[n] # None}}
<1>1. \A p \in Product : found[p] \in 0..MaxTime
  BY DEF TypeOK
<1>2. ASSUME NEW m \in Mode, discoveryState[m] # None
      PROVE  discoveryState[m].at \in 0..MaxTime
  BY <1>2 DEF TypeOK, DiscoveryFile
<1>3. times \in SUBSET (0..MaxTime) /\ times # {}
  <2>1. 0 \in 0..MaxTime
    BY NumbersKnown
  <2> HIDE NumbersKnown
  <2>2. \A t \in times : t \in 0..MaxTime
    BY <1>1, <1>2, <2>1, Zenon
  <2>3. QED
    BY <2>2, Zenon
<1>4. Now = Min({Max(times) + 1, MaxTime})
  BY DEF Now
<1> HIDE DEF times
<1>5. Max(times) \in times
  BY <1>3, NumbersKnown, GreatestNumber
<1>6. Max(times) \in 0..MaxTime
  BY <1>3, <1>5
<1> DEFINE next == Max(times) + 1
<1>7. next \in Nat
  BY <1>6, NumbersKnown
<1> HIDE DEF next
<1>8. \E x \in {next, MaxTime} : \A y \in {next, MaxTime} : x <= y
  BY <1>7, NumbersKnown
<1>9. /\ Min({next, MaxTime}) \in {next, MaxTime}
      /\ \A y \in {next, MaxTime} : Min({next, MaxTime}) <= y
  BY <1>8 DEF Min
<1>10. QED
  BY <1>4, <1>7, <1>9, NumbersKnown DEF next

\* If an item counts, those before it do.
LEMMA CountedBegins ==
  ASSUME TypeOK, CategoryHere \in DOMAIN NoSample, Items \in Seq(Product),
         NEW i \in Counted, NEW j \in 1..i
  PROVE  j \in Counted
<1>1. i \in 1..Len(Items) /\ j \in 1..Len(Items) /\ i \in Nat /\ j \in Nat /\ j <= i
  BY DEF Counted
<1>2. \A k \in 1..Len(Items) : Items[k] \in Product
  OBVIOUS
<1> DEFINE before(k) == sample[CategoryHere] \cup ItemsBefore(k)
<1>3. before(j) \subseteq before(i) /\ before(i) \subseteq Product
  <2>1. sample[CategoryHere] \subseteq Product
    BY DEF TypeOK, Samples
  <2>2. 1..j - 1 \subseteq 1..i - 1 /\ 1..i - 1 \subseteq 1..Len(Items)
    BY <1>1
  <2>3. QED
    BY <1>2, <2>1, <2>2 DEF ItemsBefore
<1>4. ~LimitReached(before(i))
  BY DEF Counted
<1> HIDE DEF before
<1>5. /\ IsFiniteSet(before(i)) /\ IsFiniteSet(before(j))
      /\ Cardinality(before(j)) <= Cardinality(before(i))
  BY <1>3, FS_Subset, DetailsAssumption
<1>6. Cardinality(before(j)) \in Nat /\ Cardinality(before(i)) \in Nat
  BY <1>5, FS_CardinalityType
<1>7. ~LimitReached(before(j))
  BY <1>4, <1>5, <1>6, NumbersKnown DEF LimitReached
<1>8. QED
  BY <1>1, <1>7 DEF Counted, before

\* The items of a page are products, and those that count end up in product_ids.
LEMMA PageFits ==
  ASSUME TypeOK, pc = "listing", ReceivesItems
  PROVE  /\ Items \in Seq(Product)
         /\ Taken \subseteq Product
         /\ NewIds \in Seq(Product)
         /\ Taken \subseteq ToSet(ids \o NewIds)
         /\ CategoryHere \in DOMAIN NoSample
<1>1. listing \in [Position -> Seq(Seq(Product) \ {<<>>})]
  BY RunsAssumption DEF TypeOK
<1>2. here.pos \in Position /\ here.page \in Nat \ {0}
  BY DEF TypeOK, Place
<1>3. Pages \in Seq(Seq(Product) \ {<<>>}) /\ here.page \in 1..Len(Pages)
  BY <1>1, <1>2 DEF Pages, ReceivesItems
<1>4. Items \in Seq(Product)
  BY <1>3 DEF Items
<1>5. Counted \subseteq 1..Len(Items)
  BY <1>4 DEF Counted
<1>6. \A i \in 1..Len(Items) : Items[i] \in Product
  BY <1>4
<1>7. Taken \subseteq Product
  BY <1>5, <1>6 DEF Taken
<1> DEFINE before == {pair \in New \X New : pair[1] < pair[2]}
           s == InOrder(New, before)
<1>8. New \subseteq Counted
  BY DEF New
<1>9. New \subseteq 1..Len(Items) /\ Len(Items) \in Nat
  BY <1>4, <1>5, <1>8
<1>10. IsFiniteSet(New)
  <2>1. IsFiniteSet(1..Len(Items))
    BY <1>9, FS_Interval
  <2>2. QED
    BY <1>9, <2>1, FS_Subset
<1>11. \A x, y \in New : x \in Nat /\ y \in Nat /\ (<<x, y>> \in before <=> x < y)
  BY <1>9
<1> HIDE DEF before
<1>12. /\ \A x \in New : <<x, x>> \notin before
       /\ \A x, y, z \in New :
            <<x, y>> \in before /\ <<y, z>> \in before => <<x, z>> \in before
       /\ \A x, y \in New : x # y => <<x, y>> \in before \/ <<y, x>> \in before
  BY <1>11
<1>13. /\ Cardinality(New) \in Nat
       /\ s \in [1..Cardinality(New) -> New]
       /\ \A x \in New : \E i \in 1..Cardinality(New) : s[i] = x
  BY <1>10, <1>12, InOrderLists
<1>14. NewIds = [k \in 1..Cardinality(New) |-> Items[s[k]]]
  BY DEF NewIds, before
<1> HIDE DEF s
<1>15. \A k \in 1..Cardinality(New) : Items[s[k]] \in Product
  BY <1>6, <1>9, <1>13
<1>16. /\ NewIds \in Seq(Product) /\ Len(NewIds) = Cardinality(New)
       /\ \A k \in 1..Len(NewIds) : NewIds[k] = Items[s[k]]
  BY <1>13, <1>14, <1>15
<1>17. \A i \in New : Items[i] \in ToSet(NewIds)
  BY <1>13, <1>16 DEF ToSet
<1>18. ToSet(ids \o NewIds) = ToSet(ids) \cup ToSet(NewIds)
  BY <1>16, ConcatElements DEF TypeOK
<1>19. here.pos \in Position /\ CategoryHere \in DOMAIN NoSample
  BY <1>2 DEF CategoryHere, NoSample
<1>20. ASSUME NEW i \in Counted, Items[i] \notin ToSet(ids)
       PROVE  Items[i] \in ToSet(NewIds)
  <2> DEFINE same == {k \in 1..i : Items[k] = Items[i]}
  <2>1. i \in Nat /\ i > 0
    BY <1>5
  <2>2. same \in SUBSET Nat /\ i \in same
    BY <2>1
  <2>3. PICK j \in same : \A k \in same : j <= k
    BY <2>2, LeastNumber
  <2>4. j \in 1..i /\ Items[j] = Items[i] /\ j \in Counted
    BY <1>4, <1>19, <2>3, CountedBegins
  <2>5. Items[j] \notin ItemsBefore(j)
    <3>1. ASSUME NEW k \in 1..j - 1, Items[k] = Items[j]
          PROVE  FALSE
      <4>1. k \in same /\ k < j /\ j \in Nat /\ k \in Nat
        BY <2>1, <2>4, <3>1
      <4>2. QED
        BY <2>3, <4>1
    <3>2. QED
      BY <3>1 DEF ItemsBefore
  <2>6. j \in New
    BY <1>20, <2>4, <2>5 DEF New
  <2>7. QED
    BY <1>17, <2>4, <2>6
<1>21. Taken \subseteq ToSet(ids \o NewIds)
  BY <1>18, <1>20 DEF Taken
<1>22. QED
  BY <1>4, <1>7, <1>16, <1>19, <1>21

-----------------------------------------------------------------------------
(* Types, step by step. *)

LEMMA StateIsWritten ==
  ASSUME TypeOK, NEW place \in Place, mode \in Mode,
         ids' \in Seq(Product), sample' \in Samples, WriteDiscoveryState(place)
  PROVE  /\ discoveryState' \in [Mode -> DiscoveryFile \cup {None}]
         /\ discoveryState' = [discoveryState EXCEPT ![mode] =
                [at |-> at, here |-> place, ids |-> ids', sample |-> sample']]
<1>1. [at |-> at, here |-> place, ids |-> ids', sample |-> sample'] \in DiscoveryFile
  BY DEF TypeOK, DiscoveryFile
<1>2. QED
  BY <1>1 DEF TypeOK, WriteDiscoveryState

LEMMA PositionIsLeft ==
  ASSUME TypeOK, mode \in Mode, pc = "listing",
         ids' \in Seq(Product), sample' \in Samples, LeavePosition
  PROVE  /\ here' \in Place
         /\ discoveryState' \in [Mode -> DiscoveryFile \cup {None}]
         /\ pc' \in {"listing", "discovered"}
         /\ \/ discoveryState' = [discoveryState EXCEPT ![mode] = None]
            \/ discoveryState' = [discoveryState EXCEPT ![mode] =
                [at |-> at, here |-> here', ids |-> ids', sample |-> sample']]
<1>1. CASE here.pos < LastPosition
  <2>1. here.pos + 1 \in Position /\ here \in Place
    BY <1>1, NumbersKnown DEF TypeOK, Place, Position, LastPosition
  <2>2. here' = [pos |-> here.pos + 1, page |-> 1] /\ pc' = pc
        /\ WriteDiscoveryState(here')
    BY <1>1 DEF LeavePosition
  <2>3. here' \in Place
    BY <2>1, <2>2 DEF Place
  <2>4. QED
    BY <2>2, <2>3, StateIsWritten
<1>2. CASE ~(here.pos < LastPosition)
  BY <1>2 DEF LeavePosition, TypeOK
<1>3. QED
  BY <1>1, <1>2

\* A page leaves products where products belong.
LEMMA PageIsTaken ==
  ASSUME TypeInv, pc = "listing", ReceivesItems, SaveTargets
  PROVE  /\ found' \in [Product -> 0..MaxTime]
         /\ RememberPage =>
                ids' \in Seq(Product) /\ sample' \in Samples /\ recorded' \subseteq Product
<1>1. found' \in [Product -> 0..MaxTime]
  BY DEF SaveTargets, TypeInv, TypeOK
<1>2. /\ Taken \subseteq Product /\ NewIds \in Seq(Product)
      /\ CategoryHere \in DOMAIN NoSample
  BY PageFits DEF TypeInv
<1>3. ASSUME RememberPage, mode = "fixed"
      PROVE  ids' \in Seq(Product) /\ sample' \in Samples /\ recorded' \subseteq Product
  <2>1. ids' = ids \o NewIds /\ recorded' = recorded \cup Taken
        /\ sample' = [sample EXCEPT ![CategoryHere] = @ \cup Taken]
    BY <1>3 DEF RememberPage
  <2>2. ids \in Seq(Product) /\ recorded \subseteq Product
        /\ sample \in [DOMAIN NoSample -> SUBSET Product]
    BY DEF TypeInv, TypeOK, Samples
  <2>3. QED
    BY <1>2, <2>1, <2>2 DEF Samples
<1>4. ASSUME RememberPage, mode # "fixed"
      PROVE  ids' \in Seq(Product) /\ sample' \in Samples /\ recorded' \subseteq Product
  BY <1>4 DEF RememberPage, TypeInv, TypeOK
<1>5. QED
  BY <1>1, <1>3, <1>4

LEMMA DetailStateIsWritten ==
  ASSUME TypeOK, NEW state \in DetailFile \cup {None}, WriteDetailState(state)
  PROVE  detailState' \in [Mode -> DetailFile \cup {None}]
  BY DEF WriteDetailState, TypeOK

LEMMA RunEnds ==
  ASSUME TypeInv, ForgetRun
  PROVE  /\ pc' = "down" /\ mode' = "none" /\ limited' = FALSE
         /\ used' \in 0..Budget /\ failed' \in BOOLEAN /\ stopped' \in BOOLEAN
         /\ list' = <<>> /\ list' \in Seq(Product) /\ index' \in 0..Len(list')
         /\ startLast' \in Product \cup {0} /\ attempt' \in 0..MaxAttempts
         /\ at' \in 0..MaxTime /\ here' \in Place /\ ids' \in Seq(Product)
         /\ sample' \in Samples
<1>1. index' = 0 /\ list' = <<>> /\ attempt' = 0 /\ used' = 0 /\ at' = 0 /\ ids' = <<>>
  BY DEF ForgetRun, ForgetDetails, ForgetDiscovery
<1>2. here' \in Place /\ sample' \in Samples
  BY FirstFits DEF ForgetRun, ForgetDiscovery
<1>3. /\ pc' = "down" /\ mode' = "none" /\ limited' = FALSE
      /\ failed' \in BOOLEAN /\ stopped' \in BOOLEAN /\ startLast' \in Product \cup {0}
  BY DEF ForgetRun, ForgetDetails
<1>4. /\ used' \in 0..Budget /\ attempt' \in 0..MaxAttempts /\ at' \in 0..MaxTime
      /\ list' \in Seq(Product) /\ ids' \in Seq(Product) /\ index' \in 0..Len(list')
  BY <1>1, NumbersKnown
<1>5. QED
  BY <1>1, <1>2, <1>3, <1>4

LEMMA FaultCounted == ASSUME TypeOK, Fault PROVE faults' \in 0..MaxFaults
  BY NumbersKnown DEF TypeOK, Fault

\* The steps that stay outside of the stages, or end the run.
LEMMA TypeRuns ==
  ASSUME TypeInv,
         \/ StartRun \/ EndRun \/ Crash \/ CrashBeforeState \/ Rerank
         \/ AfterDiscovery \/ AfterDetails
  PROVE  TypeInv'
<1>1. CASE StartRun
  <2>1. mode' \in Mode
    <3>1. mode' \in schedule /\ schedule \in Schedules
      BY <1>1 DEF StartRun, TypeInv, TypeOK
    <3>2. QED
      BY <3>1 DEF Mode
  <2>2. faults' \in 0..MaxFaults /\ limited' \in BOOLEAN
    BY <1>1, FaultCounted DEF StartRun, TypeInv, TypeOK
  <2>3. QED
    BY <1>1, <2>1, <2>2
    DEF StartRun, TypeInv, TypeOK, detailVars, listVars, discoveryVars
<1>2. CASE EndRun
  <2>1. ForgetRun /\ outcome' \in {"completed", "paused", "failed"}
    BY <1>2 DEF EndRun, Status
  <2>2. QED
    BY <1>2, <2>1, RunEnds DEF EndRun, TypeInv, TypeOK, detailVars
<1>3. CASE Crash
  <2>1. ForgetRun /\ outcome' = "failed" /\ faults' \in 0..MaxFaults
    BY <1>3, FaultCounted DEF Crash, TypeInv
  <2>2. QED
    BY <1>3, <2>1, RunEnds DEF Crash, TypeInv, TypeOK, detailVars
<1>4. CASE CrashBeforeState
  <2>1. ForgetRun /\ outcome' = "failed" /\ faults' \in 0..MaxFaults
    BY <1>4, FaultCounted DEF CrashBeforeState, TypeInv
  <2>2. found' \in [Product -> 0..MaxTime]
    BY <1>4, PageIsTaken DEF CrashBeforeState, ReceivesItems, Listing
  <2>3. QED
    BY <1>4, <2>1, <2>2, RunEnds DEF CrashBeforeState, TypeInv, TypeOK, detailVars
<1>5. CASE Rerank
  <2>1. faults' \in 0..MaxFaults
    BY <1>5, FaultCounted DEF Rerank, TypeInv
  <2>2. QED
    BY <1>5, <2>1 DEF Rerank, TypeInv, TypeOK, detailVars, runVars, listVars, discoveryVars
<1>6. CASE AfterDiscovery
  BY <1>6 DEF AfterDiscovery, TypeInv, TypeOK, detailVars, runVars, listVars, discoveryVars
<1>7. CASE AfterDetails
  <2>1. /\ list' = <<>> /\ index' = 0 /\ startLast' = 0 /\ attempt' = 0
        /\ pc' \in {"beginDiscovery", "end"}
    BY <1>7 DEF AfterDetails, ForgetDetails
  <2>2. list' \in Seq(Product) /\ index' \in 0..Len(list') /\ attempt' \in 0..MaxAttempts
    BY <2>1, NumbersKnown
  <2>3. QED
    BY <1>7, <2>1, <2>2 DEF AfterDetails, TypeInv, TypeOK, detailVars, runVars, discoveryVars
<1>8. QED
  BY <1>1, <1>2, <1>3, <1>4, <1>5, <1>6, <1>7

LEMMA TypeDiscovery ==
  ASSUME TypeInv,
         \/ BeginDiscovery \/ SkipPosition \/ StopDiscovery \/ FailList
         \/ ReceiveList \/ ReceiveEmptyList
  PROVE  TypeInv'
<1>t. TypeOK
  BY DEF TypeInv
<1>1. CASE BeginDiscovery
  <2>1. mode \in Mode
    BY <1>1 DEF BeginDiscovery, TypeInv
  <2>2. /\ at' \in 0..MaxTime /\ here' \in Place /\ ids' \in Seq(Product)
        /\ sample' \in Samples /\ recorded' \subseteq Product
    <3>1. CASE discoveryState[mode] = None
      <4>1. /\ at' = Now /\ here' = First /\ ids' = <<>> /\ sample' = NoSample
            /\ recorded' \in {{}, recorded}
        BY <1>1, <3>1 DEF BeginDiscovery
      <4>2. ids' \in Seq(Product)
        BY <4>1
      <4>3. QED
        BY <4>1, <4>2, NowFits, FirstFits DEF TypeInv, TypeOK
    <3>2. CASE discoveryState[mode] # None
      <4>1. discoveryState[mode] \in DiscoveryFile
        BY <2>1, <3>2 DEF TypeInv, TypeOK
      <4>2. /\ at' = discoveryState[mode].at /\ ids' = discoveryState[mode].ids
            /\ sample' = discoveryState[mode].sample /\ recorded' = recorded
            /\ here' = [discoveryState[mode].here EXCEPT
                          !.pos = IF @ > LastPosition THEN 1 ELSE @]
        BY <1>1, <3>2 DEF BeginDiscovery, TakeUpSample
      <4>3. discoveryState[mode].here \in Place /\ 1 \in Position
        BY <4>1, NumbersKnown DEF DiscoveryFile, Position
      <4>4. here' \in Place
        BY <4>2, <4>3 DEF Place
      <4>5. QED
        BY <4>1, <4>2, <4>4 DEF DiscoveryFile, TypeInv, TypeOK
    <3>3. QED
      BY <3>1, <3>2
  <2>3. QED
    BY <1>1, <2>1, <2>2 DEF BeginDiscovery, TypeInv, TypeOK, detailVars, runVars, listVars
<1>2. CASE SkipPosition
  <2>1. /\ mode \in Mode /\ LeavePosition /\ pc = "listing"
        /\ ids' \in Seq(Product) /\ sample' \in Samples
    BY <1>2 DEF SkipPosition, TypeInv, TypeOK
  <2>2. /\ here' \in Place /\ pc' \in {"listing", "discovered"}
        /\ discoveryState' \in [Mode -> DiscoveryFile \cup {None}]
    BY <2>1, PositionIsLeft, <1>t
  <2>3. QED
    BY <1>2, <2>1, <2>2 DEF SkipPosition, TypeInv, TypeOK, detailVars, runVars, listVars
<1>3. CASE StopDiscovery \/ FailList
  <2>1. /\ mode \in Mode /\ pc = "listing" /\ here \in Place
        /\ ids' \in Seq(Product) /\ sample' \in Samples
    BY <1>3 DEF StopDiscovery, FailList, Listing, TypeInv, TypeOK
  <2>2. discoveryState' \in [Mode -> DiscoveryFile \cup {None}]
    <3>1. CASE WriteDiscoveryState(here)
      BY <2>1, <3>1, StateIsWritten, <1>t
    <3>2. CASE discoveryState' = discoveryState
      BY <3>2 DEF TypeInv, TypeOK
    <3>3. QED
      BY <1>3, <3>1, <3>2 DEF StopDiscovery, FailList
  <2>3. faults' \in 0..MaxFaults
    BY <1>3, FaultCounted DEF StopDiscovery, FailList, TypeInv, TypeOK
  <2>4. pc' = "discovered" /\ failed' \in BOOLEAN /\ stopped' \in BOOLEAN
    BY <1>3 DEF StopDiscovery, FailList, TypeInv, TypeOK
  <2>5. QED
    <3>1. UNCHANGED <<schedule, found, detailVars, mode, limited, used, listVars, outcome,
                      listing, at, here, recorded>>
      BY <1>3 DEF StopDiscovery, FailList
    <3>2. QED
      BY <2>1, <2>2, <2>3, <2>4, <3>1 DEF TypeInv, TypeOK, detailVars, listVars
<1>4. CASE ReceiveList
  <2>1. mode \in Mode /\ pc = "listing" /\ ReceivesItems /\ used < Budget
    BY <1>4 DEF ReceiveList, ReceivesItems, Listing, CanCall, TypeInv
  <2>2. /\ found' \in [Product -> 0..MaxTime]
        /\ ids' \in Seq(Product) /\ sample' \in Samples /\ recorded' \subseteq Product
    BY <1>4, <2>1, PageIsTaken DEF ReceiveList
  <2>3. used' \in 0..Budget
    <3>1. used' = used + 1
      BY <1>4 DEF ReceiveList
    <3>2. used \in 0..Budget
      BY <1>t DEF TypeOK
    <3>3. QED
      BY <2>1, <3>1, <3>2, NumbersKnown
  <2>4. /\ here' \in Place /\ pc' \in {"listing", "discovered"}
        /\ discoveryState' \in [Mode -> DiscoveryFile \cup {None}]
    <3>1. CASE LeavePosition
      BY <2>1, <2>2, <3>1, PositionIsLeft, <1>t
    <3>2. CASE here' = [here EXCEPT !.page = @ + 1] /\ WriteDiscoveryState(here')
               /\ pc' \in {"listing", "discovered"}
      <4>1. here' \in Place
        <5>1. here \in [pos : Position, page : Nat \ {0}]
          BY DEF Place, TypeInv, TypeOK
        <5>2. here.page + 1 \in Nat \ {0}
          BY <5>1
        <5>3. QED
          BY <3>2, <5>1, <5>2 DEF Place
      <4>2. QED
        BY <2>1, <2>2, <3>2, <4>1, StateIsWritten, <1>t
    <3>3. QED
      BY <1>4, <2>1, <3>1, <3>2 DEF ReceiveList
  <2>5. QED
    BY <1>4, <2>1, <2>2, <2>3, <2>4 DEF ReceiveList, TypeInv, TypeOK, detailVars, listVars
<1>5. CASE ReceiveEmptyList
  <2>1. /\ mode \in Mode /\ LeavePosition /\ pc = "listing" /\ used < Budget
        /\ ids' \in Seq(Product) /\ sample' \in Samples
    BY <1>5 DEF ReceiveEmptyList, Listing, CanCall, TypeInv, TypeOK
  <2>2. /\ here' \in Place /\ pc' \in {"listing", "discovered"}
        /\ discoveryState' \in [Mode -> DiscoveryFile \cup {None}]
    BY <2>1, PositionIsLeft, <1>t
  <2>3. used' \in 0..Budget
    BY <1>5, <2>1, NumbersKnown DEF ReceiveEmptyList, TypeInv, TypeOK
  <2>4. QED
    BY <1>5, <2>1, <2>2, <2>3 DEF ReceiveEmptyList, TypeInv, TypeOK, detailVars, listVars
<1>6. QED
  BY <1>1, <1>2, <1>3, <1>4, <1>5

\* What collect_details is called with.
LEMMA CallDetailsFits ==
  ASSUME TypeInv, CallDetails
  PROVE  /\ mode \in Mode
         /\ BeginDetails(list')
         /\ list' \in Seq(Product)
         /\ mode = "fixed" => list' = ids
         /\ mode # "fixed" => list' \in {DiscoveredIds, FirstOf(DiscoveredIds, ProductLimit)}
<1> DEFINE given == IF mode = "fixed" THEN ids
                    ELSE IF limited THEN FirstOf(DiscoveredIds, ProductLimit)
                    ELSE DiscoveredIds
<1>1. BeginDetails(given) /\ list' = given /\ mode \in Mode
  BY DEF CallDetails, BeginDetails, TypeInv
<1>2. given \in Seq(Product)
  <2>1. found \in [Product -> Nat] /\ ids \in Seq(Product)
    BY NumbersKnown DEF TypeInv, TypeOK
  <2>2. DiscoveredIds \in Seq(Product)
    BY <2>1, DiscoveredIdsSorted
  <2>3. FirstOf(DiscoveredIds, ProductLimit) \in Seq(Product)
    BY <2>2, FirstOfFits, NumbersKnown
  <2>4. QED
    BY <2>1, <2>2, <2>3
<1>3. BeginDetails(list')
  BY <1>1
<1>4. QED
  BY <1>1, <1>2, <1>3

LEMMA TypeDetails ==
  ASSUME TypeInv, CallDetails \/ Details \/ (DetailsFault /\ UNCHANGED <<listing, discoveryVars>>)
  PROVE  TypeInv'
<1>1. CASE CallDetails
  <2>1. mode \in Mode /\ BeginDetails(list') /\ list' \in Seq(Product)
    BY <1>1, CallDetailsFits
  <2>2. detailState[mode] \in DetailFile \cup {None}
    BY <2>1 DEF TypeInv, TypeOK
  <2>3. index' \in 0..Len(list')
    BY <2>1, <2>2, ResumeIndexFits DEF BeginDetails
  <2>4. startLast' \in Product \cup {0} /\ attempt' = 0 /\ attempt' \in 0..MaxAttempts
    <3>1. detailState[mode] # None => detailState[mode].last \in Product \cup {0}
      BY <2>2 DEF DetailFile
    <3>2. QED
      BY <2>1, <3>1, NumbersKnown DEF BeginDetails
  <2>5. due' \in [Mode -> SUBSET Product] /\ relisted' \subseteq Mode /\ pc' = "batch"
    <3>1. ToSet(list') \subseteq Product
      BY <2>1 DEF ToSet
    <3>2. due' \in [Mode -> SUBSET Product]
      BY <2>1, <3>1 DEF BeginDetails, TypeInv, TypeOK
    <3>3. relisted' \subseteq Mode
      BY <2>1, ModesKnown DEF BeginDetails, TypeInv, TypeOK
    <3>4. QED
      BY <2>1, <3>2, <3>3 DEF BeginDetails
  <2>6. QED
    BY <1>1, <2>1, <2>3, <2>4, <2>5
    DEF CallDetails, TypeInv, TypeOK, runVars, discoveryVars
<1>2. CASE ReceiveBatch /\ UNCHANGED <<listing, discoveryVars>>
  <2>1. /\ pc = "batch" /\ mode \in Mode /\ index < Len(list) /\ used < Budget
    BY <1>2 DEF ReceiveBatch, Fetching, CanCall, TypeInv
  <2>2. PICK errors \in SUBSET ToSet(Batch) :
            /\ Answered(errors)
            /\ IF errors = {}
                 THEN pc' = "write" /\ UNCHANGED <<failed, faults>>
                 ELSE pc' = "detailsEnded" /\ failed' = TRUE /\ Fault
    BY <1>2 DEF ReceiveBatch
  <2>3. due' \in [Mode -> SUBSET Product]
    BY <2>2 DEF Answered, TypeInv, TypeOK
  <2>4. /\ pc' \in {"write", "detailsEnded"} /\ failed' \in BOOLEAN
        /\ faults' \in 0..MaxFaults
    BY <2>2, FaultCounted DEF TypeInv, TypeOK
  <2>5. used' \in 0..Budget /\ attempt' \in 0..MaxAttempts
    BY <1>2, <2>1, NumbersKnown DEF ReceiveBatch, TypeInv, TypeOK
  <2>6. QED
    BY <1>2, <2>1, <2>3, <2>4, <2>5 DEF ReceiveBatch, TypeInv, TypeOK, discoveryVars
<1>3. CASE SaveDetailState /\ UNCHANGED <<listing, discoveryVars>>
  <2>1. pc = "write" /\ mode \in Mode /\ index < Len(list) /\ attempt = 0 /\ TypeOK
    BY <1>3 DEF SaveDetailState, TypeInv
  <2>2. /\ index' = index + Len(Batch) /\ index' \in 0..Len(list)
        /\ Last(Batch) \in Product
    BY <1>3, <2>1, BatchFits DEF SaveDetailState
  <2>3. [list |-> list, next |-> index', last |-> Last(Batch)] \in DetailFile
    BY <2>1, <2>2 DEF DetailFile, TypeOK
  <2>4. detailState' \in [Mode -> DetailFile \cup {None}]
    BY <1>3, <2>1, <2>3, DetailStateIsWritten DEF SaveDetailState
  <2>5. attempt' = attempt /\ list' = list /\ pc' = "batch"
    BY <1>3 DEF SaveDetailState
  <2>6. QED
    BY <1>3, <2>1, <2>2, <2>4, <2>5
    DEF SaveDetailState, TypeInv, TypeOK, runVars, discoveryVars
<1>4. CASE FinishDetails /\ UNCHANGED <<listing, discoveryVars>>
  <2>1. detailState' \in [Mode -> DetailFile \cup {None}]
    BY <1>4, DetailStateIsWritten DEF FinishDetails, TypeInv
  <2>2. QED
    BY <1>4, <2>1 DEF FinishDetails, TypeInv, TypeOK, runVars, listVars, discoveryVars
<1>5. CASE StopDetails /\ UNCHANGED <<listing, discoveryVars>>
  <2>1. [list |-> list, next |-> index, last |-> startLast] \in DetailFile
    BY DEF DetailFile, TypeInv, TypeOK
  <2>2. detailState' \in [Mode -> DetailFile \cup {None}]
    BY <1>5, <2>1, DetailStateIsWritten DEF StopDetails, TypeInv
  <2>3. faults' \in 0..MaxFaults
    BY <1>5, FaultCounted DEF StopDetails, TypeInv, TypeOK
  <2>4. QED
    BY <1>5, <2>2, <2>3 DEF StopDetails, Fetching, TypeInv, TypeOK, listVars, discoveryVars
<1>6. CASE (RetryBatch \/ FailBatch) /\ UNCHANGED <<listing, discoveryVars>>
  <2>1. /\ pc = "batch" /\ mode \in Mode /\ index < Len(list) /\ used < Budget
    BY <1>6 DEF RetryBatch, FailBatch, Fetching, CanCall, TypeInv
  <2>2. used' = used + 1 /\ used' \in 0..Budget /\ faults' \in 0..MaxFaults
    BY <1>6, <2>1, NumbersKnown, FaultCounted DEF RetryBatch, FailBatch, TypeInv, TypeOK
  <2>3. CASE RetryBatch
    <3>1. attempt' \in 0..MaxAttempts /\ used' < Budget
      BY <2>3, NumbersKnown DEF RetryBatch, TypeInv, TypeOK
    <3>2. QED
      BY <1>6, <2>1, <2>2, <2>3, <3>1 DEF RetryBatch, TypeInv, TypeOK, detailVars, discoveryVars
  <2>4. CASE FailBatch
    BY <1>6, <2>1, <2>2, <2>4 DEF FailBatch, TypeInv, TypeOK, detailVars, listVars, discoveryVars
  <2>5. QED
    BY <1>6, <2>3, <2>4
<1>7. QED
  BY <1>1, <1>2, <1>3, <1>4, <1>5, <1>6 DEF Details, DetailsStep, DetailsFault

LEMMA TypeNext == TypeInv /\ [Next]_vars => TypeInv'
<1>1. TypeInv /\ UNCHANGED vars => TypeInv'
  BY DEF TypeInv, TypeOK, vars, detailsVars, detailVars, runVars, listVars, discoveryVars
<1>2. QED
  BY <1>1, TypeRuns, TypeDiscovery, TypeDetails DEF Next, Step, Faults

LEMMA TypeInvHolds == Spec => []TypeInv
  BY TypeInit, TypeNext, PTL DEF Spec

\* Type correctness: among others, no run makes more calls than its budget has,
\* and no state file names a place outside of its list.
THEOREM TypeCorrect == Spec => []TypeOK
<1>1. TypeInv => TypeOK
  BY DEF TypeInv
<1>2. QED
  BY <1>1, TypeInvHolds, PTL

-----------------------------------------------------------------------------
(* Details: what is due comes after what a run may skip. *)

LEMMA DetailsInit == Init => DetailsInv
<1> SUFFICES ASSUME Init PROVE DetailsInv
  OBVIOUS
<1>1. TypeInv
  BY TypeInit
<1>2. \A m \in Mode : DetailModes(m) \subseteq Mode
  BY ModesKnown
<1>3. detailState = [m \in Mode |-> None] /\ due = [m \in Mode |-> {}] /\ pc = "down"
  BY DEF Init
<1>4. Shared /\ FixedFile /\ \A m \in Mode \ {"fixed"} : MainFile(m)
  BY <1>2, <1>3 DEF Shared, FixedFile, FixedKept, MainFile
<1>5. MainRun /\ FixedRun
  BY <1>3 DEF MainRun, FixedRun, InDetails
<1>6. QED
  BY <1>1, <1>3, <1>4, <1>5 DEF DetailsInv

LEMMA OrderOfTargets ==
  ASSUME TypeInv
  PROVE  /\ \A p \in Product : ~Precedes(p, p)
         /\ \A p, q, r \in Product : Precedes(p, q) /\ Precedes(q, r) => Precedes(p, r)
         /\ \A p, q \in Product : p # q => Precedes(p, q) \/ Precedes(q, p)
<1>1. found \in [Product -> Nat]
  BY NumbersKnown DEF TypeInv, TypeOK
<1>2. QED
  BY <1>1, PrecedesOrders

\* Targets stay, with their times.
LEMMA TargetsStay ==
  ASSUME TypeInv, SaveTargets
  PROVE  \A p \in Product : found[p] > 0 => found'[p] = found[p]
<1>1. \A p \in Product : found[p] \in Nat
  BY NumbersKnown DEF TypeInv, TypeOK
<1>2. QED
  BY <1>1 DEF SaveTargets

\* New targets leave the files as good as they were.
LEMMA FilesKept ==
  ASSUME DetailsInv, UNCHANGED detailVars,
         \A p \in Product : found[p] > 0 => found'[p] = found[p]
  PROVE  Shared' /\ FixedFile' /\ \A m \in Mode \ {"fixed"} : MainFile(m)'
<1>1. detailState' = detailState /\ due' = due /\ relisted' = relisted
  BY DEF detailVars
<1>2. Shared' /\ FixedFile'
  BY <1>1 DEF DetailsInv, Shared, FixedFile, FixedKept, FixedPlace
<1>3. ASSUME NEW m \in Mode \ {"fixed"}
      PROVE  MainFile(m)'
  <2>1. MainFile(m) /\ due[m] \subseteq Product
    BY DEF DetailsInv, TypeInv, TypeOK
  <2>2. \A p \in due[m] : p \in Product /\ found[p] > 0 /\ found'[p] = found[p]
    <3>1. \A p \in due[m] : p \in Product /\ found[p] > 0
      BY <2>1 DEF MainFile
    <3>2. QED
      BY <3>1
  <2>3. ASSUME NEW p \in Product, Behind(p, m)
        PROVE  Behind(p, m)'
    <3>1. found[p] > 0 /\ \A q \in due[m] : Precedes(p, q)
      BY <2>3 DEF Behind
    <3>2. found'[p] = found[p]
      BY <3>1
    <3>3. \A q \in due[m] : Precedes(p, q)'
      BY <2>2, <3>1, <3>2 DEF Precedes
    <3>4. due'[m] = due[m] /\ found'[p] > 0
      BY <1>1, <3>1, <3>2
    <3>5. QED
      BY <3>3, <3>4 DEF Behind
  <2>4. ASSUME detailState[m] # None
        PROVE  /\ \A k \in 1..detailState[m].next : detailState[m].list[k] \in Product
               /\ detailState[m].last \in Product \cup {0}
    <3>1. detailState[m] \in DetailFile
      BY <2>4 DEF DetailsInv, TypeInv, TypeOK
    <3>2. QED
      BY <3>1 DEF DetailFile
  <2>5. (detailState[m] # None =>
            MainPlace(m, detailState[m].list, detailState[m].next, detailState[m].last))'
    BY <1>1, <2>1, <2>3, <2>4 DEF MainFile, MainPlace
  <2>6. \A p \in due'[m] : found'[p] > 0
    BY <1>1, <2>2
  <2>7. QED
    BY <2>5, <2>6 DEF MainFile
<1>4. QED
  BY <1>2, <1>3

\* Steps that leave the details, or do not come to them.
LEMMA DetailsElsewhere ==
  ASSUME DetailsInv, TypeInv', UNCHANGED detailVars,
         \A p \in Product : found[p] > 0 => found'[p] = found[p],
         pc' \notin {"batch", "write", "detailsDone"}
  PROVE  DetailsInv'
<1>1. MainRun' /\ FixedRun'
  BY DEF MainRun, FixedRun, InDetails
<1>2. QED
  BY <1>1, FilesKept DEF DetailsInv

\* Steps that leave the details as they are.
LEMMA DetailsKept ==
  ASSUME DetailsInv, TypeInv',
         UNCHANGED <<found, detailVars, pc, mode, list, index, startLast>>
  PROVE  DetailsInv'
<1>1. Shared' /\ FixedFile' /\ \A m \in Mode \ {"fixed"} : MainFile(m)'
  BY FilesKept
<1>2. due' = due /\ relisted' = relisted
  BY DEF detailVars
<1>3. MainRun'
  BY <1>2 DEF DetailsInv, MainRun, InDetails, Beginning, MainPlace, Behind, Precedes, Batch
<1>4. FixedRun'
  BY <1>2 DEF DetailsInv, FixedRun, FixedKept, FixedPlace, InDetails, Batch
<1>5. QED
  BY <1>1, <1>3, <1>4 DEF DetailsInv

\* What the query returns, whole or cut, begins the order of the targets.
LEMMA ListBegins ==
  ASSUME TypeInv, NEW s \in {DiscoveredIds, FirstOf(DiscoveredIds, ProductLimit)}
  PROVE  s \in Seq(Product) /\ Beginning(s)
<1> DEFINE all == DiscoveredIds
<1>1. found \in [Product -> Nat]
  BY NumbersKnown DEF TypeInv, TypeOK
<1>2. /\ all \in Seq(Product)
      /\ \A i \in DOMAIN all : found[all[i]] > 0
      /\ \A i, j \in DOMAIN all : i < j => Precedes(all[i], all[j])
      /\ \A p \in Product : found[p] > 0 => \E i \in DOMAIN all : all[i] = p
  BY <1>1, DiscoveredIdsSorted
<1> HIDE DEF all
<1>3. /\ s \in Seq(Product) /\ Len(s) <= Len(all) /\ DOMAIN s = 1..Len(s)
      /\ \A i \in 1..Len(s) : s[i] = all[i]
  <2>1. CASE s = all
    BY <1>2, <2>1
  <2>2. CASE s = FirstOf(all, ProductLimit)
    BY <1>2, <2>2, FirstOfFits, NumbersKnown
  <2>3. QED
    BY <2>1, <2>2 DEF all
<1>4. DOMAIN all = 1..Len(all) /\ Len(all) \in Nat /\ Len(s) \in Nat
  BY <1>2, <1>3
<1>5. \A i \in 1..Len(s) : i \in 1..Len(all) /\ i \in Nat
  BY <1>3, <1>4
<1>6. \A i \in DOMAIN s : found[s[i]] > 0
  BY <1>2, <1>3, <1>4, <1>5
<1>7. \A i, j \in DOMAIN s : i < j => Precedes(s[i], s[j])
  BY <1>2, <1>3, <1>4, <1>5
<1>8. ASSUME NEW p \in Product, NEW i \in DOMAIN s, found[p] > 0, Precedes(p, s[i])
      PROVE  p \in ToSet(s)
  <2>1. PICK j \in DOMAIN all : all[j] = p
    BY <1>2, <1>8
  <2>2. i \in 1..Len(all) /\ s[i] = all[i] /\ i \in Nat /\ j \in Nat /\ i \in 1..Len(s)
    BY <1>3, <1>4, <1>5, <1>8, <2>1
  <2>3. ~(i < j)
    <3>1. SUFFICES ASSUME i < j PROVE FALSE
      OBVIOUS
    <3>2. Precedes(s[i], p)
      BY <1>2, <1>4, <2>1, <2>2, <3>1
    <3>3. s[i] \in Product
      BY <1>3, <2>2
    <3>4. QED
      BY <1>8, <3>2, <3>3, OrderOfTargets
  <2>4. j \in 1..Len(s)
    BY <1>4, <2>1, <2>2, <2>3
  <2>5. s[j] = p
    BY <1>3, <2>1, <2>4
  <2>6. QED
    BY <1>3, <2>4, <2>5 DEF ToSet
<1>9. QED
  BY <1>3, <1>6, <1>7, <1>8 DEF Beginning

\* The main runs go on where nothing due is left behind.
LEMMA MainResumes ==
  ASSUME DetailsInv, NEW m \in Mode \ {"fixed"}, detailState[m] # None,
         NEW s \in Seq(Product), Beginning(s)
  PROVE  MainPlace(m, s, ResumeIndex(s, detailState[m]), detailState[m].last)
<1> DEFINE state == detailState[m]
           n == ResumeIndex(s, state)
<1>1. /\ state \in DetailFile /\ state # None /\ due[m] \subseteq Product
      /\ MainPlace(m, state.list, state.next, state.last)
  BY DEF DetailsInv, MainFile, TypeInv, TypeOK
<1>2. CASE state.list = s
  <2>1. n = state.next
    BY <1>1, <1>2 DEF ResumeIndex
  <2>2. QED
    BY <1>1, <1>2, <2>1
<1>3. CASE state.list # s /\ state.last \in ToSet(s)
  <2>1. \E i \in DOMAIN s : s[i] = state.last
    BY <1>3 DEF ToSet
  <2>2. n = CHOOSE i \in DOMAIN s : s[i] = state.last
    BY <1>1, <1>3 DEF ResumeIndex
  <2> HIDE DEF n, state
  <2>3. n \in DOMAIN s /\ s[n] = state.last /\ DOMAIN s = 1..Len(s) /\ Len(s) \in Nat
    BY <2>1, <2>2
  <2>4. state.last \in Product /\ state.last # 0
    BY <2>3, NumbersKnown
  <2>5. Behind(state.last, m)
    BY <1>1, <2>4 DEF MainPlace
  <2>6. ASSUME NEW k \in 1..n
        PROVE  Behind(s[k], m)
    <3>1. CASE k = n
      BY <2>3, <2>5, <3>1
    <3>2. CASE k # n
      <4>1. k \in DOMAIN s /\ k < n /\ s[k] \in Product
        BY <2>3, <3>2
      <4>2. Precedes(s[k], state.last) /\ found[s[k]] > 0
        BY <2>3, <4>1 DEF Beginning
      <4>3. \A q \in due[m] : Precedes(state.last, q) /\ q \in Product
        BY <1>1, <2>5 DEF Behind
      <4>4. \A q \in due[m] : Precedes(s[k], q)
        BY <2>4, <4>1, <4>2, <4>3, OrderOfTargets DEF DetailsInv
      <4>5. QED
        BY <4>2, <4>4 DEF Behind
    <3>3. QED
      BY <3>1, <3>2
  <2>7. QED
    BY <2>5, <2>6 DEF MainPlace, n, state
<1>4. CASE state.list # s /\ state.last \notin ToSet(s)
  <2>1. n = 0
    BY <1>1, <1>4 DEF ResumeIndex
  <2>2. QED
    BY <1>1, <2>1 DEF MainPlace
<1>5. QED
  BY <1>2, <1>3, <1>4

\* So does the fixed collection, if its list has lost nothing and kept its order.
LEMMA FixedResumes ==
  ASSUME DetailsInv, FixedKept, detailState["fixed"] # None,
         NEW s \in Seq(Product), SameOrder(detailState["fixed"].list, s),
         ToSet(detailState["fixed"].list) \subseteq ToSet(s)
  PROVE  FixedPlace(s, ResumeIndex(s, detailState["fixed"]), detailState["fixed"].last)
<1> DEFINE state == detailState["fixed"]
           n == ResumeIndex(s, state)
<1>1. /\ state \in DetailFile /\ state # None /\ due["fixed"] \subseteq Product
      /\ FixedPlace(state.list, state.next, state.last)
  BY DEF DetailsInv, FixedFile, FixedKept, TypeInv, TypeOK
<1>2. due["fixed"] \subseteq ToSet(s)
  BY <1>1 DEF FixedPlace
<1>3. CASE state.list = s
  <2>1. n = state.next
    BY <1>1, <1>3 DEF ResumeIndex
  <2>2. QED
    BY <1>1, <1>3, <2>1
<1>4. CASE state.list # s /\ state.last \in ToSet(s)
  <2>1. \E i \in DOMAIN s : s[i] = state.last
    BY <1>4 DEF ToSet
  <2>2. n = CHOOSE i \in DOMAIN s : s[i] = state.last
    BY <1>1, <1>4 DEF ResumeIndex
  <2>3. SameOrder(state.list, s) /\ state.list \in Seq(Product) /\ state.next \in Nat
        /\ state.next <= Len(state.list)
    BY <1>1 DEF DetailFile
  <2> HIDE DEF n, state
  <2>4. n \in DOMAIN s /\ s[n] = state.last /\ DOMAIN s = 1..Len(s) /\ Len(s) \in Nat
    BY <2>1, <2>2
  <2>5. state.last # 0 /\ n \in 1..n /\ n \in Nat
    <3>1. state.last \in Product
      BY <2>4
    <3>2. QED
      BY <2>4, <3>1, NumbersKnown
  <2>6. PICK k \in 1..state.next : state.list[k] = state.last
    BY <1>1, <2>5 DEF FixedPlace
  <2>7. ASSUME NEW j \in 1..n, s[j] \in due["fixed"]
        PROVE  FALSE
    <3>1. s[j] \in ToSet(state.list)
      BY <1>1, <2>7 DEF FixedPlace
    <3>2. PICK l \in DOMAIN state.list : state.list[l] = s[j]
      BY <3>1 DEF ToSet
    <3>3. l \in Nat /\ l > 0 /\ l \notin 1..state.next
      BY <1>1, <2>3, <2>7, <3>2 DEF FixedPlace
    <3>4. k < l /\ k \in DOMAIN state.list /\ j \in DOMAIN s
      BY <2>3, <2>4, <2>6, <3>3
    <3>5. state.list[k] = s[n] /\ state.list[l] = s[j]
      BY <2>4, <2>6, <3>2
    <3>6. n < j
      BY <2>3, <2>4, <3>2, <3>4, <3>5 DEF SameOrder
    <3>7. QED
      BY <2>5, <3>6
  <2>8. QED
    BY <1>2, <2>4, <2>5, <2>7 DEF FixedPlace, n, state
<1>5. CASE state.list # s /\ state.last \notin ToSet(s)
  <2>1. n = 0
    BY <1>1, <1>5 DEF ResumeIndex
  <2>2. state.last = 0
    <3>1. CASE state.last # 0
      <4>1. PICK k \in 1..state.next : state.list[k] = state.last
        BY <1>1, <3>1 DEF FixedPlace
      <4>2. state.list \in Seq(Product) /\ k \in 1..Len(state.list)
        BY <1>1 DEF DetailFile
      <4>3. state.list[k] \in ToSet(state.list)
        BY <4>2 DEF ToSet
      <4>4. QED
        BY <1>5, <4>1, <4>3
    <3>2. QED
      BY <3>1
  <2>3. QED
    BY <1>2, <2>1, <2>2 DEF FixedPlace
<1>6. QED
  BY <1>3, <1>4, <1>5

LEMMA DetailsBegin ==
  ASSUME DetailsInv, CallDetails
  PROVE  DetailsInv'
<1> DEFINE s == list'
           state == detailState[mode]
<1>1. /\ mode \in Mode /\ BeginDetails(s) /\ s \in Seq(Product)
      /\ mode # "fixed" => s \in {DiscoveredIds, FirstOf(DiscoveredIds, ProductLimit)}
      /\ UNCHANGED <<found, detailState, mode>>
  BY CallDetailsFits DEF DetailsInv, CallDetails, runVars
<1>2. TypeInv' /\ pc' = "batch" /\ index' = ResumeIndex(s, state)
      /\ startLast' = IF state = None THEN 0 ELSE state.last
  BY <1>1, TypeDetails DEF DetailsInv, BeginDetails
<1>3. /\ due' = [m \in Mode |-> IF m \in DetailModes(mode) /\ state = None
                                THEN ToSet(s) ELSE due[m]]
      /\ due \in [Mode -> SUBSET Product]
      /\ mode \in DetailModes(mode) /\ DetailModes(mode) \subseteq Mode
  BY <1>1, ModesKnown DEF BeginDetails, DetailsInv, TypeInv, TypeOK
<1>4. \A m \in DetailModes(mode) : detailState[m] = state
  BY <1>1 DEF DetailsInv, Shared
<1>5. ToSet(s) \subseteq Product
  BY <1>1 DEF ToSet
<1>6. Shared'
  <2>1. \A m \in Mode : \A n \in DetailModes(m) :
            n \in Mode /\ (n \in DetailModes(mode) <=> m \in DetailModes(mode))
    <3>1. Mode \subseteq {"full", "daily", "fixed"}
      BY ModesKnown
    <3>2. QED
      BY <3>1, <1>1 DEF DetailModes
  <2>2. \A m \in Mode : \A n \in DetailModes(m) :
            detailState[n] = detailState[m] /\ due[n] = due[m]
    BY DEF DetailsInv, Shared
  <2>3. \A m \in Mode : \A n \in DetailModes(m) : due'[n] = due'[m]
    BY <1>3, <2>1, <2>2
  <2>4. QED
    BY <1>1, <2>2, <2>3 DEF Shared
<1>7. CASE mode # "fixed"
  <2>1. s \in Seq(Product) /\ Beginning(s)
    BY <1>1, <1>7, ListBegins DEF DetailsInv
  <2>2. Beginning(list)'
    BY <1>1, <2>1 DEF Beginning, Precedes
  <2>3. due'["fixed"] = due["fixed"] \/ "fixed" \notin Mode
    BY <1>1, <1>3, <1>7, ModesKnown
  <2>4. FixedKept' => FixedKept
    <3>1. "fixed" \notin DetailModes(mode)
      BY <1>1, <1>7, ModesKnown
    <3>2. "fixed" \in relisted => "fixed" \in relisted'
      BY <1>1, <3>1 DEF BeginDetails
    <3>3. QED
      BY <3>2 DEF FixedKept
  <2>5. FixedFile'
    <3>1. FixedKept' /\ detailState["fixed"] # None =>
            FixedPlace(detailState["fixed"].list, detailState["fixed"].next,
                       detailState["fixed"].last)'
      BY <1>1, <2>3, <2>4 DEF DetailsInv, FixedFile, FixedPlace, FixedKept
    <3>2. QED
      BY <1>1, <3>1 DEF FixedFile
  <2>6. CASE state = None
    <3>1. ASSUME NEW m \in Mode \ {"fixed"}
          PROVE  MainFile(m)'
      <4>1. m \in DetailModes(mode)
        BY <1>1, <1>7, ModesKnown DEF DetailModes
      <4>2. detailState'[m] = None /\ due'[m] = ToSet(s)
        BY <1>1, <1>3, <1>4, <2>6, <4>1
      <4>3. \A p \in ToSet(s) : found'[p] > 0
        BY <1>1, <2>1 DEF Beginning, ToSet
      <4>4. QED
        BY <4>2, <4>3 DEF MainFile
    <3>2. index' = 0 /\ startLast' = 0
      BY <1>2, <2>6 DEF ResumeIndex
    <3>3. MainPlace(mode, list, index, startLast)'
      BY <3>2 DEF MainPlace
    <3>4. QED
      BY <1>1, <1>2, <1>6, <1>7, <2>2, <2>5, <3>1, <3>3
      DEF DetailsInv, MainRun, FixedRun
  <2>7. CASE state # None
    <3>1. due' = due
      BY <1>3, <2>7
    <3>2. ASSUME NEW m \in Mode \ {"fixed"}
          PROVE  MainFile(m)'
      BY <1>1, <3>1 DEF DetailsInv, MainFile, MainPlace, Behind, Precedes
    <3>3. MainPlace(mode, s, index', startLast')
      <4>1. MainPlace(mode, s, ResumeIndex(s, state), state.last)
        BY <1>1, <1>7, <2>1, <2>7, MainResumes
      <4>2. QED
        BY <1>2, <2>7, <4>1
    <3>4. MainPlace(mode, list, index, startLast)'
      BY <1>1, <3>1, <3>3 DEF MainPlace, Behind, Precedes
    <3>5. QED
      BY <1>1, <1>2, <1>6, <1>7, <2>2, <2>5, <3>2, <3>4
      DEF DetailsInv, MainRun, FixedRun
  <2>8. QED
    BY <2>6, <2>7
<1>8. CASE mode = "fixed"
  <2>1. \A m \in Mode \ {"fixed"} : due'[m] = due[m]
    BY <1>1, <1>3, <1>8 DEF DetailModes
  <2>2. ASSUME NEW m \in Mode \ {"fixed"}
        PROVE  MainFile(m)'
    BY <1>1, <2>1 DEF DetailsInv, MainFile, MainPlace, Behind, Precedes
  <2>3. CASE state = None
    <3>1. index' = 0 /\ startLast' = 0 /\ due'["fixed"] = ToSet(s)
      BY <1>2, <1>3, <1>8, <2>3 DEF ResumeIndex
    <3>2. FixedPlace(list, index, startLast)'
      BY <3>1 DEF FixedPlace
    <3>3. FixedFile'
      BY <1>1, <1>8, <2>3 DEF FixedFile
    <3>4. QED
      BY <1>1, <1>2, <1>6, <1>8, <2>2, <3>2, <3>3 DEF DetailsInv, MainRun, FixedRun
  <2>4. CASE state # None
    <3>1. due' = due
      BY <1>3, <2>4
    <3>2. relisted' = IF /\ SameOrder(state.list, s)
                         /\ ToSet(state.list) \subseteq ToSet(s)
                      THEN relisted ELSE relisted \cup DetailModes(mode)
      BY <1>1, <1>8, <2>4 DEF BeginDetails
    <3>3. ASSUME FixedKept'
          PROVE  /\ FixedKept
                 /\ SameOrder(state.list, s) /\ ToSet(state.list) \subseteq ToSet(s)
      BY <1>3, <1>8, <3>2, <3>3 DEF FixedKept
    <3>4. FixedFile'
      BY <1>1, <3>1, <3>3 DEF DetailsInv, FixedFile, FixedPlace
    <3>5. ASSUME FixedKept'
          PROVE  FixedPlace(list, index, startLast)'
      <4>1. FixedPlace(s, ResumeIndex(s, state), state.last)
        BY <1>1, <1>8, <2>4, <3>3, <3>5, FixedResumes
      <4>2. FixedPlace(s, index', startLast')
        BY <1>2, <2>4, <4>1
      <4>3. QED
        BY <3>1, <4>2 DEF FixedPlace
    <3>6. QED
      BY <1>1, <1>2, <1>6, <1>8, <2>2, <3>4, <3>5 DEF DetailsInv, MainRun, FixedRun
  <2>5. QED
    BY <2>3, <2>4
<1>9. QED
  BY <1>7, <1>8


\* Answers leave less due, and the files as good as they were.
LEMMA FilesAnswered ==
  ASSUME DetailsInv, UNCHANGED <<found, detailState, relisted>>,
         NEW errors, mode \in Mode, Answered(errors)
  PROVE  /\ Shared' /\ FixedFile' /\ \A m \in Mode \ {"fixed"} : MainFile(m)'
         /\ \A m \in Mode : due'[m] \subseteq due[m]
         /\ due'[mode] = due[mode] \ (ToSet(Batch) \ errors)
<1>1. /\ due' = [m \in Mode |-> IF m \in DetailModes(mode)
                                THEN due[m] \ (ToSet(Batch) \ errors) ELSE due[m]]
      /\ mode \in DetailModes(mode)
  BY ModesKnown DEF Answered
<1>2. \A m \in Mode : due'[m] \subseteq due[m]
  BY <1>1
<1>3. Shared'
  <2>1. \A m \in Mode : \A n \in DetailModes(m) :
            n \in Mode /\ (n \in DetailModes(mode) <=> m \in DetailModes(mode))
    <3>1. Mode \subseteq {"full", "daily", "fixed"}
      BY ModesKnown
    <3>2. QED
      BY <3>1 DEF DetailModes
  <2>2. \A m \in Mode : \A n \in DetailModes(m) :
            detailState[n] = detailState[m] /\ due[n] = due[m]
    BY DEF DetailsInv, Shared
  <2>3. \A m \in Mode : \A n \in DetailModes(m) : due'[n] = due'[m]
    BY <1>1, <2>1, <2>2
  <2>4. QED
    BY <2>2, <2>3 DEF Shared
<1>4. FixedFile'
  BY <1>2 DEF DetailsInv, FixedFile, FixedKept, FixedPlace
<1>5. \A m \in Mode \ {"fixed"} : MainFile(m)'
  BY <1>2 DEF DetailsInv, MainFile, MainPlace, Behind, Precedes
<1>6. QED
  BY <1>1, <1>2, <1>3, <1>4, <1>5

LEMMA DetailsAnswered ==
  ASSUME DetailsInv, ReceiveBatch, TypeInv'
  PROVE  DetailsInv'
<1>1. /\ pc = "batch" /\ mode \in Mode /\ InDetails
      /\ UNCHANGED <<found, detailState, relisted, mode, list, index, startLast>>
  BY DEF ReceiveBatch, Fetching, DetailsInv, TypeInv, InDetails
<1>2. PICK errors \in SUBSET ToSet(Batch) :
        /\ Answered(errors)
        /\ IF errors = {} THEN pc' = "write" ELSE pc' = "detailsEnded"
  BY DEF ReceiveBatch
<1>3. /\ Shared' /\ FixedFile' /\ \A m \in Mode \ {"fixed"} : MainFile(m)'
      /\ \A m \in Mode : due'[m] \subseteq due[m]
      /\ due'[mode] = due[mode] \ (ToSet(Batch) \ errors)
  BY <1>1, <1>2, FilesAnswered
<1>4. pc' = "write" => ToSet(Batch) \cap due'[mode] = {}
  BY <1>2, <1>3
<1>5. Batch' = Batch
  BY <1>1 DEF Batch
<1>6. MainRun'
  <2>1. CASE mode # "fixed"
    <3>1. Beginning(list) /\ MainPlace(mode, list, index, startLast)
      BY <1>1, <2>1 DEF DetailsInv, MainRun
    <3>2. Beginning(list)'
      BY <1>1, <3>1 DEF Beginning, Precedes
    <3>3. MainPlace(mode, list, index, startLast)'
      BY <1>1, <1>3, <3>1 DEF MainPlace, Behind, Precedes
    <3>4. QED
      BY <1>1, <1>4, <1>5, <3>2, <3>3 DEF MainRun
  <2>2. CASE mode = "fixed"
    BY <1>1, <2>2 DEF MainRun
  <2>3. QED
    BY <2>1, <2>2
<1>7. FixedRun'
  <2>1. CASE FixedKept /\ mode = "fixed"
    <3>1. FixedPlace(list, index, startLast)
      BY <1>1, <2>1 DEF DetailsInv, FixedRun
    <3>2. FixedPlace(list, index, startLast)'
      BY <1>1, <1>3, <2>1, <3>1 DEF FixedPlace
    <3>3. QED
      BY <1>1, <1>4, <1>5, <2>1, <3>2 DEF FixedRun
  <2>2. CASE ~(FixedKept /\ mode = "fixed")
    BY <1>1, <2>2 DEF FixedRun, FixedKept
  <2>3. QED
    BY <2>1, <2>2
<1>8. QED
  BY <1>2, <1>3, <1>6, <1>7 DEF DetailsInv

\* A state file may be written when it lets a run skip what is not due.
LEMMA FilesWritten ==
  ASSUME DetailsInv, UNCHANGED <<found, due, relisted>>, mode \in Mode,
         NEW state, WriteDetailState(state),
         state # None /\ mode # "fixed" => MainPlace(mode, state.list, state.next, state.last),
         state # None /\ mode = "fixed" /\ FixedKept =>
            FixedPlace(state.list, state.next, state.last)
  PROVE  Shared' /\ FixedFile' /\ \A m \in Mode \ {"fixed"} : MainFile(m)'
<1>1. /\ detailState' = [m \in Mode |-> IF m \in DetailModes(mode) THEN state
                                        ELSE detailState[m]]
      /\ Mode \subseteq {"full", "daily", "fixed"}
  BY ModesKnown DEF WriteDetailState
<1>2. \A m \in Mode : \A n \in DetailModes(m) :
        n \in Mode /\ (n \in DetailModes(mode) <=> m \in DetailModes(mode))
  BY <1>1 DEF DetailModes
<1>3. \A m \in Mode : \A n \in DetailModes(m) :
        detailState[n] = detailState[m] /\ due[n] = due[m]
  BY DEF DetailsInv, Shared
<1>4. Shared'
  BY <1>1, <1>2, <1>3 DEF Shared
<1>5. FixedFile'
  <2>1. ASSUME FixedKept, detailState'["fixed"] # None
        PROVE  FixedPlace(detailState["fixed"].list, detailState["fixed"].next,
                          detailState["fixed"].last)'
    <3>1. CASE mode = "fixed"
      <4>1. detailState'["fixed"] = state
        BY <1>1, <3>1, ModesKnown
      <4>2. FixedPlace(state.list, state.next, state.last)
        BY <2>1, <3>1, <4>1
      <4>3. QED
        BY <4>1, <4>2 DEF FixedPlace
    <3>2. CASE mode # "fixed"
      <4>1. detailState'["fixed"] = detailState["fixed"]
        BY <1>1, <2>1, <3>2 DEF DetailModes, FixedKept
      <4>2. QED
        BY <2>1, <4>1 DEF DetailsInv, FixedFile, FixedPlace
    <3>3. QED
      BY <3>1, <3>2
  <2>2. FixedKept' => FixedKept
    BY DEF FixedKept
  <2>3. QED
    BY <2>1, <2>2 DEF FixedFile
<1>6. ASSUME NEW m \in Mode \ {"fixed"}
      PROVE  MainFile(m)'
  <2>1. MainFile(m)
    BY DEF DetailsInv
  <2>2. CASE mode # "fixed"
    <3>1. detailState'[m] = state /\ due[m] = due[mode]
      <4>1. m \in DetailModes(mode)
        BY <1>1, <2>2 DEF DetailModes
      <4>2. QED
        BY <1>1, <1>3, <4>1
    <3>2. ASSUME state # None
          PROVE  MainPlace(m, state.list, state.next, state.last)
      BY <2>2, <3>1, <3>2 DEF MainPlace, Behind
    <3>3. QED
      BY <2>1, <3>1, <3>2 DEF MainFile, MainPlace, Behind, Precedes
  <2>3. CASE mode = "fixed"
    <3>1. detailState'[m] = detailState[m]
      BY <1>1, <2>3 DEF DetailModes
    <3>2. QED
      BY <2>1, <3>1 DEF MainFile, MainPlace, Behind, Precedes
  <2>4. QED
    BY <2>2, <2>3
<1>7. QED
  BY <1>4, <1>5, <1>6

\* Once a batch of the main runs is answered, the run may skip it as well.
LEMMA BatchIsBehind ==
  ASSUME DetailsInv, pc = "write", mode # "fixed"
  PROVE  \A k \in 1..index + Len(Batch) : Behind(list[k], mode)
<1>1. /\ mode \in Mode /\ index < Len(list) /\ TypeOK
      /\ list \in Seq(Product) /\ index \in Nat /\ due[mode] \subseteq Product
  BY DEF DetailsInv, TypeInv, TypeOK
<1>2. /\ Beginning(list) /\ MainPlace(mode, list, index, startLast)
      /\ ToSet(Batch) \cap due[mode] = {}
  BY DEF DetailsInv, MainRun, InDetails
<1>3. /\ Len(Batch) \in Nat /\ index + Len(Batch) \in 0..Len(list) /\ Batch \in Seq(Product)
      /\ \A k \in 1..Len(Batch) : Batch[k] = list[index + k]
  BY <1>1, BatchFits
<1>4. \A k \in 1..index + Len(Batch) : k > index => list[k] \in ToSet(Batch)
  BY <1>1, BatchIsNext
<1>5. ASSUME NEW k \in 1..index + Len(Batch)
      PROVE  Behind(list[k], mode)
  <2>1. k \in DOMAIN list /\ k \in Nat /\ list[k] \in Product
    BY <1>1, <1>3
  <2>2. CASE k <= index
    BY <1>1, <1>2, <2>1, <2>2 DEF MainPlace
  <2>3. CASE k > index
    <3>1. list[k] \notin due[mode]
      BY <1>2, <1>4, <2>3
    <3>2. ASSUME NEW q \in due[mode], Precedes(q, list[k])
          PROVE  FALSE
      <4>1. q \in Product /\ found[q] > 0
        BY <1>1, <2>3 DEF DetailsInv, MainFile
      <4>2. q \in ToSet(list)
        BY <1>2, <2>1, <3>2, <4>1 DEF Beginning
      <4>3. PICK j \in DOMAIN list : list[j] = q
        BY <4>2 DEF ToSet
      <4>4. j \in Nat /\ j > 0
        BY <1>1, <4>3
      <4>5. ~(k < j)
        <5>1. k < j => Precedes(list[k], q)
          BY <1>2, <2>1, <4>3 DEF Beginning
        <5>2. QED
          BY <2>1, <3>2, <4>1, <5>1, OrderOfTargets DEF DetailsInv
      <4>6. j \in 1..index + Len(Batch)
        BY <1>1, <1>3, <2>1, <4>4, <4>5
      <4>7. CASE j <= index
        <5>1. j \in 1..index
          BY <1>1, <4>4, <4>7
        <5>2. Behind(q, mode)
          BY <1>2, <4>3, <5>1 DEF MainPlace
        <5>3. Precedes(q, q)
          BY <3>2, <5>2 DEF Behind
        <5>4. QED
          BY <4>1, <5>3, OrderOfTargets DEF DetailsInv
      <4>8. CASE j > index
        BY <1>2, <1>4, <3>2, <4>3, <4>6, <4>8
      <4>9. QED
        BY <1>1, <4>4, <4>7, <4>8
    <3>3. \A q \in due[mode] : Precedes(list[k], q)
      BY <1>1, <2>1, <3>1, <3>2, OrderOfTargets DEF DetailsInv
    <3>4. found[list[k]] > 0
      BY <1>2, <2>1 DEF Beginning
    <3>5. QED
      BY <3>3, <3>4 DEF Behind
  <2>4. QED
    BY <1>1, <2>1, <2>2, <2>3
<1>6. QED
  BY <1>5

\* The same in the fixed collection.
LEMMA BatchIsDone ==
  ASSUME DetailsInv, pc = "write", mode = "fixed", FixedKept
  PROVE  \A k \in 1..index + Len(Batch) : list[k] \notin due["fixed"]
<1>1. /\ index < Len(list) /\ TypeOK /\ list \in Seq(Product) /\ index \in Nat
  BY DEF DetailsInv, TypeInv, TypeOK
<1>2. /\ FixedPlace(list, index, startLast) /\ ToSet(Batch) \cap due["fixed"] = {}
  BY DEF DetailsInv, FixedRun, InDetails
<1>3. /\ Len(Batch) \in Nat /\ Batch \in Seq(Product)
      /\ \A k \in 1..Len(Batch) : Batch[k] = list[index + k]
  BY <1>1, BatchFits
<1>4. \A k \in 1..index + Len(Batch) : k > index => list[k] \in ToSet(Batch)
  BY <1>1, BatchIsNext
<1>5. ASSUME NEW k \in 1..index + Len(Batch), k <= index
      PROVE  list[k] \notin due["fixed"]
  BY <1>1, <1>2, <1>5 DEF FixedPlace
<1>6. \A k \in 1..index + Len(Batch) : k <= index \/ k > index
  BY <1>1, <1>3
<1>7. QED
  BY <1>2, <1>4, <1>5, <1>6


LEMMA DetailsSaved ==
  ASSUME DetailsInv, SaveDetailState, TypeInv'
  PROVE  DetailsInv'
<1> DEFINE state == [list |-> list, next |-> index', last |-> Last(Batch)]
<1>1. /\ pc = "write" /\ mode \in Mode /\ InDetails /\ index < Len(list) /\ TypeOK
      /\ pc' = "batch" /\ index' = index + Len(Batch) /\ WriteDetailState(state)
      /\ UNCHANGED <<found, due, relisted, mode, list, startLast>>
  BY DEF SaveDetailState, DetailsInv, TypeInv, InDetails, runVars
<1>2. /\ index' \in Nat /\ index' \in 1..index' /\ list[index'] = Last(Batch)
      /\ Last(Batch) \in Product
  <2>1. /\ Len(Batch) \in Nat /\ Len(Batch) > 0 /\ index \in Nat
        /\ Last(Batch) = list[index + Len(Batch)] /\ Last(Batch) \in Product
    BY <1>1, BatchFits DEF TypeOK
  <2>2. QED
    BY <1>1, <2>1
<1>3. /\ state.list = list /\ state.next = index' /\ state.last = Last(Batch)
  OBVIOUS
<1> HIDE DEF state
<1>4. ASSUME mode # "fixed"
      PROVE  /\ MainPlace(mode, state.list, state.next, state.last)
             /\ MainPlace(mode, list, index', startLast)
             /\ Beginning(list)
  <2>1. Beginning(list) /\ MainPlace(mode, list, index, startLast)
    BY <1>1, <1>4 DEF DetailsInv, MainRun
  <2>2. \A k \in 1..index' : Behind(list[k], mode)
    BY <1>1, <1>4, BatchIsBehind
  <2>3. Behind(state.last, mode)
    BY <1>2, <1>3, <2>2
  <2>4. QED
    BY <1>3, <2>1, <2>2, <2>3 DEF MainPlace
<1>5. ASSUME mode = "fixed", FixedKept
      PROVE  /\ FixedPlace(state.list, state.next, state.last)
             /\ FixedPlace(list, index', startLast)
  <2>1. FixedPlace(list, index, startLast)
    BY <1>1, <1>5 DEF DetailsInv, FixedRun
  <2>2. \A k \in 1..index' : list[k] \notin due["fixed"]
    BY <1>1, <1>5, BatchIsDone
  <2>3. \A k \in 1..index : k \in 1..index'
    BY <1>1, BatchFits DEF TypeOK
  <2>4. \E k \in 1..index' : list[k] = Last(Batch)
    BY <1>2
  <2>5. QED
    BY <1>3, <2>1, <2>2, <2>3, <2>4 DEF FixedPlace
<1>6. Shared' /\ FixedFile' /\ \A m \in Mode \ {"fixed"} : MainFile(m)'
  BY <1>1, <1>4, <1>5, FilesWritten
<1>7. MainRun'
  <2>1. CASE mode # "fixed"
    <3>1. Beginning(list)'
      BY <1>1, <1>4, <2>1 DEF Beginning, Precedes
    <3>2. MainPlace(mode, list, index, startLast)'
      BY <1>1, <1>4, <2>1 DEF MainPlace, Behind, Precedes
    <3>3. QED
      BY <1>1, <3>1, <3>2 DEF MainRun
  <2>2. CASE mode = "fixed"
    BY <1>1, <2>2 DEF MainRun
  <2>3. QED
    BY <2>1, <2>2
<1>8. FixedRun'
  <2>1. CASE FixedKept /\ mode = "fixed"
    <3>1. FixedPlace(list, index, startLast)'
      BY <1>1, <1>5, <2>1 DEF FixedPlace
    <3>2. QED
      BY <1>1, <3>1 DEF FixedRun
  <2>2. CASE ~(FixedKept /\ mode = "fixed")
    BY <1>1, <2>2 DEF FixedRun, FixedKept
  <2>3. QED
    BY <2>1, <2>2
<1>9. QED
  BY <1>1, <1>6, <1>7, <1>8 DEF DetailsInv

LEMMA DetailsOver ==
  ASSUME DetailsInv, FinishDetails \/ StopDetails, TypeInv'
  PROVE  DetailsInv'
<1>1. /\ pc = "batch" /\ mode \in Mode /\ InDetails
      /\ UNCHANGED <<found, due, relisted, mode, list, index, startLast>>
      /\ pc' \in {"detailsDone", "detailsEnded"}
      /\ pc' = "detailsDone" => index = Len(list)
  BY DEF FinishDetails, StopDetails, Fetching, DetailsInv, TypeInv, InDetails,
         runVars, listVars
<1>2. mode # "fixed" => Beginning(list) /\ MainPlace(mode, list, index, startLast)
  BY <1>1 DEF DetailsInv, MainRun
<1>3. mode = "fixed" /\ FixedKept => FixedPlace(list, index, startLast)
  BY <1>1 DEF DetailsInv, FixedRun
<1>4. PICK state : /\ WriteDetailState(state)
                   /\ state # None => /\ state.list = list /\ state.next = index
                                      /\ state.last = startLast
  <2>1. CASE FinishDetails
    BY <2>1 DEF FinishDetails
  <2>2. CASE StopDetails
    <3>1. WriteDetailState([list |-> list, next |-> index, last |-> startLast])
      BY <2>2 DEF StopDetails
    <3>2. QED
      BY <3>1
  <2>3. QED
    BY <2>1, <2>2
<1>5. Shared' /\ FixedFile' /\ \A m \in Mode \ {"fixed"} : MainFile(m)'
  BY <1>1, <1>2, <1>3, <1>4, FilesWritten
<1>6. MainRun'
  <2>1. mode # "fixed" => Beginning(list)' /\ MainPlace(mode, list, index, startLast)'
    BY <1>1, <1>2 DEF Beginning, MainPlace, Behind, Precedes
  <2>2. QED
    BY <1>1, <2>1 DEF MainRun
<1>7. FixedRun'
  <2>1. mode = "fixed" /\ FixedKept => FixedPlace(list, index, startLast)'
    BY <1>1, <1>3 DEF FixedPlace
  <2>2. QED
    BY <1>1, <2>1 DEF FixedRun, FixedKept
<1>8. QED
  BY <1>1, <1>5, <1>6, <1>7 DEF DetailsInv

LEMMA DetailsNext == DetailsInv /\ [Next]_vars => DetailsInv'
<1> SUFFICES ASSUME DetailsInv, [Next]_vars PROVE DetailsInv'
  OBVIOUS
<1>1. TypeInv'
  BY TypeNext DEF DetailsInv
<1>2. CASE StartRun \/ EndRun \/ Crash \/ AfterDiscovery \/ AfterDetails
  BY <1>1, <1>2, DetailsElsewhere
  DEF StartRun, EndRun, Crash, AfterDiscovery, AfterDetails, ForgetRun
<1>3. CASE CrashBeforeState \/ ReceiveList
  <2>1. /\ UNCHANGED detailVars /\ SaveTargets
        /\ pc' \notin {"batch", "write", "detailsDone"}
    BY <1>3 DEF CrashBeforeState, ForgetRun, ReceiveList, ReceivesItems, Listing, LeavePosition
  <2>2. \A p \in Product : found[p] > 0 => found'[p] = found[p]
    BY <2>1, TargetsStay DEF DetailsInv
  <2>3. QED
    BY <1>1, <2>1, <2>2, DetailsElsewhere
<1>4. CASE BeginDiscovery \/ SkipPosition \/ StopDiscovery \/ FailList \/ ReceiveEmptyList
  <2>1. UNCHANGED <<detailVars, found>> /\ pc' \notin {"batch", "write", "detailsDone"}
    BY <1>4 DEF BeginDiscovery, SkipPosition, StopDiscovery, FailList, ReceiveEmptyList,
                Listing, LeavePosition
  <2>2. QED
    BY <1>1, <2>1, DetailsElsewhere
<1>5. CASE CallDetails
  BY <1>5, DetailsBegin
<1>6. CASE ReceiveBatch
  BY <1>1, <1>6, DetailsAnswered
<1>7. CASE SaveDetailState
  BY <1>1, <1>7, DetailsSaved
<1>8. CASE FinishDetails \/ StopDetails
  BY <1>1, <1>8, DetailsOver
<1>9. CASE FailBatch
  BY <1>1, <1>9, DetailsElsewhere DEF FailBatch
<1>10. CASE Rerank \/ RetryBatch \/ UNCHANGED vars
  <2>1. UNCHANGED <<found, detailVars, pc, mode, list, index, startLast>>
    BY <1>10 DEF Rerank, RetryBatch, vars, detailsVars, runVars, listVars
  <2>2. QED
    BY <1>1, <2>1, DetailsKept
<1>11. QED
  BY <1>2, <1>3, <1>4, <1>5, <1>6, <1>7, <1>8, <1>9, <1>10
  DEF Next, Step, Faults, Details, DetailsStep, DetailsFault

LEMMA DetailsInvHolds == Spec => []DetailsInv
  BY DetailsInit, DetailsNext, PTL DEF Spec

\* Nothing that is due is in a list that is done with.
LEMMA DoneIsWhole ==
  ASSUME DetailsInv, pc = "detailsDone", mode # "fixed" \/ mode \notin relisted
  PROVE  due[mode] \cap ToSet(list) = {}
<1>1. /\ mode \in Mode /\ InDetails /\ index = Len(list) /\ list \in Seq(Product)
  BY DEF DetailsInv, TypeInv, TypeOK, InDetails
<1>2. CASE mode # "fixed"
  <2>1. \A k \in 1..index : Behind(list[k], mode)
    BY <1>1, <1>2 DEF DetailsInv, MainRun, MainPlace
  <2>2. \A k \in DOMAIN list : list[k] \in Product /\ k \in 1..index
    BY <1>1
  <2>3. \A k \in DOMAIN list : list[k] \notin due[mode]
    BY <2>1, <2>2, OrderOfTargets DEF Behind, DetailsInv
  <2>4. QED
    BY <2>3 DEF ToSet
<1>3. CASE mode = "fixed"
  <2>1. \A k \in 1..index : list[k] \notin due["fixed"]
    BY <1>1, <1>3 DEF DetailsInv, FixedRun, FixedKept, FixedPlace
  <2>2. DOMAIN list = 1..index
    BY <1>1
  <2>3. QED
    BY <1>3, <2>1, <2>2 DEF ToSet
<1>4. QED
  BY <1>2, <1>3

\* Details that end, and so remove their state, have had an answer for every
\* product that was listed when their pass began and still is; in the fixed
\* collection, as long as its lists have lost nothing and kept their order.
THEOREM DetailsAreWhole == Spec => []DetailsWhole
<1>1. DetailsInv => DetailsWhole
  <2>1. CASE mode = "fixed" /\ mode \in relisted
    BY <2>1 DEF DetailsWhole
  <2>2. CASE ~(mode = "fixed" /\ mode \in relisted)
    BY <2>2, DoneIsWhole DEF DetailsWhole, DetailsWholeAlways
  <2>3. QED
    BY <2>1, <2>2
<1>2. QED
  BY <1>1, DetailsInvHolds, PTL


-----------------------------------------------------------------------------
(* The sample of the fixed collection: within its limit, and not lost. *)

LEMMA SampleInit == Init => SampleInv
<1> SUFFICES ASSUME Init PROVE SampleInv
  OBVIOUS
<1>1. sample = NoSample /\ recorded = {} /\ pc = "down"
      /\ discoveryState = [m \in Mode |-> None]
  BY DEF Init
<1>2. WithinLimit(NoSample)
  BY FS_EmptySet, NumbersKnown DEF WithinLimit, NoSample
<1>3. QED
  BY <1>1, <1>2 DEF SampleInv

\* The discovery takes items up to the limit, and not beyond.
LEMMA TakenWithinLimit ==
  ASSUME TypeInv, WithinLimit(sample), mode = "fixed", pc = "listing", ReceivesItems
  PROVE  Cardinality(sample[CategoryHere] \cup Taken) <= CategoryLimit
<1> DEFINE had == sample[CategoryHere]
<1>1. /\ Items \in Seq(Product) /\ CategoryHere \in DOMAIN NoSample
      /\ had \subseteq Product /\ Cardinality(had) <= CategoryLimit
  BY PageFits DEF TypeInv, TypeOK, Samples, WithinLimit
<1>2. Counted \in SUBSET (0..Len(Items)) /\ Len(Items) \in Nat
      /\ \A i \in Counted : i \in 1..Len(Items)
  BY <1>1 DEF Counted
<1>3. CASE Counted = {}
  <2>1. had \cup Taken = had
    BY <1>3 DEF Taken
  <2>2. QED
    BY <1>1, <2>1
<1>4. CASE Counted # {}
  <2> DEFINE last == Max(Counted)
             before == had \cup ItemsBefore(last)
  <2>1. last \in Counted /\ \A i \in Counted : i <= last
    BY <1>2, <1>4, GreatestNumber
  <2>2. last \in 1..Len(Items)
    BY <1>2, <2>1
  <2>3. ~LimitReached(before)
    BY <2>1 DEF Counted
  <2> HIDE DEF last
  <2>4. before \subseteq Product /\ Items[last] \in Product
    <3>1. \A i \in 1..last - 1 : i \in 1..Len(Items)
      BY <1>2, <2>2
    <3>2. QED
      BY <1>1, <2>2, <3>1 DEF ItemsBefore
  <2>5. had \cup Taken \subseteq before \cup {Items[last]}
    <3>1. \A i \in Counted : i \in 1..last - 1 \/ i = last
      BY <1>2, <2>1, <2>2
    <3>2. QED
      BY <3>1 DEF Taken, ItemsBefore
  <2> DEFINE with == before \cup {Items[last]}
             taken == had \cup Taken
  <2> HIDE DEF before, taken
  <2>6. IsFiniteSet(before) /\ Cardinality(before) \in Nat
    BY <2>4, FS_Subset, FS_CardinalityType, DetailsAssumption
  <2>7. Cardinality(before) < CategoryLimit
    BY <2>3, <2>6, NumbersKnown DEF LimitReached
  <2>8. /\ IsFiniteSet(with)
        /\ Cardinality(with) = Cardinality(before)
           \/ Cardinality(with) = Cardinality(before) + 1
    BY <2>6, FS_AddElement
  <2>9. taken \in SUBSET with
    BY <2>5 DEF taken
  <2> HIDE DEF with
  <2>10. IsFiniteSet(taken) /\ Cardinality(taken) <= Cardinality(with)
    BY <2>8, <2>9, FS_Subset
  <2>11. Cardinality(taken) \in Nat
    BY <2>10, FS_CardinalityType
  <2>12. QED
    BY <2>6, <2>7, <2>8, <2>10, <2>11, NumbersKnown DEF taken
<1>5. QED
  BY <1>3, <1>4

\* Steps of the discovery that may write its state, or remove it.
LEMMA SampleWritten ==
  ASSUME TypeInv, SampleInv, mode \in Mode, NEW place,
         WithinLimit(sample)', mode = "fixed" => recorded' \subseteq ToSet(ids'),
         mode # "fixed" => recorded' = recorded,
         \/ discoveryState' = [discoveryState EXCEPT ![mode] = None]
         \/ discoveryState' = [discoveryState EXCEPT ![mode] =
              [at |-> at, here |-> place, ids |-> ids', sample |-> sample']]
         \/ discoveryState' = discoveryState /\ recorded' = recorded,
         mode' = mode, pc' \in {"listing", "discovered"}
  PROVE  SampleInv'
<1>1. discoveryState \in [Mode -> DiscoveryFile \cup {None}]
  BY DEF TypeInv, TypeOK
<1>2. ASSUME NEW m \in Mode, discoveryState'[m] # None
      PROVE  /\ WithinLimit(discoveryState[m].sample)'
             /\ m = "fixed" => recorded' \subseteq ToSet(discoveryState'[m].ids)
  <2>1. CASE discoveryState'[m] = discoveryState[m] /\ (m = "fixed" => recorded' = recorded)
    BY <1>2, <2>1 DEF SampleInv, WithinLimit
  <2>2. CASE m = mode /\ discoveryState'[m] = [at |-> at, here |-> place, ids |-> ids', sample |-> sample']
    <3>1. discoveryState'[m].sample = sample' /\ discoveryState'[m].ids = ids'
      BY <2>2
    <3>2. QED
      BY <2>2, <3>1 DEF WithinLimit
  <2>3. QED
    BY <1>1, <1>2, <2>1, <2>2
<1>3. QED
  BY <1>2 DEF SampleInv

LEMMA SampleDiscovered ==
  ASSUME TypeInv, SampleInv,
         SkipPosition \/ StopDiscovery \/ FailList \/ ReceiveEmptyList \/ ReceiveList
  PROVE  SampleInv'
<1>1. pc = "listing" /\ mode \in Mode /\ mode' = mode
      /\ (mode = "fixed" => recorded \subseteq ToSet(ids))
  BY DEF SkipPosition, StopDiscovery, FailList, ReceiveEmptyList, ReceiveList,
         ReceivesItems, Listing, TypeInv, SampleInv, runVars
<1>2. CASE SkipPosition \/ ReceiveEmptyList
  <2>1. /\ LeavePosition /\ UNCHANGED <<ids, sample, recorded>>
        /\ ids' \in Seq(Product) /\ sample' \in Samples
    BY <1>2 DEF SkipPosition, ReceiveEmptyList, TypeInv, TypeOK
  <2>2. /\ pc' \in {"listing", "discovered"}
        /\ \/ discoveryState' = [discoveryState EXCEPT ![mode] = None]
           \/ discoveryState' = [discoveryState EXCEPT ![mode] =
                [at |-> at, here |-> here', ids |-> ids', sample |-> sample']]
    BY <1>1, <2>1, PositionIsLeft DEF TypeInv
  <2>3. WithinLimit(sample)'
    BY <2>1 DEF SampleInv, WithinLimit
  <2>4. QED
    BY <1>1, <2>1, <2>2, <2>3, SampleWritten
<1>3. CASE StopDiscovery \/ FailList
  <2>1. UNCHANGED <<ids, sample, recorded>> /\ pc' = "discovered"
        /\ (WriteDiscoveryState(here) \/ discoveryState' = discoveryState)
    BY <1>3 DEF StopDiscovery, FailList
  <2>2. WithinLimit(sample)'
    BY <2>1 DEF SampleInv, WithinLimit
  <2>3. QED
    BY <1>1, <2>1, <2>2, SampleWritten DEF WriteDiscoveryState
<1>4. CASE ReceiveList
  <2>1. ReceivesItems /\ SaveTargets /\ RememberPage
    BY <1>4 DEF ReceiveList
  <2>2. /\ ids' \in Seq(Product) /\ sample' \in Samples
        /\ NewIds \in Seq(Product) /\ Taken \subseteq ToSet(ids \o NewIds)
        /\ CategoryHere \in DOMAIN NoSample /\ sample \in [DOMAIN NoSample -> SUBSET Product]
    BY <1>1, <2>1, PageIsTaken, PageFits DEF TypeInv, TypeOK, Samples
  <2>3. WithinLimit(sample)' /\ (mode = "fixed" => recorded' \subseteq ToSet(ids'))
        /\ (mode # "fixed" => recorded' = recorded)
    <3>1. CASE mode # "fixed"
      BY <2>1, <3>1 DEF RememberPage, SampleInv, WithinLimit
    <3>2. CASE mode = "fixed"
      <4>1. /\ ids' = ids \o NewIds /\ recorded' = recorded \cup Taken
            /\ sample' = [sample EXCEPT ![CategoryHere] = @ \cup Taken]
        BY <2>1, <3>2 DEF RememberPage
      <4>2. ToSet(ids') = ToSet(ids) \cup ToSet(NewIds)
        BY <2>2, <4>1, ConcatElements DEF TypeInv, TypeOK
      <4>3. recorded' \subseteq ToSet(ids')
        BY <1>1, <2>2, <3>2, <4>1, <4>2
      <4>4. Cardinality(sample[CategoryHere] \cup Taken) <= CategoryLimit
        BY <1>1, <2>1, <3>2, TakenWithinLimit DEF SampleInv
      <4>5. ASSUME NEW c \in DOMAIN NoSample
            PROVE  Cardinality(sample'[c]) <= CategoryLimit
        <5>1. CASE c = CategoryHere
          <6>1. sample'[c] = sample[CategoryHere] \cup Taken
            BY <2>2, <4>1, <5>1
          <6>2. QED
            BY <4>4, <6>1
        <5>2. CASE c # CategoryHere
          <6>1. sample'[c] = sample[c]
            BY <2>2, <4>1, <5>2
          <6>2. QED
            BY <6>1 DEF SampleInv, WithinLimit
        <5>3. QED
          BY <5>1, <5>2
      <4>6. QED
        BY <3>2, <4>3, <4>5 DEF WithinLimit
    <3>3. QED
      BY <3>1, <3>2
  <2>4. CASE LeavePosition
    <3>1. /\ pc' \in {"listing", "discovered"}
          /\ \/ discoveryState' = [discoveryState EXCEPT ![mode] = None]
             \/ discoveryState' = [discoveryState EXCEPT ![mode] =
                  [at |-> at, here |-> here', ids |-> ids', sample |-> sample']]
      BY <1>1, <2>2, <2>4, PositionIsLeft DEF TypeInv
    <3>2. QED
      BY <1>1, <2>3, <3>1, SampleWritten
  <2>5. CASE WriteDiscoveryState(here') /\ pc' \in {"listing", "discovered"}
    <3> DEFINE place == here'
    <3>1. discoveryState' = [discoveryState EXCEPT ![mode] =
                [at |-> at, here |-> place, ids |-> ids', sample |-> sample']]
      BY <2>5 DEF WriteDiscoveryState
    <3>2. QED
      BY <1>1, <2>3, <2>5, <3>1, SampleWritten
  <2>6. QED
    BY <1>1, <1>4, <2>4, <2>5 DEF ReceiveList
<1>5. QED
  BY <1>2, <1>3, <1>4

LEMMA SampleNext == TypeInv /\ SampleInv /\ [Next]_vars => SampleInv'
<1> SUFFICES ASSUME TypeInv, SampleInv, [Next]_vars PROVE SampleInv'
  OBVIOUS
<1>1. CASE EndRun \/ Crash \/ CrashBeforeState
  <2>1. /\ sample' = NoSample /\ pc' = "down" /\ mode' = "none"
        /\ UNCHANGED <<discoveryState, recorded>>
    BY <1>1 DEF EndRun, Crash, CrashBeforeState, ForgetRun, ForgetDiscovery
  <2>2. WithinLimit(sample)'
    BY <2>1, FS_EmptySet, NumbersKnown DEF WithinLimit, NoSample
  <2>3. QED
    BY <2>1, <2>2 DEF SampleInv, WithinLimit
<1>2. CASE BeginDiscovery
  <2>1. /\ mode \in Mode /\ pc' = "listing" /\ UNCHANGED <<mode, discoveryState>>
    BY <1>2 DEF BeginDiscovery, TypeInv, runVars
  <2>2. CASE discoveryState[mode] = None
    <3>1. /\ sample' = NoSample
          /\ recorded' = IF mode = "fixed" THEN {} ELSE recorded
      BY <1>2, <2>2 DEF BeginDiscovery
    <3>2. WithinLimit(sample)'
      BY <3>1, FS_EmptySet, NumbersKnown DEF WithinLimit, NoSample
    <3>3. QED
      BY <2>1, <2>2, <3>1, <3>2 DEF SampleInv, WithinLimit
  <2>3. CASE discoveryState[mode] # None
    <3>1. /\ sample' = discoveryState[mode].sample /\ ids' = discoveryState[mode].ids
          /\ recorded' = recorded
      BY <1>2, <2>3 DEF BeginDiscovery, TakeUpSample
    <3>2. WithinLimit(sample)'
      BY <2>1, <2>3, <3>1 DEF SampleInv, WithinLimit
    <3>3. QED
      BY <2>1, <2>3, <3>1, <3>2 DEF SampleInv, WithinLimit
  <2>4. QED
    BY <2>2, <2>3
<1>3. CASE SkipPosition \/ StopDiscovery \/ FailList \/ ReceiveEmptyList \/ ReceiveList
  BY <1>3, SampleDiscovered
<1>4. CASE CallDetails
  <2>1. /\ pc = "beginDetails" /\ pc' = "batch" /\ (mode = "fixed" => list' = ids)
        /\ UNCHANGED <<mode, sample, discoveryState, recorded>>
    BY <1>4, CallDetailsFits DEF CallDetails, BeginDetails, runVars, discoveryVars
  <2>2. QED
    BY <2>1 DEF SampleInv, WithinLimit
<1>5. CASE AfterDiscovery
  <2>1. /\ pc = "discovered" /\ pc' \in {"end", "beginDetails"}
        /\ UNCHANGED <<mode, sample, ids, discoveryState, recorded>>
    BY <1>5 DEF AfterDiscovery, runVars, discoveryVars
  <2>2. QED
    BY <2>1 DEF SampleInv, WithinLimit
<1>6. CASE StartRun \/ AfterDetails
  <2>1. /\ UNCHANGED <<sample, discoveryState, recorded>>
        /\ pc' \in {"beginDiscovery", "beginDetails", "end"}
        /\ mode' = "fixed" => pc' # "beginDetails"
    <3>1. CASE StartRun
      <4>1. UNCHANGED <<sample, discoveryState, recorded>>
        BY <3>1 DEF StartRun, discoveryVars
      <4>2. mode' = "fixed" => pc' = "beginDiscovery"
        BY <3>1 DEF StartRun
      <4>3. pc' \in {"beginDiscovery", "beginDetails"}
        BY <3>1 DEF StartRun
      <4>4. QED
        BY <4>1, <4>2, <4>3
    <3>2. CASE AfterDetails
      BY <3>2 DEF AfterDetails, discoveryVars
    <3>3. QED
      BY <1>6, <3>1, <3>2
  <2>2. QED
    BY <2>1 DEF SampleInv, WithinLimit
<1>7. CASE /\ Details \/ DetailsFault
           /\ UNCHANGED discoveryVars
  <2>1. /\ pc \in {"batch", "write"}
        /\ pc' \in {"batch", "write", "detailsDone", "detailsEnded"}
        /\ UNCHANGED <<mode, list>>
    BY <1>7 DEF Details, DetailsStep, DetailsFault, ReceiveBatch, SaveDetailState,
                FinishDetails, StopDetails, RetryBatch, FailBatch, Fetching, runVars,
                listVars
  <2>2. UNCHANGED <<sample, ids, discoveryState, recorded>>
    BY <1>7 DEF discoveryVars
  <2>3. QED
    BY <2>1, <2>2 DEF SampleInv, WithinLimit
<1>8. CASE Rerank \/ UNCHANGED vars
  <2>1. UNCHANGED <<pc, mode, list, sample, ids, discoveryState, recorded>>
    BY <1>8 DEF Rerank, vars, detailsVars, runVars, listVars, discoveryVars
  <2>2. QED
    BY <2>1 DEF SampleInv, WithinLimit
<1>9. QED
  BY <1>1, <1>2, <1>3, <1>4, <1>5, <1>6, <1>7, <1>8 DEF Next, Step, Faults, Details

\* The fixed collection asks for the details of every product of the pages that it
\* has dealt with since its discovery began, and of no more than its limit for a
\* category.
THEOREM SampleIsWhole == Spec => []SampleWhole
<1>1. TypeInv /\ SampleInv => SampleWhole
  <2> SUFFICES ASSUME TypeInv, SampleInv, mode = "fixed", pc \in {"batch", "write"},
                      NEW c \in DOMAIN sample
               PROVE  /\ recorded \subseteq ToSet(list)
                      /\ Cardinality(sample[c] \cap recorded) <= CategoryLimit
    BY DEF SampleWhole, SampleInv
  <2> DEFINE all == sample[c]
             some == sample[c] \cap recorded
  <2>1. c \in DOMAIN NoSample /\ all \subseteq Product
    BY DEF TypeInv, TypeOK, Samples
  <2>2. Cardinality(all) <= CategoryLimit /\ some \in SUBSET all
    BY <2>1 DEF SampleInv, WithinLimit
  <2>3. IsFiniteSet(all)
    BY <2>1, FS_Subset, DetailsAssumption
  <2> HIDE DEF all, some
  <2>4. IsFiniteSet(some) /\ Cardinality(some) <= Cardinality(all)
    BY <2>2, <2>3, FS_Subset
  <2>5. Cardinality(some) \in Nat /\ Cardinality(all) \in Nat
    BY <2>3, <2>4, FS_CardinalityType
  <2>6. Cardinality(some) <= CategoryLimit
    BY <2>2, <2>4, <2>5, NumbersKnown
  <2>7. QED
    BY <2>6 DEF SampleInv, some
<1>2. SampleInv /\ TypeInv /\ [Next]_vars => SampleInv'
  BY SampleNext
<1>3. QED
  BY <1>1, <1>2, SampleInit, TypeInvHolds, PTL DEF Spec


=============================================================================
