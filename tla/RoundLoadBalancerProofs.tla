----------------------- MODULE RoundLoadBalancerProofs -----------------------
(***************************************************************************)
(* Proofs about RoundLoadBalancer for any number of threads, services and  *)
(* lists: no call indexes past its list, the shared index is bounded, and  *)
(* calls that do not overlap are spread evenly over the endpoints.         *)
(***************************************************************************)
EXTENDS RoundLoadBalancer, FiniteSetTheorems, SequenceTheorems, TLAPS

\* What sorting does to a list of addresses.

\* Every non-empty set of numbers has a least one.
LEMMA LeastNumber ==
  ASSUME NEW S, S \subseteq Nat, S # {}
  PROVE  \E m \in S : \A n \in S : m <= n
<1> DEFINE Below(n) == 0 .. n
           B == {Below(n) : n \in S}
<1>1. B \subseteq FiniteSubsetsOf(Nat) /\ B # {}
  <2>1. ASSUME NEW n \in S PROVE Below(n) \in FiniteSubsetsOf(Nat)
    BY FS_Interval DEF FiniteSubsetsOf
  <2> QED BY <2>1
<1>2. PICK b \in B : \A c \in B : <<c, b>> \notin StrictSubsetOrdering(Nat)
  <2> HIDE DEF B
  <2> QED BY <1>1, FS_StrictSubsetOrderingWellFounded, WFMin
<1>3. PICK m \in S : b = Below(m)
  OBVIOUS
<1>4. ASSUME NEW n \in S PROVE m <= n
  <2> SUFFICES ASSUME n < m PROVE FALSE
    OBVIOUS
  <2>1. Below(n) \subseteq Below(m) /\ Below(n) # Below(m)
    <3>1. m \in Below(m) /\ m \notin Below(n)
      OBVIOUS
    <3> QED BY <3>1
  <2>2. <<Below(n), Below(m)>> \in StrictSubsetOrdering(Nat)
    BY <2>1 DEF StrictSubsetOrdering
  <2> QED BY <1>2, <1>3, <2>2
<1> QED BY <1>4

\* The places of the list with an address before e, and with one up to e.
Before(l, e) == {j \in 1 .. Len(l) : l[j] < e}
UpTo(l, e) == {j \in 1 .. Len(l) : l[j] <= e}

\* e is the i-th smallest address of the list.
Ranked(l, i, e) ==
  /\ e \in Elements(l)
  /\ Cardinality(Before(l, e)) < i
  /\ Cardinality(UpTo(l, e)) >= i

LEMMA PlacesCount ==
  ASSUME NEW l \in Seq(Nat), NEW S, S \subseteq 1 .. Len(l)
  PROVE  /\ Len(l) \in Nat /\ Cardinality(1 .. Len(l)) = Len(l)
         /\ IsFiniteSet(S) /\ Cardinality(S) \in Nat /\ Cardinality(S) <= Len(l)
<1>1. Len(l) \in Nat
  BY LenProperties
<1>2. IsFiniteSet(1 .. Len(l)) /\ Cardinality(1 .. Len(l)) = Len(l)
  <2>1. 1 \in Int /\ Len(l) \in Int /\ Len(l) - 1 + 1 = Len(l)
    BY <1>1
  <2>2. /\ IsFiniteSet(1 .. Len(l))
        /\ Cardinality(1 .. Len(l)) = IF 1 > Len(l) THEN 0 ELSE Len(l) - 1 + 1
    BY <2>1, FS_Interval
  <2> QED BY <1>1, <2>2
<1>3. IsFiniteSet(S) /\ Cardinality(S) <= Cardinality(1 .. Len(l))
  BY <1>2, FS_Subset
<1>4. Cardinality(S) \in Nat
  BY <1>3, FS_CardinalityType
<1> QED BY <1>1, <1>2, <1>3, <1>4

\* More places, a larger count.
LEMMA CountGrows ==
  ASSUME NEW l \in Seq(Nat), NEW S, NEW T, S \subseteq T, T \subseteq 1 .. Len(l)
  PROVE  Cardinality(S) <= Cardinality(T) /\ (S # T => Cardinality(S) < Cardinality(T))
<1>1. IsFiniteSet(T) /\ Cardinality(T) \in Nat
  BY PlacesCount
<1>2. S \subseteq 1 .. Len(l)
  OBVIOUS
<1>3. Cardinality(S) \in Nat
  BY <1>2, PlacesCount
<1>4. Cardinality(S) <= Cardinality(T) /\ (Cardinality(T) = Cardinality(S) => T = S)
  BY <1>1, FS_Subset
<1> QED BY <1>1, <1>3, <1>4

\* Some address has at least i places up to it, for every i of the list.
LEMMA RankReached ==
  ASSUME NEW l \in Seq(Nat), NEW i \in 1 .. Len(l)
  PROVE  \E e \in Elements(l) : Cardinality(UpTo(l, e)) >= i
<1> DEFINE Missed == {k \in 1 .. Len(l) :
                        \A e \in Elements(l) : ~(Cardinality(UpTo(l, e)) >= k)}
<1>1. \A e \in Elements(l) : /\ e \in Nat /\ UpTo(l, e) \subseteq 1 .. Len(l)
                             /\ Cardinality(UpTo(l, e)) \in Nat
                             /\ Cardinality(UpTo(l, e)) <= Len(l)
  <2>1. \A e \in Elements(l) : e \in Nat /\ UpTo(l, e) \subseteq 1 .. Len(l)
    BY DEF Elements, UpTo
  <2> QED BY <2>1, PlacesCount
<1>0. Len(l) \in Nat /\ i \in Nat /\ \A k \in 1 .. Len(l) : l[k] \in Nat
  <2>1. Len(l) \in Nat
    BY LenProperties
  <2> QED BY <2>1
<1> SUFFICES ASSUME Missed # {} PROVE FALSE
  BY <1>1
<1>2. PICK m \in Missed : \A k \in Missed : m <= k
  <2>1. Missed \subseteq Nat
    OBVIOUS
  <2> HIDE DEF Missed
  <2> QED BY <2>1, LeastNumber
<1>3. /\ m \in 1 .. Len(l) /\ \A k \in Missed : k \in Nat /\ m <= k
      /\ \A e \in Elements(l) : ~(Cardinality(UpTo(l, e)) >= m)
      /\ \A k \in 1 .. Len(l) : k \notin Missed =>
           \E e \in Elements(l) : Cardinality(UpTo(l, e)) >= k
  BY <1>0, <1>2
<1> HIDE DEF Missed
<1>4. CASE m = 1
  <2>1. 1 \in UpTo(l, l[1]) /\ l[1] \in Elements(l)
    BY <1>0, <1>3 DEF UpTo, Elements
  <2>2. {} # UpTo(l, l[1]) /\ {} \subseteq UpTo(l, l[1])
    <3>1. m - 1 \notin Missed
      BY <1>3, <2>1
    <3> QED BY <1>3, <2>1, <3>1
  <2>3. Cardinality({}) < Cardinality(UpTo(l, l[1]))
    BY <1>1, <2>1, <2>2, CountGrows
  <2> QED BY <1>0, <1>1, <1>3, <1>4, <2>1, <2>3, FS_EmptySet
<1>5. CASE m # 1
  <2>1. m \in 2 .. Len(l) /\ m - 1 \in 1 .. Len(l)
    BY <1>0, <1>3, <1>5
  <2>2. PICK e \in Elements(l) : Cardinality(UpTo(l, e)) >= m - 1
    <3>1. m - 1 \notin Missed
      BY <1>3, <2>1
    <3> QED BY <1>3, <2>1, <3>1
  <2>3. Cardinality(UpTo(l, e)) = m - 1
    BY <1>0, <1>1, <1>3, <2>1, <2>2
  <2>4. PICK j \in 1 .. Len(l) : j \notin UpTo(l, e)
    <3>1. Cardinality(1 .. Len(l)) = Len(l)
      BY PlacesCount
    <3>2. UpTo(l, e) # 1 .. Len(l)
      BY <1>0, <2>1, <2>3, <3>1
    <3> QED BY <1>1, <3>2
  <2>5. l[j] \in Elements(l) /\ l[j] \in Nat /\ e \in Nat /\ l[j] > e
    BY <1>0, <1>1, <2>4 DEF UpTo, Elements
  <2>6. UpTo(l, e) \subseteq UpTo(l, l[j]) /\ UpTo(l, e) # UpTo(l, l[j])
    <3>1. j \in UpTo(l, l[j])
      BY <2>5 DEF UpTo
    <3>2. ASSUME NEW k \in 1 .. Len(l), l[k] <= e PROVE l[k] <= l[j]
      BY <1>0, <2>5, <3>2
    <3> QED BY <2>4, <3>1, <3>2 DEF UpTo
  <2>7. Cardinality(UpTo(l, l[j])) > m - 1
    BY <1>1, <2>3, <2>5, <2>6, CountGrows
  <2> QED BY <1>0, <1>1, <1>3, <2>1, <2>5, <2>7
<1> QED BY <1>4, <1>5

\* Every place of the sorted list has an address ...
LEMMA RankExists ==
  ASSUME NEW l \in Seq(Nat), NEW i \in 1 .. Len(l)
  PROVE  \E e \in Nat : Ranked(l, i, e)
<1> DEFINE High == {e \in Elements(l) : Cardinality(UpTo(l, e)) >= i}
<1>1. Elements(l) \subseteq Nat /\ i \in Nat \ {0}
  <2>1. Len(l) \in Nat
    BY LenProperties
  <2> QED BY <2>1 DEF Elements
<1>2. PICK e \in High : \A d \in High : e <= d
  <2>1. High # {} /\ High \subseteq Nat
    BY <1>1, RankReached
  <2> HIDE DEF High
  <2> QED BY <2>1, LeastNumber
<1>3. Before(l, e) \subseteq 1 .. Len(l) /\ Cardinality(Before(l, e)) \in Nat
  BY PlacesCount DEF Before
<1>4. ASSUME Cardinality(Before(l, e)) >= i PROVE FALSE
  <2> DEFINE Gaps == {e - l[j] : j \in Before(l, e)}
  <2>1. Before(l, e) # {}
    <3>1. IsFiniteSet(Before(l, e))
      BY <1>3, PlacesCount
    <3>2. Cardinality(Before(l, e)) # 0
      BY <1>1, <1>3, <1>4
    <3> QED BY <3>1, <3>2, FS_EmptySet
  <2>2. Gaps # {} /\ Gaps \subseteq Nat
    <3>1. e \in Nat
      BY <1>1, <1>2
    <3>2. ASSUME NEW j \in Before(l, e) PROVE e - l[j] \in Nat
      BY <3>1 DEF Before
    <3> QED BY <2>1, <3>2
  <2>3. PICK g \in Gaps : \A h \in Gaps : g <= h
    <3> HIDE DEF Gaps
    <3> QED BY <2>2, LeastNumber
  <2>4. PICK j \in Before(l, e) : g = e - l[j]
    OBVIOUS
  <2>5. l[j] \in Nat /\ l[j] \in Elements(l) /\ l[j] < e /\ e \in Nat
    BY <1>1, <1>2, <2>4 DEF Before, Elements
  <2>6. Before(l, e) \subseteq UpTo(l, l[j])
    <3> SUFFICES ASSUME NEW k \in Before(l, e) PROVE l[k] <= l[j]
      BY DEF Before, UpTo
    <3>1. e - l[k] \in Gaps /\ l[k] \in Nat
      BY DEF Before
    <3>2. e - l[j] <= e - l[k]
      BY <2>3, <2>4, <3>1
    <3> QED BY <2>5, <3>1, <3>2
  <2>7. /\ UpTo(l, l[j]) \subseteq 1 .. Len(l)
        /\ Cardinality(UpTo(l, l[j])) \in Nat
    BY PlacesCount DEF UpTo
  <2>8. Cardinality(UpTo(l, l[j])) >= i
    BY <1>3, <1>4, <2>6, <2>7, CountGrows
  <2> QED BY <1>2, <2>5, <2>8
<1> QED BY <1>1, <1>2, <1>3, <1>4 DEF Ranked

\* ... and only one.
LEMMA RankUnique ==
  ASSUME NEW l \in Seq(Nat), NEW i \in 1 .. Len(l), NEW d, NEW e,
         Ranked(l, i, d), Ranked(l, i, e)
  PROVE  d = e
<1>1. ASSUME NEW x \in Nat, NEW y \in Nat, x < y, Ranked(l, i, x), Ranked(l, i, y)
      PROVE FALSE
  <2>1. UpTo(l, x) \subseteq Before(l, y) /\ Before(l, y) \subseteq 1 .. Len(l)
    BY <1>1 DEF UpTo, Before
  <2>2. Cardinality(UpTo(l, x)) \in Nat /\ Cardinality(Before(l, y)) \in Nat
    BY <2>1, PlacesCount
  <2> QED BY <1>1, <2>1, <2>2, CountGrows DEF Ranked
<1>2. d \in Nat /\ e \in Nat
  BY DEF Ranked, Elements
<1> QED BY <1>1, <1>2

LEMMA SortedRanked ==
  ASSUME NEW l \in Seq(Nat), NEW i \in 1 .. Len(l)
  PROVE  Ranked(l, i, Sorted(l)[i])
<1>1. \E e \in Elements(l) : Ranked(l, i, e)
  BY RankExists DEF Ranked
<1>2. Sorted(l)[i] = CHOOSE e \in Elements(l) : Ranked(l, i, e)
  <2>1. Sorted(l)[i] = CHOOSE e \in Elements(l) :
                         /\ Cardinality(Before(l, e)) < i
                         /\ Cardinality(UpTo(l, e)) >= i
    BY DEF Sorted, Before, UpTo, Elements
  <2> QED BY <2>1 DEF Ranked
<1> QED BY <1>1, <1>2

\* A list whose addresses differ has no address at two places.
Distinct(l) == Cardinality(Elements(l)) = Len(l)

LEMMA DistinctPlaces ==
  ASSUME NEW l \in Seq(Nat), Distinct(l),
         NEW i \in 1 .. Len(l), NEW j \in 1 .. Len(l), l[i] = l[j]
  PROVE  i = j
<1>1. Len(l) \in Nat /\ l \in [1 .. Len(l) -> Nat]
  BY LenProperties
<1>2. l \in Surjection(1 .. Len(l), Elements(l))
  BY <1>1 DEF Surjection, Elements
<1>3. IsFiniteSet(1 .. Len(l)) /\ Cardinality(1 .. Len(l)) = Len(l)
  BY PlacesCount
<1>4. l \in Injection(1 .. Len(l), Elements(l))
  BY <1>2, <1>3, FS_SurjSameCardinalityImpliesInj DEF Distinct
<1> QED BY <1>4 DEF Injection, IsInjective

\* A sorted list with distinct addresses lists each of them, once.
LEMMA SortedOnce ==
  ASSUME NEW l \in Seq(Nat), Distinct(l),
         NEW i \in 1 .. Len(l), NEW j \in 1 .. Len(l), Sorted(l)[i] = Sorted(l)[j]
  PROVE  i = j
<1>1. ASSUME NEW m \in 1 .. Len(l), NEW n \in 1 .. Len(l), m < n,
             NEW e, Ranked(l, m, e), Ranked(l, n, e)
      PROVE  FALSE
  <2>1. PICK k \in 1 .. Len(l) : l[k] = e
    BY <1>1 DEF Ranked, Elements
  <2>2. Before(l, e) \subseteq 1 .. Len(l) /\ UpTo(l, e) = Before(l, e) \union {k}
    <3>1. \A x \in 1 .. Len(l) : l[x] = e => x = k
      BY <2>1, DistinctPlaces
    <3> QED BY <2>1, <3>1 DEF Before, UpTo
  <2>3. IsFiniteSet(Before(l, e)) /\ Cardinality(Before(l, e)) \in Nat
    BY <2>2, PlacesCount
  <2>4. Cardinality(UpTo(l, e)) <= Cardinality(Before(l, e)) + 1
    <3>1. Cardinality(Before(l, e) \union {k}) =
            IF k \in Before(l, e) THEN Cardinality(Before(l, e))
                                  ELSE Cardinality(Before(l, e)) + 1
      BY <2>3, FS_AddElement
    <3> QED BY <2>2, <2>3, <3>1
  <2>5. Cardinality(Before(l, e)) < m /\ Cardinality(UpTo(l, e)) >= n
    BY <1>1 DEF Ranked
  <2>6. m \in Nat /\ n \in Nat /\ Cardinality(UpTo(l, e)) \in Nat
    <3>1. UpTo(l, e) \subseteq 1 .. Len(l) /\ Len(l) \in Nat
      BY <2>2, PlacesCount
    <3> QED BY <3>1, PlacesCount
  <2> QED BY <1>1, <2>3, <2>4, <2>5, <2>6
<1>2. Ranked(l, i, Sorted(l)[i]) /\ Ranked(l, j, Sorted(l)[i])
  BY SortedRanked
<1>3. i \in Int /\ j \in Int
  OBVIOUS
<1> QED BY <1>1, <1>2, <1>3

LEMMA SortedAll ==
  ASSUME NEW l \in Seq(Nat), NEW k \in 1 .. Len(l)
  PROVE  \E i \in 1 .. Len(l) : Sorted(l)[i] = l[k]
<1> DEFINE e == l[k]
           i == Cardinality(UpTo(l, e))
<1>1. Len(l) \in Nat /\ e \in Nat /\ e \in Elements(l)
  BY PlacesCount DEF Elements
<1>2. /\ UpTo(l, e) \subseteq 1 .. Len(l) /\ Before(l, e) \subseteq UpTo(l, e)
      /\ k \in UpTo(l, e) /\ k \notin Before(l, e)
  BY <1>1 DEF UpTo, Before
<1>3. i \in Nat /\ i <= Len(l)
  BY <1>2, PlacesCount
<1>4. Cardinality(Before(l, e)) < i /\ Cardinality(Before(l, e)) \in Nat
  <2>1. Before(l, e) # UpTo(l, e) /\ Before(l, e) \subseteq 1 .. Len(l)
    BY <1>2
  <2> QED BY <1>2, <2>1, CountGrows, PlacesCount
<1>5. i \in 1 .. Len(l) /\ Ranked(l, i, e)
  BY <1>1, <1>3, <1>4 DEF Ranked
<1> HIDE DEF i, e
<1>6. Sorted(l)[i] = e
  BY <1>5, SortedRanked, RankUnique
<1> QED BY <1>5, <1>6 DEF e

\* Two lists of the same distinct addresses are sorted alike.
LEMMA SortedAlike ==
  ASSUME NEW l \in Seq(Nat), NEW m \in Seq(Nat),
         Distinct(l), Distinct(m), Elements(l) = Elements(m)
  PROVE  Len(l) = Len(m) /\ Sorted(l) = Sorted(m)
<1>1. Len(l) = Len(m)
  BY DEF Distinct
<1>2. ASSUME NEW e \in Elements(l)
      PROVE  /\ Cardinality(Before(l, e)) = Cardinality(Before(m, e))
             /\ Cardinality(UpTo(l, e)) = Cardinality(UpTo(m, e))
  <2>1. ASSUME NEW S, S \subseteq Nat
        PROVE Cardinality({i \in 1 .. Len(l) : l[i] \in S})
                = Cardinality({i \in 1 .. Len(m) : m[i] \in S})
    <3> DEFINE L == {i \in 1 .. Len(l) : l[i] \in S}
               M == {i \in 1 .. Len(m) : m[i] \in S}
               f == [i \in L |-> CHOOSE j \in 1 .. Len(m) : m[j] = l[i]]
    <3>1. ASSUME NEW i \in L
          PROVE f[i] \in 1 .. Len(m) /\ m[f[i]] = l[i] /\ f[i] \in M
      <4>1. l[i] \in Elements(m)
        BY DEF Elements
      <4>2. \E j \in 1 .. Len(m) : m[j] = l[i]
        BY <4>1 DEF Elements
      <4> QED BY <4>2
    <3>2. ASSUME NEW j \in M PROVE \E i \in L : f[i] = j
      <4>1. m[j] \in Elements(l)
        BY DEF Elements
      <4>2. PICK i \in 1 .. Len(l) : l[i] = m[j]
        BY <4>1 DEF Elements
      <4>3. i \in L
        BY <4>2
      <4>4. m[f[i]] = m[j] /\ f[i] \in 1 .. Len(m) /\ j \in 1 .. Len(m)
        BY <3>1, <4>2, <4>3
      <4>5. f[i] = j
        <5> HIDE DEF f
        <5> QED BY <4>4, DistinctPlaces
      <4> QED BY <4>3, <4>5
    <3>3. ASSUME NEW i \in L, NEW k \in L, f[i] = f[k] PROVE i = k
      <4>1. l[i] = l[k] /\ i \in 1 .. Len(l) /\ k \in 1 .. Len(l)
        BY <3>1, <3>3
      <4> QED BY <4>1, DistinctPlaces
    <3>4. f \in [L -> M]
      BY <3>1
    <3>5. f \in Bijection(L, M)
      <4> HIDE DEF f, L, M
      <4> QED BY <3>2, <3>3, <3>4 DEF Bijection, Injection, Surjection, IsInjective
    <3>6. IsFiniteSet(L)
      <4>1. L \subseteq 1 .. Len(l)
        OBVIOUS
      <4> HIDE DEF L
      <4> QED BY <4>1, PlacesCount
    <3> HIDE DEF f, L, M
    <3>7. Cardinality(M) = Cardinality(L)
      BY <3>5, <3>6, FS_Bijection DEF ExistsBijection
    <3> QED BY <3>7 DEF L, M
  <2>2. e \in Nat
    BY DEF Elements
  <2> DEFINE Lower == {n \in Nat : n < e}
             Upper == {n \in Nat : n <= e}
  <2>3. /\ Before(l, e) = {i \in 1 .. Len(l) : l[i] \in Lower}
        /\ Before(m, e) = {i \in 1 .. Len(m) : m[i] \in Lower}
        /\ UpTo(l, e) = {i \in 1 .. Len(l) : l[i] \in Upper}
        /\ UpTo(m, e) = {i \in 1 .. Len(m) : m[i] \in Upper}
    BY <2>2 DEF Before, UpTo
  <2>4. Lower \subseteq Nat /\ Upper \subseteq Nat
    OBVIOUS
  <2> HIDE DEF Lower, Upper
  <2> QED BY <2>1, <2>3, <2>4
<1>3. ASSUME NEW i \in 1 .. Len(l) PROVE Sorted(l)[i] = Sorted(m)[i]
  <2>1. Ranked(l, i, Sorted(l)[i]) /\ Ranked(m, i, Sorted(m)[i])
    BY <1>1, SortedRanked
  <2>2. Ranked(l, i, Sorted(m)[i])
    BY <1>2, <2>1 DEF Ranked
  <2> QED BY <2>1, <2>2, RankUnique
<1> QED BY <1>1, <1>3 DEF Sorted
-----------------------------------------------------------------------------
USE ThreadAssumption, ListsAssumption, LengthAssumption, MaxCallsAssumption

\* A thread about to go back to the first endpoint has one.
ResetInv ==
  \A t \in Thread : pc[t] = "reset" => 1 \in DOMAIN endpoints[t]

RangeInv == TypeOK /\ IndexInRange /\ ResetInv

\* Sorting changes neither the length nor the domain of a list.
LEMMA SortedLength ==
  ASSUME NEW s \in Service, NEW l \in Lists[s]
  PROVE  /\ DOMAIN Sorted(l) = 1 .. Len(l)
         /\ Len(l) \in Nat \ {0}
         /\ Len(l) <= MaxLength
  BY DEF Sorted

\* Counting the calls that have yet to increment stays within the threads.
LEMMA AdvancingCount ==
  ASSUME NEW S, S \subseteq Thread
  PROVE  /\ IsFiniteSet(S)
         /\ Cardinality(S) \in Nat
         /\ Cardinality(S) <= Cardinality(Thread)
  BY FS_Subset, FS_CardinalityType
-----------------------------------------------------------------------------
\* Initially nobody is in a call.
LEMMA RangeInit == Init => RangeInv
  BY DEF Init, RangeInv, TypeOK, IndexInRange, ResetInv

\* Start tests the index against the list it keeps, Reset goes to 0 in a
\* non-empty list, and nobody else touches these two locals.
LEMMA RangeStep == RangeInv /\ [Next]_vars => RangeInv'
<1> SUFFICES ASSUME RangeInv, [Next]_vars PROVE RangeInv'
  OBVIOUS
<1> USE DEF RangeInv, TypeOK, IndexInRange, ResetInv
<1>1. ASSUME NEW t \in Thread, NEW s \in Service, NEW l \in Lists[s], Start(t, s, l)
      PROVE RangeInv'
  <2>1. DOMAIN Sorted(l) = 1 .. Len(l) /\ Len(l) \in Nat \ {0}
    BY SortedLength
  <2>2. /\ endpoints' = [endpoints EXCEPT ![t] = Sorted(l)]
        /\ local' = [local EXCEPT ![t] = index[s]]
        /\ pc' = [pc EXCEPT ![t] =
                    IF index[s] >= Len(l) THEN "reset" ELSE "advance"]
    BY <1>1 DEF Start
  <2>3. TypeOK'
    BY <1>1, <2>2 DEF Start
  <2>4. IndexInRange' /\ ResetInv'
    BY <2>1, <2>2
  <2> QED BY <2>3, <2>4
<1>2. ASSUME NEW t \in Thread, Reset(t) PROVE RangeInv'
  BY <1>2 DEF Reset
<1>3. ASSUME NEW t \in Thread, Advance(t) PROVE RangeInv'
  BY <1>3 DEF Advance
<1>4. CASE UNCHANGED vars
  BY <1>4 DEF vars
<1> QED
  BY <1>1, <1>2, <1>3, <1>4 DEF Next

\* The types and the position of every call in its list are invariant.
THEOREM RangeInvariance == Spec => []RangeInv
  BY RangeInit, RangeStep, PTL DEF Spec

\* The load balancer keeps the declared types.
THEOREM TypeCorrect == Spec => []TypeOK
<1>1. RangeInv => TypeOK
  BY DEF RangeInv
<1> QED
  BY RangeInvariance, <1>1, PTL

\* ElementAt never throws, however many calls move the index at once.
THEOREM NeverOutOfRange == Spec => []IndexInRange
<1>1. RangeInv => IndexInRange
  BY DEF RangeInv
<1> QED
  BY RangeInvariance, <1>1, PTL
-----------------------------------------------------------------------------
\* Nobody is about to increment at first.
LEMMA IndexInit == Init => IndexInv
<1> SUFFICES ASSUME Init, NEW s \in Service
             PROVE index[s] + Cardinality(Advancing(s))
                     < MaxLength + Cardinality(Thread)
  BY DEF IndexInv
<1>1. Advancing(s) = {} /\ index[s] = 0
  BY DEF Init, Advancing
<1>2. Cardinality({}) = 0 /\ Cardinality(Thread) \in Nat
  BY FS_EmptySet, AdvancingCount
<1> QED
  BY <1>1, <1>2

\* A call joins those about to increment only when the index is inside a list
\* or has just become 0, and leaves them by the increment it stood for.
LEMMA IndexStep == TypeOK /\ IndexInv /\ [Next]_vars => IndexInv'
<1> SUFFICES ASSUME TypeOK, IndexInv, [Next]_vars, NEW s \in Service
             PROVE index'[s] + Cardinality(Advancing(s)')
                     < MaxLength + Cardinality(Thread)
  BY DEF IndexInv
<1> DEFINE A == Advancing(s)
<1> USE DEF TypeOK
<1>1. /\ IsFiniteSet(A)
      /\ Cardinality(A) \in Nat
      /\ index[s] + Cardinality(A) < MaxLength + Cardinality(Thread)
  BY AdvancingCount DEF IndexInv, Advancing
<1>2. /\ Cardinality(A') \in Nat
      /\ Cardinality(A') <= Cardinality(Thread)
      /\ Cardinality(Thread) \in Nat
  BY AdvancingCount DEF Advancing
<1>3. ASSUME NEW t \in Thread, NEW r \in Service, NEW l \in Lists[r], Start(t, r, l)
      PROVE index'[s] + Cardinality(A') < MaxLength + Cardinality(Thread)
  <2>1. index' = index
    BY <1>3 DEF Start
  <2>2. CASE r = s /\ index[s] < Len(l)
    <3>1. Len(l) \in Nat /\ Len(l) <= MaxLength
      BY SortedLength
    <3> QED BY <1>2, <2>1, <2>2, <3>1
  <2>3. CASE ~(r = s /\ index[s] < Len(l))
    <3>1. Len(l) \in Nat
      BY SortedLength
    <3>2. A' = A
      BY <1>3, <2>3, <3>1 DEF Start, Advancing
    <3> QED BY <1>1, <2>1, <3>2
  <2> QED BY <2>2, <2>3
<1>4. ASSUME NEW t \in Thread, Reset(t)
      PROVE index'[s] + Cardinality(A') < MaxLength + Cardinality(Thread)
  <2>1. CASE svc[t] = s
    <3>1. index'[s] = 0
      BY <1>4, <2>1 DEF Reset
    <3> QED BY <1>2, <3>1
  <2>2. CASE svc[t] # s
    <3>1. A' = A /\ index'[s] = index[s]
      BY <1>4, <2>2 DEF Reset, Advancing
    <3> QED BY <1>1, <3>1
  <2> QED BY <2>1, <2>2
<1>5. ASSUME NEW t \in Thread, Advance(t)
      PROVE index'[s] + Cardinality(A') < MaxLength + Cardinality(Thread)
  <2>1. CASE svc[t] = s
    <3>1. t \in A /\ A' = A \ {t} /\ index'[s] = index[s] + 1
      BY <1>5, <2>1 DEF Advance, Advancing
    <3>2. Cardinality(A') = Cardinality(A) - 1
      BY <1>1, <3>1, FS_RemoveElement
    <3> QED BY <1>1, <3>1, <3>2
  <2>2. CASE svc[t] # s
    <3>1. A' = A /\ index'[s] = index[s]
      BY <1>5, <2>2 DEF Advance, Advancing
    <3> QED BY <1>1, <3>1
  <2> QED BY <2>1, <2>2
<1>6. CASE UNCHANGED vars
  <2>1. A' = A /\ index' = index
    BY <1>6 DEF vars, Advancing
  <2> QED BY <1>1, <2>1
<1> QED
  BY <1>3, <1>4, <1>5, <1>6 DEF Next

\* The shared index never exceeds the longest list by more than the number
\* of threads, so it cannot overflow however long the client runs.
THEOREM IndexStaysBounded == Spec => []IndexBounded
<1>1. TypeOK /\ IndexInv => IndexBounded
  <2> SUFFICES ASSUME TypeOK, IndexInv, NEW s \in Service
               PROVE index[s] < MaxLength + Cardinality(Thread)
    BY DEF IndexBounded
  <2>1. Cardinality(Advancing(s)) \in Nat /\ Cardinality(Thread) \in Nat
    BY AdvancingCount DEF Advancing
  <2> QED BY <2>1 DEF TypeOK, IndexInv
<1> QED
  BY IndexInit, IndexStep, TypeCorrect, <1>1, PTL DEF Spec
-----------------------------------------------------------------------------
\* As long as the calls for a service do not overlap, the endpoints before the
\* index have been returned once more than the others; a call in progress is
\* about to use the index, or to go back from the end of the list.
ServedType == served \in [Service -> [Endpoint -> Nat]]

OneCall(s) == \A t, u \in Thread : InProgress(t, s) /\ InProgress(u, s) => t = u

Ahead(s, l, i) == IF i <= index[s] /\ index[s] < Len(l) THEN 1 ELSE 0

Even(s, l) ==
  /\ index[s] \in 0 .. Len(l)
  /\ \A i \in 1 .. Len(l) :
       served[s][Sorted(l)[i]] = served[s][Sorted(l)[Len(l)]] + Ahead(s, l, i)

Following(t, s, l) ==
  InProgress(t, s) =>
    /\ endpoints[t] = Sorted(l)
    /\ pc[t] = "reset" => index[s] = Len(l)
    /\ pc[t] = "advance" => local[t] = index[s] /\ index[s] < Len(l)

BalanceInv ==
  /\ ServedType
  /\ \A s \in Service \ overlap :
       /\ OneCall(s)
       /\ Steady(s) => \A l \in Lists[s] :
            Even(s, l) /\ \A t \in Thread : Following(t, s, l)

\* A list that callers pass, with what sorting makes of it.
LEMMA PassedList ==
  ASSUME NEW s \in Service, NEW l \in Lists[s]
  PROVE  /\ l \in Seq(Nat) /\ l \in Seq(Endpoint) /\ Len(l) \in Nat \ {0}
         /\ \A i \in 1 .. Len(l) : Sorted(l)[i] \in Endpoint
<1>1. l \in Seq(Endpoint) /\ l # <<>> /\ Endpoint \subseteq Nat
  BY EndpointAssumption
<1>2. Len(l) \in Nat \ {0} /\ l \in [1 .. Len(l) -> Endpoint]
  BY <1>1, EmptySeq, LenProperties
<1>3. l \in Seq(Nat)
  <2>1. l \in [1 .. Len(l) -> Nat]
    BY <1>1, <1>2
  <2> QED BY <1>2, <2>1, SeqDef
<1>4. ASSUME NEW i \in 1 .. Len(l) PROVE Sorted(l)[i] \in Endpoint
  BY <1>2, <1>3, SortedRanked DEF Ranked, Elements
<1> QED BY <1>1, <1>2, <1>3, <1>4

\* Lists of a service whose list does not change are sorted alike.
LEMMA SteadyList ==
  ASSUME NEW s \in Service, Steady(s), NEW l \in Lists[s], NEW m \in Lists[s]
  PROVE  Distinct(l) /\ Len(l) = Len(m) /\ Sorted(l) = Sorted(m)
<1>1. Distinct(l) /\ Distinct(m) /\ Elements(l) = Elements(m)
  BY DEF Steady, Distinct
<1> QED BY <1>1, PassedList, SortedAlike

\* Nobody has been served, and nobody calls.
LEMMA BalanceInit == Init => BalanceInv
<1> SUFFICES ASSUME Init PROVE BalanceInv
  OBVIOUS
<1>1. ServedType /\ \A t \in Thread, s \in Service : ~InProgress(t, s)
  BY DEF Init, ServedType, InProgress
<1>2. ASSUME NEW s \in Service, NEW l \in Lists[s] PROVE Even(s, l)
  BY PassedList DEF Init, Even, Ahead
<1> QED BY <1>1, <1>2 DEF BalanceInv, OneCall, Following

\* A call that begins while another is in progress marks the service; one
\* that begins alone reads the index and takes the common order of the lists.
LEMMA BalanceStart ==
  ASSUME TypeOK, BalanceInv, NEW t \in Thread, NEW r \in Service, NEW m \in Lists[r],
         Start(t, r, m)
  PROVE  BalanceInv'
<1>1. /\ UNCHANGED <<index, served>>
      /\ \A u \in Thread \ {t} :
           pc'[u] = pc[u] /\ svc'[u] = svc[u] /\ endpoints'[u] = endpoints[u]
             /\ local'[u] = local[u]
      /\ pc[t] = "idle" /\ svc'[t] = r /\ endpoints'[t] = Sorted(m) /\ local'[t] = index[r]
      /\ pc'[t] = IF index[r] >= Len(m) THEN "reset" ELSE "advance"
      /\ overlap \subseteq overlap'
      /\ r \notin overlap' => \A u \in Thread : ~InProgress(u, r)
  BY DEF Start, TypeOK
<1>2. ASSUME NEW s \in Service \ overlap', NEW u \in Thread, NEW v \in Thread,
             InProgress(u, s)', InProgress(v, s)'
      PROVE  u = v
  <2>1. CASE s = r
    BY <1>1, <1>2, <2>1 DEF InProgress
  <2>2. CASE s # r
    <3>1. InProgress(u, s) /\ InProgress(v, s)
      BY <1>1, <1>2, <2>2 DEF InProgress
    <3> QED BY <1>1, <3>1 DEF BalanceInv, OneCall
  <2> QED BY <2>1, <2>2
<1>3. ASSUME NEW s \in Service \ overlap', Steady(s), NEW l \in Lists[s],
             NEW u \in Thread, InProgress(u, s)'
      PROVE  Following(u, s, l)'
  <2>1. Even(s, l) /\ Following(u, s, l)
    BY <1>1, <1>3 DEF BalanceInv
  <2>2. CASE u = t
    <3>1. s = r
      BY <1>1, <1>3, <2>2 DEF InProgress
    <3>2. Sorted(l) = Sorted(m) /\ Len(l) = Len(m) /\ Len(l) \in Nat
      BY <1>3, <3>1, SteadyList, PassedList
    <3>3. index[s] \in 0 .. Len(l)
      BY <2>1 DEF Even
    <3> QED BY <1>1, <2>2, <3>1, <3>2, <3>3 DEF Following
  <2>3. CASE u # t
    BY <1>1, <2>1, <2>3 DEF Following, InProgress
  <2> QED BY <2>2, <2>3
<1>4. ASSUME NEW s \in Service \ overlap', Steady(s), NEW l \in Lists[s]
      PROVE  Even(s, l)'
  BY <1>1, <1>4 DEF BalanceInv, Even, Ahead
<1>5. ServedType'
  BY <1>1 DEF BalanceInv, ServedType
<1> QED BY <1>2, <1>3, <1>4, <1>5 DEF BalanceInv, OneCall, Following, Steady

\* Going back to the start: by then everybody has been served as often.
LEMMA BalanceReset ==
  ASSUME TypeOK, BalanceInv, NEW t \in Thread, Reset(t)
  PROVE  BalanceInv'
<1>1. /\ UNCHANGED <<svc, endpoints, served, overlap>>
      /\ pc[t] = "reset" /\ pc'[t] = "advance" /\ local'[t] = 0 /\ svc[t] \in Service
      /\ \A u \in Thread \ {t} : pc'[u] = pc[u] /\ local'[u] = local[u]
      /\ \A s \in Service : index'[s] = IF s = svc[t] THEN 0 ELSE index[s]
  BY DEF Reset, TypeOK
<1>2. \A u \in Thread, s \in Service : InProgress(u, s)' <=> InProgress(u, s)
  BY <1>1 DEF InProgress
<1>3. ServedType' /\ \A s \in Service \ overlap : OneCall(s)'
  BY <1>1, <1>2 DEF BalanceInv, ServedType, OneCall
<1>4. ASSUME NEW s \in Service \ overlap, Steady(s), NEW l \in Lists[s]
      PROVE  Even(s, l)' /\ \A u \in Thread : Following(u, s, l)'
  <2>1. Even(s, l) /\ OneCall(s) /\ \A u \in Thread : Following(u, s, l)
    BY <1>4 DEF BalanceInv
  <2>2. Len(l) \in Nat \ {0}
    BY <1>4, PassedList
  <2>3. CASE s = svc[t]
    <3>1. InProgress(t, s) /\ \A u \in Thread : InProgress(u, s) => u = t
      BY <1>1, <2>1, <2>3 DEF InProgress, OneCall
    <3>2. index[s] = Len(l) /\ endpoints[t] = Sorted(l)
      BY <1>1, <2>1, <3>1 DEF Following
    <3>3. \A i \in 1 .. Len(l) : Ahead(s, l, i) = 0 /\ Ahead(s, l, i)' = 0
      BY <1>1, <2>2, <2>3, <3>2 DEF Ahead
    <3>4. Even(s, l)'
      BY <1>1, <2>1, <2>2, <2>3, <3>3 DEF Even
    <3>5. \A u \in Thread : Following(u, s, l)'
      BY <1>1, <1>2, <2>2, <2>3, <3>1, <3>2 DEF Following
    <3> QED BY <3>4, <3>5
  <2>4. CASE s # svc[t]
    <3>1. \A u \in Thread : InProgress(u, s) => u # t
      BY <2>4 DEF InProgress
    <3>2. index'[s] = index[s]
      BY <1>1, <2>4
    <3>3. Even(s, l)'
      BY <1>1, <2>1, <3>2 DEF Even, Ahead
    <3> QED BY <1>1, <1>2, <2>1, <3>1, <3>2, <3>3 DEF Following
  <2> QED BY <2>3, <2>4
<1> QED BY <1>1, <1>3, <1>4 DEF BalanceInv, Steady

\* The endpoint after those that are ahead is served, and joins them.
LEMMA BalanceAdvance ==
  ASSUME TypeOK, BalanceInv, NEW t \in Thread, Advance(t)
  PROVE  BalanceInv'
<1>1. /\ overlap' = overlap /\ svc' = svc
      /\ pc[t] = "advance" /\ pc'[t] = "idle" /\ svc[t] \in Service
      /\ \A u \in Thread \ {t} :
           pc'[u] = pc[u] /\ local'[u] = local[u] /\ endpoints'[u] = endpoints[u]
      /\ \A s \in Service : index'[s] = IF s = svc[t] THEN index[s] + 1 ELSE index[s]
  BY DEF Advance, TypeOK
<1>2. /\ ServedType'
      /\ \A s \in Service, e \in Endpoint :
           served'[s][e] = IF s = svc[t] /\ e = endpoints[t][local[t] + 1]
                             THEN served[s][e] + 1 ELSE served[s][e]
  <2> DEFINE x == endpoints[t][local[t] + 1]
             r == svc[t]
  <2>1. served' = [served EXCEPT ![r][x] = served[r][x] + 1]
    BY DEF Advance
  <2>2. served \in [Service -> [Endpoint -> Nat]] /\ r \in Service
    BY <1>1 DEF BalanceInv, ServedType
  <2> HIDE DEF x, r
  <2>3. \A s \in Service : s # r => served'[s] = served[s]
    BY <2>1, <2>2
  <2>4. served'[r] = [served[r] EXCEPT ![x] = served[r][x] + 1]
    BY <2>1, <2>2
  <2>5. /\ served'[r] \in [Endpoint -> Nat]
        /\ \A e \in Endpoint : served'[r][e] = IF e = x THEN served[r][e] + 1
                                                     ELSE served[r][e]
    <3> DEFINE g == served[r]
    <3>1. g \in [Endpoint -> Nat] /\ served'[r] = [g EXCEPT ![x] = g[x] + 1]
      BY <2>2, <2>4
    <3> HIDE DEF g
    <3>2. \A e \in Endpoint : served'[r][e] = IF e = x THEN g[e] + 1 ELSE g[e]
      BY <3>1
    <3>3. served'[r] \in [Endpoint -> Nat]
      <4>1. served'[r] = [e \in Endpoint |-> IF e = x THEN g[e] + 1 ELSE g[e]]
        BY <3>1
      <4>2. \A e \in Endpoint : (IF e = x THEN g[e] + 1 ELSE g[e]) \in Nat
        BY <3>1
      <4> QED BY <4>1, <4>2
    <3> QED BY <3>2, <3>3 DEF g
  <2>6. DOMAIN served' = Service /\ served' = [s \in Service |-> served'[s]]
    BY <2>1, <2>2
  <2>7. ServedType'
    BY <2>2, <2>3, <2>5, <2>6 DEF ServedType
  <2> QED BY <2>3, <2>5, <2>7 DEF x, r
<1>3. \A u \in Thread, s \in Service : InProgress(u, s)' => InProgress(u, s) /\ u # t
  BY <1>1 DEF InProgress
<1>4. \A s \in Service \ overlap : OneCall(s)'
  BY <1>3 DEF BalanceInv, OneCall
<1>5. ASSUME NEW s \in Service \ overlap, Steady(s), NEW l \in Lists[s]
      PROVE  Even(s, l)' /\ \A u \in Thread : Following(u, s, l)'
  <2>1. Even(s, l) /\ OneCall(s) /\ \A u \in Thread : Following(u, s, l)
    BY <1>5 DEF BalanceInv
  <2>2. Len(l) \in Nat \ {0} /\ \A i \in 1 .. Len(l) : Sorted(l)[i] \in Endpoint
    BY <1>5, PassedList
  <2>3. CASE s = svc[t]
    <3>1. InProgress(t, s) /\ \A u \in Thread : ~InProgress(u, s)'
      BY <1>1, <1>3, <2>1, <2>3 DEF InProgress, OneCall
    <3>2. endpoints[t] = Sorted(l) /\ local[t] = index[s] /\ index[s] \in 0 .. Len(l) - 1
      BY <1>1, <2>1, <2>2, <3>1 DEF Following, Even
    <3> DEFINE k == index[s] + 1
    <3>3. k \in 1 .. Len(l) /\ index'[s] = k
      BY <1>1, <2>2, <2>3, <3>2
    <3>4. \A i \in 1 .. Len(l) : Sorted(l)[i] = Sorted(l)[k] => i = k
      BY <1>5, <3>3, SteadyList, SortedOnce, PassedList
    <3>5. \A i \in 1 .. Len(l) : served'[s][Sorted(l)[i]] =
            IF i = k THEN served[s][Sorted(l)[i]] + 1 ELSE served[s][Sorted(l)[i]]
      BY <1>2, <2>2, <2>3, <3>2, <3>4
    <3>6. \A i \in 1 .. Len(l) : served[s][Sorted(l)[i]] \in Nat
      BY <2>2 DEF BalanceInv, ServedType
    <3>7. \A i \in 1 .. Len(l) : Ahead(s, l, i) = (IF i < k THEN 1 ELSE 0)
                              /\ Ahead(s, l, i)' = (IF i <= k /\ k < Len(l) THEN 1 ELSE 0)
      BY <2>2, <3>2, <3>3 DEF Ahead
    <3>8. \A i \in 1 .. Len(l) : served'[s][Sorted(l)[i]]
                                  = served'[s][Sorted(l)[Len(l)]] + Ahead(s, l, i)'
      <4>1. \A i \in 1 .. Len(l) : served[s][Sorted(l)[i]]
                = served[s][Sorted(l)[Len(l)]] + (IF i < k THEN 1 ELSE 0)
        BY <2>1, <3>7 DEF Even
      <4>2. Len(l) \in 1 .. Len(l)
        BY <2>2
      <4> HIDE DEF k
      <4> QED BY <2>2, <3>3, <3>5, <3>6, <3>7, <4>1, <4>2
    <3>9. Even(s, l)'
      BY <2>2, <3>3, <3>8 DEF Even
    <3> QED BY <3>1, <3>9 DEF Following
  <2>4. CASE s # svc[t]
    <3>1. index'[s] = index[s]
      BY <1>1, <2>4
    <3>2. \A i \in 1 .. Len(l) : served'[s][Sorted(l)[i]] = served[s][Sorted(l)[i]]
      BY <1>2, <2>2, <2>4
    <3>3. Even(s, l)'
      BY <2>1, <2>2, <3>1, <3>2 DEF Even, Ahead
    <3> QED BY <1>1, <1>3, <2>1, <3>1, <3>3 DEF Following
  <2> QED BY <2>3, <2>4
<1> QED BY <1>1, <1>2, <1>4, <1>5 DEF BalanceInv, Steady

LEMMA BalanceStep == TypeOK /\ BalanceInv /\ [Next]_vars => BalanceInv'
<1>1. ASSUME BalanceInv, UNCHANGED vars PROVE BalanceInv'
  BY <1>1 DEF vars, BalanceInv, ServedType, OneCall, InProgress, Steady, Even, Ahead,
     Following
<1> QED BY <1>1, BalanceStart, BalanceReset, BalanceAdvance DEF Next

\* Round robin is fair: while the calls for a service do not overlap, whatever
\* the order in which its list is passed and whatever other services do, no
\* endpoint is ever two ahead of another.
THEOREM SharesAreEqual == Spec => []Balanced
<1>1. TypeOK /\ BalanceInv => Balanced
  <2> SUFFICES ASSUME BalanceInv, NEW s \in Service \ overlap, Steady(s),
                      NEW l \in Lists[s], NEW i \in DOMAIN l, NEW j \in DOMAIN l
               PROVE  served[s][l[i]] <= served[s][l[j]] + 1
    BY DEF Balanced
  <2>1. l \in Seq(Nat) /\ i \in 1 .. Len(l) /\ j \in 1 .. Len(l)
    BY PassedList
  <2>2. PICK m \in 1 .. Len(l) : Sorted(l)[m] = l[i]
    BY <2>1, SortedAll
  <2>3. PICK n \in 1 .. Len(l) : Sorted(l)[n] = l[j]
    BY <2>1, SortedAll
  <2>4. Even(s, l)
    BY DEF BalanceInv
  <2>5. Len(l) \in 1 .. Len(l) /\ Sorted(l)[Len(l)] \in Endpoint
    BY PassedList
  <2>6. served[s][Sorted(l)[Len(l)]] \in Nat
    BY <2>5 DEF BalanceInv, ServedType
  <2> QED BY <2>2, <2>3, <2>4, <2>6 DEF Even, Ahead
<1> QED
  BY BalanceInit, BalanceStep, TypeCorrect, <1>1, PTL DEF Spec
=============================================================================
