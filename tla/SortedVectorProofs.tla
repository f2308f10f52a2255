--------------------------- MODULE SortedVectorProofs ---------------------------
(***************************************************************************)
(* Facts about numbers and vectors of different numbers.                   *)
(***************************************************************************)
EXTENDS SortedVectors, SequenceTheorems, FiniteSetTheorems, WellFoundedInduction, TLAPS

LEMMA SmallestNumber ==
    ASSUME NEW S \in SUBSET Nat, S # {}
    PROVE  \E m \in S : \A n \in S : m <= n
<1>1. PICK m \in S : \A n \in S : ~ (<<n, m>> \in OpToRel(<, Nat))
  BY NatLessThanWellFounded, WFMin
<1>2. \A n \in S : ~ (n < m)
  BY <1>1 DEF OpToRel
<1> QED BY <1>2

\* Induction up to N, over a set.
LEMMA CountUp ==
    ASSUME NEW N \in Nat, NEW S, 0 \in S, \A n \in 1..N : n - 1 \in S => n \in S
    PROVE  \A n \in 0..N : n \in S
<1> SUFFICES ASSUME (0..N) \ S # {} PROVE FALSE
  OBVIOUS
<1>1. (0..N) \ S \in SUBSET Nat
  OBVIOUS
<1>2. PICK m \in (0..N) \ S : \A n \in (0..N) \ S : m <= n
  BY <1>1, SmallestNumber
<1>3. m \in 1..N /\ m - 1 \in 0..N
  OBVIOUS
<1> QED BY <1>2, <1>3

\* Induction on a measure.
LEMMA MeasureInduction ==
    ASSUME NEW S, NEW T, NEW measure \in [S -> Nat],
           \A r \in S : (\A q \in S : measure[q] < measure[r] => q \in T) => r \in T
    PROVE  \A r \in S : r \in T
<1> DEFINE Bad == S \ T
           Sizes == {measure[r] : r \in Bad}
<1> SUFFICES ASSUME Bad # {} PROVE FALSE
  OBVIOUS
<1>1. Sizes \in SUBSET Nat /\ Sizes # {}
  OBVIOUS
<1>2. PICK m \in Sizes : \A n \in Sizes : m <= n
  BY <1>1, SmallestNumber
<1>3. PICK r \in Bad : m = measure[r]
  OBVIOUS
<1>4. ASSUME NEW q \in S, measure[q] < measure[r] PROVE q \in T
  <2>1. q \in Bad => m <= measure[q]
    BY <1>2
  <2>2. measure[q] \in Nat /\ measure[r] \in Nat
    OBVIOUS
  <2> QED BY <1>3, <1>4, <2>1, <2>2
<1> QED BY <1>4

--------------------------------------------------------------------------------
LEMMA ListIsSeq ==
    ASSUME NEW n \in Nat, NEW S, NEW l \in [1..n -> S]
    PROVE  l \in Seq(S) /\ Len(l) = n
<1>1. l \in Seq(S)
  BY SeqDef
<1>2. DOMAIN l = 1..n /\ DOMAIN l = 1..Len(l) /\ Len(l) \in Nat
  BY <1>1, LenProperties
<1> QED BY <1>1, <1>2

LEMMA ListFacts ==
    ASSUME NEW S, NEW l \in Seq(S)
    PROVE  /\ Len(l) \in Nat /\ DOMAIN l = 1..Len(l)
           /\ ToSet(l) \subseteq S
           /\ \A p \in 1..Len(l) : l[p] \in ToSet(l)
BY LenProperties, ElementOfSeq DEF ToSet

\* A list of different elements is as long as the set of them.
LEMMA InjectiveCounts ==
    ASSUME NEW S, NEW l \in Seq(S), IsInjective(l)
    PROVE  IsFiniteSet(ToSet(l)) /\ Cardinality(ToSet(l)) = Len(l)
<1>1. Len(l) \in Nat /\ DOMAIN l = 1..Len(l) /\ l \in [1..Len(l) -> ToSet(l)]
  BY LenProperties, ListFacts
<1>2. l \in Bijection(1..Len(l), ToSet(l))
  BY <1>1 DEF Bijection, Injection, Surjection, ToSet
<1>3. ExistsBijection(1..Len(l), ToSet(l))
  BY <1>2 DEF ExistsBijection
<1> QED BY <1>1, <1>3, FS_CountingElements, FS_NatBijection

LEMMA SameLength ==
    ASSUME NEW S, NEW l \in Seq(S), NEW m \in Seq(S), IsInjective(l), IsInjective(m),
           ToSet(l) \subseteq ToSet(m)
    PROVE  Len(l) = Len(m) <=> ToSet(l) = ToSet(m)
BY InjectiveCounts, FS_Subset

\* Sets of numbers can be listed in ascending order.
LEMMA AscendingListing ==
    ASSUME NEW A \in SUBSET Nat, IsFiniteSet(A)
    PROVE  /\ Cardinality(A) \in Nat
           /\ \E g \in [1..Cardinality(A) -> A] :
                 \A i, j \in 1..Cardinality(A) : i < j => g[i] < g[j]
<1> DEFINE Ascends(s, n) == \A i, j \in 1..n : i < j => s[i] < s[j]
           T == {n \in Nat : \A D \in SUBSET A : Cardinality(D) = n => \E s \in [1..n -> D] : Ascends(s, n)}
           N == Cardinality(A)
<1>1. \A D \in SUBSET A : IsFiniteSet(D) /\ Cardinality(D) \in Nat
  BY FS_Subset, FS_CardinalityType
<1>2. 0 \in T
  <2>1. ASSUME NEW D \in SUBSET A, Cardinality(D) = 0 PROVE \E s \in [1..0 -> D] : Ascends(s, 0)
    <3>1. [i \in 1..0 |-> 0] \in [1..0 -> D] /\ Ascends([i \in 1..0 |-> 0], 0)
      OBVIOUS
    <3> HIDE DEF Ascends
    <3> QED BY <3>1
  <2> HIDE DEF Ascends
  <2> QED BY <2>1
<1>3. ASSUME NEW n \in 1..N, n - 1 \in T PROVE n \in T
  <2>0. n \in Nat /\ n - 1 \in Nat /\ n # 0
    BY <1>1
  <2> SUFFICES ASSUME NEW D \in SUBSET A, Cardinality(D) = n
               PROVE  \E s \in [1..n -> D] : Ascends(s, n)
    BY <2>0
  <2>1. D # {}
    BY <2>0, FS_EmptySet
  <2>2. PICK l \in D : \A k \in D : l <= k
    BY <2>1, SmallestNumber
  <2>3. Cardinality(D \ {l}) = n - 1 /\ D \ {l} \in SUBSET A
    BY <1>1, FS_RemoveElement
  <2>4. PICK s \in [1..(n - 1) -> D \ {l}] : Ascends(s, n - 1)
    BY <1>3, <2>3
  <2> DEFINE g == [i \in 1..n |-> IF i = 1 THEN l ELSE s[i - 1]]
  <2>5. \A i \in 1..n : i # 1 => i - 1 \in 1..(n - 1)
    BY <2>0
  <2>6. g \in [1..n -> D]
    BY <2>4, <2>5
  <2>7. ASSUME NEW i \in 1..n, NEW j \in 1..n, i < j PROVE g[i] < g[j]
    <3>1. j # 1 /\ j - 1 \in 1..(n - 1) /\ g[j] = s[j - 1] /\ g[j] \in D \ {l}
      BY <2>0, <2>4, <2>5, <2>7
    <3>2. CASE i = 1
      <4>1. g[i] = l /\ l <= g[j] /\ l # g[j] /\ l \in Nat /\ g[j] \in Nat
        BY <2>2, <3>1, <3>2
      <4> QED BY <4>1
    <3>3. CASE i # 1
      <4>1. i - 1 \in 1..(n - 1) /\ i - 1 < j - 1 /\ g[i] = s[i - 1]
        BY <2>0, <2>5, <2>7, <3>3
      <4> QED BY <2>4, <3>1, <4>1
    <3> QED BY <3>2, <3>3
  <2>8. Ascends(g, n)
    BY <2>7
  <2> HIDE DEF g, Ascends
  <2> QED BY <2>6, <2>8
<1>4. N \in Nat
  BY <1>1
<1>5. N \in T
  <2> HIDE DEF T, N
  <2> QED BY <1>2, <1>3, <1>4, CountUp
<1> QED BY <1>4, <1>5 DEF T, N

\* The listing by places is any such listing.
LEMMA ListingFacts ==
    ASSUME NEW A \in SUBSET Nat, IsFiniteSet(A), NEW g \in [1..Cardinality(A) -> A],
           \A i, j \in 1..Cardinality(A) : i < j => g[i] < g[j]
    PROVE  increasing(A) = g /\ ToSet(g) = A /\ Increasing(g) /\ IsInjective(g)
<1> DEFINE N == Cardinality(A)
<1>1. N \in Nat
  BY FS_CardinalityType
<1>2. g \in [1..N -> A] /\ \A i, j \in 1..N : i < j => g[i] < g[j]
  OBVIOUS
<1>3. \A i, j \in 1..N : /\ g[i] \in Nat
                         /\ g[i] < g[j] <=> i < j
                         /\ g[i] = g[j] => i = j
  <2> SUFFICES ASSUME NEW i \in 1..N, NEW j \in 1..N
               PROVE  g[i] \in Nat /\ (g[i] < g[j] <=> i < j) /\ (g[i] = g[j] => i = j)
    OBVIOUS
  <2>1. g[i] \in Nat /\ g[j] \in Nat /\ i \in Nat /\ j \in Nat
    <3>1. g[i] \in A /\ g[j] \in A /\ \A a \in A : a \in Nat
      BY <1>2
    <3>2. i \in Nat /\ j \in Nat
      BY <1>1
    <3> QED BY <3>1, <3>2
  <2>2. (i < j => g[i] < g[j]) /\ (j < i => g[j] < g[i])
    BY <1>2
  <2> QED BY <2>1, <2>2
<1>4. \A x \in A : \E i \in 1..N : g[i] = x
  <2>1. g \in Injection(1..N, A)
    BY <1>3 DEF Injection, IsInjective
  <2>2. IsFiniteSet(1..N) /\ Cardinality(1..N) = N
    BY <1>1, FS_Interval
  <2>3. g \in Surjection(1..N, A)
    BY <2>1, <2>2, FS_Injection
  <2> QED BY <2>3 DEF Surjection
<1>5. \A i \in 1..N : Cardinality({y \in A : y < g[i]}) = i - 1
  <2> TAKE i \in 1..N
  <2> DEFINE f == [j \in 1..(i - 1) |-> g[j]]
             B == {y \in A : y < g[i]}
  <2>1. i - 1 \in Nat /\ 1..(i - 1) \subseteq 1..N
    BY <1>1
  <2>2. \A y \in B : \E j \in 1..(i - 1) : f[j] = y
    <3> SUFFICES ASSUME NEW y \in B PROVE \E j \in 1..(i - 1) : f[j] = y
      OBVIOUS
    <3>1. PICK j \in 1..N : g[j] = y
      BY <1>4
    <3>2. j < i
      BY <1>3, <3>1
    <3> QED BY <1>1, <3>1, <3>2
  <2>3. f \in [1..(i - 1) -> B]
    BY <1>1, <1>2, <2>1
  <2>4. f \in Bijection(1..(i - 1), B)
    <3>1. \A a, b \in 1..(i - 1) : f[a] = f[b] => a = b
      BY <1>3, <2>1
    <3> HIDE DEF f, B
    <3> QED BY <2>2, <2>3, <3>1 DEF Bijection, Injection, Surjection, IsInjective
  <2> HIDE DEF f, B
  <2>5. Cardinality(B) = i - 1
    BY <2>1, <2>4, FS_CountingElements DEF ExistsBijection
  <2> QED BY <2>5 DEF B
<1>6. increasing(A) = g
  <2>1. \A i \in 1..N : \A x \in A : Cardinality({y \in A : y < x}) = i - 1 <=> x = g[i]
    <3> SUFFICES ASSUME NEW i \in 1..N, NEW x \in A, Cardinality({y \in A : y < x}) = i - 1
                 PROVE  x = g[i]
      BY <1>5
    <3>1. PICK j \in 1..N : g[j] = x
      BY <1>4
    <3>2. Cardinality({y \in A : y < x}) = j - 1
      BY <1>5, <3>1
    <3> QED BY <1>1, <3>1, <3>2
  <2>2. \A i \in 1..N : (CHOOSE x \in A : Cardinality({y \in A : y < x}) = i - 1) = g[i]
    <3> TAKE i \in 1..N
    <3>1. g[i] \in A
      BY <1>2
    <3> QED BY <2>1, <3>1
  <2> QED BY <1>2, <2>2 DEF increasing
<1>7. ToSet(g) = A /\ Increasing(g) /\ IsInjective(g)
  <2>1. DOMAIN g = 1..N /\ \A i \in 1..N : g[i] \in A
    BY <1>2
  <2> HIDE DEF N
  <2>2. ToSet(g) = A
    BY <1>4, <2>1 DEF ToSet
  <2> QED BY <1>3, <2>1, <2>2 DEF Increasing, IsInjective
<1> QED BY <1>6, <1>7

\* All there is to know about it.
LEMMA IncreasingFacts ==
    ASSUME NEW A \in SUBSET Nat, IsFiniteSet(A)
    PROVE  /\ increasing(A) \in Seq(A) /\ Len(increasing(A)) = Cardinality(A)
           /\ Increasing(increasing(A)) /\ ToSet(increasing(A)) = A
           /\ IsInjective(increasing(A))
<1>1. PICK g \in [1..Cardinality(A) -> A] : \A i, j \in 1..Cardinality(A) : i < j => g[i] < g[j]
  BY AscendingListing
<1>2. increasing(A) = g /\ ToSet(g) = A /\ Increasing(g) /\ IsInjective(g)
  BY <1>1, ListingFacts
<1>3. g \in Seq(A) /\ Len(g) = Cardinality(A)
  BY <1>1, AscendingListing, ListIsSeq
<1> QED BY <1>2, <1>3

\* An ascending vector is determined by its elements.
LEMMA IncreasingUnique ==
    ASSUME NEW l \in Seq(Nat), Increasing(l)
    PROVE  /\ ToSet(l) \in SUBSET Nat /\ IsFiniteSet(ToSet(l))
           /\ l = increasing(ToSet(l)) /\ IsInjective(l)
<1>1. Len(l) \in Nat /\ DOMAIN l = 1..Len(l) /\ ToSet(l) \in SUBSET Nat
      /\ \A i \in 1..Len(l) : l[i] \in Nat /\ l[i] \in ToSet(l)
  BY ListFacts, ElementOfSeq
<1>2. \A i, j \in 1..Len(l) : i < j => l[i] < l[j]
  BY <1>1 DEF Increasing
<1>3. \A i, j \in 1..Len(l) : l[i] = l[j] => i = j
  <2> SUFFICES ASSUME NEW i \in 1..Len(l), NEW j \in 1..Len(l), i # j PROVE l[i] # l[j]
    OBVIOUS
  <2>1. (i < j \/ j < i) /\ l[i] \in Nat /\ l[j] \in Nat
    BY <1>1
  <2> QED BY <1>2, <2>1
<1>4. IsInjective(l)
  BY <1>1, <1>3 DEF IsInjective
<1>5. IsFiniteSet(ToSet(l)) /\ Cardinality(ToSet(l)) = Len(l)
  BY <1>4, InjectiveCounts
<1>6. l \in [1..Len(l) -> ToSet(l)]
  BY <1>1, SeqDef
<1>7. increasing(ToSet(l)) = l
  BY <1>1, <1>2, <1>5, <1>6, ListingFacts
<1> QED BY <1>1, <1>4, <1>5, <1>7

\* Sorting keeps the elements of a vector and orders them.
LEMMA SortedFacts ==
    ASSUME NEW S \in SUBSET Nat, NEW l \in Seq(S), IsInjective(l)
    PROVE  /\ Sorted(l) \in Seq(S) /\ Len(Sorted(l)) = Len(l)
           /\ ToSet(Sorted(l)) = ToSet(l) /\ Increasing(Sorted(l)) /\ IsInjective(Sorted(l))
           /\ Sorted(Sorted(l)) = Sorted(l)
<1>1. ToSet(l) \in SUBSET Nat /\ ToSet(l) \subseteq S
  BY ListFacts
<1>2. IsFiniteSet(ToSet(l)) /\ Cardinality(ToSet(l)) = Len(l)
  BY InjectiveCounts
<1> QED BY <1>1, <1>2, IncreasingFacts, SeqMonotonic DEF Sorted
================================================================================
