---------------------------- MODULE ExtractorProofs ----------------------------
(***************************************************************************)
(* From the lines of the input to the dependencies: the blocks and what is *)
(* computed from them are those the lines describe, for every input.       *)
(***************************************************************************)
EXTENDS DQDIMACSParser, SortedVectorProofs

--------------------------------------------------------------------------------
(***************************************************************************)
(* The blocks of the formula.                                              *)
(***************************************************************************)
ElementsAt(l, from, to) == {l[p] : p \in from..to}

\* Blocks that end at the positions listed, the last one at n.
BlockEnds(blocks, n) ==
    /\ blocks \in Seq(Nat) /\ Len(blocks) \in Nat \ {0}
    /\ blocks[1] = 0 /\ blocks[Len(blocks)] = n
    /\ Increasing(blocks)

Alternate(first, U, E) == IF first THEN U \in {E, E + 1} ELSE E \in {U, U + 1}

FormulaInv ==
    /\ universal_variables \in Seq(Universals) /\ IsInjective(universal_variables)
    /\ existential_variables \in Seq(Existentials) /\ IsInjective(existential_variables)
    /\ BlockEnds(universal_blocks, Len(universal_variables))
    /\ BlockEnds(existential_blocks, Len(existential_variables))
    /\ first_block_type \in BOOLEAN
    /\ Alternate(first_block_type, getNofUniversalBlocks, getNofExistentialBlocks)
    /\ lastBlock = IF getNofExistentialBlocks > 0 /\ ~lastBlockType(first_block_type)
                   THEN ElementsAt(existential_variables, EB(getNofExistentialBlocks - 1) + 1,
                                   EB(getNofExistentialBlocks))
                   ELSE {}

ExplicitsInv ==
    /\ DOMAIN explicit_dependencies \subseteq Existentials
    /\ \A v \in DOMAIN explicit_dependencies :
          /\ explicit_dependencies[v] \in Seq(Universals) /\ IsInjective(explicit_dependencies[v])
          /\ ToSet(explicit_dependencies[v]) \subseteq ToSet(universal_variables)
          /\ prefix[v] = ToSet(explicit_dependencies[v])
    /\ ToSet(existential_variables) \cap DOMAIN explicit_dependencies = {}
    /\ DOMAIN prefix = ToSet(existential_variables) \cup DOMAIN explicit_dependencies
    /\ \A v \in DOMAIN prefix : prefix[v] \subseteq Universals

\* While the lines are read, a block depends on the universals before it.
ReadingInv ==
    phase = "reading" =>
        /\ processed = {}
        /\ \A i \in 0..(getNofExistentialBlocks - 1) :
              \A p \in (EB(i) + 1)..EB(i + 1) :
                  prefix[existential_variables[p]]
                     = ElementsAt(universal_variables, 1, universal_blocks[UniversalIndex(i) + 1])

LEMMA EndsFacts ==
    ASSUME NEW n \in Nat, NEW blocks, BlockEnds(blocks, n)
    PROVE  /\ DOMAIN blocks = 1..Len(blocks) /\ \A k \in 1..Len(blocks) : blocks[k] \in 0..n
           /\ \A j, k \in 1..Len(blocks) : j < k => blocks[j] < blocks[k]
           /\ n = 0 <=> Len(blocks) = 1
<1>1. /\ Len(blocks) \in Nat \ {0} /\ DOMAIN blocks = 1..Len(blocks)
      /\ \A k \in 1..Len(blocks) : blocks[k] \in Nat
      /\ blocks[1] = 0 /\ blocks[Len(blocks)] = n
      /\ \A j, k \in 1..Len(blocks) : j < k => blocks[j] < blocks[k]
  BY LenProperties DEF BlockEnds, Increasing
<1> QED BY <1>1

\* A block that ends keeps the ends before it.
LEMMA EndBlockFacts ==
    ASSUME NEW n \in Nat, NEW m \in Nat, n < m, NEW blocks, BlockEnds(blocks, n), NEW c \in BOOLEAN
    PROVE  LET after == EndBlock(blocks, c, m)
           IN  /\ BlockEnds(after, m)
               /\ Len(after) = IF c /\ Len(blocks) > 1 THEN Len(blocks) ELSE Len(blocks) + 1
               /\ \A k \in 1..(Len(after) - 1) : after[k] = blocks[k]
<1> DEFINE after == EndBlock(blocks, c, m)
           L == Len(blocks)
<1>1. /\ L \in Nat \ {0} /\ blocks \in Seq(Nat) /\ blocks[1] = 0
      /\ \A k \in 1..L : blocks[k] \in 0..n
      /\ \A j, k \in 1..L : j < k => blocks[j] < blocks[k]
  BY EndsFacts DEF BlockEnds
<1>2. CASE c /\ L > 1
  <2>1. after = [blocks EXCEPT ![L] = m]
    BY <1>2 DEF EndBlock, ReplaceAt
  <2>2. after \in Seq(Nat) /\ Len(after) = L /\ \A j \in 1..L : after[j] = IF j = L THEN m ELSE blocks[j]
    BY <1>1, <2>1, ExceptSeq
  <2> HIDE DEF after
  <2>3. \A j, k \in 1..L : j < k => after[j] < after[k]
    BY <1>1, <2>2
  <2>4. DOMAIN after = 1..L
    BY <2>2, LenProperties
  <2>5. BlockEnds(after, m)
    <3>1. after[1] = 0 /\ after[Len(after)] = m /\ Len(after) \in Nat \ {0}
      BY <1>1, <1>2, <2>2
    <3> QED BY <2>2, <2>3, <2>4, <3>1 DEF BlockEnds, Increasing
  <2>6. \A k \in 1..(Len(after) - 1) : after[k] = blocks[k]
    BY <1>1, <2>2
  <2> QED BY <1>2, <2>2, <2>5, <2>6 DEF after
<1>3. CASE ~(c /\ L > 1)
  <2>1. after = Append(blocks, m)
    BY <1>3 DEF EndBlock
  <2>2. /\ after \in Seq(Nat) /\ Len(after) = L + 1
        /\ \A j \in 1..(L + 1) : after[j] = IF j = L + 1 THEN m ELSE blocks[j]
    BY <1>1, <2>1, AppendProperties
  <2> HIDE DEF after
  <2>3. ASSUME NEW j \in 1..(L + 1), NEW k \in 1..(L + 1), j < k PROVE after[j] < after[k]
    <3>1. j \in 1..L /\ after[j] = blocks[j] /\ blocks[j] \in 0..n
      BY <1>1, <2>2, <2>3
    <3>2. CASE k = L + 1
      BY <2>2, <3>1, <3>2
    <3>3. CASE k \in 1..L
      <4>1. after[k] = blocks[k]
        BY <1>1, <2>2, <3>3
      <4> QED BY <1>1, <2>3, <3>1, <3>3, <4>1
    <3> QED BY <1>1, <3>2, <3>3
  <2>4. DOMAIN after = 1..(L + 1)
    BY <2>2, LenProperties
  <2>5. BlockEnds(after, m)
    BY <1>1, <1>3, <2>2, <2>3, <2>4 DEF BlockEnds, Increasing
  <2>6. \A k \in 1..(Len(after) - 1) : after[k] = blocks[k]
    BY <1>1, <2>2
  <2> QED BY <1>3, <2>2, <2>5, <2>6 DEF after
<1> QED BY <1>2, <1>3

\* New variables behind those there are.
LEMMA ListsJoin ==
    ASSUME NEW S, NEW l \in Seq(S), NEW m \in Seq(S), IsInjective(l), IsInjective(m),
           ToSet(l) \cap ToSet(m) = {}
    PROVE  /\ l \o m \in Seq(S) /\ IsInjective(l \o m) /\ Len(l \o m) = Len(l) + Len(m)
           /\ ToSet(l \o m) = ToSet(l) \cup ToSet(m)
           /\ \A p \in 1..Len(l) : (l \o m)[p] = l[p]
           /\ \A p \in (Len(l) + 1)..(Len(l) + Len(m)) : (l \o m)[p] = m[p - Len(l)]
           /\ ElementsAt(l \o m, Len(l) + 1, Len(l) + Len(m)) = ToSet(m)
<1> DEFINE s == l \o m
<1>1. /\ Len(l) \in Nat /\ Len(m) \in Nat /\ DOMAIN l = 1..Len(l) /\ DOMAIN m = 1..Len(m)
      /\ s \in Seq(S) /\ Len(s) = Len(l) + Len(m)
      /\ \A p \in 1..(Len(l) + Len(m)) : s[p] = IF p <= Len(l) THEN l[p] ELSE m[p - Len(l)]
  BY LenProperties, ConcatProperties
<1>2. DOMAIN s = 1..(Len(l) + Len(m))
  BY <1>1, LenProperties
<1> HIDE DEF s
<1>3. /\ \A p \in 1..Len(l) : s[p] = l[p] /\ s[p] \in ToSet(l)
      /\ \A p \in (Len(l) + 1)..(Len(l) + Len(m)) :
            p - Len(l) \in 1..Len(m) /\ s[p] = m[p - Len(l)] /\ s[p] \in ToSet(m)
  <2>1. ASSUME NEW p \in 1..Len(l) PROVE s[p] = l[p] /\ s[p] \in ToSet(l)
    <3>1. p \in 1..(Len(l) + Len(m)) /\ p <= Len(l)
      BY <1>1
    <3>2. s[p] = l[p] /\ p \in DOMAIN l
      BY <1>1, <3>1
    <3> QED BY <3>2, Zenon DEF ToSet
  <2>2. ASSUME NEW p \in (Len(l) + 1)..(Len(l) + Len(m))
        PROVE  p - Len(l) \in 1..Len(m) /\ s[p] = m[p - Len(l)] /\ s[p] \in ToSet(m)
    <3>1. p \in 1..(Len(l) + Len(m)) /\ ~(p <= Len(l)) /\ p - Len(l) \in 1..Len(m)
      BY <1>1
    <3> QED BY <1>1, <3>1 DEF ToSet
  <2> QED BY <2>1, <2>2
<1>4. IsInjective(s)
  <2> SUFFICES ASSUME NEW a \in 1..(Len(l) + Len(m)), NEW b \in 1..(Len(l) + Len(m)), s[a] = s[b]
               PROVE  a = b
    BY <1>2 DEF IsInjective
  <2>1. CASE a <= Len(l) /\ b <= Len(l)
    <3>1. a \in 1..Len(l) /\ b \in 1..Len(l)
      BY <1>1, <2>1
    <3>2. l[a] = l[b] /\ a \in DOMAIN l /\ b \in DOMAIN l
      BY <1>1, <1>3, <3>1
    <3> QED BY <3>2 DEF IsInjective
  <2>2. CASE a > Len(l) /\ b > Len(l)
    <3>1. a - Len(l) \in 1..Len(m) /\ b - Len(l) \in 1..Len(m) /\ m[a - Len(l)] = m[b - Len(l)]
      BY <1>1, <1>3, <2>2
    <3>2. a - Len(l) = b - Len(l)
      BY <1>1, <3>1 DEF IsInjective
    <3> QED BY <1>1, <3>2
  <2>3. CASE (a <= Len(l)) # (b <= Len(l))
    <3>1. \/ s[a] \in ToSet(l) /\ s[b] \in ToSet(m)
          \/ s[a] \in ToSet(m) /\ s[b] \in ToSet(l)
      BY <1>1, <1>3, <2>3
    <3> QED BY <3>1
  <2> QED BY <1>1, <2>1, <2>2, <2>3
<1>5. ElementsAt(s, Len(l) + 1, Len(l) + Len(m)) = ToSet(m)
  <2>1. ASSUME NEW q \in 1..Len(m)
        PROVE  q + Len(l) \in (Len(l) + 1)..(Len(l) + Len(m)) /\ s[q + Len(l)] = m[q]
    <3>1. q + Len(l) \in (Len(l) + 1)..(Len(l) + Len(m)) /\ (q + Len(l)) - Len(l) = q
      BY <1>1
    <3> QED BY <1>3, <3>1
  <2>2. ToSet(m) = {m[q] : q \in 1..Len(m)}
    BY <1>1 DEF ToSet
  <2>3. ElementsAt(s, Len(l) + 1, Len(l) + Len(m)) \subseteq ToSet(m)
    BY <1>3 DEF ElementsAt
  <2>4. ToSet(m) \subseteq ElementsAt(s, Len(l) + 1, Len(l) + Len(m))
    BY <2>1, <2>2 DEF ElementsAt
  <2> QED BY <2>3, <2>4
<1>6. ToSet(s) = ToSet(l) \cup ToSet(m)
  <2>1. ToSet(s) \subseteq ToSet(l) \cup ToSet(m)
    <3>1. \A p \in 1..(Len(l) + Len(m)) : s[p] \in ToSet(l) \cup ToSet(m)
      BY <1>1, <1>3
    <3> QED BY <1>2, <3>1 DEF ToSet
  <2>2. ToSet(l) \subseteq ToSet(s)
    <3>1. \A p \in 1..Len(l) : p \in DOMAIN s /\ s[p] = l[p]
      BY <1>1, <1>2
    <3> QED BY <1>1, <3>1 DEF ToSet
  <2>3. ToSet(m) \subseteq ToSet(s)
    <3>1. (Len(l) + 1)..(Len(l) + Len(m)) \subseteq DOMAIN s
      BY <1>1, <1>2
    <3> QED BY <1>5, <3>1 DEF ElementsAt, ToSet
  <2> QED BY <2>1, <2>2, <2>3
<1> QED BY <1>1, <1>3, <1>4, <1>5, <1>6 DEF s

LEMMA ListsFacts ==
    ASSUME NEW S, IsFiniteSet(S), NEW l \in Lists(S)
    PROVE  l \in Seq(S) /\ IsInjective(l) /\ ToSet(l) \subseteq S
<1>1. PICK s \in SUBSET S : l \in SetToSeqs(s)
  BY DEF Lists, SetToAllKPermutations
<1>2. Cardinality(s) \in Nat
  BY FS_Subset, FS_CardinalityType
<1>3. l \in [1..Cardinality(s) -> s] /\ \A i, j \in 1..Cardinality(s) : i # j => l[i] # l[j]
  BY <1>1 DEF SetToSeqs
<1>4. l \in [1..Cardinality(s) -> S]
  BY <1>3
<1> QED BY <1>2, <1>3, <1>4, ListIsSeq DEF IsInjective, ToSet

--------------------------------------------------------------------------------
(***************************************************************************)
(* Reading: each line keeps the invariants.                                *)
(***************************************************************************)
\* Numbers of blocks and their ends, for the provers.
LEMMA FormulaFacts ==
    ASSUME FormulaInv
    PROVE  LET U == getNofUniversalBlocks
               E == getNofExistentialBlocks
               n == Len(universal_variables)
               m == Len(existential_variables)
           IN  /\ U \in Nat /\ E \in Nat /\ n \in Nat /\ m \in Nat
               /\ Len(universal_blocks) = U + 1 /\ Len(existential_blocks) = E + 1
               /\ \A k \in 1..(U + 1) : universal_blocks[k] \in 0..n
               /\ \A k \in 0..E : EB(k) \in 0..m
               /\ \A j, k \in 1..(U + 1) : j < k => universal_blocks[j] < universal_blocks[k]
               /\ \A j, k \in 0..E : j < k => EB(j) < EB(k)
               /\ EB(0) = 0 /\ EB(E) = m /\ universal_blocks[1] = 0 /\ universal_blocks[U + 1] = n
               /\ n = 0 <=> U = 0
               /\ m = 0 <=> E = 0
               /\ universal_variables = <<>> <=> U = 0
               /\ existential_variables = <<>> <=> E = 0
               /\ DOMAIN universal_variables = 1..n /\ DOMAIN existential_variables = 1..m
<1> DEFINE U == getNofUniversalBlocks
           E == getNofExistentialBlocks
           n == Len(universal_variables)
           m == Len(existential_variables)
<1>1. /\ n \in Nat /\ m \in Nat /\ DOMAIN universal_variables = 1..n /\ DOMAIN existential_variables = 1..m
      /\ universal_variables = <<>> <=> n = 0
      /\ existential_variables = <<>> <=> m = 0
  BY LenProperties, EmptySeq DEF FormulaInv
<1>2. /\ Len(universal_blocks) \in Nat \ {0} /\ Len(existential_blocks) \in Nat \ {0}
      /\ universal_blocks[1] = 0 /\ existential_blocks[1] = 0
      /\ universal_blocks[Len(universal_blocks)] = n /\ existential_blocks[Len(existential_blocks)] = m
  BY DEF FormulaInv, BlockEnds
<1>3. /\ \A k \in 1..Len(universal_blocks) : universal_blocks[k] \in 0..n
      /\ \A j, k \in 1..Len(universal_blocks) : j < k => universal_blocks[j] < universal_blocks[k]
      /\ n = 0 <=> Len(universal_blocks) = 1
  BY <1>1, EndsFacts DEF FormulaInv
<1>4. /\ \A k \in 1..Len(existential_blocks) : existential_blocks[k] \in 0..m
      /\ \A j, k \in 1..Len(existential_blocks) : j < k => existential_blocks[j] < existential_blocks[k]
      /\ m = 0 <=> Len(existential_blocks) = 1
  BY <1>1, EndsFacts DEF FormulaInv
<1>5. U \in Nat /\ E \in Nat /\ Len(universal_blocks) = U + 1 /\ Len(existential_blocks) = E + 1
  BY <1>2 DEF getNofUniversalBlocks, getNofExistentialBlocks
<1>6. \A k \in 0..E : k + 1 \in 1..Len(existential_blocks)
  BY <1>5
<1> HIDE DEF U, E, n, m
<1>7. /\ \A k \in 0..E : EB(k) \in 0..m
      /\ \A j, k \in 0..E : j < k => EB(j) < EB(k)
      /\ EB(0) = 0 /\ EB(E) = m
  <2>1. \A k \in 0..E : EB(k) \in 0..m
    BY <1>4, <1>6 DEF EB
  <2>2. ASSUME NEW j \in 0..E, NEW k \in 0..E, j < k PROVE EB(j) < EB(k)
    <3>1. j + 1 < k + 1
      BY <2>2
    <3> QED BY <1>4, <1>6, <3>1 DEF EB
  <2>3. EB(0) = 0 /\ EB(E) = m
    BY <1>2, <1>5 DEF EB
  <2> QED BY <2>1, <2>2, <2>3
<1>8. (n = 0 <=> U = 0) /\ (m = 0 <=> E = 0)
  BY <1>3, <1>4, <1>5
<1> QED BY <1>1, <1>2, <1>3, <1>5, <1>7, <1>8 DEF U, E, n, m

\* The index of the universal block before a block of existentials.
LEMMA IndexFacts ==
    ASSUME FormulaInv, NEW i \in 0..(getNofExistentialBlocks - 1)
    PROVE  /\ UniversalIndex(i) = IF first_block_type THEN i + 1 ELSE i
           /\ UniversalIndex(i) \in 0..getNofUniversalBlocks
<1> DEFINE U == getNofUniversalBlocks
           E == getNofExistentialBlocks
<1>1. U \in Nat /\ E \in Nat
  BY FormulaFacts
<1>2. IF first_block_type THEN U \in {E, E + 1} ELSE E \in {U, U + 1}
  BY DEF FormulaInv, Alternate
<1>3. UniversalIndex(i) = LET index == IF first_block_type THEN i + 1 ELSE i
                          IN  IF index < U THEN index ELSE U
  BY DEF UniversalIndex
<1>4. i \in 0..(E - 1)
  OBVIOUS
<1> HIDE DEF U, E
<1>5. /\ UniversalIndex(i) = IF first_block_type THEN i + 1 ELSE i
      /\ UniversalIndex(i) \in 0..U
  BY <1>1, <1>2, <1>3, <1>4
<1> QED BY <1>5 DEF U

LEMMA UniversalLineKeepsBlocks ==
    ASSUME FormulaInv, ReadingInv, phase = "reading", NEW vs \in Seq(Universals), IsInjective(vs),
           ToSet(universal_variables) \cap ToSet(vs) = {}, addUniversalBlock(vs)
    PROVE  FormulaInv' /\ ReadingInv'
           /\ ToSet(universal_variables) \subseteq ToSet(universal_variables)'
<1> DEFINE U == getNofUniversalBlocks
           E == getNofExistentialBlocks
           n == Len(universal_variables)
           first == first_block_type'
           goesOn == lastBlockType(first_block_type')
<1>1. /\ vs # <<>>
      /\ first_block_type' = (existential_variables = <<>> \/ first_block_type)
      /\ universal_variables' = universal_variables \o vs
      /\ universal_blocks' = EndBlock(universal_blocks, goesOn, Len(universal_variables'))
      /\ lastBlock' = {}
      /\ UNCHANGED <<setting, existential_variables, existential_blocks,
                     explicit_dependencies, prefix, resultVars, phase>>
  BY DEF addUniversalBlock
<1>2. /\ universal_variables' \in Seq(Universals) /\ IsInjective(universal_variables')
      /\ Len(universal_variables') = n + Len(vs) /\ Len(vs) \in Nat \ {0}
      /\ ToSet(universal_variables') = ToSet(universal_variables) \cup ToSet(vs)
      /\ \A p \in 1..n : universal_variables'[p] = universal_variables[p]
  BY <1>1, ListsJoin, EmptySeq DEF FormulaInv
<1>3. /\ U \in Nat /\ E \in Nat /\ n \in Nat
      /\ Len(universal_blocks) = U + 1 /\ Len(existential_blocks) = E + 1
      /\ existential_variables = <<>> <=> E = 0
      /\ \A k \in 1..(U + 1) : universal_blocks[k] \in 0..n
  BY FormulaFacts
<1>4. first \in BOOLEAN /\ goesOn \in BOOLEAN /\ first_block_type \in BOOLEAN
  BY <1>1 DEF lastBlockType, FormulaInv
<1>5. Alternate(first_block_type, U, E)
  BY DEF FormulaInv
<1>6. goesOn <=> IF E = U THEN ~first ELSE first
  BY <1>3 DEF lastBlockType
<1>7. first <=> (E = 0 \/ first_block_type)
  BY <1>1, <1>3
<1>8. /\ BlockEnds(universal_blocks', n + Len(vs))
      /\ Len(universal_blocks') = IF goesOn /\ U > 0 THEN U + 1 ELSE U + 2
      /\ \A k \in 1..(Len(universal_blocks') - 1) : universal_blocks'[k] = universal_blocks[k]
  <2>1. n < n + Len(vs) /\ n + Len(vs) \in Nat /\ BlockEnds(universal_blocks, n)
    BY <1>2, <1>3 DEF FormulaInv
  <2>2. Len(universal_blocks) > 1 <=> U > 0
    BY <1>3
  <2>3. universal_blocks' = EndBlock(universal_blocks, goesOn, n + Len(vs))
    BY <1>1, <1>2
  <2>4. (U + 1) + 1 = U + 2
    BY <1>3
  <2> HIDE DEF goesOn, U
  <2> QED BY <1>3, <1>4, <2>1, <2>2, <2>3, <2>4, EndBlockFacts
<1> DEFINE V == Len(universal_blocks') - 1
<1>9. /\ V \in Nat
      /\ IF first THEN V = E + 1 ELSE V = E /\ E > 0 /\ ~first_block_type
      /\ E > 0 => (first <=> first_block_type)
  <2> HIDE DEF U, E, goesOn, first
  <2> QED BY <1>3, <1>4, <1>5, <1>6, <1>7, <1>8 DEF Alternate
<1>10. getNofUniversalBlocks' = V /\ getNofExistentialBlocks' = E /\ \A i : EB(i)' = EB(i)
  BY <1>1 DEF getNofUniversalBlocks, getNofExistentialBlocks, EB
<1>11. lastBlockType(first_block_type)'
  <2>1. lastBlockType(first_block_type)' <=> (IF E + 1 = V + 1 THEN ~first ELSE first)
    BY <1>1, <1>3, <1>8 DEF lastBlockType
  <2> HIDE DEF V, E, first
  <2> QED BY <1>3, <1>4, <1>9, <2>1
<1>12. FormulaInv'
  <2>1. Alternate(first, V, E)
    BY <1>3, <1>9 DEF Alternate
  <2> HIDE DEF V, E, first
  <2> QED BY <1>1, <1>2, <1>4, <1>8, <1>10, <1>11, <2>1 DEF FormulaInv, first
<1>13. ASSUME NEW i \in 0..(E - 1)
       PROVE  /\ UniversalIndex(i)' = UniversalIndex(i)
              /\ UniversalIndex(i) + 1 \in 1..V /\ UniversalIndex(i) + 1 \in 1..(U + 1)
  <2>1. /\ UniversalIndex(i) = IF first_block_type THEN i + 1 ELSE i
        /\ UniversalIndex(i) \in 0..U
    BY IndexFacts
  <2>2. UniversalIndex(i)' = LET index == IF first THEN i + 1 ELSE i IN IF index < V THEN index ELSE V
    BY <1>10 DEF UniversalIndex
  <2> HIDE DEF V, E, first, U
  <2> QED BY <1>3, <1>4, <1>9, <2>1, <2>2
<1>14. ReadingInv'
  <2> SUFFICES ASSUME NEW i \in 0..(E - 1), NEW p \in (EB(i) + 1)..EB(i + 1)
               PROVE  prefix[existential_variables[p]]
                         = ElementsAt(universal_variables', 1, universal_blocks'[UniversalIndex(i)' + 1])
    BY <1>1, <1>10 DEF ReadingInv, resultVars
  <2>1. universal_blocks'[UniversalIndex(i)' + 1] = universal_blocks[UniversalIndex(i) + 1]
    BY <1>8, <1>13
  <2>2. universal_blocks[UniversalIndex(i) + 1] \in 0..n
    BY <1>3, <1>13
  <2>3. ElementsAt(universal_variables', 1, universal_blocks[UniversalIndex(i) + 1])
           = ElementsAt(universal_variables, 1, universal_blocks[UniversalIndex(i) + 1])
    <3>1. \A k \in 0..n : \A q \in 1..k : universal_variables'[q] = universal_variables[q]
      BY <1>2, <1>3
    <3>2. \A k \in 0..n : ElementsAt(universal_variables', 1, k) = ElementsAt(universal_variables, 1, k)
      BY <3>1 DEF ElementsAt
    <3> QED BY <2>2, <3>2
  <2> QED BY <2>1, <2>3 DEF ReadingInv
<1> QED BY <1>2, <1>12, <1>14

LEMMA ExistentialLineKeepsBlocks ==
    ASSUME FormulaInv, ExplicitsInv, ReadingInv, phase = "reading", NEW vs \in Seq(Existentials),
           IsInjective(vs), DOMAIN prefix \cap ToSet(vs) = {}, addExistentialBlock(vs)
    PROVE  FormulaInv' /\ ReadingInv'
           /\ ToSet(existential_variables)' = ToSet(existential_variables) \cup ToSet(vs)
<1> DEFINE U == getNofUniversalBlocks
           E == getNofExistentialBlocks
           m == Len(existential_variables)
           first == first_block_type'
           goesOn == ~lastBlockType(first_block_type')
           W == Len(existential_blocks') - 1
           L == Len(vs)
           after(i) == existential_blocks'[i + 1]
<1>1. /\ vs # <<>>
      /\ first_block_type' = (universal_variables # <<>> /\ first_block_type)
      /\ existential_variables' = existential_variables \o vs
      /\ existential_blocks' = EndBlock(existential_blocks, goesOn, Len(existential_variables'))
      /\ prefix' = [v \in DOMAIN prefix \cup ToSet(vs) |->
                       IF v \in ToSet(vs) THEN ToSet(universal_variables) ELSE prefix[v]]
      /\ lastBlock' = lastBlock \cup ToSet(vs)
      /\ UNCHANGED <<setting, universal_variables, universal_blocks,
                     explicit_dependencies, resultVars, phase>>
  BY DEF addExistentialBlock
<1>2. ToSet(existential_variables) \cap ToSet(vs) = {}
  BY DEF ExplicitsInv
<1>3. /\ existential_variables' \in Seq(Existentials) /\ IsInjective(existential_variables')
      /\ Len(existential_variables') = m + L /\ L \in Nat \ {0}
      /\ ToSet(existential_variables') = ToSet(existential_variables) \cup ToSet(vs)
      /\ \A p \in 1..m : existential_variables'[p] = existential_variables[p]
      /\ \A p \in (m + 1)..(m + L) : existential_variables'[p] = vs[p - m]
      /\ ElementsAt(existential_variables', m + 1, m + L) = ToSet(vs)
  BY <1>1, <1>2, ListsJoin, EmptySeq DEF FormulaInv
<1>4. /\ U \in Nat /\ E \in Nat /\ m \in Nat
      /\ Len(universal_blocks) = U + 1 /\ Len(existential_blocks) = E + 1
      /\ universal_variables = <<>> <=> U = 0
      /\ \A k \in 0..E : EB(k) \in 0..m
      /\ EB(E) = m /\ universal_blocks[U + 1] = Len(universal_variables)
      /\ DOMAIN universal_variables = 1..Len(universal_variables)
      /\ DOMAIN existential_variables = 1..m
  BY FormulaFacts
<1>5. first \in BOOLEAN /\ goesOn \in BOOLEAN /\ first_block_type \in BOOLEAN
  BY <1>1 DEF lastBlockType, FormulaInv
<1>6. Alternate(first_block_type, U, E)
  BY DEF FormulaInv
<1>7. /\ goesOn <=> IF E = U THEN first ELSE ~first
      /\ lastBlockType(first_block_type) <=> IF E = U THEN ~first_block_type ELSE first_block_type
  BY <1>4, <1>5 DEF lastBlockType
<1>8. first <=> (U # 0 /\ first_block_type)
  BY <1>1, <1>4
<1>9. /\ BlockEnds(existential_blocks', m + L)
      /\ Len(existential_blocks') = IF goesOn /\ E > 0 THEN E + 1 ELSE E + 2
      /\ \A k \in 1..(Len(existential_blocks') - 1) : existential_blocks'[k] = existential_blocks[k]
  <2>1. m < m + L /\ m + L \in Nat /\ BlockEnds(existential_blocks, m)
    BY <1>3, <1>4 DEF FormulaInv
  <2>2. Len(existential_blocks) > 1 <=> E > 0
    BY <1>4
  <2>3. existential_blocks' = EndBlock(existential_blocks, goesOn, m + L)
    BY <1>1, <1>3
  <2>4. (E + 1) + 1 = E + 2
    BY <1>4
  <2> HIDE DEF goesOn, E
  <2> QED BY <1>4, <1>5, <2>1, <2>2, <2>3, <2>4, EndBlockFacts
<1>10. /\ W \in Nat
       /\ IF first THEN W = U /\ U > 0 ELSE W = U + 1
       /\ E > 0 => (first <=> first_block_type)
       /\ W = IF goesOn /\ E > 0 THEN E ELSE E + 1
       /\ goesOn /\ E > 0 => ~lastBlockType(first_block_type)
       /\ ~goesOn /\ E > 0 => lastBlockType(first_block_type)
  <2> HIDE DEF U, E, goesOn, first
  <2> QED BY <1>4, <1>5, <1>6, <1>7, <1>8, <1>9 DEF Alternate
<1>11. getNofExistentialBlocks' = W /\ getNofUniversalBlocks' = U /\ \A i : EB(i)' = after(i)
  BY <1>1 DEF getNofUniversalBlocks, getNofExistentialBlocks, EB
<1>12. ~lastBlockType(first_block_type)'
  <2>1. lastBlockType(first_block_type)' <=> (IF W + 1 = U + 1 THEN ~first ELSE first)
    BY <1>1, <1>4, <1>9 DEF lastBlockType
  <2> HIDE DEF W, U, first
  <2> QED BY <1>4, <1>5, <1>10, <2>1
<1>13. W > 0 /\ after(W) = m + L /\ after(W - 1) \in 0..m /\ \A i \in 0..(W - 1) : i \in 0..E /\ after(i) = EB(i)
  <2>1. W > 0
    <3> HIDE DEF W, U, first
    <3> QED BY <1>4, <1>10
  <2>2. Len(existential_blocks') = W + 1 /\ after(W) = m + L
    BY <1>9, <2>1 DEF BlockEnds
  <2>3. W \in {E, E + 1}
    BY <1>10
  <2>4. ASSUME NEW i \in 0..(W - 1) PROVE i \in 0..E /\ after(i) = EB(i)
    <3>1. i \in 0..E /\ i + 1 \in 1..(Len(existential_blocks') - 1)
      <4>1. W + 1 - 1 = W /\ i + 1 \in 1..W
        BY <1>10, <2>1
      <4>2. Len(existential_blocks') - 1 = W
        OBVIOUS
      <4> HIDE DEF W, E
      <4> QED BY <1>4, <2>1, <2>3, <4>1, <4>2
    <3> QED BY <1>9, <3>1 DEF EB
  <2>5. W - 1 \in 0..(W - 1)
    BY <1>10, <2>1
  <2>6. after(W - 1) = EB(W - 1) /\ W - 1 \in 0..E
    BY <2>4, <2>5
  <2> HIDE DEF W, after, E
  <2> QED BY <1>4, <2>1, <2>2, <2>4, <2>6
<1>14. lastBlock' = ElementsAt(existential_variables', after(W - 1) + 1, after(W))
  <2>1. CASE goesOn /\ E > 0
    <3>1. after(W) = m + L /\ after(W - 1) = EB(E - 1) /\ EB(E - 1) \in 0..m
      <4>1. W = E /\ W - 1 \in 0..(W - 1)
        BY <1>10, <2>1
      <4> HIDE DEF W, after, E
      <4> QED BY <1>4, <1>13, <4>1
    <3>2. lastBlock = ElementsAt(existential_variables, EB(E - 1) + 1, m)
      BY <1>4, <1>10, <2>1 DEF FormulaInv
    <3>3. ElementsAt(existential_variables', EB(E - 1) + 1, m + L)
             = ElementsAt(existential_variables, EB(E - 1) + 1, m)
                  \cup ElementsAt(existential_variables', m + 1, m + L)
      <4>1. \A a \in 0..m : (a + 1)..(m + L) = ((a + 1)..m) \cup ((m + 1)..(m + L))
        BY <1>3, <1>4
      <4>2. \A a \in 0..m : ElementsAt(existential_variables', a + 1, m + L)
               = ElementsAt(existential_variables', a + 1, m) \cup ElementsAt(existential_variables', m + 1, m + L)
        BY <4>1 DEF ElementsAt
      <4>3. \A a \in 0..m : ElementsAt(existential_variables', a + 1, m) = ElementsAt(existential_variables, a + 1, m)
        <5>1. \A a \in 0..m : \A p \in (a + 1)..m : existential_variables'[p] = existential_variables[p]
          BY <1>3, <1>4
        <5> QED BY <5>1 DEF ElementsAt
      <4> QED BY <3>1, <4>2, <4>3
    <3> QED BY <1>1, <1>3, <3>1, <3>2, <3>3
  <2>2. CASE ~(goesOn /\ E > 0)
    <3>1. after(W) = m + L /\ after(W - 1) = m
      <4>1. W = E + 1 /\ W - 1 \in 0..(W - 1) /\ W - 1 = E
        BY <1>4, <1>10, <2>2
      <4> HIDE DEF W, after, E
      <4> QED BY <1>4, <1>13, <4>1
    <3>2. lastBlock = {}
      BY <1>4, <1>10, <2>2 DEF FormulaInv
    <3> QED BY <1>1, <1>3, <3>1, <3>2
  <2> QED BY <2>1, <2>2
<1>15. FormulaInv'
  <2>1. Alternate(first, U, W)
    BY <1>4, <1>10 DEF Alternate
  <2>2. /\ (EB(getNofExistentialBlocks - 1) + 1)' = after(W - 1) + 1
        /\ EB(getNofExistentialBlocks)' = after(W)
    BY <1>11
  <2>3. W > 0
    BY <1>13
  <2>4. /\ universal_variables' = universal_variables /\ universal_blocks' = universal_blocks
        /\ universal_variables \in Seq(Universals) /\ IsInjective(universal_variables)
        /\ BlockEnds(universal_blocks, Len(universal_variables))
    BY <1>1 DEF FormulaInv
  <2> HIDE DEF W, U, first, after, E, m, L
  <2> QED BY <1>3, <1>5, <1>9, <1>11, <1>12, <1>14, <2>1, <2>2, <2>3, <2>4 DEF FormulaInv, first
<1>16. ReadingInv'
  <2> SUFFICES ASSUME NEW i \in 0..(W - 1), NEW p \in (after(i) + 1)..after(i + 1)
               PROVE  prefix'[existential_variables'[p]]
                         = ElementsAt(universal_variables, 1, universal_blocks[UniversalIndex(i)' + 1])
    <3>1. processed' = {} /\ universal_variables' = universal_variables /\ universal_blocks' = universal_blocks
      BY <1>1 DEF ReadingInv, resultVars
    <3> HIDE DEF W, after
    <3> QED BY <1>11, <3>1 DEF ReadingInv
  <2>1. UniversalIndex(i)' = LET index == IF first THEN i + 1 ELSE i IN IF index < U THEN index ELSE U
    BY <1>11 DEF UniversalIndex
  <2>2. i \in Nat /\ i \in 0..E /\ after(i) = EB(i) /\ EB(i) \in 0..m
    <3> HIDE DEF W, after, E, m
    <3> QED BY <1>4, <1>10, <1>13
  <2>3. i + 1 \in 0..(W - 1) => after(i + 1) = EB(i + 1)
    BY <1>13
  <2>4. i + 1 = W \/ i + 1 \in 0..(W - 1)
    BY <1>10
  <2>5. CASE p > m
    <3>1. i = W - 1
      <4>1. i + 1 \in 0..(W - 1) => EB(i + 1) \in 0..m
        BY <1>4, <1>10, <1>13
      <4> HIDE DEF W, after
      <4> QED BY <1>4, <1>10, <2>2, <2>3, <2>4, <2>5, <4>1
    <3>2. p \in (m + 1)..(m + L)
      <4>1. after(i + 1) = m + L
        BY <1>10, <1>13, <3>1
      <4> HIDE DEF W, after
      <4> QED BY <1>3, <1>4, <2>2, <2>5, <4>1
    <3>3. existential_variables'[p] \in ToSet(vs)
      BY <1>3, <3>2 DEF ElementsAt
    <3>4. UniversalIndex(i)' = U
      <4> HIDE DEF W, first, U
      <4> QED BY <1>4, <1>5, <1>10, <2>1, <3>1
    <3>5. prefix'[existential_variables'[p]] = ToSet(universal_variables)
      BY <1>1, <3>3
    <3> QED BY <1>4, <3>4, <3>5 DEF ElementsAt, ToSet
  <2>6. CASE p <= m
    <3>1. i \in 0..(E - 1) /\ E > 0 /\ p \in (EB(i) + 1)..EB(i + 1)
      <4>1. W \in {E, E + 1} /\ W > 0
        BY <1>10, <1>13
      <4> HIDE DEF W, E, after, m
      <4>2. i # E
        <5>1. i = E => EB(i) = m
          BY <1>4
        <5> QED BY <1>4, <2>2, <2>6, <5>1
      <4>3. i \in 0..(E - 1) /\ E > 0
        BY <1>4, <2>2, <4>2
      <4>4. CASE i + 1 \in 0..(W - 1)
        BY <2>2, <2>3, <4>3, <4>4
      <4>5. CASE i + 1 = W
        <5>1. i + 1 = E
          BY <1>4, <4>1, <4>3, <4>5
        <5>2. EB(i + 1) = m
          BY <1>4, <5>1
        <5>3. p \in Int /\ p >= EB(i) + 1
          BY <1>4, <1>13, <2>2, <4>5
        <5> QED BY <1>4, <2>2, <2>6, <4>3, <5>2, <5>3
      <4> QED BY <2>4, <4>4, <4>5
    <3>2. p \in 1..m
      BY <1>4, <2>2, <2>6
    <3>3. existential_variables'[p] = existential_variables[p] /\ existential_variables[p] \in ToSet(existential_variables)
      BY <1>3, <1>4, <3>2 DEF ToSet
    <3>4. prefix'[existential_variables'[p]] = prefix[existential_variables[p]]
      BY <1>1, <1>2, <3>3 DEF ExplicitsInv
    <3>5. UniversalIndex(i)' = UniversalIndex(i)
      BY <1>5, <1>10, <2>1, <3>1 DEF UniversalIndex
    <3> QED BY <3>1, <3>4, <3>5 DEF ReadingInv
  <2>7. p \in Int
    BY <1>10, <1>13, <2>2
  <2> QED BY <1>4, <2>5, <2>6, <2>7
<1> QED BY <1>3, <1>15, <1>16

LEMMA BlocksUnchanged ==
    ASSUME FormulaInv,
           UNCHANGED <<universal_variables, universal_blocks, existential_variables, existential_blocks,
                       first_block_type, lastBlock>>
    PROVE  FormulaInv'
BY DEF FormulaInv, getNofUniversalBlocks, getNofExistentialBlocks, EB, lastBlockType

LEMMA UniversalLineKeepsExplicits ==
    ASSUME ExplicitsInv, NEW vs, addUniversalBlock(vs),
           ToSet(universal_variables) \subseteq ToSet(universal_variables)'
    PROVE  ExplicitsInv'
BY DEF ExplicitsInv, addUniversalBlock

LEMMA ExistentialLineKeepsExplicits ==
    ASSUME FormulaInv, ExplicitsInv, NEW vs, DOMAIN prefix \cap ToSet(vs) = {}, addExistentialBlock(vs),
           ToSet(existential_variables)' = ToSet(existential_variables) \cup ToSet(vs)
    PROVE  ExplicitsInv'
<1>1. /\ prefix' = [v \in DOMAIN prefix \cup ToSet(vs) |->
                       IF v \in ToSet(vs) THEN ToSet(universal_variables) ELSE prefix[v]]
      /\ UNCHANGED <<universal_variables, explicit_dependencies>>
  BY DEF addExistentialBlock
<1>2. ToSet(universal_variables) \subseteq Universals
  BY ListFacts DEF FormulaInv
<1>3. ASSUME NEW v \in DOMAIN explicit_dependencies PROVE prefix'[v] = prefix[v] /\ v \notin ToSet(vs)
  BY <1>1, <1>3 DEF ExplicitsInv
<1> QED BY <1>1, <1>2, <1>3 DEF ExplicitsInv

LEMMA ExplicitLineKeeps ==
    ASSUME FormulaInv, ExplicitsInv, ReadingInv, NEW v \in Existentials, v \notin DOMAIN prefix,
           NEW deps \in Seq(Universals), IsInjective(deps), ToSet(deps) \subseteq ToSet(universal_variables),
           addExplicitDependencies(v, deps)
    PROVE  FormulaInv' /\ ExplicitsInv' /\ ReadingInv'
<1>1. /\ explicit_dependencies' = [w \in DOMAIN explicit_dependencies \cup {v} |->
                                      IF w = v THEN deps ELSE explicit_dependencies[w]]
      /\ prefix' = [w \in DOMAIN prefix \cup {v} |-> IF w = v THEN ToSet(deps) ELSE prefix[w]]
      /\ UNCHANGED <<setting, first_block_type, universal_variables, universal_blocks,
                     existential_variables, existential_blocks, lastBlock, resultVars, phase>>
  BY DEF addExplicitDependencies
<1>2. FormulaInv'
  BY <1>1, BlocksUnchanged
<1>3. ExplicitsInv'
  <2>1. ToSet(deps) \subseteq Universals
    BY ListFacts
  <2>2. ASSUME NEW w \in DOMAIN explicit_dependencies PROVE w # v /\ w \in DOMAIN prefix
    BY <2>2 DEF ExplicitsInv
  <2>3. v \notin ToSet(existential_variables)
    BY DEF ExplicitsInv
  <2> QED BY <1>1, <2>1, <2>2, <2>3 DEF ExplicitsInv
<1>4. ReadingInv'
  <2>1. \A i : UniversalIndex(i)' = UniversalIndex(i) /\ EB(i)' = EB(i)
    BY <1>1 DEF UniversalIndex, EB, getNofUniversalBlocks
  <2>2. getNofExistentialBlocks' = getNofExistentialBlocks
    BY <1>1 DEF getNofExistentialBlocks
  <2>3. ASSUME NEW i \in 0..(getNofExistentialBlocks - 1), NEW p \in (EB(i) + 1)..EB(i + 1)
        PROVE  prefix'[existential_variables[p]] = prefix[existential_variables[p]]
    <3>1. p \in DOMAIN existential_variables
      <4> DEFINE E == getNofExistentialBlocks
      <4>1. E \in Nat /\ (\A k \in 0..E : EB(k) \in 0..Len(existential_variables))
            /\ DOMAIN existential_variables = 1..Len(existential_variables)
        BY FormulaFacts
      <4>2. i \in 0..(E - 1)
        OBVIOUS
      <4> HIDE DEF E
      <4>3. EB(i) \in 0..Len(existential_variables) /\ EB(i + 1) \in 0..Len(existential_variables)
        BY <4>1, <4>2
      <4> QED BY <4>1, <4>3
    <3>2. existential_variables[p] \in DOMAIN prefix
      BY <3>1 DEF ExplicitsInv, ToSet
    <3> QED BY <1>1, <3>2
  <2> QED BY <1>1, <2>1, <2>2, <2>3 DEF ReadingInv, resultVars
<1> QED BY <1>2, <1>3, <1>4

--------------------------------------------------------------------------------
(***************************************************************************)
(* The parser passes on the numbers before the end of a line.              *)
(***************************************************************************)
LEMMA LineRead ==
    ASSUME NEW vs \in Seq(Nat), NEW ending \in Endings, exceptionOf(vs \o ending, TRUE) = "none"
    PROVE  \E k \in 0..Len(vs) : parseLine(vs \o ending, TRUE) = SubSeq(vs, 1, k)
<1> DEFINE words == vs \o ending
           Ends(w) == w \in {0, Cnf, NotANumber, TooLarge} \/ w < 0
           I == {i \in 1..Len(words) : Ends(words[i])}
           last == lastWord(words, TRUE)
           n == Len(vs)
           S == Nat \cup {-1, NotANumber}
<1>1. last = IF I # {} THEN Min(I) ELSE 0
  BY DEF lastWord, SelectInSeq
<1>2. vs \in Seq(S) /\ ending \in Seq(S) /\ n \in Nat /\ Len(ending) \in Nat
  <2>1. 0 \in S /\ -1 \in S /\ NotANumber \in S /\ Nat \subseteq S
    OBVIOUS
  <2>2. vs \in Seq(S)
    <3> HIDE DEF S
    <3> QED BY <2>1, SeqMonotonic
  <2>3. <<>> \in Seq(S) /\ <<0, NotANumber>> \in Seq(S) /\ <<-1>> \in Seq(S)
    <3> HIDE DEF S
    <3> QED BY <2>1
  <2>4. ending \in Seq(S)
    <3> HIDE DEF S
    <3> QED BY <2>3 DEF Endings
  <2> HIDE DEF S
  <2> QED BY <2>2, <2>4, LenProperties
<1>3. /\ words \in Seq(S) /\ Len(words) = n + Len(ending)
      /\ \A i \in 1..n : words[i] = vs[i]
      /\ \A i \in (n + 1)..(n + Len(ending)) : words[i] = ending[i - n]
  <2>1. /\ words \in Seq(S) /\ Len(words) = n + Len(ending)
        /\ \A i \in 1..(n + Len(ending)) : words[i] = IF i <= n THEN vs[i] ELSE ending[i - n]
    BY <1>2, ConcatProperties
  <2> HIDE DEF words
  <2> QED BY <1>2, <2>1
<1>4. ending # <<>> => n + 1 \in I
  <2> SUFFICES ASSUME ending # <<>> PROVE n + 1 \in I
    OBVIOUS
  <2>1. Len(ending) >= 1 /\ ending[1] \in {0, -1}
    BY DEF Endings
  <2>2. words[n + 1] \in {0, -1} /\ n + 1 \in 1..Len(words)
    <3>1. (n + 1) - n = 1 /\ n + 1 \in (n + 1)..(n + Len(ending))
      BY <1>2, <2>1
    <3>2. words[n + 1] = ending[(n + 1) - n]
      <4> HIDE DEF words, n
      <4> QED BY <1>3, <3>1
    <3> HIDE DEF words, n
    <3> QED BY <1>2, <1>3, <2>1, <3>1, <3>2
  <2>3. Ends(words[n + 1])
    BY <2>2
  <2> QED BY <2>2, <2>3
<1>5. I \in SUBSET Nat /\ I \subseteq 1..Len(words)
  OBVIOUS
<1> HIDE DEF I
<1>6. I # {} => Min(I) \in I /\ \A i \in I : Min(I) <= i
  <2> SUFFICES ASSUME I # {} PROVE Min(I) \in I /\ \A i \in I : Min(I) <= i
    OBVIOUS
  <2>1. \E x \in I : \A y \in I : x =< y
    BY <1>5, SmallestNumber
  <2> QED BY <2>1 DEF Min
<1>7. ending = <<>> => words = vs /\ Len(words) = n
  BY ConcatEmptySeq
<1>8. parseLine(words, TRUE) = IF last = 0 THEN words ELSE SubSeq(words, 1, last - 1)
  BY DEF parseLine
<1> HIDE DEF last
<1>9. CASE last = 0
  <2>1. I = {}
    <3> HIDE DEF words
    <3> QED BY <1>1, <1>3, <1>5, <1>6, <1>9
  <2>2. words = vs
    BY <1>4, <1>7, <2>1
  <2>3. parseLine(words, TRUE) = SubSeq(vs, 1, n) /\ n \in 0..n
    <3>1. SubSeq(vs, 1, n) = vs
      BY SubSeqFull
    <3> HIDE DEF words, n
    <3>2. n \in 0..n
      BY <1>2
    <3>3. parseLine(words, TRUE) = words
      BY <1>8, <1>9, Zenon
    <3> QED BY <2>2, <3>1, <3>2, <3>3, Zenon
  <2> QED BY <2>3
<1>10. CASE last # 0
  <2>1. I # {} /\ last = Min(I)
    BY <1>1, <1>10
  <2>2. last \in 1..(n + 1)
    <3> HIDE DEF words
    <3>1. last \in I /\ last \in 1..Len(words)
      BY <1>5, <1>6, <2>1
    <3>2. ending # <<>> => last <= n + 1
      BY <1>4, <1>6, <2>1
    <3>3. ending = <<>> => Len(words) = n
      BY <1>2, <1>3, EmptySeq
    <3> QED BY <1>2, <3>1, <3>2, <3>3
  <2>3. last - 1 \in 0..n
    BY <1>2, <2>2
  <2>4. SubSeq(words, 1, last - 1) = SubSeq(vs, 1, last - 1)
    <3>1. CASE last - 1 = 0
      BY <3>1, SubSeqEmpty
    <3>2. CASE last - 1 \in 1..n
      <4>1. 1 \in 1..n
        BY <1>2, <3>2
      <4> QED BY <1>2, <3>2, <4>1, SubSeqOfConcat1
    <3> QED BY <1>2, <2>3, <3>1, <3>2
  <2> QED BY <1>8, <1>10, <2>3, <2>4
<1> QED BY <1>9, <1>10

\* The start of a list is a list.
LEMMA ListStart ==
    ASSUME NEW S, NEW l \in Seq(S), IsInjective(l), NEW k \in 0..Len(l)
    PROVE  /\ SubSeq(l, 1, k) \in Seq(S) /\ IsInjective(SubSeq(l, 1, k))
           /\ ToSet(SubSeq(l, 1, k)) = ElementsAt(l, 1, k)
           /\ ToSet(SubSeq(l, 1, k)) \subseteq ToSet(l)
           /\ Len(SubSeq(l, 1, k)) = k /\ \A i \in 1..k : SubSeq(l, 1, k)[i] = l[i]
<1> DEFINE s == SubSeq(l, 1, k)
<1>1. Len(l) \in Nat /\ DOMAIN l = 1..Len(l) /\ k \in Nat /\ 1..k \subseteq 1..Len(l)
      /\ \A i \in 1..Len(l) : l[i] \in S
  BY LenProperties
<1>2. s \in Seq(S) /\ Len(s) = k /\ \A i \in 1..k : s[i] = l[i]
  <2>1. /\ s \in Seq(S) /\ Len(s) = IF 1 <= k THEN k - 1 + 1 ELSE 0
        /\ \A i \in 1..(k - 1 + 1) : s[i] = l[1 + i - 1]
    BY <1>1, SubSeqProperties
  <2> HIDE DEF s
  <2> QED BY <1>1, <2>1
<1> HIDE DEF s
<1>3. DOMAIN s = 1..k
  BY <1>2, LenProperties
<1>4. IsInjective(s) /\ ToSet(s) = ElementsAt(l, 1, k) /\ ToSet(s) \subseteq ToSet(l)
  BY <1>1, <1>2, <1>3 DEF IsInjective, ToSet, ElementsAt
<1> QED BY <1>2, <1>4 DEF s

BlocksInv == FormulaInv /\ ExplicitsInv /\ ReadingInv

LEMMA ExtractorUnchanged == BlocksInv /\ UNCHANGED extractorVars => BlocksInv'
<1> SUFFICES ASSUME BlocksInv, UNCHANGED extractorVars PROVE BlocksInv'
  OBVIOUS
<1>1. UNCHANGED <<universal_variables, universal_blocks, existential_variables, existential_blocks,
                  first_block_type, lastBlock, explicit_dependencies, prefix, processed, phase>>
  BY DEF extractorVars, formulaVars, meaningVars, resultVars
<1>2. FormulaInv'
  BY <1>1, BlocksUnchanged DEF BlocksInv
<1>3. ExplicitsInv'
  BY <1>1 DEF BlocksInv, ExplicitsInv
<1>4. ReadingInv'
  <2>1. /\ getNofExistentialBlocks' = getNofExistentialBlocks
        /\ \A i : EB(i)' = EB(i) /\ UniversalIndex(i)' = UniversalIndex(i)
    BY <1>1 DEF getNofUniversalBlocks, getNofExistentialBlocks, EB, UniversalIndex
  <2> QED BY <1>1, <2>1 DEF BlocksInv, ReadingInv
<1> QED BY <1>2, <1>3, <1>4 DEF BlocksInv

LEMMA UniversalLineParsed ==
    ASSUME BlocksInv, phase = "reading", NEW ending \in Endings,
           NEW vs \in Lists(Universals \ ToSet(universal_variables)), parseUniversalBlock(vs \o ending)
    PROVE  BlocksInv'
<1>1. CASE exceptionOf(vs \o ending, TRUE) # "none"
  <2>1. UNCHANGED extractorVars
    BY <1>1, Zenon DEF parseUniversalBlock, Fails
  <2> QED BY <2>1, ExtractorUnchanged
<1>2. CASE exceptionOf(vs \o ending, TRUE) = "none"
  <2>1. IsFiniteSet(Universals \ ToSet(universal_variables))
    BY PrefixAssumption, FS_Subset
  <2>2. /\ vs \in Seq(Universals \ ToSet(universal_variables)) /\ IsInjective(vs)
        /\ ToSet(vs) \subseteq Universals \ ToSet(universal_variables)
    BY <2>1, ListsFacts
  <2>3. vs \in Seq(Universals) /\ vs \in Seq(Nat)
    <3>1. vs \in Seq(Universals)
      BY <2>2, SeqMonotonic
    <3> QED BY <3>1, ExtractorAssumption, SeqMonotonic
  <2>4. PICK k \in 0..Len(vs) : parseLine(vs \o ending, TRUE) = SubSeq(vs, 1, k)
    BY <1>2, <2>3, LineRead
  <2> DEFINE l == SubSeq(vs, 1, k)
  <2>5. addUniversalBlock(l)
    <3>1. addUniversalBlock(parseLine(vs \o ending, TRUE))
      BY <1>2, Zenon DEF parseUniversalBlock
    <3> QED BY <2>4, <3>1, Zenon
  <2>6. l \in Seq(Universals) /\ IsInjective(l) /\ ToSet(l) \subseteq ToSet(vs)
    BY <2>2, <2>3, ListStart
  <2> HIDE DEF l
  <2>7. FormulaInv' /\ ReadingInv' /\ ToSet(universal_variables) \subseteq ToSet(universal_variables)'
    <3>1. ToSet(universal_variables) \cap ToSet(l) = {}
      BY <2>2, <2>6
    <3> QED BY <2>5, <2>6, <3>1, UniversalLineKeepsBlocks DEF BlocksInv
  <2> QED BY <2>5, <2>7, UniversalLineKeepsExplicits DEF BlocksInv
<1> QED BY <1>1, <1>2

LEMMA ExistentialLineParsed ==
    ASSUME BlocksInv, phase = "reading", NEW ending \in Endings,
           NEW vs \in Lists(Unread), parseExistentialBlock(vs \o ending)
    PROVE  BlocksInv'
<1>1. CASE exceptionOf(vs \o ending, TRUE) # "none"
  <2>1. UNCHANGED extractorVars
    BY <1>1, Zenon DEF parseExistentialBlock, Fails
  <2> QED BY <2>1, ExtractorUnchanged
<1>2. CASE exceptionOf(vs \o ending, TRUE) = "none"
  <2>1. IsFiniteSet(Unread) /\ Unread \subseteq Existentials
    BY PrefixAssumption, FS_Subset DEF Unread
  <2>2. vs \in Seq(Unread) /\ IsInjective(vs) /\ ToSet(vs) \subseteq Unread
    BY <2>1, ListsFacts
  <2>3. vs \in Seq(Existentials) /\ vs \in Seq(Nat)
    <3>1. vs \in Seq(Existentials)
      BY <2>1, <2>2, SeqMonotonic
    <3> QED BY <3>1, PrefixAssumption, SeqMonotonic
  <2>4. PICK k \in 0..Len(vs) : parseLine(vs \o ending, TRUE) = SubSeq(vs, 1, k)
    BY <1>2, <2>3, LineRead
  <2> DEFINE l == SubSeq(vs, 1, k)
  <2>5. addExistentialBlock(l)
    <3>1. addExistentialBlock(parseLine(vs \o ending, TRUE))
      BY <1>2, Zenon DEF parseExistentialBlock
    <3> QED BY <2>4, <3>1, Zenon
  <2>6. l \in Seq(Existentials) /\ IsInjective(l) /\ ToSet(l) \subseteq ToSet(vs)
    BY <2>2, <2>3, ListStart
  <2> HIDE DEF l
  <2>7. DOMAIN prefix \cap ToSet(l) = {}
    BY <2>2, <2>6 DEF Unread
  <2>8. /\ FormulaInv' /\ ReadingInv'
        /\ ToSet(existential_variables)' = ToSet(existential_variables) \cup ToSet(l)
    BY <2>5, <2>6, <2>7, ExistentialLineKeepsBlocks DEF BlocksInv
  <2> QED BY <2>5, <2>7, <2>8, ExistentialLineKeepsExplicits DEF BlocksInv
<1> QED BY <1>1, <1>2

LEMMA DependencyLineParsed ==
    ASSUME BlocksInv, phase = "reading", NEW ending \in Endings, NEW v \in Unread,
           NEW deps \in Lists(ToSet(universal_variables)), parseDependencyBlock(<<v>> \o deps \o ending)
    PROVE  BlocksInv'
<1> DEFINE vs == <<v>> \o deps
<1>1. CASE exceptionOf(vs \o ending, TRUE) # "none"
  <2>1. UNCHANGED extractorVars
    BY <1>1, Zenon DEF parseDependencyBlock, Fails
  <2> QED BY <2>1, ExtractorUnchanged
<1>2. CASE exceptionOf(vs \o ending, TRUE) = "none"
  <2>1. IsFiniteSet(ToSet(universal_variables)) /\ ToSet(universal_variables) \subseteq Universals
    BY PrefixAssumption, FS_Subset, ListFacts DEF BlocksInv, FormulaInv
  <2>2. /\ deps \in Seq(ToSet(universal_variables)) /\ IsInjective(deps)
        /\ ToSet(deps) \subseteq ToSet(universal_variables)
    BY <2>1, ListsFacts
  <2>3. deps \in Seq(Universals) /\ deps \in Seq(Nat) /\ v \in Existentials /\ v \in Nat /\ v \notin DOMAIN prefix
    <3>1. deps \in Seq(Universals)
      BY <2>1, <2>2, SeqMonotonic
    <3> QED BY <3>1, PrefixAssumption, ExtractorAssumption, SeqMonotonic DEF Unread
  <2>4. <<v>> \in Seq(Nat) /\ vs \in Seq(Nat) /\ Len(vs) = Len(deps) + 1 /\ vs[1] = v
        /\ \A i \in 1..Len(deps) : vs[i + 1] = deps[i]
    <3>1. <<v>> \in Seq(Nat) /\ Len(<<v>>) = 1 /\ <<v>>[1] = v /\ Len(deps) \in Nat
      BY <2>3, LenProperties
    <3>2. vs \in Seq(Nat) /\ Len(vs) = 1 + Len(deps)
          /\ \A i \in 1..(1 + Len(deps)) : vs[i] = IF i <= 1 THEN <<v>>[i] ELSE deps[i - 1]
      BY <2>3, <3>1, ConcatProperties
    <3> HIDE DEF vs
    <3>3. ASSUME NEW i \in 1..Len(deps) PROVE vs[i + 1] = deps[i]
      <4>1. i + 1 \in 1..(1 + Len(deps)) /\ ~(i + 1 <= 1) /\ (i + 1) - 1 = i
        BY <3>1
      <4> QED BY <3>2, <4>1
    <3>4. vs[1] = v
      BY <3>1, <3>2
    <3> QED BY <3>1, <3>2, <3>3, <3>4
  <2> HIDE DEF vs
  <2>5. PICK k \in 0..Len(vs) : parseLine(vs \o ending, TRUE) = SubSeq(vs, 1, k)
    BY <1>2, <2>4, LineRead
  <2> DEFINE l == SubSeq(vs, 1, k)
  <2>6. IF l = <<>> THEN Fails("invalid") ELSE addExplicitDependencies(Head(l), Tail(l))
    <3>1. LET vars == parseLine(vs \o ending, TRUE)
          IN  IF vars = <<>> THEN Fails("invalid") ELSE addExplicitDependencies(Head(vars), Tail(vars))
      BY <1>2, Zenon DEF parseDependencyBlock, vs
    <3> QED BY <2>5, <3>1, Zenon
  <2>7. CASE l = <<>>
    <3>1. UNCHANGED extractorVars
      BY <2>6, <2>7 DEF Fails
    <3> QED BY <3>1, ExtractorUnchanged
  <2>8. CASE l # <<>>
    <3>1. Len(deps) \in Nat
      BY <2>3, LenProperties
    <3>2. k \in 1..Len(vs)
      <4>1. k # 0
        BY <2>8, SubSeqEmpty
      <4> QED BY <2>4, <3>1, <4>1
    <3>3. Head(l) = v /\ Tail(l) = SubSeq(vs, 2, k)
      <4>1. 1 \in 1..Len(vs) /\ k \in 1..Len(vs)
        BY <3>2
      <4>2. Head(l) = vs[1] /\ Tail(l) = SubSeq(vs, 1 + 1, k)
        <5> HIDE DEF l
        <5> QED BY <2>4, <4>1, HeadTailOfSubSeq DEF l
      <4>3. 1 + 1 = 2
        OBVIOUS
      <4> HIDE DEF l
      <4> QED BY <2>4, <4>2, <4>3, Zenon
    <3>4. SubSeq(vs, 2, k) = SubSeq(deps, 1, k - 1) /\ k - 1 \in 0..Len(deps)
      <4>1. k - 1 \in 0..Len(deps) /\ k \in Nat
        BY <2>4, <3>1, <3>2
      <4>2. \A i \in 2..k : vs[i] \in Nat
        BY <2>4, <3>1, <3>2, LenProperties
      <4>3. \A i \in 1..(k - 1) : deps[i] \in Nat
        BY <2>3, <3>1, <4>1, LenProperties
      <4>4. /\ SubSeq(vs, 2, k) \in Seq(Nat)
            /\ Len(SubSeq(vs, 2, k)) = k - 1
            /\ \A i \in 1..(k - 1) : SubSeq(vs, 2, k)[i] = vs[i + 1]
        <5>1. /\ SubSeq(vs, 2, k) \in Seq(Nat)
              /\ Len(SubSeq(vs, 2, k)) = IF 2 <= k THEN k - 2 + 1 ELSE 0
              /\ \A i \in 1..(k - 2 + 1) : SubSeq(vs, 2, k)[i] = vs[2 + i - 1]
          BY <4>1, <4>2, SubSeqProperties
        <5>2. k - 2 + 1 = k - 1 /\ \A i \in 1..(k - 1) : 2 + i - 1 = i + 1
          BY <4>1
        <5> QED BY <3>2, <5>1, <5>2
      <4>5. /\ SubSeq(deps, 1, k - 1) \in Seq(Nat)
            /\ Len(SubSeq(deps, 1, k - 1)) = k - 1
            /\ \A i \in 1..(k - 1) : SubSeq(deps, 1, k - 1)[i] = deps[i]
        BY <2>2, <2>3, <4>1, ListStart
      <4>6. \A i \in 1..(k - 1) : vs[i + 1] = deps[i]
        BY <2>4, <3>1, <4>1
      <4> QED BY <4>1, <4>4, <4>5, <4>6, SeqEqual
    <3>5. /\ SubSeq(deps, 1, k - 1) \in Seq(Universals) /\ IsInjective(SubSeq(deps, 1, k - 1))
          /\ ToSet(SubSeq(deps, 1, k - 1)) \subseteq ToSet(universal_variables)
      BY <2>2, <2>3, <3>4, ListStart
    <3>6. addExplicitDependencies(v, SubSeq(deps, 1, k - 1))
      BY <2>6, <2>8, <3>3, <3>4
    <3> QED BY <2>3, <3>5, <3>6, ExplicitLineKeeps DEF BlocksInv
  <2> QED BY <2>7, <2>8
<1> QED BY <1>1, <1>2

LEMMA FormulaParsed ==
    ASSUME BlocksInv, parseFormula
    PROVE  BlocksInv'
<1>1. phase = "reading"
  BY DEF parseFormula
<1>2. PICK ending \in Endings :
          \/ \E vs \in Lists(Universals \ ToSet(universal_variables)) :
                parseUniversalBlock(vs \o ending)
          \/ \E vs \in Lists(Unread) : parseExistentialBlock(vs \o ending)
          \/ \E v \in Unread, deps \in Lists(ToSet(universal_variables)) :
                parseDependencyBlock(<<v>> \o deps \o ending)
          \/ parseDependencyBlock(ending)
          \/ \E clause \in Clauses : parseClause(clause)
          \/ \E first \in {"c", "empty", "a", "e", "p"} : parseOther(first)
  BY DEF parseFormula
<1>3. CASE \E vs \in Lists(Universals \ ToSet(universal_variables)) : parseUniversalBlock(vs \o ending)
  BY <1>1, <1>3, UniversalLineParsed
<1>4. CASE \E vs \in Lists(Unread) : parseExistentialBlock(vs \o ending)
  BY <1>1, <1>4, ExistentialLineParsed
<1>5. CASE \E v \in Unread, deps \in Lists(ToSet(universal_variables)) :
              parseDependencyBlock(<<v>> \o deps \o ending)
  BY <1>1, <1>5, DependencyLineParsed
<1>6. CASE parseDependencyBlock(ending)
  <2>1. CASE exceptionOf(ending, TRUE) # "none"
    <3>1. UNCHANGED extractorVars
      BY <1>6, <2>1, Zenon DEF parseDependencyBlock, Fails
    <3> QED BY <3>1, ExtractorUnchanged
  <2>2. CASE exceptionOf(ending, TRUE) = "none"
    <3>1. <<>> \in Seq(Nat) /\ Len(<<>>) = 0 /\ <<>> \o ending = ending
      BY DEF Endings
    <3>2. PICK k \in 0..Len(<<>>) : parseLine(ending, TRUE) = SubSeq(<<>>, 1, k)
      <4>1. exceptionOf(<<>> \o ending, TRUE) = "none"
        BY <2>2, <3>1, Zenon
      <4>2. PICK k \in 0..Len(<<>>) : parseLine(<<>> \o ending, TRUE) = SubSeq(<<>>, 1, k)
        BY <3>1, <4>1, LineRead
      <4> QED BY <3>1, <4>2, Zenon
    <3>3. SubSeq(<<>>, 1, k) = <<>>
      BY <3>1, <3>2, SubSeqEmpty
    <3>4. UNCHANGED extractorVars
      BY <1>6, <2>2, <3>2, <3>3, Zenon DEF parseDependencyBlock, Fails
    <3> QED BY <3>4, ExtractorUnchanged
  <2> QED BY <2>1, <2>2
<1>7. CASE \E clause \in Clauses : parseClause(clause)
  <2>1. UNCHANGED extractorVars
    <3>1. PICK clause \in Clauses : parseClause(clause)
      BY <1>7
    <3> QED BY <3>1, Zenon DEF parseClause, Fails, parserVars
  <2> QED BY <2>1, ExtractorUnchanged
<1>8. CASE \E first \in {"c", "empty", "a", "e", "p"} : parseOther(first)
  <2>1. UNCHANGED extractorVars
    BY <1>8 DEF parseOther, Fails, parserVars
  <2> QED BY <2>1, ExtractorUnchanged
<1> QED BY <1>2, <1>3, <1>4, <1>5, <1>6, <1>7, <1>8

--------------------------------------------------------------------------------
(***************************************************************************)
(* The binary searches.                                                    *)
(***************************************************************************)
LEMMA MiddleFacts ==
    ASSUME NEW n \in Nat, NEW s \in 0..n, NEW e \in 0..n, s <= e, s # e
    PROVE  (s + e) \div 2 \in s..(e - 1)
OBVIOUS

LEMMA RangeFacts ==
    ASSUME existential_block_idx_end \in Nat, NEW r \in Ranges
    PROVE  LET mid == mid_idx(r) IN
           /\ r[1] \in 0..existential_block_idx_end /\ r[2] \in 0..existential_block_idx_end
           /\ r[1] <= r[2] /\ r = <<r[1], r[2]>>
           /\ r[1] # r[2] =>
                /\ mid \in r[1]..(r[2] - 1) /\ mid \in 0..(existential_block_idx_end - 1)
                /\ <<mid + 1, r[2]>> \in Ranges /\ <<r[1], mid>> \in Ranges
<1> DEFINE n == existential_block_idx_end
           mid == mid_idx(r)
<1>1. r[1] \in 0..n /\ r[2] \in 0..n /\ r[1] <= r[2] /\ r = <<r[1], r[2]>>
  BY DEF Ranges
<1>2. ASSUME r[1] # r[2] PROVE mid \in r[1]..(r[2] - 1)
  <2> HIDE DEF n
  <2> QED BY <1>1, <1>2, MiddleFacts DEF n, mid_idx
<1> HIDE DEF mid
<1>3. ASSUME r[1] # r[2]
      PROVE  mid \in 0..(n - 1) /\ <<mid + 1, r[2]>> \in Ranges /\ <<r[1], mid>> \in Ranges
  <2>1. /\ mid \in 0..(n - 1) /\ mid + 1 \in 0..n /\ mid \in 0..n /\ r[2] \in 0..n
        /\ mid + 1 <= r[2] /\ r[1] <= mid
    BY <1>1, <1>2, <1>3
  <2>2. <<mid + 1, r[2]>>[1] = mid + 1 /\ <<mid + 1, r[2]>>[2] = r[2]
        /\ <<r[1], mid>>[1] = r[1] /\ <<r[1], mid>>[2] = mid
    OBVIOUS
  <2> QED BY <1>1, <2>1, <2>2 DEF Ranges
<1> QED BY <1>1, <1>2, <1>3 DEF mid

\* Two functions on the ranges that agree on smaller ranges agree.
LEMMA RangesByLength ==
    ASSUME existential_block_idx_end \in Nat, NEW f, NEW g,
           \A r \in Ranges :
               (\A q \in Ranges : q[2] - q[1] < r[2] - r[1] => f[q] = g[q]) => f[r] = g[r]
    PROVE  \A r \in Ranges : f[r] = g[r]
<1> DEFINE n == existential_block_idx_end
           S == {k \in 0..n : \A r \in Ranges : r[2] - r[1] <= k => f[r] = g[r]}
<1>1. \A r \in Ranges : r[2] - r[1] \in 0..n
  <2> TAKE r \in Ranges
  <2>1. n \in Nat /\ r[1] \in 0..n /\ r[2] \in 0..n /\ r[1] <= r[2]
    BY RangeFacts
  <2> HIDE DEF n
  <2> QED BY <2>1
<1>2. 0 \in S
  <2>1. ASSUME NEW r \in Ranges, r[2] - r[1] <= 0 PROVE f[r] = g[r]
    <3>1. \A q \in Ranges : ~(q[2] - q[1] < r[2] - r[1])
      BY <1>1, <2>1
    <3> QED BY <3>1
  <2> QED BY <2>1
<1>3. ASSUME NEW k \in 1..n, k - 1 \in S PROVE k \in S
  <2>1. ASSUME NEW r \in Ranges, r[2] - r[1] <= k PROVE f[r] = g[r]
    <3>1. \A q \in Ranges : q[2] - q[1] < r[2] - r[1] => q[2] - q[1] <= k - 1
      BY <1>1, <2>1
    <3> QED BY <1>3, <3>1
  <2> QED BY <2>1
<1>4. \A k \in 0..n : k \in S
  <2> HIDE DEF S
  <2> QED BY <1>2, <1>3, CountUp
<1>5. n \in S
  BY <1>4
<1> QED BY <1>1, <1>5

\* Where the blocks up to M are included in deps and no others the search ends with M.
LEMMA MaximalSubSetFound ==
    ASSUME existential_block_idx_end \in Nat, NEW deps,
           NEW M \in -1..(existential_block_idx_end - 1),
           \A i \in 0..(existential_block_idx_end - 1) : Includes(deps, BlockDependencies(i)) <=> i <= M
    PROVE  getMaximalSubSet(deps) = M
<1> DEFINE n == existential_block_idx_end
           F == [r \in Ranges |-> IF r[1] = r[2] \/ r[1] > M THEN -1 ELSE IF M < r[2] THEN M ELSE r[2] - 1]
           turn(f, r) == LET mid == mid_idx(r) IN
               IF r[1] = r[2] THEN -1
               ELSE IF Includes(deps, BlockDependencies(mid))
               THEN LET x == f[<<mid + 1, r[2]>>] IN IF x > mid THEN x ELSE mid
               ELSE f[<<r[1], mid>>]
           search == CHOOSE f : f = [r \in Ranges |-> turn(f, r)]
<1>1. ASSUME NEW r \in Ranges PROVE F[r] = turn(F, r)
  <2> DEFINE mid == mid_idx(r)
  <2>1. /\ r[1] \in 0..n /\ r[2] \in 0..n /\ r[1] <= r[2]
        /\ r[1] # r[2] =>
              /\ mid \in r[1]..(r[2] - 1) /\ mid \in 0..(n - 1)
              /\ <<mid + 1, r[2]>> \in Ranges /\ <<r[1], mid>> \in Ranges
    BY RangeFacts
  <2>2. F[r] = IF r[1] = r[2] \/ r[1] > M THEN -1 ELSE IF M < r[2] THEN M ELSE r[2] - 1
    OBVIOUS
  <2>3. CASE r[1] = r[2]
    BY <2>2, <2>3
  <2>4. CASE r[1] # r[2]
    <3>1. /\ F[<<mid + 1, r[2]>>] = IF mid + 1 = r[2] \/ mid + 1 > M THEN -1
                                    ELSE IF M < r[2] THEN M ELSE r[2] - 1
          /\ F[<<r[1], mid>>] = IF r[1] = mid \/ r[1] > M THEN -1 ELSE IF M < mid THEN M ELSE mid - 1
      BY <2>1, <2>4
    <3>2. Includes(deps, BlockDependencies(mid)) <=> mid <= M
      BY <2>1, <2>4
    <3>3. turn(F, r) = IF mid <= M
                       THEN LET x == F[<<mid + 1, r[2]>>] IN IF x > mid THEN x ELSE mid
                       ELSE F[<<r[1], mid>>]
      BY <2>4, <3>2
    <3> HIDE DEF F, turn, mid, n
    <3> QED BY <2>1, <2>2, <2>4, <3>1, <3>3
  <2> QED BY <2>3, <2>4
<1>2. F = [r \in Ranges |-> turn(F, r)]
  <2>1. F = [r \in Ranges |-> F[r]]
    OBVIOUS
  <2> HIDE DEF F, turn
  <2> QED BY <1>1, <2>1
<1>3. search = [r \in Ranges |-> turn(search, r)]
  <2> HIDE DEF F, turn
  <2> QED BY <1>2
<1>4. ASSUME NEW r \in Ranges, \A q \in Ranges : q[2] - q[1] < r[2] - r[1] => search[q] = F[q]
      PROVE  search[r] = F[r]
  <2> DEFINE mid == mid_idx(r)
  <2>1. search[r] = turn(search, r)
    <3> HIDE DEF search, turn
    <3> QED BY <1>3
  <2>2. CASE r[1] = r[2]
    <3> HIDE DEF search, F
    <3> QED BY <1>1, <2>1, <2>2
  <2>3. CASE r[1] # r[2]
    <3>1. /\ r[1] \in 0..n /\ r[2] \in 0..n /\ r[1] <= r[2]
          /\ mid \in r[1]..(r[2] - 1)
          /\ <<mid + 1, r[2]>> \in Ranges /\ <<r[1], mid>> \in Ranges
      BY <2>3, RangeFacts
    <3> HIDE DEF search, F, mid, n
    <3>2. r[2] - (mid + 1) < r[2] - r[1] /\ mid - r[1] < r[2] - r[1]
      BY <3>1
    <3>3. search[<<mid + 1, r[2]>>] = F[<<mid + 1, r[2]>>] /\ search[<<r[1], mid>>] = F[<<r[1], mid>>]
      BY <1>4, <3>1, <3>2
    <3>4. turn(search, r) = turn(F, r)
      BY <3>3 DEF mid
    <3> QED BY <1>1, <2>1, <3>4
  <2> QED BY <2>2, <2>3
<1>5. \A r \in Ranges : search[r] = F[r]
  <2> HIDE DEF search, F
  <2> QED BY <1>4, RangesByLength
<1>6. getMaximalSubSet(deps) = search[<<0, n>>]
  BY DEF getMaximalSubSet
<1>7. <<0, n>> \in Ranges /\ F[<<0, n>>] = M
  <2>1. <<0, n>> \in Ranges
    BY DEF Ranges
  <2> HIDE DEF n
  <2>2. F[<<0, n>>] = IF 0 = n \/ 0 > M THEN -1 ELSE IF M < n THEN M ELSE n - 1
    BY <2>1
  <2>3. n \in Nat /\ M \in -1..(n - 1)
    BY DEF n
  <2> QED BY <2>1, <2>2, <2>3
<1> HIDE DEF search, F
<1> QED BY <1>5, <1>6, <1>7

\* Where the blocks from M on include deps and no others the search that starts
\* with a block ends with M, or with the start if M comes before it.
LEMMA MinimalSuperSetFound ==
    ASSUME existential_block_idx_end \in Nat, NEW deps, NEW start \in 0..existential_block_idx_end,
           NEW M \in 0..existential_block_idx_end, getNofExistentialBlocks \in Nat,
           getNofExistentialBlocks >= existential_block_idx_end,
           \A i \in 0..(existential_block_idx_end - 1) : Includes(BlockDependencies(i), deps) <=> i >= M
    PROVE  getMinimalSuperSet(deps, start)
              = LET first == IF start < M THEN M ELSE start
                IN  IF first < existential_block_idx_end THEN first ELSE getNofExistentialBlocks
<1> DEFINE n == existential_block_idx_end
           E == getNofExistentialBlocks
           F == [r \in Ranges |-> IF r[1] = r[2] \/ r[2] <= M THEN E ELSE IF r[1] < M THEN M ELSE r[1]]
           turn(f, r) == LET mid == mid_idx(r) IN
               IF r[1] = r[2] THEN E
               ELSE IF Includes(BlockDependencies(mid), deps)
               THEN LET x == f[<<r[1], mid>>] IN IF x < mid THEN x ELSE mid
               ELSE f[<<mid + 1, r[2]>>]
           search == CHOOSE f : f = [r \in Ranges |-> turn(f, r)]
<1>0. E \in Nat /\ n \in Nat /\ E >= n /\ M \in 0..n
  OBVIOUS
<1>1. ASSUME NEW r \in Ranges PROVE F[r] = turn(F, r)
  <2> DEFINE mid == mid_idx(r)
  <2>1. /\ r[1] \in 0..n /\ r[2] \in 0..n /\ r[1] <= r[2]
        /\ r[1] # r[2] =>
              /\ mid \in r[1]..(r[2] - 1) /\ mid \in 0..(n - 1)
              /\ <<mid + 1, r[2]>> \in Ranges /\ <<r[1], mid>> \in Ranges
    BY RangeFacts
  <2>2. F[r] = IF r[1] = r[2] \/ r[2] <= M THEN E ELSE IF r[1] < M THEN M ELSE r[1]
    OBVIOUS
  <2>3. CASE r[1] = r[2]
    BY <2>2, <2>3
  <2>4. CASE r[1] # r[2]
    <3>1. /\ F[<<mid + 1, r[2]>>] = IF mid + 1 = r[2] \/ r[2] <= M THEN E
                                    ELSE IF mid + 1 < M THEN M ELSE mid + 1
          /\ F[<<r[1], mid>>] = IF r[1] = mid \/ mid <= M THEN E ELSE IF r[1] < M THEN M ELSE r[1]
      BY <2>1, <2>4
    <3>2. Includes(BlockDependencies(mid), deps) <=> mid >= M
      BY <2>1, <2>4
    <3>3. turn(F, r) = IF mid >= M
                       THEN LET x == F[<<r[1], mid>>] IN IF x < mid THEN x ELSE mid
                       ELSE F[<<mid + 1, r[2]>>]
      BY <2>4, <3>2
    <3> HIDE DEF F, turn, mid, n, E
    <3> QED BY <1>0, <2>1, <2>2, <2>4, <3>1, <3>3
  <2> QED BY <2>3, <2>4
<1>2. F = [r \in Ranges |-> turn(F, r)]
  <2>1. F = [r \in Ranges |-> F[r]]
    OBVIOUS
  <2> HIDE DEF F, turn
  <2> QED BY <1>1, <2>1
<1>3. search = [r \in Ranges |-> turn(search, r)]
  <2> HIDE DEF F, turn
  <2> QED BY <1>2
<1>4. ASSUME NEW r \in Ranges, \A q \in Ranges : q[2] - q[1] < r[2] - r[1] => search[q] = F[q]
      PROVE  search[r] = F[r]
  <2> DEFINE mid == mid_idx(r)
  <2>1. search[r] = turn(search, r)
    <3> HIDE DEF search, turn
    <3> QED BY <1>3
  <2>2. CASE r[1] = r[2]
    <3> HIDE DEF search, F
    <3> QED BY <1>1, <2>1, <2>2
  <2>3. CASE r[1] # r[2]
    <3>1. /\ r[1] \in 0..n /\ r[2] \in 0..n /\ r[1] <= r[2]
          /\ mid \in r[1]..(r[2] - 1)
          /\ <<mid + 1, r[2]>> \in Ranges /\ <<r[1], mid>> \in Ranges
      BY <2>3, RangeFacts
    <3> HIDE DEF search, F, mid, n
    <3>2. r[2] - (mid + 1) < r[2] - r[1] /\ mid - r[1] < r[2] - r[1]
      BY <3>1
    <3>3. search[<<mid + 1, r[2]>>] = F[<<mid + 1, r[2]>>] /\ search[<<r[1], mid>>] = F[<<r[1], mid>>]
      BY <1>4, <3>1, <3>2
    <3>4. turn(search, r) = turn(F, r)
      BY <3>3 DEF mid
    <3> QED BY <1>1, <2>1, <3>4
  <2> QED BY <2>2, <2>3
<1>5. \A r \in Ranges : search[r] = F[r]
  <2> HIDE DEF search, F
  <2> QED BY <1>4, RangesByLength
<1>6. getMinimalSuperSet(deps, start) = search[<<start, n>>]
  BY DEF getMinimalSuperSet
<1>7. /\ <<start, n>> \in Ranges
      /\ F[<<start, n>>] = LET first == IF start < M THEN M ELSE start IN IF first < n THEN first ELSE E
  <2>1. <<start, n>> \in Ranges
    BY DEF Ranges
  <2>2. start \in 0..n
    OBVIOUS
  <2> HIDE DEF n, E
  <2>3. F[<<start, n>>] = IF start = n \/ n <= M THEN E ELSE IF start < M THEN M ELSE start
    BY <2>1
  <2> HIDE DEF F
  <2> QED BY <1>0, <2>1, <2>2, <2>3
<1> HIDE DEF search, F
<1> QED BY <1>5, <1>6, <1>7
--------------------------------------------------------------------------------
(***************************************************************************)
(* The variables in blocks.                                                *)
(***************************************************************************)
\* Each position is in one block.
LEMMA BlockAtFacts ==
    ASSUME FormulaInv, NEW p \in 1..Len(existential_variables)
    PROVE  /\ BlockAt(p) \in 0..(getNofExistentialBlocks - 1)
           /\ p \in (EB(BlockAt(p)) + 1)..EB(BlockAt(p) + 1)
           /\ \A i \in 0..(getNofExistentialBlocks - 1) :
                 p \in (EB(i) + 1)..EB(i + 1) => i = BlockAt(p)
<1> DEFINE E == getNofExistentialBlocks
           m == Len(existential_variables)
           S == {k \in Nat : k <= E /\ p <= EB(k)}
<1>1. /\ E \in Nat /\ m \in Nat /\ \A k \in 0..E : EB(k) \in 0..m
      /\ \A j, k \in 0..E : j < k => EB(j) < EB(k)
      /\ EB(0) = 0 /\ EB(E) = m
  BY FormulaFacts
<1>2. p \in 1..m
  OBVIOUS
<1> HIDE DEF E, m
<1>3. E \in S
  BY <1>1, <1>2
<1>4. PICK k \in S : \A j \in S : k <= j
  <2> HIDE DEF S
  <2>1. S \in SUBSET Nat
    BY DEF S
  <2> QED BY <1>3, <2>1, SmallestNumber
<1>5. k - 1 \in 0..(E - 1) /\ p \in (EB(k - 1) + 1)..EB(k) /\ (k - 1) + 1 = k
  <2>1. k \in 0..E /\ p <= EB(k) /\ k # 0
    BY <1>1, <1>2, <1>4
  <2>2. k - 1 \in 0..E /\ k - 1 \notin S
    BY <1>1, <1>4, <2>1
  <2>3. EB(k - 1) < p
    BY <1>1, <1>2, <2>2
  <2>4. EB(k - 1) \in Nat /\ EB(k) \in Nat /\ p \in Nat
    BY <1>1, <1>2, <2>1, <2>2
  <2> QED BY <1>1, <2>1, <2>3, <2>4
<1>6. ASSUME NEW i \in 0..(E - 1), p \in (EB(i) + 1)..EB(i + 1),
             NEW j \in 0..(E - 1), p \in (EB(j) + 1)..EB(j + 1), i < j
      PROVE  FALSE
  <2>1. /\ i + 1 \in 0..E /\ j \in 0..E /\ i + 1 <= j /\ i \in 0..E /\ j + 1 \in 0..E
        /\ EB(i + 1) \in Nat /\ EB(j) \in Nat /\ EB(i) \in Nat /\ EB(j + 1) \in Nat
    BY <1>1, <1>6
  <2>2. EB(i + 1) <= EB(j)
    <3>1. CASE i + 1 = j
      BY <2>1, <3>1
    <3>2. CASE i + 1 < j
      <4>1. EB(i + 1) < EB(j)
        BY <1>1, <2>1, <3>2
      <4> QED BY <2>1, <4>1
    <3> QED BY <2>1, <3>1, <3>2
  <2> QED BY <1>6, <2>1, <2>2
<1>7. \A i, j \in 0..(E - 1) :
          p \in (EB(i) + 1)..EB(i + 1) /\ p \in (EB(j) + 1)..EB(j + 1) => i = j
  BY <1>1, <1>6
<1>8. BlockAt(p) = CHOOSE i \in 0..(E - 1) : p \in (EB(i) + 1)..EB(i + 1)
  BY DEF BlockAt, E
<1>9. BlockAt(p) \in 0..(E - 1) /\ p \in (EB(BlockAt(p)) + 1)..EB(BlockAt(p) + 1)
  BY <1>5, <1>8
<1> QED BY <1>7, <1>9 DEF E

\* The blocks the extraction looks at, and the one it may leave out.
LEMMA EndFacts ==
    ASSUME FormulaInv, setting \in ExtractorSettings, universal_variables # <<>> \/ existential_variables # <<>>
    PROVE  /\ existential_block_idx_end \in 0..getNofExistentialBlocks
           /\ setting.ignore =>
                 lastBlock = ElementsAt(existential_variables, EB(existential_block_idx_end) + 1,
                                        Len(existential_variables))
           /\ ~setting.ignore => existential_block_idx_end = getNofExistentialBlocks
           /\ lastBlock = {} <=> lastBlockType(first_block_type)
<1> DEFINE end == existential_block_idx_end
           E == getNofExistentialBlocks
           U == getNofUniversalBlocks
           m == Len(existential_variables)
<1>1. /\ U \in Nat /\ E \in Nat /\ m \in Nat /\ EB(E) = m
      /\ Len(universal_blocks) = U + 1 /\ Len(existential_blocks) = E + 1
      /\ \A k \in 0..E : EB(k) \in 0..m
      /\ \A j, k \in 0..E : j < k => EB(j) < EB(k)
      /\ universal_variables = <<>> <=> U = 0
      /\ existential_variables = <<>> <=> E = 0
  BY FormulaFacts
<1>2. /\ IF first_block_type THEN U \in {E, E + 1} ELSE E \in {U, U + 1}
      /\ lastBlock = IF E > 0 /\ ~lastBlockType(first_block_type)
                     THEN ElementsAt(existential_variables, EB(E - 1) + 1, EB(E)) ELSE {}
      /\ first_block_type \in BOOLEAN
  BY DEF FormulaInv, Alternate
<1>3. setting.ignore \in BOOLEAN
  BY ExtractorAssumption
<1>4. lastBlockType(first_block_type) = IF U = E THEN ~first_block_type ELSE first_block_type
  BY <1>1 DEF lastBlockType
<1>5. end = IF setting.ignore /\ ~lastBlockType(first_block_type) THEN E - 1 ELSE E
  BY DEF existential_block_idx_end
<1> HIDE DEF end, E, U, m
<1>6. CASE lastBlockType(first_block_type)
  <2>1. end = E /\ lastBlock = {}
    BY <1>2, <1>5, <1>6
  <2>2. ElementsAt(existential_variables, EB(E) + 1, m) = {}
    BY <1>1 DEF ElementsAt
  <2>3. end \in 0..E /\ lastBlock = ElementsAt(existential_variables, EB(end) + 1, m)
    BY <1>1, <2>1, <2>2
  <2> QED BY <1>6, <2>1, <2>3, Zenon DEF end, E, m
<1>7. CASE ~lastBlockType(first_block_type)
  <2>1. E > 0
    <3>1. ~(U = 0 /\ E = 0)
      BY <1>1
    <3> QED BY <1>1, <1>2, <1>4, <1>7, <3>1
  <2>2. lastBlock = ElementsAt(existential_variables, EB(E - 1) + 1, m)
    BY <1>1, <1>2, <1>7, <2>1
  <2>3. end = IF setting.ignore THEN E - 1 ELSE E
    BY <1>5, <1>7
  <2>4. lastBlock # {}
    <3>1. E - 1 \in 0..E /\ E \in 0..E /\ E - 1 < E
      BY <1>1, <2>1
    <3>2. EB(E - 1) \in Nat /\ EB(E - 1) < m
      BY <1>1, <3>1
    <3>3. m \in (EB(E - 1) + 1)..m
      BY <1>1, <3>2
    <3> QED BY <2>2, <3>3 DEF ElementsAt
  <2>5. end \in 0..E
    BY <1>1, <2>1, <2>3
  <2> QED BY <1>3, <1>7, <2>2, <2>3, <2>4, <2>5 DEF end, E, m
<1> QED BY <1>6, <1>7, Zenon
LEMMA BlockFacts ==
    ASSUME FormulaInv, NEW i \in 0..(getNofExistentialBlocks - 1)
    PROVE  /\ EB(i) \in Nat /\ EB(i + 1) \in Nat /\ EB(i) < EB(i + 1)
           /\ EB(i + 1) <= Len(existential_variables)
           /\ SortedBlock(i) \in Seq(Existentials) /\ IsInjective(SortedBlock(i))
           /\ Len(SortedBlock(i)) = EB(i + 1) - EB(i)
           /\ ToSet(SortedBlock(i)) = ElementsAt(existential_variables, EB(i) + 1, EB(i + 1))
           /\ ToSet(Block(i)) = ElementsAt(existential_variables, EB(i) + 1, EB(i + 1))
           /\ setting.extended => Increasing(SortedBlock(i))
           /\ ~setting.extended =>
                 \A k \in 1..(EB(i + 1) - EB(i)) : SortedBlock(i)[k] = existential_variables[EB(i) + k]
<1> DEFINE E == getNofExistentialBlocks
           m == Len(existential_variables)
           ev == existential_variables
           a == EB(i)
           b == EB(i + 1)
<1>1. /\ E \in Nat /\ m \in Nat /\ \A k \in 0..E : EB(k) \in 0..m
      /\ \A j, k \in 0..E : j < k => EB(j) < EB(k)
      /\ DOMAIN ev = 1..m
  BY FormulaFacts
<1>2. ev \in Seq(Existentials) /\ IsInjective(ev)
  BY DEF FormulaInv
<1>3. a \in Nat /\ b \in Nat /\ a < b /\ b <= m
  <2>1. i \in 0..E /\ i + 1 \in 0..E /\ i < i + 1
    BY <1>1
  <2>2. EB(i) < EB(i + 1) /\ EB(i) \in 0..m /\ EB(i + 1) \in 0..m
    BY <1>1, <2>1
  <2> HIDE DEF m
  <2> QED BY <1>1, <2>2
<1>4. Block(i) = SubSeq(ev, a + 1, b)
  BY DEF Block
<1> HIDE DEF E, m, ev, a, b
<1>5. /\ Block(i) \in Seq(Existentials) /\ Len(Block(i)) = b - a
      /\ \A k \in 1..(b - a) : Block(i)[k] = ev[a + k]
  <2>1. \A k \in (a + 1)..b : ev[k] \in Existentials
    BY <1>1, <1>2, <1>3, LenProperties DEF m
  <2>2. /\ SubSeq(ev, a + 1, b) \in Seq(Existentials)
        /\ Len(SubSeq(ev, a + 1, b)) = IF a + 1 <= b THEN b - (a + 1) + 1 ELSE 0
        /\ \A k \in 1..(b - (a + 1) + 1) : SubSeq(ev, a + 1, b)[k] = ev[(a + 1) + k - 1]
    BY <1>3, <2>1, SubSeqProperties
  <2>3. b - (a + 1) + 1 = b - a /\ a + 1 <= b /\ \A k \in 1..(b - a) : (a + 1) + k - 1 = a + k
    BY <1>3
  <2> QED BY <1>4, <2>2, <2>3
<1>6. DOMAIN Block(i) = 1..(b - a)
  BY <1>5, LenProperties
<1>7. IsInjective(Block(i))
  <2>1. \A k \in 1..(b - a) : a + k \in 1..m
    BY <1>1, <1>3
  <2>2. \A k, q \in 1..(b - a) : ev[a + k] = ev[a + q] => a + k = a + q
    BY <1>1, <1>2, <2>1 DEF IsInjective
  <2>3. \A k, q \in 1..(b - a) : a + k = a + q => k = q
    BY <1>3
  <2> QED BY <1>5, <1>6, <2>2, <2>3 DEF IsInjective
<1>8. ToSet(Block(i)) = ElementsAt(ev, a + 1, b)
  <2>1. \A k \in 1..(b - a) : a + k \in (a + 1)..b
    BY <1>3
  <2>2. \A p \in (a + 1)..b : p - a \in 1..(b - a) /\ a + (p - a) = p
    BY <1>3
  <2>3. ToSet(Block(i)) = {Block(i)[k] : k \in 1..(b - a)}
    BY <1>6 DEF ToSet
  <2>4. ToSet(Block(i)) \subseteq ElementsAt(ev, a + 1, b)
    BY <1>5, <2>1, <2>3 DEF ElementsAt
  <2>5. ElementsAt(ev, a + 1, b) \subseteq ToSet(Block(i))
    <3> SUFFICES ASSUME NEW p \in (a + 1)..b PROVE ev[p] \in ToSet(Block(i))
      BY DEF ElementsAt
    <3>1. Block(i)[p - a] = ev[p]
      BY <1>5, <2>2
    <3> QED BY <2>2, <2>3, <3>1
  <2> QED BY <2>4, <2>5
<1>9. /\ Sorted(Block(i)) \in Seq(Existentials) /\ Len(Sorted(Block(i))) = Len(Block(i))
      /\ ToSet(Sorted(Block(i))) = ToSet(Block(i)) /\ Increasing(Sorted(Block(i)))
      /\ IsInjective(Sorted(Block(i)))
  BY <1>5, <1>7, PrefixAssumption, SortedFacts
<1>10. CASE setting.extended
  <2>1. SortedBlock(i) = Sorted(Block(i))
    BY <1>10 DEF SortedBlock
  <2> QED BY <1>3, <1>5, <1>8, <1>9, <1>10, <2>1 DEF a, b, m, ev
<1>11. CASE ~setting.extended
  <2>1. SortedBlock(i) = Block(i)
    BY <1>11 DEF SortedBlock
  <2> QED BY <1>3, <1>5, <1>7, <1>8, <1>11, <2>1 DEF a, b, m, ev
<1> QED BY <1>10, <1>11

\* Sorting keeps each variable in its block.
LEMMA SortedBlocksFacts ==
    ASSUME FormulaInv, existential_block_idx_end \in 0..getNofExistentialBlocks
    PROVE  LET E == getNofExistentialBlocks
               m == Len(existential_variables)
               ev == existential_variables
               SB == SortedBlocks
           IN  /\ SB \in Seq(Existentials) /\ Len(SB) = m /\ DOMAIN SB = 1..m /\ IsInjective(SB)
               /\ \A p \in 1..m :
                     /\ \E q \in (EB(BlockAt(p)) + 1)..EB(BlockAt(p) + 1) : SB[p] = ev[q]
                     /\ \E q \in (EB(BlockAt(p)) + 1)..EB(BlockAt(p) + 1) : ev[p] = SB[q]
               /\ setting.extended =>
                     \A i \in 0..(existential_block_idx_end - 1) :
                         \A p, q \in (EB(i) + 1)..EB(i + 1) : p < q => SB[p] < SB[q]
<1> DEFINE E == getNofExistentialBlocks
           m == Len(existential_variables)
           ev == existential_variables
           SB == SortedBlocks
           end == existential_block_idx_end
           In(p, i) == p \in (EB(i) + 1)..EB(i + 1)
<1>1. /\ E \in Nat /\ m \in Nat /\ \A k \in 0..E : EB(k) \in 0..m
      /\ \A j, k \in 0..E : j < k => EB(j) < EB(k)
      /\ DOMAIN ev = 1..m
  BY FormulaFacts
<1>2. ev \in Seq(Existentials) /\ \A p, q \in 1..m : ev[p] = ev[q] => p = q
  BY <1>1 DEF FormulaInv, IsInjective
<1>3. end \in 0..E
  OBVIOUS
<1>4. \A p \in 1..m : BlockAt(p) \in 0..(E - 1) /\ In(p, BlockAt(p))
                      /\ \A i \in 0..(E - 1) : In(p, i) => i = BlockAt(p)
  BY BlockAtFacts
<1>5. \A i \in 0..(E - 1) :
          /\ EB(i) \in Nat /\ EB(i + 1) \in Nat /\ EB(i) < EB(i + 1) /\ EB(i + 1) <= m
          /\ SortedBlock(i) \in Seq(Existentials)
          /\ IsInjective(SortedBlock(i)) /\ Len(SortedBlock(i)) = EB(i + 1) - EB(i)
          /\ ToSet(SortedBlock(i)) = ElementsAt(ev, EB(i) + 1, EB(i + 1))
          /\ setting.extended => Increasing(SortedBlock(i))
  BY BlockFacts
<1>6. SB = [p \in 1..m |-> IF p <= EB(end) THEN SortedBlock(BlockAt(p))[p - EB(BlockAt(p))] ELSE ev[p]]
  BY <1>1 DEF SortedBlocks
<1> HIDE DEF E, m, ev, SB, end, In
<1>7. \A i \in 0..(E - 1) : DOMAIN SortedBlock(i) = 1..(EB(i + 1) - EB(i))
  BY <1>5, LenProperties
<1>8. \A i \in 0..(E - 1) : \A q \in (EB(i) + 1)..EB(i + 1) : q \in 1..m /\ In(q, i)
  <2> SUFFICES ASSUME NEW i \in 0..(E - 1), NEW q \in (EB(i) + 1)..EB(i + 1) PROVE q \in 1..m
    BY DEF In
  <2>1. EB(i) \in Nat /\ EB(i + 1) \in Nat /\ EB(i + 1) <= m
    BY <1>5
  <2> QED BY <1>1, <2>1
\* A block is sorted as a whole or not at all.
<1>9. \A i \in 0..(E - 1) : \A p \in 1..m :
          In(p, i) => SB[p] = IF i < end THEN SortedBlock(i)[p - EB(i)] ELSE ev[p]
  <2> SUFFICES ASSUME NEW i \in 0..(E - 1), NEW p \in 1..m, In(p, i)
               PROVE  SB[p] = IF i < end THEN SortedBlock(i)[p - EB(i)] ELSE ev[p]
    OBVIOUS
  <2>1. i = BlockAt(p)
    BY <1>4
  <2>2. /\ i \in 0..E /\ i + 1 \in 0..E /\ i \in Nat /\ p \in Nat /\ EB(i) \in Nat /\ EB(i + 1) \in Nat
        /\ EB(end) \in Nat /\ end \in Nat /\ EB(i) < p /\ p <= EB(i + 1)
    BY <1>1, <1>3, <1>5 DEF In
  <2>3. i < end => EB(i + 1) <= EB(end)
    <3> SUFFICES ASSUME i < end PROVE EB(i + 1) <= EB(end)
      OBVIOUS
    <3>1. CASE i + 1 = end
      BY <2>2, <3>1
    <3>2. CASE i + 1 < end
      <4>1. EB(i + 1) < EB(end)
        BY <1>1, <1>3, <2>2, <3>2
      <4> QED BY <2>2, <4>1
    <3> QED BY <2>2, <3>1, <3>2
  <2>4. ~(i < end) => EB(end) <= EB(i)
    <3> SUFFICES ASSUME ~(i < end) PROVE EB(end) <= EB(i)
      OBVIOUS
    <3>1. CASE i = end
      BY <2>2, <3>1
    <3>2. CASE end < i
      <4>1. EB(end) < EB(i)
        BY <1>1, <1>3, <2>2, <3>2
      <4> QED BY <2>2, <4>1
    <3> QED BY <2>2, <3>1, <3>2
  <2>5. p <= EB(end) <=> i < end
    BY <2>2, <2>3, <2>4
  <2> QED BY <1>6, <2>1, <2>5
<1>10. \A p \in 1..m : \A i \in 0..(E - 1) : In(p, i) =>
          \E q \in (EB(i) + 1)..EB(i + 1) : SB[p] = ev[q]
  <2> SUFFICES ASSUME NEW p \in 1..m, NEW i \in 0..(E - 1), In(p, i)
               PROVE  \E q \in (EB(i) + 1)..EB(i + 1) : SB[p] = ev[q]
    OBVIOUS
  <2>1. CASE i < end
    <3>1. p - EB(i) \in DOMAIN SortedBlock(i)
      BY <1>5, <1>7 DEF In
    <3>2. SB[p] \in ToSet(SortedBlock(i))
      BY <1>9, <2>1, <3>1 DEF ToSet
    <3>3. SB[p] \in ElementsAt(ev, EB(i) + 1, EB(i + 1))
      BY <1>5, <3>2
    <3> QED BY <3>3 DEF ElementsAt
  <2>2. CASE ~(i < end)
    BY <1>9, <2>2 DEF In
  <2> QED BY <2>1, <2>2
<1>11. \A p \in 1..m : \A i \in 0..(E - 1) : In(p, i) =>
          \E q \in (EB(i) + 1)..EB(i + 1) : ev[p] = SB[q]
  <2> SUFFICES ASSUME NEW p \in 1..m, NEW i \in 0..(E - 1), In(p, i)
               PROVE  \E q \in (EB(i) + 1)..EB(i + 1) : ev[p] = SB[q]
    OBVIOUS
  <2>1. CASE i < end
    <3>1. ev[p] \in ElementsAt(ev, EB(i) + 1, EB(i + 1))
      BY DEF In, ElementsAt
    <3>2. PICK k \in 1..(EB(i + 1) - EB(i)) : ev[p] = SortedBlock(i)[k]
      BY <1>5, <1>7, <3>1 DEF ToSet
    <3>3. EB(i) + k \in (EB(i) + 1)..EB(i + 1) /\ (EB(i) + k) - EB(i) = k /\ EB(i) + k \in 1..m
      <4>1. EB(i) \in Nat /\ EB(i + 1) \in Nat /\ EB(i) < EB(i + 1) /\ EB(i + 1) <= m
        BY <1>5
      <4> QED BY <1>1, <4>1
    <3>4. In(EB(i) + k, i)
      BY <3>3 DEF In
    <3>5. SB[EB(i) + k] = SortedBlock(i)[(EB(i) + k) - EB(i)]
      BY <1>9, <2>1, <3>3, <3>4
    <3> QED BY <3>2, <3>3, <3>5
  <2>2. CASE ~(i < end)
    BY <1>9, <2>2 DEF In
  <2> QED BY <2>1, <2>2
<1>12. \A p \in 1..m : SB[p] \in Existentials
  <2> SUFFICES ASSUME NEW p \in 1..m PROVE SB[p] \in Existentials
    OBVIOUS
  <2>1. PICK q \in (EB(BlockAt(p)) + 1)..EB(BlockAt(p) + 1) : SB[p] = ev[q]
    BY <1>4, <1>10
  <2>2. q \in 1..m
    BY <1>4, <1>8
  <2> QED BY <1>1, <1>2, <2>1, <2>2, ElementOfSeq DEF m
<1>13. SB \in Seq(Existentials) /\ Len(SB) = m /\ DOMAIN SB = 1..m
  <2>1. SB \in [1..m -> Existentials]
    <3>1. DOMAIN SB = 1..m /\ SB = [p \in 1..m |-> SB[p]]
      BY <1>6
    <3> QED BY <1>12, <3>1
  <2> QED BY <1>1, <2>1, ListIsSeq
<1>14. \A p, q \in 1..m : SB[p] = SB[q] => p = q
  <2> SUFFICES ASSUME NEW p \in 1..m, NEW q \in 1..m, SB[p] = SB[q] PROVE p = q
    OBVIOUS
  <2> DEFINE i == BlockAt(p)
             j == BlockAt(q)
  <2>1. i \in 0..(E - 1) /\ In(p, i) /\ j \in 0..(E - 1) /\ In(q, j)
    BY <1>4
  <2> HIDE DEF i, j
  <2>2. PICK a \in (EB(i) + 1)..EB(i + 1) : SB[p] = ev[a]
    BY <1>10, <2>1
  <2>3. PICK b \in (EB(j) + 1)..EB(j + 1) : SB[q] = ev[b]
    BY <1>10, <2>1
  <2>4. a \in 1..m /\ b \in 1..m
    BY <1>8, <2>1
  <2>5. a = b
    BY <1>2, <2>2, <2>3, <2>4
  <2>6. In(a, i) /\ In(a, j)
    BY <2>2, <2>3, <2>5 DEF In
  <2>7. i = j
    BY <1>4, <2>1, <2>4, <2>6
  <2>8. CASE i < end
    <3>1. SB[p] = SortedBlock(i)[p - EB(i)] /\ SB[q] = SortedBlock(i)[q - EB(i)]
      BY <1>9, <2>1, <2>7, <2>8
    <3>2. p - EB(i) \in DOMAIN SortedBlock(i) /\ q - EB(i) \in DOMAIN SortedBlock(i)
      BY <1>5, <1>7, <2>1, <2>7 DEF In
    <3>3. p - EB(i) = q - EB(i)
      BY <1>5, <2>1, <3>1, <3>2 DEF IsInjective
    <3>4. EB(i) \in Nat /\ p \in Nat /\ q \in Nat
      BY <1>5, <2>1
    <3> QED BY <3>3, <3>4
  <2>9. CASE ~(i < end)
    <3>1. SB[p] = ev[p] /\ SB[q] = ev[q]
      BY <1>9, <2>1, <2>7, <2>9
    <3> QED BY <1>2, <3>1
  <2> QED BY <2>8, <2>9
<1>15. ASSUME setting.extended, NEW i \in 0..(end - 1),
              NEW p \in (EB(i) + 1)..EB(i + 1), NEW q \in (EB(i) + 1)..EB(i + 1), p < q
       PROVE  SB[p] < SB[q]
  <2>1. i \in 0..(E - 1) /\ i < end
    BY <1>1, <1>3
  <2>2. EB(i) \in Nat /\ EB(i + 1) \in Nat /\ EB(i + 1) <= m
    BY <1>5, <2>1
  <2>3. In(p, i) /\ In(q, i) /\ p \in 1..m /\ q \in 1..m
    BY <1>1, <2>2 DEF In
  <2>4. SB[p] = SortedBlock(i)[p - EB(i)] /\ SB[q] = SortedBlock(i)[q - EB(i)]
    BY <1>9, <2>1, <2>3
  <2>5. p - EB(i) \in DOMAIN SortedBlock(i) /\ q - EB(i) \in DOMAIN SortedBlock(i)
        /\ p - EB(i) < q - EB(i)
    BY <1>7, <1>15, <2>1, <2>2
  <2>6. Increasing(SortedBlock(i))
    BY <1>5, <1>15, <2>1
  <2> QED BY <2>4, <2>5, <2>6 DEF Increasing
<1>16. IsInjective(SB)
  BY <1>13, <1>14 DEF IsInjective
<1> QED BY <1>4, <1>10, <1>11, <1>13, <1>15, <1>16 DEF E, m, ev, SB, end
\* The dependencies of the variables in a list with the blocks' positions are the
\* same in a block and grow from block to block.
BlocksGrow(l) ==
    \A i, j \in 0..(getNofExistentialBlocks - 1) :
        \A p \in (EB(i) + 1)..EB(i + 1), q \in (EB(j) + 1)..EB(j + 1) :
            /\ i = j => prefix[l[p]] = prefix[l[q]]
            /\ i < j => prefix[l[p]] \subseteq prefix[l[q]] /\ prefix[l[p]] # prefix[l[q]]

BlocksSorted(l) ==
    \A i \in 0..(existential_block_idx_end - 1) :
        \A p, q \in (EB(i) + 1)..EB(i + 1) : p < q => l[p] < l[q]

LEMMA ReadBlocksGrow ==
    ASSUME FormulaInv, ReadingInv, phase = "reading"
    PROVE  BlocksGrow(existential_variables)
<1> DEFINE E == getNofExistentialBlocks
           U == getNofUniversalBlocks
           n == Len(universal_variables)
           ev == existential_variables
           uv == universal_variables
           upTo(i) == universal_blocks[UniversalIndex(i) + 1]
<1>1. /\ U \in Nat /\ E \in Nat /\ n \in Nat /\ DOMAIN uv = 1..n
      /\ \A k \in 1..(U + 1) : universal_blocks[k] \in 0..n
      /\ \A j, k \in 1..(U + 1) : j < k => universal_blocks[j] < universal_blocks[k]
  BY FormulaFacts
<1>2. \A i \in 0..(E - 1) : UniversalIndex(i) = (IF first_block_type THEN i + 1 ELSE i)
                            /\ UniversalIndex(i) \in 0..U
  BY IndexFacts
<1>3. \A i \in 0..(E - 1) : \A p \in (EB(i) + 1)..EB(i + 1) : prefix[ev[p]] = ElementsAt(uv, 1, upTo(i))
  BY DEF ReadingInv
<1>4. \A p, q \in 1..n : uv[p] = uv[q] => p = q
  BY <1>1 DEF FormulaInv, IsInjective
<1> HIDE DEF E, U, n, ev, uv
<1>5. ASSUME NEW i \in 0..(E - 1), NEW j \in 0..(E - 1), i < j
      PROVE  /\ ElementsAt(uv, 1, upTo(i)) \subseteq ElementsAt(uv, 1, upTo(j))
             /\ ElementsAt(uv, 1, upTo(i)) # ElementsAt(uv, 1, upTo(j))
  <2>1. /\ UniversalIndex(i) + 1 \in 1..(U + 1) /\ UniversalIndex(j) + 1 \in 1..(U + 1)
        /\ UniversalIndex(i) + 1 < UniversalIndex(j) + 1
    <3>1. UniversalIndex(i) \in 0..U /\ UniversalIndex(j) \in 0..U /\ UniversalIndex(i) < UniversalIndex(j)
      BY <1>2, <1>5
    <3> QED BY <1>1, <3>1
  <2>2. upTo(i) \in 0..n /\ upTo(j) \in 0..n /\ upTo(i) < upTo(j)
    BY <1>1, <2>1
  <2> HIDE DEF upTo
  <2>3. upTo(j) \in 1..upTo(j) /\ upTo(j) \in 1..n /\ 1..upTo(i) \subseteq 1..upTo(j)
        /\ 1..upTo(i) \subseteq 1..n /\ upTo(j) \notin 1..upTo(i)
    BY <1>1, <2>2
  <2>4. uv[upTo(j)] \in ElementsAt(uv, 1, upTo(j))
    BY <2>3 DEF ElementsAt
  <2>5. uv[upTo(j)] \notin ElementsAt(uv, 1, upTo(i))
    BY <1>4, <2>3 DEF ElementsAt
  <2>6. ElementsAt(uv, 1, upTo(i)) \subseteq ElementsAt(uv, 1, upTo(j))
    BY <2>3 DEF ElementsAt
  <2> QED BY <2>4, <2>5, <2>6
<1> HIDE DEF upTo
<1> QED BY <1>3, <1>5 DEF BlocksGrow, E, ev

LEMMA SortedBlocksGrow ==
    ASSUME FormulaInv, existential_block_idx_end \in 0..getNofExistentialBlocks,
           BlocksGrow(existential_variables)
    PROVE  BlocksGrow(SortedBlocks)
<1> DEFINE E == getNofExistentialBlocks
           ev == existential_variables
           SB == SortedBlocks
<1>1. ASSUME NEW i \in 0..(E - 1), NEW p \in (EB(i) + 1)..EB(i + 1)
      PROVE  \E q \in (EB(i) + 1)..EB(i + 1) : SB[p] = ev[q]
  <2>1. EB(i) \in Nat /\ EB(i + 1) \in Nat /\ EB(i + 1) <= Len(ev)
    BY BlockFacts
  <2>2. p \in 1..Len(ev)
    <3>1. Len(ev) \in Nat
      BY FormulaFacts
    <3> QED BY <2>1, <3>1
  <2>3. i = BlockAt(p)
    BY <2>2, BlockAtFacts
  <2>4. \E q \in (EB(BlockAt(p)) + 1)..EB(BlockAt(p) + 1) : SB[p] = ev[q]
    BY <2>2, SortedBlocksFacts
  <2> QED BY <2>3, <2>4
<1>2. SUFFICES ASSUME NEW i \in 0..(E - 1), NEW j \in 0..(E - 1),
                      NEW p \in (EB(i) + 1)..EB(i + 1), NEW q \in (EB(j) + 1)..EB(j + 1)
               PROVE  /\ i = j => prefix[SB[p]] = prefix[SB[q]]
                      /\ i < j => prefix[SB[p]] \subseteq prefix[SB[q]] /\ prefix[SB[p]] # prefix[SB[q]]
  BY DEF BlocksGrow
<1>3. PICK a \in (EB(i) + 1)..EB(i + 1) : SB[p] = ev[a]
  BY <1>1
<1>4. PICK b \in (EB(j) + 1)..EB(j + 1) : SB[q] = ev[b]
  BY <1>1
<1> QED BY <1>3, <1>4 DEF BlocksGrow

\* In the sorted blocks a variable may read exactly the ones before it.
LEMMA ReadEarlier ==
    ASSUME FormulaInv, existential_block_idx_end \in 0..getNofExistentialBlocks,
           NEW l \in Seq(Existentials), Len(l) = Len(existential_variables), BlocksGrow(l), BlocksSorted(l),
           NEW p \in 1..EB(existential_block_idx_end), NEW q \in 1..EB(existential_block_idx_end)
    PROVE  MayRead(prefix, l[q], l[p]) <=> q < p
<1> DEFINE E == getNofExistentialBlocks
           m == Len(existential_variables)
           end == existential_block_idx_end
           i == BlockAt(p)
           j == BlockAt(q)
<1>1. /\ E \in Nat /\ m \in Nat /\ \A k \in 0..E : EB(k) \in 0..m
      /\ \A a, b \in 0..E : a < b => EB(a) < EB(b)
  BY FormulaFacts
<1>2. p \in 1..m /\ q \in 1..m
  <2>1. EB(end) \in 0..m
    BY <1>1
  <2> HIDE DEF m, end
  <2> QED BY <1>1, <2>1 DEF end
<1>3. /\ i \in 0..(E - 1) /\ p \in (EB(i) + 1)..EB(i + 1)
      /\ j \in 0..(E - 1) /\ q \in (EB(j) + 1)..EB(j + 1)
  BY <1>2, BlockAtFacts
<1>4. l[p] \in Nat /\ l[q] \in Nat
  BY <1>2, PrefixAssumption, ElementOfSeq
<1>5. end \in 0..E /\ p \in 1..EB(end) /\ q \in 1..EB(end)
  OBVIOUS
<1> HIDE DEF E, m, end, i, j
<1>6. ASSUME NEW k \in 0..(E - 1), NEW r \in 1..EB(end), r \in (EB(k) + 1)..EB(k + 1)
      PROVE  k \in 0..(end - 1)
  <2>1. /\ k \in 0..E /\ end \in 0..E /\ k \in Nat /\ end \in Nat /\ EB(k) \in Nat /\ EB(end) \in Nat
        /\ EB(k) < r /\ r <= EB(end)
    <3>1. k \in 0..E
      BY <1>1
    <3> QED BY <1>1, <1>5, <1>6, <3>1
  <2>2. ~(end = k) /\ ~(end < k)
    <3>1. end # k
      BY <2>1
    <3>2. ASSUME end < k PROVE FALSE
      <4>1. EB(end) < EB(k)
        BY <1>1, <2>1, <3>2
      <4> QED BY <2>1, <4>1
    <3> QED BY <3>1, <3>2
  <2> QED BY <2>1, <2>2
<1>7. i \in 0..(end - 1) /\ j \in 0..(end - 1)
  BY <1>3, <1>5, <1>6
\* A block before the other's ends before it begins.
<1>8. ASSUME NEW a \in 0..(E - 1), NEW b \in 0..(E - 1), a < b,
             NEW r \in (EB(a) + 1)..EB(a + 1), NEW s \in (EB(b) + 1)..EB(b + 1)
      PROVE  r < s
  <2>1. /\ a + 1 \in 0..E /\ b \in 0..E /\ a \in 0..E /\ b + 1 \in 0..E /\ a + 1 <= b
        /\ EB(a + 1) \in Nat /\ EB(b) \in Nat /\ EB(a) \in Nat /\ EB(b + 1) \in Nat
    BY <1>1, <1>8
  <2>2. EB(a + 1) <= EB(b)
    <3>1. CASE a + 1 = b
      BY <2>1, <3>1
    <3>2. CASE a + 1 < b
      <4>1. EB(a + 1) < EB(b)
        BY <1>1, <2>1, <3>2
      <4> QED BY <2>1, <4>1
    <3> QED BY <2>1, <3>1, <3>2
  <2> QED BY <1>8, <2>1, <2>2
<1>9. p \in Nat /\ q \in Nat /\ i \in Nat /\ j \in Nat
  BY <1>1, <1>2, <1>3
<1>10. CASE i = j
  <2>1. prefix[l[p]] = prefix[l[q]]
    BY <1>3, <1>10 DEF BlocksGrow, E
  <2>2. (p < q => l[p] < l[q]) /\ (q < p => l[q] < l[p])
    BY <1>3, <1>7, <1>10 DEF BlocksSorted, end
  <2>3. l[q] < l[p] <=> q < p
    BY <1>4, <1>9, <2>2
  <2> QED BY <2>1, <2>3 DEF MayRead
<1>11. CASE i < j
  <2>1. prefix[l[p]] \subseteq prefix[l[q]] /\ prefix[l[p]] # prefix[l[q]]
    BY <1>3, <1>11 DEF BlocksGrow, E
  <2>2. p < q
    BY <1>3, <1>8, <1>11
  <2>3. ~(q < p)
    BY <1>9, <2>2
  <2> QED BY <2>1, <2>3 DEF MayRead
<1>12. CASE j < i
  <2>1. prefix[l[q]] \subseteq prefix[l[p]] /\ prefix[l[q]] # prefix[l[p]]
    BY <1>3, <1>12 DEF BlocksGrow, E
  <2>2. q < p
    BY <1>3, <1>8, <1>12
  <2> QED BY <2>1, <2>2 DEF MayRead
<1> QED BY <1>9, <1>10, <1>11, <1>12

LEMMA UniversalsUpToFacts ==
    ASSUME FormulaInv, NEW k \in 0..getNofUniversalBlocks
    PROVE  LET u == universal_blocks[k + 1]
           IN  /\ u \in 0..Len(universal_variables)
               /\ UniversalsUpTo(k) = increasing(ElementsAt(universal_variables, 1, u))
               /\ UniversalsUpTo(k) \in Seq(Universals) /\ Len(UniversalsUpTo(k)) = u
               /\ ToSet(UniversalsUpTo(k)) = ElementsAt(universal_variables, 1, u)
               /\ IsInjective(UniversalsUpTo(k))
               /\ Sorted(UniversalsUpTo(k)) = UniversalsUpTo(k)
<1> DEFINE U == getNofUniversalBlocks
           n == Len(universal_variables)
           uv == universal_variables
           u == universal_blocks[k + 1]
<1>1. u \in 0..n
  <2>1. U \in Nat /\ \A j \in 1..(U + 1) : universal_blocks[j] \in 0..n
    BY FormulaFacts
  <2>2. k + 1 \in 1..(U + 1)
    BY <2>1
  <2> QED BY <2>1, <2>2
<1>2. uv \in Seq(Universals) /\ IsInjective(uv)
  BY DEF FormulaInv
<1>3. UniversalsUpTo(k) = Sorted(SubSeq(uv, 1, u))
  BY DEF UniversalsUpTo
<1> HIDE DEF u, uv, n
<1>4. /\ SubSeq(uv, 1, u) \in Seq(Universals) /\ IsInjective(SubSeq(uv, 1, u))
      /\ ToSet(SubSeq(uv, 1, u)) = ElementsAt(uv, 1, u) /\ Len(SubSeq(uv, 1, u)) = u
  BY <1>1, <1>2, ListStart DEF n, uv
<1>5. /\ Sorted(SubSeq(uv, 1, u)) \in Seq(Universals) /\ Len(Sorted(SubSeq(uv, 1, u))) = u
      /\ ToSet(Sorted(SubSeq(uv, 1, u))) = ElementsAt(uv, 1, u)
      /\ IsInjective(Sorted(SubSeq(uv, 1, u)))
      /\ Sorted(Sorted(SubSeq(uv, 1, u))) = Sorted(SubSeq(uv, 1, u))
  BY <1>4, ExtractorAssumption, SortedFacts
<1>6. Sorted(SubSeq(uv, 1, u)) = increasing(ElementsAt(uv, 1, u))
  BY <1>4 DEF Sorted
<1> QED BY <1>1, <1>3, <1>5, <1>6 DEF u, uv, n
\* Sorting the universal blocks keeps the universals.
LEMMA SortedUniversals ==
    ASSUME FormulaInv, NEW k \in 0..getNofUniversalBlocks
    PROVE  LET last == universal_blocks[k + 1]
               after == UniversalsUpTo(k)
                           \o SubSeq(universal_variables, last + 1, Len(universal_variables))
           IN  /\ after \in Seq(Universals) /\ IsInjective(after)
               /\ Len(after) = Len(universal_variables)
               /\ ToSet(after) = ToSet(universal_variables)
<1> DEFINE n == Len(universal_variables)
           uv == universal_variables
           last == universal_blocks[k + 1]
           rest == SubSeq(uv, last + 1, n)
<1>1. /\ last \in 0..n
      /\ UniversalsUpTo(k) \in Seq(Universals) /\ Len(UniversalsUpTo(k)) = last
      /\ ToSet(UniversalsUpTo(k)) = ElementsAt(uv, 1, last)
      /\ IsInjective(UniversalsUpTo(k))
  BY UniversalsUpToFacts
<1>2. n \in Nat /\ DOMAIN uv = 1..n /\ uv \in Seq(Universals)
      /\ \A p, q \in 1..n : uv[p] = uv[q] => p = q
  <2>1. n \in Nat /\ DOMAIN uv = 1..n
    BY FormulaFacts
  <2> QED BY <2>1 DEF FormulaInv, IsInjective
<1>3. \A p \in 1..n : uv[p] \in Universals
  BY <1>2, ElementOfSeq
<1> HIDE DEF n, uv, last
<1>4. /\ rest \in Seq(Universals) /\ Len(rest) = n - last
      /\ \A q \in 1..(n - last) : rest[q] = uv[last + q]
  <2>1. \A q \in (last + 1)..n : uv[q] \in Universals
    BY <1>1, <1>2, <1>3
  <2>2. /\ rest \in Seq(Universals) /\ Len(rest) = IF last + 1 <= n THEN n - (last + 1) + 1 ELSE 0
        /\ \A q \in 1..(n - (last + 1) + 1) : rest[q] = uv[(last + 1) + q - 1]
    BY <1>1, <1>2, <2>1, SubSeqProperties
  <2>3. (IF last + 1 <= n THEN n - (last + 1) + 1 ELSE 0) = n - last
        /\ n - (last + 1) + 1 = n - last /\ \A q \in 1..(n - last) : (last + 1) + q - 1 = last + q
    BY <1>1, <1>2
  <2> HIDE DEF rest
  <2> QED BY <2>2, <2>3
<1> HIDE DEF rest
<1>5. DOMAIN rest = 1..(n - last)
  BY <1>4, LenProperties
<1>6. IsInjective(rest)
  <2>1. \A q \in 1..(n - last) : last + q \in 1..n
    BY <1>1, <1>2
  <2>2. \A p, q \in 1..(n - last) : rest[p] = rest[q] => last + p = last + q
    BY <1>2, <1>4, <2>1
  <2>3. \A p, q \in 1..(n - last) : last + p = last + q => p = q
    BY <1>1, <1>2
  <2> QED BY <1>5, <2>2, <2>3 DEF IsInjective
<1>7. ToSet(rest) = ElementsAt(uv, last + 1, n)
  <2>1. ToSet(rest) = {rest[q] : q \in 1..(n - last)}
    BY <1>5 DEF ToSet
  <2>2. \A q \in 1..(n - last) : last + q \in (last + 1)..n
    BY <1>1, <1>2
  <2>3. \A p \in (last + 1)..n : p - last \in 1..(n - last) /\ last + (p - last) = p
    BY <1>1, <1>2
  <2>4. ToSet(rest) \subseteq ElementsAt(uv, last + 1, n)
    BY <1>4, <2>1, <2>2 DEF ElementsAt
  <2>5. ElementsAt(uv, last + 1, n) \subseteq ToSet(rest)
    BY <1>4, <2>1, <2>3 DEF ElementsAt
  <2> QED BY <2>4, <2>5
<1>8. ToSet(uv) = ElementsAt(uv, 1, last) \cup ElementsAt(uv, last + 1, n)
  <2>1. 1..n = (1..last) \cup ((last + 1)..n)
    BY <1>1, <1>2
  <2> QED BY <1>2, <2>1 DEF ElementsAt, ToSet
<1>9. ElementsAt(uv, 1, last) \cap ElementsAt(uv, last + 1, n) = {}
  <2>1. \A p \in 1..last, q \in (last + 1)..n : p \in 1..n /\ q \in 1..n /\ p # q
    BY <1>1, <1>2
  <2> QED BY <1>2, <2>1 DEF ElementsAt
<1>10. /\ UniversalsUpTo(k) \o rest \in Seq(Universals) /\ IsInjective(UniversalsUpTo(k) \o rest)
       /\ Len(UniversalsUpTo(k) \o rest) = Len(UniversalsUpTo(k)) + Len(rest)
       /\ ToSet(UniversalsUpTo(k) \o rest) = ToSet(UniversalsUpTo(k)) \cup ToSet(rest)
  <2>1. ToSet(UniversalsUpTo(k)) \cap ToSet(rest) = {}
    BY <1>1, <1>7, <1>9
  <2> DEFINE u == UniversalsUpTo(k)
  <2>2. u \in Seq(Universals) /\ rest \in Seq(Universals) /\ IsInjective(u) /\ IsInjective(rest)
        /\ ToSet(u) \cap ToSet(rest) = {}
    BY <1>1, <1>4, <1>6, <2>1
  <2> HIDE DEF u
  <2>3. /\ u \o rest \in Seq(Universals) /\ IsInjective(u \o rest)
        /\ Len(u \o rest) = Len(u) + Len(rest)
        /\ ToSet(u \o rest) = ToSet(u) \cup ToSet(rest)
    BY <2>2, ListsJoin
  <2> QED BY <2>3 DEF u
<1>11. Len(UniversalsUpTo(k) \o rest) = n
  BY <1>1, <1>2, <1>4, <1>10
<1> QED BY <1>1, <1>7, <1>8, <1>10, <1>11 DEF n, uv, last, rest

LEMMA EndIndex ==
    ASSUME FormulaInv, existential_block_idx_end \in 0..getNofExistentialBlocks
    PROVE  UniversalIndex(existential_block_idx_end) \in 0..getNofUniversalBlocks
<1> DEFINE U == getNofUniversalBlocks
           end == existential_block_idx_end
<1>1. U \in Nat /\ getNofExistentialBlocks \in Nat
  BY FormulaFacts
<1>2. UniversalIndex(end) = LET index == IF first_block_type THEN end + 1 ELSE end
                            IN  IF index < U THEN index ELSE U
  BY DEF UniversalIndex
<1>3. end \in Nat
  BY <1>1
<1> HIDE DEF U, end
<1>4. UniversalIndex(end) \in 0..U
  BY <1>1, <1>2, <1>3
<1> QED BY <1>4 DEF U, end

LEMMA ImplicitKeepsBlocks ==
    ASSUME BlocksInv, existential_block_idx_end \in 0..getNofExistentialBlocks,
           phase = "reading", universal_variables # <<>>, ExtractImplicit
    PROVE  /\ BlocksInv' /\ BlocksGrow(existential_variables)'
           /\ setting.extended => BlocksSorted(existential_variables)'
           /\ existential_variables' = SortedBlocks /\ universal_variables' # <<>>
<1> DEFINE E == getNofExistentialBlocks
           m == Len(existential_variables)
           ev == existential_variables
           SB == SortedBlocks
<1>1. /\ existential_variables' = SB
      /\ universal_variables' = UniversalsUpTo(UniversalIndex(existential_block_idx_end))
            \o SubSeq(universal_variables,
                      universal_blocks[UniversalIndex(existential_block_idx_end) + 1] + 1,
                      Len(universal_variables))
      /\ phase' = "explicit"
      /\ UNCHANGED <<setting, first_block_type, universal_blocks, existential_blocks,
                     explicit_dependencies, prefix, lastBlock, processed>>
  BY DEF ExtractImplicit, ImplicitDependencies, meaningVars
<1>2. /\ universal_variables' \in Seq(Universals) /\ IsInjective(universal_variables')
      /\ Len(universal_variables') = Len(universal_variables)
      /\ ToSet(universal_variables') = ToSet(universal_variables)
  BY <1>1, EndIndex, SortedUniversals DEF BlocksInv
<1>3. /\ SB \in Seq(Existentials) /\ Len(SB) = m /\ DOMAIN SB = 1..m /\ IsInjective(SB)
      /\ \A p \in 1..m :
            /\ \E q \in (EB(BlockAt(p)) + 1)..EB(BlockAt(p) + 1) : SB[p] = ev[q]
            /\ \E q \in (EB(BlockAt(p)) + 1)..EB(BlockAt(p) + 1) : ev[p] = SB[q]
      /\ setting.extended => BlocksSorted(SB)
  BY SortedBlocksFacts DEF BlocksInv, BlocksSorted
<1>4. BlocksGrow(SB)
  BY ReadBlocksGrow, SortedBlocksGrow DEF BlocksInv
<1>5. /\ BlocksGrow(existential_variables)'
      /\ setting.extended => BlocksSorted(existential_variables)'
  <2>1. /\ getNofExistentialBlocks' = getNofExistentialBlocks /\ \A i : EB(i)' = EB(i)
        /\ existential_block_idx_end' = existential_block_idx_end
    BY <1>1 DEF getNofExistentialBlocks, EB, existential_block_idx_end, lastBlockType
  <2> HIDE DEF SB
  <2>2. BlocksGrow(existential_variables)'
    BY <1>1, <1>4, <2>1 DEF BlocksGrow
  <2>3. setting.extended => BlocksSorted(existential_variables)'
    BY <1>1, <1>3, <2>1 DEF BlocksSorted
  <2> QED BY <2>2, <2>3
<1>6. /\ E \in Nat /\ m \in Nat /\ DOMAIN ev = 1..m /\ EB(E) = m /\ \A k \in 0..E : EB(k) \in 0..m
  BY FormulaFacts DEF BlocksInv
<1>7. \A p \in 1..m : BlockAt(p) \in 0..(E - 1) /\ p \in (EB(BlockAt(p)) + 1)..EB(BlockAt(p) + 1)
                      /\ \A i \in 0..(E - 1) : p \in (EB(i) + 1)..EB(i + 1) => i = BlockAt(p)
  BY BlockAtFacts DEF BlocksInv
<1>8. \A i \in 0..(E - 1) : \A p \in (EB(i) + 1)..EB(i + 1) : p \in 1..m
  <2> SUFFICES ASSUME NEW i \in 0..(E - 1), NEW p \in (EB(i) + 1)..EB(i + 1) PROVE p \in 1..m
    OBVIOUS
  <2>1. EB(i) \in Nat /\ EB(i + 1) \in Nat /\ EB(i + 1) <= m
    BY BlockFacts DEF BlocksInv
  <2> HIDE DEF m
  <2> QED BY <1>6, <2>1
<1>9. \A i \in 0..(E - 1) : ElementsAt(SB, EB(i) + 1, EB(i + 1)) = ElementsAt(ev, EB(i) + 1, EB(i + 1))
  BY <1>3, <1>7, <1>8 DEF ElementsAt
<1>10. ToSet(SB) = ToSet(ev)
  <2>1. \A p \in 1..m : SB[p] \in ToSet(ev)
    BY <1>3, <1>6, <1>7, <1>8 DEF ToSet
  <2>2. \A p \in 1..m : ev[p] \in ToSet(SB)
    BY <1>3, <1>7, <1>8 DEF ToSet
  <2> QED BY <1>3, <1>6, <2>1, <2>2 DEF ToSet
<1> HIDE DEF SB
<1>11. FormulaInv'
  <2>1. BlockEnds(universal_blocks, Len(universal_variables))' /\ BlockEnds(existential_blocks, Len(existential_variables))'
    BY <1>1, <1>2, <1>3 DEF BlocksInv, FormulaInv
  <2>2. lastBlock' = IF E > 0 /\ ~lastBlockType(first_block_type)
                     THEN ElementsAt(SB, EB(E - 1) + 1, EB(E)) ELSE {}
    <3>1. lastBlock = IF E > 0 /\ ~lastBlockType(first_block_type)
                      THEN ElementsAt(ev, EB(E - 1) + 1, EB(E)) ELSE {}
      BY DEF BlocksInv, FormulaInv
    <3>2. E > 0 => E - 1 \in 0..(E - 1) /\ (E - 1) + 1 = E
      BY <1>6
    <3> QED BY <1>1, <1>9, <3>1, <3>2
  <2>3. /\ first_block_type' \in BOOLEAN
        /\ Alternate(first_block_type, getNofUniversalBlocks, getNofExistentialBlocks)'
    BY <1>1 DEF BlocksInv, FormulaInv, getNofUniversalBlocks, getNofExistentialBlocks
  <2>4. lastBlock' = (IF getNofExistentialBlocks > 0 /\ ~lastBlockType(first_block_type)
                      THEN ElementsAt(existential_variables, EB(getNofExistentialBlocks - 1) + 1,
                                      EB(getNofExistentialBlocks))
                      ELSE {})'
    BY <1>1, <2>2 DEF getNofExistentialBlocks, EB, lastBlockType
  <2> QED BY <1>1, <1>2, <1>3, <2>1, <2>3, <2>4 DEF FormulaInv
<1>12. ExplicitsInv'
  BY <1>1, <1>2, <1>10 DEF BlocksInv, ExplicitsInv
<1>13. ReadingInv'
  BY <1>1 DEF ReadingInv
<1>14. universal_variables' # <<>>
  BY <1>2, EmptySeq DEF BlocksInv, FormulaInv
<1> QED BY <1>1, <1>5, <1>11, <1>12, <1>13, <1>14 DEF BlocksInv, SB
\* The positions of the first k blocks.
LEMMA EarlyBlocks ==
    ASSUME FormulaInv, NEW k \in 0..getNofExistentialBlocks, NEW p \in 1..EB(k)
    PROVE  /\ p \in 1..Len(existential_variables)
           /\ BlockAt(p) \in 0..(k - 1) /\ BlockAt(p) \in 0..(getNofExistentialBlocks - 1)
           /\ EB(BlockAt(p) + 1) <= EB(k)
<1> DEFINE E == getNofExistentialBlocks
           m == Len(existential_variables)
           i == BlockAt(p)
<1>1. /\ E \in Nat /\ m \in Nat /\ \A j \in 0..E : EB(j) \in 0..m
      /\ \A a, b \in 0..E : a < b => EB(a) < EB(b)
  BY FormulaFacts
<1>2. k \in 0..E /\ EB(k) \in 0..m
  BY <1>1
<1> HIDE DEF E, m
<1>3. p \in 1..m
  BY <1>1, <1>2
<1>4. i \in 0..(E - 1) /\ p \in (EB(i) + 1)..EB(i + 1)
  BY <1>3, BlockAtFacts DEF E, m
<1> HIDE DEF i
<1>5. /\ i \in 0..E /\ i + 1 \in 0..E /\ i \in Nat /\ k \in Nat /\ p \in Nat
      /\ EB(i) \in Nat /\ EB(i + 1) \in Nat /\ EB(k) \in Nat /\ EB(i) < p /\ p <= EB(k)
  <2>1. i \in 0..E /\ i + 1 \in 0..E
    BY <1>1, <1>4
  <2> QED BY <1>1, <1>2, <1>3, <1>4, <2>1
<1>6. i < k
  <2>1. i # k
    BY <1>5
  <2>2. ASSUME k < i PROVE FALSE
    <3>1. EB(k) < EB(i)
      BY <1>1, <1>2, <1>5, <2>2
    <3> QED BY <1>5, <3>1
  <2> QED BY <1>5, <2>1, <2>2
<1>7. EB(i + 1) <= EB(k)
  <2>1. CASE i + 1 = k
    BY <1>5, <2>1
  <2>2. CASE i + 1 < k
    <3>1. EB(i + 1) < EB(k)
      BY <1>1, <1>2, <1>5, <2>2
    <3> QED BY <1>5, <3>1
  <2> QED BY <1>5, <1>6, <2>1, <2>2
<1> QED BY <1>3, <1>4, <1>5, <1>6, <1>7 DEF E, m, i

--------------------------------------------------------------------------------
(***************************************************************************)
(* The dependencies while the explicit ones are added.                     *)
(***************************************************************************)
\* The variables in blocks that get dependencies.
Implicit == ElementsAt(existential_variables, 1, EB(existential_block_idx_end))

\* A list of what e may read among the variables that are known.
ListsReads(l, e, known) ==
    /\ l \in Seq(Nat) /\ IsInjective(l)
    /\ ToSet(l) = (prefix[e] \cup {d \in Existentials : MayRead(prefix, d, e)}) \cap (Universals \cup known)

ExtendedInv ==
    /\ DOMAIN extended_dependencies = DOMAIN original_dependency_map
    /\ \A e \in DOMAIN original_dependency_map :
          ListsReads(extended_dependencies[e], e, DOMAIN original_dependency_map)
    /\ existential_block_idx_end < getNofExistentialBlocks =>
          \A v \in processed, e \in Implicit : ~ (prefix[v] \subseteq prefix[e])

ExplicitInv ==
    phase = "explicit" =>
        /\ Unread = {} /\ universal_variables # <<>>
        /\ BlocksGrow(existential_variables)
        /\ setting.extended => BlocksSorted(existential_variables)
        /\ processed \subseteq DOMAIN explicit_dependencies
        /\ DOMAIN original_dependency_map = Implicit \cup processed
        /\ \A e \in Implicit : original_dependency_map[e] = increasing(prefix[e])
        /\ \A e \in processed :
              original_dependency_map[e] = IF setting.extended THEN Sorted(explicit_dependencies[e])
                                                               ELSE explicit_dependencies[e]
        /\ setting.extended => ExtendedInv

\* The first blocks have the same variables after sorting.
LEMMA SortedImplicit ==
    ASSUME FormulaInv, existential_block_idx_end \in 0..getNofExistentialBlocks
    PROVE  ElementsAt(SortedBlocks, 1, EB(existential_block_idx_end)) = Implicit
<1> DEFINE end == existential_block_idx_end
           ev == existential_variables
           SB == SortedBlocks
           x == EB(end)
<1>1. \A p \in 1..x :
         /\ p \in 1..Len(ev) /\ BlockAt(p) \in 0..(getNofExistentialBlocks - 1)
         /\ EB(BlockAt(p) + 1) <= x
  BY EarlyBlocks
<1>2. \A p \in 1..Len(ev) :
         /\ \E q \in (EB(BlockAt(p)) + 1)..EB(BlockAt(p) + 1) : SB[p] = ev[q]
         /\ \E q \in (EB(BlockAt(p)) + 1)..EB(BlockAt(p) + 1) : ev[p] = SB[q]
  BY SortedBlocksFacts
<1>3. \A i \in 0..(getNofExistentialBlocks - 1) : EB(i) \in Nat /\ EB(i + 1) \in Nat
  BY BlockFacts
<1>4. x \in Nat
  BY FormulaFacts
<1> HIDE DEF end, ev, SB, x
<1>5. \A p \in 1..x : \A q \in (EB(BlockAt(p)) + 1)..EB(BlockAt(p) + 1) : q \in 1..x
  <2> SUFFICES ASSUME NEW p \in 1..x, NEW q \in (EB(BlockAt(p)) + 1)..EB(BlockAt(p) + 1)
               PROVE  q \in 1..x
    OBVIOUS
  <2>1. EB(BlockAt(p)) \in Nat /\ EB(BlockAt(p) + 1) \in Nat /\ EB(BlockAt(p) + 1) <= x
    BY <1>1, <1>3
  <2> QED BY <1>4, <2>1
<1>6. ElementsAt(SB, 1, x) = ElementsAt(ev, 1, x)
  <2>1. \A p \in 1..x : \E q \in 1..x : SB[p] = ev[q]
    BY <1>1, <1>2, <1>5
  <2>2. \A p \in 1..x : \E q \in 1..x : ev[p] = SB[q]
    BY <1>1, <1>2, <1>5
  <2>3. ElementsAt(SB, 1, x) \subseteq ElementsAt(ev, 1, x)
    BY <2>1, Zenon DEF ElementsAt
  <2>4. ElementsAt(ev, 1, x) \subseteq ElementsAt(SB, 1, x)
    BY <2>2, Zenon DEF ElementsAt
  <2> QED BY <2>3, <2>4
<1> QED BY <1>6 DEF Implicit, SB, ev, x, end

\* What is computed for a variable in a block.
LEMMA ImplicitEntries ==
    ASSUME BlocksInv, existential_block_idx_end \in 0..getNofExistentialBlocks,
           phase = "reading", NEW p \in 1..EB(existential_block_idx_end)
    PROVE  LET e == SortedBlocks[p]
               universals == UniversalsUpTo(UniversalIndex(BlockAt(p)))
           IN  /\ (CHOOSE q \in DOMAIN SortedBlocks : SortedBlocks[q] = e) = p
               /\ universals = increasing(prefix[e])
               /\ setting.extended => ListsReads(universals \o SubSeq(SortedBlocks, 1, p - 1), e, Implicit)
<1> DEFINE end == existential_block_idx_end
           ev == existential_variables
           uv == universal_variables
           SB == SortedBlocks
           E == getNofExistentialBlocks
           m == Len(ev)
           x == EB(end)
           i == BlockAt(p)
           e == SB[p]
           index == UniversalIndex(i)
           universals == UniversalsUpTo(index)
           before == SubSeq(SB, 1, p - 1)
<1>1. FormulaInv /\ ExplicitsInv /\ ReadingInv
  BY DEF BlocksInv
<1>2. p \in 1..m /\ i \in 0..(E - 1)
  BY <1>1, EarlyBlocks
<1>3. /\ SB \in Seq(Existentials) /\ Len(SB) = m /\ DOMAIN SB = 1..m /\ IsInjective(SB)
      /\ \E q \in (EB(i) + 1)..EB(i + 1) : e = ev[q]
      /\ setting.extended => BlocksSorted(SB)
  BY <1>1, <1>2, SortedBlocksFacts DEF BlocksSorted
<1>4. BlocksGrow(SB)
  BY <1>1, ReadBlocksGrow, SortedBlocksGrow
<1>5. (CHOOSE q \in DOMAIN SB : SB[q] = e) = p
  <2>1. \A q \in DOMAIN SB : SB[q] = SB[p] => q = p
    BY <1>2, <1>3 DEF IsInjective
  <2> HIDE DEF SB
  <2> QED BY <1>2, <1>3, <2>1
<1>6. prefix[e] = ElementsAt(uv, 1, universal_blocks[index + 1])
  BY <1>1, <1>2, <1>3 DEF ReadingInv
<1>7. index \in 0..getNofUniversalBlocks
  BY <1>1, <1>2, IndexFacts
<1>8. /\ universals = increasing(prefix[e]) /\ universals \in Seq(Universals)
      /\ ToSet(universals) = prefix[e] /\ IsInjective(universals)
  BY <1>1, <1>6, <1>7, UniversalsUpToFacts
<1>9. ASSUME setting.extended PROVE ListsReads(universals \o before, e, Implicit)
  <2>0. m \in Nat /\ x \in Nat /\ p \in 1..x /\ x <= m
    <3>1. m \in Nat /\ EB(end) \in 0..m
      BY <1>1, FormulaFacts
    <3> HIDE DEF m, x, end
    <3>2. x \in 0..m /\ p \in 1..x
      BY <3>1 DEF x, end
    <3> QED BY <3>1, <3>2
  <2> HIDE DEF SB, m, E, x
  <2>1. p - 1 \in 0..Len(SB)
    BY <1>2, <1>3, <2>0
  <2>2. /\ before \in Seq(Existentials) /\ IsInjective(before)
        /\ ToSet(before) = ElementsAt(SB, 1, p - 1) /\ ToSet(before) \subseteq ToSet(SB)
    BY <1>3, <2>1, ListStart
  <2> HIDE DEF universals, before, e
  <2>3. universals \in Seq(Nat) /\ before \in Seq(Nat)
    BY <1>8, <2>2, PrefixAssumption, ExtractorAssumption, SeqMonotonic
  <2>4. ToSet(universals) \subseteq Universals /\ ToSet(before) \subseteq Existentials
    BY <1>8, <2>2, ListFacts
  <2>5. ToSet(universals) \cap ToSet(before) = {}
    BY <2>4, PrefixAssumption
  <2>6. /\ universals \o before \in Seq(Nat) /\ IsInjective(universals \o before)
        /\ ToSet(universals \o before) = ToSet(universals) \cup ToSet(before)
    BY <1>8, <2>2, <2>3, <2>5, ListsJoin
  <2>7. Implicit = ElementsAt(SB, 1, x)
    BY <1>1, SortedImplicit DEF SB, x, end
  <2>8. \A q \in 1..x : MayRead(prefix, SB[q], e) <=> q < p
    BY <1>1, <1>3, <1>4, <1>9, <2>0, ReadEarlier DEF x, end, e, m
  <2>9. \A q \in 1..x : SB[q] \in Existentials
    BY <1>3, <2>0, ElementOfSeq
  <2>10. ElementsAt(SB, 1, p - 1) = {d \in Existentials : MayRead(prefix, d, e)} \cap Implicit
    <3>1. \A q \in 1..x : q \in 1..(p - 1) <=> q < p
      BY <2>0
    <3>2. \A q \in 1..(p - 1) : q \in 1..x
      BY <2>0
    <3> QED BY <2>7, <2>8, <2>9, <3>1, <3>2 DEF ElementsAt
  <2>11. Implicit \subseteq Existentials
    BY <2>7, <2>9 DEF ElementsAt
  <2>12. ToSet(universals \o before)
            = (prefix[e] \cup {d \in Existentials : MayRead(prefix, d, e)}) \cap (Universals \cup Implicit)
    BY <1>8, <2>2, <2>4, <2>6, <2>10, <2>11, PrefixAssumption
  <2> QED BY <2>6, <2>12 DEF ListsReads
<1> QED BY <1>5, <1>8, <1>9 DEF SB, e, universals, before, i, index
LEMMA ImplicitStep ==
    ASSUME BlocksInv, existential_block_idx_end \in 0..getNofExistentialBlocks,
           setting \in ExtractorSettings,
           phase = "reading", universal_variables # <<>>, ExtractImplicit
    PROVE  BlocksInv' /\ ExplicitInv'
<1> DEFINE end == existential_block_idx_end
           SB == SortedBlocks
           x == EB(end)
           place(e) == CHOOSE q \in DOMAIN SB : SB[q] = e
           universals(e) == UniversalsUpTo(UniversalIndex(BlockAt(place(e))))
           before(e) == SubSeq(SB, 1, place(e) - 1)
<1>1. /\ BlocksInv' /\ BlocksGrow(existential_variables)'
      /\ setting.extended => BlocksSorted(existential_variables)'
      /\ existential_variables' = SB /\ universal_variables' # <<>>
  BY ImplicitKeepsBlocks
<1>2. /\ Unread = {}
      /\ original_dependency_map' = [e \in {existential_variables[p] : p \in 1..x} |-> universals(e)]
      /\ extended_dependencies'
            = [e \in Extended({existential_variables[p] : p \in 1..x}) |-> universals(e) \o before(e)]
      /\ phase' = "explicit"
      /\ UNCHANGED <<setting, first_block_type, universal_blocks, existential_blocks,
                     explicit_dependencies, prefix, processed>>
  BY DEF ExtractImplicit, ImplicitDependencies, meaningVars
<1>3. {existential_variables[p] : p \in 1..x} = Implicit
  BY DEF Implicit, ElementsAt
<1>4. Implicit = ElementsAt(SB, 1, x)
  BY SortedImplicit DEF BlocksInv
<1>5. \A p \in 1..x :
          /\ place(SB[p]) = p
          /\ UniversalsUpTo(UniversalIndex(BlockAt(p))) = increasing(prefix[SB[p]])
          /\ setting.extended =>
                ListsReads(UniversalsUpTo(UniversalIndex(BlockAt(p))) \o SubSeq(SB, 1, p - 1), SB[p], Implicit)
  BY ImplicitEntries
<1>6. /\ getNofExistentialBlocks' = getNofExistentialBlocks /\ \A i : EB(i)' = EB(i)
      /\ end' = end
  BY <1>2 DEF getNofExistentialBlocks, EB, existential_block_idx_end, lastBlockType
<1> HIDE DEF SB, place
<1>7. \A e \in Implicit :
          /\ universals(e) = increasing(prefix[e])
          /\ setting.extended => ListsReads(universals(e) \o before(e), e, Implicit)
  <2> TAKE e \in Implicit
  <2>1. PICK p \in 1..x : e = SB[p]
    BY <1>4 DEF ElementsAt
  <2> QED BY <1>5, <2>1
<1> HIDE DEF universals, before
<1>8. Implicit' = Implicit
  <2>1. x' = x
    BY <1>6
  <2>2. Implicit' = ElementsAt(SB, 1, x)
    BY <1>1, <2>1 DEF Implicit, ElementsAt
  <2> QED BY <1>4, <2>2
<1>9. processed' = {}
  BY <1>2 DEF BlocksInv, ReadingInv
<1>10. DOMAIN original_dependency_map' = Implicit
       /\ \A e \in Implicit : original_dependency_map'[e] = increasing(prefix[e])
  BY <1>2, <1>3, <1>7
<1>11. ASSUME setting.extended PROVE ExtendedInv'
  <2>1. extended_dependencies' = [e \in Implicit |-> universals(e) \o before(e)]
    BY <1>2, <1>3, <1>11 DEF Extended
  <2>2. \A e \in Implicit : ListsReads(extended_dependencies'[e], e, Implicit)
    BY <1>7, <1>11, <2>1
  <2>3. ASSUME NEW e \in Implicit
        PROVE  ListsReads(extended_dependencies[e], e, DOMAIN original_dependency_map)'
    <3>1. ListsReads(extended_dependencies'[e], e, DOMAIN original_dependency_map')
      BY <1>10, <2>2
    <3> QED BY <1>2, <3>1 DEF ListsReads, MayRead
  <2>4. DOMAIN extended_dependencies' = DOMAIN original_dependency_map'
    BY <1>10, <2>1
  <2>5. \A e \in DOMAIN original_dependency_map' :
           ListsReads(extended_dependencies[e], e, DOMAIN original_dependency_map)'
    BY <1>10, <2>3
  <2> QED BY <1>9, <2>4, <2>5 DEF ExtendedInv
<1>12. Unread' = {}
  BY <1>2 DEF Unread
<1> QED BY <1>1, <1>2, <1>8, <1>9, <1>10, <1>11, <1>12 DEF ExplicitInv
--------------------------------------------------------------------------------
(***************************************************************************)
(* A variable with explicit dependencies among the blocks.                 *)
(***************************************************************************)
\* Where something holds from some index on there is a first one.
LEMMA Threshold ==
    ASSUME NEW n \in Nat, NEW S \in SUBSET (0..(n - 1)), \A i \in S, j \in 0..(n - 1) : i <= j => j \in S
    PROVE  \E first \in 0..n : \A i \in 0..(n - 1) : i \in S <=> i >= first
<1>1. CASE S = {}
  <2>1. n \in 0..n /\ \A i \in 0..(n - 1) : ~(i >= n)
    OBVIOUS
  <2> QED BY <1>1, <2>1
<1>2. CASE S # {}
  <2>1. S \in SUBSET Nat
    OBVIOUS
  <2>2. PICK first \in S : \A i \in S : first <= i
    BY <1>2, <2>1, SmallestNumber
  <2>3. first \in 0..n /\ first \in 0..(n - 1)
    OBVIOUS
  <2>4. ASSUME NEW i \in 0..(n - 1) PROVE i \in S <=> i >= first
    BY <2>2, <2>3
  <2> QED BY <2>3, <2>4
<1> QED BY <1>1, <1>2

\* k blocks have at least k variables.
LEMMA EndsCount ==
    ASSUME FormulaInv
    PROVE  \A k \in 0..getNofExistentialBlocks : EB(k) >= k
<1> DEFINE E == getNofExistentialBlocks
           S == {k \in 0..E : EB(k) >= k}
<1>1. /\ E \in Nat /\ \A k \in 0..E : EB(k) \in Nat
      /\ \A j, k \in 0..E : j < k => EB(j) < EB(k)
      /\ EB(0) = 0
  BY FormulaFacts
<1> HIDE DEF E
<1>2. 0 \in S
  BY <1>1
<1>3. ASSUME NEW k \in 1..E, k - 1 \in S PROVE k \in S
  <2>1. k \in 0..E /\ k - 1 \in 0..E /\ k - 1 < k /\ EB(k - 1) >= k - 1
    BY <1>1, <1>3
  <2>2. EB(k - 1) < EB(k) /\ EB(k) \in Nat /\ EB(k - 1) \in Nat
    BY <1>1, <2>1
  <2> QED BY <1>1, <2>1, <2>2
<1>4. \A k \in 0..E : k \in S
  <2> HIDE DEF S
  <2> QED BY <1>1, <1>2, <1>3, CountUp
<1> QED BY <1>4 DEF E

\* The dependencies of the variables in block i.
depsOf(i) == prefix[existential_variables[EB(i) + 1]]

LEMMA ImplicitBlocks ==
    ASSUME BlocksInv, ExplicitInv, phase = "explicit",
           existential_block_idx_end \in 0..getNofExistentialBlocks
    PROVE  LET end == existential_block_idx_end IN
           /\ \A i \in 0..(end - 1) :
                 /\ depsOf(i) \subseteq Universals
                 /\ EB(i) + 1 \in 1..EB(end) /\ EB(i + 1) \in 1..EB(end) /\ EB(i) < EB(i + 1)
                 /\ BlockDependencies(i) = increasing(depsOf(i))
           /\ \A i, j \in 0..(end - 1) : i < j => depsOf(i) \subseteq depsOf(j) /\ depsOf(i) # depsOf(j)
           /\ \A p \in 1..EB(end) :
                 /\ BlockAt(p) \in 0..(end - 1)
                 /\ p \in (EB(BlockAt(p)) + 1)..EB(BlockAt(p) + 1)
                 /\ prefix[existential_variables[p]] = depsOf(BlockAt(p))
                 /\ \A k \in 0..end : p <= EB(k) <=> BlockAt(p) < k
<1> DEFINE end == existential_block_idx_end
           E == getNofExistentialBlocks
           ev == existential_variables
           m == Len(ev)
           x == EB(end)
<1>1. /\ E \in Nat /\ m \in Nat /\ \A j \in 0..E : EB(j) \in 0..m
      /\ \A a, b \in 0..E : a < b => EB(a) < EB(b)
      /\ DOMAIN ev = 1..m
  BY FormulaFacts DEF BlocksInv
<1>2. end \in 0..E
  OBVIOUS
<1>3. /\ BlocksGrow(ev)
      /\ DOMAIN original_dependency_map = Implicit \cup processed
      /\ \A e \in Implicit : original_dependency_map[e] = increasing(prefix[e])
  BY DEF ExplicitInv
<1>4. \A p \in 1..m : BlockAt(p) \in 0..(E - 1) /\ p \in (EB(BlockAt(p)) + 1)..EB(BlockAt(p) + 1)
  BY BlockAtFacts DEF BlocksInv
<1>5. \A k \in 0..E : \A p \in 1..EB(k) :
          BlockAt(p) \in 0..(k - 1) /\ p \in 1..m /\ EB(BlockAt(p) + 1) <= EB(k)
  BY EarlyBlocks DEF BlocksInv
<1> HIDE DEF end, E, m, ev, x
<1>6. \A j, k \in 0..E : j <= k => EB(j) <= EB(k)
  <2> SUFFICES ASSUME NEW j \in 0..E, NEW k \in 0..E, j <= k PROVE EB(j) <= EB(k)
    OBVIOUS
  <2>1. EB(j) \in Nat /\ EB(k) \in Nat
    BY <1>1
  <2>2. CASE j = k
    BY <2>1, <2>2
  <2>3. CASE j < k
    <3>1. EB(j) < EB(k)
      BY <1>1, <2>3
    <3> QED BY <2>1, <3>1
  <2> QED BY <1>1, <2>2, <2>3
<1>7. \A i \in 0..(end - 1) : i \in 0..E /\ i + 1 \in 0..E /\ i \in 0..(E - 1) /\ i + 1 <= end /\ i < i + 1
  BY <1>1, <1>2
<1>8. \A i \in 0..(end - 1) :
         /\ EB(i) \in Nat /\ EB(i + 1) \in Nat
         /\ EB(i) + 1 \in 1..x /\ EB(i + 1) \in 1..x /\ EB(i) < EB(i + 1)
         /\ EB(i) + 1 \in (EB(i) + 1)..EB(i + 1)
  <2> TAKE i \in 0..(end - 1)
  <2>1. EB(i) \in Nat /\ EB(i + 1) \in Nat /\ EB(i) < EB(i + 1) /\ EB(i + 1) <= x /\ x \in Nat
    BY <1>1, <1>2, <1>6, <1>7 DEF x
  <2> QED BY <2>1
<1>9. x \in 0..m
  BY <1>1, <1>2 DEF x
<1>10. ASSUME NEW i \in 0..(end - 1)
       PROVE  depsOf(i) \subseteq Universals /\ BlockDependencies(i) = increasing(depsOf(i))
  <2>1. ev[EB(i) + 1] \in Implicit
    BY <1>8 DEF Implicit, ElementsAt, x, end, ev
  <2>2. EB(i) + 1 \in 1..m
    BY <1>1, <1>8, <1>9
  <2>3. ev[EB(i) + 1] \in DOMAIN prefix
    BY <1>1, <2>2 DEF BlocksInv, ExplicitsInv, ToSet, ev
  <2>4. prefix[ev[EB(i) + 1]] \subseteq Universals
    BY <2>3 DEF BlocksInv, ExplicitsInv
  <2> QED BY <1>3, <2>1, <2>4 DEF BlockDependencies, depsOf, ev
<1>11. ASSUME NEW i \in 0..(end - 1), NEW j \in 0..(end - 1), i < j
       PROVE  depsOf(i) \subseteq depsOf(j) /\ depsOf(i) # depsOf(j)
  BY <1>3, <1>7, <1>8, <1>11 DEF BlocksGrow, depsOf, E, ev
<1>12. ASSUME NEW p \in 1..x
       PROVE  /\ BlockAt(p) \in 0..(end - 1)
              /\ p \in (EB(BlockAt(p)) + 1)..EB(BlockAt(p) + 1)
              /\ prefix[ev[p]] = depsOf(BlockAt(p))
              /\ \A k \in 0..end : p <= EB(k) <=> BlockAt(p) < k
  <2>1. BlockAt(p) \in 0..(end - 1) /\ p \in 1..m
    BY <1>2, <1>5, <1>12 DEF x
  <2>2. p \in (EB(BlockAt(p)) + 1)..EB(BlockAt(p) + 1)
    BY <1>4, <2>1
  <2>3. prefix[ev[p]] = depsOf(BlockAt(p))
    BY <1>3, <1>7, <1>8, <2>1, <2>2 DEF BlocksGrow, depsOf, E, ev
  <2>4. ASSUME NEW k \in 0..end PROVE p <= EB(k) <=> BlockAt(p) < k
    <3> DEFINE i == BlockAt(p)
    <3>1. k \in 0..E /\ EB(k) \in Nat /\ i + 1 \in 0..E /\ i \in Nat /\ EB(i + 1) \in Nat /\ k \in Nat
      BY <1>1, <1>2, <1>7, <2>1
    <3>2. p <= EB(k) => i \in 0..(k - 1)
      BY <1>5, <2>1, <3>1
    <3>3. i < k => EB(i + 1) <= EB(k)
      BY <1>6, <3>1
    <3> HIDE DEF i
    <3>4. p <= EB(i + 1) /\ p \in Nat
      BY <2>1, <2>2, <1>1 DEF i
    <3> QED BY <3>1, <3>2, <3>3, <3>4 DEF i
  <2> QED BY <2>1, <2>2, <2>3, <2>4
<1> QED BY <1>8, <1>10, <1>11, <1>12 DEF end, ev, x
LEMMA Comparisons ==
    ASSUME NEW S, NEW l \in Seq(S), NEW k \in Seq(S), IsInjective(l), IsInjective(k)
    PROVE  /\ Includes(l, k) <=> ToSet(k) \subseteq ToSet(l)
           /\ ToSet(l) \subseteq ToSet(k) \/ ToSet(k) \subseteq ToSet(l) =>
                 (Len(l) = Len(k) <=> ToSet(l) = ToSet(k))
<1>1. Includes(l, k) <=> ToSet(k) \subseteq ToSet(l)
  BY DEF Includes
<1>2. ToSet(l) \subseteq ToSet(k) => (Len(l) = Len(k) <=> ToSet(l) = ToSet(k))
  BY SameLength
<1>3. ToSet(k) \subseteq ToSet(l) => (Len(l) = Len(k) <=> ToSet(l) = ToSet(k))
  BY SameLength
<1> QED BY <1>1, <1>2, <1>3

LEMMA ExplicitFacts ==
    ASSUME BlocksInv, NEW v \in DOMAIN explicit_dependencies
    PROVE  LET deps == Sorted(explicit_dependencies[v]) IN
           /\ v \in Existentials /\ v \in Nat /\ v \notin ToSet(existential_variables)
           /\ deps \in Seq(Universals) /\ IsInjective(deps)
           /\ ToSet(deps) = prefix[v] /\ prefix[v] \subseteq Universals
           /\ Sorted(deps) = deps
           /\ explicit_dependencies[v] \in Seq(Universals) /\ ToSet(explicit_dependencies[v]) = prefix[v]
<1>1. /\ v \in Existentials /\ v \in Nat /\ v \notin ToSet(existential_variables)
      /\ explicit_dependencies[v] \in Seq(Universals) /\ IsInjective(explicit_dependencies[v])
      /\ prefix[v] = ToSet(explicit_dependencies[v])
  BY PrefixAssumption DEF BlocksInv, ExplicitsInv
<1>2. prefix[v] \subseteq Universals
  BY <1>1, ListFacts
<1> QED BY <1>1, <1>2, ExtractorAssumption, SortedFacts

\* Where the binary searches end.
LEMMA SearchesFound ==
    ASSUME BlocksInv, ExplicitInv, phase = "explicit",
           existential_block_idx_end \in 0..getNofExistentialBlocks,
           NEW v \in DOMAIN explicit_dependencies
    PROVE  LET end == existential_block_idx_end
               deps == Sorted(explicit_dependencies[v])
           IN
           \E sub \in -1..(end - 1), first \in 0..end :
              /\ \A i \in 0..(end - 1) : /\ depsOf(i) \subseteq prefix[v] <=> i <= sub
                                         /\ prefix[v] \subseteq depsOf(i) <=> i >= first
              /\ getMaximalSubSet(deps) = sub
              /\ sub # -1 => (Len(BlockDependencies(sub)) = Len(deps) <=> depsOf(sub) = prefix[v])
              /\ \A start \in 0..end :
                    getMinimalSuperSet(deps, start)
                       = LET from == IF start < first THEN first ELSE start
                         IN  IF from < end THEN from ELSE getNofExistentialBlocks
<1> DEFINE end == existential_block_idx_end
           E == getNofExistentialBlocks
           deps == Sorted(explicit_dependencies[v])
           pv == prefix[v]
<1>1. /\ \A i \in 0..(end - 1) :
            depsOf(i) \subseteq Universals /\ BlockDependencies(i) = increasing(depsOf(i))
      /\ \A i, j \in 0..(end - 1) : i < j => depsOf(i) \subseteq depsOf(j)
  BY ImplicitBlocks
<1>2. deps \in Seq(Universals) /\ IsInjective(deps) /\ ToSet(deps) = pv /\ pv \subseteq Universals
  BY ExplicitFacts
<1>3. end \in 0..E /\ E \in Nat /\ end \in Nat /\ E >= end
  BY FormulaFacts DEF BlocksInv
<1> HIDE DEF deps, pv, end, E
<1>4. ASSUME NEW i \in 0..(end - 1)
      PROVE  /\ Includes(deps, BlockDependencies(i)) <=> depsOf(i) \subseteq pv
             /\ Includes(BlockDependencies(i), deps) <=> pv \subseteq depsOf(i)
             /\ depsOf(i) \subseteq pv => (Len(BlockDependencies(i)) = Len(deps) <=> depsOf(i) = pv)
  <2>1. depsOf(i) \in SUBSET Nat /\ IsFiniteSet(depsOf(i))
    BY <1>1, ExtractorAssumption, PrefixAssumption, FS_Subset
  <2> DEFINE k == BlockDependencies(i)
  <2>2. k \in Seq(depsOf(i)) /\ ToSet(k) = depsOf(i) /\ IsInjective(k)
    BY <1>1, <2>1, IncreasingFacts
  <2>3. k \in Seq(Universals)
    BY <1>1, <2>2, SeqMonotonic
  <2> HIDE DEF k
  <2>4. /\ Includes(deps, k) <=> depsOf(i) \subseteq pv
        /\ Includes(k, deps) <=> pv \subseteq depsOf(i)
        /\ depsOf(i) \subseteq pv => (Len(k) = Len(deps) <=> depsOf(i) = pv)
    BY <1>2, <2>2, <2>3, Comparisons
  <2> QED BY <2>4 DEF k
<1>5. PICK next \in 0..end : \A i \in 0..(end - 1) : ~(depsOf(i) \subseteq pv) <=> i >= next
  <2> DEFINE S == {i \in 0..(end - 1) : ~(depsOf(i) \subseteq pv)}
  <2>1. ASSUME NEW i \in S, NEW j \in 0..(end - 1), i <= j PROVE j \in S
    <3>1. CASE i = j
      BY <3>1
    <3>2. CASE i < j
      <4>1. depsOf(i) \subseteq depsOf(j)
        BY <1>1, <3>2
      <4> QED BY <4>1
    <3> QED BY <1>3, <2>1, <3>1, <3>2
  <2>2. \E next \in 0..end : \A i \in 0..(end - 1) : i \in S <=> i >= next
    <3>1. S \in SUBSET (0..(end - 1))
      OBVIOUS
    <3> HIDE DEF S
    <3> QED BY <1>3, <2>1, <3>1, Threshold
  <2> QED BY <2>2
<1>6. PICK first \in 0..end : \A i \in 0..(end - 1) : pv \subseteq depsOf(i) <=> i >= first
  <2> DEFINE S == {i \in 0..(end - 1) : pv \subseteq depsOf(i)}
  <2>1. ASSUME NEW i \in S, NEW j \in 0..(end - 1), i <= j PROVE j \in S
    <3>1. CASE i = j
      BY <3>1
    <3>2. CASE i < j
      <4>1. depsOf(i) \subseteq depsOf(j)
        BY <1>1, <3>2
      <4> QED BY <4>1
    <3> QED BY <1>3, <2>1, <3>1, <3>2
  <2>2. \E first \in 0..end : \A i \in 0..(end - 1) : i \in S <=> i >= first
    <3>1. S \in SUBSET (0..(end - 1))
      OBVIOUS
    <3> HIDE DEF S
    <3> QED BY <1>3, <2>1, <3>1, Threshold
  <2> QED BY <2>2
<1> DEFINE sub == next - 1
<1>7. sub \in -1..(end - 1) /\ \A i \in 0..(end - 1) : i <= sub <=> ~(i >= next)
  BY <1>3
<1> HIDE DEF sub
<1>8. \A i \in 0..(end - 1) : depsOf(i) \subseteq pv <=> i <= sub
  BY <1>5, <1>7
<1>9. getMaximalSubSet(deps) = sub
  <2>1. \A i \in 0..(end - 1) : Includes(deps, BlockDependencies(i)) <=> i <= sub
    BY <1>4, <1>8
  <2> QED BY <1>3, <1>7, <2>1, MaximalSubSetFound DEF end
<1>10. \A start \in 0..end :
           getMinimalSuperSet(deps, start) = LET from == IF start < first THEN first ELSE start
                                             IN  IF from < end THEN from ELSE E
  <2>1. \A i \in 0..(end - 1) : Includes(BlockDependencies(i), deps) <=> i >= first
    BY <1>4, <1>6
  <2> QED BY <1>3, <2>1, MinimalSuperSetFound DEF end, E
<1>11. sub # -1 => (Len(BlockDependencies(sub)) = Len(deps) <=> depsOf(sub) = pv)
  <2> SUFFICES ASSUME sub # -1 PROVE Len(BlockDependencies(sub)) = Len(deps) <=> depsOf(sub) = pv
    OBVIOUS
  <2>1. sub \in 0..(end - 1) /\ sub <= sub
    BY <1>3, <1>7
  <2> QED BY <1>4, <1>8, <2>1
<1> QED BY <1>6, <1>7, <1>8, <1>9, <1>10, <1>11 DEF end, E, deps, pv

\* std::lower_bound separates the smaller variables of a sorted block.
LEMMA LowerBoundFacts ==
    ASSUME BlocksInv, ExplicitInv, phase = "explicit", setting.extended,
           existential_block_idx_end \in 0..getNofExistentialBlocks,
           NEW i \in 0..(existential_block_idx_end - 1), NEW v \in Nat
    PROVE  /\ lower_bound(i, v) \in EB(i)..EB(i + 1)
           /\ \A q \in (EB(i) + 1)..EB(i + 1) :
                 existential_variables[q] < v <=> q <= lower_bound(i, v)
<1> DEFINE a == EB(i)
           b == EB(i + 1)
           ev == existential_variables
           S == {k \in 0..((b - a) - 1) : ~(ev[a + 1 + k] < v)}
<1>1. a \in Nat /\ b \in Nat /\ a < b /\ b <= Len(ev) /\ Len(ev) \in Nat
  <2>1. i \in 0..(getNofExistentialBlocks - 1)
    BY FormulaFacts DEF BlocksInv
  <2> QED BY <2>1, FormulaFacts, BlockFacts DEF BlocksInv
<1>2. \A p, q \in (a + 1)..b : p < q => ev[p] < ev[q]
  BY DEF ExplicitInv, BlocksSorted
<1>3. \A p \in (a + 1)..b : ev[p] \in Nat
  <2>1. \A p \in (a + 1)..b : p \in 1..Len(ev)
    <3> HIDE DEF a, b, ev
    <3> QED BY <1>1
  <2> QED BY <2>1, PrefixAssumption, ElementOfSeq DEF BlocksInv, FormulaInv
<1> HIDE DEF a, b, ev
<1>4. \A k \in 0..((b - a) - 1) : a + 1 + k \in (a + 1)..b
  BY <1>1
<1>5. ASSUME NEW k \in S, NEW j \in 0..((b - a) - 1), k <= j PROVE j \in S
  <2>1. k \in 0..((b - a) - 1) /\ ~(ev[a + 1 + k] < v)
    OBVIOUS
  <2>2. CASE k = j
    BY <2>2
  <2>3. CASE k < j
    <3>1. a + 1 + k < a + 1 + j
      BY <1>1, <2>3
    <3>2. ev[a + 1 + k] < ev[a + 1 + j] /\ ev[a + 1 + k] \in Nat /\ ev[a + 1 + j] \in Nat
      BY <1>2, <1>3, <1>4, <2>1, <3>1
    <3> QED BY <2>1, <3>2
  <2> QED BY <1>1, <1>5, <2>2, <2>3
<1>6. PICK first \in 0..(b - a) : \A k \in 0..((b - a) - 1) : k \in S <=> k >= first
  <2>1. S \in SUBSET (0..((b - a) - 1)) /\ b - a \in Nat
    BY <1>1
  <2> HIDE DEF S
  <2> QED BY <1>5, <2>1, Threshold
<1> DEFINE P(p) == \A q \in (a + 1)..b : ev[q] < v <=> q <= p
<1>7. a + first \in a..b /\ P(a + first)
  <2>1. a + first \in a..b
    BY <1>1
  <2>2. ASSUME NEW q \in (a + 1)..b PROVE ev[q] < v <=> q <= a + first
    <3>1. q - a - 1 \in 0..((b - a) - 1) /\ a + 1 + (q - a - 1) = q
      BY <1>1
    <3>2. ev[q] < v <=> ~(q - a - 1 >= first)
      BY <1>6, <3>1
    <3>3. q <= a + first <=> ~(q - a - 1 >= first)
      BY <1>1
    <3> QED BY <3>2, <3>3
  <2> QED BY <2>1, <2>2
<1>8. lower_bound(i, v) = CHOOSE p \in a..b : P(p)
  BY DEF lower_bound, a, b, ev
<1>9. lower_bound(i, v) \in a..b /\ P(lower_bound(i, v))
  <2> HIDE DEF P
  <2> QED BY <1>7, <1>8
<1> QED BY <1>9 DEF a, b, ev
\* Among the variables in blocks those before some position may be read.
LEMMA ImplicitReadFound ==
    ASSUME BlocksInv, ExplicitInv, phase = "explicit", setting.extended,
           existential_block_idx_end \in 0..getNofExistentialBlocks,
           NEW v \in DOMAIN explicit_dependencies
    PROVE  LET l == ImplicitRead(v, Sorted(explicit_dependencies[v])) IN
           /\ l \in Seq(Existentials) /\ IsInjective(l)
           /\ ToSet(l) = {e \in Implicit : MayRead(prefix, e, v)}
<1> DEFINE end == existential_block_idx_end
           deps == Sorted(explicit_dependencies[v])
           ev == existential_variables
           m == Len(ev)
           x == EB(end)
           pv == prefix[v]
           l == ImplicitRead(v, deps)
<1>1. PICK sub \in -1..(end - 1) :
          /\ \A i \in 0..(end - 1) : depsOf(i) \subseteq pv <=> i <= sub
          /\ getMaximalSubSet(deps) = sub
          /\ sub # -1 => (Len(BlockDependencies(sub)) = Len(deps) <=> depsOf(sub) = pv)
  BY SearchesFound
<1>2. /\ \A i \in 0..(end - 1) : EB(i) + 1 \in 1..x /\ EB(i + 1) \in 1..x /\ EB(i) < EB(i + 1)
      /\ \A i, j \in 0..(end - 1) : i < j => depsOf(i) \subseteq depsOf(j) /\ depsOf(i) # depsOf(j)
      /\ \A p \in 1..x :
            /\ BlockAt(p) \in 0..(end - 1)
            /\ p \in (EB(BlockAt(p)) + 1)..EB(BlockAt(p) + 1)
            /\ prefix[ev[p]] = depsOf(BlockAt(p))
            /\ \A k \in 0..end : p <= EB(k) <=> BlockAt(p) < k
  BY ImplicitBlocks
<1>3. /\ m \in Nat /\ end \in Nat /\ x \in 0..m /\ \A k \in 0..end : EB(k) \in 0..m
      /\ ev \in Seq(Existentials) /\ IsInjective(ev) /\ v \in Nat
  <2>1. /\ getNofExistentialBlocks \in Nat /\ m \in Nat
        /\ \A j \in 0..getNofExistentialBlocks : EB(j) \in 0..m
    BY FormulaFacts DEF BlocksInv
  <2>2. end \in 0..getNofExistentialBlocks
    OBVIOUS
  <2>3. ev \in Seq(Existentials) /\ IsInjective(ev) /\ v \in Nat
    BY ExplicitFacts DEF BlocksInv, FormulaInv
  <2> HIDE DEF m, ev, end
  <2> QED BY <2>1, <2>2, <2>3
<1>4. \A i \in 0..(end - 1) :
         /\ lower_bound(i, v) \in EB(i)..EB(i + 1)
         /\ \A q \in (EB(i) + 1)..EB(i + 1) : ev[q] < v <=> q <= lower_bound(i, v)
  BY <1>3, LowerBoundFacts
<1>5. l = IF sub = -1 THEN <<>>
          ELSE SubSeq(ev, 1, IF depsOf(sub) = pv THEN lower_bound(sub, v) ELSE EB(sub + 1))
  BY <1>1 DEF ImplicitRead
<1>6. Implicit = ElementsAt(ev, 1, x)
  BY DEF Implicit
<1> HIDE DEF end, deps, ev, m, x, pv, l
\* Up to which position, by the block with the most dependencies that are included.
<1>7. ASSUME NEW r \in 0..x, \A p \in 1..x : MayRead(prefix, ev[p], v) <=> p <= r, l = SubSeq(ev, 1, r)
      PROVE  /\ l \in Seq(Existentials) /\ IsInjective(l)
             /\ ToSet(l) = {e \in Implicit : MayRead(prefix, e, v)}
  <2>1. r \in 0..m /\ 1..r = {p \in 1..x : p <= r}
    BY <1>3
  <2>2. l \in Seq(Existentials) /\ IsInjective(l) /\ ToSet(l) = ElementsAt(ev, 1, r)
    BY <1>3, <1>7, <2>1, ListStart DEF m
  <2>3. ElementsAt(ev, 1, r) = {e \in Implicit : MayRead(prefix, e, v)}
    BY <1>6, <1>7, <2>1 DEF ElementsAt
  <2> QED BY <2>2, <2>3
<1>8. CASE sub = -1
  <2>1. l = SubSeq(ev, 1, 0)
    BY <1>5, <1>8, SubSeqEmpty
  <2>2. ASSUME NEW p \in 1..x PROVE MayRead(prefix, ev[p], v) <=> p <= 0
    <3>1. ~(BlockAt(p) <= sub)
      BY <1>2, <1>3, <1>8
    <3>2. ~(prefix[ev[p]] \subseteq pv)
      BY <1>1, <1>2, <3>1
    <3>3. ~MayRead(prefix, ev[p], v)
      BY <3>2 DEF MayRead, pv
    <3> QED BY <1>3, <3>3
  <2>3. 0 \in 0..x
    BY <1>3
  <2> QED BY <1>7, <2>1, <2>2, <2>3 DEF l, deps
<1>9. CASE sub # -1 /\ depsOf(sub) = pv
  <2> DEFINE r == lower_bound(sub, v)
  <2>1. sub \in 0..(end - 1) /\ sub \in 0..end /\ sub + 1 \in 0..end
    BY <1>3, <1>9
  <2>2. r \in EB(sub)..EB(sub + 1) /\ \A q \in (EB(sub) + 1)..EB(sub + 1) : ev[q] < v <=> q <= r
    BY <1>4, <2>1
  <2>3. l = SubSeq(ev, 1, r)
    BY <1>5, <1>9
  <2> HIDE DEF r
  <2>4. r \in 0..x /\ EB(sub) \in Nat /\ EB(sub + 1) \in Nat /\ r \in Nat
    BY <1>2, <1>3, <2>1, <2>2
  <2>5. ASSUME NEW p \in 1..x PROVE MayRead(prefix, ev[p], v) <=> p <= r
    <3> DEFINE i == BlockAt(p)
    <3>1. /\ i \in 0..(end - 1) /\ prefix[ev[p]] = depsOf(i)
          /\ p <= EB(sub) <=> i < sub
          /\ p <= EB(sub + 1) <=> i < sub + 1
          /\ p \in (EB(i) + 1)..EB(i + 1)
      BY <1>2, <2>1
    <3> HIDE DEF i
    <3>2. CASE i < sub
      <4>1. depsOf(i) \subseteq pv /\ depsOf(i) # pv
        BY <1>2, <1>9, <2>1, <3>1, <3>2
      <4>2. p <= r
        BY <1>3, <2>2, <2>4, <3>1, <3>2
      <4> QED BY <3>1, <4>1, <4>2 DEF MayRead, pv
    <3>3. CASE i = sub
      <4>1. p \in (EB(sub) + 1)..EB(sub + 1)
        BY <3>1, <3>3
      <4>2. ev[p] < v <=> p <= r
        BY <2>2, <4>1
      <4>3. prefix[ev[p]] = prefix[v]
        BY <1>9, <3>1, <3>3 DEF pv
      <4> QED BY <4>2, <4>3 DEF MayRead
    <3>4. CASE sub < i
      <4>1. ~(depsOf(i) \subseteq pv)
        BY <1>1, <1>3, <2>1, <3>1, <3>4
      <4>2. ~(p <= r)
        BY <1>3, <2>1, <2>2, <2>4, <3>1, <3>4
      <4> QED BY <3>1, <4>1, <4>2 DEF MayRead, pv
    <3> QED BY <1>3, <2>1, <3>1, <3>2, <3>3, <3>4
  <2> QED BY <1>7, <2>3, <2>4, <2>5 DEF l, deps
<1>10. CASE sub # -1 /\ depsOf(sub) # pv
  <2> DEFINE r == EB(sub + 1)
  <2>1. sub \in 0..(end - 1) /\ sub + 1 \in 0..end
    BY <1>3, <1>10
  <2>2. r \in 0..x
    <3>1. EB(sub + 1) \in 1..x
      BY <1>2, <2>1
    <3> QED BY <1>3, <3>1
  <2>3. l = SubSeq(ev, 1, r)
    BY <1>5, <1>10
  <2>4. ASSUME NEW p \in 1..x PROVE MayRead(prefix, ev[p], v) <=> p <= r
    <3> DEFINE i == BlockAt(p)
    <3>1. i \in 0..(end - 1) /\ prefix[ev[p]] = depsOf(i) /\ (p <= EB(sub + 1) <=> i < sub + 1)
      BY <1>2, <2>1
    <3> HIDE DEF i
    <3>2. i < sub + 1 <=> i <= sub
      BY <1>3, <2>1, <3>1
    <3>3. depsOf(i) \subseteq pv <=> i <= sub
      BY <1>1, <3>1
    <3>4. depsOf(i) # pv
      <4> SUFFICES ASSUME depsOf(i) = pv PROVE FALSE
        OBVIOUS
      <4>1. i <= sub /\ i # sub
        BY <1>10, <3>3
      <4>2. i < sub
        BY <1>3, <2>1, <3>1, <4>1
      <4>3. depsOf(i) \subseteq depsOf(sub)
        BY <1>2, <2>1, <3>1, <4>2
      <4>4. depsOf(sub) \subseteq pv
        <5>1. sub <= sub
          BY <1>3
        <5> QED BY <1>1, <2>1, <5>1
      <4> QED BY <1>10, <4>1, <4>3, <4>4
    <3>5. MayRead(prefix, ev[p], v) <=> depsOf(i) \subseteq pv
      BY <3>1, <3>4 DEF MayRead, pv
    <3> QED BY <3>1, <3>2, <3>3, <3>5
  <2> QED BY <1>7, <2>2, <2>3, <2>4 DEF l, deps
<1> QED BY <1>8, <1>9, <1>10 DEF l, deps

\* From some position on variables in blocks, the ignored block included, may
\* read it, unless no block the extraction looks at may.
LEMMA ReadersFound ==
    ASSUME BlocksInv, ExplicitInv, phase = "explicit", setting.extended,
           existential_block_idx_end \in 0..getNofExistentialBlocks,
           NEW v \in DOMAIN explicit_dependencies
    PROVE  LET readers == ImplicitReaders(v, Sorted(explicit_dependencies[v])) IN
           \/ readers = {} /\ \A e \in Implicit : ~ (prefix[v] \subseteq prefix[e])
           \/ /\ \E e \in Implicit : prefix[v] \subseteq prefix[e]
              /\ \E r \in 0..EB(existential_block_idx_end) :
                    /\ readers = ElementsAt(existential_variables, r + 1, Len(existential_variables))
                    /\ \A p \in 1..EB(existential_block_idx_end) :
                          MayRead(prefix, v, existential_variables[p]) <=> p > r
<1> DEFINE end == existential_block_idx_end
           E == getNofExistentialBlocks
           deps == Sorted(explicit_dependencies[v])
           ev == existential_variables
           m == Len(ev)
           x == EB(end)
           pv == prefix[v]
           readers == ImplicitReaders(v, deps)
<1>1. PICK sub \in -1..(end - 1), first \in 0..end :
          /\ \A i \in 0..(end - 1) : /\ depsOf(i) \subseteq pv <=> i <= sub
                                     /\ pv \subseteq depsOf(i) <=> i >= first
          /\ getMaximalSubSet(deps) = sub
          /\ sub # -1 => (Len(BlockDependencies(sub)) = Len(deps) <=> depsOf(sub) = pv)
          /\ \A start \in 0..end :
                getMinimalSuperSet(deps, start)
                   = LET from == IF start < first THEN first ELSE start
                     IN  IF from < end THEN from ELSE E
  BY SearchesFound
<1>2. /\ \A i \in 0..(end - 1) : EB(i) + 1 \in 1..x /\ EB(i + 1) \in 1..x /\ EB(i) < EB(i + 1)
      /\ \A i, j \in 0..(end - 1) : i < j => depsOf(i) \subseteq depsOf(j) /\ depsOf(i) # depsOf(j)
      /\ \A p \in 1..x :
            /\ BlockAt(p) \in 0..(end - 1)
            /\ p \in (EB(BlockAt(p)) + 1)..EB(BlockAt(p) + 1)
            /\ prefix[ev[p]] = depsOf(BlockAt(p))
            /\ \A k \in 0..end : p <= EB(k) <=> BlockAt(p) < k
  BY ImplicitBlocks
<1>3. /\ m \in Nat /\ E \in Nat /\ end \in 0..E /\ x \in 0..m /\ \A k \in 0..E : EB(k) \in 0..m
      /\ EB(E) = m /\ v \in Nat /\ v \notin ToSet(ev) /\ DOMAIN ev = 1..m
      /\ \A k \in 0..E : EB(k) >= k
      /\ ev \in Seq(Existentials)
  <2>1. /\ E \in Nat /\ m \in Nat /\ \A j \in 0..E : EB(j) \in 0..m
        /\ EB(E) = m /\ DOMAIN ev = 1..m
    BY FormulaFacts DEF BlocksInv
  <2>2. end \in 0..E
    OBVIOUS
  <2>3. v \in Nat /\ v \notin ToSet(ev)
    BY ExplicitFacts
  <2>4. \A k \in 0..E : EB(k) >= k
    BY EndsCount DEF BlocksInv
  <2>5. ev \in Seq(Existentials)
    BY DEF BlocksInv, FormulaInv
  <2> HIDE DEF m, ev, end, E
  <2> QED BY <2>2, <2>3, <2>4, <2>5, <2>1 DEF x
<1>4. \A i \in 0..(end - 1) :
         /\ lower_bound(i, v) \in EB(i)..EB(i + 1)
         /\ \A q \in (EB(i) + 1)..EB(i + 1) : ev[q] < v <=> q <= lower_bound(i, v)
  BY <1>3, LowerBoundFacts
<1>5. readers = IF sub # -1 /\ Len(BlockDependencies(sub)) = Len(deps)
                THEN ElementsAt(ev, lower_bound(sub, v) + 1, EB(sub + 1))
                        \cup (IF sub = m - 1 THEN {} ELSE ElementsAt(ev, EB(sub + 1) + 1, m))
                ELSE IF getMinimalSuperSet(deps, sub + 1) = E THEN {}
                ELSE ElementsAt(ev, EB(getMinimalSuperSet(deps, sub + 1)) + 1, m)
  BY <1>1 DEF ImplicitReaders, From, ElementsAt
<1>6. Implicit = ElementsAt(ev, 1, x)
  BY DEF Implicit
<1> HIDE DEF end, deps, ev, m, x, pv, readers, E
<1>7. \A p \in 1..x : ev[p] \in Nat /\ ev[p] # v
  <2>1. \A p \in 1..x : p \in 1..m
    BY <1>3
  <2> QED BY <1>3, <2>1, PrefixAssumption, ElementOfSeq DEF ToSet, m
<1>8. \A i \in 0..(end - 1) :
          /\ ev[EB(i) + 1] \in Implicit /\ prefix[ev[EB(i) + 1]] = depsOf(i)
          /\ i \in 0..end /\ i + 1 \in 0..end /\ i \in 0..E /\ i + 1 \in 0..E
  BY <1>2, <1>3, <1>6 DEF ElementsAt, depsOf, ev
<1>9. CASE sub # -1 /\ depsOf(sub) = pv
  <2> DEFINE r == lower_bound(sub, v)
  <2>1. sub \in 0..(end - 1) /\ sub \in 0..end /\ sub + 1 \in 0..end /\ sub + 1 \in 0..E
    BY <1>3, <1>9
  <2>2. r \in EB(sub)..EB(sub + 1) /\ \A q \in (EB(sub) + 1)..EB(sub + 1) : ev[q] < v <=> q <= r
    BY <1>4, <2>1
  <2>3. readers = ElementsAt(ev, r + 1, EB(sub + 1))
                     \cup (IF sub = m - 1 THEN {} ELSE ElementsAt(ev, EB(sub + 1) + 1, m))
    BY <1>1, <1>5, <1>9
  <2> HIDE DEF r
  <2>4. r \in 0..x /\ EB(sub) \in Nat /\ EB(sub + 1) \in 0..m /\ r \in Nat /\ r <= EB(sub + 1)
    BY <1>2, <1>3, <2>1, <2>2
\* If the block has the number of the last variable nothing follows it.
  <2>5. sub = m - 1 => ElementsAt(ev, EB(sub + 1) + 1, m) = {}
    <3> SUFFICES ASSUME sub = m - 1 PROVE (EB(sub + 1) + 1)..m = {}
      BY DEF ElementsAt
    <3>1. EB(sub + 1) >= m
      BY <1>3, <2>1
    <3> QED BY <1>3, <2>4, <3>1
  <2>6. readers = ElementsAt(ev, r + 1, m)
    <3>1. readers = ElementsAt(ev, r + 1, EB(sub + 1)) \cup ElementsAt(ev, EB(sub + 1) + 1, m)
      BY <2>3, <2>5
    <3>2. (r + 1)..m = ((r + 1)..EB(sub + 1)) \cup ((EB(sub + 1) + 1)..m)
      BY <1>3, <2>4
    <3> QED BY <3>1, <3>2 DEF ElementsAt
  <2>7. ASSUME NEW p \in 1..x PROVE MayRead(prefix, v, ev[p]) <=> p > r
    <3> DEFINE i == BlockAt(p)
    <3>1. /\ i \in 0..(end - 1) /\ prefix[ev[p]] = depsOf(i)
          /\ p <= EB(sub) <=> i < sub
          /\ p <= EB(sub + 1) <=> i < sub + 1
          /\ p \in (EB(i) + 1)..EB(i + 1)
      BY <1>2, <2>1
    <3> HIDE DEF i
    <3>2. CASE i < sub
      <4>1. depsOf(i) \subseteq pv /\ depsOf(i) # pv
        BY <1>2, <1>9, <2>1, <3>1, <3>2
      <4>2. ~(p > r)
        BY <1>3, <2>2, <2>4, <3>1, <3>2
      <4> QED BY <3>1, <4>1, <4>2 DEF MayRead, pv
    <3>3. CASE i = sub
      <4>1. p \in (EB(sub) + 1)..EB(sub + 1)
        BY <3>1, <3>3
      <4>2. ev[p] < v <=> p <= r
        BY <2>2, <4>1
      <4>3. v < ev[p] <=> ~(ev[p] < v)
        BY <1>3, <1>7
      <4>4. p > r <=> ~(p <= r)
        BY <1>3, <2>4
      <4>5. prefix[ev[p]] = prefix[v]
        BY <1>9, <3>1, <3>3 DEF pv
      <4> QED BY <4>2, <4>3, <4>4, <4>5 DEF MayRead
    <3>4. CASE sub < i
      <4>1. pv \subseteq depsOf(i) /\ pv # depsOf(i)
        BY <1>2, <1>9, <2>1, <3>1, <3>4
      <4>2. p > r
        BY <1>3, <2>1, <2>2, <2>4, <3>1, <3>4
      <4> QED BY <3>1, <4>1, <4>2 DEF MayRead, pv
    <3> QED BY <1>3, <2>1, <3>1, <3>2, <3>3, <3>4
  <2>8. \E e \in Implicit : pv \subseteq prefix[e]
    BY <1>8, <1>9, <2>1
  <2> QED BY <2>4, <2>6, <2>7, <2>8 DEF readers, deps, ev, m, x, end, pv
<1>10. CASE ~(sub # -1 /\ depsOf(sub) = pv)
  <2>1. ASSUME NEW i \in 0..(end - 1) PROVE depsOf(i) # pv
    <3> SUFFICES ASSUME depsOf(i) = pv PROVE FALSE
      OBVIOUS
    <3>1. i <= sub /\ i # sub
      BY <1>1, <1>3, <1>10
    <3>2. sub \in 0..(end - 1) /\ i < sub
      BY <1>3, <3>1
    <3>3. depsOf(i) \subseteq depsOf(sub) /\ depsOf(i) # depsOf(sub)
      BY <1>2, <3>2
    <3>4. depsOf(sub) \subseteq pv
      BY <1>1, <1>3, <3>2
    <3> QED BY <3>3, <3>4
  <2>2. sub < first
    <3> SUFFICES ASSUME ~(sub < first) PROVE FALSE
      OBVIOUS
    <3>1. first \in 0..(end - 1) /\ first <= sub
      BY <1>3
    <3>2. pv \subseteq depsOf(first) /\ depsOf(first) \subseteq pv
      BY <1>1, <1>3, <3>1
    <3> QED BY <2>1, <3>1, <3>2
  <2>3. sub + 1 \in 0..end /\ (IF sub + 1 < first THEN first ELSE sub + 1) = first
    BY <1>3, <2>2
  <2>4. getMinimalSuperSet(deps, sub + 1) = IF first < end THEN first ELSE E
    BY <1>1, <2>3
  <2>5. readers = IF first < end THEN ElementsAt(ev, EB(first) + 1, m) ELSE {}
    <3>1. ~(sub # -1 /\ Len(BlockDependencies(sub)) = Len(deps))
      BY <1>1, <1>10
    <3>2. first < end => first # E
      BY <1>3
    <3> QED BY <1>5, <2>4, <3>1, <3>2
  <2>6. CASE first < end
    <3>1. first \in 0..(end - 1) /\ first \in 0..end
      BY <1>3, <2>6
    <3>2. EB(first) \in 0..x
      BY <1>2, <1>3, <1>8, <3>1
    <3>3. ASSUME NEW p \in 1..x PROVE MayRead(prefix, v, ev[p]) <=> p > EB(first)
      <4> DEFINE i == BlockAt(p)
      <4>1. i \in 0..(end - 1) /\ prefix[ev[p]] = depsOf(i) /\ (p <= EB(first) <=> i < first)
        BY <1>2, <3>1
      <4> HIDE DEF i
      <4>2. pv \subseteq depsOf(i) <=> i >= first
        BY <1>1, <4>1
      <4>3. depsOf(i) # pv
        BY <2>1, <4>1
      <4>4. MayRead(prefix, v, ev[p]) <=> pv \subseteq depsOf(i)
        BY <4>1, <4>3 DEF MayRead, pv
      <4>5. p > EB(first) <=> i >= first
        BY <1>3, <3>1, <3>2, <4>1
      <4> QED BY <4>2, <4>4, <4>5
    <3>4. \E e \in Implicit : pv \subseteq prefix[e]
      <4>1. pv \subseteq depsOf(first)
        BY <1>1, <1>3, <3>1
      <4> QED BY <1>8, <3>1, <4>1
    <3>5. readers = ElementsAt(ev, EB(first) + 1, m)
      BY <2>5, <2>6
    <3> QED BY <3>2, <3>3, <3>4, <3>5 DEF readers, deps, ev, m, x, end, pv
  <2>7. CASE ~(first < end)
    <3>1. ASSUME NEW e \in Implicit PROVE ~(pv \subseteq prefix[e])
      <4>1. PICK p \in 1..x : e = ev[p]
        BY <1>6 DEF ElementsAt
      <4>2. BlockAt(p) \in 0..(end - 1) /\ prefix[e] = depsOf(BlockAt(p))
        BY <1>2, <4>1
      <4>3. ~(BlockAt(p) >= first)
        BY <1>3, <2>7, <4>2
      <4> QED BY <1>1, <4>2, <4>3
    <3>2. readers = {}
      BY <2>5, <2>7
    <3> QED BY <3>1, <3>2 DEF readers, deps, pv
  <2> QED BY <2>6, <2>7
<1> QED BY <1>9, <1>10
\* The variables that get dependencies are those in the blocks the extraction
\* looks at and those with explicit dependencies.
LEMMA KeptFacts ==
    ASSUME BlocksInv, setting \in ExtractorSettings, Unread = {}, universal_variables # <<>>
    PROVE  /\ Kept = Implicit \cup DOMAIN explicit_dependencies
           /\ Implicit \cap DOMAIN explicit_dependencies = {}
           /\ Implicit \subseteq ToSet(existential_variables) /\ Kept \subseteq Existentials
           /\ existential_block_idx_end = getNofExistentialBlocks =>
                 Implicit = ToSet(existential_variables) /\ Kept = Existentials
           /\ existential_block_idx_end < getNofExistentialBlocks =>
                 /\ EB(existential_block_idx_end) < Len(existential_variables)
                 /\ existential_variables[Len(existential_variables)] \in Existentials \ Kept
<1> DEFINE end == existential_block_idx_end
           E == getNofExistentialBlocks
           ev == existential_variables
           m == Len(ev)
           x == EB(end)
           D == DOMAIN explicit_dependencies
<1>1. /\ E \in Nat /\ m \in Nat /\ EB(E) = m /\ \A k \in 0..E : EB(k) \in 0..m
      /\ \A j, k \in 0..E : j < k => EB(j) < EB(k)
      /\ DOMAIN ev = 1..m
  BY FormulaFacts DEF BlocksInv
<1>2. /\ end \in 0..E
      /\ setting.ignore => lastBlock = ElementsAt(ev, x + 1, m)
      /\ ~setting.ignore => end = E
  BY EndFacts DEF BlocksInv
<1>3. /\ D \subseteq Existentials /\ ToSet(ev) \subseteq Existentials
      /\ ToSet(ev) \cap D = {} /\ Existentials = ToSet(ev) \cup D
      /\ \A p, q \in 1..m : ev[p] = ev[q] => p = q
  <2>1. ToSet(ev) \subseteq Existentials
    BY ListFacts DEF BlocksInv, FormulaInv
  <2>2. \A p, q \in 1..m : ev[p] = ev[q] => p = q
    BY <1>1 DEF BlocksInv, FormulaInv, IsInjective
  <2>3. D \subseteq Existentials /\ ToSet(ev) \cap D = {} /\ DOMAIN prefix = ToSet(ev) \cup D
    BY DEF BlocksInv, ExplicitsInv
  <2> QED BY <2>1, <2>2, <2>3 DEF Unread
<1>4. Implicit = ElementsAt(ev, 1, x)
  BY DEF Implicit
<1>5. Kept = IF setting.ignore THEN Existentials \ lastBlock ELSE Existentials
  BY DEF Kept
<1> HIDE DEF end, E, ev, m, x, D
<1>6. x \in 0..m
  BY <1>1, <1>2 DEF x
<1>7. ToSet(ev) = ElementsAt(ev, 1, m) /\ ElementsAt(ev, 1, m) = Implicit \cup ElementsAt(ev, x + 1, m)
  <2>1. 1..m = (1..x) \cup ((x + 1)..m)
    BY <1>1, <1>6
  <2> QED BY <1>1, <1>4, <2>1 DEF ElementsAt, ToSet
<1>8. Implicit \cap ElementsAt(ev, x + 1, m) = {}
  <2>1. \A p \in 1..x, q \in (x + 1)..m : p \in 1..m /\ q \in 1..m /\ p # q
    BY <1>1, <1>6
  <2> QED BY <1>3, <1>4, <2>1 DEF ElementsAt
<1>9. end = E => x = m /\ ElementsAt(ev, x + 1, m) = {}
  <2> SUFFICES ASSUME end = E PROVE x = m /\ ElementsAt(ev, x + 1, m) = {}
    OBVIOUS
  <2>1. x = m /\ (x + 1)..m = {}
    BY <1>1 DEF x
  <2> QED BY <2>1 DEF ElementsAt
<1>10. Kept = Implicit \cup D
  <2>1. CASE setting.ignore
    BY <1>2, <1>3, <1>5, <1>7, <1>8, <2>1
  <2>2. CASE ~setting.ignore
    <3>1. ElementsAt(ev, x + 1, m) = {}
      BY <1>2, <1>9, <2>2
    <3> QED BY <1>3, <1>5, <1>7, <2>2, <3>1
  <2> QED BY <2>1, <2>2
<1>11. end = E => Implicit = ToSet(ev) /\ Kept = Existentials
  BY <1>3, <1>7, <1>9, <1>10
<1>12. ASSUME end < E PROVE x < m /\ ev[m] \in Existentials \ Kept
  <2>1. x < m
    BY <1>1, <1>2, <1>12 DEF x
  <2>2. setting.ignore
    BY <1>1, <1>2, <1>12
  <2>3. m \in (x + 1)..m
    BY <1>1, <1>6, <2>1
  <2>4. ev[m] \in ElementsAt(ev, x + 1, m)
    BY <2>3 DEF ElementsAt
  <2>5. ev[m] \in ToSet(ev)
    BY <1>7, <2>4
  <2> QED BY <1>2, <1>3, <1>5, <2>1, <2>2, <2>4, <2>5
<1>13. Implicit \cap D = {} /\ Implicit \subseteq ToSet(ev) /\ Kept \subseteq Existentials
  BY <1>3, <1>7, <1>10
<1> QED BY <1>10, <1>11, <1>12, <1>13 DEF end, E, ev, m, x, D

LEMMA SetListed ==
    ASSUME NEW S, IsFiniteSet(S)
    PROVE  SetToSeq(S) \in Seq(S) /\ IsInjective(SetToSeq(S)) /\ ToSet(SetToSeq(S)) = S
<1> DEFINE n == Cardinality(S)
           f == SetToSeq(S)
<1>1. n \in Nat
  BY FS_CardinalityType
<1>2. PICK g : g \in Bijection(1..n, S)
  BY <1>1, FS_NatBijection, FS_CardinalityType DEF ExistsBijection
<1>3. g \in [1..n -> S] /\ IsInjective(g)
  BY <1>2 DEF Bijection, Injection, IsInjective
<1>4. f \in [1..n -> S] /\ IsInjective(f)
  BY <1>3 DEF SetToSeq
<1> HIDE DEF f
<1>5. f \in Surjection(1..n, S)
  <2>1. f \in Injection(1..n, S)
    BY <1>4 DEF Injection, IsInjective
  <2>2. IsFiniteSet(1..n) /\ Cardinality(1..n) = n
    BY <1>1, FS_Interval
  <2> QED BY <2>1, <2>2, FS_Injection
<1>6. f \in Seq(S)
  BY <1>1, <1>4, ListIsSeq
<1>7. ToSet(f) = S
  <2>1. DOMAIN f = 1..n
    BY <1>4
  <2> HIDE DEF n
  <2> QED BY <1>4, <1>5, <2>1 DEF ToSet, Surjection
<1> QED BY <1>4, <1>6, <1>7 DEF f

\* Who may read whom among the variables with explicit dependencies.
LEMMA ExplicitReadFacts ==
    ASSUME BlocksInv, NEW v \in DOMAIN explicit_dependencies, NEW w \in DOMAIN explicit_dependencies
    PROVE  ExplicitRead(v, Sorted(explicit_dependencies[v]), w, Sorted(explicit_dependencies[w]))
              <=> MayRead(prefix, w, v)
<1> DEFINE l == Sorted(explicit_dependencies[v])
           k == Sorted(explicit_dependencies[w])
<1>1. /\ l \in Seq(Universals) /\ IsInjective(l) /\ ToSet(l) = prefix[v]
      /\ k \in Seq(Universals) /\ IsInjective(k) /\ ToSet(k) = prefix[w]
  BY ExplicitFacts
<1> HIDE DEF l, k
<1>2. /\ Includes(l, k) <=> prefix[w] \subseteq prefix[v]
      /\ prefix[w] \subseteq prefix[v] => (Len(l) = Len(k) <=> prefix[v] = prefix[w])
  BY <1>1, Comparisons
<1>3. ExplicitRead(v, l, w, k) <=> Includes(l, k) /\ (Len(l) = Len(k) => w < v)
  BY DEF ExplicitRead
<1>4. ExplicitRead(v, l, w, k) <=> MayRead(prefix, w, v)
  BY <1>2, <1>3 DEF MayRead
<1> QED BY <1>4 DEF l, k
\* A variable is appended to the list of what e may read, or not.
LEMMA ListExtended ==
    ASSUME NEW l, NEW e, NEW known, ListsReads(l, e, known), prefix[e] \subseteq Universals,
           NEW v \in Existentials, v \notin known
    PROVE  ListsReads(IF MayRead(prefix, v, e) THEN Append(l, v) ELSE l, e, known \cup {v})
<1> DEFINE readable == prefix[e] \cup {d \in Existentials : MayRead(prefix, d, e)}
<1>1. l \in Seq(Nat) /\ IsInjective(l) /\ ToSet(l) = readable \cap (Universals \cup known)
  BY DEF ListsReads
<1>2. v \in Nat /\ v \notin Universals /\ v \notin ToSet(l)
  BY <1>1, PrefixAssumption
<1>3. v \in readable <=> MayRead(prefix, v, e)
  BY <1>2
<1>4. CASE MayRead(prefix, v, e)
  <2>1. v \in readable
    BY <1>3, <1>4
  <2> HIDE DEF readable
  <2>2. /\ Append(l, v) \in Seq(Nat) /\ IsInjective(Append(l, v))
        /\ ToSet(Append(l, v)) = ToSet(l) \cup {v}
    <3>1. <<v>> \in Seq(Nat) /\ IsInjective(<<v>>) /\ ToSet(<<v>>) = {v}
      BY <1>2 DEF IsInjective, ToSet
    <3>2. ToSet(l) \cap ToSet(<<v>>) = {}
      BY <1>2, <3>1
    <3>3. Append(l, v) = l \o <<v>>
      BY <1>1, <1>2, AppendIsConcat
    <3>4. /\ l \o <<v>> \in Seq(Nat) /\ IsInjective(l \o <<v>>)
          /\ ToSet(l \o <<v>>) = ToSet(l) \cup ToSet(<<v>>)
      <4> DEFINE k == <<v>>
      <4>1. k \in Seq(Nat) /\ IsInjective(k) /\ ToSet(l) \cap ToSet(k) = {}
        BY <3>1, <3>2
      <4> HIDE DEF k
      <4>2. l \o k \in Seq(Nat) /\ IsInjective(l \o k) /\ ToSet(l \o k) = ToSet(l) \cup ToSet(k)
        BY <1>1, <4>1, ListsJoin
      <4> QED BY <4>2 DEF k
    <3> QED BY <3>1, <3>3, <3>4
  <2>3. ToSet(Append(l, v)) = readable \cap (Universals \cup (known \cup {v}))
    BY <1>1, <2>1, <2>2
  <2> QED BY <1>4, <2>2, <2>3 DEF ListsReads, readable
<1>5. CASE ~MayRead(prefix, v, e)
  <2>1. v \notin readable
    BY <1>3, <1>5
  <2> HIDE DEF readable
  <2>2. ToSet(l) = readable \cap (Universals \cup (known \cup {v}))
    BY <1>1, <2>1
  <2> QED BY <1>1, <1>5, <2>2 DEF ListsReads, readable
<1> QED BY <1>4, <1>5

\* The list of a variable with explicit dependencies.
LEMMA ListStarted ==
    ASSUME BlocksInv, ExplicitInv, phase = "explicit", setting.extended,
           existential_block_idx_end \in 0..getNofExistentialBlocks,
           NEW v \in DOMAIN explicit_dependencies \ processed,
           NEW reads, reads = {w \in processed : MayRead(prefix, w, v)}
    PROVE  LET deps == Sorted(explicit_dependencies[v])
           IN  ListsReads(deps \o ImplicitRead(v, deps) \o SetToSeq(reads), v,
                          (Implicit \cup processed) \cup {v})
<1> DEFINE deps == Sorted(explicit_dependencies[v])
           l == ImplicitRead(v, deps)
           k == SetToSeq(reads)
           D == DOMAIN explicit_dependencies
<1>1. /\ deps \in Seq(Universals) /\ IsInjective(deps)
      /\ ToSet(deps) = prefix[v] /\ prefix[v] \subseteq Universals /\ v \in Existentials
  BY ExplicitFacts
<1>2. /\ l \in Seq(Existentials) /\ IsInjective(l)
      /\ ToSet(l) = {e \in Implicit : MayRead(prefix, e, v)}
  BY ImplicitReadFound
<1>3. processed \subseteq D /\ D \subseteq Existentials
  BY DEF ExplicitInv, BlocksInv, ExplicitsInv
<1>4. k \in Seq(reads) /\ IsInjective(k) /\ ToSet(k) = reads
  <2>1. IsFiniteSet(reads)
    BY <1>3, PrefixAssumption, FS_Subset
  <2> QED BY <2>1, SetListed
<1>5. Implicit \subseteq ToSet(existential_variables) /\ Implicit \cap D = {} /\ ToSet(existential_variables) \subseteq Existentials
  <2>1. Implicit \subseteq ToSet(existential_variables)
    <3>1. EB(existential_block_idx_end) \in 0..Len(existential_variables)
          /\ DOMAIN existential_variables = 1..Len(existential_variables)
          /\ Len(existential_variables) \in Nat
      BY FormulaFacts DEF BlocksInv
    <3>2. \A p \in 1..EB(existential_block_idx_end) : p \in DOMAIN existential_variables
      BY <3>1
    <3> QED BY <3>2 DEF Implicit, ElementsAt, ToSet
  <2>2. ToSet(existential_variables) \subseteq Existentials
    BY ListFacts DEF BlocksInv, FormulaInv
  <2> QED BY <2>1, <2>2 DEF BlocksInv, ExplicitsInv
<1> HIDE DEF deps, l, k, D
<1>6. deps \in Seq(Nat) /\ l \in Seq(Nat) /\ k \in Seq(Nat)
  <2>1. reads \subseteq Nat
    BY <1>3, PrefixAssumption
  <2> QED BY <1>1, <1>2, <1>4, <2>1, PrefixAssumption, ExtractorAssumption, SeqMonotonic
<1>7. /\ deps \o l \in Seq(Nat) /\ IsInjective(deps \o l)
      /\ ToSet(deps \o l) = ToSet(deps) \cup ToSet(l)
  <2>1. ToSet(deps) \cap ToSet(l) = {}
    BY <1>1, <1>2, <1>5, PrefixAssumption
  <2> QED BY <1>1, <1>2, <1>6, <2>1, ListsJoin
<1> DEFINE s == deps \o l
<1>8. ToSet(s) \cap ToSet(k) = {}
  BY <1>1, <1>2, <1>3, <1>4, <1>5, <1>7, PrefixAssumption DEF D
<1>9. s \in Seq(Nat) /\ IsInjective(s) /\ ToSet(s) = ToSet(deps) \cup ToSet(l)
  BY <1>7
<1> HIDE DEF s
<1>10. s \o k \in Seq(Nat) /\ IsInjective(s \o k) /\ ToSet(s \o k) = ToSet(s) \cup ToSet(k)
  BY <1>4, <1>6, <1>8, <1>9, ListsJoin
<1>11. ~MayRead(prefix, v, v)
  <2>1. v \in Nat
    BY <1>1, PrefixAssumption
  <2>2. ~(v < v)
    BY <2>1
  <2> QED BY <2>2 DEF MayRead
<1>12. ToSet(s \o k) = (prefix[v] \cup {d \in Existentials : MayRead(prefix, d, v)})
                           \cap (Universals \cup ((Implicit \cup processed) \cup {v}))
  <2>1. ToSet(s \o k) = prefix[v] \cup {e \in Implicit : MayRead(prefix, e, v)}
                                  \cup {e \in processed : MayRead(prefix, e, v)}
    BY <1>1, <1>2, <1>4, <1>9, <1>10
  <2>2. Implicit \subseteq Existentials /\ processed \subseteq Existentials
        /\ Universals \cap Existentials = {} /\ prefix[v] \subseteq Universals
    BY <1>1, <1>3, <1>5, PrefixAssumption
  <2> QED BY <1>11, <2>1, <2>2
<1> QED BY <1>10, <1>12 DEF ListsReads, s, deps, l, k

\* Every variable that is known has an entry, unless one of the ignored block is meant.
LEMMA ReadersKnown ==
    ASSUME BlocksInv, ExplicitInv, phase = "explicit", setting.extended, setting \in ExtractorSettings,
           existential_block_idx_end \in 0..getNofExistentialBlocks,
           NEW v \in DOMAIN explicit_dependencies \ processed,
           NEW others, others = {w \in processed : MayRead(prefix, v, w)}
    PROVE  LET readers == ImplicitReaders(v, Sorted(explicit_dependencies[v])) \cup others
               known == Implicit \cup processed
           IN
           \/ /\ ~(readers \subseteq known) /\ existential_block_idx_end < getNofExistentialBlocks
              /\ \E e \in Implicit : prefix[v] \subseteq prefix[e]
           \/ /\ readers \subseteq known
              /\ \A e \in known : e \in readers <=> MayRead(prefix, v, e)
              /\ existential_block_idx_end < getNofExistentialBlocks =>
                    \A e \in Implicit : ~ (prefix[v] \subseteq prefix[e])
<1> DEFINE end == existential_block_idx_end
           E == getNofExistentialBlocks
           ev == existential_variables
           m == Len(ev)
           x == EB(end)
           D == DOMAIN explicit_dependencies
           implicits == ImplicitReaders(v, Sorted(explicit_dependencies[v]))
           readers == implicits \cup others
           known == Implicit \cup processed
<1>1. \/ implicits = {} /\ \A e \in Implicit : ~ (prefix[v] \subseteq prefix[e])
      \/ /\ \E e \in Implicit : prefix[v] \subseteq prefix[e]
         /\ \E r \in 0..x :
               /\ implicits = ElementsAt(ev, r + 1, m)
               /\ \A p \in 1..x : MayRead(prefix, v, ev[p]) <=> p > r
  BY ReadersFound
<1>2. processed \subseteq D /\ Unread = {} /\ universal_variables # <<>>
  BY DEF ExplicitInv
<1>3. /\ Kept = Implicit \cup D /\ Implicit \cap D = {}
      /\ end < E => x < m /\ ev[m] \in Existentials \ Kept
  BY <1>2, KeptFacts
<1>4. /\ m \in Nat /\ E \in Nat /\ EB(E) = m /\ x \in 0..m
      /\ \A p, q \in 1..m : ev[p] = ev[q] => p = q
  <2>1. /\ m \in Nat /\ E \in Nat /\ EB(E) = m /\ DOMAIN ev = 1..m /\ \A k \in 0..E : EB(k) \in 0..m
    BY FormulaFacts DEF BlocksInv
  <2> QED BY <2>1 DEF BlocksInv, FormulaInv, IsInjective
<1>5. Implicit = ElementsAt(ev, 1, x) /\ end \in 0..E
  BY DEF Implicit
<1> HIDE DEF end, E, ev, m, x, D, implicits
<1>6. CASE implicits = {} /\ \A e \in Implicit : ~ (prefix[v] \subseteq prefix[e])
  <2>1. \A e \in Implicit : ~MayRead(prefix, v, e)
    BY <1>6 DEF MayRead
  <2>2. readers \subseteq known /\ \A e \in known : e \in readers <=> MayRead(prefix, v, e)
    BY <1>2, <1>3, <1>6, <2>1
  <2> QED BY <1>6, <2>2 DEF implicits, end, E
<1>7. ASSUME \E e \in Implicit : prefix[v] \subseteq prefix[e],
             NEW r \in 0..x, implicits = ElementsAt(ev, r + 1, m),
             \A p \in 1..x : MayRead(prefix, v, ev[p]) <=> p > r
      PROVE  \/ ~(readers \subseteq known) /\ end < E
             \/ /\ readers \subseteq known /\ ~(end < E)
                /\ \A e \in known : e \in readers <=> MayRead(prefix, v, e)
  <2>1. CASE end < E
    <3>1. m \in (r + 1)..m
      BY <1>3, <1>4, <2>1
    <3>2. ev[m] \in readers
      BY <1>7, <3>1 DEF ElementsAt
    <3>3. ev[m] \notin known
      BY <1>2, <1>3, <2>1
    <3> QED BY <2>1, <3>2, <3>3
  <2>2. CASE ~(end < E)
    <3>1. end = E /\ x = m
      BY <1>4, <1>5, <2>2 DEF x
    <3>2. \A p \in (r + 1)..m : p \in 1..x /\ p > r
      BY <1>4, <3>1
    <3>3. \A p \in 1..x : p > r => p \in (r + 1)..m
      BY <1>4, <3>1
    <3>4. implicits = {e \in Implicit : MayRead(prefix, v, e)}
      <4>1. implicits \subseteq {e \in Implicit : MayRead(prefix, v, e)}
        BY <1>5, <1>7, <3>2 DEF ElementsAt
      <4>2. {e \in Implicit : MayRead(prefix, v, e)} \subseteq implicits
        BY <1>5, <1>7, <3>3 DEF ElementsAt
      <4> QED BY <4>1, <4>2
    <3> QED BY <1>2, <1>3, <2>2, <3>4
  <2> QED BY <2>1, <2>2
<1>8. CASE /\ \E e \in Implicit : prefix[v] \subseteq prefix[e]
           /\ \E r \in 0..x :
                 /\ implicits = ElementsAt(ev, r + 1, m)
                 /\ \A p \in 1..x : MayRead(prefix, v, ev[p]) <=> p > r
  <2>1. \/ ~(readers \subseteq known) /\ end < E
        \/ /\ readers \subseteq known /\ ~(end < E)
           /\ \A e \in known : e \in readers <=> MayRead(prefix, v, e)
    BY <1>7, <1>8
  <2> QED BY <1>8, <2>1 DEF implicits, end, E
<1> QED BY <1>1, <1>6, <1>8
LEMMA KnownFacts ==
    ASSUME BlocksInv, setting \in ExtractorSettings, ExplicitInv, phase = "explicit"
    PROVE  /\ existential_block_idx_end \in 0..getNofExistentialBlocks
           /\ DOMAIN original_dependency_map = Implicit \cup processed
           /\ processed \subseteq DOMAIN explicit_dependencies
           /\ Implicit \cap DOMAIN explicit_dependencies = {}
           /\ Kept = Implicit \cup DOMAIN explicit_dependencies /\ Kept \subseteq Existentials
           /\ \A e \in Kept : prefix[e] \subseteq Universals
<1>1. /\ Unread = {} /\ universal_variables # <<>> /\ processed \subseteq DOMAIN explicit_dependencies
      /\ DOMAIN original_dependency_map = Implicit \cup processed
  BY DEF ExplicitInv
<1>2. existential_block_idx_end \in 0..getNofExistentialBlocks
  BY <1>1, EndFacts DEF BlocksInv
<1>3. /\ Kept = Implicit \cup DOMAIN explicit_dependencies
      /\ Implicit \cap DOMAIN explicit_dependencies = {} /\ Kept \subseteq Existentials
  BY <1>1, KeptFacts
<1>4. \A e \in Existentials : prefix[e] \subseteq Universals
  BY <1>1 DEF Unread, BlocksInv, ExplicitsInv
<1> QED BY <1>1, <1>2, <1>3, <1>4

LEMMA AddExplicitStep ==
    ASSUME BlocksInv, setting \in ExtractorSettings, ExplicitInv, phase = "explicit", setting.extended,
           NEW v \in DOMAIN explicit_dependencies \ processed, AddExplicit(v),
           UNCHANGED <<setting, formulaVars, meaningVars>>
    PROVE  \/ ExplicitInv' /\ phase' = "explicit"
           \/ phase' = "thrown" /\ IgnoredReader
<1> DEFINE D == DOMAIN explicit_dependencies
           deps == Sorted(explicit_dependencies[v])
           od == original_dependency_map
           all == extended_dependencies
           known == Implicit \cup processed
           reads == {w \in processed : MayRead(prefix, w, v)}
           others == {w \in processed : MayRead(prefix, v, w)}
           readers == ImplicitReaders(v, deps) \cup others
           entry == deps \o ImplicitRead(v, deps) \o SetToSeq(reads)
<1>1. /\ existential_block_idx_end \in 0..getNofExistentialBlocks
      /\ DOMAIN od = known /\ processed \subseteq D /\ Implicit \cap D = {}
      /\ Kept = Implicit \cup D /\ Kept \subseteq Existentials
      /\ \A e \in Kept : prefix[e] \subseteq Universals
  BY KnownFacts
<1>2. /\ \A w \in processed : od[w] = Sorted(explicit_dependencies[w])
      /\ \A e \in Implicit : od[e] = increasing(prefix[e])
      /\ Unread = {} /\ universal_variables # <<>>
      /\ BlocksGrow(existential_variables) /\ BlocksSorted(existential_variables)
      /\ DOMAIN all = known
      /\ \A e \in known : ListsReads(all[e], e, known)
      /\ existential_block_idx_end < getNofExistentialBlocks =>
            \A w \in processed, e \in Implicit : ~ (prefix[w] \subseteq prefix[e])
  BY <1>1 DEF ExplicitInv, ExtendedInv
<1>3. {w \in processed : ExplicitRead(v, deps, w, od[w])} = reads
  BY <1>1, <1>2, ExplicitReadFacts
<1>4. {w \in processed : ExplicitRead(w, od[w], v, deps)} = others
  BY <1>1, <1>2, ExplicitReadFacts
<1>5. \/ /\ ~(readers \subseteq known) /\ existential_block_idx_end < getNofExistentialBlocks
         /\ \E e \in Implicit : prefix[v] \subseteq prefix[e]
      \/ /\ readers \subseteq known
         /\ \A e \in known : e \in readers <=> MayRead(prefix, v, e)
         /\ existential_block_idx_end < getNofExistentialBlocks =>
               \A e \in Implicit : ~ (prefix[v] \subseteq prefix[e])
  BY <1>1, ReadersKnown
<1>6. ListsReads(entry, v, known \cup {v})
  BY <1>1, ListStarted
<1>7. IF readers \subseteq known
      THEN /\ extended_dependencies' =
                 [e \in known \cup {v} |->
                     IF e = v THEN entry ELSE IF e \in readers THEN Append(all[e], v) ELSE all[e]]
           /\ original_dependency_map' = [e \in known \cup {v} |-> IF e = v THEN deps ELSE od[e]]
           /\ processed' = processed \cup {v}
           /\ UNCHANGED phase
      ELSE phase' = "thrown"
  BY <1>1, <1>2, <1>3, <1>4 DEF AddExplicit
<1>8. UNCHANGED <<setting, first_block_type, universal_variables, universal_blocks, existential_variables,
                  existential_blocks, explicit_dependencies, prefix, lastBlock>>
  BY DEF formulaVars, meaningVars
<1> HIDE DEF deps, od, all, known, reads, others, readers, entry
<1>9. CASE ~(readers \subseteq known)
  <2>1. phase' = "thrown"
    BY <1>7, <1>9
  <2>2. existential_block_idx_end < getNofExistentialBlocks
        /\ \E e \in Implicit : prefix[v] \subseteq prefix[e]
    BY <1>5, <1>9
  <2>3. Existentials \ Kept # {}
    BY <1>2, <2>2, KeptFacts
  <2>4. \A e \in Implicit : e \in Kept \ D
    BY <1>1
  <2> QED BY <2>1, <2>2, <2>3, <2>4 DEF IgnoredReader, D
<1>10. CASE readers \subseteq known
  <2>1. /\ extended_dependencies' =
              [e \in known \cup {v} |->
                  IF e = v THEN entry ELSE IF e \in readers THEN Append(all[e], v) ELSE all[e]]
        /\ original_dependency_map' = [e \in known \cup {v} |-> IF e = v THEN deps ELSE od[e]]
        /\ processed' = processed \cup {v} /\ phase' = "explicit"
    BY <1>7, <1>10
  <2>2. /\ \A e \in known : e \in readers <=> MayRead(prefix, v, e)
        /\ existential_block_idx_end < getNofExistentialBlocks =>
              \A e \in Implicit : ~ (prefix[v] \subseteq prefix[e])
    BY <1>5, <1>10
  <2>3. v \notin known /\ v \in Existentials /\ known \subseteq Kept
    BY <1>1 DEF known, D
  <2>4. \A e \in known \cup {v} : ListsReads(extended_dependencies'[e], e, known \cup {v})
    <3> SUFFICES ASSUME NEW e \in known \cup {v}
                 PROVE  ListsReads(extended_dependencies'[e], e, known \cup {v})
      OBVIOUS
    <3>1. CASE e = v
      BY <1>6, <2>1, <3>1
    <3>2. CASE e # v
      <4>1. e \in known /\ prefix[e] \subseteq Universals /\ ListsReads(all[e], e, known)
        BY <1>1, <1>2, <2>3, <3>2
      <4>2. ListsReads(IF MayRead(prefix, v, e) THEN Append(all[e], v) ELSE all[e], e, known \cup {v})
        BY <2>3, <4>1, ListExtended
      <4>3. extended_dependencies'[e] = IF MayRead(prefix, v, e) THEN Append(all[e], v) ELSE all[e]
        BY <2>1, <2>2, <3>2, <4>1
      <4> QED BY <4>2, <4>3
    <3> QED BY <3>1, <3>2
  <2>5. /\ getNofExistentialBlocks' = getNofExistentialBlocks
        /\ existential_block_idx_end' = existential_block_idx_end
        /\ Implicit' = Implicit /\ Unread' = Unread
        /\ BlocksGrow(existential_variables)' /\ BlocksSorted(existential_variables)'
    <3>1. /\ getNofExistentialBlocks' = getNofExistentialBlocks
          /\ existential_block_idx_end' = existential_block_idx_end
          /\ Implicit' = Implicit /\ Unread' = Unread
      BY <1>8 DEF getNofExistentialBlocks, existential_block_idx_end, lastBlockType, Implicit, EB, Unread
    <3>2. BlocksGrow(existential_variables)'
      BY <1>2, <1>8 DEF getNofExistentialBlocks, EB, BlocksGrow
    <3>3. BlocksSorted(existential_variables)'
      BY <1>2, <1>8, <3>1 DEF EB, BlocksSorted
    <3> QED BY <3>1, <3>2, <3>3
  <2>6. known \cup {v} = Implicit \cup processed'
    BY <2>1 DEF known
  <2>7. ExtendedInv'
    <3>1. DOMAIN extended_dependencies' = known \cup {v} /\ DOMAIN original_dependency_map' = known \cup {v}
      BY <2>1
    <3>2. ASSUME NEW e \in known \cup {v}
          PROVE  ListsReads(extended_dependencies[e], e, DOMAIN original_dependency_map)'
      <4>1. ListsReads(extended_dependencies'[e], e, DOMAIN original_dependency_map')
        BY <2>4, <3>1
      <4> QED BY <1>8, <4>1 DEF ListsReads, MayRead
    <3>3. existential_block_idx_end' < getNofExistentialBlocks' =>
              \A w \in processed', e \in Implicit' : ~ (prefix'[w] \subseteq prefix'[e])
      BY <1>2, <1>8, <2>1, <2>2, <2>5
    <3>4. \A e \in DOMAIN original_dependency_map' :
              ListsReads(extended_dependencies[e], e, DOMAIN original_dependency_map)'
      BY <3>1, <3>2
    <3> QED BY <3>1, <3>3, <3>4 DEF ExtendedInv
  <2>8. /\ DOMAIN original_dependency_map' = Implicit \cup processed'
        /\ \A e \in Implicit : original_dependency_map'[e] = increasing(prefix[e])
        /\ \A e \in processed' : original_dependency_map'[e] = Sorted(explicit_dependencies[e])
    <3>1. DOMAIN original_dependency_map' = Implicit \cup processed'
      BY <2>1, <2>6
    <3>2. ASSUME NEW e \in Implicit PROVE original_dependency_map'[e] = increasing(prefix[e])
      <4>1. e \in known /\ e # v
        BY <2>3 DEF known
      <4> QED BY <1>2, <2>1, <4>1
    <3>3. ASSUME NEW e \in processed' PROVE original_dependency_map'[e] = Sorted(explicit_dependencies[e])
      <4>1. CASE e = v
        BY <2>1, <4>1 DEF deps
      <4>2. CASE e # v
        <5>1. e \in processed /\ e \in known
          BY <2>1, <4>2 DEF known
        <5> QED BY <1>2, <2>1, <4>2, <5>1
      <4> QED BY <4>1, <4>2
    <3> QED BY <3>1, <3>2, <3>3
  <2>9. processed' \subseteq D
    BY <1>1, <2>1 DEF D
  <2>10. ExplicitInv'
    BY <1>2, <1>8, <2>1, <2>5, <2>7, <2>8, <2>9 DEF ExplicitInv, D
  <2> QED BY <2>1, <2>10
<1> QED BY <1>9, <1>10

LEMMA CopyExplicitStep ==
    ASSUME BlocksInv, setting \in ExtractorSettings, ExplicitInv, phase = "explicit", ~setting.extended,
           NEW v \in DOMAIN explicit_dependencies \ processed, CopyExplicit(v),
           UNCHANGED <<setting, formulaVars, meaningVars>>
    PROVE  ExplicitInv' /\ phase' = "explicit"
<1>1. /\ original_dependency_map' = [e \in DOMAIN original_dependency_map \cup {v} |->
            IF e = v THEN explicit_dependencies[v] ELSE original_dependency_map[e]]
      /\ processed' = processed \cup {v} /\ phase' = "explicit"
  BY DEF CopyExplicit
<1>2. UNCHANGED <<setting, first_block_type, universal_variables, universal_blocks, existential_variables,
                  existential_blocks, explicit_dependencies, prefix, lastBlock>>
  BY DEF formulaVars, meaningVars
<1>3. /\ DOMAIN original_dependency_map = Implicit \cup processed
      /\ Implicit \cap DOMAIN explicit_dependencies = {}
  BY KnownFacts
<1>4. /\ Implicit' = Implicit /\ Unread' = Unread
      /\ BlocksGrow(existential_variables)' <=> BlocksGrow(existential_variables)
  BY <1>2 DEF getNofExistentialBlocks, existential_block_idx_end, lastBlockType, Implicit, EB,
       Unread, BlocksGrow
<1>5. /\ \A e \in Implicit : original_dependency_map'[e] = original_dependency_map[e]
      /\ \A e \in processed' : original_dependency_map'[e]
                                  = IF e = v THEN explicit_dependencies[v] ELSE original_dependency_map[e]
      /\ DOMAIN original_dependency_map' = Implicit \cup processed'
  BY <1>1, <1>3
<1> QED BY <1>1, <1>2, <1>4, <1>5 DEF ExplicitInv
LEMMA SortedAgain ==
    ASSUME NEW A \in SUBSET Nat, IsFiniteSet(A)
    PROVE  Sorted(increasing(A)) = increasing(A) /\ ToSet(increasing(A)) = A
BY IncreasingFacts DEF Sorted

LEMMA EndStep ==
    ASSUME BlocksInv, setting \in ExtractorSettings, ExplicitInv, phase = "explicit",
           processed = DOMAIN explicit_dependencies
    PROVE  /\ DOMAIN original_dependency_map = Kept
           /\ \A e \in Kept :
                 /\ ToSet(original_dependency_map[e]) = prefix[e]
                 /\ setting.extended \/ e \notin DOMAIN explicit_dependencies
                    => original_dependency_map[e] = Sorted(original_dependency_map[e])
           /\ setting.extended =>
                 /\ ~IgnoredReader
                 /\ DOMAIN extended_dependencies = Kept
                 /\ \A e \in Kept :
                       /\ IsInjective(extended_dependencies[e])
                       /\ ToSet(extended_dependencies[e])
                             = computeExtendedDependencies(prefix)[e] \cap (Universals \cup Kept)
<1> DEFINE D == DOMAIN explicit_dependencies
           od == original_dependency_map
           all == extended_dependencies
           end == existential_block_idx_end
           E == getNofExistentialBlocks
<1>1. /\ end \in 0..E
      /\ DOMAIN od = Implicit \cup processed /\ processed = D /\ Implicit \cap D = {}
      /\ Kept = Implicit \cup D /\ Kept \subseteq Existentials
      /\ \A e \in Kept : prefix[e] \subseteq Universals
  BY KnownFacts
<1>2. /\ \A e \in processed :
            od[e] = IF setting.extended THEN Sorted(explicit_dependencies[e]) ELSE explicit_dependencies[e]
      /\ \A e \in Implicit : od[e] = increasing(prefix[e])
      /\ Unread = {} /\ universal_variables # <<>>
      /\ setting.extended => ExtendedInv
  BY DEF ExplicitInv
<1>3. ASSUME NEW e \in Kept
      PROVE  /\ ToSet(od[e]) = prefix[e]
             /\ setting.extended \/ e \notin D => od[e] = Sorted(od[e])
  <2>1. CASE e \in Implicit
    <3>1. prefix[e] \in SUBSET Nat /\ IsFiniteSet(prefix[e])
      BY <1>1, PrefixAssumption, ExtractorAssumption, FS_Subset
    <3>2. od[e] = increasing(prefix[e])
      BY <1>2, <2>1
    <3> QED BY <3>1, <3>2, SortedAgain
  <2>2. CASE e \in D
    <3>1. od[e] = IF setting.extended THEN Sorted(explicit_dependencies[e]) ELSE explicit_dependencies[e]
      BY <1>1, <1>2, <2>2
    <3>2. /\ ToSet(Sorted(explicit_dependencies[e])) = prefix[e]
          /\ ToSet(explicit_dependencies[e]) = prefix[e]
          /\ Sorted(Sorted(explicit_dependencies[e])) = Sorted(explicit_dependencies[e])
      BY <2>2, ExplicitFacts
    <3> QED BY <2>2, <3>1, <3>2
  <2> QED BY <1>1, <2>1, <2>2
<1>4. ASSUME setting.extended
      PROVE  /\ ~IgnoredReader
             /\ DOMAIN all = Kept
             /\ \A e \in Kept :
                   /\ IsInjective(all[e])
                   /\ ToSet(all[e]) = computeExtendedDependencies(prefix)[e] \cap (Universals \cup Kept)
  <2>1. /\ DOMAIN all = Kept
        /\ \A e \in Kept : ListsReads(all[e], e, Kept)
        /\ end < E => \A v \in D, e \in Implicit : ~ (prefix[v] \subseteq prefix[e])
    BY <1>1, <1>2, <1>4 DEF ExtendedInv
  <2>2. ~IgnoredReader
    <3> SUFFICES ASSUME IgnoredReader PROVE FALSE
      OBVIOUS
    <3>1. Existentials # Kept
      BY DEF IgnoredReader
    <3>2. end # E
      BY <1>2, <3>1, KeptFacts
    <3>3. end < E
      <4>1. E \in Nat
        BY FormulaFacts DEF BlocksInv
      <4> HIDE DEF end, E
      <4> QED BY <1>1, <3>2, <4>1
    <3> QED BY <1>1, <2>1, <3>3 DEF IgnoredReader
  <2>3. ASSUME NEW e \in Kept
        PROVE  /\ IsInjective(all[e])
               /\ ToSet(all[e]) = computeExtendedDependencies(prefix)[e] \cap (Universals \cup Kept)
    <3>1. e \in Existentials /\ ListsReads(all[e], e, Kept)
      BY <1>1, <2>1
    <3> QED BY <3>1 DEF ListsReads, computeExtendedDependencies
  <2> QED BY <2>1, <2>2, <2>3
<1> QED BY <1>1, <1>3, <1>4

\* Without universals every variable reads the smaller ones.
LEMMA NoUniversalsStep ==
    ASSUME BlocksInv, phase = "reading", Unread = {}, universal_variables = <<>>
    PROVE  LET all == increasing(Existentials)
               visited(e) == SubSeq(all, 1, (CHOOSE p \in DOMAIN all : all[p] = e) - 1)
           IN  \A e \in Existentials :
                  /\ prefix[e] = {}
                  /\ IsInjective(visited(e))
                  /\ ToSet(visited(e)) = computeExtendedDependencies(prefix)[e] \cap (Universals \cup Existentials)
<1> DEFINE all == increasing(Existentials)
           visited(e) == SubSeq(all, 1, (CHOOSE p \in DOMAIN all : all[p] = e) - 1)
           ev == existential_variables
           m == Len(ev)
<1>1. ASSUME NEW e \in Existentials PROVE prefix[e] = {}
  <2>1. e \in ToSet(ev) \cup DOMAIN explicit_dependencies
    BY DEF Unread, BlocksInv, ExplicitsInv
  <2>2. CASE e \in DOMAIN explicit_dependencies
    <3>1. prefix[e] \subseteq ToSet(universal_variables)
      BY <2>2 DEF BlocksInv, ExplicitsInv
    <3> QED BY <3>1 DEF ToSet
  <2>3. CASE e \in ToSet(ev)
    <3>1. DOMAIN ev = 1..m /\ getNofUniversalBlocks = 0 /\ Len(universal_variables) = 0
          /\ \A k \in 1..(getNofUniversalBlocks + 1) : universal_blocks[k] \in 0..Len(universal_variables)
      BY FormulaFacts DEF BlocksInv
    <3>2. PICK p \in 1..m : e = ev[p]
      BY <2>3, <3>1 DEF ToSet
    <3>3. BlockAt(p) \in 0..(getNofExistentialBlocks - 1) /\ p \in (EB(BlockAt(p)) + 1)..EB(BlockAt(p) + 1)
      BY BlockAtFacts DEF BlocksInv
    <3>4. prefix[e] = ElementsAt(universal_variables, 1, universal_blocks[UniversalIndex(BlockAt(p)) + 1])
      BY <3>2, <3>3 DEF BlocksInv, ReadingInv
    <3>5. UniversalIndex(BlockAt(p)) = 0
      BY <3>1, <3>3, IndexFacts DEF BlocksInv
    <3>6. universal_blocks[UniversalIndex(BlockAt(p)) + 1] = 0
      BY <3>1, <3>5
    <3> QED BY <3>4, <3>6 DEF ElementsAt
  <2> QED BY <2>1, <2>2, <2>3
<1>2. /\ all \in Seq(Existentials) /\ Increasing(all) /\ ToSet(all) = Existentials /\ IsInjective(all)
  BY PrefixAssumption, IncreasingFacts
<1>3. Len(all) \in Nat /\ DOMAIN all = 1..Len(all) /\ \A p \in 1..Len(all) : all[p] \in Nat
  BY <1>2, LenProperties, PrefixAssumption, ElementOfSeq
<1> HIDE DEF all
<1>4. ASSUME NEW e \in Existentials
      PROVE  /\ IsInjective(visited(e))
             /\ ToSet(visited(e)) = computeExtendedDependencies(prefix)[e] \cap (Universals \cup Existentials)
  <2> DEFINE p == CHOOSE q \in DOMAIN all : all[q] = e
  <2>1. p \in DOMAIN all /\ all[p] = e
    BY <1>2 DEF ToSet
  <2>2. visited(e) = SubSeq(all, 1, p - 1)
    OBVIOUS
  <2> HIDE DEF p, visited
  <2>3. p - 1 \in 0..Len(all)
    BY <1>3, <2>1
  <2>4. IsInjective(visited(e)) /\ ToSet(visited(e)) = ElementsAt(all, 1, p - 1)
    BY <1>2, <2>2, <2>3, ListStart
  <2>5. \A q \in DOMAIN all : q \in 1..(p - 1) <=> all[q] < e
    <3> SUFFICES ASSUME NEW q \in DOMAIN all PROVE q \in 1..(p - 1) <=> all[q] < all[p]
      BY <2>1
    <3>1. (q < p => all[q] < all[p]) /\ (p < q => all[p] < all[q])
      BY <1>2, <2>1 DEF Increasing
    <3>2. all[p] \in Nat /\ all[q] \in Nat /\ p \in 1..Len(all) /\ q \in 1..Len(all)
      BY <1>3, <2>1
    <3> QED BY <1>3, <3>1, <3>2
  <2>6. \A d \in Existentials : MayRead(prefix, d, e) <=> d < e
    BY <1>1 DEF MayRead
  <2>7. ElementsAt(all, 1, p - 1) = {d \in Existentials : d < e}
    <3>1. 1..(p - 1) \subseteq DOMAIN all
      BY <1>3, <2>1
    <3>2. ElementsAt(all, 1, p - 1) \subseteq {d \in Existentials : d < e}
      BY <1>2, <2>5, <3>1 DEF ElementsAt, ToSet
    <3>3. {d \in Existentials : d < e} \subseteq ElementsAt(all, 1, p - 1)
      BY <1>2, <2>5 DEF ElementsAt, ToSet
    <3> QED BY <3>2, <3>3
  <2>8. computeExtendedDependencies(prefix)[e] = {d \in Existentials : d < e}
    BY <1>1, <2>6 DEF computeExtendedDependencies
  <2> QED BY <2>4, <2>7, <2>8
<1> HIDE DEF visited
<1> QED BY <1>1, <1>4 DEF visited, all
--------------------------------------------------------------------------------
(***************************************************************************)
(* The invariant of the extraction.                                        *)
(***************************************************************************)
PhasesInv ==
    /\ setting \in ExtractorSettings
    /\ phase \in {"reading", "explicit", "done", "thrown"}
    /\ phase # "reading" => universal_variables # <<>> \/ existential_variables # <<>>

ExtractorInv == PhasesInv /\ BlocksInv /\ ExplicitInv /\ DependenciesOfPrefix /\ ExtendedExact

\* What the last two say only of the end of the extraction.
LEMMA NotEnded ==
    phase \notin {"done", "thrown"} => DependenciesOfPrefix /\ ExtendedExact
BY DEF DependenciesOfPrefix, ExtendedExact

LEMMA InvariantUnchanged == ExtractorInv /\ UNCHANGED extractorVars => ExtractorInv'
<1> SUFFICES ASSUME ExtractorInv, UNCHANGED extractorVars PROVE ExtractorInv'
  OBVIOUS
<1>1. UNCHANGED <<setting, first_block_type, universal_variables, universal_blocks, existential_variables,
                  existential_blocks, explicit_dependencies, prefix, lastBlock, original_dependency_map,
                  extended_dependencies, processed, phase>>
  BY DEF extractorVars, formulaVars, meaningVars, resultVars
<1>2. BlocksInv'
  BY ExtractorUnchanged DEF ExtractorInv
<1>3. /\ Kept' = Kept /\ getNofExistentialBlocks' = getNofExistentialBlocks
      /\ existential_block_idx_end' = existential_block_idx_end
      /\ Implicit' = Implicit /\ Unread' = Unread
  BY <1>1 DEF getNofExistentialBlocks, existential_block_idx_end, lastBlockType, Implicit, EB, Unread, Kept
<1>4. DependenciesOfPrefix'
  BY <1>1, <1>3 DEF ExtractorInv, DependenciesOfPrefix
<1>5. ExtendedExact'
  <2>1. IgnoredReader' <=> IgnoredReader
    BY <1>1, <1>3 DEF IgnoredReader
  <2>2. computeExtendedDependencies(prefix)' = computeExtendedDependencies(prefix)
    BY <1>1 DEF computeExtendedDependencies, MayRead
  <2> QED BY <1>1, <1>3, <2>1, <2>2 DEF ExtractorInv, ExtendedExact
<1>6. ExplicitInv'
  <2>1. BlocksGrow(existential_variables)' <=> BlocksGrow(existential_variables)
    BY <1>1, <1>3 DEF BlocksGrow, EB
  <2>2. BlocksSorted(existential_variables)' <=> BlocksSorted(existential_variables)
    BY <1>1, <1>3 DEF BlocksSorted, EB
  <2>3. ExtendedInv' <=> ExtendedInv
    BY <1>1, <1>3 DEF ExtendedInv, ListsReads, MayRead
  <2> QED BY <1>1, <1>3, <2>1, <2>2, <2>3 DEF ExtractorInv, ExplicitInv
<1>7. PhasesInv'
  BY <1>1 DEF ExtractorInv, PhasesInv
<1> QED BY <1>2, <1>4, <1>5, <1>6, <1>7 DEF ExtractorInv

\* The lines of the formula leave the phase as it is.
LEMMA FormulaPhase ==
    ASSUME parseFormula
    PROVE  phase' = phase /\ setting' = setting
<1>1. \A vs : addUniversalBlock(vs) => phase' = phase /\ setting' = setting
  BY DEF addUniversalBlock
<1>2. \A vs : addExistentialBlock(vs) => phase' = phase /\ setting' = setting
  BY DEF addExistentialBlock
<1>3. \A v, vs : addExplicitDependencies(v, vs) => phase' = phase /\ setting' = setting
  BY DEF addExplicitDependencies
<1>4. UNCHANGED extractorVars => phase' = phase /\ setting' = setting
  BY DEF extractorVars
<1>5. \A x : Fails(x) => phase' = phase /\ setting' = setting
  BY <1>4, Zenon DEF Fails
<1>6. \A words : parseUniversalBlock(words) => phase' = phase /\ setting' = setting
  BY <1>1, <1>5, Zenon DEF parseUniversalBlock
<1>7. \A words : parseExistentialBlock(words) => phase' = phase /\ setting' = setting
  BY <1>2, <1>5, Zenon DEF parseExistentialBlock
<1>8. \A words : parseDependencyBlock(words) => phase' = phase /\ setting' = setting
  BY <1>3, <1>5, Zenon DEF parseDependencyBlock
<1>9. \A words : parseClause(words) => phase' = phase /\ setting' = setting
  BY <1>4, <1>5, Zenon DEF parseClause, parserVars
<1>10. \A first : parseOther(first) => phase' = phase /\ setting' = setting
  BY <1>4, <1>5, Zenon DEF parseOther, parserVars
<1> QED BY <1>6, <1>7, <1>8, <1>9, <1>10, Zenon DEF parseFormula

LEMMA ExtractImplicitKeeps ==
    ASSUME ExtractorInv, ExtractImplicit
    PROVE  ExtractorInv'
<1>1. /\ phase = "reading" /\ Unread = {}
      /\ universal_variables # <<>> \/ existential_variables # <<>>
      /\ IF universal_variables = <<>> THEN NoUniversals ELSE ImplicitDependencies
      /\ UNCHANGED <<setting, first_block_type, universal_blocks, existential_blocks,
                     explicit_dependencies, prefix, lastBlock, processed>>
  BY DEF ExtractImplicit, meaningVars
<1>2. BlocksInv /\ setting \in ExtractorSettings
  BY DEF ExtractorInv, PhasesInv
<1>3. CASE universal_variables # <<>>
  <2>1. existential_block_idx_end \in 0..getNofExistentialBlocks
    BY <1>1, <1>2, EndFacts DEF BlocksInv
  <2>2. BlocksInv' /\ ExplicitInv'
    BY <1>1, <1>2, <1>3, <2>1, ImplicitStep
  <2>3. phase' = "explicit"
    BY <1>1, <1>3 DEF ImplicitDependencies
  <2>4. PhasesInv'
    BY <1>1, <1>2, <2>2, <2>3 DEF ExplicitInv, PhasesInv
  <2>5. DependenciesOfPrefix' /\ ExtendedExact'
    BY <2>3 DEF DependenciesOfPrefix, ExtendedExact
  <2> QED BY <2>2, <2>4, <2>5 DEF ExtractorInv
<1>4. CASE universal_variables = <<>>
  <2> DEFINE all == increasing(Existentials)
             visited(e) == SubSeq(all, 1, (CHOOSE p \in DOMAIN all : all[p] = e) - 1)
  <2>1. /\ original_dependency_map' = [e \in Existentials |-> <<>>]
        /\ extended_dependencies' = [e \in Extended(Existentials) |-> visited(e)]
        /\ phase' = "done" /\ universal_variables' = universal_variables
        /\ existential_variables' = existential_variables
    BY <1>1, <1>4 DEF NoUniversals
  <2>2. \A e \in Existentials :
           /\ prefix[e] = {} /\ IsInjective(visited(e))
           /\ ToSet(visited(e)) = computeExtendedDependencies(prefix)[e] \cap (Universals \cup Existentials)
    BY <1>1, <1>2, <1>4, NoUniversalsStep
  <2> HIDE DEF visited
  <2>3. BlocksInv'
    <3>1. FormulaInv'
      BY <1>1, <1>2, <2>1, BlocksUnchanged DEF BlocksInv
    <3>2. ExplicitsInv'
      BY <1>1, <1>2, <2>1 DEF BlocksInv, ExplicitsInv
    <3>3. ReadingInv'
      BY <2>1 DEF ReadingInv
    <3> QED BY <3>1, <3>2, <3>3 DEF BlocksInv
  <2>4. Kept' = Existentials
    BY <1>4, <2>1 DEF Kept
  <2>5. DependenciesOfPrefix'
    <3>1. Sorted(<<>>) = <<>> /\ ToSet(<<>>) = {}
      <4>1. ToSet(<<>>) = {}
        BY DEF ToSet
      <4>2. IsFiniteSet({}) /\ Cardinality({}) = 0
        BY FS_EmptySet
      <4>3. increasing({}) \in Seq({}) /\ Len(increasing({})) = 0
        BY <4>2, IncreasingFacts
      <4> QED BY <4>1, <4>3, EmptySeq DEF Sorted
    <3> QED BY <1>1, <2>1, <2>2, <2>4, <3>1 DEF DependenciesOfPrefix
  <2>6. ExtendedExact'
    <3>1. ~IgnoredReader'
      BY <2>4 DEF IgnoredReader
    <3>2. setting.extended => extended_dependencies' = [e \in Existentials |-> visited(e)]
      BY <2>1 DEF Extended
    <3>3. computeExtendedDependencies(prefix)' = computeExtendedDependencies(prefix)
      BY <1>1 DEF computeExtendedDependencies, MayRead
    <3> QED BY <1>1, <2>1, <2>2, <2>4, <3>1, <3>2, <3>3 DEF ExtendedExact
  <2>7. PhasesInv' /\ ExplicitInv'
    BY <1>1, <1>2, <2>1 DEF PhasesInv, ExplicitInv
  <2> QED BY <2>3, <2>5, <2>6, <2>7 DEF ExtractorInv
<1> QED BY <1>3, <1>4

\* After the blocks are sorted the lines of the formula and its blocks stay.
LEMMA BlocksStay ==
    ASSUME BlocksInv, UNCHANGED <<formulaVars, meaningVars>>, phase' # "reading"
    PROVE  BlocksInv'
<1>1. UNCHANGED <<first_block_type, universal_variables, universal_blocks, existential_variables,
                  existential_blocks, explicit_dependencies, prefix, lastBlock>>
  BY DEF formulaVars, meaningVars
<1>2. FormulaInv'
  BY <1>1, BlocksUnchanged DEF BlocksInv
<1>3. ExplicitsInv'
  BY <1>1 DEF BlocksInv, ExplicitsInv
<1>4. ReadingInv'
  BY DEF ReadingInv
<1> QED BY <1>2, <1>3, <1>4 DEF BlocksInv

LEMMA ExtractExplicitKeeps ==
    ASSUME ExtractorInv, NEW v, ExtractExplicit(v)
    PROVE  ExtractorInv'
<1>1. /\ phase = "explicit" /\ v \in DOMAIN explicit_dependencies \ processed
      /\ IF setting.extended THEN AddExplicit(v) ELSE CopyExplicit(v)
      /\ UNCHANGED <<setting, formulaVars, meaningVars>>
  BY DEF ExtractExplicit
<1>2. BlocksInv /\ setting \in ExtractorSettings /\ ExplicitInv
  BY DEF ExtractorInv, PhasesInv
<1>3. \/ ExplicitInv' /\ phase' = "explicit"
      \/ phase' = "thrown" /\ setting.extended /\ IgnoredReader
  <2>1. CASE setting.extended
    <3>1. AddExplicit(v)
      BY <1>1, <2>1
    <3> QED BY <1>1, <1>2, <2>1, <3>1, AddExplicitStep
  <2>2. CASE ~setting.extended
    <3>1. CopyExplicit(v)
      BY <1>1, <2>2
    <3> QED BY <1>1, <1>2, <2>2, <3>1, CopyExplicitStep
  <2> QED BY <2>1, <2>2
<1>4. phase' \in {"explicit", "thrown"}
  BY <1>3
<1>5. BlocksInv'
  BY <1>1, <1>2, <1>4, BlocksStay
<1>6. PhasesInv'
  BY <1>1, <1>2, <1>4 DEF ExtractorInv, PhasesInv, ExplicitInv, formulaVars
<1>7. CASE phase' = "explicit"
  <2>1. DependenciesOfPrefix' /\ ExtendedExact'
    BY <1>7 DEF DependenciesOfPrefix, ExtendedExact
  <2> QED BY <1>3, <1>5, <1>6, <1>7, <2>1 DEF ExtractorInv
<1>8. CASE phase' = "thrown"
  <2>1. setting.extended /\ IgnoredReader
    BY <1>3, <1>8
  <2>2. IgnoredReader' /\ setting'.extended
    BY <1>1, <2>1 DEF IgnoredReader, Kept, formulaVars, meaningVars
  <2>3. DependenciesOfPrefix' /\ ExtendedExact' /\ ExplicitInv'
    BY <1>8, <2>2 DEF DependenciesOfPrefix, ExtendedExact, ExplicitInv
  <2> QED BY <1>5, <1>6, <2>3 DEF ExtractorInv
<1> QED BY <1>4, <1>7, <1>8

LEMMA EndExtractionKeeps ==
    ASSUME ExtractorInv, EndExtraction
    PROVE  ExtractorInv'
<1>1. /\ phase = "explicit" /\ processed = DOMAIN explicit_dependencies /\ phase' = "done"
      /\ UNCHANGED <<setting, formulaVars, meaningVars, resultVars>>
  BY DEF EndExtraction
<1>2. BlocksInv /\ setting \in ExtractorSettings /\ ExplicitInv
  BY DEF ExtractorInv, PhasesInv
<1>3. UNCHANGED <<setting, first_block_type, universal_variables, universal_blocks, existential_variables,
                  existential_blocks, explicit_dependencies, prefix, lastBlock, original_dependency_map,
                  extended_dependencies, processed>>
  BY <1>1 DEF formulaVars, meaningVars, resultVars
<1>4. /\ DOMAIN original_dependency_map = Kept
      /\ \A e \in Kept :
            /\ ToSet(original_dependency_map[e]) = prefix[e]
            /\ setting.extended \/ e \notin DOMAIN explicit_dependencies
               => original_dependency_map[e] = Sorted(original_dependency_map[e])
      /\ setting.extended =>
            /\ ~IgnoredReader
            /\ DOMAIN extended_dependencies = Kept
            /\ \A e \in Kept :
                  /\ IsInjective(extended_dependencies[e])
                  /\ ToSet(extended_dependencies[e])
                        = computeExtendedDependencies(prefix)[e] \cap (Universals \cup Kept)
  BY <1>1, <1>2, EndStep
<1>5. Kept' = Kept /\ (IgnoredReader' <=> IgnoredReader)
      /\ computeExtendedDependencies(prefix)' = computeExtendedDependencies(prefix)
  <2>1. Kept' = Kept
    BY <1>3 DEF Kept
  <2>2. IgnoredReader' <=> IgnoredReader
    BY <1>3, <2>1 DEF IgnoredReader
  <2>3. computeExtendedDependencies(prefix)' = computeExtendedDependencies(prefix)
    BY <1>3 DEF computeExtendedDependencies, MayRead
  <2> QED BY <2>1, <2>2, <2>3
<1>6. DependenciesOfPrefix'
  BY <1>3, <1>4, <1>5 DEF DependenciesOfPrefix
<1>7. ExtendedExact'
  BY <1>1, <1>3, <1>4, <1>5 DEF ExtendedExact
<1>8. BlocksInv'
  BY <1>1, <1>2, BlocksStay
<1>9. PhasesInv' /\ ExplicitInv'
  BY <1>1, <1>2, <1>3 DEF PhasesInv, ExplicitInv
<1> QED BY <1>6, <1>7, <1>8, <1>9 DEF ExtractorInv
LEMMA ExtractorStarts == ParserInit => ExtractorInv
<1> SUFFICES ASSUME ParserInit PROVE ExtractorInv
  OBVIOUS
<1>1. /\ setting \in ExtractorSettings /\ first_block_type \in BOOLEAN
      /\ universal_variables = <<>> /\ universal_blocks = <<0>>
      /\ existential_variables = <<>> /\ existential_blocks = <<0>>
      /\ explicit_dependencies = [v \in {} |-> <<>>] /\ prefix = [v \in {} |-> {}]
      /\ lastBlock = {} /\ processed = {} /\ phase = "reading"
  BY DEF ParserInit, ExtractorInit
<1>2. getNofUniversalBlocks = 0 /\ getNofExistentialBlocks = 0
  BY <1>1 DEF getNofUniversalBlocks, getNofExistentialBlocks
<1>3. BlockEnds(<<0>>, 0)
  BY DEF BlockEnds, Increasing
<1>4. <<>> \in Seq(Universals) /\ <<>> \in Seq(Existentials) /\ IsInjective(<<>>) /\ Len(<<>>) = 0
      /\ ToSet(<<>>) = {}
  BY DEF IsInjective, ToSet
<1>5. FormulaInv
  <2>1. Alternate(first_block_type, getNofUniversalBlocks, getNofExistentialBlocks)
    BY <1>2 DEF Alternate
  <2>2. lastBlock = IF getNofExistentialBlocks > 0 /\ ~lastBlockType(first_block_type)
                    THEN ElementsAt(existential_variables, EB(getNofExistentialBlocks - 1) + 1,
                                    EB(getNofExistentialBlocks))
                    ELSE {}
    BY <1>1, <1>2
  <2> QED BY <1>1, <1>3, <1>4, <2>1, <2>2 DEF FormulaInv
<1>6. ExplicitsInv
  BY <1>1, <1>4 DEF ExplicitsInv
<1>7. ReadingInv
  BY <1>1, <1>2 DEF ReadingInv
<1>8. PhasesInv /\ ExplicitInv /\ DependenciesOfPrefix /\ ExtendedExact
  BY <1>1, NotEnded DEF PhasesInv, ExplicitInv
<1> QED BY <1>5, <1>6, <1>7, <1>8 DEF ExtractorInv, BlocksInv

LEMMA ExtractorSteps == ExtractorInv /\ [ParserNext]_parserVars => ExtractorInv'
<1> SUFFICES ASSUME ExtractorInv, [ParserNext]_parserVars PROVE ExtractorInv'
  OBVIOUS
<1>1. \/ UNCHANGED extractorVars
      \/ parseFormula
      \/ ExtractImplicit
      \/ \E v \in Existentials : ExtractExplicit(v)
      \/ EndExtraction
  <2>1. UNCHANGED parserVars => UNCHANGED extractorVars
    BY DEF parserVars
  <2>2. \A first : processPrefix(first) => UNCHANGED extractorVars
    BY <2>1, Zenon DEF processPrefix, Fails
  <2>3. \A words : parsePrefix(words) => UNCHANGED extractorVars
    BY Zenon DEF parsePrefix, Fails
  <2> QED BY <2>1, <2>2, <2>3, Zenon DEF ParserNext, Extraction
<1>2. CASE UNCHANGED extractorVars
  BY <1>2, InvariantUnchanged
<1>3. CASE parseFormula
  <2>1. BlocksInv'
    BY <1>3, FormulaParsed DEF ExtractorInv
  <2>2. phase' = "reading" /\ setting' \in ExtractorSettings
    <3>1. phase = "reading" /\ setting \in ExtractorSettings
      BY <1>3 DEF parseFormula, ExtractorInv, PhasesInv
    <3> QED BY <1>3, <3>1, FormulaPhase
  <2> QED BY <2>1, <2>2 DEF ExtractorInv, PhasesInv, ExplicitInv, DependenciesOfPrefix, ExtendedExact
<1>4. CASE ExtractImplicit
  BY <1>4, ExtractImplicitKeeps
<1>5. CASE \E v \in Existentials : ExtractExplicit(v)
  BY <1>5, ExtractExplicitKeeps
<1>6. CASE EndExtraction
  BY <1>6, EndExtractionKeeps
<1> QED BY <1>1, <1>2, <1>3, <1>4, <1>5, <1>6

LEMMA InnermostFound == ExtractorInv => InnermostRecognised
<1> SUFFICES ASSUME ExtractorInv PROVE InnermostRecognised
  OBVIOUS
<1>1. FormulaInv /\ setting \in ExtractorSettings
  BY DEF ExtractorInv, PhasesInv, BlocksInv
<1>2. universal_variables # <<>> \/ existential_variables # <<>>
         => (lastBlock = {} <=> lastBlockType(first_block_type))
  BY <1>1, EndFacts
<1>3. ASSUME phase = "reading", universal_variables \o existential_variables # <<>>
      PROVE  lastBlock = {} <=> lastBlockType(first_block_type)
  <2>1. universal_variables # <<>> \/ existential_variables # <<>>
    BY <1>3
  <2> QED BY <1>2, <2>1
<1>4. ASSUME phase \in {"explicit", "done"}, setting.ignore PROVE InnermostBlock = lastBlock
  <2>1. lastBlock = {} <=> lastBlockType(first_block_type)
    BY <1>2, <1>4 DEF ExtractorInv, PhasesInv
  <2>2. lastBlock = IF getNofExistentialBlocks > 0 /\ ~lastBlockType(first_block_type)
                    THEN ElementsAt(existential_variables, EB(getNofExistentialBlocks - 1) + 1,
                                    EB(getNofExistentialBlocks))
                    ELSE {}
    BY <1>1 DEF FormulaInv
  <2>3. CASE lastBlockType(first_block_type)
    BY <2>1, <2>3, Zenon DEF InnermostBlock
  <2>4. CASE ~lastBlockType(first_block_type)
    <3>1. getNofExistentialBlocks > 0 /\ getNofExistentialBlocks \in Nat
      BY <1>1, <2>1, <2>2, <2>4, FormulaFacts
    <3>2. getNofExistentialBlocks - 1 \in 0..(getNofExistentialBlocks - 1)
          /\ (getNofExistentialBlocks - 1) + 1 = getNofExistentialBlocks
      BY <3>1
    <3>3. ToSet(Block(getNofExistentialBlocks - 1))
             = ElementsAt(existential_variables, EB(getNofExistentialBlocks - 1) + 1,
                          EB(getNofExistentialBlocks))
      BY <1>1, <3>2, BlockFacts
    <3>4. InnermostBlock = ToSet(Block(getNofExistentialBlocks - 1))
      BY <1>4, <2>4, Zenon DEF InnermostBlock
    <3> QED BY <2>2, <2>4, <3>1, <3>3, <3>4
  <2> QED BY <2>3, <2>4
<1> QED BY <1>3, <1>4 DEF InnermostRecognised

\* The state of the extraction is always as the invariant says: blocks of both
\* types alternate and hold the variables of the lines, and the dependencies are
\* complete for the variables looked at so far.
THEOREM ExtractorKeepsInvariant == ParserSpec => []ExtractorInv
<1> QED BY ExtractorStarts, ExtractorSteps, PTL DEF ParserSpec

\* Whatever the lines, the block that is ignored is the one the prefix ends with.
THEOREM ParserRecognisesInnermost == ParserSpec => []InnermostRecognised
<1> QED BY ExtractorKeepsInvariant, InnermostFound, PTL

\* Whatever the lines, the dependencies are those the lines describe, in order.
THEOREM ParserGivesDependencies == ParserSpec => []DependenciesOfPrefix
<1>1. ExtractorInv => DependenciesOfPrefix
  BY DEF ExtractorInv
<1> QED BY <1>1, ExtractorKeepsInvariant, PTL

\* Whatever the lines and the order of the map, the binary searches and the sorted
\* blocks give each variable exactly those the reference allows it to read, and
\* the extraction ends with an exception exactly if the ignored block is meant.
THEOREM ParserGivesExtended == ParserSpec => []ExtendedExact
<1>1. ExtractorInv => ExtendedExact
  BY DEF ExtractorInv
<1> QED BY <1>1, ExtractorKeepsInvariant, PTL
================================================================================
