------------------------------ MODULE SupportProofs ------------------------------
(***************************************************************************)
(* Proofs about the support tracker and its graph separator, for every     *)
(* conflict graph: there is a minimum cut nearest the sources, it severs   *)
(* internal edges of vertices that are not forbidden, and what is read off *)
(* it determines the conflict.                                             *)
(*                                                                         *)
(* The first part is about any graph the separator is given.  Minimum cuts *)
(* are closed under taking the smaller source side, so the smallest one is *)
(* unique; cutting all sources costs less than one penalty; and an edge    *)
(* that is cut between two vertices could be moved towards the source.     *)
(* The second part is about the two traversals that build the graph.       *)
(***************************************************************************)
EXTENDS SupportTracker, FiniteSetTheorems, TLAPS

--------------------------------------------------------------------------------
(***************************************************************************)
(* Counting.                                                               *)
(***************************************************************************)

\* A nonempty set of numbers has a least one.
LEMMA LeastNumber ==
    ASSUME NEW S \in SUBSET Nat, S # {}
    PROVE  \E m \in S : \A n \in S : m <= n
<1>1. PICK m \in S : \A n \in S : ~ (<<n, m>> \in OpToRel(<, Nat))
  BY NatLessThanWellFounded, WFMin
<1>2. \A n \in S : ~ (n < m)
  BY <1>1 DEF OpToRel
<1> QED BY <1>2

\* Two sets that together, and in common, have no more than two others.
LEMMA FewerTogether ==
    ASSUME NEW A, NEW B, NEW C, NEW D,
           IsFiniteSet(A), IsFiniteSet(B), IsFiniteSet(C), IsFiniteSet(D),
           A \cup B \subseteq C \cup D, A \cap B \subseteq C \cap D
    PROVE  Cardinality(A) + Cardinality(B) <= Cardinality(C) + Cardinality(D)
<1>1. /\ Cardinality(A \cup B) = Cardinality(A) + Cardinality(B) - Cardinality(A \cap B)
      /\ Cardinality(C \cup D) = Cardinality(C) + Cardinality(D) - Cardinality(C \cap D)
      /\ IsFiniteSet(C \cup D)
  BY FS_Union
<1>2. IsFiniteSet(C \cap D) /\ IsFiniteSet(A \cap B)
  BY FS_Intersection
<1>3. Cardinality(A \cup B) <= Cardinality(C \cup D)
  BY <1>1, FS_Subset
<1>4. Cardinality(A \cap B) <= Cardinality(C \cap D)
  BY <1>2, FS_Subset
<1>5. /\ Cardinality(A) \in Nat /\ Cardinality(B) \in Nat
      /\ Cardinality(C) \in Nat /\ Cardinality(D) \in Nat
      /\ Cardinality(A \cap B) \in Nat /\ Cardinality(C \cap D) \in Nat
  BY <1>2, FS_CardinalityType
<1> QED BY <1>1, <1>3, <1>4, <1>5

\* As many internal edges as vertices.
LEMMA InternalEdges ==
    ASSUME NEW S, IsFiniteSet(S)
    PROVE  /\ IsFiniteSet({<<v, v>> : v \in S})
           /\ Cardinality({<<v, v>> : v \in S}) = Cardinality(S)
<1> DEFINE T == {<<v, v>> : v \in S}
           f == [v \in S |-> <<v, v>>]
<1>1. f \in [S -> T] /\ \A t \in T : \E v \in S : f[v] = t
  OBVIOUS
<1>2. f \in Surjection(S, T)
  BY <1>1 DEF Surjection
<1>3. \A v, w \in S : f[v] = f[w] => v = w
  OBVIOUS
<1>4. f \in Injection(S, T)
  BY <1>1, <1>3 DEF Injection, IsInjective
<1> HIDE DEF f, T
<1> QED BY <1>2, <1>4, FS_Surjection DEF T

LEMMA ProductMonotone ==
    ASSUME NEW k \in Nat, NEW a \in Nat, NEW b \in Nat, NEW c \in Nat, NEW d \in Nat,
           a + b <= c + d
    PROVE  k * a + k * b <= k * c + k * d
<1> DEFINE x == (c + d) - (a + b)
<1>1. x \in Nat /\ c + d = a + b + x
  OBVIOUS
<1>2. k * c + k * d = k * (c + d) /\ k * a + k * b = k * (a + b)
  OBVIOUS
<1> HIDE DEF x
<1>3. k * (a + b + x) = k * (a + b) + k * x
  BY <1>1
<1>4. k * x \in Nat /\ k * (a + b) \in Nat
  BY <1>1
<1> QED BY <1>1, <1>2, <1>3, <1>4

--------------------------------------------------------------------------------
(***************************************************************************)
(* Cuts of any graph.                                                      *)
(***************************************************************************)
GraphOK(g) ==
    /\ IsFiniteSet(g.vertices) /\ Terminal \notin g.vertices
    /\ g.edges \subseteq g.vertices \X g.vertices /\ \A v \in g.vertices : <<v, v>> \notin g.edges
    /\ g.vertA \subseteq g.vertices /\ g.vertB \subseteq g.vertices
    /\ g.unpreferred \subseteq g.vertA /\ g.vertA \cap g.forbidden = {}

cut(g, r) == cutOf(networkEdges(g), r)
cost(g, r) == weight(g, cut(g, r))

\* The edges of one capacity.
ofUnpreferred(g, C) == {e \in C : e[1] \in g.unpreferred}
ofPenalised(g, C) == {e \in C : e[1] \notin g.unpreferred /\ (e[1] = Terminal \/ e[1] \in g.forbidden)}
ofExternal(g, C) ==
    {e \in C : /\ e[2] = Terminal
               /\ ~(e[1] \in g.unpreferred \/ e[1] = Terminal \/ e[1] \in g.forbidden)}
ofInternal(g, C) ==
    {e \in C : e[2] # Terminal /\ ~(e[1] \in g.unpreferred \/ e[1] = Terminal \/ e[1] \in g.forbidden)}

\* What an edge contributes to the weight.
capacity(g, e) ==
    IF e[1] \in g.unpreferred THEN 3
    ELSE IF e[1] = Terminal \/ e[1] \in g.forbidden THEN penalty(g)
    ELSE IF e[2] = Terminal THEN 4 ELSE 2

LEMMA WeightByCapacity ==
    ASSUME NEW g, NEW C
    PROVE  weight(g, C) = 3 * Cardinality(ofUnpreferred(g, C))
                            + penalty(g) * Cardinality(ofPenalised(g, C))
                            + 4 * Cardinality(ofExternal(g, C)) + 2 * Cardinality(ofInternal(g, C))
<1> DEFINE U == Unpreferred(g, C)
           P == Penalised(g, C) \ U
           X == External(C) \ (U \cup P)
<1>1. U = ofUnpreferred(g, C)
  BY DEF Unpreferred, ofUnpreferred
<1>2. P = ofPenalised(g, C)
  BY DEF Unpreferred, Penalised, ofPenalised
<1>3. X = ofExternal(g, C)
  BY DEF Unpreferred, Penalised, External, ofExternal
<1>4. C \ (U \cup P \cup X) = ofInternal(g, C)
  BY DEF Unpreferred, Penalised, External, ofInternal
<1>5. weight(g, C) = unpreferred_capacity * Cardinality(U) + penalty(g) * Cardinality(P)
                       + external_capacity * Cardinality(X)
                       + internal_capacity * Cardinality(C \ (U \cup P \cup X))
  BY DEF weight
<1> HIDE DEF U, P, X
<1> QED BY <1>1, <1>2, <1>3, <1>4, <1>5
        DEF unpreferred_capacity, external_capacity, internal_capacity

LEMMA NetworkFinite ==
    ASSUME NEW g, GraphOK(g)
    PROVE  /\ IsFiniteSet(networkEdges(g)) /\ penalty(g) \in Nat
           /\ networkEdges(g) \subseteq (g.vertices \cup {Terminal}) \X (g.vertices \cup {Terminal})
<1>1. IsFiniteSet(g.vertices \cup {Terminal})
  BY FS_AddElement DEF GraphOK
<1>2. IsFiniteSet((g.vertices \cup {Terminal}) \X (g.vertices \cup {Terminal}))
  BY <1>1, FS_Product
<1>3. networkEdges(g) \subseteq (g.vertices \cup {Terminal}) \X (g.vertices \cup {Terminal})
  BY DEF GraphOK, networkEdges
<1>4. IsFiniteSet(networkEdges(g))
  BY <1>2, <1>3, FS_Subset
<1>5. IsFiniteSet(g.vertA) /\ IsFiniteSet(g.unpreferred)
  BY FS_Subset DEF GraphOK
<1>6. Cardinality(g.vertA) \in Nat /\ Cardinality(g.unpreferred) \in Nat
  BY <1>5, FS_CardinalityType
<1> QED BY <1>3, <1>4, <1>6 DEF penalty, internal_capacity

\* The parts of a set of edges.
LEMMA PartsFinite ==
    ASSUME NEW g, GraphOK(g), NEW C \in SUBSET networkEdges(g)
    PROVE  /\ IsFiniteSet(C)
           /\ IsFiniteSet(ofUnpreferred(g, C)) /\ Cardinality(ofUnpreferred(g, C)) \in Nat
           /\ IsFiniteSet(ofPenalised(g, C)) /\ Cardinality(ofPenalised(g, C)) \in Nat
           /\ IsFiniteSet(ofExternal(g, C)) /\ Cardinality(ofExternal(g, C)) \in Nat
           /\ IsFiniteSet(ofInternal(g, C)) /\ Cardinality(ofInternal(g, C)) \in Nat
<1>1. IsFiniteSet(C)
  BY NetworkFinite, FS_Subset
<1>2. /\ ofUnpreferred(g, C) \subseteq C /\ ofPenalised(g, C) \subseteq C
      /\ ofExternal(g, C) \subseteq C /\ ofInternal(g, C) \subseteq C
  BY DEF ofUnpreferred, ofPenalised, ofExternal, ofInternal
<1>3. /\ IsFiniteSet(ofUnpreferred(g, C)) /\ IsFiniteSet(ofPenalised(g, C))
      /\ IsFiniteSet(ofExternal(g, C)) /\ IsFiniteSet(ofInternal(g, C))
  BY <1>1, <1>2, FS_Subset
<1> QED BY <1>1, <1>3, FS_CardinalityType

LEMMA WeightType ==
    ASSUME NEW g, GraphOK(g), NEW C \in SUBSET networkEdges(g)
    PROVE  weight(g, C) \in Nat
<1>1. penalty(g) \in Nat
  BY NetworkFinite
<1>2. penalty(g) * Cardinality(ofPenalised(g, C)) \in Nat
  BY <1>1, PartsFinite
<1> QED BY <1>2, WeightByCapacity, PartsFinite

\* Two sets of edges that together, and in common, have no more than two others weigh
\* no more.
LEMMA WeighsLess ==
    ASSUME NEW g, GraphOK(g),
           NEW A \in SUBSET networkEdges(g), NEW B \in SUBSET networkEdges(g),
           NEW C \in SUBSET networkEdges(g), NEW D \in SUBSET networkEdges(g),
           A \cup B \subseteq C \cup D, A \cap B \subseteq C \cap D
    PROVE  weight(g, A) + weight(g, B) <= weight(g, C) + weight(g, D)
<1>1. Cardinality(ofUnpreferred(g, A)) + Cardinality(ofUnpreferred(g, B))
        <= Cardinality(ofUnpreferred(g, C)) + Cardinality(ofUnpreferred(g, D))
  <2>1. /\ ofUnpreferred(g, A) \cup ofUnpreferred(g, B)
             \subseteq ofUnpreferred(g, C) \cup ofUnpreferred(g, D)
        /\ ofUnpreferred(g, A) \cap ofUnpreferred(g, B)
             \subseteq ofUnpreferred(g, C) \cap ofUnpreferred(g, D)
    BY DEF ofUnpreferred
  <2> QED BY <2>1, PartsFinite, FewerTogether
<1>2. Cardinality(ofPenalised(g, A)) + Cardinality(ofPenalised(g, B))
        <= Cardinality(ofPenalised(g, C)) + Cardinality(ofPenalised(g, D))
  <2>1. /\ ofPenalised(g, A) \cup ofPenalised(g, B)
             \subseteq ofPenalised(g, C) \cup ofPenalised(g, D)
        /\ ofPenalised(g, A) \cap ofPenalised(g, B)
             \subseteq ofPenalised(g, C) \cap ofPenalised(g, D)
    BY DEF ofPenalised
  <2> QED BY <2>1, PartsFinite, FewerTogether
<1>3. Cardinality(ofExternal(g, A)) + Cardinality(ofExternal(g, B))
        <= Cardinality(ofExternal(g, C)) + Cardinality(ofExternal(g, D))
  <2>1. /\ ofExternal(g, A) \cup ofExternal(g, B) \subseteq ofExternal(g, C) \cup ofExternal(g, D)
        /\ ofExternal(g, A) \cap ofExternal(g, B) \subseteq ofExternal(g, C) \cap ofExternal(g, D)
    BY DEF ofExternal
  <2> QED BY <2>1, PartsFinite, FewerTogether
<1>4. Cardinality(ofInternal(g, A)) + Cardinality(ofInternal(g, B))
        <= Cardinality(ofInternal(g, C)) + Cardinality(ofInternal(g, D))
  <2>1. /\ ofInternal(g, A) \cup ofInternal(g, B) \subseteq ofInternal(g, C) \cup ofInternal(g, D)
        /\ ofInternal(g, A) \cap ofInternal(g, B) \subseteq ofInternal(g, C) \cap ofInternal(g, D)
    BY DEF ofInternal
  <2> QED BY <2>1, PartsFinite, FewerTogether
<1> DEFINE p(S) == penalty(g) * Cardinality(ofPenalised(g, S))
<1>5. p(A) + p(B) <= p(C) + p(D)
  BY <1>2, NetworkFinite, PartsFinite, ProductMonotone
<1>6. p(A) \in Nat /\ p(B) \in Nat /\ p(C) \in Nat /\ p(D) \in Nat
  BY NetworkFinite, PartsFinite
<1>7. \A S \in {A, B, C, D} :
         weight(g, S) = 3 * Cardinality(ofUnpreferred(g, S)) + p(S)
                          + 4 * Cardinality(ofExternal(g, S)) + 2 * Cardinality(ofInternal(g, S))
  BY WeightByCapacity
<1>8. \A S \in {A, B, C, D} :
         /\ Cardinality(ofUnpreferred(g, S)) \in Nat
         /\ Cardinality(ofExternal(g, S)) \in Nat /\ Cardinality(ofInternal(g, S)) \in Nat
  BY PartsFinite
<1> HIDE DEF p
<1> QED BY <1>1, <1>3, <1>4, <1>5, <1>6, <1>7, <1>8

LEMMA SingleWeight ==
    ASSUME NEW g, GraphOK(g), NEW e \in networkEdges(g)
    PROVE  weight(g, {e}) = capacity(g, e)
<1>1. penalty(g) \in Nat
  BY NetworkFinite
<1>2. Cardinality({e}) = 1 /\ Cardinality({}) = 0
  BY FS_Singleton, FS_EmptySet
<1> DEFINE U == ofUnpreferred(g, {e})
           P == ofPenalised(g, {e})
           X == ofExternal(g, {e})
           I == ofInternal(g, {e})
<1>3. weight(g, {e}) = 3 * Cardinality(U) + penalty(g) * Cardinality(P)
                         + 4 * Cardinality(X) + 2 * Cardinality(I)
  BY WeightByCapacity
<1>4. CASE e[1] \in g.unpreferred
  <2>1. U = {e} /\ P = {} /\ X = {} /\ I = {}
    BY <1>4 DEF ofUnpreferred, ofPenalised, ofExternal, ofInternal
  <2> HIDE DEF U, P, X, I
  <2>2. penalty(g) * 0 = 0
    BY <1>1
  <2> QED BY <1>1, <1>2, <1>3, <1>4, <2>1, <2>2 DEF capacity
<1>5. CASE e[1] \notin g.unpreferred /\ (e[1] = Terminal \/ e[1] \in g.forbidden)
  <2>1. U = {} /\ P = {e} /\ X = {} /\ I = {}
    BY <1>5 DEF ofUnpreferred, ofPenalised, ofExternal, ofInternal
  <2> HIDE DEF U, P, X, I
  <2>2. penalty(g) * 1 = penalty(g)
    BY <1>1
  <2> QED BY <1>1, <1>2, <1>3, <1>5, <2>1, <2>2 DEF capacity
<1>6. CASE ~(e[1] \in g.unpreferred \/ e[1] = Terminal \/ e[1] \in g.forbidden) /\ e[2] = Terminal
  <2>1. U = {} /\ P = {} /\ X = {e} /\ I = {}
    BY <1>6 DEF ofUnpreferred, ofPenalised, ofExternal, ofInternal
  <2> HIDE DEF U, P, X, I
  <2>2. penalty(g) * 0 = 0
    BY <1>1
  <2> QED BY <1>1, <1>2, <1>3, <1>6, <2>1, <2>2 DEF capacity
<1>7. CASE ~(e[1] \in g.unpreferred \/ e[1] = Terminal \/ e[1] \in g.forbidden) /\ e[2] # Terminal
  <2>1. U = {} /\ P = {} /\ X = {} /\ I = {e}
    BY <1>7 DEF ofUnpreferred, ofPenalised, ofExternal, ofInternal
  <2> HIDE DEF U, P, X, I
  <2>2. penalty(g) * 0 = 0
    BY <1>1
  <2> QED BY <1>1, <1>2, <1>3, <1>7, <2>1, <2>2 DEF capacity
<1> QED BY <1>4, <1>5, <1>6, <1>7

\* Cutting f instead of e.
LEMMA CutInstead ==
    ASSUME NEW g, GraphOK(g), NEW C \in SUBSET networkEdges(g), NEW D \in SUBSET networkEdges(g),
           NEW e \in C, NEW f \in networkEdges(g), D \subseteq (C \ {e}) \cup {f}, e # f
    PROVE  weight(g, D) + capacity(g, e) <= weight(g, C) + capacity(g, f)
<1>1. {e} \in SUBSET networkEdges(g) /\ {f} \in SUBSET networkEdges(g)
  OBVIOUS
<1>2. D \cup {e} \subseteq C \cup {f} /\ D \cap {e} \subseteq C \cap {f}
  OBVIOUS
<1>3. weight(g, D) + weight(g, {e}) <= weight(g, C) + weight(g, {f})
  BY <1>1, <1>2, WeighsLess
<1> QED BY <1>3, SingleWeight

LEMMA CutEdge ==
    ASSUME NEW g, NEW r
    PROVE  /\ cut(g, r) \subseteq networkEdges(g)
           /\ \A e : e \in cut(g, r) <=> e \in networkEdges(g) /\ tailReached(r, e) /\ ~headReached(r, e)
           /\ cutEdges(g, r) = cut(g, r)
BY DEF cut, cutOf, cutEdges

LEMMA CostType ==
    ASSUME NEW g, GraphOK(g), NEW r
    PROVE  cost(g, r) \in Nat
BY CutEdge, WeightType DEF cost

LEMMA MinimumCutsAre ==
    ASSUME NEW g, GraphOK(g)
    PROVE  /\ MinimumCuts(g) # {}
           /\ \A r : r \in MinimumCuts(g) <=>
                        r \in Cuts(g) /\ \A t \in Cuts(g) : cost(g, r) <= cost(g, t)
<1> DEFINE weighted == {<<cost(g, r), r>> : r \in Cuts(g)}
           costs == {p[1] : p \in weighted}
           least == CHOOSE w \in costs : \A p \in weighted : w <= p[1]
<1>1. MinimumCuts(g) = {p[2] : p \in {q \in weighted : q[1] = least}}
  BY DEF MinimumCuts, cost, cut
<1>2. /\ \A r \in Cuts(g) : <<cost(g, r), r>> \in weighted
      /\ \A p \in weighted : \E r \in Cuts(g) : p = <<cost(g, r), r>>
      /\ \A p \in weighted : p[1] \in costs
      /\ \A c \in costs : \E p \in weighted : c = p[1]
  OBVIOUS
<1> HIDE DEF weighted, costs
<1>3. costs \in SUBSET Nat
  <2> SUFFICES ASSUME NEW c \in costs PROVE c \in Nat
    OBVIOUS
  <2>1. PICK p \in weighted : c = p[1]
    BY <1>2
  <2>2. PICK r \in Cuts(g) : p = <<cost(g, r), r>>
    BY <1>2
  <2> QED BY <2>1, <2>2, CostType
<1>4. costs # {}
  <2>1. [v \in g.vertices |-> 0] \in Cuts(g)
    BY DEF Cuts
  <2> QED BY <1>2, <2>1
<1>5. \E w \in costs : \A n \in costs : w <= n
  BY <1>3, <1>4, LeastNumber
<1>6. \E w \in costs : \A p \in weighted : w <= p[1]
  BY <1>2, <1>5
<1>7. least \in costs /\ \A p \in weighted : least <= p[1]
  BY <1>6
<1> HIDE DEF least
<1>8. ASSUME NEW r PROVE r \in MinimumCuts(g) <=> r \in Cuts(g) /\ cost(g, r) = least
  <2>1. ASSUME r \in MinimumCuts(g) PROVE r \in Cuts(g) /\ cost(g, r) = least
    <3>1. PICK p \in weighted : p[1] = least /\ p[2] = r
      BY <1>1, <2>1
    <3>2. PICK s \in Cuts(g) : p = <<cost(g, s), s>>
      BY <1>2
    <3> QED BY <3>1, <3>2
  <2>2. ASSUME r \in Cuts(g), cost(g, r) = least PROVE r \in MinimumCuts(g)
    <3> DEFINE p == <<cost(g, r), r>>
    <3>1. p \in weighted /\ p[1] = least /\ p[2] = r
      BY <1>2, <2>2
    <3> HIDE DEF p
    <3> QED BY <1>1, <3>1
  <2> QED BY <2>1, <2>2
<1>9. ASSUME NEW t \in Cuts(g) PROVE least <= cost(g, t)
  <2> DEFINE p == <<cost(g, t), t>>
  <2>1. p \in weighted /\ p[1] = cost(g, t)
    BY <1>2
  <2> HIDE DEF p
  <2> QED BY <1>7, <2>1
<1>10. PICK t \in Cuts(g) : cost(g, t) = least
  <2>1. PICK p \in weighted : least = p[1]
    BY <1>2, <1>7
  <2>2. PICK r \in Cuts(g) : p = <<cost(g, r), r>>
    BY <1>2
  <2> QED BY <2>1, <2>2
<1>11. least \in Nat
  BY <1>10, CostType
<1>12. t \in MinimumCuts(g)
  BY <1>8, <1>10
<1>13. ASSUME NEW r PROVE r \in MinimumCuts(g) <=>
                        r \in Cuts(g) /\ \A s \in Cuts(g) : cost(g, r) <= cost(g, s)
  <2>1. CASE r \in MinimumCuts(g)
    BY <1>8, <1>9, <2>1
  <2>2. ASSUME r \in Cuts(g), \A s \in Cuts(g) : cost(g, r) <= cost(g, s) PROVE r \in MinimumCuts(g)
    <3>1. cost(g, r) <= least /\ least <= cost(g, r) /\ cost(g, r) \in Nat
      BY <1>9, <1>10, <2>2, CostType
    <3>2. cost(g, r) = least
      BY <1>11, <3>1
    <3> QED BY <1>8, <2>2, <3>2
  <2> QED BY <2>1, <2>2
<1> QED BY <1>12, <1>13

\* The common part, and the union, of two source sides.
meet(g, r, t) == [v \in g.vertices |-> IF r[v] <= t[v] THEN r[v] ELSE t[v]]
join(g, r, t) == [v \in g.vertices |-> IF r[v] <= t[v] THEN t[v] ELSE r[v]]

LEMMA MeetCost ==
    ASSUME NEW g, GraphOK(g), NEW r \in Cuts(g), NEW t \in Cuts(g)
    PROVE  /\ meet(g, r, t) \in Cuts(g) /\ join(g, r, t) \in Cuts(g)
           /\ cost(g, meet(g, r, t)) + cost(g, join(g, r, t)) <= cost(g, r) + cost(g, t)
<1> DEFINE m == meet(g, r, t)
           j == join(g, r, t)
<1>1. r \in [g.vertices -> 0..2] /\ t \in [g.vertices -> 0..2]
  BY DEF Cuts
<1>2. m \in Cuts(g) /\ j \in Cuts(g)
  BY <1>1 DEF Cuts, meet, join
<1>3. ASSUME NEW v \in g.vertices, NEW k \in 0..2
      PROVE  /\ m[v] >= k <=> r[v] >= k /\ t[v] >= k
             /\ j[v] >= k <=> r[v] >= k \/ t[v] >= k
  <2>1. m[v] = (IF r[v] <= t[v] THEN r[v] ELSE t[v]) /\ j[v] = (IF r[v] <= t[v] THEN t[v] ELSE r[v])
    BY DEF meet, join
  <2>2. r[v] \in 0..2 /\ t[v] \in 0..2
    BY <1>1
  <2> QED BY <2>1, <2>2
<1> HIDE DEF m, j
<1>4. ASSUME NEW e \in networkEdges(g)
      PROVE  /\ tailReached(m, e) <=> tailReached(r, e) /\ tailReached(t, e)
             /\ tailReached(j, e) <=> tailReached(r, e) \/ tailReached(t, e)
             /\ headReached(m, e) <=> headReached(r, e) /\ headReached(t, e)
             /\ headReached(j, e) <=> headReached(r, e) \/ headReached(t, e)
  <2>1. /\ e[1] \in g.vertices \/ e[1] = Terminal
        /\ e[2] \in g.vertices \/ e[2] = Terminal
    BY NetworkFinite
  <2>2. ASSUME NEW q \in Cuts(g), NEW v \in g.vertices PROVE q[v] = 2 <=> q[v] >= 2
    <3>1. q[v] \in 0..2
      BY <2>2 DEF Cuts
    <3> QED BY <3>1
  <2>3. 1 \in 0..2 /\ 2 \in 0..2
    OBVIOUS
  <2>4. /\ tailReached(m, e) <=> tailReached(r, e) /\ tailReached(t, e)
        /\ tailReached(j, e) <=> tailReached(r, e) \/ tailReached(t, e)
    <3>1. CASE e[1] = Terminal
      BY <3>1 DEF tailReached
    <3>2. CASE e[1] # Terminal /\ e[1] = e[2]
      <4>1. e[1] \in g.vertices
        BY <2>1, <3>2
      <4> QED BY <1>3, <2>3, <3>2, <4>1 DEF tailReached
    <3>3. CASE e[1] # Terminal /\ e[1] # e[2]
      <4>1. e[1] \in g.vertices
        BY <2>1, <3>3
      <4> QED BY <1>2, <1>3, <2>2, <2>3, <3>3, <4>1 DEF tailReached
    <3> QED BY <3>1, <3>2, <3>3
  <2>5. /\ headReached(m, e) <=> headReached(r, e) /\ headReached(t, e)
        /\ headReached(j, e) <=> headReached(r, e) \/ headReached(t, e)
    <3>1. CASE e[2] = Terminal
      BY <3>1 DEF headReached
    <3>2. CASE e[2] # Terminal /\ e[1] = e[2]
      <4>1. e[2] \in g.vertices
        BY <2>1, <3>2
      <4> QED BY <1>3, <2>3, <3>2, <4>1 DEF headReached
    <3>3. CASE e[2] # Terminal /\ e[1] # e[2]
      <4>1. e[2] \in g.vertices
        BY <2>1, <3>3
      <4> QED BY <1>3, <2>3, <3>3, <4>1 DEF headReached
    <3> QED BY <3>1, <3>2, <3>3
  <2> QED BY <2>4, <2>5
<1>5. /\ cut(g, m) \cup cut(g, j) \subseteq cut(g, r) \cup cut(g, t)
      /\ cut(g, m) \cap cut(g, j) \subseteq cut(g, r) \cap cut(g, t)
  BY <1>4, CutEdge
<1>6. weight(g, cut(g, m)) + weight(g, cut(g, j)) <= weight(g, cut(g, r)) + weight(g, cut(g, t))
  BY <1>5, CutEdge, WeighsLess
<1> QED BY <1>2, <1>6 DEF cost, m, j

\* The nodes on the source side.
nodes(g, r) == {p \in g.vertices \X (1..2) : p[2] <= r[p[1]]}

\* One minimum cut has the smallest source side of all.
LEMMA NearestCut ==
    ASSUME NEW g, GraphOK(g)
    PROVE  /\ reachable(g) \in MinimumCuts(g)
           /\ \A t \in MinimumCuts(g), v \in g.vertices : reachable(g)[v] <= t[v]
<1> DEFINE M == MinimumCuts(g)
           N == g.vertices \X (1..2)
           Sides == {nodes(g, r) : r \in M}
<1>1. M # {} /\ M \subseteq Cuts(g)
  BY MinimumCutsAre
<1>2. IsFiniteSet(N)
  <2>1. IsFiniteSet(1..2)
    <3>1. 1 \in Int /\ 2 \in Int
      OBVIOUS
    <3> QED BY <3>1, FS_Interval
  <2> QED BY <2>1, FS_Product DEF GraphOK
<1>3. Sides \subseteq FiniteSubsetsOf(N) /\ Sides # {}
  <2>1. \A r \in M : nodes(g, r) \in SUBSET N
    BY DEF nodes
  <2>2. \A r \in M : IsFiniteSet(nodes(g, r))
    BY <1>2, <2>1, FS_Subset
  <2> QED BY <1>1, <2>1, <2>2 DEF FiniteSubsetsOf
<1>4. PICK B \in Sides : \A C \in Sides : ~ (<<C, B>> \in StrictSubsetOrdering(N))
  <2> HIDE DEF Sides, N
  <2> QED BY <1>3, FS_StrictSubsetOrderingWellFounded, WFMin
<1>5. PICK r \in M : B = nodes(g, r)
  OBVIOUS
<1>6. ASSUME NEW t \in M, NEW v \in g.vertices PROVE r[v] <= t[v]
  <2> DEFINE m == meet(g, r, t)
  <2>1. /\ m \in Cuts(g) /\ join(g, r, t) \in Cuts(g)
        /\ cost(g, m) + cost(g, join(g, r, t)) <= cost(g, r) + cost(g, t)
    BY <1>1, MeetCost
  <2>2. cost(g, t) <= cost(g, join(g, r, t)) /\ \A s \in Cuts(g) : cost(g, r) <= cost(g, s)
    BY <1>6, <2>1, MinimumCutsAre
  <2>3. /\ cost(g, m) \in Nat /\ cost(g, join(g, r, t)) \in Nat
        /\ cost(g, r) \in Nat /\ cost(g, t) \in Nat
    BY CostType
  <2>4. cost(g, m) <= cost(g, r)
    BY <2>1, <2>2, <2>3
  <2>5. \A s \in Cuts(g) : cost(g, m) <= cost(g, s)
    <3> SUFFICES ASSUME NEW s \in Cuts(g) PROVE cost(g, m) <= cost(g, s)
      OBVIOUS
    <3>1. cost(g, r) <= cost(g, s) /\ cost(g, s) \in Nat
      BY <2>2, CostType
    <3> QED BY <2>3, <2>4, <3>1
  <2>6. m \in M
    BY <2>1, <2>5, MinimumCutsAre
  <2>7. r \in [g.vertices -> 0..2] /\ t \in [g.vertices -> 0..2]
    BY <1>1 DEF Cuts
  <2>8. \A w \in g.vertices : m[w] = IF r[w] <= t[w] THEN r[w] ELSE t[w]
    BY DEF meet
  <2> HIDE DEF m
  <2>9. nodes(g, m) \subseteq nodes(g, r)
    BY <2>7, <2>8 DEF nodes
  <2>10. nodes(g, m) = nodes(g, r)
    <3>1. nodes(g, m) \in Sides /\ nodes(g, m) \in SUBSET N /\ nodes(g, r) \in SUBSET N
      BY <2>6 DEF nodes
    <3>2. ~ (<<nodes(g, m), nodes(g, r)>> \in StrictSubsetOrdering(N))
      BY <1>4, <1>5, <3>1
    <3> QED BY <2>9, <3>1, <3>2 DEF StrictSubsetOrdering
  <2>11. r[v] \in 0..2 /\ t[v] \in 0..2 /\ m[v] = IF r[v] <= t[v] THEN r[v] ELSE t[v]
    BY <1>6, <2>7, <2>8
  <2>12. CASE r[v] = 0
    BY <2>11, <2>12
  <2>13. CASE r[v] \in 1..2
    <3>1. <<v, r[v]>> \in nodes(g, r)
      BY <2>11, <2>13 DEF nodes
    <3>2. r[v] <= m[v]
      BY <2>10, <3>1 DEF nodes
    <3> QED BY <2>11, <3>2
  <2> QED BY <2>11, <2>12, <2>13
<1>7. reachable(g) = CHOOSE s \in M : \A t \in M : \A v \in g.vertices : s[v] <= t[v]
  BY DEF reachable
<1> HIDE DEF M
<1>8. \E s \in M : \A t \in M : \A v \in g.vertices : s[v] <= t[v]
  BY <1>6
<1> QED BY <1>7, <1>8 DEF M

\* Cutting the internal edges of all sources weighs less than a single penalty.
LEMMA SourcesAreCheap ==
    ASSUME NEW g, GraphOK(g)
    PROVE  \E c \in Cuts(g) : cost(g, c) < penalty(g)
<1> DEFINE c == [v \in g.vertices |-> IF v \in g.vertA THEN 1 ELSE 0]
           I == {<<v, v>> : v \in g.vertA}
           J == {<<v, v>> : v \in g.unpreferred}
<1>1. c \in Cuts(g) /\ \A v \in g.vertices : c[v] = IF v \in g.vertA THEN 1 ELSE 0
  BY DEF Cuts
<1>2. g.vertA \subseteq g.vertices /\ Terminal \notin g.vertA
  BY DEF GraphOK
<1> HIDE DEF c
<1>3. cut(g, c) \subseteq I
  <2> SUFFICES ASSUME NEW e \in cut(g, c) PROVE e \in I
    OBVIOUS
  <2>1. e \in networkEdges(g) /\ tailReached(c, e) /\ ~headReached(c, e)
    BY CutEdge
  <2>2. \A v \in g.vertices : c[v] # 2
    BY <1>1
  <2>3. CASE e[1] = Terminal
    <3>1. e[2] \in g.vertA
      BY <2>1, <2>3 DEF networkEdges, GraphOK
    <3>2. e[2] # Terminal /\ c[e[2]] >= 1 /\ e[1] # e[2]
      BY <1>1, <1>2, <2>3, <3>1
    <3> QED BY <2>1, <3>2 DEF headReached
  <2>4. CASE e[1] # Terminal /\ e[1] # e[2]
    <3>1. e[1] \in g.vertices
      BY <2>1, <2>4, NetworkFinite
    <3> QED BY <2>1, <2>2, <2>4, <3>1 DEF tailReached
  <2>5. CASE e[1] # Terminal /\ e[1] = e[2]
    <3>1. e[1] \in g.vertices /\ e = <<e[1], e[1]>>
      BY <2>1, <2>5, NetworkFinite
    <3>2. c[e[1]] >= 1
      BY <2>1, <2>5 DEF tailReached
    <3> QED BY <1>1, <3>1, <3>2
  <2> QED BY <2>3, <2>4, <2>5
<1>4. IsFiniteSet(g.vertA) /\ IsFiniteSet(g.unpreferred) /\ g.unpreferred \subseteq g.vertA
  BY FS_Subset DEF GraphOK
<1>5. /\ IsFiniteSet(I) /\ Cardinality(I) = Cardinality(g.vertA)
      /\ IsFiniteSet(J) /\ Cardinality(J) = Cardinality(g.unpreferred)
  BY <1>4, InternalEdges
<1>6. ofPenalised(g, cut(g, c)) = {} /\ ofExternal(g, cut(g, c)) = {}
  <2>1. \A e \in I : e[1] \in g.vertA /\ e[2] \in g.vertA
    OBVIOUS
  <2>2. \A e \in I : e[1] # Terminal /\ e[1] \notin g.forbidden /\ e[2] # Terminal
    BY <1>2, <2>1 DEF GraphOK
  <2> HIDE DEF I
  <2> QED BY <1>3, <2>2 DEF ofPenalised, ofExternal
<1>7. ofUnpreferred(g, cut(g, c)) \subseteq J
  BY <1>3 DEF ofUnpreferred
<1> DEFINE U == ofUnpreferred(g, cut(g, c))
           R == ofInternal(g, cut(g, c))
<1>8. /\ U \subseteq I /\ R \subseteq I /\ U \cap R = {}
  BY <1>3 DEF ofUnpreferred, ofInternal
<1> HIDE DEF I, J, U, R
<1>9. IsFiniteSet(U) /\ IsFiniteSet(R) /\ Cardinality(U) <= Cardinality(J)
  BY <1>5, <1>7, <1>8, FS_Subset DEF U
<1>10. Cardinality(U) + Cardinality(R) <= Cardinality(I)
  <2>1. Cardinality(U \cup R) = Cardinality(U) + Cardinality(R) - Cardinality(U \cap R)
    BY <1>9, FS_Union
  <2>2. Cardinality(U \cup R) <= Cardinality(I)
    <3>1. U \cup R \in SUBSET I
      BY <1>8
    <3> QED BY <1>5, <3>1, FS_Subset
  <2>3. Cardinality(U) \in Nat /\ Cardinality(R) \in Nat /\ Cardinality(U \cap R) = 0
    BY <1>8, <1>9, FS_CardinalityType, FS_EmptySet
  <2> QED BY <2>1, <2>2, <2>3
<1>11. cost(g, c) = 3 * Cardinality(U) + penalty(g) * 0 + 4 * 0 + 2 * Cardinality(R)
  BY <1>6, WeightByCapacity, FS_EmptySet DEF cost, U, R
<1>12. penalty(g) = 2 * Cardinality(I) + 1 + Cardinality(J) /\ penalty(g) \in Nat
  BY <1>5, NetworkFinite DEF penalty, internal_capacity
<1>13. /\ Cardinality(U) \in Nat /\ Cardinality(R) \in Nat
       /\ Cardinality(I) \in Nat /\ Cardinality(J) \in Nat
  BY <1>5, <1>9, FS_CardinalityType
<1>14. penalty(g) * 0 = 0
  BY <1>12
<1>15. cost(g, c) < penalty(g)
  BY <1>9, <1>10, <1>11, <1>12, <1>13, <1>14
<1> QED BY <1>1, <1>15

\* A minimum cut cuts neither an edge into the graph nor one out of a forbidden vertex.
LEMMA NothingPenalised ==
    ASSUME NEW g, GraphOK(g), NEW r \in MinimumCuts(g), NEW e \in cut(g, r)
    PROVE  e[1] \in g.vertices /\ e[1] \notin g.forbidden
<1>1. cost(g, r) < penalty(g)
  <2>1. PICK c \in Cuts(g) : cost(g, c) < penalty(g)
    BY SourcesAreCheap
  <2>2. cost(g, r) <= cost(g, c)
    BY MinimumCutsAre
  <2> QED BY <2>1, <2>2, CostType, NetworkFinite
<1>2. e \in networkEdges(g) /\ cut(g, r) \in SUBSET networkEdges(g)
  BY CutEdge
<1>3. SUFFICES ASSUME e[1] = Terminal \/ e[1] \in g.forbidden PROVE FALSE
  BY <1>2, NetworkFinite
<1>4. e[1] \notin g.unpreferred
  BY <1>3 DEF GraphOK
<1>5. capacity(g, e) = penalty(g)
  BY <1>3, <1>4 DEF capacity
<1>6. weight(g, {e}) + weight(g, {}) <= weight(g, cut(g, r)) + weight(g, {})
  <2>1. {e} \in SUBSET networkEdges(g) /\ {} \in SUBSET networkEdges(g)
    BY <1>2
  <2>2. {e} \cup {} \subseteq cut(g, r) \cup {} /\ {e} \cap {} \subseteq cut(g, r) \cap {}
    OBVIOUS
  <2> QED BY <1>2, <2>1, <2>2, WeighsLess
<1>7. weight(g, {}) \in Nat /\ weight(g, cut(g, r)) \in Nat
  BY <1>2, WeightType
<1>8. weight(g, {e}) = penalty(g) /\ penalty(g) \in Nat
  BY <1>2, <1>5, SingleWeight, NetworkFinite
<1> QED BY <1>1, <1>6, <1>7, <1>8 DEF cost

\* The minimum cut nearest the sources consists of internal edges: an edge that leaves
\* a vertex could be replaced by the one inside it.
LEMMA OnlyInternal ==
    ASSUME NEW g, GraphOK(g), NEW e \in cut(g, reachable(g))
    PROVE  e[1] = e[2]
<1> DEFINE r == reachable(g)
           x == e[1]
           s == [r EXCEPT ![x] = 1]
<1> SUFFICES ASSUME e[1] # e[2] PROVE FALSE
  OBVIOUS
<1>1. r \in MinimumCuts(g) /\ r \in Cuts(g) /\ \A t \in Cuts(g) : cost(g, r) <= cost(g, t)
  BY NearestCut, MinimumCutsAre
<1> HIDE DEF r
<1>2. x \in g.vertices /\ x \notin g.forbidden /\ x # Terminal
  BY <1>1, NothingPenalised DEF r, GraphOK
<1>3. e \in networkEdges(g) /\ tailReached(r, e)
  BY CutEdge DEF r
<1> HIDE DEF x
<1>4. r[x] = 2
  BY <1>2, <1>3 DEF tailReached, x
<1>5. s \in Cuts(g) /\ s[x] = 1 /\ \A v \in g.vertices : v # x => s[v] = r[v]
  BY <1>1, <1>2 DEF Cuts
<1> HIDE DEF s
<1>6. cut(g, s) \subseteq (cut(g, r) \ {e}) \cup {<<x, x>>}
  <2> SUFFICES ASSUME NEW f \in cut(g, s), f # <<x, x>>
               PROVE  f \in cut(g, r) /\ f # e
    OBVIOUS
  <2>1. f \in networkEdges(g) /\ tailReached(s, f) /\ ~headReached(s, f)
    BY CutEdge
  <2>2. /\ f[1] \in g.vertices \/ f[1] = Terminal
        /\ f[2] \in g.vertices \/ f[2] = Terminal
        /\ f = <<f[1], f[2]>>
    BY <2>1, NetworkFinite
  <2>3. f[1] # x
    BY <1>2, <1>5, <2>1, <2>2 DEF tailReached
  <2>4. tailReached(r, f)
    BY <1>5, <2>1, <2>2, <2>3 DEF tailReached
  <2>5. ~headReached(r, f)
    <3>1. CASE f[2] = x
      BY <1>2, <1>5, <2>1, <2>3, <3>1 DEF headReached
    <3>2. CASE f[2] # x
      BY <1>5, <2>1, <2>2, <3>2 DEF headReached
    <3> QED BY <3>1, <3>2
  <2> QED BY <2>1, <2>3, <2>4, <2>5, CutEdge DEF x
<1>7. <<x, x>> \in networkEdges(g) /\ e # <<x, x>>
  BY <1>2 DEF networkEdges
<1>8. cost(g, s) + capacity(g, e) <= cost(g, r) + capacity(g, <<x, x>>)
  <2>1. /\ cut(g, s) \in SUBSET networkEdges(g) /\ cut(g, r) \in SUBSET networkEdges(g)
        /\ e \in cut(g, r)
    BY CutEdge DEF r
  <2> QED BY <1>6, <1>7, <2>1, CutInstead DEF cost
<1>9. capacity(g, <<x, x>>) <= capacity(g, e) /\ capacity(g, e) \in Nat /\ capacity(g, <<x, x>>) \in Nat
  BY <1>2 DEF capacity, x
<1>10. cost(g, s) <= cost(g, r)
  BY <1>8, <1>9, CostType
<1>11. \A t \in Cuts(g) : cost(g, s) <= cost(g, t)
  <2> SUFFICES ASSUME NEW t \in Cuts(g) PROVE cost(g, s) <= cost(g, t)
    OBVIOUS
  <2>1. cost(g, r) <= cost(g, t)
    BY <1>1
  <2> QED BY <1>10, <2>1, CostType
<1>12. s \in MinimumCuts(g)
  BY <1>5, <1>11, MinimumCutsAre
<1>13. r[x] <= s[x]
  BY <1>2, <1>12, NearestCut DEF r
<1> QED BY <1>4, <1>5, <1>13

--------------------------------------------------------------------------------
(***************************************************************************)
(* The two traversals: the invariant.                                      *)
(***************************************************************************)

\* The existentials the conflict is about or a rule read so far reads.
met == existentialsOf(literals \cup supportOf(DOMAIN rule))

ConflictOK ==
    /\ config \in Settings
    /\ inconsistent \in Existentials \cup {0}
    /\ inconsistent = 0 => literals \in Clauses
    /\ inconsistent # 0 => literals = {inconsistent, Opposite}

\* The first traversal gives every existential it meets a rule or makes it a source,
\* and all it meets in a consistency check comes before the inconsistent variable.
SourceInv ==
    /\ \A v \in DOMAIN rule : MayRead(v, rule[v])
    /\ DOMAIN rule \subseteq met /\ sources \subseteq met
    /\ met \subseteq Existentials \cup literals
    /\ sources \cap DOMAIN rule = {}
    /\ \A v \in sources : getAlias(v) # inconsistent
    /\ inconsistent # 0 => \A v \in met \ literals : v \in ED[inconsistent]
    /\ phase = "source" =>
          /\ seen = DOMAIN rule \cup sources
          /\ toProcess \subseteq met \ seen
          /\ met \subseteq seen \cup toProcess
          /\ vertices = {} /\ edges = {} /\ forbidden_variables = {}
    /\ phase # "source" => met \subseteq DOMAIN rule \cup sources

\* What getForcedSource returns.
ForcedInv ==
    phase # "source" /\ forced_variable # 0 =>
        hasForcingClause(sources, forced_variable) /\ arbitersReplaceable(forced_variable)

\* The second traversal builds the graph of the rules that lead to the conflict, and
\* forbids what the forced variable must not read: never a source.
GraphInv ==
    phase # "source" =>
        /\ vertices \subseteq DOMAIN rule
        /\ source_vertices \subseteq (literals \cup sources) \ (DOMAIN rule \cup {forced_variable})
        /\ edges = {e \in Vertices \X vertices : e[1] \in rule[e[2]] \ {forced_variable}}
        /\ literals \ {forced_variable} \subseteq vertices \cup source_vertices \cup toProcess
        /\ existentialsOf(supportOf(vertices)) \ {forced_variable}
              \subseteq vertices \cup source_vertices \cup toProcess
        /\ seen = vertices \cup {forced_variable}
        /\ toProcess \subseteq met \ seen
        /\ forbidden_variables \subseteq vertices
        /\ forced_variable # 0 =>
              /\ \A v \in vertices : forbids(v) => v \in forbidden_variables
              /\ \A v \in forbidden_variables : forbids(v) \/ (replace_initial /\ v \in literals)

DoneInv ==
    phase = "done" =>
        /\ toProcess = {}
        /\ forced_variable = 0 => separator = terminals
        /\ forced_variable # 0 =>
              /\ reached = reachable(conflictGraph)
              /\ separator = separatorOf(cutEdges(conflictGraph, reached)) \cup {forced_variable}

SupportInv == ConflictOK /\ SourceInv /\ ForcedInv /\ GraphInv /\ DoneInv

--------------------------------------------------------------------------------
(***************************************************************************)
(* What is met is an existential or stands for one.                        *)
(***************************************************************************)
LEMMA MetAlias ==
    ASSUME ConflictOK, SourceInv, NEW v \in met
    PROVE  /\ getAlias(v) \in Existentials /\ v \in Vertices /\ IsExistential(v)
           /\ v # Opposite => v \in Existentials /\ getAlias(v) = v
           /\ v = Opposite => inconsistent # 0 /\ v \in literals
<1>1. v \in Existentials \cup {Opposite} /\ v \in Existentials \cup literals
  BY DEF met, existentialsOf, IsExistential, SourceInv
<1>2. Opposite \notin Existentials
  BY SupportAssumption DEF Variables
<1>3. CASE v = Opposite
  <2>1. v \in literals
    BY <1>1, <1>2, <1>3
  <2>2. inconsistent # 0
    BY <1>3, <2>1, SupportAssumption DEF ConflictOK
  <2> QED BY <1>1, <1>3, <2>1, <2>2 DEF ConflictOK, getAlias, Vertices, IsExistential
<1>4. CASE v # Opposite
  BY <1>1, <1>4 DEF getAlias, Vertices, Variables, IsExistential
<1> QED BY <1>3, <1>4

\* What a rule reads.
LEMMA RuleReads ==
    ASSUME ConflictOK, SourceInv, NEW v \in met, NEW S, MayRead(v, S)
    PROVE  /\ S \subseteq ED[getAlias(v)] \cup Arbiters /\ ED[getAlias(v)] \subseteq Variables
           /\ S \subseteq Vertices /\ existentialsOf(S) \subseteq ED[getAlias(v)] \cap Existentials
<1>1. S \subseteq ED[getAlias(v)] \cup Arbiters
  BY DEF MayRead
<1>2. ED[getAlias(v)] \subseteq Variables
  BY MetAlias, OrderAssumption
<1>3. existentialsOf(S) \subseteq ED[getAlias(v)] \cap Existentials
  <2>1. \A d \in existentialsOf(S) : d \in S /\ d \in Existentials \cup {Opposite}
    BY DEF existentialsOf, IsExistential
  <2>2. Opposite \notin Variables \cup Arbiters /\ Existentials \cap Arbiters = {}
    BY SupportAssumption DEF Variables
  <2> QED BY <1>1, <1>2, <2>1, <2>2
<1> QED BY <1>1, <1>2, <1>3 DEF Vertices

--------------------------------------------------------------------------------
(***************************************************************************)
(* The first traversal.                                                    *)
(***************************************************************************)
LEMMA SupportStart == SupportInit => SupportInv
<1> SUFFICES ASSUME SupportInit PROVE SupportInv
  OBVIOUS
<1>1. DOMAIN rule = {} /\ supportOf(DOMAIN rule) = {}
  BY DEF SupportInit, supportOf
<1>2. met = existentialsOf(literals)
  BY <1>1 DEF met
<1>3. ConflictOK
  <2>1. CASE inconsistent = 0
    BY <2>1 DEF SupportInit, ConflictOK
  <2>2. CASE inconsistent # 0
    BY <2>2 DEF SupportInit, ConflictOK
  <2> QED BY <2>1, <2>2
<1>4. met \subseteq literals
  BY <1>2 DEF existentialsOf
<1>5. SourceInv
  BY <1>1, <1>2, <1>4 DEF SupportInit, SourceInv
<1>6. ForcedInv /\ GraphInv /\ DoneInv
  BY DEF SupportInit, ForcedInv, GraphInv, DoneInv
<1> QED BY <1>3, <1>5, <1>6 DEF SupportInv

LEMMA ConflictKept ==
    ASSUME ConflictOK, UNCHANGED solverVars
    PROVE  ConflictOK'
BY DEF ConflictOK, solverVars

LEMMA VisitForcedStep ==
    ASSUME SupportInv, NEW v \in toProcess, VisitForced(v)
    PROVE  SupportInv'
<1>1. /\ phase = "source" /\ phase' = phase /\ ConflictOK /\ SourceInv
      /\ config' = config /\ inconsistent' = inconsistent /\ literals' = literals
      /\ sources' = sources /\ vertices' = vertices /\ edges' = edges
      /\ forbidden_variables' = forbidden_variables
  BY DEF VisitForced, SupportInv, solverVars, graphVars
<1>2. PICK S \in ActiveRules(v) :
          /\ rule' = [w \in DOMAIN rule \cup {v} |-> IF w = v THEN S ELSE rule[w]]
          /\ seen' = seen \cup {v}
          /\ toProcess' = (toProcess \cup existentialsOf(S)) \ seen'
  BY DEF VisitForced
<1>3. v \in met /\ v \notin seen /\ v \notin DOMAIN rule /\ v \notin sources
  BY <1>1 DEF SourceInv
<1>4. MayRead(v, S)
  BY DEF ActiveRules
<1>5. existentialsOf(S) \subseteq ED[getAlias(v)] \cap Existentials
  BY <1>1, <1>3, <1>4, RuleReads
<1>6. /\ DOMAIN rule' = DOMAIN rule \cup {v} /\ rule'[v] = S
      /\ \A w \in DOMAIN rule : rule'[w] = rule[w]
  BY <1>2, <1>3
<1>7. met' = met \cup existentialsOf(S)
  <2>1. supportOf(DOMAIN rule)' = supportOf(DOMAIN rule) \cup S
    BY <1>6 DEF supportOf
  <2> QED BY <1>1, <2>1 DEF met, existentialsOf
<1>8. ConflictOK'
  BY <1>1 DEF ConflictOK
<1>9. \A w \in DOMAIN rule' : MayRead(w, rule[w])'
  <2>1. \A w \in DOMAIN rule' : MayRead(w, rule'[w])
    BY <1>1, <1>4, <1>6 DEF SourceInv
  <2> QED BY <1>1, <2>1 DEF MayRead, getAlias
<1>10. inconsistent # 0 => \A w \in met' \ literals : w \in ED[inconsistent]
  <2> SUFFICES ASSUME inconsistent # 0, NEW w \in existentialsOf(S) PROVE w \in ED[inconsistent]
    BY <1>1, <1>7 DEF SourceInv
  <2>1. w \in ED[getAlias(v)]
    BY <1>5
  <2>2. CASE v \in literals
    BY <1>1, <2>1, <2>2 DEF ConflictOK, getAlias
  <2>3. CASE v \notin literals
    <3>1. v \in ED[inconsistent] /\ v # Opposite
      BY <1>1, <1>3, <2>3 DEF SourceInv, ConflictOK
    <3>2. getAlias(v) = v /\ v \in Existentials /\ inconsistent \in Existentials
      BY <1>1, <1>3, <3>1, MetAlias DEF ConflictOK
    <3>3. ED[v] \subseteq ED[inconsistent]
      BY <3>1, <3>2, OrderAssumption
    <3> QED BY <2>1, <3>2, <3>3
  <2> QED BY <2>2, <2>3
<1>11. \A w \in sources' : getAlias(w)' # inconsistent'
  BY <1>1 DEF SourceInv, getAlias
<1>12. SourceInv'
  BY <1>1, <1>2, <1>3, <1>5, <1>6, <1>7, <1>9, <1>10, <1>11 DEF SourceInv
<1>13. ForcedInv' /\ GraphInv' /\ DoneInv'
  BY <1>1 DEF ForcedInv, GraphInv, DoneInv
<1> QED BY <1>8, <1>12, <1>13 DEF SupportInv

LEMMA VisitSourceStep ==
    ASSUME SupportInv, NEW v \in toProcess, VisitSource(v)
    PROVE  SupportInv'
<1>1. /\ phase = "source" /\ phase' = phase /\ ConflictOK /\ SourceInv
      /\ config' = config /\ inconsistent' = inconsistent /\ literals' = literals
      /\ rule' = rule /\ vertices' = vertices /\ edges' = edges
      /\ forbidden_variables' = forbidden_variables
      /\ getAlias(v) # inconsistent /\ seen' = seen \cup {v}
      /\ toProcess' = toProcess \ {v} /\ sources' = sources \cup {v}
  BY DEF VisitSource, SupportInv, solverVars, graphVars
<1>2. v \in met /\ v \notin seen /\ v \notin DOMAIN rule
  BY <1>1 DEF SourceInv
<1>3. met' = met /\ \A w, R : (MayRead(w, R)' <=> MayRead(w, R)) /\ getAlias(w)' = getAlias(w)
  BY <1>1 DEF met, supportOf, MayRead, getAlias
<1>4. ConflictOK'
  BY <1>1 DEF ConflictOK
<1>5. SourceInv'
  BY <1>1, <1>2, <1>3 DEF SourceInv
<1>6. ForcedInv' /\ GraphInv' /\ DoneInv'
  BY <1>1 DEF ForcedInv, GraphInv, DoneInv
<1> QED BY <1>4, <1>5, <1>6 DEF SupportInv

--------------------------------------------------------------------------------
(***************************************************************************)
(* The second traversal.                                                   *)
(***************************************************************************)

\* The operators of the rules and the conflict in steps that leave these alone.
LEMMA QueriesKept ==
    ASSUME UNCHANGED <<config, inconsistent, literals, rule>>
    PROVE  /\ met' = met
           /\ \A w, R : MayRead(w, R)' <=> MayRead(w, R)
           /\ \A w : getAlias(w)' = getAlias(w) /\ (isForced(w)' <=> isForced(w))
           /\ \A V : supportOf(V)' = supportOf(V)
           /\ \A E, m : hasForcingClause(E, m)' <=> hasForcingClause(E, m)
           /\ \A m : arbitersReplaceable(m)' <=> arbitersReplaceable(m)
           /\ replace_initial' <=> replace_initial
BY DEF met, supportOf, MayRead, getAlias, isForced, hasForcingClause, arbitersReplaceable,
       replace_initial

LEMMA BeginGraphStep ==
    ASSUME SupportInv, phase = "source", toProcess = {}, NEW f, BeginGraph(f),
           f = 0 \/ (hasForcingClause(sources, f) /\ arbitersReplaceable(f))
    PROVE  SupportInv'
<1> DEFINE sink == literals \ {f}
<1>1. /\ ConflictOK /\ SourceInv /\ vertices = {} /\ edges = {} /\ forbidden_variables = {}
      /\ met \subseteq DOMAIN rule \cup sources
  BY DEF SupportInv, SourceInv
<1>2. /\ forced_variable' = f /\ phase' = "graph"
      /\ config' = config /\ inconsistent' = inconsistent /\ literals' = literals
      /\ rule' = rule /\ sources' = sources
      /\ source_vertices' = {v \in sink : ~isForced(v)}
  BY DEF BeginGraph, solverVars
<1>3. f \notin DOMAIN rule /\ (f # 0 => f \in sources)
  <2>1. CASE f = 0
    <3>1. 0 \notin met
      BY <1>1, MetAlias, SupportAssumption DEF Terminal
    <3> QED BY <1>1, <2>1, <3>1 DEF SourceInv
  <2>2. CASE f # 0
    BY <1>1, <2>2 DEF SourceInv, hasForcingClause
  <2> QED BY <2>1, <2>2
<1>4. ConflictOK'
  BY <1>1, <1>2 DEF ConflictOK
<1>5. SourceInv'
  BY <1>1, <1>2, QueriesKept DEF SourceInv
<1>6. ForcedInv'
  BY <1>2, QueriesKept DEF ForcedInv
<1>7. DoneInv'
  BY <1>2 DEF DoneInv
<1>8. GraphInv'
  <2>1. CASE replace_initial
    <3>1. /\ vertices' = sink
          /\ edges' = {e \in Vertices \X sink : e[1] \in rule[e[2]] \ {f}}
          /\ forbidden_variables' = IF f # 0 THEN sink ELSE {}
          /\ seen' = sink \cup {f}
          /\ toProcess' = existentialsOf(supportOf(sink)) \ seen'
      BY <2>1 DEF BeginGraph
    <3>2. sink \subseteq DOMAIN rule
      <4>1. inconsistent # 0 /\ literals = {inconsistent, Opposite}
        BY <1>1, <2>1 DEF ConflictOK, replace_initial
      <4>2. inconsistent \in met /\ Opposite \in met
        BY <1>1, <4>1 DEF ConflictOK, met, existentialsOf, IsExistential
      <4>3. getAlias(inconsistent) = inconsistent /\ getAlias(Opposite) = inconsistent
        BY DEF getAlias
      <4> QED BY <1>1, <4>1, <4>2, <4>3 DEF SourceInv
    <3>3. existentialsOf(supportOf(sink)) \subseteq met
      BY <3>2 DEF met, existentialsOf, supportOf
    <3>4. source_vertices' = {}
      BY <1>2, <3>2 DEF isForced
    <3>5. supportOf(vertices)' = supportOf(sink)
      BY <1>2, <3>1 DEF supportOf
    <3>6. existentialsOf(supportOf(vertices))' = existentialsOf(supportOf(sink))
      BY <3>5 DEF existentialsOf
    <3>7. forbidden_variables' \subseteq sink
      BY <3>1
    <3>8. f # 0 => /\ \A v \in vertices' : v \in forbidden_variables'
                   /\ \A v \in forbidden_variables' : replace_initial' /\ v \in literals'
      BY <1>2, <2>1, <3>1, QueriesKept
    <3>9. edges' = {e \in Vertices \X vertices' : e[1] \in rule'[e[2]] \ {forced_variable'}}
      BY <1>2, <3>1
    <3>10. met' = met
      BY <1>2, QueriesKept
    <3> HIDE DEF sink
    <3>11. literals \ {f} = sink
      BY DEF sink
    <3> QED BY <1>2, <3>1, <3>2, <3>3, <3>4, <3>6, <3>7, <3>8, <3>9, <3>10, <3>11 DEF GraphInv
  <2>2. CASE ~replace_initial
    <3>1. /\ vertices' = {} /\ edges' = {} /\ forbidden_variables' = {}
          /\ seen' = {f} /\ toProcess' = {v \in sink : isForced(v)}
      BY <1>1, <2>2 DEF BeginGraph
    <3>2. existentialsOf(supportOf(vertices))' = {}
      BY <3>1 DEF existentialsOf, supportOf
    <3>3. toProcess' \subseteq met' \ seen'
      BY <1>1, <1>2, <3>1, QueriesKept DEF isForced, SourceInv
    <3>4. source_vertices' \subseteq literals \ (DOMAIN rule \cup {f})
      BY <1>2 DEF isForced
    <3>5. literals \ {f} \subseteq source_vertices' \cup toProcess'
      BY <1>2, <3>1
    <3> QED BY <1>2, <3>1, <3>2, <3>3, <3>4, <3>5 DEF GraphInv
  <2> QED BY <2>1, <2>2
<1> QED BY <1>4, <1>5, <1>6, <1>7, <1>8 DEF SupportInv

LEMMA ForcedSourceStep ==
    ASSUME SupportInv, ForcedSource
    PROVE  SupportInv'
<1>1. phase = "source" /\ toProcess = {}
  BY DEF ForcedSource
<1>2. ASSUME NEW m \in sources, hasForcingClause(sources, m), arbitersReplaceable(m), BeginGraph(m)
      PROVE  SupportInv'
  BY <1>1, <1>2, BeginGraphStep
<1>3. CASE BeginGraph(0)
  <2>1. PICK f : f = 0 /\ BeginGraph(f)
    BY <1>3
  <2>2. /\ f = 0 \/ (hasForcingClause(sources, f) /\ arbitersReplaceable(f))
        /\ BeginGraph(f)
    BY <2>1
  <2> QED BY <1>1, <2>2, BeginGraphStep
<1> QED BY <1>2, <1>3 DEF ForcedSource

\* A source the second traversal meets is one the forced variable may read.
LEMMA SourceNotForbidden ==
    ASSUME ConflictOK, SourceInv, ForcedInv, phase # "source",
           NEW v \in met \ DOMAIN rule, v # forced_variable
    PROVE  ~forbids(v)
<1>1. v \in sources
  BY DEF SourceInv
<1> SUFFICES ASSUME forced_variable # 0
             PROVE  containedInExtendedDependencies(getAlias(v), getAlias(forced_variable))
  BY DEF forbids
<1> QED BY <1>1 DEF ForcedInv, hasForcingClause

LEMMA ProcessStep ==
    ASSUME SupportInv, NEW v \in toProcess, ProcessExistential(v)
    PROVE  SupportInv'
<1>1. /\ phase = "graph" /\ phase' = phase
      /\ ConflictOK /\ SourceInv /\ ForcedInv /\ GraphInv
      /\ config' = config /\ inconsistent' = inconsistent /\ literals' = literals
      /\ rule' = rule /\ sources' = sources /\ forced_variable' = forced_variable
      /\ forbidden_variables' = forbidden_variables \cup (IF forbids(v) THEN {v} ELSE {})
  BY DEF ProcessExistential, SupportInv, solverVars
<1>2. v \in met /\ v \notin seen /\ v # forced_variable
  BY <1>1 DEF GraphInv
<1>3. ConflictOK'
  BY <1>1 DEF ConflictOK
<1>4. SourceInv'
  BY <1>1, QueriesKept DEF SourceInv
<1>5. ForcedInv'
  BY <1>1, QueriesKept DEF ForcedInv
<1>6. DoneInv'
  BY <1>1 DEF DoneInv
<1>7. met' = met /\ replace_initial' = replace_initial /\ \A w : forbids(w)' <=> forbids(w)
  BY <1>1 DEF met, supportOf, replace_initial, forbids, getAlias
<1>8. CASE isForced(v)
  <2>1. /\ vertices' = vertices \cup {v}
        /\ edges' = edges \cup ((rule[v] \ {forced_variable}) \X {v})
        /\ seen' = seen \cup {v}
        /\ toProcess' = (toProcess \cup existentialsOf(rule[v])) \ seen'
        /\ source_vertices' = source_vertices
    BY <1>8 DEF ProcessExistential
  <2>2. v \in DOMAIN rule
    BY <1>8 DEF isForced
  <2>3. existentialsOf(rule[v]) \subseteq met /\ rule[v] \subseteq Vertices
    <3>1. MayRead(v, rule[v])
      BY <1>1, <2>2 DEF SourceInv
    <3>2. existentialsOf(rule[v]) \subseteq met
      BY <2>2 DEF met, existentialsOf, supportOf
    <3> QED BY <1>1, <1>2, <3>1, <3>2, RuleReads
  <2>4. edges' = {e \in Vertices \X vertices' : e[1] \in rule'[e[2]] \ {forced_variable'}}
    <3>1. edges = {e \in Vertices \X vertices : e[1] \in rule[e[2]] \ {forced_variable}}
      BY <1>1 DEF GraphInv
    <3>2. (rule[v] \ {forced_variable}) \X {v}
            = {e \in Vertices \X {v} : e[1] \in rule[e[2]] \ {forced_variable}}
      BY <2>3
    <3> QED BY <1>1, <2>1, <3>1, <3>2
  <2>5. existentialsOf(supportOf(vertices))'
            = existentialsOf(supportOf(vertices)) \cup existentialsOf(rule[v])
    BY <1>1, <2>1 DEF existentialsOf, supportOf
  <2>6. \A w \in vertices' : forbids(w)' /\ forced_variable # 0 => w \in forbidden_variables'
    BY <1>1, <1>7, <2>1 DEF GraphInv
  <2>7. forced_variable # 0 => \A w \in forbidden_variables' :
            forbids(w)' \/ (replace_initial' /\ w \in literals')
    BY <1>1, <1>7 DEF GraphInv
  <2>8. forbidden_variables' \subseteq vertices'
    BY <1>1, <2>1 DEF GraphInv
  <2>9. literals \ {forced_variable} \subseteq vertices' \cup source_vertices' \cup toProcess'
    BY <1>1, <2>1 DEF GraphInv
  <2>10. existentialsOf(supportOf(vertices))' \ {forced_variable}
            \subseteq vertices' \cup source_vertices' \cup toProcess'
    BY <1>1, <2>1, <2>5 DEF GraphInv
  <2>11. vertices' \subseteq DOMAIN rule /\ seen' = vertices' \cup {forced_variable}
         /\ toProcess' \subseteq met \ seen'
    BY <1>1, <2>1, <2>2, <2>3 DEF GraphInv
  <2>12. source_vertices' \subseteq (literals \cup sources) \ (DOMAIN rule \cup {forced_variable})
    BY <1>1, <2>1 DEF GraphInv
  <2>13. GraphInv'
    BY <1>1, <1>7, <2>4, <2>6, <2>7, <2>8, <2>9, <2>10, <2>11, <2>12 DEF GraphInv
  <2> QED BY <1>3, <1>4, <1>5, <1>6, <2>13 DEF SupportInv
<1>9. CASE ~isForced(v)
  <2>1. /\ source_vertices' = source_vertices \cup {v} /\ toProcess' = toProcess \ {v}
        /\ vertices' = vertices /\ edges' = edges /\ seen' = seen
    BY <1>9 DEF ProcessExistential
  <2>2. v \in sources /\ v \notin DOMAIN rule
    BY <1>1, <1>2, <1>9 DEF SourceInv, isForced
  <2>3. forbidden_variables' = forbidden_variables
    <3>1. ~forbids(v)
      BY <1>1, <1>2, <2>2, SourceNotForbidden
    <3> QED BY <1>1, <3>1
  <2>4. supportOf(vertices)' = supportOf(vertices)
        /\ existentialsOf(supportOf(vertices))' = existentialsOf(supportOf(vertices))
    BY <1>1, <2>1 DEF supportOf, existentialsOf
  <2>5. GraphInv'
    BY <1>1, <1>2, <1>7, <2>1, <2>2, <2>3, <2>4 DEF GraphInv
  <2> QED BY <1>3, <1>4, <1>5, <1>6, <2>5 DEF SupportInv
<1> QED BY <1>8, <1>9

LEMMA SeparateStep ==
    ASSUME SupportInv, Separate
    PROVE  SupportInv'
<1>1. /\ phase = "graph" /\ phase' = "done" /\ toProcess = {}
      /\ ConflictOK /\ SourceInv /\ ForcedInv /\ GraphInv
      /\ UNCHANGED <<config, inconsistent, literals, rule, toProcess, seen, sources>>
      /\ UNCHANGED <<forced_variable, vertices, edges, source_vertices, forbidden_variables>>
  BY DEF Separate, SupportInv, solverVars, graphVars
<1>2. ConflictOK'
  BY <1>1 DEF ConflictOK
<1>3. SourceInv' /\ ForcedInv'
  BY <1>1, QueriesKept DEF SourceInv, ForcedInv
<1>4. existentialsOf(supportOf(vertices))' = existentialsOf(supportOf(vertices))
      /\ \A w : forbids(w)' <=> forbids(w)
  BY <1>1 DEF supportOf, existentialsOf, forbids, getAlias
<1>5. GraphInv'
  BY <1>1, <1>4, QueriesKept DEF GraphInv
<1>6. terminals' = terminals /\ conflictGraph' = conflictGraph
  <2>1. terminals' = terminals
    BY <1>1 DEF terminals, supportOf
  <2> QED BY <1>1, <2>1 DEF conflictGraph, unpreferredOf, replace_initial
<1>7. DoneInv'
  <2>1. CASE forced_variable = 0
    <3>1. separator' = terminals
      BY <2>1 DEF Separate, conflictGraph
    <3> QED BY <1>1, <1>6, <2>1, <3>1 DEF DoneInv
  <2>2. CASE forced_variable # 0
    <3>1. /\ reached' = reachable(conflictGraph)
          /\ separator' = separatorOf(cutEdges(conflictGraph, reached')) \cup {forced_variable}
      BY <2>2 DEF Separate
    <3>2. reachable(conflictGraph)' = reachable(conflictGraph)
          /\ cutEdges(conflictGraph, reached)' = cutEdges(conflictGraph, reached')
      BY <1>6
    <3> QED BY <1>1, <2>2, <3>1, <3>2 DEF DoneInv
  <2> QED BY <2>1, <2>2
<1> QED BY <1>2, <1>3, <1>5, <1>7 DEF SupportInv

LEMMA SupportStepInv == SupportInv /\ [SupportNext]_vars => SupportInv'
<1> SUFFICES ASSUME SupportInv, [SupportNext]_vars PROVE SupportInv'
  OBVIOUS
<1>1. ASSUME NEW v \in toProcess, VisitForced(v) \/ VisitSource(v) \/ ProcessExistential(v)
      PROVE  SupportInv'
  BY <1>1, VisitForcedStep, VisitSourceStep, ProcessStep
<1>2. CASE ForcedSource
  BY <1>2, ForcedSourceStep
<1>3. CASE Separate
  BY <1>3, SeparateStep
<1>4. CASE UNCHANGED vars
  BY <1>4 DEF vars, SupportInv, ConflictOK, SourceInv, ForcedInv, GraphInv, DoneInv, met, existentialsOf,
     supportOf, MayRead, getAlias, hasForcingClause, arbitersReplaceable, forbids, replace_initial,
     terminals, conflictGraph, unpreferredOf
<1> QED BY <1>1, <1>2, <1>3, <1>4 DEF SupportNext, Done

--------------------------------------------------------------------------------
(***************************************************************************)
(* The graph of a finished traversal.                                      *)
(***************************************************************************)
LEMMA GraphFacts ==
    ASSUME SupportInv, phase = "done"
    PROVE  /\ vertices \subseteq DOMAIN rule /\ DOMAIN rule \subseteq met /\ met \subseteq graphVertices
           /\ vertices \subseteq Vertices /\ terminals \subseteq Vertices
           /\ vertices \cap terminals = {} /\ terminals \subseteq graphVertices
           /\ literals \ {forced_variable} \subseteq vertices \cup terminals
           /\ \A v \in vertices : \A s \in rule[v] \ {forced_variable} :
                 <<s, v>> \in edges /\ s # v /\ s \in vertices \cup terminals
           /\ \A v \in vertices : \A s \in rule[v] :
                 IsExistential(s) => s \in ED[getAlias(v)] \cap Existentials
<1>1. ConflictOK /\ SourceInv /\ GraphInv /\ toProcess = {}
  BY DEF SupportInv, DoneInv
<1>2. vertices \subseteq DOMAIN rule /\ DOMAIN rule \subseteq met /\ sources \subseteq met
  BY <1>1 DEF GraphInv, SourceInv
<1>3. met \subseteq graphVertices
  BY DEF met, existentialsOf, graphVertices
<1>4. \A v \in met : v \in Vertices /\ IsExistential(v)
  BY <1>1, MetAlias
<1>5. literals \subseteq Vertices
  <2>1. CASE inconsistent = 0
    BY <1>1, <2>1, SupportAssumption DEF ConflictOK, Vertices
  <2>2. CASE inconsistent # 0
    BY <1>1, <2>2 DEF ConflictOK, Vertices, Variables
  <2> QED BY <2>1, <2>2
<1>6. \A v \in vertices : \A s \in rule[v] :
         s \in Vertices /\ (IsExistential(s) => s \in ED[getAlias(v)] \cap Existentials)
  <2> SUFFICES ASSUME NEW v \in vertices, NEW s \in rule[v]
               PROVE  s \in Vertices /\ (IsExistential(s) => s \in ED[getAlias(v)] \cap Existentials)
    OBVIOUS
  <2>1. v \in met /\ MayRead(v, rule[v])
    BY <1>1, <1>2 DEF SourceInv
  <2> QED BY <1>1, <2>1, RuleReads DEF existentialsOf
<1>7. source_vertices \subseteq (literals \cup sources) \ (DOMAIN rule \cup {forced_variable})
  BY <1>1 DEF GraphInv
<1>8. terminals \subseteq Vertices
  BY <1>2, <1>4, <1>5, <1>6, <1>7 DEF terminals, supportOf
<1>9. terminals \subseteq graphVertices
  <2>1. supportOf(vertices) \subseteq supportOf(DOMAIN rule)
    BY <1>2 DEF supportOf
  <2> QED BY <1>2, <1>3, <1>7, <2>1 DEF terminals, graphVertices
<1>10. vertices \cap terminals = {}
  BY <1>2, <1>4, <1>7 DEF terminals
<1>11. literals \ {forced_variable} \subseteq vertices \cup terminals
  BY <1>1 DEF GraphInv, terminals
<1>12. ASSUME NEW v \in vertices, NEW s \in rule[v] \ {forced_variable}
       PROVE  <<s, v>> \in edges /\ s # v /\ s \in vertices \cup terminals
  <2>1. <<s, v>> \in edges
    BY <1>1, <1>2, <1>6 DEF GraphInv
  <2>2. s # v
    <3>1. SUFFICES ASSUME s = v PROVE FALSE
      OBVIOUS
    <3>2. v \in ED[getAlias(v)] \cap Existentials
      BY <1>2, <1>4, <1>6, <3>1
    <3>3. v # Opposite
      BY <3>2, SupportAssumption DEF Variables
    <3>4. getAlias(v) = v
      BY <3>3 DEF getAlias
    <3> QED BY <3>2, <3>4, OrderAssumption
  <2>3. s \in vertices \cup terminals
    <3>1. s \in supportOf(vertices)
      BY DEF supportOf
    <3>2. CASE IsExistential(s)
      <4>1. s \in existentialsOf(supportOf(vertices)) \ {forced_variable}
        BY <3>1, <3>2 DEF existentialsOf
      <4> QED BY <1>1, <4>1 DEF GraphInv, terminals
    <3>3. CASE ~IsExistential(s)
      BY <3>1, <3>3 DEF terminals
    <3> QED BY <3>2, <3>3
  <2> QED BY <2>1, <2>2, <2>3
<1> QED BY <1>2, <1>3, <1>4, <1>6, <1>8, <1>9, <1>10, <1>11, <1>12

\* The variable that is to be forced.
LEMMA ForcedFacts ==
    ASSUME SupportInv, phase = "done", forced_variable # 0
    PROVE  /\ forced_variable \in Existentials /\ getAlias(forced_variable) = forced_variable
           /\ forced_variable \notin vertices \cup terminals
           /\ forced_variable \in sources \cap graphVertices
           /\ replace_initial => literals \subseteq DOMAIN rule /\ forced_variable \notin literals
           /\ hasForcingClause(sources, forced_variable) /\ arbitersReplaceable(forced_variable)
<1>1. ConflictOK /\ SourceInv /\ GraphInv
  BY DEF SupportInv
<1>2. hasForcingClause(sources, forced_variable) /\ arbitersReplaceable(forced_variable)
  BY DEF SupportInv, ForcedInv
<1>3. forced_variable \in sources /\ forced_variable \in met /\ getAlias(forced_variable) # inconsistent
  BY <1>1, <1>2 DEF hasForcingClause, SourceInv
<1>4. forced_variable # Opposite
  BY <1>3 DEF getAlias
<1>5. /\ forced_variable \in Existentials /\ getAlias(forced_variable) = forced_variable
      /\ IsExistential(forced_variable)
  BY <1>1, <1>3, <1>4, MetAlias
<1>6. forced_variable \notin vertices \cup terminals
  BY <1>1, <1>3, <1>5 DEF GraphInv, SourceInv, terminals
<1>7. forced_variable \in graphVertices
  BY <1>3, GraphFacts
<1>8. ASSUME replace_initial
      PROVE  literals \subseteq DOMAIN rule /\ forced_variable \notin literals
  <2>1. inconsistent # 0 /\ literals = {inconsistent, Opposite}
    BY <1>1, <1>8 DEF ConflictOK, replace_initial
  <2>2. \A v \in literals : getAlias(v) = inconsistent /\ v \in met
    BY <1>1, <2>1 DEF getAlias, met, existentialsOf, IsExistential, ConflictOK
  <2> QED BY <1>1, <1>3, <2>2 DEF SourceInv
<1> QED BY <1>2, <1>3, <1>5, <1>6, <1>7, <1>8

\* What the separator is given is a graph of the kind it expects: no source is forbidden.
LEMMA GraphReady ==
    ASSUME SupportInv, phase = "done", forced_variable # 0
    PROVE  GraphOK(conflictGraph)
<1> DEFINE g == conflictGraph
<1>1. /\ g.vertices = vertices \cup terminals /\ g.edges = edges /\ g.vertA = terminals
      /\ g.vertB = literals \ {forced_variable}
      /\ g.forbidden = forbidden_variables \cup (IF replace_initial THEN literals ELSE {})
      /\ g.unpreferred = unpreferredOf(terminals)
  BY DEF conflictGraph
<1> HIDE DEF g
<1>2. IsFiniteSet(g.vertices) /\ Terminal \notin g.vertices
  <2>1. g.vertices \subseteq Vertices
    BY <1>1, GraphFacts
  <2> QED BY <2>1, SupportAssumption, FS_Subset
<1>3. g.edges \subseteq g.vertices \X g.vertices /\ \A v \in g.vertices : <<v, v>> \notin g.edges
  <2> SUFFICES ASSUME NEW e \in edges
               PROVE  e \in g.vertices \X g.vertices /\ e[1] # e[2]
    BY <1>1
  <2>1. e \in Vertices \X vertices /\ e[1] \in rule[e[2]] \ {forced_variable}
    BY DEF SupportInv, GraphInv
  <2>2. e = <<e[1], e[2]>> /\ e[2] \in vertices
    BY <2>1
  <2>3. e[1] # e[2] /\ e[1] \in vertices \cup terminals
    BY <2>1, <2>2, GraphFacts
  <2> QED BY <1>1, <2>2, <2>3
<1>4. g.vertA \subseteq g.vertices /\ g.vertB \subseteq g.vertices
  BY <1>1, GraphFacts
<1>5. g.unpreferred \subseteq g.vertA
  BY <1>1 DEF unpreferredOf
<1>6. g.vertA \cap g.forbidden = {}
  <2>1. forbidden_variables \subseteq vertices
    BY DEF SupportInv, GraphInv
  <2>2. ASSUME replace_initial PROVE literals \cap terminals = {}
    <3>1. literals \subseteq DOMAIN rule /\ forced_variable \notin literals
      BY <2>2, ForcedFacts
    <3> QED BY <3>1, GraphFacts DEF SupportInv, GraphInv, SourceInv, terminals, met, existentialsOf
  <2> QED BY <1>1, <2>1, <2>2, GraphFacts
<1>7. GraphOK(g)
  BY <1>2, <1>3, <1>4, <1>5, <1>6 DEF GraphOK
<1> QED BY <1>7 DEF g

--------------------------------------------------------------------------------
(***************************************************************************)
(* The values that are passed on determine the conflict.                   *)
(***************************************************************************)
\* The minimum cut nearest the sources, and what it means for its vertices.
LEMMA NearestIsInternal ==
    ASSUME SupportInv, phase = "done", forced_variable # 0
    PROVE  LET g == conflictGraph IN
           /\ reached \in MinimumCuts(g) /\ reached \in Cuts(g)
           /\ \A e \in networkEdges(g) : tailReached(reached, e) /\ ~headReached(reached, e) =>
                 e[1] = e[2] /\ e[1] \in separator /\ e[1] \notin g.forbidden
           /\ \A v \in separator \ {forced_variable} : v \in g.vertices /\ reached[v] = 1
<1> DEFINE g == conflictGraph
<1>1. GraphOK(g)
  BY GraphReady
<1>2. /\ reached = reachable(g)
      /\ separator = separatorOf(cutEdges(g, reached)) \cup {forced_variable}
  BY DEF SupportInv, DoneInv
<1> HIDE DEF g
<1>3. reached \in MinimumCuts(g) /\ reached \in Cuts(g)
  BY <1>1, <1>2, NearestCut, MinimumCutsAre
<1>4. ASSUME NEW e \in networkEdges(g), tailReached(reached, e), ~headReached(reached, e)
      PROVE  e[1] = e[2] /\ e[1] \in separator /\ e[1] \notin g.forbidden
  <2>1. e \in cut(g, reached) /\ e \in cutEdges(g, reached)
    BY <1>4, CutEdge
  <2>2. e[1] \in separator
    BY <1>2, <2>1 DEF separatorOf
  <2> QED BY <1>1, <1>2, <1>3, <2>1, <2>2, OnlyInternal, NothingPenalised
<1>5. ASSUME NEW v \in separator, v # forced_variable
      PROVE  v \in g.vertices /\ reached[v] = 1
  <2>1. PICK e \in cut(g, reached) : v = e[1]
    BY <1>2, <1>5, CutEdge DEF separatorOf
  <2>2. e[1] = e[2] /\ v \in g.vertices
    BY <1>1, <1>2, <1>3, <2>1, OnlyInternal, NothingPenalised
  <2>3. tailReached(reached, e) /\ ~headReached(reached, e) /\ v # Terminal
    BY <1>1, <2>1, <2>2, CutEdge DEF GraphOK
  <2>4. reached[v] >= 1 /\ ~(reached[v] >= 2) /\ reached[v] \in 0..2
    BY <1>3, <2>1, <2>2, <2>3 DEF tailReached, headReached, Cuts
  <2> QED BY <2>2, <2>4
<1> QED BY <1>3, <1>4, <1>5 DEF g

\* By induction along the order of the dependencies: a least vertex on the sinks' side
\* of the cut that is not determined would have its rule read one.
LEMMA SeparatorIsEnough ==
    ASSUME SupportInv
    PROVE  SeparatorDetermines
<1> SUFFICES ASSUME phase = "done", NEW K \in SUBSET graphVertices,
                    separator \cap graphVertices \subseteq K, Closed(K)
             PROVE  literals \subseteq K
  BY DEF SeparatorDetermines, Determines
<1> DEFINE g == conflictGraph
           Want(v) == v \in vertices \cup terminals /\ (forced_variable # 0 => reached[v] \in {0, 1})
<1>1. /\ g.vertices = vertices \cup terminals /\ g.edges = edges /\ g.vertA = terminals
      /\ g.vertB = literals \ {forced_variable}
  BY DEF conflictGraph
<1>2. /\ networkEdges(g) = ({Terminal} \X terminals) \cup {<<v, v>> : v \in vertices \cup terminals}
                              \cup edges \cup ((literals \ {forced_variable}) \X {Terminal})
      /\ forced_variable # 0 => reached \in [vertices \cup terminals -> 0..2]
  BY <1>1, NearestIsInternal DEF networkEdges, Cuts
<1>3. Terminal \notin vertices \cup terminals
  BY GraphFacts, SupportAssumption
<1>4. forced_variable # 0 => forced_variable \in K
  BY ForcedFacts DEF SupportInv, DoneInv
<1>5. ASSUME NEW v \in terminals, Want(v) PROVE v \in K
  <2>1. CASE forced_variable = 0
    BY <2>1, GraphFacts DEF SupportInv, DoneInv
  <2>2. CASE forced_variable # 0
    <3> DEFINE e == <<Terminal, v>>
    <3>1. e \in networkEdges(g) /\ tailReached(reached, e) /\ e[1] # e[2]
      BY <1>2, <1>3 DEF tailReached
    <3>2. headReached(reached, e)
      BY <2>2, <3>1, NearestIsInternal
    <3>3. reached[v] >= 1
      BY <3>2 DEF headReached
    <3>4. reached[v] = 1
      BY <1>5, <2>2, <3>3
    <3>5. /\ <<v, v>> \in networkEdges(g) /\ tailReached(reached, <<v, v>>)
          /\ ~headReached(reached, <<v, v>>)
      BY <1>2, <1>3, <3>4 DEF tailReached, headReached
    <3>6. v \in separator
      BY <2>2, <3>5, NearestIsInternal
    <3> QED BY <3>6, GraphFacts
  <2> QED BY <2>1, <2>2
<1>6. ASSUME NEW v \in vertices, Want(v), v \notin K
      PROVE  \E s \in rule[v] : Want(s) /\ s \notin K
  <2>1. v \in DOMAIN rule /\ ~(rule[v] \subseteq K)
    BY <1>6, GraphFacts DEF Closed
  <2>2. PICK s \in rule[v] : s \notin K
    BY <2>1
  <2>3. s # forced_variable
    <3>1. CASE forced_variable = 0
      <4>1. v \in met /\ MayRead(v, rule[v])
        BY GraphFacts DEF SupportInv, SourceInv
      <4>2. s \in Vertices
        BY <4>1, RuleReads DEF SupportInv
      <4> QED BY <3>1, <4>2, SupportAssumption DEF Terminal
    <3>2. CASE forced_variable # 0
      BY <1>4, <2>2, <3>2
    <3> QED BY <3>1, <3>2
  <2>4. <<s, v>> \in edges /\ s # v /\ s \in vertices \cup terminals
    BY <2>3, GraphFacts
  <2>5. ASSUME forced_variable # 0 PROVE reached[s] \in {0, 1}
    <3>1. <<s, v>> \in networkEdges(g) /\ s # Terminal
      BY <1>2, <1>3, <2>4
    <3>2. <<v, v>> \in networkEdges(g) /\ v # Terminal
      BY <1>2, <1>3
    <3>3. v \in graphVertices /\ v \notin separator
      BY <1>6, GraphFacts
    <3>4. reached[v] # 1
      <4>1. SUFFICES ASSUME reached[v] = 1 PROVE FALSE
        OBVIOUS
      <4>2. tailReached(reached, <<v, v>>) /\ ~headReached(reached, <<v, v>>)
        BY <3>2, <4>1 DEF tailReached, headReached
      <4> QED BY <2>5, <3>2, <3>3, <4>2, NearestIsInternal
    <3>5. reached[v] = 0
      BY <1>6, <2>5, <3>4
    <3>6. ~headReached(reached, <<s, v>>)
      BY <2>4, <3>5 DEF headReached
    <3>7. ~tailReached(reached, <<s, v>>)
      BY <2>4, <2>5, <3>1, <3>6, NearestIsInternal
    <3>8. reached[s] # 2
      BY <2>4, <3>1, <3>7 DEF tailReached
    <3> QED BY <1>2, <2>4, <2>5, <3>8
  <2> QED BY <2>2, <2>4, <2>5
<1>7. ASSUME NEW w, Want(w), w \notin K PROVE FALSE
  <2> DEFINE Bad == {v \in vertices : Want(v) /\ v \notin K}
             Sets == {ED[getAlias(v)] : v \in Bad}
  <2>1. w \in Bad
    BY <1>5, <1>7
  <2>2. \A v \in vertices : getAlias(v) \in Existentials /\ IsExistential(v)
    BY GraphFacts, MetAlias DEF SupportInv
  <2>3. Sets \subseteq FiniteSubsetsOf(Variables) /\ Sets # {}
    <3>1. IsFiniteSet(Variables)
      BY SupportAssumption, FS_Subset DEF Vertices
    <3>2. \A v \in Bad : ED[getAlias(v)] \subseteq Variables
      BY <2>2, OrderAssumption
    <3> QED BY <2>1, <3>1, <3>2, FS_Subset DEF FiniteSubsetsOf
  <2> HIDE DEF Want
  <2>4. PICK B \in Sets : \A C \in Sets : ~ (<<C, B>> \in StrictSubsetOrdering(Variables))
    <3>1. IsFiniteSet(Variables)
      BY SupportAssumption, FS_Subset DEF Vertices
    <3> HIDE DEF Sets
    <3> QED BY <2>3, <3>1, FS_StrictSubsetOrderingWellFounded, WFMin
  <2>5. PICK v \in Bad : B = ED[getAlias(v)]
    OBVIOUS
  <2>6. PICK s \in rule[v] : Want(s) /\ s \notin K
    BY <1>6, <2>5
  <2>7. s \in vertices /\ s \notin terminals
    BY <1>5, <2>6 DEF Want
  <2>8. s \in Bad
    BY <2>6, <2>7
  <2>9. s \in ED[getAlias(v)] \cap Existentials
    BY <2>2, <2>5, <2>7, GraphFacts
  <2>10. getAlias(s) = s
    BY <2>9, SupportAssumption DEF getAlias, Variables
  <2>11. ED[s] \subseteq ED[getAlias(v)] /\ s \notin ED[s] /\ ED[getAlias(v)] \subseteq Variables
    BY <2>2, <2>5, <2>9, OrderAssumption
  <2>12. <<ED[s], ED[getAlias(v)]>> \in StrictSubsetOrdering(Variables)
    BY <2>9, <2>11 DEF StrictSubsetOrdering
  <2>13. ED[s] \in Sets
    BY <2>8, <2>10
  <2> QED BY <2>4, <2>5, <2>12, <2>13
<1>8. ASSUME NEW b \in literals, b # forced_variable PROVE Want(b)
  <2>1. b \in vertices \cup terminals
    BY <1>8, GraphFacts
  <2>2. ASSUME forced_variable # 0 PROVE reached[b] # 2
    <3>1. /\ <<b, Terminal>> \in networkEdges(g) /\ b # Terminal
          /\ ~headReached(reached, <<b, Terminal>>)
      BY <1>2, <1>3, <1>8, <2>1 DEF headReached
    <3>2. ~tailReached(reached, <<b, Terminal>>)
      BY <2>2, <3>1, NearestIsInternal
    <3> QED BY <3>1, <3>2 DEF tailReached
  <2> QED BY <1>2, <2>1, <2>2
<1>9. ASSUME NEW b \in literals, b = forced_variable PROVE b \in K
  <2>1. b # 0
    <3>1. inconsistent = 0 => literals \subseteq Vertices
      BY SupportAssumption DEF SupportInv, ConflictOK, Vertices
    <3>2. inconsistent # 0 => literals \subseteq Vertices
      BY DEF SupportInv, ConflictOK, Vertices, Variables
    <3> QED BY <3>1, <3>2, SupportAssumption DEF Terminal
  <2> QED BY <1>4, <1>9, <2>1
<1> HIDE DEF Want
<1> QED BY <1>7, <1>8, <1>9

--------------------------------------------------------------------------------
(***************************************************************************)
(* A forcing clause remains possible.                                      *)
(***************************************************************************)
\* What is passed on is not forbidden.
LEMMA SeparatorAllowed ==
    ASSUME SupportInv, phase = "done", forced_variable # 0,
           NEW v \in separator, v # forced_variable
    PROVE  /\ v \in vertices \cup terminals /\ reached[v] = 1 /\ v \notin conflictGraph.forbidden
           /\ IsExistential(v) => getAlias(v) \in ED[forced_variable]
           /\ replace_initial => v \notin literals
<1> DEFINE g == conflictGraph
<1>1. /\ g.vertices = vertices \cup terminals
      /\ g.forbidden = forbidden_variables \cup (IF replace_initial THEN literals ELSE {})
  BY DEF conflictGraph
<1>2. v \in vertices \cup terminals /\ reached[v] = 1
  BY <1>1, NearestIsInternal
<1>3. v \notin g.forbidden
  <2>1. <<v, v>> \in networkEdges(g) /\ v # Terminal
    BY <1>1, <1>2, GraphReady DEF networkEdges, GraphOK
  <2>2. tailReached(reached, <<v, v>>) /\ ~headReached(reached, <<v, v>>)
    BY <1>2, <2>1 DEF tailReached, headReached
  <2> QED BY <2>1, <2>2, NearestIsInternal
<1>4. ConflictOK /\ SourceInv /\ ForcedInv /\ GraphInv /\ phase # "source"
  BY DEF SupportInv
<1>5. ASSUME IsExistential(v) PROVE ~forbids(v)
  <2>1. CASE v \in vertices
    BY <1>1, <1>3, <1>4, <2>1 DEF GraphInv
  <2>2. CASE v \in terminals
    <3>1. v \in source_vertices
      BY <1>5, <2>2 DEF terminals
    <3>2. v \in (literals \cup sources) \ DOMAIN rule
      BY <1>4, <3>1 DEF GraphInv
    <3>3. v \in met
      BY <1>4, <1>5, <3>2 DEF SourceInv, met, existentialsOf
    <3> QED BY <1>4, <3>2, <3>3, SourceNotForbidden
  <2> QED BY <1>2, <2>1, <2>2
<1>6. IsExistential(v) => getAlias(v) \in ED[forced_variable]
  BY <1>5, ForcedFacts DEF forbids, containedInExtendedDependencies
<1> QED BY <1>1, <1>2, <1>3, <1>6

\* Where forcing clauses have no arbiters, one rule reads an arbiter: that of the
\* variable it decides, which may be passed on.
LEMMA OneReader ==
    ASSUME SupportInv, phase = "done", forced_variable # 0,
           ~config["allow_arbiters_in_forcing_clauses"],
           NEW a \in Arbiters \cap supportOf(DOMAIN rule)
    PROVE  LET x == arbiter_to_existential[a] IN
           /\ config["replace_arbiters_in_separators"]
           /\ x \in DOMAIN rule /\ x \notin conflictGraph.forbidden /\ x \notin Arbiters /\ x # a
           /\ x \in ED[forced_variable] /\ x \in Existentials /\ getAlias(x) = x
           /\ \A v \in DOMAIN rule : a \in rule[v] => v = x
<1> DEFINE x == arbiter_to_existential[a]
<1>1. x \in Existentials /\ x \notin Arbiters /\ x # Opposite /\ x # a
  BY SupportAssumption DEF Variables
<1>2. ConflictOK /\ SourceInv /\ GraphInv
  BY DEF SupportInv
<1>3. config["replace_arbiters_in_separators"] /\ x \in ED[forced_variable]
  <2>1. arbitersReplaceable(forced_variable)
    BY ForcedFacts
  <2> QED BY <2>1, ForcedFacts DEF arbitersReplaceable, containedInExtendedDependencies
<1> HIDE DEF x
<1>4. x # inconsistent
  <2> SUFFICES ASSUME x = inconsistent PROVE FALSE
    OBVIOUS
  <2>1. inconsistent \in Existentials /\ inconsistent # 0
    BY <1>1, SupportAssumption DEF Terminal, Vertices, Variables
  <2>2. forced_variable \in met /\ forced_variable \notin literals
    BY <1>2, <2>1, ForcedFacts DEF SourceInv, replace_initial
  <2>3. forced_variable \in ED[inconsistent] \cap Existentials
    BY <1>2, <2>1, <2>2, ForcedFacts DEF SourceInv
  <2>4. ED[forced_variable] \subseteq ED[inconsistent] /\ inconsistent \notin ED[inconsistent]
    BY <2>1, <2>3, OrderAssumption
  <2> QED BY <1>3, <2>4
<1>5. ASSUME NEW v \in DOMAIN rule, a \in rule[v] PROVE v = x
  <2>1. v \in met /\ MayRead(v, rule[v])
    BY <1>2 DEF SourceInv
  <2>2. getAlias(v) = x
    BY <1>5, <2>1 DEF MayRead, x
  <2>3. v # Opposite
    BY <1>4, <2>2 DEF getAlias
  <2> QED BY <2>2, <2>3 DEF getAlias
<1>6. x \in DOMAIN rule /\ getAlias(x) = x
  BY <1>1, <1>5 DEF supportOf, getAlias
<1>7. x \notin conflictGraph.forbidden
  <2>1. replace_initial => x \notin literals
    BY <1>1, <1>2, <1>4 DEF ConflictOK, replace_initial
  <2>2. getAlias(x) = x
    BY <1>1 DEF getAlias
  <2>3. ~forbids(x)
    BY <1>3, <2>2, ForcedFacts DEF forbids, containedInExtendedDependencies
  <2>4. x \notin forbidden_variables
    BY <1>2, <2>1, <2>3 DEF GraphInv
  <2> QED BY <2>1, <2>4 DEF conflictGraph
<1> QED BY <1>1, <1>3, <1>5, <1>6, <1>7 DEF x

\* An arbiter in the cut could be exchanged for the variable it decides, at less.
LEMMA NoArbiterCut ==
    ASSUME SupportInv, phase = "done", forced_variable # 0,
           ~config["allow_arbiters_in_forcing_clauses"]
    PROVE  separator \cap Arbiters = {}
<1> SUFFICES ASSUME NEW a \in separator, a \in Arbiters PROVE FALSE
  OBVIOUS
<1> DEFINE g == conflictGraph
           x == arbiter_to_existential[a]
           r == reached
           s == [r EXCEPT ![a] = 2, ![x] = IF r[x] = 0 THEN 1 ELSE r[x]]
<1>1. /\ g.vertices = vertices \cup terminals /\ g.edges = edges /\ g.vertA = terminals
      /\ g.vertB = literals \ {forced_variable} /\ g.unpreferred = unpreferredOf(terminals)
  BY DEF conflictGraph
<1>2. ConflictOK /\ SourceInv /\ GraphInv /\ GraphOK(g)
  BY GraphReady DEF SupportInv
<1>3. a # forced_variable /\ ~IsExistential(a)
  BY ForcedFacts, SupportAssumption DEF IsExistential, Variables
<1>4. a \in terminals /\ a \notin vertices /\ a \in supportOf(vertices) /\ r[a] = 1
  <2>1. a \in vertices \cup terminals /\ r[a] = 1
    BY <1>3, SeparatorAllowed
  <2>2. a \notin vertices
    BY <1>2, <1>3, GraphFacts, MetAlias
  <2>3. a \notin source_vertices
    <3>1. a \notin sources
      BY <1>2, <1>3, MetAlias DEF SourceInv
    <3>2. a \notin literals
      BY <1>2, <1>3, SupportAssumption DEF ConflictOK, IsExistential
    <3> QED BY <1>2, <3>1, <3>2 DEF GraphInv
  <2> QED BY <2>1, <2>2, <2>3 DEF terminals
<1>5. /\ config["replace_arbiters_in_separators"]
      /\ x \in vertices /\ x \notin g.forbidden /\ x \notin Arbiters /\ x # a
      /\ \A v \in vertices : a \in rule[v] => v = x
  <2>1. a \in Arbiters \cap supportOf(DOMAIN rule)
    BY <1>4, GraphFacts DEF supportOf
  <2>2. \A v \in vertices : a \in rule[v] => v = x
    BY <2>1, OneReader, GraphFacts
  <2> QED BY <1>4, <2>1, <2>2, OneReader DEF supportOf
<1>6. a \notin literals
  BY <1>2, <1>3, SupportAssumption DEF ConflictOK, IsExistential
<1>7. r \in Cuts(g) /\ \A t \in Cuts(g) : cost(g, r) <= cost(g, t)
  BY <1>2, NearestIsInternal, MinimumCutsAre
<1> HIDE DEF g, x, r
<1>8. s \in Cuts(g) /\ s[a] = 2 /\ s[x] = (IF r[x] = 0 THEN 1 ELSE r[x])
      /\ \A v \in g.vertices : v # a /\ v # x => s[v] = r[v]
  BY <1>1, <1>4, <1>5, <1>7 DEF Cuts
<1>9. s[x] >= 1 /\ (s[x] = 2 <=> r[x] = 2)
  BY <1>1, <1>5, <1>7, <1>8 DEF Cuts
<1>10. Terminal \notin g.vertices /\ a # Terminal /\ x # Terminal
  BY <1>1, <1>2, <1>4, <1>5 DEF GraphOK
<1> HIDE DEF s
<1>11. ASSUME NEW f \in cut(g, s), f # <<x, x>>
       PROVE  f \in cut(g, r) /\ f # <<a, a>>
  <2>1. f \in networkEdges(g) /\ tailReached(s, f) /\ ~headReached(s, f)
    BY CutEdge
  <2>2. /\ f[1] \in g.vertices \/ f[1] = Terminal
        /\ f[2] \in g.vertices \/ f[2] = Terminal
        /\ f = <<f[1], f[2]>>
    BY <1>2, <2>1, NetworkFinite
  <2>3. f[2] # a
    BY <1>8, <1>10, <2>1 DEF headReached
  <2>4. f[2] # x
    <3>1. SUFFICES ASSUME f[2] = x PROVE FALSE
      OBVIOUS
    <3>2. f[1] # x
      BY <1>11, <2>2, <3>1
    <3> QED BY <1>9, <1>10, <2>1, <3>1, <3>2 DEF headReached
  <2>5. f[1] # a
    <3>1. SUFFICES ASSUME f[1] = a PROVE FALSE
      OBVIOUS
    <3>2. f \in edges \/ f \in (literals \ {forced_variable}) \X {Terminal}
      BY <1>1, <1>10, <2>1, <2>2, <2>3, <3>1 DEF networkEdges
    <3>3. f \in edges
      BY <1>6, <3>1, <3>2
    <3>4. f[2] \in vertices /\ a \in rule[f[2]]
      BY <1>2, <3>1, <3>3 DEF GraphInv
    <3> QED BY <1>5, <2>4, <3>4
  <2>6. tailReached(r, f)
    <3>1. CASE f[1] = x
      BY <1>9, <1>10, <2>1, <2>4, <3>1 DEF tailReached
    <3>2. CASE f[1] # x
      BY <1>8, <2>1, <2>2, <2>5, <3>2 DEF tailReached
    <3> QED BY <3>1, <3>2
  <2>7. ~headReached(r, f)
    BY <1>8, <2>1, <2>2, <2>3, <2>4 DEF headReached
  <2> QED BY <2>1, <2>2, <2>5, <2>6, <2>7, CutEdge
<1>12. /\ <<a, a>> \in cut(g, r) /\ <<x, x>> \in networkEdges(g) /\ <<a, a>> # <<x, x>>
       /\ cut(g, s) \in SUBSET networkEdges(g) /\ cut(g, r) \in SUBSET networkEdges(g)
       /\ cut(g, s) \subseteq (cut(g, r) \ {<<a, a>>}) \cup {<<x, x>>}
  <2>1. <<a, a>> \in networkEdges(g) /\ <<x, x>> \in networkEdges(g) /\ <<a, a>> # <<x, x>>
    BY <1>1, <1>4, <1>5 DEF networkEdges
  <2>2. tailReached(r, <<a, a>>) /\ ~headReached(r, <<a, a>>)
    BY <1>4, <1>10 DEF tailReached, headReached, r
  <2> QED BY <1>11, <2>1, <2>2, CutEdge
<1>13. cost(g, s) + capacity(g, <<a, a>>) <= cost(g, r) + capacity(g, <<x, x>>)
  BY <1>2, <1>12, CutInstead DEF cost
<1>14. capacity(g, <<a, a>>) = 3 /\ capacity(g, <<x, x>>) = 2
  BY <1>1, <1>4, <1>5, <1>10 DEF capacity, unpreferredOf
<1>15. cost(g, r) <= cost(g, s) /\ cost(g, r) \in Nat /\ cost(g, s) \in Nat
  BY <1>2, <1>7, <1>8, CostType
<1> QED BY <1>13, <1>14, <1>15

LEMMA ForcingRemains ==
    ASSUME SupportInv
    PROVE  ForcingClausePossible
<1> SUFFICES ASSUME phase = "done", forced_variable # 0
             PROVE  /\ \A v \in existentialsOf(separator) \ {forced_variable} :
                          getAlias(v) \in ED[forced_variable]
                    /\ replace_initial => separator \cap literals = {}
                    /\ ~config["allow_arbiters_in_forcing_clauses"] => separator \cap Arbiters = {}
  BY DEF ForcingClausePossible
<1>1. \A v \in existentialsOf(separator) \ {forced_variable} : getAlias(v) \in ED[forced_variable]
  BY SeparatorAllowed DEF existentialsOf
<1>2. replace_initial => separator \cap literals = {}
  BY SeparatorAllowed, ForcedFacts
<1> QED BY <1>1, <1>2, NoArbiterCut

--------------------------------------------------------------------------------
(***************************************************************************)
(* The cut is no larger than it has to be.                                 *)
(***************************************************************************)
\* A cut through vertices that are neither forbidden nor unpreferred.
LEMMA InternalCost ==
    ASSUME NEW g, GraphOK(g), NEW A \in SUBSET g.vertices,
           A \cap g.unpreferred = {}, A \cap g.forbidden = {}
    PROVE  weight(g, {<<v, v>> : v \in A}) = 2 * Cardinality(A) /\ Cardinality(A) \in Nat
<1> DEFINE C == {<<v, v>> : v \in A}
<1>1. IsFiniteSet(A) /\ Cardinality(A) \in Nat
  BY FS_Subset, FS_CardinalityType DEF GraphOK
<1>2. Cardinality(C) = Cardinality(A)
  BY <1>1, InternalEdges
<1>3. \A e \in C : e[1] \in A /\ e[1] = e[2] /\ e[1] # Terminal
  BY DEF GraphOK
<1> HIDE DEF C
<1>4. ofUnpreferred(g, C) = {} /\ ofPenalised(g, C) = {} /\ ofExternal(g, C) = {}
      /\ ofInternal(g, C) = C
  BY <1>3 DEF ofUnpreferred, ofPenalised, ofExternal, ofInternal
<1>5. weight(g, C) = 3 * Cardinality({}) + penalty(g) * Cardinality({})
                       + 4 * Cardinality({}) + 2 * Cardinality(C)
  BY <1>4, WeightByCapacity
<1>6. Cardinality({}) = 0 /\ penalty(g) \in Nat
  BY FS_EmptySet, NetworkFinite
<1>7. penalty(g) * 0 = 0
  BY <1>6
<1> QED BY <1>1, <1>2, <1>5, <1>6, <1>7 DEF C

\* The least closed set around T: all in it but not in T is forced from within.
LEMMA LeastClosed ==
    ASSUME NEW T \in SUBSET graphVertices
    PROVE  \E K \in SUBSET graphVertices :
              T \subseteq K /\ Closed(K) /\ \A v \in K \ T : v \in DOMAIN rule /\ rule[v] \subseteq K
<1> DEFINE K == {v \in graphVertices : \A L \in SUBSET graphVertices :
                                           T \subseteq L /\ Closed(L) => v \in L}
<1>1. T \subseteq K /\ K \in SUBSET graphVertices
  OBVIOUS
<1>2. \A L \in SUBSET graphVertices : T \subseteq L /\ Closed(L) => K \subseteq L
  OBVIOUS
<1>3. Closed(K)
  <2> SUFFICES ASSUME NEW v \in DOMAIN rule, rule[v] \subseteq K,
                      NEW L \in SUBSET graphVertices, T \subseteq L, Closed(L)
               PROVE  v \in L
    BY DEF Closed, graphVertices
  <2> QED BY <1>2 DEF Closed
<1>4. ASSUME NEW v \in K \ T PROVE v \in DOMAIN rule /\ rule[v] \subseteq K
  <2>1. SUFFICES ASSUME ~(v \in DOMAIN rule /\ rule[v] \subseteq K) PROVE FALSE
    OBVIOUS
  <2> HIDE DEF K
  <2>2. K \ {v} \in SUBSET graphVertices /\ T \subseteq K \ {v}
    BY <1>1
  <2>3. Closed(K \ {v})
    <3> SUFFICES ASSUME NEW w \in DOMAIN rule, rule[w] \subseteq K \ {v} PROVE w \in K \ {v}
      BY DEF Closed
    <3> QED BY <1>3, <2>1 DEF Closed
  <2> QED BY <1>2, <2>2, <2>3
<1> QED BY <1>1, <1>3, <1>4

LEMMA GraphVerticesFinite ==
    ASSUME SupportInv
    PROVE  /\ IsFiniteSet(graphVertices) /\ literals \cap Arbiters = {}
           /\ graphVertices \cap Arbiters \subseteq supportOf(DOMAIN rule)
<1>1. ConflictOK /\ SourceInv
  BY DEF SupportInv
<1>2. literals \subseteq Vertices \ Arbiters
  BY <1>1, SupportAssumption DEF ConflictOK, Vertices, Variables
<1>3. DOMAIN rule \subseteq Vertices \ Arbiters
  <2> SUFFICES ASSUME NEW v \in DOMAIN rule PROVE v \in Vertices \ Arbiters
    OBVIOUS
  <2>1. v \in met
    BY <1>1 DEF SourceInv
  <2> QED BY <1>1, <2>1, MetAlias, SupportAssumption DEF IsExistential, Variables
<1>4. supportOf(DOMAIN rule) \subseteq Vertices
  <2> SUFFICES ASSUME NEW v \in DOMAIN rule PROVE rule[v] \subseteq Vertices
    BY DEF supportOf
  <2>1. v \in met /\ MayRead(v, rule[v])
    BY <1>1 DEF SourceInv
  <2> QED BY <1>1, <2>1, RuleReads
<1>5. graphVertices \subseteq Vertices
  BY <1>2, <1>3, <1>4 DEF graphVertices
<1>6. IsFiniteSet(graphVertices)
  BY <1>5, SupportAssumption, FS_Subset
<1>7. literals \cap Arbiters = {}
  BY <1>2
<1>8. graphVertices \cap Arbiters \subseteq supportOf(DOMAIN rule)
  BY <1>2, <1>3 DEF graphVertices
<1> QED BY <1>6, <1>7, <1>8

\* The variable that takes the place of a vertex.
inPlaceOf(v) == IF v \in Arbiters THEN arbiter_to_existential[v] ELSE v

Replaced(S) == {inPlaceOf(v) : v \in S}

LEMMA NoMoreReplaced ==
    ASSUME NEW S, IsFiniteSet(S)
    PROVE  IsFiniteSet(Replaced(S)) /\ Cardinality(Replaced(S)) <= Cardinality(S)
<1> DEFINE f == [v \in S |-> inPlaceOf(v)]
<1>1. f \in [S -> Replaced(S)] /\ \A t \in Replaced(S) : \E v \in S : f[v] = t
  BY DEF Replaced
<1>2. f \in Surjection(S, Replaced(S))
  BY <1>1 DEF Surjection
<1> HIDE DEF f
<1> QED BY <1>2, FS_Surjection

\* Variables do what the arbiters that decide them do.
LEMMA ReplacedDetermine ==
    ASSUME SupportInv, phase = "done", forced_variable # 0,
           ~config["allow_arbiters_in_forcing_clauses"],
           NEW S \in SUBSET graphVertices, Determines(S \cup {forced_variable}),
           \A v \in S : IsExistential(v) => getAlias(v) \in ED[forced_variable]
    PROVE  /\ Replaced(S) \in SUBSET graphVertices /\ Replaced(S) \cap Arbiters = {}
           /\ \A v \in Replaced(S) : IsExistential(v) => getAlias(v) \in ED[forced_variable]
           /\ Determines(Replaced(S) \cup {forced_variable})
<1>1. ASSUME NEW a \in S \cap Arbiters
      PROVE  LET x == arbiter_to_existential[a] IN
             /\ x \in DOMAIN rule /\ x \notin Arbiters /\ x \in ED[forced_variable] /\ getAlias(x) = x
             /\ \A v \in DOMAIN rule : a \in rule[v] => v = x
  <2>1. a \in Arbiters \cap supportOf(DOMAIN rule)
    BY GraphVerticesFinite
  <2> QED BY <2>1, OneReader
<1>2. Replaced(S) \in SUBSET graphVertices /\ Replaced(S) \cap Arbiters = {}
  <2> SUFFICES ASSUME NEW v \in S PROVE inPlaceOf(v) \in graphVertices \ Arbiters
    BY DEF Replaced
  <2> QED BY <1>1 DEF inPlaceOf, graphVertices
<1>3. \A v \in Replaced(S) : IsExistential(v) => getAlias(v) \in ED[forced_variable]
  <2> SUFFICES ASSUME NEW v \in S, IsExistential(inPlaceOf(v))
               PROVE  getAlias(inPlaceOf(v)) \in ED[forced_variable]
    BY DEF Replaced
  <2> QED BY <1>1 DEF inPlaceOf
<1>4. ASSUME NEW K \in SUBSET graphVertices,
             (Replaced(S) \cup {forced_variable}) \cap graphVertices \subseteq K, Closed(K)
      PROVE  literals \subseteq K
  <2> DEFINE L == K \cup (S \cap Arbiters)
  <2>1. L \in SUBSET graphVertices
    OBVIOUS
  <2>2. \A v \in S : inPlaceOf(v) \in K
    BY <1>2, <1>4 DEF Replaced
  <2>3. (S \cup {forced_variable}) \cap graphVertices \subseteq L
    BY <1>4, <2>2 DEF inPlaceOf
  <2>4. Closed(L)
    <3> SUFFICES ASSUME NEW v \in DOMAIN rule, rule[v] \subseteq L PROVE v \in L
      BY DEF Closed
    <3>1. CASE rule[v] \subseteq K
      BY <1>4, <3>1 DEF Closed
    <3>2. CASE ~(rule[v] \subseteq K)
      <4>1. PICK a \in S \cap Arbiters : a \in rule[v]
        BY <3>2
      <4>2. v = inPlaceOf(a)
        BY <1>1, <4>1 DEF inPlaceOf
      <4> QED BY <2>2, <4>1, <4>2
    <3> QED BY <3>1, <3>2
  <2>5. literals \subseteq L
    <3> HIDE DEF L
    <3> QED BY <2>1, <2>3, <2>4 DEF Determines
  <2> QED BY <2>5, GraphVerticesFinite
<1> QED BY <1>2, <1>3, <1>4 DEF Determines

\* A set that determines the conflict is a cut, of one internal edge for each vertex.
LEMMA DeterminingIsCut ==
    ASSUME SupportInv, phase = "done", forced_variable # 0,
           NEW T \in SUBSET graphVertices, T \cap Arbiters = {},
           \A v \in T : IsExistential(v) => getAlias(v) \in ED[forced_variable],
           Determines(T \cup {forced_variable})
    PROVE  \E c \in Cuts(conflictGraph) : cost(conflictGraph, c) <= 2 * Cardinality(T)
<1> DEFINE g == conflictGraph
           F == T \cup {forced_variable}
<1>1. /\ g.vertices = vertices \cup terminals /\ g.edges = edges /\ g.vertA = terminals
      /\ g.vertB = literals \ {forced_variable} /\ g.unpreferred = unpreferredOf(terminals)
      /\ g.forbidden = forbidden_variables \cup (IF replace_initial THEN literals ELSE {})
  BY DEF conflictGraph
<1>2. ConflictOK /\ SourceInv /\ GraphInv /\ GraphOK(g)
  BY GraphReady DEF SupportInv
<1>3. F \in SUBSET graphVertices /\ forced_variable \notin g.vertices
  BY <1>1, ForcedFacts
<1>4. PICK K \in SUBSET graphVertices :
         F \subseteq K /\ Closed(K) /\ \A v \in K \ F : v \in DOMAIN rule /\ rule[v] \subseteq K
  BY <1>3, LeastClosed
<1>5. literals \subseteq K
  BY <1>4 DEF Determines
<1> HIDE DEF g
<1> DEFINE c == [v \in g.vertices |-> IF v \in T THEN 1 ELSE IF v \in K THEN 0 ELSE 2]
           A == T \cap g.vertices
<1>6. c \in Cuts(g)
      /\ \A v \in g.vertices : /\ c[v] = 1 <=> v \in T
                               /\ c[v] = 0 <=> v \in K \ T
                               /\ c[v] = 2 <=> v \notin K
  BY <1>4 DEF Cuts
<1> HIDE DEF c
<1>7. Terminal \notin g.vertices
  BY <1>2 DEF GraphOK
<1>8. ASSUME NEW v \in vertices \cup terminals, v \in K \ T
      PROVE  v \in vertices /\ rule[v] \subseteq K
  <2>1. v \in DOMAIN rule /\ rule[v] \subseteq K
    BY <1>1, <1>3, <1>4, <1>8
  <2>2. v \notin terminals
    <3>1. v \notin source_vertices
      BY <1>2, <2>1 DEF GraphInv
    <3>2. IsExistential(v)
      BY <1>2, <2>1, MetAlias DEF SourceInv
    <3> QED BY <3>1, <3>2 DEF terminals
  <2> QED BY <1>8, <2>1, <2>2
<1>9. cut(g, c) \subseteq {<<v, v>> : v \in A}
  <2> SUFFICES ASSUME NEW e \in cut(g, c) PROVE e \in {<<v, v>> : v \in A}
    OBVIOUS
  <2>1. e \in networkEdges(g) /\ tailReached(c, e) /\ ~headReached(c, e)
    BY CutEdge
  <2>2. CASE \E v \in g.vertices : e = <<v, v>>
    <3>1. PICK v \in g.vertices : e = <<v, v>>
      BY <2>2
    <3>2. c[v] \in 0..2 /\ c[v] >= 1 /\ ~(c[v] >= 2)
      BY <1>6, <1>7, <2>1, <3>1 DEF tailReached, headReached, Cuts
    <3>3. c[v] = 1
      BY <3>2
    <3> QED BY <1>6, <3>1, <3>3
  <2>3. CASE e \in {Terminal} \X terminals
    <3>1. PICK v \in terminals : e = <<Terminal, v>>
      BY <2>3
    <3>2. v \in g.vertices /\ c[v] \in 0..2 /\ ~(c[v] >= 1)
      BY <1>1, <1>6, <1>7, <2>1, <3>1 DEF headReached, Cuts
    <3>3. v \in K \ T
      BY <1>6, <3>2
    <3> QED BY <1>8, <3>1, <3>3, GraphFacts
  <2>4. CASE e \in edges
    <3>1. e[1] \in rule[e[2]] /\ e[2] \in vertices /\ e = <<e[1], e[2]>>
      BY <1>2, <2>4 DEF GraphInv
    <3>2. e[1] \in g.vertices /\ e[2] \in g.vertices /\ e[1] # e[2]
      BY <1>1, <1>2, <2>4, <3>1 DEF GraphOK
    <3>3. c[e[1]] = 2 /\ c[e[2]] \in 0..2 /\ ~(c[e[2]] >= 1)
      BY <1>6, <1>7, <2>1, <3>2 DEF tailReached, headReached, Cuts
    <3>4. e[1] \notin K /\ e[2] \in K \ T
      BY <1>6, <3>2, <3>3
    <3> QED BY <1>8, <3>1, <3>4
  <2>5. CASE e \in (literals \ {forced_variable}) \X {Terminal}
    <3>1. PICK b \in literals \ {forced_variable} : e = <<b, Terminal>>
      BY <2>5
    <3>2. b \in g.vertices /\ b # Terminal
      BY <1>1, <1>7, GraphFacts
    <3>3. c[b] = 2
      BY <2>1, <3>1, <3>2 DEF tailReached
    <3> QED BY <1>5, <1>6, <3>2, <3>3
  <2> QED BY <1>1, <2>2, <2>3, <2>4, <2>5, <2>1 DEF networkEdges
<1>10. A \cap g.unpreferred = {} /\ A \cap g.forbidden = {}
  <2>1. A \cap g.unpreferred = {}
    BY <1>1 DEF unpreferredOf
  <2> SUFFICES ASSUME NEW v \in A, v \in g.forbidden PROVE FALSE
    BY <2>1
  <2>2. v \in vertices \/ (replace_initial /\ v \in literals)
    BY <1>1, <1>2 DEF GraphInv
  <2>3. v \in met
    BY <1>2, <2>2, ForcedFacts DEF GraphInv, SourceInv
  <2>4. IsExistential(v)
    BY <1>2, <2>3, MetAlias
  <2>5. getAlias(v) \in ED[forced_variable]
    BY <2>4
  <2>6. ~forbids(v)
    BY <2>5, ForcedFacts DEF forbids, containedInExtendedDependencies
  <2>7. replace_initial /\ v \in literals
    BY <1>1, <1>2, <2>6 DEF GraphInv
  <2>8. inconsistent \in Existentials /\ inconsistent # 0 /\ getAlias(v) = inconsistent
    BY <1>2, <2>7 DEF ConflictOK, replace_initial, getAlias
  <2>9. forced_variable \in met \ literals
    BY <1>2, <2>7, ForcedFacts DEF SourceInv
  <2>10. forced_variable \in ED[inconsistent] \cap Existentials
    BY <1>2, <2>8, <2>9, ForcedFacts DEF SourceInv
  <2>11. ED[forced_variable] \subseteq ED[inconsistent] /\ inconsistent \notin ED[inconsistent]
    BY <2>8, <2>10, OrderAssumption
  <2> QED BY <2>5, <2>8, <2>11
<1>11. cost(g, c) <= 2 * Cardinality(T)
  <2> DEFINE D == {<<v, v>> : v \in A}
  <2>1. weight(g, D) = 2 * Cardinality(A) /\ Cardinality(A) \in Nat
    BY <1>2, <1>10, InternalCost
  <2>2. cut(g, c) \in SUBSET networkEdges(g) /\ D \in SUBSET networkEdges(g)
    BY CutEdge DEF networkEdges
  <2>3. weight(g, cut(g, c)) + weight(g, {}) <= weight(g, D) + weight(g, {})
    <3>1. /\ cut(g, c) \cup {} \subseteq D \cup {} /\ cut(g, c) \cap {} \subseteq D \cap {}
          /\ {} \in SUBSET networkEdges(g)
      BY <1>9
    <3> HIDE DEF D
    <3> QED BY <1>2, <2>2, <3>1, WeighsLess
  <2>4. weight(g, cut(g, c)) \in Nat /\ weight(g, {}) \in Nat
    BY <1>2, <2>2, WeightType
  <2>5. IsFiniteSet(T)
    BY GraphVerticesFinite, FS_Subset
  <2>6. Cardinality(A) <= Cardinality(T) /\ Cardinality(T) \in Nat
    BY <2>5, FS_Subset, FS_CardinalityType
  <2> HIDE DEF D
  <2> QED BY <2>1, <2>3, <2>4, <2>6 DEF cost
<1> QED BY <1>6, <1>11 DEF g

\* What the separator without arbiters costs.
LEMMA SeparatorCost ==
    ASSUME SupportInv, phase = "done", forced_variable # 0,
           ~config["allow_arbiters_in_forcing_clauses"]
    PROVE  /\ Cardinality(separator) \in Nat
           /\ cost(conflictGraph, reached) = 2 * (Cardinality(separator) - 1)
<1> DEFINE g == conflictGraph
           A == separator \ {forced_variable}
<1>1. /\ g.vertices = vertices \cup terminals /\ g.vertA = terminals
      /\ g.unpreferred = unpreferredOf(terminals)
  BY DEF conflictGraph
<1>2. GraphOK(g)
  BY GraphReady
<1>3. /\ reached = reachable(g)
      /\ separator = separatorOf(cutEdges(g, reached)) \cup {forced_variable}
  BY DEF SupportInv, DoneInv
<1>4. \A v \in A : v \in g.vertices /\ v \notin g.forbidden
  BY <1>1, SeparatorAllowed
<1>5. A \cap g.unpreferred = {}
  BY <1>1, NoArbiterCut DEF unpreferredOf
<1> HIDE DEF g
<1>6. cut(g, reached) = {<<v, v>> : v \in A}
  <2>1. ASSUME NEW e \in cut(g, reached) PROVE e[1] \in A /\ e = <<e[1], e[1]>>
    <3>1. e[1] \in separator /\ e[1] = e[2]
      BY <1>2, <1>3, CutEdge, OnlyInternal DEF separatorOf
    <3>2. e[1] \in g.vertices
      BY <1>2, <1>3, NearestCut, NothingPenalised
    <3>3. e = <<e[1], e[2]>>
      BY <1>2, CutEdge, NetworkFinite
    <3> QED BY <1>1, <3>1, <3>2, <3>3, ForcedFacts
  <2>2. ASSUME NEW v \in A PROVE <<v, v>> \in cut(g, reached)
    <3>1. PICK e \in cut(g, reached) : v = e[1]
      BY <1>3, <2>2, CutEdge DEF separatorOf
    <3> QED BY <2>1, <3>1
  <2> QED BY <2>1, <2>2
<1>7. weight(g, {<<v, v>> : v \in A}) = 2 * Cardinality(A) /\ Cardinality(A) \in Nat
  BY <1>2, <1>4, <1>5, InternalCost
<1>8. Cardinality(separator) = Cardinality(A) + 1
  <2>1. IsFiniteSet(A)
    BY <1>2, <1>4, FS_Subset DEF GraphOK
  <2>2. separator = A \cup {forced_variable} /\ forced_variable \notin A
    BY <1>3
  <2> HIDE DEF A
  <2> QED BY <2>1, <2>2, FS_AddElement
<1> QED BY <1>6, <1>7, <1>8 DEF cost, g

LEMMA CutMinimal ==
    ASSUME SupportInv
    PROVE  CutIsMinimal
<1> SUFFICES ASSUME phase = "done", forced_variable # 0
             PROVE  /\ conflictGraph.vertA \cap conflictGraph.forbidden = {}
                    /\ \A e \in cutEdges(conflictGraph, reached) : e[1] = e[2]
                    /\ ~config["allow_arbiters_in_forcing_clauses"] =>
                          \A S \in SUBSET {v \in graphVertices :
                                     IsExistential(v) => getAlias(v) \in ED[forced_variable]} :
                             Cardinality(S) + 1 < Cardinality(separator) =>
                                ~Determines(S \cup {forced_variable})
  BY DEF CutIsMinimal
<1>1. conflictGraph.vertA \cap conflictGraph.forbidden = {}
  BY GraphReady DEF GraphOK
<1>2. \A e \in cutEdges(conflictGraph, reached) : e[1] = e[2]
  <2>1. reached = reachable(conflictGraph)
    BY DEF SupportInv, DoneInv
  <2> QED BY <2>1, GraphReady, OnlyInternal, CutEdge
<1>3. ASSUME ~config["allow_arbiters_in_forcing_clauses"],
             NEW S \in SUBSET graphVertices,
             \A v \in S : IsExistential(v) => getAlias(v) \in ED[forced_variable],
             Cardinality(S) + 1 < Cardinality(separator),
             Determines(S \cup {forced_variable})
      PROVE  FALSE
  <2>1. IsFiniteSet(S)
    BY GraphVerticesFinite, FS_Subset
  <2>2. /\ IsFiniteSet(Replaced(S)) /\ Cardinality(Replaced(S)) <= Cardinality(S)
        /\ Cardinality(S) \in Nat /\ Cardinality(Replaced(S)) \in Nat
    BY <2>1, NoMoreReplaced, FS_CardinalityType
  <2>3. PICK c \in Cuts(conflictGraph) :
           cost(conflictGraph, c) <= 2 * Cardinality(Replaced(S))
    BY <1>3, ReplacedDetermine, DeterminingIsCut
  <2>4. cost(conflictGraph, reached) <= cost(conflictGraph, c)
    BY <2>3, GraphReady, NearestIsInternal, MinimumCutsAre
  <2>5. /\ Cardinality(separator) \in Nat
        /\ cost(conflictGraph, reached) = 2 * (Cardinality(separator) - 1)
    BY <1>3, SeparatorCost
  <2>6. cost(conflictGraph, c) \in Nat
    BY GraphReady, CostType
  <2> QED BY <1>3, <2>2, <2>3, <2>4, <2>5, <2>6
<1> QED BY <1>1, <1>2, <1>3

--------------------------------------------------------------------------------
(***************************************************************************)
(* The theorems.                                                           *)
(***************************************************************************)
\* The first traversal gives all it meets a rule or makes it a source, the second one
\* builds the graph of the rules that lead to the conflict and forbids in it what the
\* forced variable must not read.
THEOREM SupportInvariant == SupportSpec => []SupportInv
<1>1. SupportInit => SupportInv
  BY SupportStart
<1>2. SupportInv /\ [SupportNext]_vars => SupportInv'
  BY SupportStepInv
<1> QED BY <1>1, <1>2, PTL DEF SupportSpec

\* Under the active rules the values passed on imply all literals of the conflict: what
\* getMinimalSeparator returns is enough for the core the solver is asked for.
THEOREM SeparatorSuffices == SupportSpec => []SeparatorDetermines
<1>1. SupportInv => SeparatorDetermines
  BY SeparatorIsEnough
<1> QED BY <1>1, SupportInvariant, PTL

\* With a forced variable the others that are passed on are ones it may read, and no
\* arbiters where forcing clauses have none: getConflict can learn a forcing clause.
THEOREM ForcingStaysPossible == SupportSpec => []ForcingClausePossible
<1>1. SupportInv => ForcingClausePossible
  BY ForcingRemains
<1> QED BY <1>1, SupportInvariant, PTL

\* The assertion of vertexSeparatorFromEdgeSeparator holds, no source is forbidden, and
\* no smaller set of vertices the forced variable may read would have been enough.
THEOREM NothingSmaller == SupportSpec => []CutIsMinimal
<1>1. SupportInv => CutIsMinimal
  BY CutMinimal
<1> QED BY <1>1, SupportInvariant, PTL

================================================================================
