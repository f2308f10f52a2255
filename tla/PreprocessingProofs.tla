--------------------------- MODULE PreprocessingProofs ---------------------------
(***************************************************************************)
(* Proofs about the preprocessor, for every formula: the searches compute  *)
(* the dependency scheme in whatever order they run, universal reduction   *)
(* loses no model, and what the search for unate literals finds may be     *)
(* fixed all at once, with nothing missed where there is no limit.  The    *)
(* interpolating solver's clauses decide whether a variable is defined,    *)
(* however many were added, and the definitions read off are right.        *)
(***************************************************************************)
EXTENDS UnateChecker, DefinabilityChecker, SortedVectorProofs

--------------------------------------------------------------------------------
(***************************************************************************)
(* Closures.  A search that adds what is one step away until nothing new   *)
(* comes ends with the least closed set, as the sets it passes are subsets *)
(* of a finite one.                                                        *)
(***************************************************************************)
LeastClosed(S, next, N) ==
    {k \in S : \A K \in SUBSET S : N \subseteq K /\ next[K] = K => k \in K}

\* The recursion stops at the least closed set above N.
LEMMA SearchEnds ==
    ASSUME NEW S, IsFiniteSet(S), NEW next \in [SUBSET S -> SUBSET S],
           \A N \in SUBSET S : N \subseteq next[N],
           \A K, N \in SUBSET S : N \subseteq K => next[N] \subseteq next[K]
    PROVE  LET reach[N \in SUBSET S] == IF next[N] = N THEN N ELSE reach[next[N]]
           IN  \A N \in SUBSET S : reach[N] = LeastClosed(S, next, N)
<1> DEFINE least == [N \in SUBSET S |-> LeastClosed(S, next, N)]
           Solves(f) == f = [N \in SUBSET S |-> IF next[N] = N THEN N ELSE f[next[N]]]
           reach == CHOOSE f : Solves(f)
<1>1. ASSUME NEW N \in SUBSET S, next[N] = N PROVE LeastClosed(S, next, N) = N
  BY <1>1 DEF LeastClosed
<1>2. ASSUME NEW N \in SUBSET S PROVE LeastClosed(S, next, N) = LeastClosed(S, next, next[N])
  <2>1. ASSUME NEW K \in SUBSET S, next[K] = K PROVE N \subseteq K <=> next[N] \subseteq K
    BY <2>1
  <2> QED BY <2>1 DEF LeastClosed
<1>3. Solves(least)
  <2>1. ASSUME NEW N \in SUBSET S
        PROVE  LeastClosed(S, next, N)
                  = IF next[N] = N THEN N ELSE least[next[N]]
    <3>1. next[N] \in SUBSET S
      OBVIOUS
    <3>2. least[next[N]] = LeastClosed(S, next, next[N])
      BY <3>1
    <3> HIDE DEF least
    <3> QED BY <1>1, <1>2, <3>2
  <2> QED BY <2>1
<1> HIDE DEF least
<1>4. Solves(reach)
  BY <1>3
<1> HIDE DEF reach
<1>5. \A N \in SUBSET S : reach[N] = IF next[N] = N THEN N ELSE reach[next[N]]
  BY <1>4
<1> DEFINE Left == {S \ N : N \in {M \in SUBSET S : reach[M] # LeastClosed(S, next, M)}}
<1>6. Left = {}
  <2> SUFFICES ASSUME Left # {} PROVE FALSE
    OBVIOUS
  <2>1. Left \subseteq FiniteSubsetsOf(S)
    BY FS_Subset DEF FiniteSubsetsOf
  <2>2. PICK R \in Left : \A Q \in Left : ~ (<<Q, R>> \in StrictSubsetOrdering(S))
    <3> HIDE DEF Left
    <3> QED BY <2>1, FS_StrictSubsetOrderingWellFounded, WFMin
  <2>3. PICK N \in SUBSET S : R = S \ N /\ reach[N] # LeastClosed(S, next, N)
    OBVIOUS
  <2>4. next[N] # N /\ reach[N] = reach[next[N]]
    BY <1>1, <1>5, <2>3
  <2>5. next[N] \in SUBSET S /\ reach[next[N]] # LeastClosed(S, next, next[N])
    BY <1>2, <2>3, <2>4
  <2>6. S \ next[N] \in Left
    BY <2>5
  <2>7. <<S \ next[N], R>> \in StrictSubsetOrdering(S)
    <3>1. S \ next[N] \subseteq S \ N /\ S \ next[N] # S \ N
      BY <2>4, <2>5
    <3> QED BY <2>3, <3>1 DEF StrictSubsetOrdering
  <2> QED BY <2>2, <2>6, <2>7
<1>7. \A N \in SUBSET S : reach[N] = LeastClosed(S, next, N)
  <2> SUFFICES ASSUME NEW N \in SUBSET S, reach[N] # LeastClosed(S, next, N) PROVE FALSE
    OBVIOUS
  <2>1. S \ N \in Left
    OBVIOUS
  <2> QED BY <1>6, <2>1
<1> HIDE DEF Left
<1> QED BY <1>7 DEF reach

--------------------------------------------------------------------------------
(***************************************************************************)
(* One search.                                                             *)
(***************************************************************************)
LEMMA LiteralsFinite == IsFiniteSet(Literals)
<1>1. IsFiniteSet(Variables)
  BY PrefixAssumption, FS_Union DEF Variables
<1>2. IsFiniteSet(BOOLEAN)
  <2>1. IsFiniteSet({TRUE}) /\ IsFiniteSet({FALSE})
    BY FS_Singleton, Zenon
  <2>2. IsFiniteSet({TRUE} \cup {FALSE})
    BY <2>1, FS_Union, Zenon
  <2>3. BOOLEAN = {TRUE} \cup {FALSE}
    OBVIOUS
  <2> QED BY <2>2, <2>3
<1> QED BY <1>1, <1>2, FS_Product DEF Literals

\* More literals lead to more.
LEMMA SuccessorsGrow ==
    ASSUME NEW N, NEW K, N \subseteq K
    PROVE  Successors(N) \subseteq Successors(K)
BY DEF Successors

\* What a search finds beside the marks there were.
LEMMA SearchFinds ==
    ASSUME NEW l \in Literals, NEW considered, NEW marked, NEW open,
           open = {k \in Literals : k[1] \in considered /\ k \notin marked}, l \in open
    PROVE  searchPaths(l, considered, marked)
              = marked \cup {k \in open : \A K \in SUBSET open :
                    l \in K /\ Successors(K) \cap open \subseteq K => k \in K}
<1> DEFINE next == [N \in SUBSET Literals |-> N \cup (Successors(N) \cap open)]
           reach[N \in SUBSET Literals] == IF next[N] = N THEN N ELSE reach[next[N]]
           walk[N \in SUBSET Literals] ==
               LET M == N \cup (Successors(N) \cap open) IN IF M = N THEN N ELSE walk[M]
<1>1. /\ next \in [SUBSET Literals -> SUBSET Literals]
      /\ \A N \in SUBSET Literals : N \subseteq next[N]
      /\ \A K, N \in SUBSET Literals : N \subseteq K => next[N] \subseteq next[K]
  BY SuccessorsGrow
<1>2. \A N \in SUBSET Literals : reach[N] = LeastClosed(Literals, next, N)
  <2> HIDE DEF next
  <2> QED BY <1>1, LiteralsFinite, SearchEnds
<1>3. walk = reach
  <2>1. \A f : [N \in SUBSET Literals |->
                   LET M == N \cup (Successors(N) \cap open) IN IF M = N THEN N ELSE f[M]]
             = [N \in SUBSET Literals |-> IF next[N] = N THEN N ELSE f[next[N]]]
    OBVIOUS
  <2> QED BY <2>1
<1>4. searchPaths(l, considered, marked) = marked \cup walk[{l} \cap open]
  BY DEF searchPaths
<1>5. {l} \cap open = {l} /\ {l} \in SUBSET Literals
  OBVIOUS
<1>6. searchPaths(l, considered, marked) = marked \cup LeastClosed(Literals, next, {l})
  <2> HIDE DEF walk, reach, next
  <2> QED BY <1>2, <1>3, <1>4, <1>5
<1> HIDE DEF walk, reach
<1>7. ASSUME NEW k \in Literals, \A K \in SUBSET Literals : {l} \subseteq K /\ next[K] = K => k \in K
      PROVE  k \in open /\ \A K \in SUBSET open : l \in K /\ Successors(K) \cap open \subseteq K => k \in K
  <2>1. next[open] = open
    OBVIOUS
  <2>2. k \in open
    BY <1>7, <2>1
  <2>3. ASSUME NEW K \in SUBSET open, l \in K, Successors(K) \cap open \subseteq K PROVE k \in K
    <3>1. next[K] = K /\ K \in SUBSET Literals
      BY <2>3
    <3> QED BY <1>7, <2>3, <3>1
  <2> QED BY <2>2, <2>3
<1>8. ASSUME NEW k \in open, \A K \in SUBSET open : l \in K /\ Successors(K) \cap open \subseteq K => k \in K,
             NEW K \in SUBSET Literals, {l} \subseteq K, next[K] = K
      PROVE  k \in K
  <2>1. Successors(K \cap open) \subseteq Successors(K)
    BY SuccessorsGrow
  <2>2. Successors(K) \cap open \subseteq K
    BY <1>8
  <2>3. Successors(K \cap open) \cap open \subseteq K \cap open
    BY <2>1, <2>2
  <2> QED BY <1>8, <2>3
<1>9. LeastClosed(Literals, next, {l})
         = {k \in open : \A K \in SUBSET open : l \in K /\ Successors(K) \cap open \subseteq K => k \in K}
  BY <1>7, <1>8 DEF LeastClosed
<1> QED BY <1>6, <1>9

\* In a search from the literal l of u the open literals are those a path may pass,
\* and nothing but what the search finds is marked at the variables it considers.
LEMMA SearchIsReachable ==
    ASSUME NEW u \in Universals, NEW b \in BOOLEAN, formula \in Formulas,
           NEW marked, \A m \in marked : m[1] # u
    PROVE  LET l == <<u, b>>
               found == searchPaths(l, Considered(u), setUpSearchVectors(marked, u, <<u, ~b>>))
           IN  /\ \A e \in Considered(u) \ {u}, s \in BOOLEAN : <<e, s>> \in found <=> <<e, s>> \in Reachable(l)
               /\ \A m \in found : m \in marked \/ m[1] \in Considered(u)
<1> DEFINE l == <<u, b>>
           walled == setUpSearchVectors(marked, u, <<u, ~b>>)
           open == {k \in Literals : k[1] \in Considered(u) /\ k \notin walled}
           passable == {m \in Considered(u) \X BOOLEAN : m # <<u, ~b>>}
<1>1. Considered(u) \subseteq Variables
  BY PreprocessingAssumption DEF Considered, inverse_deps, Kept, Variables
<1>2. \A e \in Considered(u), s \in BOOLEAN : <<e, s>> \in walled <=> <<e, s>> = <<u, ~b>>
  BY DEF setUpSearchVectors
<1>3. open = passable
  <2>1. ASSUME NEW k \in open PROVE k \in passable
    <3>1. k = <<k[1], k[2]>> /\ k[1] \in Considered(u) /\ k[2] \in BOOLEAN /\ k \notin walled
      BY DEF Literals
    <3>2. k # <<u, ~b>>
      BY <1>2, <3>1
    <3> QED BY <3>1, <3>2
  <2>2. ASSUME NEW k \in passable PROVE k \in open
    <3>1. k = <<k[1], k[2]>> /\ k[1] \in Considered(u) /\ k[2] \in BOOLEAN
      OBVIOUS
    <3>2. k \in Literals
      BY <1>1, <3>1 DEF Literals
    <3> QED BY <1>2, <3>1, <3>2
  <2> QED BY <2>1, <2>2
<1>4. l \in Literals /\ l \in open
  <2>1. u \in Considered(u) /\ b # ~b
    BY DEF Considered
  <2>2. l \in passable
    BY <2>1
  <2> HIDE DEF open, passable
  <2> QED BY <1>3, <2>2 DEF open
<1>5. searchPaths(l, Considered(u), walled)
         = walled \cup {k \in open : \A K \in SUBSET open :
               l \in K /\ Successors(K) \cap open \subseteq K => k \in K}
  <2>1. open = {k \in Literals : k[1] \in Considered(u) /\ k \notin walled}
    OBVIOUS
  <2> HIDE DEF l, walled, open
  <2> QED BY <1>4, <2>1, SearchFinds
<1>6. Reachable(l) = {k \in open : \A K \in SUBSET open :
               l \in K /\ Successors(K) \cap open \subseteq K => k \in K}
  <2>1. {m \in Considered(l[1]) \X BOOLEAN : m # Negation(l)} = passable
    BY DEF Negation
  <2> HIDE DEF passable, open, l
  <2> QED BY <1>3, <2>1 DEF Reachable
<1>7. ASSUME NEW e \in Considered(u) \ {u}, NEW s \in BOOLEAN PROVE <<e, s>> \notin walled
  BY <1>2, <1>7
<1>8. /\ \A m \in walled : m \in marked \/ m[1] \in Considered(u)
      /\ \A m \in open : m[1] \in Considered(u)
  BY DEF setUpSearchVectors, Considered
<1> HIDE DEF open, passable, walled
<1> QED BY <1>5, <1>6, <1>7, <1>8 DEF walled

\* Whatever the marks were, a search finds the variables its universal matters to.
LEMMA PathsFound ==
    ASSUME NEW u \in Universals, formula \in Formulas, NEW e \in inverse_deps(u),
           \A m \in marked_positive \cup marked_negative : m[1] # u
    PROVE  LET positive == searchPaths(<<u, TRUE>>, Considered(u),
                               setUpSearchVectors(marked_positive, u, <<u, FALSE>>))
               negative == searchPaths(<<u, FALSE>>, Considered(u),
                               setUpSearchVectors(marked_negative, u, <<u, TRUE>>))
           IN  HasPath(e, positive, negative) <=> ResolutionPath(u, e)
<1>1. e \in Considered(u) \ {u}
  BY PrefixAssumption DEF Considered, inverse_deps, Kept
<1>2. (~TRUE) = FALSE /\ (~FALSE) = TRUE
  OBVIOUS
<1> DEFINE positive == searchPaths(<<u, TRUE>>, Considered(u),
                           setUpSearchVectors(marked_positive, u, <<u, FALSE>>))
           negative == searchPaths(<<u, FALSE>>, Considered(u),
                           setUpSearchVectors(marked_negative, u, <<u, TRUE>>))
<1>3. \A s \in BOOLEAN : <<e, s>> \in positive <=> <<e, s>> \in Reachable(<<u, TRUE>>)
  BY <1>1, <1>2, SearchIsReachable
<1>4. \A s \in BOOLEAN : <<e, s>> \in negative <=> <<e, s>> \in Reachable(<<u, FALSE>>)
  BY <1>1, <1>2, SearchIsReachable
<1> HIDE DEF positive, negative
<1>5. HasPath(e, positive, negative) <=> ResolutionPath(u, e)
  BY <1>3, <1>4 DEF HasPath, ResolutionPath
<1> QED BY <1>5 DEF positive, negative

--------------------------------------------------------------------------------
(***************************************************************************)
(* The scheme.                                                             *)
(***************************************************************************)

\* What is found is what the scheme keeps of the universals searched from; a
\* universal not searched from has no mark, as no search passes another universal.
SchemeInv ==
    /\ formula \in Formulas /\ setting \in PreprocessSettings
    /\ phase \in {"scheme", "reduction", "done"}
    /\ unsearched \subseteq Universals
    /\ phase # "scheme" \/ ~setting.scheme => unsearched = {}
    /\ \A m \in marked_positive \cup marked_negative : m[1] \notin unsearched
    /\ dependencies \in [Kept -> SUBSET Universals]
    /\ phase # "done" => dependencies = [e \in Kept |->
           IF setting.scheme THEN {u \in formula.prefix[e] \ unsearched : ResolutionPath(u, e)}
                             ELSE formula.prefix[e]]
    /\ clauses = IF phase = "done" /\ setting.reduction
                 THEN {applyForallReduction(c) : c \in formula.clauses} ELSE formula.clauses

LEMMA SchemeStart == PreprocessingInit => SchemeInv
<1> SUFFICES ASSUME PreprocessingInit PROVE SchemeInv
  OBVIOUS
<1>1. \A e \in Kept : formula.prefix[e] \subseteq Universals
  BY PreprocessingAssumption DEF PreprocessingInit, Kept
<1>2. setting.scheme \in BOOLEAN
  BY PreprocessingAssumption DEF PreprocessingInit
<1>3. dependencies = [e \in Kept |->
           IF setting.scheme THEN {u \in formula.prefix[e] \ unsearched : ResolutionPath(u, e)}
                             ELSE formula.prefix[e]]
  <2>1. CASE setting.scheme
    <3>1. \A e \in Kept : {u \in formula.prefix[e] \ unsearched : ResolutionPath(u, e)} = {}
      BY <1>1, <2>1 DEF PreprocessingInit
    <3> QED BY <2>1, <3>1 DEF PreprocessingInit
  <2>2. CASE ~setting.scheme
    BY <2>2 DEF PreprocessingInit
  <2> QED BY <2>1, <2>2
<1>4. dependencies \in [Kept -> SUBSET Universals]
  BY <1>1 DEF PreprocessingInit
<1> QED BY <1>3, <1>4 DEF PreprocessingInit, SchemeInv

LEMMA SearchKeepsScheme ==
    ASSUME SchemeInv, NEW u \in Universals, SearchFrom(u)
    PROVE  SchemeInv'
<1>1. u \in unsearched /\ phase = "scheme"
  BY DEF SearchFrom
<1>2. \A m \in marked_positive \cup marked_negative : m[1] # u
  BY <1>1 DEF SchemeInv
<1>3. Considered(u) \cap Universals = {u}
  BY PrefixAssumption, PreprocessingAssumption DEF SchemeInv, Considered, inverse_deps, Kept
<1>4. (~TRUE) = FALSE /\ (~FALSE) = TRUE
  OBVIOUS
<1>5. /\ \A m \in marked_positive' : m \in marked_positive \/ m[1] \in Considered(u)
      /\ \A m \in marked_negative' : m \in marked_negative \/ m[1] \in Considered(u)
  BY <1>2, <1>4, SearchIsReachable DEF SearchFrom, SchemeInv
<1>6. \A m \in (marked_positive \cup marked_negative)' : m[1] \notin unsearched'
  <2> SUFFICES ASSUME NEW m \in (marked_positive \cup marked_negative)' PROVE m[1] \notin unsearched \ {u}
    BY DEF SearchFrom
  <2>1. m \in marked_positive \cup marked_negative \/ m[1] \in Considered(u)
    BY <1>5
  <2> QED BY <1>3, <2>1 DEF SchemeInv
<1> DEFINE found == {e \in inverse_deps(u) : HasPath(e, marked_positive', marked_negative')}
<1>7. \A e \in inverse_deps(u) : HasPath(e, marked_positive', marked_negative') <=> ResolutionPath(u, e)
  BY <1>2, PathsFound DEF SearchFrom, SchemeInv
<1>8. found \subseteq Kept /\ \A e \in Kept : e \in found <=> u \in formula.prefix[e] /\ ResolutionPath(u, e)
  BY <1>7 DEF inverse_deps
<1>9. dependencies' = [e \in DOMAIN dependencies \cup found |->
               IF e \in found THEN AddTo(dependencies, e, u) ELSE dependencies[e]]
  BY DEF SearchFrom
<1> HIDE DEF found
<1>10. UNCHANGED <<formula, setting, clauses, phase>> /\ unsearched' = unsearched \ {u}
  BY DEF SearchFrom
<1>11. setting.scheme
  BY <1>1 DEF SchemeInv
<1>12. dependencies' = [e \in Kept |-> {w \in formula.prefix[e] \ unsearched' : ResolutionPath(w, e)}]
  <2>1. dependencies = [e \in Kept |-> {w \in formula.prefix[e] \ unsearched : ResolutionPath(w, e)}]
    <3>1. dependencies = [e \in Kept |->
             IF setting.scheme THEN {w \in formula.prefix[e] \ unsearched : ResolutionPath(w, e)}
                               ELSE formula.prefix[e]]
      BY <1>1 DEF SchemeInv
    <3> QED BY <1>11, <3>1
  <2>2. ASSUME NEW e \in Kept
        PROVE  (IF e \in found THEN AddTo(dependencies, e, u) ELSE dependencies[e])
                  = {w \in formula.prefix[e] \ unsearched' : ResolutionPath(w, e)}
    BY <1>1, <1>8, <1>10, <2>1 DEF AddTo
  <2> QED BY <1>8, <1>9, <2>1, <2>2
<1>13. Kept' = Kept /\ \A w, e : ResolutionPath(w, e)' = ResolutionPath(w, e)
  BY <1>10 DEF Kept, ResolutionPath, Reachable, Successors, Considered, inverse_deps
<1>14. dependencies' \in [Kept -> SUBSET Universals]
  <2>1. \A e \in Kept : formula.prefix[e] \subseteq Universals
    BY PreprocessingAssumption DEF SchemeInv, Kept
  <2> QED BY <1>12, <2>1
<1> QED BY <1>1, <1>6, <1>10, <1>11, <1>12, <1>13, <1>14 DEF SchemeInv

LEMMA SchemeStepInv == SchemeInv /\ [PreprocessingNext]_preprocessingVars => SchemeInv'
<1> SUFFICES ASSUME SchemeInv, [PreprocessingNext]_preprocessingVars PROVE SchemeInv'
  OBVIOUS
<1>1. ASSUME NEW u \in Universals, SearchFrom(u) PROVE SchemeInv'
  BY <1>1, SearchKeepsScheme
<1>2. ASSUME UNCHANGED <<formula, clauses>>
      PROVE  Kept' = Kept /\ \A w, e : ResolutionPath(w, e)' = ResolutionPath(w, e)
  BY <1>2 DEF Kept, ResolutionPath, Reachable, Successors, Considered, inverse_deps
<1>3. ASSUME UNCHANGED <<formula, dependencies>>
      PROVE  Kept' = Kept /\ \A c : applyForallReduction(c)' = applyForallReduction(c)
  BY <1>3 DEF Kept, applyForallReduction, Needed, restrictTo
<1>4. CASE EndScheme
  BY <1>2, <1>3, <1>4 DEF EndScheme, SchemeInv
<1>5. CASE Reduce
  BY <1>3, <1>5 DEF Reduce, SchemeInv
<1>6. CASE UNCHANGED preprocessingVars
  BY <1>2, <1>3, <1>6 DEF preprocessingVars, SchemeInv
<1> QED BY <1>1, <1>4, <1>5, <1>6 DEF PreprocessingNext

THEOREM SchemeInvariant == PreprocessingSpec => []SchemeInv
BY SchemeStart, SchemeStepInv, PTL DEF PreprocessingSpec

\* The marks one search leaves never change what a later one finds, in whatever order
\* the universals come: the scheme is the one of its definition.
THEOREM SchemeAsDefined == PreprocessingSpec => []SchemeExact
<1>1. SchemeInv => SchemeExact
  BY DEF SchemeInv, SchemeExact
<1> QED BY <1>1, SchemeInvariant, PTL

--------------------------------------------------------------------------------
(***************************************************************************)
(* The scheme keeps the truth.  Of a model, the answers to an assignment   *)
(* and to the one that differs in u alone are brought together: a variable *)
(* changes with u only where a path leads from the literal of u to the     *)
(* value it changes to.  Done for both literals of u, what is left of the  *)
(* dependence on u is what the scheme keeps.                               *)
(***************************************************************************)
flipped(w, u, b) == [x \in Universals |-> IF x = u THEN b ELSE w[x]]

LEMMA FlippedFacts ==
    ASSUME NEW w \in UniversalAssignments, NEW u \in Universals, NEW b \in BOOLEAN
    PROVE  /\ flipped(w, u, b) \in UniversalAssignments
           /\ flipped(w, u, b)[u] = b
           /\ \A x \in Universals \ {u} : flipped(w, u, b)[x] = w[x]
           /\ w[u] = b => flipped(w, u, b) = w
           /\ \A a \in BOOLEAN : flipped(flipped(w, u, a), u, b) = flipped(w, u, b)
BY DEF flipped, UniversalAssignments

\* A path goes on through the other literals of a clause.
LEMMA PathGoesOn ==
    ASSUME NEW u \in Universals, NEW b \in BOOLEAN, NEW q \in Reachable(<<u, b>>),
           NEW c \in clauses, Negation(q) \in LiteralsOf(c),
           NEW k \in DOMAIN c, k \in Considered(u), k # u, k # q[1], c[k] \in BOOLEAN
    PROVE  <<k, c[k]>> \in Reachable(<<u, b>>)
<1> DEFINE l == <<u, b>>
           passable == {m \in Considered(u) \X BOOLEAN : m # Negation(l)}
<1>1. Reachable(l) = {m \in passable : \A K \in SUBSET passable :
                         l \in K /\ Successors(K) \cap passable \subseteq K => m \in K}
  BY DEF Reachable
<1>2. <<k, c[k]>> \in passable
  BY DEF Negation
<1>3. ASSUME NEW K \in SUBSET passable, q \in K PROVE <<k, c[k]>> \in Successors(K)
  <2>1. <<c, q>> \in {p \in clauses \X K : Negation(p[2]) \in LiteralsOf(p[1])}
    BY <1>3
  <2>2. <<k, c[k]>> \in LiteralsOf(c) \ {Negation(q)}
    BY DEF LiteralsOf, Negation
  <2> QED BY <2>1, <2>2 DEF Successors
<1> HIDE DEF passable, l
<1>4. ASSUME NEW K \in SUBSET passable, l \in K, Successors(K) \cap passable \subseteq K
      PROVE  <<k, c[k]>> \in K
  <2>1. q \in K
    BY <1>1, <1>4 DEF l
  <2> QED BY <1>2, <1>3, <1>4, <2>1
<1>5. <<k, c[k]>> \in Reachable(l)
  BY <1>1, <1>2, <1>4
<1> QED BY <1>5 DEF l

LEMMA PathStarts ==
    ASSUME NEW u \in Universals, NEW b \in BOOLEAN
    PROVE  <<u, b>> \in Reachable(<<u, b>>)
BY DEF Reachable, Negation, Considered

\* The answers of F where u is b, but a variable without a path to its value keeps the
\* one it has where u is not b.
brought(F, u, b) ==
    [w \in UniversalAssignments |-> [e \in Existentials |->
        LET other == F[flipped(w, u, ~b)][e]
        IN  IF w[u] = b /\ <<e, F[w][e]>> \notin Reachable(<<u, b>>) THEN other ELSE F[w][e]]]

\* dep are dependencies of which those on u are still those of the prefix.
StillOn(dep, u) ==
    /\ dep \in [Existentials -> SUBSET Universals]
    /\ \A e \in Existentials : u \in dep[e] <=> e \in Considered(u)

LEMMA BroughtSatisfies ==
    ASSUME SchemeInv, clauses = formula.clauses, NEW u \in Universals, NEW b \in BOOLEAN,
           NEW dep, StillOn(dep, u), NEW F \in SkolemModels(dep, MatrixOf(clauses)),
           NEW w \in UniversalAssignments
    PROVE  Join(w, brought(F, u, b)[w]) \in MatrixOf(clauses)
<1> DEFINE v == flipped(w, u, ~b)
           G == brought(F, u, b)
           s == Join(w, F[w])
           s0 == Join(v, F[v])
           t == Join(w, G[w])
<1>1. v \in UniversalAssignments /\ v[u] = ~b /\ \A x \in Universals \ {u} : v[x] = w[x]
  <2>1. PICK a \in BOOLEAN : a = ~b
    OBVIOUS
  <2>2. v = flipped(w, u, a)
    BY <2>1
  <2> HIDE DEF v
  <2>3. v \in UniversalAssignments /\ v[u] = a /\ \A x \in Universals \ {u} : v[x] = w[x]
    BY <2>2, FlippedFacts
  <2> QED BY <2>1, <2>3, Zenon
<1>2. /\ F[w] \in Responses /\ F[v] \in Responses
      /\ s \in MatrixOf(clauses) /\ s0 \in MatrixOf(clauses)
  BY <1>1 DEF SkolemModels
<1>3. \A e \in Existentials : G[w][e] = IF w[u] = b /\ <<e, F[w][e]>> \notin Reachable(<<u, b>>)
                                        THEN F[v][e] ELSE F[w][e]
  BY DEF brought
<1>4. /\ \A x \in Universals : s[x] = w[x] /\ s0[x] = v[x] /\ t[x] = w[x]
      /\ \A e \in Existentials : s[e] = F[w][e] /\ s0[e] = F[v][e] /\ t[e] = G[w][e]
  BY PrefixAssumption DEF Join, Variables
<1>5. t \in TotalAssignments
  BY <1>2, <1>3 DEF Join, TotalAssignments, Responses, UniversalAssignments, Variables
<1>6. ASSUME NEW e \in Existentials, F[w][e] # F[v][e] PROVE e \in Considered(u)
  <2>1. u \notin dep[e] => \A x \in dep[e] : w[x] = v[x]
    BY <1>1 DEF StillOn
  <2> QED BY <1>1, <1>6, <2>1 DEF SkolemModels, StillOn
<1>7. \A c \in clauses : DOMAIN c \subseteq Variables /\ \A y \in DOMAIN c : c[y] \in BOOLEAN
  BY PreprocessingAssumption DEF SchemeInv, IsClause, IsCube
<1> HIDE DEF v, G, s, s0, t
<1>8. ASSUME NEW c \in clauses PROVE \E y \in DOMAIN c : t[y] = c[y]
  <2> SUFFICES ASSUME \A y \in DOMAIN c : t[y] # c[y] PROVE FALSE
    OBVIOUS
  <2>1. PICK k \in DOMAIN c : s[k] = c[k]
    BY <1>2 DEF MatrixOf
  <2>2. PICK m \in DOMAIN c : s0[m] = c[m]
    BY <1>2 DEF MatrixOf
  <2>3. k \in Existentials /\ F[w][k] = c[k] /\ G[w][k] # c[k]
    BY <1>4, <1>7, <2>1 DEF Variables
  <2>4. w[u] = b /\ F[v][k] # c[k] /\ <<k, c[k]>> \notin Reachable(<<u, b>>) /\ k \in Considered(u)
    BY <1>3, <1>6, <2>3
  <2>5. k # u
    BY <2>3, PrefixAssumption
  <2>6. \E q \in Reachable(<<u, b>>) : Negation(q) = <<m, c[m]>> /\ q[1] = m
    <3>1. CASE m \in Universals
      <4>1. m = u /\ c[m] = ~b
        BY <1>1, <1>4, <2>2, <3>1
      <4> QED BY <4>1, PathStarts DEF Negation
    <3>2. CASE m \in Existentials
      <4>1. F[v][m] = c[m] /\ G[w][m] # c[m]
        BY <1>4, <2>2, <3>2
      <4>2. <<m, F[w][m]>> \in Reachable(<<u, b>>) /\ F[w][m] # c[m]
        BY <1>3, <2>4, <3>2, <4>1
      <4>3. F[w][m] \in BOOLEAN /\ c[m] \in BOOLEAN
        BY <1>2, <1>7, <3>2 DEF Responses
      <4>4. (~F[w][m]) = c[m]
        BY <4>2, <4>3
      <4> QED BY <4>2, <4>4 DEF Negation
    <3> QED BY <1>7, <3>1, <3>2 DEF Variables
  <2>7. k # m
    <3>1. k \in Existentials => s0[k] = F[v][k]
      BY <1>4
    <3> QED BY <2>2, <2>3, <2>4, <3>1
  <2>8. PICK q \in Reachable(<<u, b>>) : Negation(q) = <<m, c[m]>> /\ q[1] = m
    BY <2>6
  <2>9. Negation(q) \in LiteralsOf(c)
    BY <2>8 DEF LiteralsOf
  <2>10. <<k, c[k]>> \in Reachable(<<u, b>>)
    BY <1>7, <2>4, <2>5, <2>7, <2>8, <2>9, PathGoesOn
  <2> QED BY <2>4, <2>10
<1> QED BY <1>5, <1>8 DEF MatrixOf, t, G

\* Each variable still sees only its dependencies.
LEMMA BroughtIsModel ==
    ASSUME SchemeInv, clauses = formula.clauses, NEW u \in Universals, NEW b \in BOOLEAN,
           NEW dep, StillOn(dep, u), NEW F \in SkolemModels(dep, MatrixOf(clauses))
    PROVE  brought(F, u, b) \in SkolemModels(dep, MatrixOf(clauses))
<1> DEFINE G == brought(F, u, b)
           v(w) == flipped(w, u, ~b)
           Seen(e, w, x) == \A y \in dep[e] : w[y] = x[y]
<1>1. \A w \in UniversalAssignments : F[w] \in Responses /\ v(w) \in UniversalAssignments
  BY FlippedFacts DEF SkolemModels
<1>2. \A w \in UniversalAssignments : \A e \in Existentials :
          G[w][e] = IF w[u] = b /\ <<e, F[w][e]>> \notin Reachable(<<u, b>>)
                    THEN F[v(w)][e] ELSE F[w][e]
  BY DEF brought
<1>3. G \in [UniversalAssignments -> Responses]
  BY <1>1 DEF brought, Responses
<1>4. \A e \in Existentials : \A w, x \in UniversalAssignments : Seen(e, w, x) => F[w][e] = F[x][e]
  BY DEF SkolemModels
<1>5. ASSUME NEW e \in Existentials, NEW w \in UniversalAssignments, NEW x \in UniversalAssignments,
             Seen(e, w, x)
      PROVE  G[w][e] = G[x][e]
  <2>1. dep[e] \subseteq Universals
    BY DEF StillOn
  <2>2. /\ \A y \in Universals \ {u} : v(w)[y] = w[y] /\ v(x)[y] = x[y]
        /\ v(w)[u] = ~b /\ v(x)[u] = ~b
    <3>1. PICK a \in BOOLEAN : a = ~b
      OBVIOUS
    <3>2. v(w) = flipped(w, u, a) /\ v(x) = flipped(x, u, a)
      BY <3>1
    <3> HIDE DEF v
    <3>3. v(w)[u] = a /\ v(x)[u] = a
      BY <3>2, FlippedFacts
    <3>4. \A y \in Universals \ {u} : v(w)[y] = w[y] /\ v(x)[y] = x[y]
      BY <3>2, FlippedFacts
    <3>5. v(w)[u] = (~b) /\ v(x)[u] = (~b)
      BY <3>1, <3>3, Zenon
    <3> QED BY <3>4, <3>5, Zenon
  <2>3. Seen(e, v(w), v(x))
    BY <1>5, <2>1, <2>2
  <2>4. F[w][e] = F[x][e] /\ F[v(w)][e] = F[v(x)][e]
    <3> HIDE DEF v, Seen
    <3> QED BY <1>1, <1>4, <1>5, <2>3
  <2>5. CASE u \in dep[e]
    <3>1. w[u] = x[u]
      BY <1>5, <2>5
    <3> HIDE DEF v, G
    <3> QED BY <1>2, <2>4, <3>1
  <2>6. CASE u \notin dep[e]
    <3>1. Seen(e, w, v(w)) /\ Seen(e, x, v(x))
      BY <2>1, <2>2, <2>6
    <3>2. F[w][e] = F[v(w)][e] /\ F[x][e] = F[v(x)][e]
      <4> HIDE DEF v, Seen
      <4> QED BY <1>1, <1>4, <3>1
    <3> HIDE DEF v, G
    <3> QED BY <1>2, <2>4, <3>2
  <2> QED BY <2>5, <2>6
<1>6. \A w \in UniversalAssignments : Join(w, G[w]) \in MatrixOf(clauses)
  BY BroughtSatisfies
<1> HIDE DEF G
<1>7. G \in SkolemModels(dep, MatrixOf(clauses))
  BY <1>3, <1>5, <1>6 DEF SkolemModels
<1> QED BY <1>7 DEF G

\* Brought together for both literals of u, the answers of e are the same unless paths lead from
\* u and from its negation to opposite literals of e.
LEMMA BroughtTogether ==
    ASSUME NEW u \in Universals, NEW a \in BOOLEAN, NEW b \in BOOLEAN, a # b,
           NEW F \in [UniversalAssignments -> Responses],
           NEW w \in UniversalAssignments, NEW x \in UniversalAssignments,
           w[u] = a, x = flipped(w, u, b), NEW e \in Existentials,
           \A r, s \in BOOLEAN : <<e, r>> \in Reachable(<<u, a>>)
                                   /\ <<e, s>> \in Reachable(<<u, b>>) => r = s,
           NEW G, G = brought(F, u, a), NEW H, H = brought(G, u, b)
    PROVE  H[w][e] = H[x][e]
<1>1. x[u] = b /\ flipped(w, u, b) = x
  BY FlippedFacts
<1>2. flipped(x, u, a) = w
  <2>1. flipped(x, u, a) = flipped(w, u, a)
    BY FlippedFacts
  <2> QED BY <2>1, FlippedFacts
<1>3. (~a) = b /\ (~b) = a
  OBVIOUS
<1>4. /\ G[w][e] = IF <<e, F[w][e]>> \notin Reachable(<<u, a>>) THEN F[x][e] ELSE F[w][e]
      /\ G[x][e] = F[x][e]
  BY <1>1, <1>2, <1>3 DEF brought
<1>5. /\ H[x][e] = IF <<e, G[x][e]>> \notin Reachable(<<u, b>>) THEN G[w][e] ELSE G[x][e]
      /\ H[w][e] = G[w][e]
  BY <1>1, <1>2, <1>3 DEF brought
<1>6. F[w][e] \in BOOLEAN /\ F[x][e] \in BOOLEAN
  BY DEF Responses
<1> QED BY <1>4, <1>5, <1>6

\* So the dependence on u can be dropped where the scheme has no path.
LEMMA DependencyDropped ==
    ASSUME SchemeInv, clauses = formula.clauses, NEW u \in Universals, NEW dep, StillOn(dep, u),
           NEW left \in [Existentials -> SUBSET Universals],
           \A e \in Existentials : \/ left[e] = dep[e]
                                   \/ left[e] = dep[e] \ {u} /\ ~ResolutionPath(u, e),
           Satisfiable(dep, MatrixOf(clauses))
    PROVE  Satisfiable(left, MatrixOf(clauses))
<1>0. PICK on \in BOOLEAN, off \in BOOLEAN : on /\ ~off
  OBVIOUS
<1>1. PICK F : F \in SkolemModels(dep, MatrixOf(clauses))
  BY DEF Satisfiable
<1> DEFINE G == brought(F, u, on)
           H == brought(G, u, off)
           M == SkolemModels(dep, MatrixOf(clauses))
<1>2. G \in M
  BY <1>1, BroughtIsModel
<1>3. H \in M
  <2> HIDE DEF G
  <2> QED BY <1>2, BroughtIsModel
<1>4. ASSUME NEW e \in Existentials, ~ResolutionPath(u, e), NEW w \in UniversalAssignments, w[u] = on
      PROVE  H[w][e] = H[flipped(w, u, off)][e]
  <2>1. F \in [UniversalAssignments -> Responses] /\ flipped(w, u, off) \in UniversalAssignments
    BY <1>1, FlippedFacts DEF SkolemModels
  <2>2. PICK x \in UniversalAssignments : x = flipped(w, u, off)
    BY <2>1
  <2>3. H[w][e] = H[x][e]
    <3>1. G = brought(F, u, on) /\ H = brought(G, u, off)
      OBVIOUS
    <3> HIDE DEF G, H
    <3>2. \A r, s \in BOOLEAN : <<e, r>> \in Reachable(<<u, on>>)
                                   /\ <<e, s>> \in Reachable(<<u, off>>) => r = s
      <4> SUFFICES ASSUME NEW r \in BOOLEAN, NEW s \in BOOLEAN, r # s,
                          <<e, r>> \in Reachable(<<u, on>>), <<e, s>> \in Reachable(<<u, off>>)
                   PROVE  FALSE
        OBVIOUS
      <4>1. on = TRUE /\ off = FALSE /\ s = ~r
        BY <1>0
      <4>2. <<e, r>> \in Reachable(<<u, TRUE>>) /\ <<e, ~r>> \in Reachable(<<u, FALSE>>)
        BY <4>1, Zenon
      <4> QED BY <1>4, <4>2, Zenon DEF ResolutionPath
    <3>3. on # off
      BY <1>0
    <3> QED BY <1>4, <2>1, <2>2, <3>1, <3>2, <3>3, BroughtTogether
  <2> QED BY <2>2, <2>3
<1> HIDE DEF G, H
<1>5. /\ H \in [UniversalAssignments -> Responses]
      /\ \A w \in UniversalAssignments : Join(w, H[w]) \in MatrixOf(clauses)
      /\ \A e \in Existentials : \A w, x \in UniversalAssignments :
            (\A y \in dep[e] : w[y] = x[y]) => H[w][e] = H[x][e]
  BY <1>3 DEF SkolemModels
<1>6. ASSUME NEW e \in Existentials, NEW w \in UniversalAssignments, NEW x \in UniversalAssignments,
             \A y \in left[e] : w[y] = x[y]
      PROVE  H[w][e] = H[x][e]
  <2>1. CASE left[e] = dep[e]
    BY <1>5, <1>6, <2>1
  <2>2. CASE left[e] = dep[e] \ {u} /\ ~ResolutionPath(u, e)
    <3> DEFINE without(v) == flipped(v, u, off)
    <3>1. ASSUME NEW v \in UniversalAssignments
          PROVE  without(v) \in UniversalAssignments /\ H[v][e] = H[without(v)][e]
      <4>1. /\ v[u] = on \/ v[u] = off
            /\ without(v) \in UniversalAssignments
            /\ v[u] = off => without(v) = v
        <5>1. v[u] \in BOOLEAN
          BY DEF UniversalAssignments
        <5>2. v[u] = on \/ v[u] = off
          BY <1>0, <5>1
        <5> QED BY <5>2, FlippedFacts
      <4>2. CASE v[u] = on
        BY <1>4, <2>2, <4>1, <4>2
      <4>3. CASE v[u] = off
        BY <4>1, <4>3
      <4> QED BY <4>1, <4>2, <4>3
    <3>2. \A y \in dep[e] : without(w)[y] = without(x)[y]
      <4>1. dep[e] \subseteq Universals
        BY DEF StillOn
      <4> QED BY <1>6, <2>2, <4>1 DEF flipped
    <3> HIDE DEF without
    <3>3. H[without(w)][e] = H[without(x)][e]
      BY <1>5, <3>1, <3>2
    <3> QED BY <3>1, <3>3
  <2> QED BY <2>1, <2>2
<1>7. H \in SkolemModels(left, MatrixOf(clauses))
  BY <1>5, <1>6 DEF SkolemModels
<1> QED BY <1>7 DEF Satisfiable

\* What the scheme leaves when the universals in unsearched have not been searched from.
LeftDependencies ==
    [e \in Existentials |->
        IF e \notin Kept THEN Universals
        ELSE IF setting.scheme
        THEN {u \in formula.prefix[e] : u \in unsearched \/ ResolutionPath(u, e)}
        ELSE formula.prefix[e]]

\* A formula that is true stays so with each search.
TruthInv ==
    /\ phase = "done" => \A e \in Existentials : AllDependencies[e] \subseteq formula.prefix[e]
    /\ Satisfiable(formula.prefix, MatrixOf(formula.clauses)) =>
          Satisfiable(IF phase = "done" THEN AllDependencies ELSE LeftDependencies,
                      MatrixOf(formula.clauses))

LEMMA PrefixFacts ==
    ASSUME formula \in Formulas
    PROVE  /\ formula.prefix \in [Existentials -> SUBSET Universals]
           /\ \A e \in Existentials \ Kept : formula.prefix[e] = Universals
           /\ \A e \in Existentials : e \notin Universals
BY PreprocessingAssumption, PrefixAssumption DEF Kept

LEMMA SearchKeepsTruth ==
    ASSUME SchemeInv, TruthInv, NEW u \in Universals, SearchFrom(u)
    PROVE  TruthInv'
<1>1. /\ u \in unsearched /\ phase = "scheme" /\ setting.scheme /\ clauses = formula.clauses
      /\ formula \in Formulas
  BY DEF SearchFrom, SchemeInv
<1>2. UNCHANGED <<formula, setting, clauses, phase>> /\ unsearched' = unsearched \ {u}
  BY DEF SearchFrom
<1>3. /\ Kept' = Kept /\ \A w, e : ResolutionPath(w, e)' = ResolutionPath(w, e)
  BY <1>2 DEF Kept, ResolutionPath, Reachable, Successors, Considered, inverse_deps
<1> DEFINE left == [e \in Existentials |->
              IF e \notin Kept THEN Universals
              ELSE {w \in formula.prefix[e] : w \in unsearched \ {u} \/ ResolutionPath(w, e)}]
<1>4. LeftDependencies' = left
  BY <1>1, <1>2, <1>3 DEF LeftDependencies
<1>5. StillOn(LeftDependencies, u)
  <2>1. LeftDependencies \in [Existentials -> SUBSET Universals]
    BY <1>1, PrefixFacts DEF LeftDependencies
  <2>2. ASSUME NEW e \in Existentials PROVE u \in LeftDependencies[e] <=> e \in Considered(u)
    BY <1>1, PrefixFacts DEF LeftDependencies, Considered, inverse_deps, Kept
  <2> QED BY <2>1, <2>2 DEF StillOn
<1>6. /\ left \in [Existentials -> SUBSET Universals]
      /\ \A e \in Existentials :
            \/ left[e] = LeftDependencies[e]
            \/ left[e] = LeftDependencies[e] \ {u} /\ ~ResolutionPath(u, e)
  BY <1>1, PrefixFacts DEF LeftDependencies
<1> HIDE DEF left
<1>7. Satisfiable(LeftDependencies, MatrixOf(clauses)) => Satisfiable(left, MatrixOf(clauses))
  BY <1>1, <1>5, <1>6, DependencyDropped
<1> QED BY <1>1, <1>2, <1>3, <1>4, <1>7 DEF TruthInv

LEMMA TruthStart == PreprocessingInit => TruthInv
<1> SUFFICES ASSUME PreprocessingInit PROVE TruthInv
  OBVIOUS
<1>1. formula \in Formulas /\ phase = "scheme" /\ unsearched = IF setting.scheme THEN Universals ELSE {}
  BY DEF PreprocessingInit
<1>2. LeftDependencies = formula.prefix
  BY <1>1, PrefixFacts DEF LeftDependencies
<1> QED BY <1>1, <1>2 DEF TruthInv

LEMMA TruthStep == SchemeInv /\ TruthInv /\ [PreprocessingNext]_preprocessingVars => TruthInv'
<1> SUFFICES ASSUME SchemeInv, TruthInv, [PreprocessingNext]_preprocessingVars PROVE TruthInv'
  OBVIOUS
<1>1. ASSUME NEW u \in Universals, SearchFrom(u) PROVE TruthInv'
  BY <1>1, SearchKeepsTruth
<1>2. ASSUME UNCHANGED <<formula, setting, clauses, unsearched>>
      PROVE  LeftDependencies' = LeftDependencies
  BY <1>2 DEF LeftDependencies, Kept, ResolutionPath, Reachable, Successors, Considered, inverse_deps
<1>3. ASSUME UNCHANGED <<formula, dependencies>>
      PROVE  /\ AllDependencies' = AllDependencies
             /\ MatrixOf(formula.clauses)' = MatrixOf(formula.clauses)
  BY <1>3 DEF AllDependencies, Kept, MatrixOf
<1>4. CASE EndScheme
  BY <1>2, <1>3, <1>4 DEF EndScheme, TruthInv
<1>5. CASE Reduce
  <2>1. phase = "reduction" /\ phase' = "done" /\ UNCHANGED <<formula, dependencies>>
        /\ unsearched = {} /\ formula \in Formulas
    BY <1>5 DEF Reduce, SchemeInv
  <2>2. LeftDependencies = AllDependencies
    BY <2>1 DEF LeftDependencies, AllDependencies, SchemeInv
  <2>3. \A e \in Existentials : AllDependencies[e] \subseteq formula.prefix[e]
    BY <2>1, PrefixFacts DEF AllDependencies, SchemeInv
  <2> QED BY <1>3, <2>1, <2>2, <2>3 DEF TruthInv
<1>6. CASE UNCHANGED preprocessingVars
  BY <1>2, <1>3, <1>6 DEF preprocessingVars, TruthInv
<1> QED BY <1>1, <1>4, <1>5, <1>6 DEF PreprocessingNext

--------------------------------------------------------------------------------
(***************************************************************************)
(* Universal reduction.                                                    *)
(***************************************************************************)

\* A clause that is reduced is false only where the clause is false for other values
\* of the universals left out, which the existentials of the clause do not see.
LEMMA ReducedHolds ==
    ASSUME SchemeInv, NEW F \in SkolemModels(AllDependencies, MatrixOf(formula.clauses)),
           NEW c \in formula.clauses, NEW u \in UniversalAssignments
    PROVE  LET d == applyForallReduction(c)
               s == Join(u, F[u])
           IN  \E v \in DOMAIN d : s[v] = d[v]
<1> DEFINE d == applyForallReduction(c)
           Holds(w) == \E v \in DOMAIN c : Join(w, F[w])[v] = c[v]
           D == {v \in DOMAIN c : Needed(c, v)}
           w == [x \in Universals |-> IF x \in DOMAIN c \ D THEN ~c[x] ELSE u[x]]
<1>1. IsClause(c) /\ DOMAIN c \subseteq Variables /\ \A v \in DOMAIN c : c[v] \in BOOLEAN
  BY PreprocessingAssumption DEF SchemeInv, IsClause, IsCube
<1>2. \A x \in UniversalAssignments : Holds(x)
  BY DEF SkolemModels, MatrixOf
<1>3. CASE DOMAIN c \cap formula.ignored # {}
  BY <1>2, <1>3 DEF applyForallReduction
<1>4. CASE DOMAIN c \cap formula.ignored = {}
  <2>1. d = [v \in DOMAIN c \cap D |-> c[v]] /\ D \subseteq DOMAIN c
    BY <1>4 DEF applyForallReduction, restrictTo
  <2>2. w \in UniversalAssignments
    BY <1>1 DEF UniversalAssignments
  <2>3. PICK v \in DOMAIN c : Join(w, F[w])[v] = c[v]
    BY <1>2, <2>2
  <2>4. v \in Variables /\ c[v] \in BOOLEAN
    BY <1>1
  <2>5. CASE v \in Universals
    <3>1. Join(w, F[w])[v] = w[v] /\ Join(u, F[u])[v] = u[v]
      BY <2>4, <2>5 DEF Join
    <3>2. v \in D /\ w[v] = u[v]
      BY <2>3, <2>4, <2>5, <3>1
    <3> QED BY <2>1, <2>3, <3>1, <3>2
  <2>6. CASE v \in Existentials
    <3>1. v \in Kept /\ v \in D /\ v \notin Universals
      BY <1>4, <2>6, PrefixAssumption DEF Kept, Needed
    <3>2. AllDependencies[v] = dependencies[v]
      BY <2>6, <3>1 DEF AllDependencies
    <3>3. \A x \in dependencies[v] : x \in Universals
      BY <3>1, PreprocessingAssumption DEF SchemeInv, Kept
    <3>4. ASSUME NEW x \in dependencies[v] PROVE w[x] = u[x]
      <4>1. x \in DOMAIN c => Needed(c, x)
        BY <3>1 DEF Needed
      <4> QED BY <3>3, <4>1
    <3>5. F[w][v] = F[u][v]
      BY <2>2, <2>6, <3>2, <3>4 DEF SkolemModels
    <3>6. Join(w, F[w])[v] = F[w][v] /\ Join(u, F[u])[v] = F[u][v]
      BY <2>4, <3>1 DEF Join
    <3> QED BY <2>1, <2>3, <3>1, <3>5, <3>6
  <2> QED BY <2>4, <2>5, <2>6 DEF Variables
<1> QED BY <1>3, <1>4

\* With the dependencies that are left when the clauses are reduced, reduction neither
\* adds nor loses a model; clauses with ignored variables, which see every universal,
\* are left alone.
ReductionKeepsModels ==
    phase = "done" =>
        SkolemModels(AllDependencies, MatrixOf(clauses))
            = SkolemModels(AllDependencies, MatrixOf(formula.clauses))

\* What satisfies the clauses that are left satisfies the given ones.
LEMMA ReducedImplyGiven == SchemeInv => MatrixOf(clauses) \subseteq MatrixOf(formula.clauses)
<1>1. ASSUME NEW c, NEW s, \E v \in DOMAIN applyForallReduction(c) : s[v] = applyForallReduction(c)[v]
      PROVE  \E v \in DOMAIN c : s[v] = c[v]
  BY <1>1 DEF applyForallReduction, restrictTo
<1> QED BY <1>1 DEF SchemeInv, MatrixOf

LEMMA ReductionKeeps == SchemeInv => ReductionKeepsModels
<1> SUFFICES ASSUME SchemeInv, phase = "done" PROVE ReductionKeepsModels
  BY DEF ReductionKeepsModels
<1>1. CASE ~setting.reduction
  BY <1>1 DEF SchemeInv, ReductionKeepsModels
<1>2. CASE setting.reduction
  <2>1. clauses = {applyForallReduction(c) : c \in formula.clauses}
    BY <1>2 DEF SchemeInv
  <2>2. SkolemModels(AllDependencies, MatrixOf(clauses))
           \subseteq SkolemModels(AllDependencies, MatrixOf(formula.clauses))
    BY ReducedImplyGiven DEF SkolemModels
  <2>3. ASSUME NEW F \in SkolemModels(AllDependencies, MatrixOf(formula.clauses))
        PROVE  F \in SkolemModels(AllDependencies, MatrixOf(clauses))
    <3>1. ASSUME NEW u \in UniversalAssignments PROVE Join(u, F[u]) \in MatrixOf(clauses)
      <4>1. Join(u, F[u]) \in TotalAssignments
        BY DEF SkolemModels, MatrixOf
      <4> QED BY <2>1, <4>1, ReducedHolds DEF MatrixOf
    <3> QED BY <3>1 DEF SkolemModels
  <2> QED BY <2>2, <2>3 DEF ReductionKeepsModels
<1> QED BY <1>1, <1>2

THEOREM ReductionLosesNoModel == PreprocessingSpec => []ReductionKeepsModels
BY ReductionKeeps, SchemeInvariant, PTL

--------------------------------------------------------------------------------
(***************************************************************************)
(* The whole preprocessor.                                                 *)
(***************************************************************************)
LEMMA TruthInvariant == PreprocessingSpec => []TruthInv
BY SchemeInvariant, TruthStart, TruthStep, PTL DEF PreprocessingSpec

LEMMA TruthFollows == SchemeInv /\ TruthInv => TruthPreserved
<1> SUFFICES ASSUME SchemeInv, TruthInv, phase = "done" PROVE TruthPreserved
  BY DEF TruthPreserved
<1>1. SkolemModels(AllDependencies, MatrixOf(clauses))
         = SkolemModels(AllDependencies, MatrixOf(formula.clauses))
  BY ReductionKeeps DEF ReductionKeepsModels
<1> QED BY <1>1, ReducedImplyGiven DEF TruthInv, TruthPreserved, Satisfiable

\* For every formula, with or without the scheme and reduction and in whatever order the
\* universals are searched from, what preprocessing leaves is true where the input is, with
\* dependencies of the prefix, and what satisfies its clauses satisfies those of the input.
THEOREM PreprocessingKeepsTruth == PreprocessingSpec => TruthKept
<1>1. PreprocessingSpec => []TruthPreserved
  BY SchemeInvariant, TruthInvariant, TruthFollows, PTL
<1> QED BY <1>1, PTL DEF TruthKept

--------------------------------------------------------------------------------
(***************************************************************************)
(* The search for unate literals.  The argument: the array of assumptions  *)
(* always holds the switches and the literals found, each where it is      *)
(* looked for, so a check is made with all switches but that of its        *)
(* variable.  The assignment in which the literals found so far are fixed  *)
(* satisfies the assumptions of the check, and changing one more variable  *)
(* does not leave the matrix.                                              *)
(***************************************************************************)
SettledLiteral(e) == e \in FoundLiterals \/ -e \in FoundLiterals
Remaining == {indices[i] : i \in DOMAIN indices}
switchesBut(k) == {switchOf(l) : l \in Positions \ {k}}

UnateTypeOK ==
    /\ use_conflict_limit \in BOOLEAN
    /\ variables_to_consider \subseteq Existentials
    /\ found_unate_literals \in Seq(Int)
    /\ indices \in Seq(Positions)
    /\ unatePhase \in {"idle", "search", "done"}
    /\ IF unatePhase = "idle" THEN found_unate_literals = <<>> ELSE phase = "done"
    /\ position \in Nat /\ last_index_to_consider \in Nat /\ old_last_index \in Nat

\* The list of indices and its counters.
IndicesInv ==
    /\ \A i, j \in DOMAIN indices : indices[i] = indices[j] => i = j
    /\ last_index_to_consider = Len(indices)
    /\ last_index_to_consider <= old_last_index
    /\ position \in 1..(last_index_to_consider + 1)

\* The literals found are of different variables, none of which is checked again;
\* every other variable still is.
FoundInv ==
    /\ \A l \in FoundLiterals : l \in Existentials \/ -l \in Existentials
    /\ \A e \in Existentials : ~(e \in FoundLiterals /\ -e \in FoundLiterals)
    /\ \A k \in Remaining : ~SettledLiteral(existential_variables[k])
    /\ \A k \in Positions : existential_variables[k] \in variables_to_consider =>
          k \in Remaining \/ SettledLiteral(existential_variables[k])

\* A pass that found nothing so far has shown that none of the variables before
\* the position can be fixed.
PassInv ==
    /\ unatePhase = "search" /\ ~use_conflict_limit /\ old_last_index = last_index_to_consider =>
          \A i \in 1..(position - 1), b \in BOOLEAN :
              ~NoneLost(existential_variables[indices[i]], b,
                        switchesBut(indices[i]) \cup FoundLiterals)
    /\ unatePhase = "done" =>
          /\ old_last_index = last_index_to_consider
          /\ ~use_conflict_limit =>
                \A k \in Remaining, b \in BOOLEAN :
                    ~NoneLost(existential_variables[k], b, switchesBut(k) \cup FoundLiterals)

UnatesInv ==
    /\ UnateTypeOK
    /\ AssumptionsInPlace
    /\ unatePhase # "idle" => IndicesInv /\ FoundInv /\ PassInv /\ UnatesPreserveTruth

--------------------------------------------------------------------------------
(***************************************************************************)
(* The array of assumptions.                                               *)
(***************************************************************************)

LEMMA PositionFacts ==
    /\ Positions = 1..Len(existential_variables) /\ Len(existential_variables) \in Nat
    /\ \A k \in Positions :
          /\ existential_variables[k] \in Existentials
          /\ existential_variables[k] \in 1..last_used_variable
          /\ switchOf(k) \in Nat /\ switchOf(k) > last_used_variable
    /\ \A k, l \in Positions : switchOf(k) = switchOf(l) => k = l
    /\ \A k, l \in Positions : existential_variables[k] = existential_variables[l] => k = l
<1>1. Positions = 1..Len(existential_variables) /\ Len(existential_variables) \in Nat
  BY UnateAssumption, LenProperties DEF Positions
<1>2. \A k \in Positions : existential_variables[k] \in Existentials
  BY <1>1, UnateAssumption, ElementOfSeq
<1>3. \A k \in Positions : existential_variables[k] \in 1..last_used_variable
  BY <1>2, UnateAssumption
<1>4. \A k \in Positions : switchOf(k) \in Nat /\ switchOf(k) > last_used_variable
  BY <1>1, UnateAssumption DEF switchOf
<1>5. \A k, l \in Positions : switchOf(k) = switchOf(l) => k = l
  BY <1>1, UnateAssumption DEF switchOf
<1>6. ASSUME NEW k \in Positions, NEW l \in Positions,
             existential_variables[k] = existential_variables[l]
      PROVE  k = l
  <2>1. k \in Nat /\ l \in Nat /\ existential_variables[k] \in Nat
    BY <1>1, <1>3
  <2>2. ~(existential_variables[k] < existential_variables[l])
        /\ ~(existential_variables[l] < existential_variables[k])
    BY <1>6, <2>1
  <2>3. ~(k < l) /\ ~(l < k)
    BY <2>2, UnateAssumption DEF Positions
  <2> QED BY <2>1, <2>3
<1> QED BY <1>1, <1>2, <1>3, <1>4, <1>5, <1>6

LEMMA InitialAssumptions ==
    ASSUME NEW found \in Seq(Int)
    PROVE  LET a == initialAssumptions(found)
               n == Len(existential_variables)
           IN  /\ a \in Seq(Int) /\ Len(a) = n + Len(found) /\ DOMAIN a = 1..Len(a)
               /\ Len(found) \in Nat
               /\ \A i \in 1..Len(a) : a[i] = IF i <= n THEN switchOf(i) ELSE found[i - n]
<1> DEFINE n == Len(existential_variables)
<1>1. switches_for_equalities \in [1..n -> Int]
  BY PositionFacts DEF switches_for_equalities
<1>2. switches_for_equalities \in Seq(Int) /\ Len(switches_for_equalities) = n
  <2> HIDE DEF n
  <2>1. n \in Nat
    BY PositionFacts DEF n
  <2>2. switches_for_equalities \in Seq(Int)
    BY <1>1, <2>1, SeqDef
  <2> QED BY <1>1, <2>1, <2>2, LenProperties
<1>3. \A i \in 1..n : switches_for_equalities[i] = switchOf(i)
  BY PositionFacts DEF switches_for_equalities
<1>4. /\ initialAssumptions(found) \in Seq(Int)
      /\ Len(initialAssumptions(found)) = n + Len(found)
      /\ \A i \in 1..(n + Len(found)) : initialAssumptions(found)[i]
            = IF i <= n THEN switches_for_equalities[i] ELSE found[i - n]
  <2> HIDE DEF n
  <2> QED BY <1>2, ConcatProperties DEF initialAssumptions
<1>5. Len(found) \in Nat /\ n \in Nat
  BY LenProperties, PositionFacts
<1>6. DOMAIN initialAssumptions(found) = 1..Len(initialAssumptions(found))
  BY <1>4, LenProperties
<1> QED BY <1>3, <1>4, <1>5, <1>6

\* Taking a switch out leaves the other switches and the literals found, and
\* putting it back restores the array.
LEMMA SwitchTakenOut ==
    ASSUME NEW found \in Seq(Int), NEW k \in Positions
    PROVE  LET a == initialAssumptions(found)
               w == withoutSwitch(a, k)
           IN  /\ {w[i] : i \in DOMAIN w}
                     = switchesBut(k) \cup {found[i] : i \in DOMAIN found}
               /\ restored(w, k) = a
<1> DEFINE a == initialAssumptions(found)
           n == Len(existential_variables)
           w == withoutSwitch(a, k)
           moved == [a EXCEPT ![k] = a[Len(a)]]
<1>1. /\ a \in Seq(Int) /\ Len(a) = n + Len(found) /\ DOMAIN a = 1..Len(a)
      /\ Len(found) \in Nat /\ n \in Nat /\ k \in 1..n /\ Positions = 1..n
      /\ \A i \in 1..Len(a) : a[i] = IF i <= n THEN switchOf(i) ELSE found[i - n]
  BY InitialAssumptions, PositionFacts
<1> HIDE DEF a, n
<1>0. Len(a) = n + Len(found) /\ Len(found) \in Nat /\ n \in Nat /\ k \in 1..n
  BY <1>1
<1>2. /\ Len(a) \in 1..Len(a) /\ a[Len(a)] \in Int /\ k \in 1..Len(a)
  BY <1>1, ElementOfSeq
<1>3. /\ moved \in Seq(Int) /\ Len(moved) = Len(a)
      /\ \A i \in 1..Len(a) : moved[i] = IF i = k THEN a[Len(a)] ELSE a[i]
  BY <1>1, <1>2, ExceptSeq
<1>4. w = SubSeq(moved, 1, Len(a) - 1)
  BY <1>3 DEF withoutSwitch
<1> HIDE DEF moved
<1>5. \A i \in 1..(Len(a) - 1) : moved[i] \in Int
  BY <1>1, <1>3, ElementOfSeq
<1>6. /\ w \in Seq(Int) /\ Len(w) = Len(a) - 1
      /\ \A i \in 1..(Len(a) - 1) : w[i] = moved[i]
  <2> HIDE DEF w
  <2>1. 1 \in Int /\ Len(a) - 1 \in Int
    BY <1>1
  <2>2. /\ SubSeq(moved, 1, Len(a) - 1) \in Seq(Int)
        /\ Len(SubSeq(moved, 1, Len(a) - 1))
              = IF 1 <= Len(a) - 1 THEN Len(a) - 1 - 1 + 1 ELSE 0
        /\ \A i \in 1..(Len(a) - 1 - 1 + 1) :
              SubSeq(moved, 1, Len(a) - 1)[i] = moved[1 + i - 1]
    BY <1>5, <2>1, SubSeqProperties
  <2>3. \A i \in 1..(Len(a) - 1) : 1 + i - 1 = i
    OBVIOUS
  <2>4. Len(a) - 1 - 1 + 1 = Len(a) - 1 /\ Len(a) - 1 \in Nat
    BY <1>1
  <2> QED BY <1>4, <2>2, <2>3, <2>4
<1>7. DOMAIN w = 1..(Len(a) - 1)
  BY <1>6, LenProperties
<1> HIDE DEF w
<1>8. ASSUME NEW i \in 1..(Len(a) - 1) PROVE w[i] = IF i = k THEN a[Len(a)] ELSE a[i]
  <2>1. i \in 1..Len(a) /\ w[i] = moved[i]
    BY <1>1, <1>6
  <2> QED BY <1>3, <2>1
<1>9. {w[i] : i \in DOMAIN w} = {a[i] : i \in (1..Len(a)) \ {k}}
  <2>1. ASSUME NEW i \in DOMAIN w PROVE w[i] \in {a[j] : j \in (1..Len(a)) \ {k}}
    <3>0. i \in 1..(Len(a) - 1)
      BY <1>7
    <3>1. i \in 1..Len(a) /\ i # Len(a) /\ w[i] = IF i = k THEN a[Len(a)] ELSE a[i]
      BY <1>0, <1>8, <3>0
    <3>2. CASE i = k
      <4>1. Len(a) \in (1..Len(a)) \ {k} /\ w[i] = a[Len(a)]
        BY <1>2, <3>1, <3>2
      <4> QED BY <4>1
    <3>3. CASE i # k
      BY <3>1, <3>3
    <3> QED BY <3>2, <3>3
  <2>2. ASSUME NEW j \in (1..Len(a)) \ {k} PROVE a[j] \in {w[i] : i \in DOMAIN w}
    <3>1. CASE j = Len(a)
      <4>1. k \in DOMAIN w /\ w[k] = a[j]
        BY <1>1, <1>7, <1>8, <3>1
      <4> QED BY <4>1
    <3>2. CASE j # Len(a)
      <4>1. j \in 1..(Len(a) - 1) /\ j # k
        BY <1>0, <3>2
      <4>2. j \in DOMAIN w /\ w[j] = a[j]
        BY <1>7, <1>8, <4>1
      <4> QED BY <4>2
    <3> QED BY <3>1, <3>2
  <2> QED BY <2>1, <2>2
<1>10. {a[i] : i \in (1..Len(a)) \ {k}} = switchesBut(k) \cup {found[i] : i \in DOMAIN found}
  <2>1. DOMAIN found = 1..Len(found)
    BY LenProperties
  <2>2. ASSUME NEW i \in (1..Len(a)) \ {k}
        PROVE  a[i] \in switchesBut(k) \cup {found[j] : j \in DOMAIN found}
    <3>1. CASE i <= n
      <4>1. i \in Positions \ {k} /\ a[i] = switchOf(i)
        BY <1>0, <1>1, <3>1
      <4> QED BY <4>1 DEF switchesBut
    <3>2. CASE ~(i <= n)
      <4>1. i - n \in DOMAIN found /\ a[i] = found[i - n]
        BY <1>1, <2>1, <3>2
      <4> QED BY <4>1
    <3> QED BY <3>1, <3>2
  <2>3. ASSUME NEW l \in Positions \ {k} PROVE switchOf(l) \in {a[i] : i \in (1..Len(a)) \ {k}}
    <3>1. l \in (1..Len(a)) \ {k} /\ l <= n
      BY <1>0, <1>1
    <3>2. a[l] = switchOf(l)
      BY <1>1, <3>1
    <3> QED BY <3>1, <3>2
  <2>4. ASSUME NEW j \in DOMAIN found PROVE found[j] \in {a[i] : i \in (1..Len(a)) \ {k}}
    <3>1. j \in 1..Len(found)
      BY <2>1
    <3>2. n + j \in (1..Len(a)) \ {k} /\ ~(n + j <= n) /\ n + j - n = j
      BY <1>0, <3>1
    <3>3. a[n + j] = found[j]
      BY <1>1, <3>2
    <3> QED BY <3>2, <3>3
  <2> QED BY <2>2, <2>3, <2>4 DEF switchesBut
<1>11. restored(w, k) = a
  <2> DEFINE last == IF k <= Len(w) THEN w[k] ELSE 0
             longer == Append(w, last)
  <2>1. last \in Int
    BY <1>1, <1>2, <1>6, <1>8
  <2>2. /\ longer \in Seq(Int) /\ Len(longer) = Len(w) + 1
        /\ \A i \in 1..Len(w) : longer[i] = w[i]
        /\ longer[Len(w) + 1] = last
    <3> HIDE DEF last
    <3> QED BY <1>6, <2>1, AppendProperties
  <2>3. Len(longer) = Len(a)
    BY <1>1, <1>6, <2>2
  <2> HIDE DEF longer
  <2>4. k \in 1..Len(longer) /\ switchOf(k) \in Int
    BY <1>1, <2>3, PositionFacts
  <2>5. /\ [longer EXCEPT ![k] = switchOf(k)] \in Seq(Int)
        /\ Len([longer EXCEPT ![k] = switchOf(k)]) = Len(a)
        /\ \A i \in 1..Len(a) : [longer EXCEPT ![k] = switchOf(k)][i]
              = IF i = k THEN switchOf(k) ELSE longer[i]
    BY <2>2, <2>3, <2>4, ExceptSeq
  <2>6. restored(w, k) = [longer EXCEPT ![k] = switchOf(k)]
    BY DEF restored, longer
  <2>7. ASSUME NEW i \in 1..Len(a) PROVE restored(w, k)[i] = a[i]
    <3>1. CASE i = k
      <4>1. restored(w, k)[i] = switchOf(k)
        BY <2>5, <2>6, <3>1
      <4>2. k \in 1..Len(a) /\ k <= n => a[k] = switchOf(k)
        BY <1>1
      <4> QED BY <1>0, <3>1, <4>1, <4>2
    <3>2. CASE i # k /\ i <= Len(w)
      BY <1>1, <1>6, <1>8, <2>2, <2>5, <2>6, <3>2
    <3>3. CASE i # k /\ ~(i <= Len(w))
      <4>1. i = Len(a) /\ i = Len(w) + 1 /\ k <= Len(w)
        BY <1>1, <1>6, <3>3
      <4> QED BY <1>1, <1>8, <2>2, <2>5, <2>6, <3>3, <4>1
    <3> QED BY <3>1, <3>2, <3>3
  <2> QED BY <1>1, <2>5, <2>6, <2>7, SeqEqual
<1> QED BY <1>9, <1>10, <1>11 DEF a, w

LEMMA LiteralAppended ==
    ASSUME NEW found \in Seq(Int), NEW l \in Int
    PROVE  /\ Append(initialAssumptions(found), l) = initialAssumptions(Append(found, l))
           /\ Append(found, l) \in Seq(Int)
           /\ {Append(found, l)[i] : i \in DOMAIN Append(found, l)}
                 = {found[i] : i \in DOMAIN found} \cup {l}
<1> DEFINE a == initialAssumptions(found)
           longer == Append(found, l)
<1>1. /\ longer \in Seq(Int) /\ Len(longer) = Len(found) + 1
      /\ \A i \in 1..Len(found) : longer[i] = found[i]
      /\ longer[Len(found) + 1] = l
  BY AppendProperties
<1>2. Len(found) \in Nat /\ DOMAIN found = 1..Len(found) /\ DOMAIN longer = 1..Len(longer)
  BY <1>1, LenProperties
<1>3. {longer[i] : i \in DOMAIN longer} = {found[i] : i \in DOMAIN found} \cup {l}
  <2> HIDE DEF longer
  <2>1. ASSUME NEW i \in DOMAIN longer
        PROVE  longer[i] \in {found[j] : j \in DOMAIN found} \cup {l}
    <3>1. i \in 1..Len(found) \/ i = Len(found) + 1
      BY <1>1, <1>2
    <3> QED BY <1>1, <1>2, <3>1
  <2>2. \A i \in DOMAIN found : i \in DOMAIN longer /\ found[i] = longer[i]
    BY <1>1, <1>2
  <2>3. Len(found) + 1 \in DOMAIN longer
    BY <1>1, <1>2
  <2> QED BY <1>1, <2>1, <2>2, <2>3
<1> DEFINE b == initialAssumptions(longer)
           n == Len(existential_variables)
<1>4. /\ a \in Seq(Int) /\ Len(a) = n + Len(found)
      /\ \A i \in 1..Len(a) : a[i] = IF i <= n THEN switchOf(i) ELSE found[i - n]
  BY InitialAssumptions
<1>5. /\ b \in Seq(Int) /\ Len(b) = n + Len(longer)
      /\ \A i \in 1..Len(b) : b[i] = IF i <= n THEN switchOf(i) ELSE longer[i - n]
  <2> HIDE DEF longer
  <2> QED BY <1>1, InitialAssumptions
<1> HIDE DEF a, b, longer, n
<1>6. /\ Append(a, l) \in Seq(Int) /\ Len(Append(a, l)) = Len(a) + 1
      /\ \A i \in 1..Len(a) : Append(a, l)[i] = a[i]
      /\ Append(a, l)[Len(a) + 1] = l
  BY <1>4, AppendProperties
<1>7. n \in Nat
  BY PositionFacts DEF n
<1>8. /\ n \in Nat /\ Len(found) \in Nat /\ Len(a) = n + Len(found)
       /\ Len(b) = n + Len(found) + 1
  BY <1>1, <1>2, <1>4, <1>5, <1>7
<1>9. ASSUME NEW i \in 1..Len(b) PROVE Append(a, l)[i] = b[i]
  <2>1. CASE i <= n
    BY <1>1, <1>2, <1>4, <1>5, <1>6, <1>7, <2>1
  <2>2. CASE ~(i <= n) /\ i <= Len(a)
    <3>1. i - n \in 1..Len(found) /\ i \in 1..Len(a)
      BY <1>8, <2>2
    <3>2. b[i] = longer[i - n] /\ a[i] = found[i - n]
      BY <1>4, <1>5, <2>2, <3>1
    <3> QED BY <1>1, <1>6, <3>1, <3>2
  <2>3. CASE ~(i <= Len(a))
    <3>1. i = Len(a) + 1 /\ i - n = Len(found) + 1 /\ ~(i <= n)
      BY <1>8, <2>3
    <3> QED BY <1>1, <1>5, <1>6, <3>1
  <2> QED BY <1>4, <1>7, <1>2, <2>1, <2>2, <2>3
<1>10. Len(Append(a, l)) = Len(b)
  BY <1>1, <1>2, <1>4, <1>5, <1>6, <1>7
<1>11. Append(a, l) = b
  BY <1>5, <1>6, <1>9, <1>10, SeqEqual
<1> QED BY <1>1, <1>3, <1>11 DEF a, b, longer

--------------------------------------------------------------------------------
(***************************************************************************)
(* One check.                                                              *)
(***************************************************************************)

LEMMA AssumedByCheck ==
    ASSUME UnateTypeOK, AssumptionsInPlace, unatePhase # "idle", NEW k \in Positions
    PROVE  /\ {withoutSwitch(assumptions, k)[i] : i \in DOMAIN withoutSwitch(assumptions, k)}
                 = switchesBut(k) \cup FoundLiterals
           /\ restored(withoutSwitch(assumptions, k), k) = assumptions
<1>1. found_unate_literals \in Seq(Int)
  BY DEF UnateTypeOK
<1>2. assumptions = initialAssumptions(found_unate_literals)
  BY DEF AssumptionsInPlace
<1> QED BY <1>1, <1>2, SwitchTakenOut DEF FoundLiterals

\* No literal is a switch, and a literal is of one variable only.
LEMMA LiteralFacts ==
    ASSUME UnateTypeOK, FoundInv
    PROVE  /\ \A e \in Existentials :
                 /\ e \in Nat /\ e # -e
                 /\ \A k \in Positions : switchOf(k) # e /\ switchOf(k) # -e
           /\ \A l \in FoundLiterals : \A k \in Positions : switchOf(k) # l
           /\ \A d, e \in Existentials : d # -e /\ (-d = -e => d = e)
<1>1. \A e \in Existentials : e \in 1..last_used_variable
  BY UnateAssumption
<1>2. last_used_variable \in Nat
  BY UnateAssumption
<1>3. ASSUME NEW e \in Existentials
      PROVE  /\ e \in Nat /\ e # -e
             /\ \A k \in Positions : switchOf(k) # e /\ switchOf(k) # -e
  <2>1. e \in Nat /\ e >= 1 /\ e <= last_used_variable
    BY <1>1, <1>2
  <2> QED BY <1>2, <2>1, PositionFacts
<1>4. \A l \in FoundLiterals : \A k \in Positions : switchOf(k) # l
  <2>1. TAKE l \in FoundLiterals
  <2>2. l \in Int
    BY ElementOfSeq, LenProperties DEF UnateTypeOK, FoundLiterals
  <2>3. l \in Existentials \/ (-l \in Existentials /\ l = -(-l))
    BY <2>2 DEF FoundInv
  <2> QED BY <1>3, <2>3
<1>5. ASSUME NEW d \in Existentials, NEW e \in Existentials
      PROVE  d # -e /\ (-d = -e => d = e)
  <2>1. d \in Nat /\ e \in Nat /\ d >= 1 /\ e >= 1
    BY <1>1, <1>2
  <2> QED BY <2>1
<1> QED BY <1>3, <1>4, <1>5

LEMMA FixedTotal ==
    ASSUME NEW s \in TotalAssignments
    PROVE  Fixed(s) \in TotalAssignments
BY DEF Fixed, TotalAssignments

\* The next assignment, in which one more literal is fixed, differs from the last
\* one in a single variable, and the check excludes that it is lost.
LEMMA CheckPreservesTruth ==
    ASSUME UnateTypeOK, FoundInv, UnatesPreserveTruth, unatePhase # "idle",
           NEW k \in Remaining, k \in Positions, NEW b \in BOOLEAN,
           NoneLost(existential_variables[k], b, switchesBut(k) \cup FoundLiterals),
           FoundLiterals' = FoundLiterals \cup
               {IF b THEN existential_variables[k] ELSE -existential_variables[k]},
           NEW s \in MatrixOf(clauses)
    PROVE  Fixed(s)' \in MatrixOf(clauses)
<1> DEFINE v == existential_variables[k]
           unate == IF b THEN v ELSE -v
           t == Fixed(s)
           u == Fixed(s)'
           assumed == switchesBut(k) \cup FoundLiterals
<1>1. v \in Existentials /\ v \in Variables /\ v \notin Universals
  BY PositionFacts, PrefixAssumption DEF Variables
<1>2. v \notin FoundLiterals /\ -v \notin FoundLiterals
  BY DEF FoundInv, SettledLiteral
<1>3. t \in MatrixOf(clauses) /\ t \in TotalAssignments /\ s \in TotalAssignments
  BY DEF UnatesPreserveTruth, MatrixOf
<1>4. u \in TotalAssignments
  BY <1>3 DEF Fixed, TotalAssignments
<1>5. u[v] = b
  <2>1. v # -v
    BY <1>1, LiteralFacts
  <2>2. u[v] = (v \in FoundLiterals' \/ (s[v] /\ -v \notin FoundLiterals'))
    BY <1>1 DEF Fixed
  <2>3. CASE b
    BY <2>2, <2>3
  <2>4. CASE ~b
    <3>1. v \notin FoundLiterals' /\ -v \in FoundLiterals'
      BY <1>2, <2>1, <2>4
    <3> QED BY <2>2, <2>4, <3>1
  <2> QED BY <2>3, <2>4
<1>6. ASSUME NEW x \in Variables, x # v PROVE u[x] = t[x]
  <2>1. CASE x \in Universals
    BY <2>1 DEF Fixed
  <2>2. CASE x \notin Universals
    <3>1. x \in Existentials
      BY <2>2 DEF Variables
    <3>2. x # unate /\ -x # unate
      BY <1>1, <1>6, <3>1, LiteralFacts
    <3>3. x \in FoundLiterals' <=> x \in FoundLiterals
      BY <3>2
    <3>4. -x \in FoundLiterals' <=> -x \in FoundLiterals
      BY <3>2
    <3> QED BY <2>2, <3>3, <3>4 DEF Fixed
  <2> QED BY <2>1, <2>2
<1>7. CASE t[v] = b
  <2>1. \A x \in Variables : u[x] = t[x]
    BY <1>5, <1>6, <1>7
  <2>2. u = t
    BY <1>3, <1>4, <2>1 DEF TotalAssignments
  <2> QED BY <1>3, <2>2
<1>8. CASE t[v] # b
  <2>1. t[v] = ~b
    BY <1>1, <1>3, <1>8 DEF TotalAssignments
  <2>2. SatisfiesAssumed(t, assumed)
    <3>1. SUFFICES ASSUME NEW e \in Existentials
                   PROVE  (e \in assumed => t[e]) /\ (-e \in assumed => ~t[e])
      BY DEF SatisfiesAssumed
    <3>2. e \in Variables /\ e \notin Universals
      BY PrefixAssumption DEF Variables
    <3>3. t[e] = (e \in FoundLiterals \/ (s[e] /\ -e \notin FoundLiterals))
      BY <3>2 DEF Fixed
    <3>4. e \in assumed => e \in FoundLiterals
      BY LiteralFacts DEF switchesBut
    <3>5. -e \in assumed => -e \in FoundLiterals
      BY LiteralFacts DEF switchesBut
    <3>6. ~(e \in FoundLiterals /\ -e \in FoundLiterals)
      BY DEF FoundInv
    <3> QED BY <3>3, <3>4, <3>5, <3>6
  <2>3. AgreeWhereSwitched(t, u, assumed)
    <3>1. \A x \in Universals : t[x] = u[x]
      BY <1>1, <1>6 DEF Variables
    <3>2. ASSUME NEW l \in Positions, switchOf(l) \in assumed
          PROVE  t[existential_variables[l]] = u[existential_variables[l]]
      <4>1. switchOf(l) \in switchesBut(k)
        BY <3>2, LiteralFacts
      <4>2. l # k
        BY <4>1, PositionFacts DEF switchesBut
      <4>3. existential_variables[l] # v /\ existential_variables[l] \in Variables
        BY <4>2, PositionFacts DEF Variables
      <4> QED BY <1>6, <4>3
    <3> QED BY <3>1, <3>2 DEF AgreeWhereSwitched
  <2> HIDE DEF t, u, v, assumed
  <2>4. NoneLost(v, b, assumed)
    BY DEF v, assumed
  <2>5. ~(u \in TotalAssignments \ MatrixOf(clauses))
    BY <1>3, <1>5, <2>1, <2>2, <2>3, <2>4 DEF NoneLost
  <2> QED BY <1>4, <2>5 DEF u
<1> QED BY <1>7, <1>8

--------------------------------------------------------------------------------
(***************************************************************************)
(* The list of indices.                                                    *)
(***************************************************************************)

LEMMA IncreasingListOfAll ==
    ASSUME NEW K \in SUBSET Positions, NEW l \in IncreasingLists(K)
    PROVE  /\ l \in Seq(Positions) /\ DOMAIN l = 1..Len(l)
           /\ {l[i] : i \in DOMAIN l} = K
           /\ \A i, j \in DOMAIN l : l[i] = l[j] => i = j
<1> DEFINE n == Cardinality(K)
<1>1. IsFiniteSet(K) /\ n \in Nat
  <2>1. 1 \in Int /\ Len(existential_variables) \in Int
    BY PositionFacts
  <2>2. IsFiniteSet(Positions)
    BY <2>1, PositionFacts, FS_Interval
  <2>3. IsFiniteSet(K)
    BY <2>2, FS_Subset
  <2> QED BY <2>3, FS_CardinalityType
<1>2. l \in [1..n -> K] /\ \A i, j \in 1..n : i < j => l[i] < l[j]
  BY DEF IncreasingLists
<1> HIDE DEF n
<1>3. l \in Seq(K) /\ l \in Seq(Positions)
  BY <1>1, <1>2, SeqDef
<1>4. DOMAIN l = 1..Len(l) /\ DOMAIN l = 1..n
  BY <1>2, <1>3, LenProperties
<1>5. ASSUME NEW i \in 1..n, NEW j \in 1..n, l[i] = l[j] PROVE i = j
  <2>0. l[i] \in K
    BY <1>2
  <2>1. l[i] \in Positions
    BY <2>0
  <2>2. l[i] \in Nat
    BY <2>1, PositionFacts
  <2>3. ~(i < j) /\ ~(j < i)
    BY <1>2, <1>5, <2>2
  <2> QED BY <1>1, <2>3
<1>6. l \in Injection(1..n, K)
  BY <1>2, <1>5 DEF Injection, IsInjective
<1>7. Cardinality(1..n) = n
  BY <1>1, FS_Interval
<1>8. l \in Surjection(1..n, K)
  BY <1>1, <1>6, <1>7, FS_Injection DEF n
<1>9. {l[i] : i \in DOMAIN l} = K
  BY <1>2, <1>4, <1>8 DEF Surjection
<1> QED BY <1>3, <1>4, <1>5, <1>9

\* The list without the index at i: the last one takes its place.
LEMMA IndexTakenOut ==
    ASSUME NEW S, NEW l \in Seq(S), NEW i \in 1..Len(l),
           \A j, k \in DOMAIN l : l[j] = l[k] => j = k
    PROVE  LET m == withoutIndex(l, i)
           IN  /\ m \in Seq(S) /\ Len(m) = Len(l) - 1 /\ DOMAIN m = 1..Len(m)
               /\ {m[j] : j \in DOMAIN m} = {l[j] : j \in DOMAIN l} \ {l[i]}
               /\ \A j, k \in DOMAIN m : m[j] = m[k] => j = k
               /\ \A j \in 1..(i - 1) : m[j] = l[j]
<1> DEFINE n == Len(l)
           moved == [l EXCEPT ![i] = l[n]]
           m == withoutIndex(l, i)
<1>1. n \in Nat /\ i \in 1..n /\ n \in 1..n /\ DOMAIN l = 1..n /\ \A j \in 1..n : l[j] \in S
  BY LenProperties, ElementOfSeq
<1>2. /\ moved \in Seq(S) /\ Len(moved) = n
      /\ \A j \in 1..n : moved[j] = IF j = i THEN l[n] ELSE l[j]
  BY <1>1, ExceptSeq
<1>3. m = SubSeq(moved, 1, n - 1)
  BY <1>2 DEF withoutIndex
<1> HIDE DEF moved, n
<1>4. \A j \in 1..(n - 1) : moved[j] \in S
  BY <1>1, <1>2, ElementOfSeq
<1>5. m \in Seq(S) /\ Len(m) = n - 1 /\ \A j \in 1..(n - 1) : m[j] = moved[j]
  <2> HIDE DEF m
  <2>1. 1 \in Int /\ n - 1 \in Int
    BY <1>1
  <2>2. /\ SubSeq(moved, 1, n - 1) \in Seq(S)
        /\ Len(SubSeq(moved, 1, n - 1)) = IF 1 <= n - 1 THEN n - 1 - 1 + 1 ELSE 0
        /\ \A j \in 1..(n - 1 - 1 + 1) : SubSeq(moved, 1, n - 1)[j] = moved[1 + j - 1]
    BY <1>4, <2>1, SubSeqProperties
  <2>3. \A j \in 1..(n - 1) : 1 + j - 1 = j
    OBVIOUS
  <2>4. n - 1 - 1 + 1 = n - 1 /\ n - 1 \in Nat
    BY <1>1
  <2> QED BY <1>3, <2>2, <2>3, <2>4
<1> HIDE DEF m
<1>6. DOMAIN m = 1..(n - 1) /\ DOMAIN m = 1..Len(m)
  BY <1>5, LenProperties
<1>7. ASSUME NEW j \in 1..(n - 1)
      PROVE  j \in 1..n /\ j # n /\ m[j] = IF j = i THEN l[n] ELSE l[j]
  BY <1>1, <1>2, <1>5
<1>8. {m[j] : j \in DOMAIN m} = {l[j] : j \in DOMAIN l} \ {l[i]}
  <2>1. ASSUME NEW j \in DOMAIN m PROVE m[j] \in {l[k] : k \in DOMAIN l} \ {l[i]}
    <3>1. j \in 1..(n - 1)
      BY <1>6
    <3>2. PICK k \in 1..n : k # i /\ m[j] = l[k]
      BY <1>1, <1>7, <3>1
    <3>3. l[k] # l[i]
      BY <1>1, <3>2
    <3> QED BY <1>1, <3>2, <3>3
  <2>2. ASSUME NEW k \in DOMAIN l, l[k] # l[i] PROVE l[k] \in {m[j] : j \in DOMAIN m}
    <3>1. k \in 1..n /\ k # i
      BY <1>1, <2>2
    <3>2. CASE k = n
      <4>1. i \in 1..(n - 1)
        BY <1>1, <3>1, <3>2
      <4> QED BY <1>6, <1>7, <3>2, <4>1
    <3>3. CASE k # n
      <4>1. k \in 1..(n - 1)
        BY <1>1, <3>1, <3>3
      <4> QED BY <1>6, <1>7, <3>1, <4>1
    <3> QED BY <3>2, <3>3
  <2> QED BY <2>1, <2>2
<1>9. ASSUME NEW j \in DOMAIN m, NEW k \in DOMAIN m, m[j] = m[k] PROVE j = k
  <2>1. j \in 1..(n - 1) /\ k \in 1..(n - 1)
    BY <1>6
  <2>2. /\ j \in 1..n /\ j # n /\ m[j] = IF j = i THEN l[n] ELSE l[j]
        /\ k \in 1..n /\ k # n /\ m[k] = IF k = i THEN l[n] ELSE l[k]
    BY <1>7, <2>1
  <2> QED BY <1>1, <1>9, <2>2
<1>10. ASSUME NEW j \in 1..(i - 1) PROVE m[j] = l[j]
  <2>1. j \in 1..(n - 1) /\ j # i
    BY <1>1
  <2> QED BY <1>7, <2>1
<1> QED BY <1>5, <1>6, <1>8, <1>9, <1>10 DEF m, n

--------------------------------------------------------------------------------
(***************************************************************************)
(* The steps.                                                              *)
(***************************************************************************)

LEMMA UnatesStart == UnatesInit => UnatesInv
<1> SUFFICES ASSUME UnatesInit PROVE UnatesInv
  OBVIOUS
<1>1. <<>> \in Seq(Int) /\ <<>> \in Seq(Positions)
  OBVIOUS
<1> QED BY <1>1, UnateAssumption
        DEF UnatesInit, UnateInit, UnatesInv, UnateTypeOK, AssumptionsInPlace

LEMMA FindUnatesKeeps ==
    ASSUME UnatesInv, FindUnates, UNCHANGED preprocessingVars
    PROVE  UnatesInv'
<1> USE DEF FindUnates, UnatesInv
<1> DEFINE K == {k \in Positions : existential_variables[k] \in variables_to_consider'}
<1>1. found_unate_literals' = <<>> /\ FoundLiterals' = {}
  BY DEF UnateTypeOK, FoundLiterals
<1>2. /\ indices' \in Seq(Positions) /\ DOMAIN indices' = 1..Len(indices')
      /\ Remaining' = K
      /\ \A i, j \in DOMAIN indices' : indices'[i] = indices'[j] => i = j
  BY IncreasingListOfAll DEF Remaining
<1>3. Len(indices') \in Nat
  BY <1>2, LenProperties
<1>4. UnateTypeOK'
  <2>1. Kept \subseteq Existentials
    BY DEF Kept
  <2>2. phase' = "done"
    BY DEF preprocessingVars
  <2> QED BY <1>1, <1>2, <1>3, <2>1, <2>2 DEF UnateTypeOK
<1>5. AssumptionsInPlace'
  BY <1>1 DEF AssumptionsInPlace, initialAssumptions, switches_for_equalities
<1>6. IndicesInv'
  BY <1>2, <1>3 DEF IndicesInv
<1>7. FoundInv'
  <2> HIDE DEF FindUnates
  <2> QED BY <1>1, <1>2 DEF FoundInv, SettledLiteral
<1>8. PassInv'
  BY DEF PassInv
<1>9. UnatesPreserveTruth'
  <2>1. SUFFICES ASSUME NEW s \in MatrixOf(clauses)' PROVE Fixed(s)' \in MatrixOf(clauses)'
    BY DEF UnatesPreserveTruth
  <2>2. s \in TotalAssignments
    BY DEF MatrixOf
  <2>3. \A x \in Variables : Fixed(s)'[x] = s[x]
    BY <1>1, <2>2 DEF Fixed, TotalAssignments
  <2>4. Fixed(s)' = s
    BY <2>2, <2>3 DEF Fixed, TotalAssignments
  <2> QED BY <2>1, <2>4
<1> QED BY <1>4, <1>5, <1>6, <1>7, <1>8, <1>9

\* A pass ends: what the next one starts with is what the array holds already.
LEMMA EndPassKeeps ==
    ASSUME UnatesInv, EndPass, UNCHANGED preprocessingVars
    PROVE  UnatesInv'
<1> USE DEF EndPass, UnatesInv
<1>1. /\ FoundLiterals' = FoundLiterals /\ Remaining' = Remaining
      /\ phase' = "done" /\ clauses' = clauses
  BY DEF FoundLiterals, Remaining, UnateTypeOK, preprocessingVars
<1>2. IndicesInv /\ FoundInv /\ PassInv /\ UnatesPreserveTruth
  OBVIOUS
<1>3. last_index_to_consider \in Nat /\ position \in Nat /\ position = last_index_to_consider + 1
  BY <1>2 DEF IndicesInv, UnateTypeOK
<1>4. UnateTypeOK'
  BY <1>1 DEF UnateTypeOK
<1>5. AssumptionsInPlace'
  BY DEF AssumptionsInPlace, initialAssumptions, switches_for_equalities
<1>6. IndicesInv'
  BY <1>2, <1>3 DEF IndicesInv
<1>7. FoundInv'
  BY <1>1, <1>2 DEF FoundInv, SettledLiteral
<1>8. PassInv'
  <2>1. CASE old_last_index = last_index_to_consider
    <3>1. unatePhase' = "done" /\ UNCHANGED <<indices, old_last_index, last_index_to_consider>>
      BY <2>1
    <3>2. ASSUME ~use_conflict_limit, NEW k \in Remaining, NEW b \in BOOLEAN
          PROVE  ~NoneLost(existential_variables[k], b, switchesBut(k) \cup FoundLiterals)
      <4>1. PICK i \in DOMAIN indices : k = indices[i]
        BY DEF Remaining
      <4>2. i \in 1..(position - 1)
        BY <1>2, <1>3, <4>1, LenProperties DEF IndicesInv, UnateTypeOK
      <4> QED BY <1>2, <2>1, <3>2, <4>1, <4>2 DEF PassInv
    <3>3. \A v, b, assumed : NoneLost(v, b, assumed)' <=> NoneLost(v, b, assumed)
      BY <1>1 DEF NoneLost, MatrixOf, SatisfiesAssumed, AgreeWhereSwitched
    <3> QED BY <1>1, <2>1, <3>1, <3>2, <3>3 DEF PassInv, switchesBut
  <2>2. CASE old_last_index # last_index_to_consider
    <3>1. position' = 1 /\ unatePhase' = "search"
      BY <2>2
    <3>2. 1..(position' - 1) = {}
      BY <3>1
    <3> QED BY <3>1, <3>2 DEF PassInv
  <2> QED BY <2>1, <2>2
<1>9. UnatesPreserveTruth'
  <2>1. \A s : Fixed(s)' = Fixed(s)
    BY <1>1 DEF Fixed
  <2>2. MatrixOf(clauses)' = MatrixOf(clauses)
    BY <1>1 DEF MatrixOf
  <2> QED BY <1>2, <2>1, <2>2 DEF UnatesPreserveTruth
<1> QED BY <1>4, <1>5, <1>6, <1>7, <1>8, <1>9

\* A check that finds nothing leaves the array as it was, and its variable is
\* one of those the pass has shown not to be unate.
LEMMA NothingFoundKeeps ==
    ASSUME UnatesInv, unatePhase = "search", UNCHANGED preprocessingVars,
           position <= last_index_to_consider,
           \A b \in BOOLEAN : ~use_conflict_limit =>
               ~NoneLost(existential_variables[indices[position]], b,
                         switchesBut(indices[position]) \cup FoundLiterals),
           assumptions' = assumptions, position' = position + 1,
           UNCHANGED <<found_unate_literals, indices, last_index_to_consider, use_conflict_limit,
                       variables_to_consider, old_last_index, unatePhase>>
    PROVE  UnatesInv'
<1> USE DEF UnatesInv
<1>1. /\ FoundLiterals' = FoundLiterals /\ Remaining' = Remaining
      /\ phase' = phase /\ clauses' = clauses
  BY DEF FoundLiterals, Remaining, preprocessingVars
<1>2. IndicesInv /\ FoundInv /\ PassInv /\ UnatesPreserveTruth /\ UnateTypeOK
  OBVIOUS
<1>3. last_index_to_consider \in Nat /\ position \in Nat
  BY <1>2 DEF UnateTypeOK
<1>4. UnateTypeOK'
  BY <1>1, <1>3 DEF UnateTypeOK
<1>5. AssumptionsInPlace'
  BY DEF AssumptionsInPlace, initialAssumptions, switches_for_equalities
<1>6. IndicesInv'
  BY <1>2, <1>3 DEF IndicesInv
<1>7. FoundInv'
  BY <1>1, <1>2 DEF FoundInv, SettledLiteral
<1>8. PassInv'
  <2>1. \A v, b, assumed : NoneLost(v, b, assumed)' <=> NoneLost(v, b, assumed)
    BY <1>1 DEF NoneLost, MatrixOf, SatisfiesAssumed, AgreeWhereSwitched
  <2>2. ASSUME ~use_conflict_limit, old_last_index = last_index_to_consider,
               NEW i \in 1..(position' - 1), NEW b \in BOOLEAN
        PROVE  ~NoneLost(existential_variables[indices[i]], b,
                         switchesBut(indices[i]) \cup FoundLiterals)
    <3>1. CASE i = position
      BY <2>2, <3>1
    <3>2. CASE i # position
      <4>1. i \in 1..(position - 1)
        BY <1>3, <2>2, <3>2
      <4> QED BY <1>2, <2>2, <4>1 DEF PassInv
    <3> QED BY <3>1, <3>2
  <2> QED BY <1>1, <2>1, <2>2 DEF PassInv, switchesBut
<1>9. UnatesPreserveTruth'
  <2>1. \A s : Fixed(s)' = Fixed(s)
    BY <1>1 DEF Fixed
  <2>2. MatrixOf(clauses)' = MatrixOf(clauses)
    BY <1>1 DEF MatrixOf
  <2> QED BY <1>2, <2>1, <2>2 DEF UnatesPreserveTruth
<1> QED BY <1>4, <1>5, <1>6, <1>7, <1>8, <1>9

\* A check that finds a literal takes its variable out of the list.
LEMMA LiteralFoundKeeps ==
    ASSUME UnatesInv, unatePhase = "search", UNCHANGED preprocessingVars,
           position <= last_index_to_consider, NEW b \in BOOLEAN, NEW k, NEW l,
           k = indices[position],
           NoneLost(existential_variables[k], b, switchesBut(k) \cup FoundLiterals),
           l = IF b THEN existential_variables[k] ELSE -existential_variables[k],
           found_unate_literals' = Append(found_unate_literals, l),
           assumptions' = Append(assumptions, l),
           indices' = withoutIndex(indices, position),
           last_index_to_consider' = last_index_to_consider - 1,
           UNCHANGED <<use_conflict_limit, variables_to_consider, old_last_index,
                       unatePhase, position>>
    PROVE  UnatesInv'
<1> USE DEF UnatesInv
<1> DEFINE v == existential_variables[k]
<1>1. phase' = phase /\ clauses' = clauses
  BY DEF preprocessingVars
<1>2. IndicesInv /\ FoundInv /\ PassInv /\ UnatesPreserveTruth /\ UnateTypeOK /\ AssumptionsInPlace
  OBVIOUS
<1>3. /\ last_index_to_consider \in Nat /\ position \in Nat /\ old_last_index \in Nat
      /\ position \in 1..Len(indices) /\ Len(indices) = last_index_to_consider
      /\ indices \in Seq(Positions) /\ DOMAIN indices = 1..Len(indices)
  BY <1>2, LenProperties DEF UnateTypeOK, IndicesInv
<1>4. k \in Positions /\ k \in Remaining /\ v \in Existentials
  BY <1>3, ElementOfSeq, PositionFacts DEF Remaining
<1>5. l \in Int
  BY <1>2, <1>4, LiteralFacts
<1>6. /\ assumptions' = initialAssumptions(found_unate_literals')
      /\ found_unate_literals' \in Seq(Int)
      /\ FoundLiterals' = FoundLiterals \cup {l}
  <2> DEFINE found == found_unate_literals
  <2>1. found \in Seq(Int) /\ assumptions = initialAssumptions(found)
    BY <1>2 DEF UnateTypeOK, AssumptionsInPlace
  <2>2. /\ Append(initialAssumptions(found), l) = initialAssumptions(Append(found, l))
        /\ Append(found, l) \in Seq(Int)
        /\ {Append(found, l)[i] : i \in DOMAIN Append(found, l)}
              = {found[i] : i \in DOMAIN found} \cup {l}
    BY <1>5, <2>1, LiteralAppended
  <2>3. initialAssumptions(found_unate_literals') = initialAssumptions(Append(found, l))
    OBVIOUS
  <2> QED BY <2>1, <2>2, <2>3 DEF FoundLiterals
<1>7. /\ indices' \in Seq(Positions) /\ Len(indices') = Len(indices) - 1
      /\ DOMAIN indices' = 1..Len(indices')
      /\ Remaining' = Remaining \ {k}
      /\ \A i, j \in DOMAIN indices' : indices'[i] = indices'[j] => i = j
  <2>1. \A i, j \in DOMAIN indices : indices[i] = indices[j] => i = j
    BY <1>2 DEF IndicesInv
  <2> DEFINE m == withoutIndex(indices, position)
  <2>2. /\ m \in Seq(Positions) /\ Len(m) = Len(indices) - 1 /\ DOMAIN m = 1..Len(m)
        /\ {m[j] : j \in DOMAIN m} = {indices[j] : j \in DOMAIN indices} \ {indices[position]}
        /\ \A i, j \in DOMAIN m : m[i] = m[j] => i = j
    <3>1. indices \in Seq(Positions) /\ position \in 1..Len(indices)
      BY <1>3
    <3> QED BY <2>1, <3>1, IndexTakenOut, Zenon
  <2>3. indices' = m
    OBVIOUS
  <2> HIDE DEF m
  <2> QED BY <2>2, <2>3 DEF Remaining
<1>8. UnateTypeOK'
  BY <1>1, <1>2, <1>3, <1>6, <1>7 DEF UnateTypeOK
<1>9. AssumptionsInPlace'
  BY <1>6 DEF AssumptionsInPlace, initialAssumptions, switches_for_equalities
<1>10. IndicesInv'
  BY <1>2, <1>3, <1>7 DEF IndicesInv
<1>11. FoundInv'
  <2>1. l \in Existentials \/ -l \in Existentials
    <3>1. v \in Int
      BY <1>2, <1>4, LiteralFacts
    <3> QED BY <1>4, <3>1
  <2>2. ASSUME NEW e \in Existentials
        PROVE  /\ ~(e \in FoundLiterals' /\ -e \in FoundLiterals')
               /\ e # v => (SettledLiteral(e)' <=> SettledLiteral(e))
    <3>1. e # v => e # l /\ -e # l
      BY <1>2, <1>4, LiteralFacts
    <3>2. e # v => (SettledLiteral(e)' <=> SettledLiteral(e))
      BY <1>6, <3>1 DEF SettledLiteral
    <3>3. ASSUME e # v PROVE ~(e \in FoundLiterals' /\ -e \in FoundLiterals')
      BY <1>2, <1>6, <3>1, <3>3 DEF FoundInv
    <3>4. ASSUME e = v PROVE ~(e \in FoundLiterals' /\ -e \in FoundLiterals')
      <4>1. ~(e = l /\ -e = l)
        BY <1>2, <1>4, <3>4, LiteralFacts
      <4>2. e \notin FoundLiterals /\ -e \notin FoundLiterals
        BY <1>2, <1>4, <3>4 DEF FoundInv, SettledLiteral
      <4> QED BY <1>6, <4>1, <4>2
    <3> QED BY <3>2, <3>3, <3>4
  <2>3. SettledLiteral(v)'
    <3>1. CASE b
      BY <1>6, <3>1 DEF SettledLiteral
    <3>2. CASE ~b
      BY <1>6, <3>2 DEF SettledLiteral
    <3> QED BY <3>1, <3>2
  <2>4. ASSUME NEW i \in Remaining' PROVE ~SettledLiteral(existential_variables[i])'
    <3>1. i \in Remaining /\ i # k /\ i \in Positions
      <4>1. i \in Remaining /\ i # k
        BY <1>7
      <4>2. PICK j \in 1..Len(indices) : i = indices[j]
        BY <1>3, <4>1 DEF Remaining
      <4> QED BY <1>3, <4>1, <4>2, ElementOfSeq
    <3>2. existential_variables[i] \in Existentials /\ existential_variables[i] # v
      BY <1>4, <3>1, PositionFacts
    <3> QED BY <1>2, <2>2, <3>1, <3>2 DEF FoundInv
  <2>5. ASSUME NEW i \in Positions, existential_variables[i] \in variables_to_consider
        PROVE  i \in Remaining' \/ SettledLiteral(existential_variables[i])'
    <3>1. CASE i = k
      BY <2>3, <3>1
    <3>2. CASE i # k
      <4>1. i \in Remaining \/ SettledLiteral(existential_variables[i])
        BY <1>2, <2>5 DEF FoundInv
      <4>2. existential_variables[i] \in Existentials /\ existential_variables[i] # v
        BY <1>4, <3>2, PositionFacts
      <4> QED BY <1>7, <2>2, <3>2, <4>1, <4>2
    <3> QED BY <3>1, <3>2
  <2>6. \A m \in FoundLiterals' : m \in Existentials \/ -m \in Existentials
    BY <1>2, <1>6, <2>1 DEF FoundInv
  <2> QED BY <2>2, <2>4, <2>5, <2>6 DEF FoundInv
<1>12. PassInv'
  <2>1. old_last_index' # last_index_to_consider' /\ unatePhase' = "search"
    BY <1>2, <1>3 DEF IndicesInv
  <2> QED BY <2>1 DEF PassInv
<1>13. UnatesPreserveTruth'
  <2>1. ASSUME NEW s \in MatrixOf(clauses) PROVE Fixed(s)' \in MatrixOf(clauses)
    <3>1. FoundLiterals' = FoundLiterals \cup {IF b THEN v ELSE -v}
      BY <1>6
    <3> QED BY <1>2, <1>4, <3>1, CheckPreservesTruth
  <2>2. MatrixOf(clauses)' = MatrixOf(clauses)
    BY <1>1 DEF MatrixOf
  <2> QED BY <2>1, <2>2 DEF UnatesPreserveTruth
<1> QED BY <1>8, <1>9, <1>10, <1>11, <1>12, <1>13

LEMMA CheckVariableKeeps ==
    ASSUME UnatesInv, CheckVariable, UNCHANGED preprocessingVars
    PROVE  UnatesInv'
<1> DEFINE k == indices[position]
           v == existential_variables[k]
           assumed == withoutSwitch(assumptions, k)
           IsAssumed == {assumed[i] : i \in DOMAIN assumed}
<1>1. unatePhase = "search" /\ position <= last_index_to_consider
  BY DEF CheckVariable
<1>2. UNCHANGED <<use_conflict_limit, variables_to_consider, old_last_index, unatePhase>>
  BY DEF CheckVariable
<1>3. k \in Positions
  <2>1. IndicesInv /\ UnateTypeOK
    BY <1>1 DEF UnatesInv
  <2>2. position \in 1..Len(indices)
    BY <1>1, <2>1 DEF IndicesInv, UnateTypeOK
  <2> QED BY <2>1, <2>2, ElementOfSeq DEF UnateTypeOK
<1>4. IsAssumed = switchesBut(k) \cup FoundLiterals /\ restored(assumed, k) = assumptions
  BY <1>1, <1>3, AssumedByCheck DEF UnatesInv
<1>5. PICK positive \in UnateAnswers(v, TRUE, IsAssumed),
           negative \in UnateAnswers(v, FALSE, IsAssumed) :
         IF positive \/ negative
         THEN LET unate_literal == IF positive THEN v ELSE -v
              IN  /\ found_unate_literals' = Append(found_unate_literals, unate_literal)
                  /\ assumptions' = Append(restored(assumed, k), unate_literal)
                  /\ indices' = withoutIndex(indices, position)
                  /\ last_index_to_consider' = last_index_to_consider - 1
                  /\ UNCHANGED position
         ELSE /\ assumptions' = restored(assumed, k)
              /\ position' = position + 1
              /\ UNCHANGED <<found_unate_literals, indices, last_index_to_consider>>
  BY DEF CheckVariable
<1> HIDE DEF assumed, IsAssumed
<1>6. positive \in BOOLEAN /\ negative \in BOOLEAN /\ use_conflict_limit \in BOOLEAN
  BY DEF UnateAnswers, UnatesInv, UnateTypeOK
<1>7. /\ positive => NoneLost(v, TRUE, switchesBut(k) \cup FoundLiterals)
      /\ negative => NoneLost(v, FALSE, switchesBut(k) \cup FoundLiterals)
  BY <1>4 DEF UnateAnswers
<1>8. CASE positive \/ negative
  <2> DEFINE b == positive
             l == IF b THEN v ELSE -v
  <2>1. /\ found_unate_literals' = Append(found_unate_literals, l)
        /\ assumptions' = Append(assumptions, l)
        /\ indices' = withoutIndex(indices, position)
        /\ last_index_to_consider' = last_index_to_consider - 1
        /\ UNCHANGED position
    BY <1>4, <1>5, <1>8
  <2>2. NoneLost(v, b, switchesBut(k) \cup FoundLiterals)
    <3>1. CASE positive
      BY <1>6, <1>7, <3>1
    <3>2. CASE ~positive
      BY <1>6, <1>7, <1>8, <3>2
    <3> QED BY <3>1, <3>2
  <2> QED BY <1>1, <1>2, <1>6, <2>1, <2>2, LiteralFoundKeeps
<1>9. CASE ~(positive \/ negative)
  <2>1. ASSUME NEW b \in BOOLEAN, ~use_conflict_limit
        PROVE  ~NoneLost(v, b, switchesBut(k) \cup FoundLiterals)
    <3>1. ~NoneLost(v, TRUE, switchesBut(k) \cup FoundLiterals)
      BY <1>4, <1>9, <2>1 DEF UnateAnswers
    <3>2. ~NoneLost(v, FALSE, switchesBut(k) \cup FoundLiterals)
      BY <1>4, <1>9, <2>1 DEF UnateAnswers
    <3> QED BY <3>1, <3>2
  <2>2. /\ assumptions' = assumptions /\ position' = position + 1
        /\ UNCHANGED <<found_unate_literals, indices, last_index_to_consider>>
    BY <1>4, <1>5, <1>9
  <2> QED BY <1>1, <1>2, <2>1, <2>2, NothingFoundKeeps
<1> QED BY <1>8, <1>9

--------------------------------------------------------------------------------
(***************************************************************************)
(* The theorems.                                                           *)
(***************************************************************************)

LEMMA UnatesStutter ==
    ASSUME UnatesInv, UNCHANGED <<preprocessingVars, unateVars>>
    PROVE  UnatesInv'
<1>1. /\ FoundLiterals' = FoundLiterals /\ Remaining' = Remaining
      /\ phase' = phase /\ clauses' = clauses
  BY DEF FoundLiterals, Remaining, preprocessingVars, unateVars
<1> USE DEF UnatesInv, unateVars
<1>2. UnateTypeOK' /\ AssumptionsInPlace'
  BY <1>1 DEF UnateTypeOK, AssumptionsInPlace, initialAssumptions, switches_for_equalities
<1>3. ASSUME unatePhase # "idle"
      PROVE  IndicesInv' /\ FoundInv' /\ PassInv' /\ UnatesPreserveTruth'
  <2>1. IndicesInv /\ FoundInv /\ PassInv /\ UnatesPreserveTruth
    BY <1>3
  <2>2. IndicesInv'
    BY <2>1 DEF IndicesInv
  <2>3. FoundInv'
    BY <1>1, <2>1 DEF FoundInv, SettledLiteral
  <2>4. PassInv'
    <3>1. \A v, b, assumed : NoneLost(v, b, assumed)' <=> NoneLost(v, b, assumed)
      BY <1>1 DEF NoneLost, MatrixOf, SatisfiesAssumed, AgreeWhereSwitched
    <3> QED BY <1>1, <2>1, <3>1 DEF PassInv, switchesBut
  <2>5. UnatesPreserveTruth'
    <3>1. \A s : Fixed(s)' = Fixed(s)
      BY <1>1 DEF Fixed
    <3>2. MatrixOf(clauses)' = MatrixOf(clauses)
      BY <1>1 DEF MatrixOf
    <3> QED BY <2>1, <3>1, <3>2 DEF UnatesPreserveTruth
  <2> QED BY <2>2, <2>3, <2>4, <2>5
<1> QED BY <1>2, <1>3

\* Preprocessing is over when the search begins.
LEMMA PreprocessingKeeps ==
    ASSUME UnatesInv, PreprocessingNext, UNCHANGED unateVars
    PROVE  UnatesInv'
<1>1. CASE unatePhase = "idle"
  BY <1>1 DEF UnatesInv, UnateTypeOK, unateVars, AssumptionsInPlace
<1>2. CASE unatePhase # "idle"
  <2>1. phase = "done"
    BY <1>2 DEF UnatesInv, UnateTypeOK
  <2>2. UNCHANGED preprocessingVars
    BY <2>1 DEF PreprocessingNext, SearchFrom, EndScheme, Reduce
  <2> QED BY <2>2, UnatesStutter
<1> QED BY <1>1, <1>2

LEMMA UnatesInvariant == UnatesSpec => []UnatesInv
<1>1. UnatesInv /\ [UnatesNext]_<<preprocessingVars, unateVars>> => UnatesInv'
  <2> SUFFICES ASSUME UnatesInv, [UnatesNext]_<<preprocessingVars, unateVars>>
               PROVE  UnatesInv'
    OBVIOUS
  <2>1. CASE PreprocessingNext /\ UNCHANGED unateVars
    BY <2>1, PreprocessingKeeps
  <2>2. CASE FindUnates /\ UNCHANGED preprocessingVars
    BY <2>2, FindUnatesKeeps
  <2>3. CASE CheckVariable /\ UNCHANGED preprocessingVars
    BY <2>3, CheckVariableKeeps
  <2>4. CASE EndPass /\ UNCHANGED preprocessingVars
    BY <2>4, EndPassKeeps
  <2>5. CASE UNCHANGED <<preprocessingVars, unateVars>>
    BY <2>5, UnatesStutter
  <2> QED BY <2>2, <2>3, <2>4, <2>5, <2>1 DEF UnatesNext, UnateSteps
<1> QED BY <1>1, UnatesStart, PTL DEF UnatesSpec

\* The array checkUnates moves switches and literals around in is as it should be
\* between two checks.
THEOREM ArrayInPlace == UnatesSpec => []AssumptionsInPlace
<1>1. UnatesInv => AssumptionsInPlace
  BY DEF UnatesInv
<1> QED BY <1>1, UnatesInvariant, PTL

\* checkUnates loses no model: the literals found may be fixed all at once, for
\* every formula and whatever checks the solver gives up.
THEOREM UnatesMayBeFixed == UnatesSpec => []UnatesPreserveTruth
<1>1. UnatesInv => UnatesPreserveTruth
  BY DEF UnatesInv, UnatesPreserveTruth
<1> QED BY <1>1, UnatesInvariant, PTL

\* Without a limit findUnates stops only where no variable it was given could
\* still be fixed, also with the literals found after it was checked first.
THEOREM SearchComplete == UnatesSpec => []NothingUnateLeft
<1>1. UnatesInv => NothingUnateLeft
  <2> SUFFICES ASSUME UnatesInv, unatePhase = "done", ~use_conflict_limit,
                      NEW k \in Positions, NEW b \in BOOLEAN,
                      existential_variables[k] \in variables_to_consider,
                      NoneLost(existential_variables[k], b,
                               {switchOf(l) : l \in Positions \ {k}} \cup FoundLiterals)
               PROVE  SettledLiteral(existential_variables[k])
    BY DEF NothingUnateLeft, SettledLiteral
  <2>1. PassInv /\ FoundInv
    BY DEF UnatesInv
  <2>2. k \notin Remaining
    BY <2>1 DEF PassInv, switchesBut
  <2> QED BY <2>1, <2>2 DEF FoundInv
<1> QED BY <1>1, UnatesInvariant, PTL

--------------------------------------------------------------------------------
(***************************************************************************)
(* Satisfiability.  Unit clauses and then literals with both values are    *)
(* set, each of which leaves a set of clauses over fewer variables that    *)
(* has an assignment if there is one with these literals.                  *)
(***************************************************************************)
\* s satisfies the clauses; some assignment of the variables V does.
Satisfies(cs, s) == \A C \in cs : \E l \in C : holds(l, s)
CanSatisfy(cs, V) == \E s \in [V -> BOOLEAN] : Satisfies(cs, s)

LEMMA LiteralSigns ==
    ASSUME NEW l \in Int \ {0}, NEW V, NEW s \in [V -> BOOLEAN], var(l) \in V
    PROVE  /\ -l \in Int \ {0} /\ var(-l) = var(l) /\ -l # l /\ -(-l) = l
           /\ holds(-l, s) <=> ~holds(l, s)
           /\ \A k \in Int \ {0} : var(k) = var(l) => k = l \/ k = -l
<1>1. -l \in Int \ {0} /\ var(-l) = var(l) /\ -l # l /\ -(-l) = l /\ (-l > 0) = ~(l > 0)
  BY DEF var
<1>2. \A k \in Int \ {0} : var(k) = var(l) => k = l \/ k = -l
  BY DEF var
<1>3. s[var(l)] \in BOOLEAN
  OBVIOUS
<1>4. holds(-l, s) <=> ~holds(l, s)
  BY <1>1, <1>3 DEF holds
<1> QED BY <1>1, <1>2, <1>4

\* Setting literals leaves a set of clauses over other variables.
LEMMA ReducedFacts ==
    ASSUME NEW cs, UNION cs \subseteq Int \ {0}, NEW L \in SUBSET (Int \ {0})
    PROVE  /\ UNION reduced(cs, L) \subseteq (UNION cs) \ (L \cup negateEach(L))
           /\ reduced(cs, L) \in SUBSET SUBSET UNION cs
BY DEF reduced, negateEach

LEMMA ReducedSatisfiable ==
    ASSUME NEW cs, UNION cs \subseteq Int \ {0}, NEW L \in SUBSET (Int \ {0}),
           L \cap negateEach(L) = {}, NEW V, \A l \in L \cup UNION cs : var(l) \in V
    PROVE  CanSatisfy(reduced(cs, L), V)
              <=> \E s \in [V -> BOOLEAN] : Satisfies(cs, s) /\ \A l \in L : holds(l, s)
<1>1. ASSUME NEW s \in [V -> BOOLEAN], Satisfies(cs, s), \A l \in L : holds(l, s)
      PROVE  Satisfies(reduced(cs, L), s)
  <2> SUFFICES ASSUME NEW C \in cs, C \cap L = {} PROVE \E l \in C \ negateEach(L) : holds(l, s)
    BY DEF Satisfies, reduced
  <2>1. PICK l \in C : holds(l, s)
    BY <1>1 DEF Satisfies
  <2>2. ASSUME NEW k \in L, l = -k PROVE FALSE
    <3>1. k \in Int \ {0} /\ var(k) \in V /\ holds(k, s)
      BY <1>1
    <3> QED BY <2>1, <2>2, <3>1, LiteralSigns
  <2> QED BY <2>1, <2>2 DEF negateEach
<1>2. ASSUME NEW t \in [V -> BOOLEAN], Satisfies(reduced(cs, L), t)
      PROVE  \E s \in [V -> BOOLEAN] : Satisfies(cs, s) /\ \A l \in L : holds(l, s)
  <2> DEFINE s == [v \in V |-> IF v \in L THEN TRUE ELSE IF -v \in L THEN FALSE ELSE t[v]]
  <2>1. s \in [V -> BOOLEAN]
    OBVIOUS
  <2>2. ASSUME NEW l \in L PROVE holds(l, s)
    <3>1. l \in Int \ {0} /\ var(l) \in V
      OBVIOUS
    <3>2. CASE l > 0
      <4>1. var(l) = l
        BY <3>1, <3>2 DEF var
      <4> QED BY <3>1, <3>2, <4>1 DEF holds
    <3>3. CASE l < 0
      <4>1. var(l) = -l /\ -(-l) = l /\ ~(l > 0)
        BY <3>1, <3>3 DEF var
      <4>2. -l \notin L
        BY DEF negateEach
      <4>3. -l \in V /\ s[-l] = FALSE
        BY <3>1, <4>1, <4>2
      <4> HIDE DEF s
      <4>4. (l > 0) = FALSE
        BY <4>1
      <4>5. s[var(l)] = (l > 0)
        BY <4>1, <4>3, <4>4, Zenon
      <4> QED BY <4>5, Zenon DEF holds
    <3> QED BY <3>1, <3>2, <3>3
  <2>3. ASSUME NEW k \in UNION cs, k \notin L, -k \notin L PROVE holds(k, s) <=> holds(k, t)
    <3>1. k \in Int \ {0} /\ var(k) \in V
      OBVIOUS
    <3>2. var(k) \notin L /\ -var(k) \notin L
      BY <2>3, <3>1 DEF var
    <3> QED BY <3>1, <3>2 DEF holds
  <2>4. ASSUME NEW C \in cs PROVE \E l \in C : holds(l, s)
    <3>1. CASE C \cap L # {}
      BY <2>2, <3>1
    <3>2. CASE C \cap L = {}
      <4>1. PICK l \in C \ negateEach(L) : holds(l, t)
        BY <1>2, <3>2 DEF Satisfies, reduced
      <4>2. l \in Int \ {0} /\ l \in UNION cs /\ l \notin L
        BY <3>2, <4>1
      <4>3. -l \notin L
        <5>1. -(-l) = l
          BY <4>2
        <5> QED BY <4>1, <5>1 DEF negateEach
      <4> QED BY <2>3, <4>1, <4>2, <4>3
    <3> QED BY <3>1, <3>2
  <2> HIDE DEF s
  <2> QED BY <2>1, <2>2, <2>4 DEF Satisfies
<1> QED BY <1>1, <1>2 DEF CanSatisfy

\* The search decides whether there is an assignment.
LEMMA SatDecides ==
    ASSUME NEW cs, IsFiniteSet(UNION cs), UNION cs \subseteq Int \ {0},
           NEW V, \A l \in UNION cs : var(l) \in V
    PROVE  Sat(cs) <=> CanSatisfy(cs, V)
<1> DEFINE P == SUBSET SUBSET UNION cs
           F == [rest \in P |-> CanSatisfy(rest, V)]
           units(rest) == {l \in UNION rest : {l} \in rest}
           branch(rest) == CHOOSE l \in UNION rest : TRUE
           turn(f, rest) ==
               \/ rest = {}
               \/ /\ {} \notin rest
                  /\ IF units(rest) # {}
                     THEN units(rest) \cap negateEach(units(rest)) = {} /\ f[reduced(rest, units(rest))]
                     ELSE f[reduced(rest, {branch(rest)})] \/ f[reduced(rest, {-branch(rest)})]
           decide == CHOOSE f : f = [rest \in P |-> turn(f, rest)]
           measure == [rest \in P |-> Cardinality(UNION rest)]
<1>1. ASSUME NEW rest \in P PROVE UNION rest \subseteq UNION cs /\ IsFiniteSet(UNION rest)
  <2>1. UNION rest \subseteq UNION cs
    OBVIOUS
  <2> QED BY <2>1, FS_Subset
<1>2. ASSUME NEW rest \in P, NEW L \in SUBSET (Int \ {0}), (L \cup negateEach(L)) \cap UNION rest # {}
      PROVE  reduced(rest, L) \in P /\ measure[reduced(rest, L)] < measure[rest]
  <2>1. UNION rest \subseteq Int \ {0}
    BY <1>1
  <2>2. /\ UNION reduced(rest, L) \subseteq (UNION rest) \ (L \cup negateEach(L))
        /\ reduced(rest, L) \in SUBSET SUBSET UNION rest
    BY <2>1, ReducedFacts
  <2>3. reduced(rest, L) \in P
    BY <1>1, <2>2
  <2>4. UNION reduced(rest, L) # UNION rest /\ UNION reduced(rest, L) \subseteq UNION rest
    BY <1>2, <2>2
  <2>5. Cardinality(UNION reduced(rest, L)) < Cardinality(UNION rest)
    <3>1. /\ Cardinality(UNION reduced(rest, L)) <= Cardinality(UNION rest)
          /\ Cardinality(UNION reduced(rest, L)) # Cardinality(UNION rest)
      BY <1>1, <2>4, FS_Subset
    <3>2. Cardinality(UNION reduced(rest, L)) \in Nat /\ Cardinality(UNION rest) \in Nat
      BY <1>1, <2>3, FS_CardinalityType
    <3> QED BY <3>1, <3>2
  <2> QED BY <2>3, <2>5
<1>3. ASSUME NEW rest \in P, rest # {}, {} \notin rest
      PROVE  branch(rest) \in UNION rest
  <2>1. PICK C \in rest : C # {}
    BY <1>3
  <2>2. \E l : l \in UNION rest
    BY <2>1
  <2> QED BY <2>2
<1>4. ASSUME NEW rest \in P PROVE F[rest] <=> turn(F, rest)
  <2>1. UNION rest \subseteq Int \ {0} /\ \A l \in UNION rest : var(l) \in V
    BY <1>1
  <2>2. F[rest] <=> CanSatisfy(rest, V)
    OBVIOUS
  <2>3. CASE rest = {}
    <3>1. [v \in V |-> TRUE] \in [V -> BOOLEAN] /\ Satisfies(rest, [v \in V |-> TRUE])
      BY <2>3 DEF Satisfies
    <3>2. CanSatisfy(rest, V)
      BY <3>1 DEF CanSatisfy
    <3> QED BY <2>2, <2>3, <3>2
  <2>4. CASE {} \in rest
    <3>1. ~CanSatisfy(rest, V)
      BY <2>4 DEF CanSatisfy, Satisfies
    <3>2. rest # {}
      BY <2>4
    <3> HIDE DEF F
    <3> QED BY <2>2, <2>4, <3>1, <3>2
  <2>5. CASE rest # {} /\ {} \notin rest /\ units(rest) # {}
    <3> DEFINE L == units(rest)
    <3>1. L \in SUBSET (Int \ {0}) /\ L \subseteq UNION rest
      BY <2>1
    <3>2. reduced(rest, L) \in P
      <4>1. L \cap UNION rest # {}
        BY <2>5, <3>1
      <4> HIDE DEF L, F, P, turn, decide, measure, units, branch
      <4> QED BY <1>2, <3>1, <4>1
    <3>3. ASSUME NEW s \in [V -> BOOLEAN], Satisfies(rest, s) PROVE \A l \in L : holds(l, s)
      BY <3>3 DEF Satisfies
    <3>4. CASE L \cap negateEach(L) # {}
      <4>1. ~CanSatisfy(rest, V)
        <5> SUFFICES ASSUME NEW s \in [V -> BOOLEAN], Satisfies(rest, s) PROVE FALSE
          BY DEF CanSatisfy
        <5>1. PICK k \in L : -k \in L
          BY <3>4 DEF negateEach
        <5>2. holds(k, s) /\ holds(-k, s)
          BY <3>3, <5>1
        <5>3. k \in Int \ {0} /\ var(k) \in V
          BY <2>1, <3>1
        <5> QED BY <5>2, <5>3, LiteralSigns
      <4> HIDE DEF F, L
      <4>2. turn(F, rest) <=> FALSE
        BY <2>5, <3>4 DEF L
      <4> QED BY <2>2, <4>1, <4>2
    <3>5. CASE L \cap negateEach(L) = {}
      <4> HIDE DEF L
      <4>1. CanSatisfy(reduced(rest, L), V)
               <=> \E s \in [V -> BOOLEAN] : Satisfies(rest, s) /\ \A l \in L : holds(l, s)
        <5>1. \A l \in L \cup UNION rest : var(l) \in V
          BY <2>1, <3>1
        <5> HIDE DEF F, P, turn, decide, measure, units, branch
        <5> QED BY <2>1, <3>1, <3>5, <5>1, ReducedSatisfiable
      <4>2. CanSatisfy(reduced(rest, L), V) <=> CanSatisfy(rest, V)
        BY <3>3, <4>1 DEF CanSatisfy
      <4>3. F[reduced(rest, L)] <=> CanSatisfy(reduced(rest, L), V)
        BY <3>2
      <4> HIDE DEF F
      <4>4. turn(F, rest) <=> F[reduced(rest, L)]
        BY <2>5, <3>5 DEF L
      <4> QED BY <2>2, <4>2, <4>3, <4>4
    <3> QED BY <3>4, <3>5
  <2>6. CASE rest # {} /\ {} \notin rest /\ units(rest) = {}
    <3> DEFINE l == branch(rest)
    <3>1. l \in UNION rest
      BY <1>3, <2>6
    <3> HIDE DEF l
    <3>2. l \in Int \ {0} /\ var(l) \in V /\ -l \in Int \ {0} /\ var(-l) = var(l) /\ -l # l /\ -(-l) = l
      BY <2>1, <3>1 DEF var
    <3>3. negateEach({l}) = {-l} /\ negateEach({-l}) = {l}
      BY <3>2 DEF negateEach
    <3>4. ASSUME NEW k \in {l, -l}
          PROVE  /\ reduced(rest, {k}) \in P
                 /\ CanSatisfy(reduced(rest, {k}), V)
                       <=> \E s \in [V -> BOOLEAN] : Satisfies(rest, s) /\ holds(k, s)
      <4> DEFINE L == {k}
      <4>1. /\ L \in SUBSET (Int \ {0}) /\ L \cap negateEach(L) = {}
            /\ l \in L \cup negateEach(L) /\ \A m \in L : var(m) \in V
        BY <3>2, <3>3
      <4>2. \A m \in L \cup UNION rest : var(m) \in V
        BY <2>1, <4>1
      <4>3. \A s : (\A m \in L : holds(m, s)) <=> holds(k, s)
        OBVIOUS
      <4> HIDE DEF L, F, P, turn, decide, measure, units, branch
      <4>4. reduced(rest, L) \in P
        BY <1>2, <3>1, <4>1
      <4>5. CanSatisfy(reduced(rest, L), V)
               <=> \E s \in [V -> BOOLEAN] : Satisfies(rest, s) /\ \A m \in L : holds(m, s)
        BY <2>1, <4>1, <4>2, ReducedSatisfiable
      <4> QED BY <4>3, <4>4, <4>5 DEF L
    <3>5. -l \in {l, -l} /\ l \in {l, -l}
      OBVIOUS
    <3>7. \A s \in [V -> BOOLEAN] : holds(l, s) \/ holds(-l, s)
      BY <3>2, LiteralSigns
    <3>8. CanSatisfy(rest, V) <=> CanSatisfy(reduced(rest, {l}), V) \/ CanSatisfy(reduced(rest, {-l}), V)
      <4>1. CanSatisfy(reduced(rest, {l}), V)
               <=> \E s \in [V -> BOOLEAN] : Satisfies(rest, s) /\ holds(l, s)
        BY <3>4, <3>5
      <4>2. CanSatisfy(reduced(rest, {-l}), V)
               <=> \E s \in [V -> BOOLEAN] : Satisfies(rest, s) /\ holds(-l, s)
        BY <3>4, <3>5
      <4>3. CanSatisfy(rest, V) <=> \E s \in [V -> BOOLEAN] : Satisfies(rest, s)
        BY DEF CanSatisfy
      <4> QED BY <3>7, <4>1, <4>2, <4>3
    <3>9. /\ F[reduced(rest, {l})] <=> CanSatisfy(reduced(rest, {l}), V)
          /\ F[reduced(rest, {-l})] <=> CanSatisfy(reduced(rest, {-l}), V)
      BY <3>4, <3>5
    <3> HIDE DEF F
    <3>10. turn(F, rest) <=> F[reduced(rest, {l})] \/ F[reduced(rest, {-l})]
      BY <2>6 DEF l
    <3> QED BY <2>2, <3>8, <3>9, <3>10
  <2> HIDE DEF F, turn, units
  <2> QED BY <2>3, <2>4, <2>5, <2>6
<1>5. F = [rest \in P |-> turn(F, rest)]
  <2>2. F = [rest \in P |-> F[rest]]
    OBVIOUS
  <2>3. ASSUME NEW rest \in P PROVE F[rest] = turn(F, rest)
    <3>1. F[rest] \in BOOLEAN
      BY DEF CanSatisfy
    <3> HIDE DEF F, P
    <3>2. turn(F, rest) \in BOOLEAN
      <4> HIDE DEF units, branch
      <4> QED BY Zenon
    <3> HIDE DEF turn
    <3> QED BY <1>4, <3>1, <3>2
  <2> HIDE DEF F, turn, P
  <2> QED BY <2>2, <2>3
<1>6. decide = [rest \in P |-> turn(decide, rest)]
  <2> HIDE DEF F, turn, P
  <2> QED BY <1>5
<1>7. measure \in [P -> Nat]
  BY <1>1, FS_CardinalityType
<1>8. ASSUME NEW rest \in P, \A q \in P : measure[q] < measure[rest] => decide[q] = F[q]
      PROVE  decide[rest] = F[rest]
  <2>1. decide[rest] = turn(decide, rest)
    <3> HIDE DEF decide, turn, P
    <3> QED BY <1>6
  <2>2. F[rest] = turn(F, rest)
    <3> HIDE DEF F, turn, P
    <3> QED BY <1>5
  <2>3. UNION rest \subseteq Int \ {0}
    BY <1>1
  <2> HIDE DEF decide, F, P, measure
  <2>4. CASE rest = {} \/ {} \in rest
    <3>1. turn(decide, rest) <=> turn(F, rest)
      BY <2>4
    <3>2. turn(decide, rest) \in BOOLEAN /\ turn(F, rest) \in BOOLEAN
      <4> HIDE DEF units, branch
      <4> QED BY Zenon
    <3> HIDE DEF turn
    <3> QED BY <2>1, <2>2, <3>1, <3>2
  <2>5. CASE rest # {} /\ {} \notin rest /\ units(rest) # {}
    <3> DEFINE L == units(rest)
    <3>1. L \in SUBSET (Int \ {0}) /\ (L \cup negateEach(L)) \cap UNION rest # {}
      BY <2>3, <2>5
    <3> HIDE DEF L
    <3>2. decide[reduced(rest, L)] = F[reduced(rest, L)]
      BY <1>2, <1>8, <3>1
    <3>3. turn(decide, rest) = turn(F, rest)
      BY <2>5, <3>2 DEF L
    <3> HIDE DEF turn
    <3> QED BY <2>1, <2>2, <3>3
  <2>6. CASE rest # {} /\ {} \notin rest /\ units(rest) = {}
    <3> DEFINE l == branch(rest)
    <3>1. l \in UNION rest
      BY <1>3, <2>6
    <3> HIDE DEF l
    <3>2. l \in Int \ {0} /\ -l \in Int \ {0} /\ -(-l) = l
      BY <2>3, <3>1
    <3>3. l \in negateEach({-l})
      BY <3>2 DEF negateEach
    <3>4. decide[reduced(rest, {l})] = F[reduced(rest, {l})]
      BY <1>2, <1>8, <3>1, <3>2
    <3>5. decide[reduced(rest, {-l})] = F[reduced(rest, {-l})]
      BY <1>2, <1>8, <3>1, <3>2, <3>3
    <3>6. turn(decide, rest) = turn(F, rest)
      BY <2>6, <3>4, <3>5 DEF l
    <3> HIDE DEF turn
    <3> QED BY <2>1, <2>2, <3>6
  <2> HIDE DEF units
  <2> QED BY <2>4, <2>5, <2>6
<1>9. \A rest \in P : decide[rest] = F[rest]
  <2> HIDE DEF decide, F, P, measure
  <2> DEFINE T == {rest \in P : decide[rest] = F[rest]}
  <2>1. \A r \in P : (\A q \in P : measure[q] < measure[r] => q \in T) => r \in T
    BY <1>8
  <2>2. \A r \in P : r \in T
    <3> HIDE DEF T, turn
    <3> QED BY <1>7, <2>1, MeasureInduction
  <2> QED BY <2>2
<1>10. Sat(cs) = decide[cs]
  BY DEF Sat
<1>11. cs \in P /\ F[cs] = CanSatisfy(cs, V)
  OBVIOUS
<1> HIDE DEF decide, F, P
<1> QED BY <1>9, <1>10, <1>11

--------------------------------------------------------------------------------
(***************************************************************************)
(* Numbers.                                                                *)
(***************************************************************************)
LEMMA HighestFacts ==
    ASSUME NEW S \in SUBSET Nat, IsFiniteSet(S), S # {}
    PROVE  Highest(S) \in S /\ \A m \in S : m <= Highest(S)
<1>1. PICK g \in [1..Cardinality(S) -> S] : \A i, j \in 1..Cardinality(S) : i < j => g[i] < g[j]
  BY AscendingListing
<1>2. ToSet(g) = S /\ Cardinality(S) \in Nat
  BY <1>1, ListingFacts, FS_CardinalityType
<1> DEFINE n == Cardinality(S)
<1>3. DOMAIN g = 1..n /\ \A x \in S : \E i \in 1..n : x = g[i]
  BY <1>1, <1>2 DEF ToSet
<1>4. n \in 1..n
  <2>1. n # 0
    BY FS_EmptySet
  <2> QED BY <1>2, <2>1
<1>5. g[n] \in S /\ \A m \in S : m <= g[n]
  <2>1. ASSUME NEW m \in S PROVE m <= g[n]
    <3>1. PICK i \in 1..n : m = g[i]
      BY <1>3
    <3>2. i = n \/ i < n
      BY <1>2
    <3>3. g[i] \in Nat /\ g[n] \in Nat
      BY <1>1, <1>4
    <3> QED BY <1>1, <1>4, <3>1, <3>2, <3>3
  <2> QED BY <1>1, <1>4, <2>1
<1>6. \E h \in S : \A m \in S : m <= h
  BY <1>5
<1> QED BY <1>6 DEF Highest

LEMMA PlaceFacts ==
    ASSUME NEW S \in SUBSET Nat, IsFiniteSet(S)
    PROVE  /\ Cardinality(S) \in Nat
           /\ \A v \in S : place(v, S) \in 1..Cardinality(S)
           /\ \A v, w \in S : v # w => place(v, S) # place(w, S)
<1>1. Cardinality(S) \in Nat
  BY FS_CardinalityType
<1>2. ASSUME NEW v \in S
      PROVE  place(v, S) \in 1..Cardinality(S) /\ IsFiniteSet({w \in S : w <= v})
  <2> DEFINE below == {w \in S : w <= v}
  <2>1. below \in SUBSET S /\ v \in below
    OBVIOUS
  <2> HIDE DEF below
  <2>2. IsFiniteSet(below) /\ Cardinality(below) <= Cardinality(S) /\ Cardinality(below) \in Nat
    BY <2>1, FS_Subset, FS_CardinalityType
  <2>3. Cardinality(below) # 0
    BY <2>1, <2>2, FS_EmptySet
  <2> QED BY <1>1, <2>2, <2>3 DEF place, below
<1>3. ASSUME NEW v \in S, NEW w \in S, v < w PROVE place(v, S) # place(w, S)
  <2> DEFINE A == {x \in S : x <= v}
             B == {x \in S : x <= w}
  <2>1. A \in SUBSET B /\ w \in B /\ w \notin A
    <3>1. v \in Nat /\ w \in Nat /\ ~(w <= v) /\ \A x \in Nat : x <= v => x <= w
      BY <1>3
    <3>2. w <= w
      BY <3>1
    <3>3. \A x \in A : x \in B
      BY <3>1
    <3> QED BY <3>1, <3>2, <3>3
  <2>2. IsFiniteSet(B)
    BY <1>2
  <2> HIDE DEF A, B
  <2>3. Cardinality(A) # Cardinality(B)
    BY <2>1, <2>2, FS_Subset
  <2> QED BY <2>3 DEF place, A, B
<1>4. \A v, w \in S : v # w => v < w \/ w < v
  OBVIOUS
<1> QED BY <1>1, <1>2, <1>3, <1>4

\* The numbers the constructor gives away end here.
Base == firstNumber + 2 * Count + 2 * Cardinality(Existentials)

LEMMA VariablesFinite ==
    /\ Variables \in SUBSET Nat /\ IsFiniteSet(Variables) /\ 0 \notin Variables
    /\ Existentials \in SUBSET Nat /\ IsFiniteSet(Existentials)
<1>1. IsFiniteSet(Universals) /\ IsFiniteSet(Existentials)
  BY PrefixAssumption
<1>2. IsFiniteSet(Universals \cup Existentials)
  BY <1>1, FS_Union
<1> QED BY <1>1, <1>2, DefinabilityAssumption DEF Variables

LEMMA NumberFacts ==
    ASSUME Existentials # {}
    PROVE  /\ firstNumber \in Nat /\ Count \in Nat /\ Cardinality(Existentials) \in Nat /\ Base \in Nat
           /\ \A v \in Variables :
                 /\ v \in 1..firstNumber
                 /\ renamed(v) \in (firstNumber + 1)..(firstNumber + Count)
                 /\ equality_selector(v) \in (firstNumber + Count + 1)..(firstNumber + 2 * Count)
           /\ \A e \in Existentials :
                 /\ on_selector(e) \in (firstNumber + 2 * Count + 1)..Base
                 /\ off_selector(e) \in (firstNumber + 2 * Count + 1)..Base
           /\ \A v, w \in Variables : v # w =>
                 renamed(v) # renamed(w) /\ equality_selector(v) # equality_selector(w)
           /\ \A d, e \in Existentials :
                 /\ on_selector(d) # off_selector(e)
                 /\ d # e => on_selector(d) # on_selector(e) /\ off_selector(d) # off_selector(e)
<1> DEFINE f == firstNumber
           n == Count
           m == Cardinality(Existentials)
<1>1. Variables \in SUBSET Nat /\ IsFiniteSet(Variables) /\ Variables # {}
  BY VariablesFinite DEF Variables
<1>2. f \in Variables /\ \A v \in Variables : v <= f
  BY <1>1, HighestFacts DEF firstNumber
<1>3. /\ n \in Nat
      /\ \A v \in Variables : place(v, Variables) \in 1..n
      /\ \A v, w \in Variables : v # w => place(v, Variables) # place(w, Variables)
  BY <1>1, PlaceFacts DEF Count
<1>4. /\ m \in Nat
      /\ \A e \in Existentials : place(e, Existentials) \in 1..m
      /\ \A d, e \in Existentials : d # e => place(d, Existentials) # place(e, Existentials)
  BY VariablesFinite, PlaceFacts
<1>5. f \in Nat /\ \A v \in Variables : v \in 1..f
  BY <1>1, <1>2, VariablesFinite
<1>6. Base = f + 2 * n + 2 * m
  BY DEF Base
<1> HIDE DEF f, n, m
<1>7. ASSUME NEW v \in Variables
      PROVE  /\ renamed(v) = f + place(v, Variables) /\ equality_selector(v) = f + n + place(v, Variables)
             /\ renamed(v) \in (f + 1)..(f + n) /\ equality_selector(v) \in (f + n + 1)..(f + 2 * n)
  <2>1. renamed(v) = f + place(v, Variables) /\ equality_selector(v) = f + n + place(v, Variables)
    BY DEF renamed, equality_selector, f, n
  <2>2. place(v, Variables) \in 1..n
    BY <1>3
  <2> QED BY <1>3, <1>5, <2>1, <2>2
<1>8. ASSUME NEW e \in Existentials
      PROVE  /\ on_selector(e) = f + 2 * n + 2 * place(e, Existentials) - 1
             /\ off_selector(e) = f + 2 * n + 2 * place(e, Existentials)
             /\ on_selector(e) \in (f + 2 * n + 1)..Base /\ off_selector(e) \in (f + 2 * n + 1)..Base
  <2> DEFINE p == place(e, Existentials)
  <2>1. p \in 1..m
    BY <1>4
  <2>2. on_selector(e) = f + 2 * n + 2 * p - 1 /\ off_selector(e) = f + 2 * n + 2 * p - 1 + 1
    BY DEF on_selector, off_selector, f, n
  <2> HIDE DEF p
  <2>3. /\ off_selector(e) = f + 2 * n + 2 * p
        /\ on_selector(e) \in (f + 2 * n + 1)..Base /\ off_selector(e) \in (f + 2 * n + 1)..Base
    BY <1>3, <1>4, <1>5, <1>6, <2>1, <2>2
  <2> QED BY <2>2, <2>3 DEF p
<1>9. ASSUME NEW v \in Variables, NEW w \in Variables, v # w
      PROVE  renamed(v) # renamed(w) /\ equality_selector(v) # equality_selector(w)
  <2>1. place(v, Variables) # place(w, Variables) /\ place(v, Variables) \in Nat /\ place(w, Variables) \in Nat
    BY <1>3, <1>9
  <2> QED BY <1>3, <1>5, <1>7, <2>1
<1>10. ASSUME NEW d \in Existentials, NEW e \in Existentials
       PROVE  /\ on_selector(d) # off_selector(e)
              /\ d # e => on_selector(d) # on_selector(e) /\ off_selector(d) # off_selector(e)
  <2> DEFINE p == place(d, Existentials)
             q == place(e, Existentials)
  <2>1. p \in Nat /\ q \in Nat /\ (d # e => p # q)
    BY <1>4
  <2>2. /\ on_selector(d) = f + 2 * n + 2 * p - 1 /\ off_selector(d) = f + 2 * n + 2 * p
        /\ on_selector(e) = f + 2 * n + 2 * q - 1 /\ off_selector(e) = f + 2 * n + 2 * q
    BY <1>8
  <2> HIDE DEF p, q
  <2>3. on_selector(d) # off_selector(e)
    BY <1>3, <1>5, <2>1, <2>2
  <2>4. p # q => on_selector(d) # on_selector(e) /\ off_selector(d) # off_selector(e)
    BY <1>3, <1>5, <2>1, <2>2
  <2> QED BY <2>1, <2>3, <2>4
<1>11. Base \in Nat
  BY <1>3, <1>4, <1>5, <1>6
<1> QED BY <1>3, <1>4, <1>5, <1>7, <1>8, <1>9, <1>10, <1>11 DEF f, n, m

--------------------------------------------------------------------------------
(***************************************************************************)
(* The two parts.                                                          *)
(***************************************************************************)
\* Every variable of the clauses has a copy; the variables, the copies and the
\* selectors are different numbers.
RenamingInv ==
    /\ last_number \in Nat /\ Base <= last_number
    /\ Variables \subseteq DOMAIN renaming
    /\ \A v \in Variables : renaming[v] = renamed(v)
    /\ \A v \in DOMAIN renaming \ Variables :
          v \in (Base + 1)..last_number /\ renaming[v] \in (Base + 1)..last_number
    /\ \A v, w \in DOMAIN renaming : v # w => renaming[v] # renaming[w]
    /\ \A v, w \in DOMAIN renaming : renaming[v] # w

IsRenamable(C) == \A l \in C : l \in Int \ {0} /\ var(l) \in DOMAIN renaming

CopiedClauses == {renameClause(C, renaming) : C \in backbone}
EqualityClauses ==
    UNION {clausalEncodingEquality(v, renaming[v], equality_selector(v)) : v \in Variables}
OnClauses == {{-on_selector(e), e} : e \in Existentials}
OffClauses == {{-off_selector(e), -renaming[e]} : e \in Existentials}

PartsInv ==
    /\ \A C \in backbone : IsRenamable(C)
    /\ first_part = backbone \cup OnClauses
    /\ second_part = CopiedClauses \cup EqualityClauses \cup OffClauses

Numbers == 1..last_number

LEMMA RenamedNumbers ==
    ASSUME RenamingInv, Existentials # {}
    PROVE  /\ Numbers \subseteq Nat \ {0} /\ IsFiniteSet(Numbers)
           /\ \A v \in DOMAIN renaming : v \in Numbers /\ renaming[v] \in Numbers
           /\ \A v \in Variables : equality_selector(v) \in Numbers
           /\ \A e \in Existentials : on_selector(e) \in Numbers /\ off_selector(e) \in Numbers
<1>1. /\ last_number \in Nat /\ Base \in Nat /\ Base <= last_number
      /\ firstNumber \in Nat /\ Count \in Nat /\ Cardinality(Existentials) \in Nat
      /\ Base = firstNumber + 2 * Count + 2 * Cardinality(Existentials)
  BY NumberFacts DEF RenamingInv, Base
<1>2. IsFiniteSet(Numbers) /\ Numbers \subseteq Nat \ {0}
  BY <1>1, FS_Interval DEF Numbers
<1>3. ASSUME NEW v \in Variables
      PROVE  v \in Numbers /\ renamed(v) \in Numbers /\ equality_selector(v) \in Numbers
  <2>1. /\ v \in 1..firstNumber
        /\ renamed(v) \in (firstNumber + 1)..(firstNumber + Count)
        /\ equality_selector(v) \in (firstNumber + Count + 1)..(firstNumber + 2 * Count)
    BY NumberFacts
  <2> QED BY <1>1, <2>1 DEF Numbers
<1>4. ASSUME NEW e \in Existentials PROVE on_selector(e) \in Numbers /\ off_selector(e) \in Numbers
  <2>1. /\ on_selector(e) \in (firstNumber + 2 * Count + 1)..Base
        /\ off_selector(e) \in (firstNumber + 2 * Count + 1)..Base
    BY NumberFacts
  <2> QED BY <1>1, <2>1 DEF Numbers
<1>5. ASSUME NEW v \in DOMAIN renaming PROVE v \in Numbers /\ renaming[v] \in Numbers
  <2>1. CASE v \in Variables
    BY <1>3, <2>1 DEF RenamingInv
  <2>2. CASE v \notin Variables
    <3>1. v \in (Base + 1)..last_number /\ renaming[v] \in (Base + 1)..last_number
      BY <2>2 DEF RenamingInv
    <3> QED BY <1>1, <3>1 DEF Numbers
  <2> QED BY <2>1, <2>2
<1> QED BY <1>2, <1>3, <1>4, <1>5

\* The selectors are none of the variables and copies.
LEMMA SelectorsApart ==
    ASSUME RenamingInv, Existentials # {}, NEW v \in DOMAIN renaming
    PROVE  /\ \A w \in Variables : equality_selector(w) # v /\ equality_selector(w) # renaming[v]
           /\ \A e \in Existentials :
                 /\ on_selector(e) # v /\ on_selector(e) # renaming[v]
                 /\ off_selector(e) # v /\ off_selector(e) # renaming[v]
           /\ \A w \in Variables, e \in Existentials :
                 equality_selector(w) # on_selector(e) /\ equality_selector(w) # off_selector(e)
<1> DEFINE f == firstNumber
           n == Count
           m == Cardinality(Existentials)
<1>1. /\ f \in Nat /\ n \in Nat /\ m \in Nat /\ Base = f + 2 * n + 2 * m /\ last_number \in Nat
  BY NumberFacts DEF RenamingInv, Base
<1> HIDE DEF f, n, m
<1>2. \A w \in Variables : equality_selector(w) \in (f + n + 1)..(f + 2 * n)
  BY NumberFacts DEF f, n
<1>3. \A e \in Existentials : on_selector(e) \in (f + 2 * n + 1)..Base /\ off_selector(e) \in (f + 2 * n + 1)..Base
  BY NumberFacts DEF f, n
<1>4. \/ v \in 1..f /\ renaming[v] \in (f + 1)..(f + n)
      \/ v \in (Base + 1)..last_number /\ renaming[v] \in (Base + 1)..last_number
  <2>1. CASE v \in Variables
    <3>1. v \in 1..f /\ renamed(v) \in (f + 1)..(f + n)
      BY <2>1, NumberFacts DEF f, n
    <3> QED BY <2>1, <3>1 DEF RenamingInv
  <2>2. CASE v \notin Variables
    BY <2>2 DEF RenamingInv
  <2> QED BY <2>1, <2>2
<1>5. ASSUME NEW w \in Variables PROVE equality_selector(w) # v /\ equality_selector(w) # renaming[v]
  BY <1>1, <1>2, <1>4
<1>6. ASSUME NEW e \in Existentials
      PROVE  /\ on_selector(e) # v /\ on_selector(e) # renaming[v]
             /\ off_selector(e) # v /\ off_selector(e) # renaming[v]
  BY <1>1, <1>3, <1>4
<1>7. ASSUME NEW w \in Variables, NEW e \in Existentials
      PROVE  equality_selector(w) # on_selector(e) /\ equality_selector(w) # off_selector(e)
  BY <1>1, <1>2, <1>3
<1> QED BY <1>5, <1>6, <1>7

LEMMA SignFacts ==
    ASSUME NEW V, NEW s \in [V -> BOOLEAN], NEW n \in Nat \ {0}, n \in V
    PROVE  /\ n \in Int \ {0} /\ -n \in Int \ {0} /\ var(n) = n /\ var(-n) = n
           /\ holds(n, s) <=> s[n]
           /\ holds(-n, s) <=> ~s[n]
           /\ \A b \in BOOLEAN : /\ literal(n, b) \in Int \ {0} /\ var(literal(n, b)) = n
                                 /\ holds(literal(n, b), s) <=> s[n] = b
<1>1. n \in Int \ {0} /\ -n \in Int \ {0} /\ var(n) = n /\ var(-n) = n /\ (n > 0) = TRUE /\ (-n > 0) = FALSE
  BY DEF var
<1>2. s[n] \in BOOLEAN
  OBVIOUS
<1>3. holds(n, s) <=> s[n]
  BY <1>1, <1>2 DEF holds
<1>4. holds(-n, s) <=> ~s[n]
  BY <1>1, <1>2 DEF holds
<1>5. ASSUME NEW b \in BOOLEAN
      PROVE  /\ literal(n, b) \in Int \ {0} /\ var(literal(n, b)) = n
             /\ holds(literal(n, b), s) <=> s[n] = b
  BY <1>1, <1>2, <1>3, <1>4 DEF literal
<1> QED BY <1>1, <1>3, <1>4, <1>5

\* A renamed clause says of the copies what the clause says of the variables.
LEMMA RenamedHolds ==
    ASSUME RenamingInv, Existentials # {}, NEW C, IsRenamable(C), NEW a \in [Numbers -> BOOLEAN]
    PROVE  /\ \A k \in renameClause(C, renaming) : k \in Int \ {0} /\ var(k) \in Numbers
           /\ (\E k \in renameClause(C, renaming) : holds(k, a))
                 <=> \E l \in C : a[renaming[var(l)]] = (l > 0)
<1>1. ASSUME NEW l \in C
      PROVE  LET k == literal(renaming[var(l)], l > 0)
             IN  /\ k \in Int \ {0} /\ var(k) \in Numbers
                 /\ holds(k, a) <=> a[renaming[var(l)]] = (l > 0)
  <2> DEFINE n == renaming[var(l)]
  <2>1. n \in Numbers /\ n \in Nat \ {0}
    BY RenamedNumbers DEF IsRenamable
  <2> HIDE DEF n
  <2>2. \A b \in BOOLEAN : /\ literal(n, b) \in Int \ {0} /\ var(literal(n, b)) = n
                           /\ holds(literal(n, b), a) <=> a[n] = b
    BY <2>1, SignFacts
  <2>3. (l > 0) \in BOOLEAN
    BY DEF IsRenamable
  <2> DEFINE b == l > 0
  <2> HIDE DEF b
  <2>4. b \in BOOLEAN
    BY <2>3 DEF b
  <2>5. /\ literal(n, b) \in Int \ {0} /\ var(literal(n, b)) = n
        /\ holds(literal(n, b), a) <=> a[n] = b
    BY <2>2, <2>4
  <2> QED BY <2>1, <2>5 DEF b, n
<1>2. renameClause(C, renaming) = {literal(renaming[var(l)], l > 0) : l \in C}
  BY DEF renameClause
<1> QED BY <1>1, <1>2

Query(v, S) == {equality_selector(w) : w \in S} \cup {on_selector(v), off_selector(v)}
Queried(v, S) == under(first_part \cup second_part, Query(v, S))

\* What an assignment that satisfies both parts and a query is.
Separates(a, v, S) ==
    /\ \A C \in backbone : \E l \in C : holds(l, a)
    /\ \A C \in backbone : \E l \in C : a[renaming[var(l)]] = (l > 0)
    /\ \A w \in Variables : a[equality_selector(w)] => a[w] = a[renaming[w]]
    /\ \A e \in Existentials : (a[on_selector(e)] => a[e]) /\ (a[off_selector(e)] => ~a[renaming[e]])
    /\ \A w \in S : a[equality_selector(w)]
    /\ a[on_selector(v)] /\ a[off_selector(v)]

LEMMA EqualityHolds ==
    ASSUME NEW V, NEW a \in [V -> BOOLEAN],
           NEW l \in Nat \ {0}, NEW m \in Nat \ {0}, NEW s \in Nat \ {0}, {l, m, s} \subseteq V
    PROVE  /\ \A k \in UNION clausalEncodingEquality(l, m, s) : k \in Int \ {0} /\ var(k) \in V
           /\ (\A C \in clausalEncodingEquality(l, m, s) : \E k \in C : holds(k, a))
                 <=> (a[s] => a[l] = a[m])
<1>1. \A n \in {l, m, s} : /\ n \in Int \ {0} /\ -n \in Int \ {0} /\ var(n) = n /\ var(-n) = n
                           /\ (holds(n, a) <=> a[n]) /\ (holds(-n, a) <=> ~a[n])
  BY SignFacts
<1>2. a[l] \in BOOLEAN /\ a[m] \in BOOLEAN /\ a[s] \in BOOLEAN
  OBVIOUS
<1>3. (\A C \in clausalEncodingEquality(l, m, s) : \E k \in C : holds(k, a))
         <=> /\ holds(-s, a) \/ holds(-l, a) \/ holds(m, a)
             /\ holds(-s, a) \/ holds(l, a) \/ holds(-m, a)
  BY DEF clausalEncodingEquality
<1>4. UNION clausalEncodingEquality(l, m, s) = {-s, -l, m, l, -m}
  BY DEF clausalEncodingEquality
<1> QED BY <1>1, <1>2, <1>3, <1>4

LEMMA PartsMeaning ==
    ASSUME RenamingInv, PartsInv, NEW v \in Existentials, NEW S \in SUBSET Variables
    PROVE  /\ UNION Queried(v, S) \subseteq Int \ {0} /\ IsFiniteSet(UNION Queried(v, S))
           /\ \A l \in UNION Queried(v, S) : var(l) \in Numbers
           /\ \A a \in [Numbers -> BOOLEAN] : Satisfies(Queried(v, S), a) <=> Separates(a, v, S)
<1> DEFINE assumed == {{l} : l \in Query(v, S)}
<1>1. Queried(v, S) = backbone \cup OnClauses \cup CopiedClauses \cup EqualityClauses \cup OffClauses \cup assumed
  <2>1. first_part = backbone \cup OnClauses
    BY DEF PartsInv
  <2>2. second_part = CopiedClauses \cup EqualityClauses \cup OffClauses
    BY DEF PartsInv
  <2>3. Queried(v, S) = first_part \cup second_part \cup assumed
    BY DEF Queried, under
  <2> HIDE DEF assumed
  <2> QED BY <2>1, <2>2, <2>3
<1>2. /\ Numbers \subseteq Nat \ {0} /\ IsFiniteSet(Numbers)
      /\ \A w \in Variables : /\ w \in Numbers /\ renaming[w] \in Numbers
                              /\ equality_selector(w) \in Numbers
      /\ \A w \in DOMAIN renaming : w \in Numbers
      /\ \A e \in Existentials : on_selector(e) \in Numbers /\ off_selector(e) \in Numbers
  BY RenamedNumbers DEF RenamingInv
<1>3. Existentials \subseteq Variables
  BY DEF Variables
<1>4. ASSUME NEW a \in [Numbers -> BOOLEAN]
      PROVE  /\ \A n \in Numbers : /\ n \in Int \ {0} /\ -n \in Int \ {0} /\ var(n) = n /\ var(-n) = n
                                   /\ (holds(n, a) <=> a[n]) /\ (holds(-n, a) <=> ~a[n])
             /\ Satisfies(CopiedClauses, a) <=> \A C \in backbone : \E l \in C : a[renaming[var(l)]] = (l > 0)
             /\ Satisfies(EqualityClauses, a) <=> \A w \in Variables : a[equality_selector(w)] => a[w] = a[renaming[w]]
             /\ \A l \in UNION CopiedClauses : l \in Int \ {0} /\ var(l) \in Numbers
             /\ \A l \in UNION EqualityClauses : l \in Int \ {0} /\ var(l) \in Numbers
  <2>1. ASSUME NEW n \in Numbers
        PROVE  /\ n \in Int \ {0} /\ -n \in Int \ {0} /\ var(n) = n /\ var(-n) = n
               /\ (holds(n, a) <=> a[n]) /\ (holds(-n, a) <=> ~a[n])
    <3>1. n \in Nat \ {0}
      BY <1>2
    <3> QED BY <3>1, SignFacts
  <2>2. ASSUME NEW C \in backbone
        PROVE  /\ \A k \in renameClause(C, renaming) : k \in Int \ {0} /\ var(k) \in Numbers
               /\ (\E k \in renameClause(C, renaming) : holds(k, a))
                     <=> \E l \in C : a[renaming[var(l)]] = (l > 0)
    <3>1. IsRenamable(C) /\ Existentials # {}
      BY DEF PartsInv
    <3> QED BY <3>1, RenamedHolds
  <2>3. ASSUME NEW w \in Variables
        PROVE  LET cs == clausalEncodingEquality(w, renaming[w], equality_selector(w))
               IN  /\ \A k \in UNION cs : k \in Int \ {0} /\ var(k) \in Numbers
                   /\ (\A C \in cs : \E k \in C : holds(k, a))
                         <=> (a[equality_selector(w)] => a[w] = a[renaming[w]])
    <3> DEFINE m == renaming[w]
               s == equality_selector(w)
    <3>1. w \in Nat \ {0} /\ m \in Nat \ {0} /\ s \in Nat \ {0} /\ {w, m, s} \subseteq Numbers
      BY <1>2
    <3> HIDE DEF m, s
    <3>2. /\ \A k \in UNION clausalEncodingEquality(w, m, s) : k \in Int \ {0} /\ var(k) \in Numbers
          /\ (\A C \in clausalEncodingEquality(w, m, s) : \E k \in C : holds(k, a))
                <=> (a[s] => a[w] = a[m])
      BY <3>1, EqualityHolds
    <3> QED BY <3>2 DEF m, s
  <2>4. Satisfies(CopiedClauses, a) <=> \A C \in backbone : \E k \in renameClause(C, renaming) : holds(k, a)
    BY DEF Satisfies, CopiedClauses
  <2>5. Satisfies(EqualityClauses, a) <=> \A w \in Variables :
            \A C \in clausalEncodingEquality(w, renaming[w], equality_selector(w)) : \E k \in C : holds(k, a)
    BY DEF Satisfies, EqualityClauses
  <2>6. Satisfies(CopiedClauses, a) <=> \A C \in backbone : \E l \in C : a[renaming[var(l)]] = (l > 0)
    BY <2>2, <2>4
  <2>7. Satisfies(EqualityClauses, a) <=> \A w \in Variables : a[equality_selector(w)] => a[w] = a[renaming[w]]
    BY <2>3, <2>5
  <2>8. \A l \in UNION CopiedClauses : l \in Int \ {0} /\ var(l) \in Numbers
    BY <2>2 DEF CopiedClauses
  <2>9. \A l \in UNION EqualityClauses : l \in Int \ {0} /\ var(l) \in Numbers
    BY <2>3 DEF EqualityClauses
  <2> QED BY <2>1, <2>6, <2>7, <2>8, <2>9
<1>5. [n \in Numbers |-> TRUE] \in [Numbers -> BOOLEAN]
  OBVIOUS
<1>6. \A n \in Numbers : n \in Int \ {0} /\ -n \in Int \ {0} /\ var(n) = n /\ var(-n) = n
  BY <1>4, <1>5
<1>7. \A l \in UNION backbone : l \in Int \ {0} /\ var(l) \in Numbers
  BY <1>2 DEF PartsInv, IsRenamable
<1>8. \A l \in UNION OnClauses : l \in Int \ {0} /\ var(l) \in Numbers
  <2> SUFFICES ASSUME NEW e \in Existentials, NEW l \in {-on_selector(e), e}
               PROVE  l \in Int \ {0} /\ var(l) \in Numbers
    BY DEF OnClauses
  <2>1. on_selector(e) \in Numbers /\ e \in Numbers
    BY <1>2, <1>3
  <2> QED BY <1>6, <2>1
<1>9. \A l \in UNION OffClauses : l \in Int \ {0} /\ var(l) \in Numbers
  <2> SUFFICES ASSUME NEW e \in Existentials, NEW l \in {-off_selector(e), -renaming[e]}
               PROVE  l \in Int \ {0} /\ var(l) \in Numbers
    BY DEF OffClauses
  <2>1. off_selector(e) \in Numbers /\ renaming[e] \in Numbers
    BY <1>2, <1>3
  <2> QED BY <1>6, <2>1
<1>10. \A l \in Query(v, S) : l \in Numbers
  BY <1>2 DEF Query
<1>11. \A l \in UNION assumed : l \in Int \ {0} /\ var(l) \in Numbers
  BY <1>6, <1>10
<1>12. \A l \in UNION Queried(v, S) : l \in Int \ {0} /\ var(l) \in Numbers
  <2> HIDE DEF assumed
  <2> QED BY <1>1, <1>4, <1>5, <1>7, <1>8, <1>9, <1>11
<1>13. IsFiniteSet(UNION Queried(v, S))
  <2>1. last_number \in Nat
    BY DEF RenamingInv
  <2>2. ASSUME NEW l \in UNION Queried(v, S) PROVE l \in (-last_number)..last_number
    BY <1>12, <2>1 DEF var, Numbers
  <2>3. IsFiniteSet((-last_number)..last_number)
    BY <2>1, FS_Interval
  <2> QED BY <2>2, <2>3, FS_Subset
<1>14. ASSUME NEW a \in [Numbers -> BOOLEAN] PROVE Satisfies(Queried(v, S), a) <=> Separates(a, v, S)
  <2>1. Satisfies(Queried(v, S), a)
           <=> /\ Satisfies(backbone, a) /\ Satisfies(OnClauses, a) /\ Satisfies(CopiedClauses, a)
               /\ Satisfies(EqualityClauses, a) /\ Satisfies(OffClauses, a) /\ Satisfies(assumed, a)
    <3> HIDE DEF assumed
    <3> QED BY <1>1 DEF Satisfies
  <2>2. Satisfies(OnClauses, a) <=> \A e \in Existentials : holds(-on_selector(e), a) \/ holds(e, a)
    <3> DEFINE C(e) == {-on_selector(e), e}
    <3>1. ASSUME Satisfies(OnClauses, a), NEW e \in Existentials PROVE holds(-on_selector(e), a) \/ holds(e, a)
      <4>1. C(e) \in OnClauses
        BY DEF OnClauses
      <4>2. \E l \in C(e) : holds(l, a)
        <5> HIDE DEF C
        <5> QED BY <3>1, <4>1 DEF Satisfies
      <4> QED BY <4>2
    <3>2. ASSUME \A e \in Existentials : holds(-on_selector(e), a) \/ holds(e, a), NEW D \in OnClauses
          PROVE  \E l \in D : holds(l, a)
      <4>1. PICK e \in Existentials : D = C(e)
        BY DEF OnClauses
      <4>2. holds(-on_selector(e), a) \/ holds(e, a)
        BY <3>2
      <4> QED BY <4>1, <4>2
    <3> QED BY <3>1, <3>2 DEF Satisfies
  <2>3. Satisfies(OnClauses, a) <=> \A e \in Existentials : a[on_selector(e)] => a[e]
    BY <1>2, <1>3, <1>4, <2>2
  <2>4. Satisfies(OffClauses, a) <=> \A e \in Existentials : holds(-off_selector(e), a) \/ holds(-renaming[e], a)
    <3> DEFINE C(e) == {-off_selector(e), -renaming[e]}
    <3>1. ASSUME Satisfies(OffClauses, a), NEW e \in Existentials PROVE holds(-off_selector(e), a) \/ holds(-renaming[e], a)
      <4>1. C(e) \in OffClauses
        BY DEF OffClauses
      <4>2. \E l \in C(e) : holds(l, a)
        <5> HIDE DEF C
        <5> QED BY <3>1, <4>1 DEF Satisfies
      <4> QED BY <4>2
    <3>2. ASSUME \A e \in Existentials : holds(-off_selector(e), a) \/ holds(-renaming[e], a), NEW D \in OffClauses
          PROVE  \E l \in D : holds(l, a)
      <4>1. PICK e \in Existentials : D = C(e)
        BY DEF OffClauses
      <4>2. holds(-off_selector(e), a) \/ holds(-renaming[e], a)
        BY <3>2
      <4> QED BY <4>1, <4>2
    <3> QED BY <3>1, <3>2 DEF Satisfies
  <2>5. Satisfies(OffClauses, a) <=> \A e \in Existentials : a[off_selector(e)] => ~a[renaming[e]]
    BY <1>2, <1>3, <1>4, <2>4
  <2>6. Satisfies(assumed, a) <=> \A l \in Query(v, S) : holds(l, a)
    <3>1. \A l \in Query(v, S) : {l} \in assumed /\ \A k \in {l} : k = l
      OBVIOUS
    <3>2. \A C \in assumed : \E l \in Query(v, S) : C = {l}
      OBVIOUS
    <3> HIDE DEF assumed
    <3> QED BY <3>1, <3>2 DEF Satisfies
  <2>7. Satisfies(assumed, a) <=> \A l \in Query(v, S) : a[l]
    BY <1>4, <1>10, <2>6
  <2>8. Satisfies(assumed, a)
           <=> /\ \A w \in S : a[equality_selector(w)]
               /\ a[on_selector(v)] /\ a[off_selector(v)]
    BY <2>7 DEF Query
  <2>9. Satisfies(backbone, a) <=> \A C \in backbone : \E l \in C : holds(l, a)
    BY DEF Satisfies
  <2> HIDE DEF assumed
  <2> QED BY <1>4, <2>1, <2>3, <2>5, <2>8, <2>9 DEF Separates
<1> QED BY <1>12, <1>13, <1>14

\* Two assignments that agree on S and not on v are one assignment to the variables
\* and their copies.
LEMMA AssignmentSplit ==
    ASSUME RenamingInv, PartsInv, NEW v \in Existentials, NEW S \in SUBSET Variables,
           NEW a \in [Numbers -> BOOLEAN], Separates(a, v, S)
    PROVE  ~Definable(Assignments, v, S)
<1> DEFINE D == Variables \cup variablesOf(backbone)
           s == [x \in D |-> a[x]]
           t == [x \in D |-> a[renaming[x]]]
<1>1. \A C \in backbone : \A l \in C : var(l) \in D /\ var(l) \in DOMAIN renaming
  BY DEF variablesOf, PartsInv, IsRenamable
<1>2. D \subseteq DOMAIN renaming
  BY DEF variablesOf, PartsInv, IsRenamable, RenamingInv
<1>3. \A x \in D : x \in Numbers /\ renaming[x] \in Numbers
  BY <1>2, RenamedNumbers
<1>4. s \in [D -> BOOLEAN] /\ t \in [D -> BOOLEAN]
  BY <1>3
<1>5. s \in Assignments
  <2>1. ASSUME NEW C \in backbone PROVE \E l \in C : holds(l, s)
    BY <1>1 DEF Separates, holds
  <2> QED BY <1>4, <2>1 DEF Assignments
<1>6. t \in Assignments
  <2>1. ASSUME NEW C \in backbone PROVE \E l \in C : holds(l, t)
    BY <1>1 DEF Separates, holds
  <2> QED BY <1>4, <2>1 DEF Assignments
<1>7. v \in D /\ S \subseteq D
  BY DEF Variables
<1>8. \A x \in S : s[x] = t[x]
  <2>1. \A x \in S : a[x] = a[renaming[x]]
    BY DEF Separates
  <2> QED BY <1>7, <2>1
<1>9. s[v] /\ ~t[v]
  BY <1>7 DEF Separates
<1> HIDE DEF s, t
<1> QED BY <1>4, <1>5, <1>6, <1>7, <1>8, <1>9 DEF Definable

LEMMA AssignmentsJoined ==
    ASSUME RenamingInv, PartsInv, NEW v \in Existentials, NEW S \in SUBSET Variables,
           NEW s \in Assignments, NEW t \in Assignments, \A x \in S : s[x] = t[x], s[v], ~t[v]
    PROVE  \E a \in [Numbers -> BOOLEAN] : Separates(a, v, S)
<1> DEFINE D == Variables \cup variablesOf(backbone)
           copied(n) == CHOOSE x \in D : n = renaming[x]
           a == [n \in Numbers |->
                    IF n \in D THEN s[n]
                    ELSE IF \E x \in D : n = renaming[x] THEN t[copied(n)]
                    ELSE IF n \in Query(v, S) THEN TRUE ELSE FALSE]
<1>1. \A C \in backbone : \A l \in C : var(l) \in D /\ var(l) \in DOMAIN renaming
  BY DEF variablesOf, PartsInv, IsRenamable
<1>2. D \subseteq DOMAIN renaming /\ Variables \subseteq D
  BY DEF variablesOf, PartsInv, IsRenamable, RenamingInv
<1>3. \A x \in D : x \in Numbers /\ renaming[x] \in Numbers
  BY <1>2, RenamedNumbers
<1>4. s \in [D -> BOOLEAN] /\ t \in [D -> BOOLEAN]
  BY DEF Assignments
<1>5. \A C \in backbone : (\E l \in C : holds(l, s)) /\ (\E l \in C : holds(l, t))
  BY DEF Assignments
<1>6. \A x \in D : /\ renaming[x] \notin D
                   /\ \A y \in D : renaming[x] = renaming[y] => x = y
  BY <1>2 DEF RenamingInv
<1>7. ASSUME NEW x \in D PROVE a[x] = s[x] /\ a[renaming[x]] = t[x]
  <2>1. copied(renaming[x]) = x
    BY <1>6
  <2> HIDE DEF copied, D
  <2> QED BY <1>3, <1>6, <2>1
<1>8. ASSUME NEW n \in Numbers, n \notin D, \A x \in D : n # renaming[x]
      PROVE  a[n] \in BOOLEAN /\ (a[n] <=> n \in Query(v, S))
  BY <1>8
<1>9. a \in [Numbers -> BOOLEAN]
  <2> SUFFICES ASSUME NEW n \in Numbers PROVE a[n] \in BOOLEAN
    OBVIOUS
  <2>1. CASE n \in D
    BY <1>4, <1>7, <2>1
  <2>2. CASE \E x \in D : n = renaming[x]
    BY <1>4, <1>7, <2>2
  <2>3. CASE n \notin D /\ \A x \in D : n # renaming[x]
    BY <1>8, <2>3
  <2> QED BY <2>1, <2>2, <2>3
<1> HIDE DEF a, D
<1>10. ASSUME NEW n \in Numbers,
              \/ \E w \in Variables : n = equality_selector(w)
              \/ \E e \in Existentials : n \in {on_selector(e), off_selector(e)}
       PROVE  a[n] <=> n \in Query(v, S)
  <2>1. \A x \in D : n # x /\ n # renaming[x]
    BY <1>2, <1>10, SelectorsApart
  <2> QED BY <1>8, <2>1
<1>11. \A w \in Variables : equality_selector(w) \in Numbers
  BY RenamedNumbers
<1>12. \A e \in Existentials : on_selector(e) \in Numbers /\ off_selector(e) \in Numbers
  BY RenamedNumbers
<1>13. Existentials \subseteq Variables
  BY DEF Variables
<1>14. \A w \in Variables : a[equality_selector(w)] <=> w \in S
  <2> SUFFICES ASSUME NEW w \in Variables PROVE equality_selector(w) \in Query(v, S) <=> w \in S
    BY <1>10, <1>11
  <2>1. equality_selector(w) # on_selector(v) /\ equality_selector(w) # off_selector(v)
    <3>1. v \in DOMAIN renaming
      BY <1>2, <1>13
    <3> QED BY <3>1, SelectorsApart
  <2>2. \A x \in S : equality_selector(w) = equality_selector(x) => w = x
    BY NumberFacts
  <2> QED BY <2>1, <2>2 DEF Query
<1>15. \A e \in Existentials : (a[on_selector(e)] <=> e = v) /\ (a[off_selector(e)] <=> e = v)
  <2> SUFFICES ASSUME NEW e \in Existentials
               PROVE  (on_selector(e) \in Query(v, S) <=> e = v) /\ (off_selector(e) \in Query(v, S) <=> e = v)
    BY <1>10, <1>12
  <2>1. \A w \in S : equality_selector(w) # on_selector(e) /\ equality_selector(w) # off_selector(e)
    <3>1. v \in DOMAIN renaming
      BY <1>2, <1>13
    <3> QED BY <3>1, SelectorsApart
  <2>2. /\ on_selector(e) # off_selector(v) /\ on_selector(v) # off_selector(e)
        /\ e # v => on_selector(e) # on_selector(v) /\ off_selector(e) # off_selector(v)
    BY NumberFacts
  <2> QED BY <2>1, <2>2 DEF Query
<1>16. \A C \in backbone : \E l \in C : holds(l, a)
  <2> SUFFICES ASSUME NEW C \in backbone PROVE \E l \in C : holds(l, a)
    OBVIOUS
  <2>1. PICK l \in C : holds(l, s)
    BY <1>5
  <2>2. a[var(l)] = s[var(l)]
    BY <1>1, <1>7
  <2> QED BY <2>1, <2>2 DEF holds
<1>17. \A C \in backbone : \E l \in C : a[renaming[var(l)]] = (l > 0)
  <2> SUFFICES ASSUME NEW C \in backbone PROVE \E l \in C : a[renaming[var(l)]] = (l > 0)
    OBVIOUS
  <2>1. PICK l \in C : holds(l, t)
    BY <1>5
  <2>2. a[renaming[var(l)]] = t[var(l)]
    BY <1>1, <1>7
  <2> QED BY <2>1, <2>2 DEF holds
<1>18. \A w \in Variables : a[equality_selector(w)] => a[w] = a[renaming[w]]
  BY <1>2, <1>7, <1>14
<1>19. \A e \in Existentials : (a[on_selector(e)] => a[e]) /\ (a[off_selector(e)] => ~a[renaming[e]])
  BY <1>2, <1>7, <1>13, <1>15
<1> QED BY <1>9, <1>14, <1>15, <1>16, <1>17, <1>18, <1>19 DEF Separates

LEMMA PartsDecide ==
    ASSUME RenamingInv, PartsInv, NEW v \in Existentials, NEW S \in SUBSET Variables
    PROVE  refutable(v, S) <=> Definable(Assignments, v, S)
<1>1. Sat(Queried(v, S)) <=> CanSatisfy(Queried(v, S), Numbers)
  BY PartsMeaning, SatDecides
<1>2. Sat(Queried(v, S)) <=> \E a \in [Numbers -> BOOLEAN] : Separates(a, v, S)
  BY <1>1, PartsMeaning DEF CanSatisfy
<1>3. refutable(v, S) <=> ~Sat(Queried(v, S))
  BY DEF refutable, Queried, Query
<1>4. ASSUME ~Definable(Assignments, v, S) PROVE \E a \in [Numbers -> BOOLEAN] : Separates(a, v, S)
  <2>1. PICK s \in Assignments, t \in Assignments : (\A x \in S : s[x] = t[x]) /\ s[v] # t[v]
    BY <1>4 DEF Definable
  <2>2. s[v] \in BOOLEAN /\ t[v] \in BOOLEAN
    BY DEF Assignments, Variables
  <2>3. CASE s[v] /\ ~t[v]
    BY <2>1, <2>3, AssignmentsJoined
  <2>4. CASE t[v] /\ ~s[v]
    BY <2>1, <2>4, AssignmentsJoined
  <2> QED BY <2>1, <2>2, <2>3, <2>4
<1> QED BY <1>2, <1>3, <1>4, AssignmentSplit

--------------------------------------------------------------------------------
(***************************************************************************)
(* The definitions.                                                        *)
(***************************************************************************)
GivenClauses == {cubeLiterals(c) : c \in clauses}

\* Gates are numbers of their own.
GatesInv ==
    /\ \A e \in DOMAIN interpolants : \A g \in interpolants[e].gates :
          /\ g \in (Base + 1)..last_number
          /\ \A v \in DOMAIN renaming : g # v /\ g # renaming[v]
    /\ \A d, e \in DOMAIN interpolants :
          d # e => interpolants[d].gates \cap interpolants[e].gates = {}

ValuesInv ==
    \A e \in DOMAIN interpolants : \A s \in MatrixOf(clauses) :
        \A c \in DOMAIN interpolants[e].values : Agrees(c, s) => s[e] = interpolants[e].values[c]

\* Definitions are extracted before clauses are added; without existentials the
\* checker has nothing to do.
DefinabilityInv ==
    /\ definability \in {"unbuilt", "idle", "extracting"}
    /\ DOMAIN interpolants \subseteq Existentials
    /\ definability = "unbuilt" => DOMAIN interpolants = {}
    /\ definability # "unbuilt" =>
          /\ phase = "done" /\ GivenClauses \subseteq backbone
          /\ Existentials # {} => RenamingInv /\ PartsInv /\ GatesInv
    /\ definability = "extracting" =>
          /\ backbone = GivenClauses
          /\ query[1] \in Existentials \ DOMAIN interpolants /\ query[2] \subseteq Variables
    /\ ValuesInv

\* The numbers of the parts: those given away by the constructor, and variables
\* added later with their copies.
LEMMA PartsVariables ==
    ASSUME RenamingInv, PartsInv, Existentials # {}, NEW x \in variablesOf(first_part \cup second_part)
    PROVE  /\ x \in Numbers
           /\ x \in 1..Base \/ \E v \in DOMAIN renaming : x = v \/ x = renaming[v]
<1> DEFINE Known(n) == n \in 1..Base \/ \E v \in DOMAIN renaming : n = v \/ n = renaming[v]
<1>1. /\ Numbers \subseteq Nat \ {0} /\ Base \in Nat /\ last_number \in Nat /\ Base <= last_number
      /\ \A v \in DOMAIN renaming : v \in Numbers /\ renaming[v] \in Numbers
      /\ Variables \subseteq DOMAIN renaming
  BY RenamedNumbers, NumberFacts DEF RenamingInv
<1>2. /\ \A w \in Variables : equality_selector(w) \in 1..Base
      /\ \A e \in Existentials : on_selector(e) \in 1..Base /\ off_selector(e) \in 1..Base
  <2> DEFINE f == firstNumber
             n == Count
             m == Cardinality(Existentials)
  <2>1. f \in Nat /\ n \in Nat /\ m \in Nat /\ Base = f + 2 * n + 2 * m
    BY NumberFacts DEF Base
  <2>2. /\ \A w \in Variables : equality_selector(w) \in (f + n + 1)..(f + 2 * n)
        /\ \A e \in Existentials : on_selector(e) \in (f + 2 * n + 1)..Base /\ off_selector(e) \in (f + 2 * n + 1)..Base
    BY NumberFacts
  <2> HIDE DEF f, n, m
  <2> QED BY <2>1, <2>2
<1>3. \A n \in 1..Base : n \in Numbers
  BY <1>1 DEF Numbers
<1>4. \A n : Known(n) => n \in Numbers
  BY <1>1, <1>3
<1>5. \A n \in Nat \ {0} : var(n) = n /\ var(-n) = n
  BY DEF var
<1>6. PICK l \in UNION (first_part \cup second_part) : x = var(l)
  BY DEF variablesOf
<1>7. PICK C \in backbone \cup OnClauses \cup CopiedClauses \cup EqualityClauses \cup OffClauses : l \in C
  BY <1>6 DEF PartsInv
<1>8. CASE C \in backbone
  BY <1>6, <1>7, <1>8, <1>4 DEF PartsInv, IsRenamable
<1>9. CASE C \in OnClauses
  <2>1. PICK e \in Existentials : l = -on_selector(e) \/ l = e
    BY <1>7, <1>9 DEF OnClauses
  <2>2. on_selector(e) \in 1..Base /\ on_selector(e) \in Nat \ {0} /\ e \in DOMAIN renaming /\ e \in Nat \ {0}
    BY <1>1, <1>2, <1>3 DEF Variables
  <2>3. x = on_selector(e) \/ x = e
    BY <1>5, <1>6, <2>1, <2>2
  <2> QED BY <1>4, <2>2, <2>3
<1>10. CASE C \in OffClauses
  <2>1. PICK e \in Existentials : l = -off_selector(e) \/ l = -renaming[e]
    BY <1>7, <1>10 DEF OffClauses
  <2>2. off_selector(e) \in 1..Base /\ off_selector(e) \in Nat \ {0} /\ e \in DOMAIN renaming /\ renaming[e] \in Nat \ {0}
    BY <1>1, <1>2, <1>3 DEF Variables
  <2>3. x = off_selector(e) \/ x = renaming[e]
    BY <1>5, <1>6, <2>1, <2>2
  <2> QED BY <1>4, <2>2, <2>3
<1>11. CASE C \in CopiedClauses
  <2>1. PICK D \in backbone : C = renameClause(D, renaming)
    BY <1>11 DEF CopiedClauses
  <2>2. PICK k \in D : l = literal(renaming[var(k)], k > 0)
    BY <1>7, <2>1 DEF renameClause
  <2>3. var(k) \in DOMAIN renaming /\ renaming[var(k)] \in Nat \ {0}
    BY <1>1, <2>1 DEF PartsInv, IsRenamable
  <2>4. x = renaming[var(k)]
    BY <1>5, <1>6, <2>2, <2>3 DEF literal
  <2> QED BY <1>4, <2>3, <2>4
<1>12. CASE C \in EqualityClauses
  <2>1. PICK w \in Variables : C \in clausalEncodingEquality(w, renaming[w], equality_selector(w))
    BY <1>12 DEF EqualityClauses
  <2> DEFINE m == renaming[w]
             s == equality_selector(w)
  <2>2. w \in DOMAIN renaming /\ w \in Nat \ {0} /\ m \in Nat \ {0} /\ s \in Nat \ {0} /\ s \in 1..Base
    BY <1>1, <1>2, <1>3
  <2>3. l \in {-s, -w, m, w, -m}
    BY <1>7, <2>1 DEF clausalEncodingEquality
  <2>4. x = s \/ x = w \/ x = m
    <3> HIDE DEF m, s
    <3> QED BY <1>5, <1>6, <2>2, <2>3
  <2> QED BY <1>4, <2>2, <2>4
<1> QED BY <1>7, <1>8, <1>9, <1>10, <1>11, <1>12

LEMMA CubeFacts ==
    ASSUME SchemeInv, NEW c \in clauses
    PROVE  /\ DOMAIN c \subseteq Variables /\ c \in [DOMAIN c -> BOOLEAN]
           /\ \A l \in cubeLiterals(c) : l \in Int \ {0} /\ var(l) \in Variables
           /\ \A v \in DOMAIN c, b \in BOOLEAN : literal(v, b) \in cubeLiterals(c) <=> c[v] = b
           /\ DOMAIN c = {var(l) : l \in cubeLiterals(c)}
<1>1. \A d \in formula.clauses : IsClause(d)
  BY PreprocessingAssumption DEF SchemeInv
<1>2. PICK d \in formula.clauses : c = d \/ c = applyForallReduction(d)
  BY DEF SchemeInv
<1>3. IsClause(d)
  BY <1>1
<1>4. DOMAIN c \subseteq Variables /\ c \in [DOMAIN c -> BOOLEAN]
  BY <1>2, <1>3 DEF IsClause, IsCube, applyForallReduction, restrictTo
<1>5. \A v \in DOMAIN c : v \in Nat \ {0} /\ c[v] \in BOOLEAN
  BY <1>4, DefinabilityAssumption
<1>6. \A v \in DOMAIN c, b \in BOOLEAN : literal(v, b) \in Int \ {0} /\ var(literal(v, b)) = v
  BY <1>5 DEF literal, var
<1>7. \A l \in cubeLiterals(c) : \E v \in DOMAIN c : l = literal(v, c[v])
  BY DEF cubeLiterals
<1>8. \A l \in cubeLiterals(c) : l \in Int \ {0} /\ var(l) \in Variables
  BY <1>4, <1>5, <1>6, <1>7
<1>9. ASSUME NEW v \in DOMAIN c, NEW b \in BOOLEAN
      PROVE  literal(v, b) \in cubeLiterals(c) <=> c[v] = b
  <2>1. ASSUME literal(v, b) \in cubeLiterals(c) PROVE c[v] = b
    <3>1. PICK w \in DOMAIN c : literal(v, b) = literal(w, c[w])
      BY <1>7, <2>1
    <3>2. v = w
      BY <1>5, <1>6, <3>1
    <3> QED BY <1>5, <3>1, <3>2 DEF literal
  <2>2. literal(v, c[v]) \in cubeLiterals(c)
    BY DEF cubeLiterals
  <2> QED BY <2>1, <2>2
<1>10. DOMAIN c = {var(l) : l \in cubeLiterals(c)}
  <2>1. \A v \in DOMAIN c : literal(v, c[v]) \in cubeLiterals(c) /\ var(literal(v, c[v])) = v
    BY <1>5, <1>6 DEF cubeLiterals
  <2>2. \A l \in cubeLiterals(c) : var(l) \in DOMAIN c
    BY <1>5, <1>6, <1>7
  <2> QED BY <2>1, <2>2
<1> QED BY <1>4, <1>8, <1>9, <1>10

\* Different clauses have different literals.
LEMMA CubesInjective ==
    ASSUME SchemeInv, NEW c \in clauses, NEW d \in clauses, cubeLiterals(c) = cubeLiterals(d)
    PROVE  c = d
<1>1. /\ c \in [DOMAIN c -> BOOLEAN] /\ d \in [DOMAIN d -> BOOLEAN] /\ DOMAIN c = DOMAIN d
  BY CubeFacts
<1>2. \A v \in DOMAIN c : c[v] = d[v]
  <2> SUFFICES ASSUME NEW v \in DOMAIN c PROVE c[v] = d[v]
    OBVIOUS
  <2>1. c[v] \in BOOLEAN /\ v \in DOMAIN d
    BY <1>1
  <2>2. literal(v, c[v]) \in cubeLiterals(c)
    BY <2>1, CubeFacts
  <2> QED BY <2>1, <2>2, CubeFacts
<1> QED BY <1>1, <1>2

LEMMA GivenHold ==
    ASSUME SchemeInv, NEW s \in MatrixOf(clauses)
    PROVE  s \in [Variables -> BOOLEAN] /\ Satisfies(GivenClauses, s)
<1>1. s \in [Variables -> BOOLEAN] /\ \A c \in clauses : \E v \in DOMAIN c : s[v] = c[v]
  BY DEF MatrixOf, TotalAssignments
<1>2. ASSUME NEW c \in clauses PROVE \E l \in cubeLiterals(c) : holds(l, s)
  <2>1. PICK v \in DOMAIN c : s[v] = c[v]
    BY <1>1
  <2>2. v \in Variables /\ v \in Nat \ {0} /\ c[v] \in BOOLEAN
    BY CubeFacts, DefinabilityAssumption
  <2>3. literal(v, c[v]) \in cubeLiterals(c)
    BY <2>2, CubeFacts
  <2>4. holds(literal(v, c[v]), s)
    BY <1>1, <2>1, <2>2, SignFacts
  <2> QED BY <2>3, <2>4
<1> QED BY <1>1, <1>2 DEF Satisfies, GivenClauses

LEMMA DefinabilityStart == DefinabilityInit => DefinabilityInv
<1> SUFFICES ASSUME DefinabilityInit PROVE DefinabilityInv
  OBVIOUS
<1>1. definability = "unbuilt" /\ DOMAIN interpolants = {}
  BY DEF DefinabilityInit
<1> QED BY <1>1 DEF DefinabilityInv, ValuesInv

LEMMA BuildKeeps ==
    ASSUME SchemeInv, DefinabilityInv, BuildChecker, UNCHANGED preprocessingVars
    PROVE  DefinabilityInv'
<1>1. /\ phase = "done" /\ definability = "unbuilt" /\ definability' = "idle"
      /\ phase' = phase /\ clauses' = clauses /\ interpolants' = interpolants
      /\ DOMAIN interpolants = {}
      /\ last_number' = Base
      /\ renaming' = [v \in Variables |-> renamed(v)]
      /\ first_part' = GivenClauses \cup OnClauses
      /\ backbone' = GivenClauses
  BY DEF DefinabilityInv, BuildChecker, preprocessingVars, firstPart, Base, GivenClauses, OnClauses
<1>2. ASSUME Existentials # {} PROVE RenamingInv'
  <2> DEFINE f == firstNumber
             n == Count
  <2>1. /\ f \in Nat /\ n \in Nat /\ Base \in Nat
        /\ \A v \in Variables : v \in 1..f /\ renamed(v) \in (f + 1)..(f + n)
        /\ \A v, w \in Variables : v # w => renamed(v) # renamed(w)
    BY <1>2, NumberFacts
  <2> HIDE DEF f, n
  <2>2. \A v, w \in Variables : renamed(v) # w
    BY <2>1
  <2>3. DOMAIN renaming' = Variables /\ \A v \in Variables : renaming'[v] = renamed(v)
    BY <1>1
  <2>4. Base <= Base
    BY <2>1
  <2> QED BY <1>1, <2>1, <2>2, <2>3, <2>4 DEF RenamingInv
<1>3. PartsInv'
  <2>1. ASSUME NEW C \in backbone' PROVE IsRenamable(C)'
    <3>1. PICK c \in clauses : C = cubeLiterals(c)
      BY <1>1 DEF GivenClauses
    <3>2. \A l \in C : l \in Int \ {0} /\ var(l) \in Variables
      BY <3>1, CubeFacts
    <3> QED BY <1>1, <3>2 DEF IsRenamable
  <2>2. second_part' = (CopiedClauses \cup EqualityClauses \cup OffClauses)'
    <3>1. second_part' = secondPart(renaming')
      BY DEF BuildChecker
    <3>2. {renameClause(cubeLiterals(c), renaming') : c \in clauses} = CopiedClauses'
      BY <1>1 DEF CopiedClauses, GivenClauses
    <3>3. EqualityClauses' =
             UNION {clausalEncodingEquality(v, renaming'[v], equality_selector(v)) : v \in Variables}
      BY DEF EqualityClauses
    <3>4. OffClauses' = {{-off_selector(e), -renaming'[e]} : e \in Existentials}
      BY DEF OffClauses
    <3>5. secondPart(renaming') = CopiedClauses' \cup EqualityClauses' \cup OffClauses'
      BY <3>2, <3>3, <3>4 DEF secondPart
    <3> QED BY <3>1, <3>5
  <2>3. first_part' = (backbone \cup OnClauses)'
    BY <1>1 DEF OnClauses
  <2> QED BY <2>1, <2>2, <2>3 DEF PartsInv
<1>4. GatesInv' /\ ValuesInv'
  BY <1>1 DEF GatesInv, ValuesInv
<1>5. GivenClauses' = GivenClauses
  BY <1>1 DEF GivenClauses
<1> QED BY <1>1, <1>2, <1>3, <1>4, <1>5 DEF DefinabilityInv

\* As many clauses as at first are the clauses there were.
LEMMA NothingAdded ==
    ASSUME SchemeInv, RenamingInv, PartsInv, Existentials # {}, GivenClauses \subseteq backbone, Added = 0
    PROVE  backbone = GivenClauses
<1>1. IsFiniteSet(backbone)
  <2>1. last_number \in Nat
    BY DEF RenamingInv
  <2> DEFINE L == (-last_number)..last_number
  <2>2. ASSUME NEW C \in backbone PROVE C \in SUBSET L
    <3>1. \A l \in C : l \in Int /\ var(l) \in Numbers
      BY RenamedNumbers DEF PartsInv, IsRenamable
    <3>2. \A l \in C : l \in L
      BY <2>1, <3>1 DEF var, Numbers
    <3> QED BY <3>2
  <2>3. IsFiniteSet(L)
    BY <2>1, FS_Interval
  <2> HIDE DEF L
  <2>4. IsFiniteSet(SUBSET L) /\ backbone \subseteq SUBSET L
    BY <2>2, <2>3, FS_SUBSET
  <2> QED BY <2>4, FS_Subset
<1>2. IsFiniteSet(GivenClauses)
  BY <1>1, FS_Subset
<1>3. IsFiniteSet(clauses) /\ Cardinality(clauses) = Cardinality(GivenClauses)
  <2> DEFINE g == [c \in clauses |-> cubeLiterals(c)]
  <2>1. g \in Injection(clauses, GivenClauses) /\ g \in Surjection(clauses, GivenClauses)
    <3>1. g \in [clauses -> GivenClauses] /\ \A C \in GivenClauses : \E c \in clauses : g[c] = C
      BY DEF GivenClauses
    <3>2. \A c, d \in clauses : g[c] = g[d] => c = d
      BY CubesInjective
    <3> HIDE DEF g
    <3> QED BY <3>1, <3>2 DEF Injection, Surjection, IsInjective
  <2> HIDE DEF g
  <2> QED BY <1>2, <2>1, FS_Injection
<1>4. Cardinality(backbone) = Cardinality(GivenClauses)
  <2>1. Cardinality(backbone) \in Nat /\ Cardinality(clauses) \in Nat
    BY <1>1, <1>3, FS_CardinalityType
  <2> QED BY <1>3, <2>1 DEF Added
<1> QED BY <1>1, <1>4, FS_Subset

LEMMA ReadsVariables ==
    ASSUME SchemeInv, NEW v \in Existentials
    PROVE  computeExtendedDependencies(AllDependencies)[v] \subseteq Variables
<1>1. AllDependencies[v] \subseteq Universals
  BY DEF SchemeInv, AllDependencies
<1> QED BY <1>1 DEF computeExtendedDependencies, Variables

LEMMA CheckKeeps ==
    ASSUME SchemeInv, DefinabilityInv, NEW v \in Existentials, CheckDefinability(v),
           UNCHANGED preprocessingVars
    PROVE  DefinabilityInv'
<1>1. /\ definability = "idle" /\ v \notin DOMAIN interpolants /\ Added = 0
      /\ definability' = "extracting"
      /\ query' = <<v, computeExtendedDependencies(AllDependencies)[v]>>
      /\ UNCHANGED <<last_number, renaming, first_part, second_part, backbone, interpolants>>
      /\ phase' = phase /\ clauses' = clauses
  BY DEF CheckDefinability, preprocessingVars
<1>2. backbone = GivenClauses
  BY <1>1, NothingAdded DEF DefinabilityInv
<1>3. query'[1] = v /\ query'[2] \subseteq Variables
  BY <1>1, ReadsVariables
<1>4. GivenClauses' = GivenClauses
  BY <1>1 DEF GivenClauses
<1>5. RenamingInv' = RenamingInv /\ PartsInv' = PartsInv /\ GatesInv' = GatesInv /\ ValuesInv' = ValuesInv
  BY <1>1 DEF RenamingInv, PartsInv, GatesInv, ValuesInv, IsRenamable, CopiedClauses, EqualityClauses,
              OnClauses, OffClauses
<1> QED BY <1>1, <1>2, <1>3, <1>4, <1>5 DEF DefinabilityInv

\* What the backbone solver finds is the value in every model.
LEMMA ForcedValue ==
    ASSUME SchemeInv, backbone = GivenClauses, NEW v \in Existentials, NEW b \in BOOLEAN, forced(v, b),
           NEW s \in MatrixOf(clauses)
    PROVE  s[v] = b
<1> DEFINE l == literal(v, ~b)
           cs == under(backbone, {l})
<1>1. s \in [Variables -> BOOLEAN] /\ Satisfies(backbone, s)
  BY GivenHold
<1>2. v \in Variables /\ v \in Nat \ {0} /\ (~b) \in BOOLEAN
  BY DefinabilityAssumption DEF Variables
<1>3. l \in Int \ {0} /\ var(l) = v /\ (holds(l, s) <=> s[v] = (~b))
  <2> DEFINE d == ~b
  <2> HIDE DEF d
  <2>1. d \in BOOLEAN
    BY <1>2 DEF d
  <2>2. /\ literal(v, d) \in Int \ {0} /\ var(literal(v, d)) = v
        /\ holds(literal(v, d), s) <=> s[v] = d
    BY <1>1, <1>2, <2>1, SignFacts
  <2> QED BY <2>2 DEF d
<1>4. cs = backbone \cup {{l}}
  <2> HIDE DEF l
  <2> QED BY DEF under
<1>5. \A k \in UNION backbone : k \in Int \ {0} /\ var(k) \in Variables
  BY CubeFacts DEF GivenClauses
<1>6. ~Sat(cs)
  BY DEF forced
<1> HIDE DEF l, cs
<1>7. UNION cs \subseteq Int \ {0} /\ \A k \in UNION cs : var(k) \in Variables
  BY <1>2, <1>3, <1>4, <1>5
<1>8. IsFiniteSet(UNION cs)
  <2> DEFINE L == (-firstNumber)..firstNumber
  <2>1. firstNumber \in Nat /\ \A w \in Variables : w \in 1..firstNumber
    BY NumberFacts
  <2>2. \A k \in UNION cs : k \in L
    BY <1>7, <2>1 DEF var
  <2>3. IsFiniteSet(L)
    BY <2>1, FS_Interval
  <2> HIDE DEF L
  <2>4. UNION cs \subseteq L
    BY <2>2
  <2> QED BY <2>3, <2>4, FS_Subset
<1>9. ~Satisfies(cs, s)
  BY <1>1, <1>6, <1>7, <1>8, SatDecides DEF CanSatisfy
<1>10. ~holds(l, s)
  BY <1>1, <1>4, <1>9 DEF Satisfies
<1>11. s[v] \in BOOLEAN
  BY <1>1, <1>2
<1> QED BY <1>3, <1>10, <1>11

\* A definition that is right, with gates numbered after all numbers in use.
LEMMA FoundKeeps ==
    ASSUME DefinabilityInv, definability = "extracting", UNCHANGED preprocessingVars,
           NEW f, NEW gates, Found(f, gates),
           \A s \in MatrixOf(clauses) : \A c \in DOMAIN f : Agrees(c, s) => s[query[1]] = f[c],
           last_number' \in Nat, last_number <= last_number',
           \A g \in gates : g \in (last_number + 1)..last_number'
    PROVE  DefinabilityInv'
<1> DEFINE v == query[1]
<1>1. /\ phase = "done" /\ GivenClauses \subseteq backbone
      /\ v \in Existentials /\ v \notin DOMAIN interpolants
      /\ DOMAIN interpolants \subseteq Existentials
      /\ RenamingInv /\ PartsInv /\ GatesInv /\ ValuesInv
  BY DEF DefinabilityInv
<1>2. /\ definability' = "idle" /\ phase' = phase /\ clauses' = clauses
      /\ UNCHANGED <<renaming, first_part, second_part, backbone>>
      /\ DOMAIN interpolants' = DOMAIN interpolants \cup {v}
      /\ interpolants'[v] = [values |-> f, gates |-> gates]
      /\ \A e \in DOMAIN interpolants : interpolants'[e] = interpolants[e]
  BY <1>1 DEF Found, preprocessingVars
<1>3. interpolants'[v].values = f /\ interpolants'[v].gates = gates
  BY <1>2
<1>4. /\ Base \in Nat /\ last_number \in Nat /\ Base <= last_number
      /\ \A x \in DOMAIN renaming : x \in 1..last_number /\ renaming[x] \in 1..last_number
  BY <1>1, NumberFacts, RenamedNumbers DEF RenamingInv, Numbers
<1> HIDE DEF v
<1>5. RenamingInv'
  <2>1. Base <= last_number'
    BY <1>4
  <2>2. \A x \in DOMAIN renaming \ Variables :
           x \in (Base + 1)..last_number' /\ renaming[x] \in (Base + 1)..last_number'
    BY <1>1, <1>4 DEF RenamingInv
  <2> QED BY <1>1, <1>2, <2>1, <2>2 DEF RenamingInv
<1>6. PartsInv' = PartsInv /\ GivenClauses' = GivenClauses
  BY <1>2 DEF PartsInv, IsRenamable, CopiedClauses, EqualityClauses, OnClauses, OffClauses, GivenClauses
<1>7. ValuesInv'
  <2> SUFFICES ASSUME NEW e \in DOMAIN interpolants', NEW s \in MatrixOf(clauses),
                      NEW c \in DOMAIN interpolants'[e].values, Agrees(c, s)
               PROVE  s[e] = interpolants'[e].values[c]
    BY <1>2 DEF ValuesInv
  <2>1. CASE e = v
    BY <1>3, <2>1 DEF v
  <2>2. CASE e # v
    BY <1>1, <1>2, <2>2 DEF ValuesInv
  <2> QED BY <2>1, <2>2
<1>8. ASSUME NEW g \in gates
      PROVE  /\ g \in (Base + 1)..last_number'
             /\ \A x \in DOMAIN renaming : g # x /\ g # renaming[x]
             /\ \A e \in DOMAIN interpolants : g \notin interpolants[e].gates
  <2>1. g \in (last_number + 1)..last_number'
    OBVIOUS
  <2>2. \A e \in DOMAIN interpolants : \A h \in interpolants[e].gates : h \in (Base + 1)..last_number
    BY <1>1 DEF GatesInv
  <2>3. \A h \in (Base + 1)..last_number : g # h
    BY <1>4, <2>1
  <2> QED BY <1>4, <2>1, <2>2, <2>3
<1>9. GatesInv'
  <2>1. ASSUME NEW e \in DOMAIN interpolants', NEW g \in interpolants'[e].gates
        PROVE  g \in (Base + 1)..last_number' /\ \A x \in DOMAIN renaming : g # x /\ g # renaming[x]
    <3>1. CASE e = v
      BY <1>3, <1>8, <3>1
    <3>2. CASE e # v
      <4>1. g \in (Base + 1)..last_number /\ \A x \in DOMAIN renaming : g # x /\ g # renaming[x]
        BY <1>1, <1>2, <3>2 DEF GatesInv
      <4> QED BY <1>4, <4>1
    <3> QED BY <3>1, <3>2
  <2>2. ASSUME NEW d \in DOMAIN interpolants', NEW e \in DOMAIN interpolants', d # e
        PROVE  interpolants'[d].gates \cap interpolants'[e].gates = {}
    <3>1. CASE d = v
      BY <1>2, <1>3, <1>8, <2>2, <3>1
    <3>2. CASE e = v
      BY <1>2, <1>3, <1>8, <2>2, <3>2
    <3>3. CASE d # v /\ e # v
      BY <1>1, <1>2, <2>2, <3>3 DEF GatesInv
    <3> QED BY <3>1, <3>2, <3>3
  <2> QED BY <1>2, <2>1, <2>2 DEF GatesInv
<1> QED BY <1>1, <1>2, <1>5, <1>6, <1>7, <1>9 DEF DefinabilityInv

LEMMA ForcedKeeps ==
    ASSUME SchemeInv, DefinabilityInv, ForcedDefinition, UNCHANGED preprocessingVars
    PROVE  DefinabilityInv'
<1> DEFINE empty == [y \in {} |-> TRUE]
<1>1. PICK b \in BOOLEAN : forced(query[1], b) /\ Found([c \in {empty} |-> b], {})
  BY DEF ForcedDefinition
<1>2. definability = "extracting" /\ last_number' = last_number
  BY DEF ForcedDefinition
<1>3. query[1] \in Existentials /\ backbone = GivenClauses /\ last_number \in Nat
  BY <1>2 DEF DefinabilityInv, RenamingInv
<1>4. \A s \in MatrixOf(clauses) : s[query[1]] = b
  BY <1>1, <1>3, ForcedValue
<1> DEFINE f == [c \in {empty} |-> b]
<1>5. \A c \in DOMAIN f : f[c] = b
  OBVIOUS
<1>6. Found(f, {})
  BY <1>1
<1> HIDE DEF f
<1>7. last_number <= last_number
  BY <1>3
<1> QED BY <1>2, <1>3, <1>4, <1>5, <1>6, <1>7, FoundKeeps

LEMMA HighestInRange ==
    ASSUME NEW n \in Nat, NEW S, S # {}, \A x \in S : x \in 0..n
    PROVE  Highest(S) \in S /\ \A m \in S : m <= Highest(S)
<1>1. IsFiniteSet(0..n)
  BY FS_Interval
<1> DEFINE T == 0..n
<1>2. S \subseteq T /\ S \in SUBSET Nat
  OBVIOUS
<1> HIDE DEF T
<1>3. IsFiniteSet(S)
  BY <1>1, <1>2, FS_Subset DEF T
<1> QED BY <1>2, <1>3, HighestFacts

LEMMA InterpolateKeeps ==
    ASSUME SchemeInv, DefinabilityInv, Interpolate, UNCHANGED preprocessingVars
    PROVE  DefinabilityInv'
<1> DEFINE v == query[1]
           S == query[2]
<1>1. definability = "extracting"
  BY DEF Interpolate
<1>2. v \in Existentials /\ S \subseteq Variables /\ RenamingInv /\ PartsInv
  BY <1>1 DEF DefinabilityInv
<1>3. PICK f \in Interpolants(v, S), n \in 0..MaxGates :
         LET gates == {offset(last_number) + i : i \in 1..n}
         IN  Found(f, gates) /\ last_number' = Highest({last_number} \cup gates)
  BY DEF Interpolate
<1>4. last_number \in Nat /\ n \in Nat
  BY <1>2, DefinabilityAssumption DEF RenamingInv
<1>5. offset(last_number) = last_number
  <2> DEFINE X == variablesOf(first_part \cup second_part)
  <2>1. \A x \in X : x \in 1..last_number
    BY <1>2, PartsVariables DEF Numbers
  <2>3. X # {}
    <3>1. {-on_selector(v), v} \in first_part
      BY <1>2 DEF PartsInv, OnClauses
    <3>2. v \in UNION (first_part \cup second_part)
      BY <3>1
    <3> QED BY <3>2 DEF variablesOf
  <2> HIDE DEF X
  <2>4. Highest(X) \in X
    <3>1. \A x \in X : x \in 0..last_number
      BY <1>4, <2>1
    <3> QED BY <1>4, <2>3, <3>1, HighestInRange
  <2>5. max_var_index \in Nat /\ max_var_index <= last_number
    <3>1. max_var_index = Highest(X)
      BY DEF max_var_index, X
    <3> QED BY <1>4, <2>1, <2>4, <3>1
  <2> DEFINE P == {last_number, max_var_index}
  <2>6. P # {} /\ \A x \in P : x \in 0..last_number
    BY <1>4, <2>5
  <2>7. Highest(P) \in P /\ \A m \in P : m <= Highest(P)
    <3> HIDE DEF P
    <3> QED BY <1>4, <2>6, HighestInRange
  <2>8. offset(last_number) = Highest(P)
    BY DEF offset
  <2> QED BY <1>4, <2>5, <2>7, <2>8
<1> DEFINE gates == {last_number + i : i \in 1..n}
<1>6. Found(f, gates) /\ last_number' = Highest({last_number} \cup gates)
  BY <1>3, <1>5
<1>7. last_number' \in Nat /\ last_number <= last_number' /\ \A g \in gates : g \in (last_number + 1)..last_number'
  <2> DEFINE G == {last_number} \cup gates
  <2>1. \A g \in G : g \in 0..(last_number + n)
    BY <1>4
  <2>2. \A g \in gates : last_number + 1 <= g /\ g \in Nat
    BY <1>4
  <2>3. last_number \in G /\ \A g \in gates : g \in G
    OBVIOUS
  <2> HIDE DEF G, gates
  <2>4. last_number + n \in Nat /\ G # {}
    BY <1>4, <2>3
  <2>5. Highest(G) \in G /\ \A g \in G : g <= Highest(G)
    BY <2>1, <2>4, HighestInRange
  <2>6. last_number' = Highest(G)
    BY <1>6 DEF G
  <2>7. Highest(G) \in Nat
    BY <2>1, <2>4, <2>5
  <2> QED BY <1>4, <2>2, <2>3, <2>5, <2>6, <2>7
<1>8. ASSUME NEW s \in MatrixOf(clauses), NEW c \in DOMAIN f, Agrees(c, s) PROVE s[v] = f[c]
  <2>1. f \in [[S -> BOOLEAN] -> BOOLEAN] /\ s[v] = f[restrictTo(s, S)]
    BY <1>3 DEF Interpolants
  <2>2. DOMAIN s = Variables
    BY DEF MatrixOf, TotalAssignments
  <2>3. c \in [S -> BOOLEAN]
    BY <2>1
  <2>4. \A x \in S : c[x] = s[x]
    BY <1>8, <2>3 DEF Agrees
  <2>5. c = restrictTo(s, S)
    <3>1. DOMAIN s \cap S = S
      BY <1>2, <2>2
    <3> QED BY <2>3, <2>4, <3>1 DEF restrictTo
  <2> QED BY <2>1, <2>5
<1> HIDE DEF gates
<1> QED BY <1>1, <1>6, <1>7, <1>8, FoundKeeps

LEMMA FailsKeeps ==
    ASSUME DefinabilityInv, InterpolationFails, UNCHANGED preprocessingVars
    PROVE  DefinabilityInv'
<1>1. /\ UNCHANGED <<definability, last_number, renaming, first_part, second_part, backbone, query, interpolants>>
      /\ phase' = phase /\ clauses' = clauses
  BY DEF InterpolationFails, preprocessingVars
<1>2. RenamingInv' = RenamingInv /\ PartsInv' = PartsInv /\ GatesInv' = GatesInv /\ ValuesInv' = ValuesInv
      /\ GivenClauses' = GivenClauses
  BY <1>1 DEF RenamingInv, PartsInv, GatesInv, ValuesInv, IsRenamable, CopiedClauses, EqualityClauses,
              OnClauses, OffClauses, GivenClauses
<1> QED BY <1>1, <1>2 DEF DefinabilityInv

\* A clause over variables with a copy, one of which may be new, the next number.
LEMMA AddClauseKeeps ==
    ASSUME DefinabilityInv, Existentials # {}, NEW C, NEW last, AddClause(C, last), UNCHANGED preprocessingVars,
           \A l \in C : l \in Int \ {0},
           NEW new, new = {var(l) : l \in C} \ DOMAIN renaming,
           \/ last = last_number /\ new = {}
           \/ last = last_number + 1 /\ new = {last}
    PROVE  DefinabilityInv'
<1>1. /\ definability = "idle" /\ definability' = "idle"
      /\ first_part' = first_part \cup {C} /\ backbone' = backbone \cup {C}
      /\ renaming' = [v \in DOMAIN renaming \cup new |->
                         IF v \in new THEN last + place(v, new) ELSE renaming[v]]
      /\ last_number' = last + Cardinality(new)
      /\ second_part' = second_part \cup {renameClause(C, renaming')}
      /\ interpolants' = interpolants /\ phase' = phase /\ clauses' = clauses
  BY DEF AddClause, inSecondPart, preprocessingVars
<1>2. phase = "done" /\ GivenClauses \subseteq backbone /\ RenamingInv /\ PartsInv /\ GatesInv /\ ValuesInv
  BY <1>1 DEF DefinabilityInv
<1>3. /\ Base \in Nat /\ last_number \in Nat /\ Base <= last_number
      /\ \A v \in DOMAIN renaming : v \in 1..last_number /\ renaming[v] \in 1..last_number
  BY <1>2, NumberFacts, RenamedNumbers DEF RenamingInv, Numbers
<1>4. /\ DOMAIN renaming' = DOMAIN renaming \cup new
      /\ \A v \in DOMAIN renaming : renaming'[v] = renaming[v]
      /\ last_number' \in Nat /\ last_number <= last_number'
      /\ \A v \in new : v \in (last_number + 1)..last_number' /\ renaming'[v] \in (last_number + 1)..last_number'
      /\ \A v, w \in new : v = w /\ renaming'[v] # w
  <2>1. CASE last = last_number /\ new = {}
    <3>1. Cardinality(new) = 0
      BY <2>1, FS_EmptySet
    <3>2. last_number' = last_number
      BY <1>1, <1>3, <2>1, <3>1
    <3> QED BY <1>1, <1>3, <2>1, <3>2
  <2>2. CASE last = last_number + 1 /\ new = {last}
    <3>1. last \in Nat /\ last \notin DOMAIN renaming
      BY <1>3, <2>2
    <3>2. Cardinality(new) = 1
      BY <2>2, FS_Singleton
    <3>3. place(last, new) = 1
      <4>1. {w \in new : w <= last} = {last}
        BY <2>2, <3>1
      <4>2. Cardinality({last}) = 1
        BY FS_Singleton
      <4> QED BY <4>1, <4>2 DEF place
    <3>4. last_number' = last_number + 2
      BY <1>1, <1>3, <2>2, <3>2
    <3>5. /\ DOMAIN renaming' = DOMAIN renaming \cup {last}
          /\ \A v \in DOMAIN renaming : renaming'[v] = renaming[v]
      BY <1>1, <2>2, <3>1
    <3>6. renaming'[last] = last_number + 2
      <4>1. renaming'[last] = last + place(last, new)
        BY <1>1, <2>2
      <4> QED BY <1>3, <2>2, <3>3, <4>1
    <3>7. \A v \in new : v = last_number + 1 /\ renaming'[v] = last_number + 2
      BY <2>2, <3>6
    <3>8. last_number + 1 # last_number + 2
      BY <1>3
    <3> QED BY <1>3, <2>2, <3>4, <3>5, <3>7, <3>8
  <2> QED BY <2>1, <2>2
<1>5. RenamingInv'
  <2>1. Base <= last_number' /\ Variables \subseteq DOMAIN renaming'
    BY <1>2, <1>3, <1>4 DEF RenamingInv
  <2>2. \A v \in Variables : renaming'[v] = renamed(v)
    BY <1>2, <1>4 DEF RenamingInv
  <2>3. ASSUME NEW v \in DOMAIN renaming' \ Variables
        PROVE  v \in (Base + 1)..last_number' /\ renaming'[v] \in (Base + 1)..last_number'
    <3>1. CASE v \in DOMAIN renaming
      <4>1. v \in (Base + 1)..last_number /\ renaming[v] \in (Base + 1)..last_number
        BY <1>2, <3>1 DEF RenamingInv
      <4> QED BY <1>3, <1>4, <3>1, <4>1
    <3>2. CASE v \in new
      <4>1. v \in (last_number + 1)..last_number' /\ renaming'[v] \in (last_number + 1)..last_number'
        BY <1>4, <3>2
      <4> QED BY <1>3, <1>4, <4>1
    <3> QED BY <1>4, <3>1, <3>2
  <2>4. ASSUME NEW v \in DOMAIN renaming', NEW w \in DOMAIN renaming'
        PROVE  (v # w => renaming'[v] # renaming'[w]) /\ renaming'[v] # w
    <3>1. CASE v \in DOMAIN renaming /\ w \in DOMAIN renaming
      BY <1>2, <1>4, <3>1 DEF RenamingInv
    <3>2. CASE v \in DOMAIN renaming /\ w \in new
      <4>1. renaming'[v] \in 1..last_number /\ w \in (last_number + 1)..last_number'
            /\ renaming'[w] \in (last_number + 1)..last_number'
        BY <1>3, <1>4, <3>2
      <4> QED BY <1>3, <1>4, <4>1
    <3>3. CASE v \in new /\ w \in DOMAIN renaming
      <4>1. w \in 1..last_number /\ renaming'[w] \in 1..last_number
            /\ renaming'[v] \in (last_number + 1)..last_number'
        BY <1>3, <1>4, <3>3
      <4> QED BY <1>3, <1>4, <4>1
    <3>4. CASE v \in new /\ w \in new
      BY <1>4, <3>4
    <3> QED BY <1>4, <3>1, <3>2, <3>3, <3>4
  <2> QED BY <1>4, <2>1, <2>2, <2>3, <2>4 DEF RenamingInv
<1>6. PartsInv'
  <2>1. \A D \in backbone : \A l \in D : l \in Int \ {0} /\ var(l) \in DOMAIN renaming
    BY <1>2 DEF PartsInv, IsRenamable
  <2>2. \A l \in C : l \in Int \ {0} /\ var(l) \in DOMAIN renaming'
    BY <1>4
  <2>3. \A D \in backbone' : IsRenamable(D)'
    BY <1>1, <1>4, <2>1, <2>2 DEF IsRenamable
  <2>4. \A D \in backbone : renameClause(D, renaming') = renameClause(D, renaming)
    BY <1>4, <2>1 DEF renameClause
  <2>5. CopiedClauses' = CopiedClauses \cup {renameClause(C, renaming')}
    <3>1. CopiedClauses' = {renameClause(D, renaming') : D \in backbone'}
      BY DEF CopiedClauses
    <3> QED BY <1>1, <2>4, <3>1 DEF CopiedClauses
  <2>6. EqualityClauses' = EqualityClauses
    <3>1. \A v \in Variables : renaming'[v] = renaming[v]
      BY <1>2, <1>4 DEF RenamingInv
    <3> QED BY <3>1 DEF EqualityClauses
  <2>7. OnClauses' = OnClauses /\ OffClauses' = OffClauses
    <3>1. \A e \in Existentials : renaming'[e] = renaming[e]
      BY <1>2, <1>4 DEF RenamingInv, Variables
    <3> QED BY <3>1 DEF OnClauses, OffClauses
  <2>8. first_part' = backbone' \cup OnClauses' /\ second_part' = CopiedClauses' \cup EqualityClauses' \cup OffClauses'
    BY <1>1, <1>2, <2>5, <2>6, <2>7 DEF PartsInv
  <2> QED BY <2>3, <2>8 DEF PartsInv
<1>7. GatesInv'
  <2>1. ASSUME NEW e \in DOMAIN interpolants, NEW g \in interpolants[e].gates
        PROVE  g \in (Base + 1)..last_number' /\ \A v \in DOMAIN renaming' : g # v /\ g # renaming'[v]
    <3>1. g \in (Base + 1)..last_number /\ \A v \in DOMAIN renaming : g # v /\ g # renaming[v]
      BY <1>2 DEF GatesInv
    <3>2. \A h \in (last_number + 1)..last_number' : g # h
      BY <1>3, <3>1
    <3>3. \A v \in new : g # v /\ g # renaming'[v]
      BY <1>4, <3>2
    <3>4. g \in (Base + 1)..last_number'
      BY <1>3, <1>4, <3>1
    <3> QED BY <1>4, <3>1, <3>3, <3>4
  <2>2. \A d, e \in DOMAIN interpolants :
           d # e => interpolants[d].gates \cap interpolants[e].gates = {}
    BY <1>2 DEF GatesInv
  <2>3. \A e \in DOMAIN interpolants' : \A g \in interpolants'[e].gates :
           /\ g \in (Base + 1)..last_number'
           /\ \A v \in DOMAIN renaming' : g # v /\ g # renaming'[v]
    BY <1>1, <2>1
  <2>4. \A d, e \in DOMAIN interpolants' :
           d # e => interpolants'[d].gates \cap interpolants'[e].gates = {}
    BY <1>1, <2>2
  <2> QED BY <2>3, <2>4 DEF GatesInv
<1>8. ValuesInv' /\ GivenClauses' = GivenClauses
  BY <1>1, <1>2 DEF ValuesInv, GivenClauses
<1> QED BY <1>1, <1>2, <1>5, <1>6, <1>7, <1>8 DEF DefinabilityInv

LEMMA AddClausesKeeps ==
    ASSUME DefinabilityInv, AddClauses, UNCHANGED preprocessingVars
    PROVE  DefinabilityInv'
<1>1. PICK e \in Existentials, b \in BOOLEAN :
         \/ AddClause({literal(e, b)}, last_number)
         \/ \E u \in Universals : AddClause({literal(e, b), u, last_number + 1}, last_number + 1)
  BY DEF AddClauses
<1>2. Existentials # {}
  OBVIOUS
<1>3. definability = "idle"
  BY <1>1 DEF AddClause
<1>4. RenamingInv
  BY <1>2, <1>3 DEF DefinabilityInv
<1>5. last_number \in Nat /\ \A v \in DOMAIN renaming : v \in 1..last_number
  BY <1>2, <1>4, RenamedNumbers DEF RenamingInv, Numbers
<1>6. \A v \in Variables : v \in Nat \ {0} /\ v \in DOMAIN renaming
  BY <1>4, DefinabilityAssumption DEF RenamingInv
<1>7. e \in Variables /\ literal(e, b) \in Int \ {0} /\ var(literal(e, b)) = e
  BY <1>6 DEF Variables, literal, var
<1> DEFINE l == literal(e, b)
<1> HIDE DEF l
<1>8. CASE AddClause({l}, last_number)
  <2>1. {} = {var(k) : k \in {l}} \ DOMAIN renaming /\ \A k \in {l} : k \in Int \ {0}
    BY <1>6, <1>7 DEF l
  <2> QED BY <1>2, <1>8, <2>1, AddClauseKeeps
<1>9. ASSUME NEW u \in Universals, AddClause({l, u, last_number + 1}, last_number + 1)
      PROVE  DefinabilityInv'
  <2> DEFINE C == {l, u, last_number + 1}
             last == last_number + 1
  <2>1. u \in Nat \ {0} /\ u \in DOMAIN renaming /\ var(u) = u
    BY <1>6 DEF Variables, var
  <2>2. last \in Nat \ {0} /\ var(last) = last /\ last \notin DOMAIN renaming
    BY <1>5 DEF var
  <2> HIDE DEF last
  <2>3. {last} = {var(k) : k \in {l, u, last}} \ DOMAIN renaming
    BY <1>6, <1>7, <2>1, <2>2 DEF l
  <2>4. \A k \in {l, u, last} : k \in Int \ {0}
    BY <1>7, <2>1, <2>2 DEF l
  <2>5. AddClause({l, u, last}, last) /\ last = last_number + 1
    BY <1>9 DEF last
  <2> QED BY <1>2, <2>3, <2>4, <2>5, AddClauseKeeps
<1> QED BY <1>1, <1>8, <1>9 DEF l

DefinabilityVariables == <<preprocessingVars, definabilityVars>>

LEMMA DefinabilityStep ==
    ASSUME SchemeInv, DefinabilityInv,
           \/ PreprocessingNext /\ UNCHANGED definabilityVars
           \/ DefinabilityNext /\ UNCHANGED preprocessingVars
           \/ UNCHANGED DefinabilityVariables
    PROVE  DefinabilityInv'
<1>1. ASSUME UNCHANGED definabilityVars, UNCHANGED preprocessingVars PROVE DefinabilityInv'
  <2>1. /\ UNCHANGED <<definability, last_number, renaming, first_part, second_part, backbone, query, interpolants>>
        /\ phase' = phase /\ clauses' = clauses
    BY <1>1 DEF definabilityVars, preprocessingVars
  <2>2. RenamingInv' = RenamingInv /\ PartsInv' = PartsInv /\ GatesInv' = GatesInv /\ ValuesInv' = ValuesInv
        /\ GivenClauses' = GivenClauses
    BY <2>1 DEF RenamingInv, PartsInv, GatesInv, ValuesInv, IsRenamable, CopiedClauses, EqualityClauses,
                OnClauses, OffClauses, GivenClauses
  <2> QED BY <2>1, <2>2 DEF DefinabilityInv
<1>2. ASSUME PreprocessingNext, UNCHANGED definabilityVars PROVE DefinabilityInv'
  <2>1. CASE definability = "unbuilt"
    <3>1. definability' = "unbuilt" /\ interpolants' = interpolants
      BY <1>2, <2>1 DEF definabilityVars
    <3>2. DOMAIN interpolants = {}
      BY <2>1 DEF DefinabilityInv
    <3> QED BY <3>1, <3>2 DEF DefinabilityInv, ValuesInv
  <2>2. CASE definability # "unbuilt"
    <3>1. phase = "done"
      BY <2>2 DEF DefinabilityInv
    <3>2. UNCHANGED preprocessingVars
      BY <1>2, <3>1 DEF PreprocessingNext, SearchFrom, EndScheme, Reduce
    <3> QED BY <1>1, <1>2, <3>2
  <2> QED BY <2>1, <2>2
<1>3. ASSUME DefinabilityNext, UNCHANGED preprocessingVars PROVE DefinabilityInv'
  <2>1. CASE BuildChecker
    BY <1>3, <2>1, BuildKeeps
  <2>2. ASSUME NEW v \in Existentials, CheckDefinability(v) PROVE DefinabilityInv'
    BY <1>3, <2>2, CheckKeeps
  <2>3. CASE ForcedDefinition
    BY <1>3, <2>3, ForcedKeeps
  <2>4. CASE Interpolate
    BY <1>3, <2>4, InterpolateKeeps
  <2>5. CASE InterpolationFails
    BY <1>3, <2>5, FailsKeeps
  <2>6. CASE AddClauses
    BY <1>3, <2>6, AddClausesKeeps
  <2> QED BY <1>3, <2>2, <2>3, <2>4, <2>5, <2>1, <2>6 DEF DefinabilityNext
<1> QED BY <1>1, <1>2, <1>3 DEF DefinabilityVariables

LEMMA DefinabilityInvariant == DefinabilitySpec => [](SchemeInv /\ DefinabilityInv)
<1>1. PreprocessingInit /\ DefinabilityInit => SchemeInv /\ DefinabilityInv
  BY SchemeStart, DefinabilityStart
<1>2. SchemeInv /\ DefinabilityInv
      /\ [\/ PreprocessingNext /\ UNCHANGED definabilityVars
          \/ DefinabilityNext /\ UNCHANGED preprocessingVars]_<<preprocessingVars, definabilityVars>>
         => (SchemeInv /\ DefinabilityInv)'
  <2> SUFFICES ASSUME SchemeInv, DefinabilityInv,
                      \/ PreprocessingNext /\ UNCHANGED definabilityVars
                      \/ DefinabilityNext /\ UNCHANGED preprocessingVars
                      \/ UNCHANGED DefinabilityVariables
               PROVE  (SchemeInv /\ DefinabilityInv)'
    BY DEF DefinabilityVariables
  <2>1. [PreprocessingNext]_preprocessingVars
    BY DEF DefinabilityVariables
  <2> QED BY <2>1, SchemeStepInv, DefinabilityStep
<1> QED BY <1>1, <1>2, PTL DEF DefinabilitySpec

LEMMA DefinitionsFollow == SchemeInv /\ DefinabilityInv => DefinitionsRight
<1> SUFFICES ASSUME SchemeInv, DefinabilityInv, definability # "unbuilt", Existentials # {} \/ DOMAIN interpolants = {}
             PROVE  /\ \A v \in Existentials :
                          refutable(v, computeExtendedDependencies(AllDependencies)[v])
                             <=> Definable(Assignments, v, computeExtendedDependencies(AllDependencies)[v])
                    /\ ValuesInv
                    /\ \A d, e \in DOMAIN interpolants :
                          d # e => interpolants[d].gates \cap interpolants[e].gates = {}
                    /\ \A e \in DOMAIN interpolants :
                          interpolants[e].gates \cap variablesOf(first_part \cup second_part) = {}
  BY DEF DefinitionsRight, ValuesInv, DefinabilityInv
<1>1. ASSUME NEW v \in Existentials
      PROVE  refutable(v, computeExtendedDependencies(AllDependencies)[v])
                <=> Definable(Assignments, v, computeExtendedDependencies(AllDependencies)[v])
  <2>1. RenamingInv /\ PartsInv
    BY DEF DefinabilityInv
  <2> QED BY <2>1, ReadsVariables, PartsDecide
<1>2. ASSUME NEW e \in DOMAIN interpolants, NEW x \in interpolants[e].gates
      PROVE  x \notin variablesOf(first_part \cup second_part)
  <2>1. Existentials # {} /\ RenamingInv /\ PartsInv /\ GatesInv
    BY DEF DefinabilityInv
  <2>2. /\ x \in (Base + 1)..last_number /\ Base \in Nat /\ last_number \in Nat
        /\ \A v \in DOMAIN renaming : x # v /\ x # renaming[v]
    BY <2>1, NumberFacts DEF GatesInv, RenamingInv
  <2>3. x \notin 1..Base
    BY <2>2
  <2> QED BY <2>1, <2>2, <2>3, PartsVariables
<1>3. ASSUME NEW d \in DOMAIN interpolants, NEW e \in DOMAIN interpolants, d # e
      PROVE  interpolants[d].gates \cap interpolants[e].gates = {}
  <2>1. GatesInv
    BY DEF DefinabilityInv
  <2> QED BY <1>3, <2>1 DEF GatesInv
<1> QED BY <1>1, <1>2, <1>3 DEF DefinabilityInv

\* The two parts of the interpolating solver always decide whether the matrix
\* determines a variable, every definition found has the variable's value in every
\* model, and its gates are numbers nothing else uses.
THEOREM DefinitionsAreRight == DefinabilitySpec => []DefinitionsRight
<1> QED BY DefinabilityInvariant, DefinitionsFollow, PTL
================================================================================
