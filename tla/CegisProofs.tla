------------------------------- MODULE CegisProofs -------------------------------
(***************************************************************************)
(* Proofs about the main loop: its types, that the answers of solve() are  *)
(* right for every formula, every configuration and every choice the SAT   *)
(* solvers make, and that every conflict teaches something.                *)
(*                                                                         *)
(* The argument for the answer 20: every model of the formula obeys        *)
(* everything learned (ModelsObey), so the values it gives to the arbiters *)
(* solve the arbiter clauses.  A forcing clause keeps only the part of a   *)
(* core that the forced variable may read; that no model is lost needs     *)
(* that the universals among the extended dependencies determine a         *)
(* variable (DependenciesSound), which holds as the dependencies are an    *)
(* order (CheckDefinedProofs) and each definition is determined by its     *)
(* support.                                                                *)
(***************************************************************************)
EXTENDS Cegis, CheckDefinedProofs

--------------------------------------------------------------------------------
(***************************************************************************)
(* Models.                                                                 *)
(***************************************************************************)

\* Answers to universal assignments, looked up in the total assignment.
LEMMA ModelValues ==
    ASSUME NEW dep, NEW F \in SkolemModels(dep, matrix), NEW u \in UniversalAssignments
    PROVE  /\ Join(u, F[u]) \in matrix
           /\ Join(u, F[u]) \in TotalAssignments
           /\ \A x \in Universals : Join(u, F[u])[x] = u[x]
           /\ \A e \in Existentials : Join(u, F[u])[e] = F[u][e] /\ F[u][e] \in BOOLEAN
<1>1. F \in [UniversalAssignments -> Responses] /\ Join(u, F[u]) \in matrix
  BY DEF SkolemModels
<1>2. F[u] \in Responses
  BY <1>1
<1>3. \A x \in Universals : Join(u, F[u])[x] = u[x] /\ u[x] \in BOOLEAN
  BY DEF Join, Variables, UniversalAssignments
<1>4. \A e \in Existentials : Join(u, F[u])[e] = F[u][e] /\ F[u][e] \in BOOLEAN
  BY <1>2, PrefixAssumption DEF Join, Variables, Responses
<1>5. Join(u, F[u]) \in TotalAssignments
  BY <1>3, <1>4 DEF Join, Variables, TotalAssignments
<1> QED BY <1>1, <1>3, <1>4, <1>5

\* Two universal assignments with the same values for the dependencies of e.
LEMMA ModelDetermined ==
    ASSUME NEW dep, NEW F \in SkolemModels(dep, matrix), NEW e \in Existentials,
           NEW u \in UniversalAssignments, NEW w \in UniversalAssignments,
           \A x \in dep[e] : u[x] = w[x]
    PROVE  F[u][e] = F[w][e]
BY DEF SkolemModels

\* The arbiter of e and the annotation d is the value of e wherever d holds.
LEMMA ArbiterValueAt ==
    ASSUME NEW F \in SkolemModels(dependencies, matrix), NEW e \in Existentials,
           NEW d \in [dependencies[e] -> BOOLEAN], NEW u \in UniversalAssignments,
           Agrees(d, u)
    PROVE  ArbiterValue(F, <<e, d>>) = F[u][e]
<1>1. ASSUME NEW w \in UniversalAssignments, Agrees(d, w)
      PROVE  F[w][e] = F[u][e]
  <2>1. \A x \in dependencies[e] : w[x] = u[x]
    BY <1>1 DEF Agrees
  <2> QED BY <2>1, ModelDetermined
<1>2. F[u][e] \in BOOLEAN
  BY ModelValues
<1> QED BY <1>1, <1>2 DEF ArbiterValue

--------------------------------------------------------------------------------
(***************************************************************************)
(* The invariant.                                                          *)
(***************************************************************************)

\* The dependencies the solver keeps are among the extended ones, and every
\* support determines the variable it belongs to.
DependencyInv ==
    /\ \A e \in DOMAIN ext : dependencies[e] \subseteq ext[e]
    /\ \A c \in Computed : Definable(matrix, c, supports[c])
    /\ Satisfiable(prefix, matrix) => Satisfiable(dependencies, matrix)

\* The counterexample assigns all universals, and the existentials in it have
\* the values of their realised arbiters.
ConflictInv ==
    pc = "analyze" =>
        /\ conflict.universal \in UniversalAssignments
        /\ \A e \in DOMAIN conflict.existential, a \in proper_arbiters :
              a[1] = e /\ Agrees(a[2], conflict.universal)
                  => arbiter_assignment[a] = conflict.existential[e]

CegisInv ==
    /\ IInv
    /\ CegisTypeOK
    /\ DependencyInv
    /\ ConflictInv
    /\ ModelsObey
    /\ UnsatSound

\* The order of the dependencies, as the invariant of the setup implies it.
LEMMA OrderFromInvariant == IInv => StoredOrder
<1> SUFFICES ASSUME IInv PROVE StoredOrder
  OBVIOUS
<1>1. SetupTypeOK /\ Shape
  BY DEF IInv, TypeInv
<1>2. \A v \in Existentials : ReadThrough(v, ext) = ED(v)
  BY <1>1, ReadThroughExt
<1>3. \A e \in Existentials :
         /\ e \notin ReadThrough(e, ext)
         /\ \A d \in ReadThrough(e, ext) \cap Existentials :
               ReadThrough(d, ext) \subseteq ReadThrough(e, ext)
  BY <1>1, CertifiedOrder DEF IInv
<1> QED BY <1>2, <1>3 DEF StoredOrder

\* Two assignments with the same values for what e may read, given that this is
\* enough for every variable e may read.
LEMMA DeterminedAbove ==
    ASSUME IInv, DependencyInv, dependencies \in [Existentials -> SUBSET Universals],
           NEW F \in SkolemModels(dependencies, matrix), NEW e \in Existentials,
           NEW u \in UniversalAssignments, NEW w \in UniversalAssignments,
           \A x \in ED(e) \cap Universals : u[x] = w[x],
           \A d \in ED(e) \cap Existentials : F[u][d] = F[w][d]
    PROVE  F[u][e] = F[w][e]
<1>1. DOMAIN ext = Existentials \ Computed /\ \A c \in Computed : supports[c] \subseteq Variables
  BY DEF IInv, TypeInv, Shape, SetupTypeOK, ContainerTypeOK, Computed
<1>2. CASE e \notin Computed
  <2>1. ED(e) = ext[e] /\ dependencies[e] \subseteq ext[e] /\ dependencies[e] \subseteq Universals
    BY <1>1, <1>2 DEF ED, DependencyInv
  <2> QED BY <2>1, ModelDetermined
<1>3. CASE e \in Computed
  <2>1. supports[e] \subseteq ED(e)
    BY <1>3, ReadBySupport DEF ED, computeDynamicDependencies
  <2>2. \A x \in supports[e] : Join(u, F[u])[x] = Join(w, F[w])[x]
    <3>1. TAKE x \in supports[e]
    <3>2. CASE x \in Universals
      BY <2>1, <3>2, ModelValues
    <3>3. CASE x \in Existentials
      BY <2>1, <3>3, ModelValues
    <3> QED BY <1>1, <1>3, <3>2, <3>3 DEF Variables
  <2>3. Definable(matrix, e, supports[e])
    BY <1>3 DEF DependencyInv
  <2>4. Join(u, F[u]) \in matrix /\ Join(w, F[w]) \in matrix
    BY ModelValues
  <2>5. Join(u, F[u])[e] = Join(w, F[w])[e]
    BY <2>2, <2>3, <2>4 DEF Definable
  <2> QED BY <2>5, ModelValues
<1> QED BY <1>2, <1>3

\* The existentials e may read; they shrink along the order.
Below(e) == ED(e) \cap Existentials

\* By induction along the order of the dependencies, as a minimal variable that
\* is not determined would be determined by those below it.
LEMMA Determined ==
    ASSUME IInv, DependencyInv, dependencies \in [Existentials -> SUBSET Universals]
    PROVE  DependenciesSound
<1> SUFFICES ASSUME NEW F \in SkolemModels(dependencies, matrix), NEW f \in Existentials,
                    NEW u \in UniversalAssignments, NEW w \in UniversalAssignments,
                    \A x \in ED(f) \cap Universals : u[x] = w[x],
                    F[u][f] # F[w][f]
             PROVE  FALSE
  BY DEF DependenciesSound
<1>1. StoredOrder
  BY OrderFromInvariant
<1> DEFINE Bad == {e \in Existentials : /\ \A x \in ED(e) \cap Universals : u[x] = w[x]
                                        /\ F[u][e] # F[w][e]}
           Sets == {Below(e) : e \in Bad}
<1>2. f \in Bad /\ Sets # {}
  OBVIOUS
<1>3. Sets \subseteq FiniteSubsetsOf(Existentials)
  BY FS_Subset, PrefixAssumption DEF Below, FiniteSubsetsOf
<1>4. PICK B \in Sets : \A C \in Sets : ~ (<<C, B>> \in StrictSubsetOrdering(Existentials))
  <2> HIDE DEF Sets
  <2> QED BY <1>2, <1>3, FS_StrictSubsetOrderingWellFounded, WFMin
<1>5. PICK e \in Bad : B = Below(e)
  OBVIOUS
<1>6. ASSUME NEW d \in ED(e) \cap Existentials PROVE F[u][d] = F[w][d]
  <2>1. SUFFICES ASSUME F[u][d] # F[w][d] PROVE FALSE
    OBVIOUS
  <2>2. ED(d) \subseteq ED(e) /\ d \notin ED(d)
    BY <1>1 DEF StoredOrder
  <2>3. d \in Bad
    BY <2>1, <2>2
  <2>4. <<Below(d), Below(e)>> \in StrictSubsetOrdering(Existentials)
    BY <2>2 DEF Below, StrictSubsetOrdering
  <2> QED BY <1>4, <1>5, <2>3, <2>4
<1>7. F[u][e] = F[w][e]
  BY <1>6, DeterminedAbove
<1> QED BY <1>7

--------------------------------------------------------------------------------
(***************************************************************************)
(* No model is lost.                                                       *)
(***************************************************************************)

\* The values a model gives to the arbiters.
ModelArbiters(F) == [a \in introduced |-> ArbiterValue(F, a)]

LEMMA ModelArbitersType ==
    ASSUME NEW F
    PROVE  /\ ModelArbiters(F) \in [introduced -> BOOLEAN]
           /\ \A a \in introduced : ModelArbiters(F)[a] = ArbiterValue(F, a)
<1>1. \A a \in introduced : ArbiterValue(F, a) \in BOOLEAN
  BY DEF ArbiterValue
<1> QED BY <1>1 DEF ModelArbiters

\* A model that agrees with a core extends it to all the extraction solver
\* knows, so a core has none.
LEMMA ModelExtends ==
    ASSUME CegisTypeOK, ModelsObey,
           NEW F \in SkolemModels(dependencies, matrix), NEW u \in UniversalAssignments,
           NEW core, Agrees(core.literals, Join(u, F[u])), ArbitersAgree(core.arbiters, F),
           DOMAIN core.arbiters \subseteq introduced
    PROVE  HasExtension(core)
<1> DEFINE s == Join(u, F[u])
           A == ModelArbiters(F)
<1>1. s \in matrix /\ A \in [introduced -> BOOLEAN]
  BY ModelValues, ModelArbitersType
<1>2. Agrees(core.arbiters, A)
  BY ModelArbitersType DEF Agrees, ArbitersAgree
<1>3. ObeysForcing(s, A)
  <2>1. SUFFICES ASSUME NEW c \in forcing, Agrees(c.premise, s), Agrees(c.arbiters, A)
                 PROVE  s[c.var] = c.val
    BY DEF ObeysForcing
  <2>2. DOMAIN c.arbiters \subseteq introduced
    BY DEF CegisTypeOK, IsForcingClause, IsCube
  <2>3. ArbitersAgree(c.arbiters, F)
    BY <2>1, <2>2, ModelArbitersType DEF Agrees, ArbitersAgree
  <2> QED BY <2>1, <2>3 DEF ModelsObey
<1>4. ObeysLinks(s, A)
  <2>1. SUFFICES ASSUME NEW a \in proper_arbiters, Agrees(a[2], s) PROVE A[a] = s[a[1]]
    BY DEF ObeysLinks
  <2>2. a \in introduced /\ IsArbiter(a)
    BY DEF CegisTypeOK
  <2>3. PICK e \in Existentials : \E d \in [dependencies[e] -> BOOLEAN] : a = <<e, d>>
    BY <2>2 DEF IsArbiter
  <2>4. PICK d \in [dependencies[e] -> BOOLEAN] : a = <<e, d>>
    BY <2>3
  <2>5. dependencies[e] \subseteq Universals
    BY DEF CegisTypeOK
  <2>6. Agrees(d, u)
    BY <2>1, <2>4, <2>5, ModelValues DEF Agrees
  <2>7. ArbiterValue(F, a) = F[u][e]
    BY <2>4, <2>6, ArbiterValueAt
  <2>8. s[e] = F[u][e]
    BY ModelValues
  <2> QED BY <2>2, <2>4, <2>7, <2>8, ModelArbitersType
<1> QED BY <1>1, <1>2, <1>3, <1>4 DEF HasExtension

\* The universal assignment u with the universals of a core put to their values
\* there.
Overridden(u, literals) ==
    [x \in Universals |-> IF x \in DOMAIN literals THEN literals[x] ELSE u[x]]

\* What a core consists of.
LEMMA CoreShape ==
    ASSUME CegisTypeOK, NEW core \in Cores
    PROVE  /\ IsCube(core.literals, Variables)
           /\ IsCube(core.arbiters, proper_arbiters)
           /\ \A v \in DOMAIN core.literals \cap Existentials :
                 v \in DOMAIN conflict.existential /\ core.literals[v] = conflict.existential[v]
           /\ \A v \in DOMAIN core.literals \cap Universals :
                 v \in DOMAIN conflict.universal /\ core.literals[v] = conflict.universal[v]
           /\ \A a \in DOMAIN core.arbiters :
                 a \in proper_arbiters /\ core.arbiters[a] = arbiter_assignment[a]
           /\ ~HasExtension(core)
<1>1. /\ core.literals \in SubCubes(Merge(conflict.universal, conflict.existential))
      /\ core.arbiters \in SubCubes(restrictTo(arbiter_assignment, proper_arbiters))
      /\ ~HasExtension(core)
  BY DEF Cores
<1>2. IsCube(conflict.universal, Universals) /\ IsCube(conflict.existential, Existentials)
  BY DEF CegisTypeOK
<1>3. /\ arbiter_assignment \in [introduced -> BOOLEAN]
      /\ proper_arbiters \subseteq introduced
  BY DEF CegisTypeOK
<1>4. PICK D \in SUBSET DOMAIN Merge(conflict.universal, conflict.existential) :
         core.literals = restrictTo(Merge(conflict.universal, conflict.existential), D)
  BY <1>1 DEF SubCubes
<1>5. PICK P \in SUBSET DOMAIN restrictTo(arbiter_assignment, proper_arbiters) :
         core.arbiters = restrictTo(restrictTo(arbiter_assignment, proper_arbiters), P)
  BY <1>1 DEF SubCubes
<1>6. /\ IsCube(core.arbiters, proper_arbiters)
      /\ \A a \in DOMAIN core.arbiters :
            a \in proper_arbiters /\ core.arbiters[a] = arbiter_assignment[a]
  BY <1>3, <1>5 DEF restrictTo, IsCube
<1>7. /\ DOMAIN core.literals \subseteq DOMAIN conflict.universal \cup DOMAIN conflict.existential
      /\ \A v \in DOMAIN core.literals :
            core.literals[v] = IF v \in DOMAIN conflict.universal
                               THEN conflict.universal[v] ELSE conflict.existential[v]
      /\ core.literals = [v \in DOMAIN core.literals |-> core.literals[v]]
  BY <1>4 DEF restrictTo, Merge
<1>8. \A v \in DOMAIN core.literals : core.literals[v] \in BOOLEAN
  BY <1>2, <1>7 DEF IsCube
<1>9. IsCube(core.literals, Variables)
  BY <1>2, <1>7, <1>8 DEF IsCube, Variables
<1> QED BY <1>1, <1>2, <1>6, <1>7, <1>9, PrefixAssumption DEF IsCube

\* A clause learned by forcing holds in every model: where its premise holds and
\* the forced variable has its value in the core, the universals of the core can
\* be put to their values without changing any existential of the core, since
\* the forced variable may read what these may read.
LEMMA ForcingClauseHolds ==
    ASSUME CegisTypeOK, ModelsObey, StoredOrder, DependenciesSound,
           NEW core, IsCube(core.literals, Variables), IsCube(core.arbiters, proper_arbiters),
           ~HasExtension(core),
           NEW m \in DOMAIN core.literals \cap Existentials,
           (DOMAIN core.literals \cap Existentials) \ {m} \subseteq ED(m),
           NEW F \in SkolemModels(dependencies, matrix), NEW u \in UniversalAssignments,
           Agrees(restrictTo(core.literals, ED(m)), Join(u, F[u])),
           ArbitersAgree(core.arbiters, F)
    PROVE  Join(u, F[u])[m] = ~core.literals[m]
<1> DEFINE w == Overridden(u, core.literals)
<1>0. \A v \in DOMAIN core.literals : core.literals[v] \in BOOLEAN
  BY DEF IsCube
<1>1. SUFFICES ASSUME F[u][m] = core.literals[m] PROVE FALSE
  <2>1. F[u][m] \in BOOLEAN /\ core.literals[m] \in BOOLEAN /\ Join(u, F[u])[m] = F[u][m]
    BY <1>0, ModelValues
  <2> QED BY <1>1, <2>1
<1>2. w \in UniversalAssignments
  BY <1>0 DEF Overridden, UniversalAssignments
<1>3. \A v \in DOMAIN core.literals \cap ED(m) : core.literals[v] = Join(u, F[u])[v]
  BY DEF Agrees, restrictTo
<1>4. \A x \in ED(m) \cap Universals : u[x] = w[x]
  BY <1>3, ModelValues DEF Overridden
<1>5. ASSUME NEW d \in DOMAIN core.literals \cap Existentials
      PROVE  Join(w, F[w])[d] = core.literals[d]
  <2>1. ED(d) \subseteq ED(m)
    BY DEF StoredOrder
  <2>2. F[u][d] = F[w][d]
    BY <1>2, <1>4, <2>1 DEF DependenciesSound
  <2>3. F[u][d] = core.literals[d]
    <3>1. Join(u, F[u])[d] = F[u][d]
      BY ModelValues
    <3>2. CASE d = m
      BY <1>1, <3>2
    <3>3. CASE d # m
      <4>1. d \in DOMAIN core.literals \cap ED(m)
        BY <3>3
      <4> QED BY <1>3, <3>1, <4>1
    <3> QED BY <3>2, <3>3
  <2>4. Join(w, F[w])[d] = F[w][d]
    BY <1>2, ModelValues
  <2> QED BY <2>2, <2>3, <2>4
<1>6. ASSUME NEW x \in DOMAIN core.literals \cap Universals
      PROVE  Join(w, F[w])[x] = core.literals[x]
  <2>1. Join(w, F[w])[x] = w[x]
    BY <1>2, ModelValues
  <2> QED BY <2>1 DEF Overridden
<1>7. Agrees(core.literals, Join(w, F[w]))
  BY <1>5, <1>6 DEF Agrees, IsCube, Variables
<1>8. DOMAIN core.arbiters \subseteq introduced
  BY DEF CegisTypeOK, IsCube
<1>9. HasExtension(core)
  <2> HIDE DEF w
  <2> QED BY <1>2, <1>7, <1>8, ModelExtends
<1> QED BY <1>9

\* A model gives some arbiter of an arbiter clause another value than the
\* clause forbids: otherwise it agrees with the core where the conflict was.
LEMMA ArbiterClauseHolds ==
    ASSUME CegisTypeOK, ModelsObey, ConflictInv, pc = "analyze", NEW core \in Cores,
           NEW F \in SkolemModels(dependencies, matrix)
    PROVE  ~ArbitersAgree(Merge(core.arbiters, FailingArbiters(core)), F)
<1>1. SUFFICES ASSUME ArbitersAgree(Merge(core.arbiters, FailingArbiters(core)), F)
               PROVE  FALSE
  OBVIOUS
<1> DEFINE u == conflict.universal
<1>2. u \in UniversalAssignments
  BY DEF ConflictInv
<1>3. DOMAIN FailingArbiters(core) = {ArbiterFor(e, u) : e \in DOMAIN core.literals \cap Existentials}
  BY DEF FailingArbiters
<1>4. \A e \in DOMAIN core.literals \cap Existentials : FailingArbiters(core)[ArbiterFor(e, u)] = core.literals[e]
  BY DEF FailingArbiters, ArbiterFor
<1>5. ArbitersAgree(core.arbiters, F)
  BY <1>1 DEF ArbitersAgree, Merge
<1>6. ASSUME NEW e \in DOMAIN core.literals \cap Existentials PROVE F[u][e] = core.literals[e]
  <2>1. PICK d \in [dependencies[e] -> BOOLEAN] : Agrees(d, u) /\ ArbiterFor(e, u) = <<e, d>>
    <3>1. [x \in dependencies[e] |-> u[x]] \in [dependencies[e] -> BOOLEAN]
      BY <1>2 DEF CegisTypeOK, UniversalAssignments
    <3> QED BY <3>1 DEF Agrees, ArbiterFor
  <2>2. ArbiterValue(F, <<e, d>>) = F[u][e]
    BY <1>2, <2>1, ArbiterValueAt
  <2>3. CASE <<e, d>> \in DOMAIN core.arbiters
    <3>1. core.arbiters[<<e, d>>] = ArbiterValue(F, <<e, d>>)
      BY <1>5, <2>3 DEF ArbitersAgree
    <3>2. <<e, d>> \in proper_arbiters /\ core.arbiters[<<e, d>>] = arbiter_assignment[<<e, d>>]
      BY <2>3, CoreShape
    <3>3. e \in DOMAIN conflict.existential /\ core.literals[e] = conflict.existential[e]
      BY CoreShape
    <3>4. arbiter_assignment[<<e, d>>] = conflict.existential[e]
      BY <2>1, <3>2, <3>3 DEF ConflictInv
    <3> QED BY <2>2, <3>1, <3>2, <3>3, <3>4
  <2>4. CASE <<e, d>> \notin DOMAIN core.arbiters
    <3>1. <<e, d>> \in DOMAIN FailingArbiters(core) /\ FailingArbiters(core)[<<e, d>>] = core.literals[e]
      BY <1>3, <1>4, <2>1
    <3>2. Merge(core.arbiters, FailingArbiters(core))[<<e, d>>] = ArbiterValue(F, <<e, d>>)
      BY <1>1, <3>1 DEF ArbitersAgree, Merge
    <3> QED BY <2>2, <2>4, <3>1, <3>2 DEF Merge
  <2> QED BY <2>3, <2>4
<1>7. ASSUME NEW v \in DOMAIN core.literals PROVE core.literals[v] = Join(u, F[u])[v]
  <2>1. CASE v \in Existentials
    BY <1>2, <1>6, <2>1, ModelValues
  <2>2. CASE v \in Universals
    BY <1>2, <2>2, ModelValues, CoreShape
  <2> QED BY <2>1, <2>2, CoreShape DEF IsCube, Variables
<1>8. HasExtension(core)
  <2>1. Agrees(core.literals, Join(u, F[u]))
    BY <1>7 DEF Agrees
  <2>2. DOMAIN core.arbiters \subseteq introduced
    BY CoreShape DEF CegisTypeOK
  <2> HIDE DEF u
  <2> QED BY <1>2, <1>5, <2>1, <2>2, ModelExtends
<1> QED BY <1>8, CoreShape

--------------------------------------------------------------------------------
(***************************************************************************)
(* The invariant holds at first.                                           *)
(***************************************************************************)

LEMMA EmptyCube == ASSUME NEW D PROVE IsCube(EmptyMap, D) /\ DOMAIN EmptyMap = {}
BY DEF IsCube, EmptyMap

LEMMA InitDependency ==
    ASSUME CegisInit
    PROVE  DependencyInv /\ dependencies \in [Existentials -> SUBSET Universals]
<1>1. PICK pre \in InputPrefixes, dep \in [Existentials -> SUBSET Universals] :
          /\ \A e \in Existentials : dep[e] \subseteq pre[e]
          /\ ContainerInit(pre, dep, config["extended_dependencies"])
  BY DEF CegisInit, SetupInit
<1>2. dependencies = dep /\ Computed = {}
  BY <1>1 DEF ContainerInit, Computed
<1>3. \A e \in DOMAIN ext : dependencies[e] \subseteq ext[e]
  <2>1. CASE config["extended_dependencies"]
    BY <1>1, <2>1 DEF ContainerInit, computeExtendedDependencies
  <2>2. CASE ~config["extended_dependencies"]
    BY <1>1, <2>2 DEF ContainerInit
  <2> QED BY <2>1, <2>2
<1> QED BY <1>1, <1>2, <1>3 DEF DependencyInv, CegisInit

LEMMA CegisInitHolds == CegisInit => CegisInv
<1> SUFFICES ASSUME CegisInit PROVE CegisInv
  OBVIOUS
<1>1. IInv
  BY InitType, InitCertified DEF IInv, CegisInit
<1>2. DependencyInv /\ dependencies \in [Existentials -> SUBSET Universals]
  BY InitDependency
<1>3. undefined = Existentials /\ phase = "start"
  BY DEF CegisInit, SetupInit, ContainerInit, PassInit
<1>4. CegisTypeOK
  <2>1. SetupTypeOK
    BY <1>1 DEF IInv, TypeInv
  <2>2. /\ DOMAIN definitions = Existentials \ undefined
        /\ \A v \in DOMAIN definitions :
              \E S \in SUBSET Variables : definitions[v] \in [[S -> BOOLEAN] -> BOOLEAN]
    BY <1>3, EmptyCube DEF CegisInit
  <2>3. /\ introduced = {} /\ arbiter_assignment \in [introduced -> BOOLEAN]
        /\ IsCube(default, Existentials)
    BY EmptyCube DEF CegisInit, IsCube, introduced
  <2>4. IsCube(conflict.universal, Universals) /\ IsCube(conflict.existential, Existentials)
    BY EmptyCube DEF CegisInit, NoConflict
  <2>5. unchecked \in 0..(CheckEvery - 1) /\ turn \in 0..(RandomEvery - 1)
    BY CegisAssumption DEF CegisInit
  <2> QED BY <1>2, <2>2, <2>3, <2>4, <2>5, <2>1 DEF CegisTypeOK, CegisInit
<1>5. ConflictInv /\ ModelsObey /\ UnsatSound
  BY DEF CegisInit, ConflictInv, ModelsObey, UnsatSound
<1> QED BY <1>1, <1>2, <1>4, <1>5 DEF CegisInv

--------------------------------------------------------------------------------
(***************************************************************************)
(* The setup goes on as it would without the loop.                         *)
(***************************************************************************)

LEMMA FindDefinitionsSimulates == FindDefinitions => SetupNext
BY DEF FindDefinitions, FindDefinition, SetupNext, SetupStep

LEMMA SetupSimulated == [CegisNext]_cegisVars => [SetupNext]_setupVars
<1> SUFFICES ASSUME [CegisNext]_cegisVars PROVE [SetupNext]_setupVars
  OBVIOUS
<1>1. CASE FindDefinitions
  BY <1>1, FindDefinitionsSimulates
<1>2. CASE InitDefaultValues
  BY <1>2 DEF InitDefaultValues, SetupNext, SetupStep
<1>3. CASE BeginIteration
  BY <1>3 DEF BeginIteration
<1>4. CASE checkArbiterAssignment
  BY <1>4 DEF checkArbiterAssignment
<1>5. CASE analyzeConflict
  BY <1>5 DEF analyzeConflict
<1>6. CASE findArbiterAssignment
  BY <1>6 DEF findArbiterAssignment
<1>7. CASE Interrupt
  BY <1>7 DEF Interrupt
<1>8. CASE UNCHANGED cegisVars
  BY <1>8 DEF cegisVars
<1>9. CASE forcingClausesFromMatrix
  BY <1>9 DEF forcingClausesFromMatrix
<1> QED BY <1>1, <1>2, <1>3, <1>4, <1>5, <1>6, <1>7, <1>8, <1>9 DEF CegisNext, Search

LEMMA SetupInvariantKept == IInv /\ [CegisNext]_cegisVars => IInv'
BY SetupSimulated, StepType, StepCertified DEF IInv

\* What no step of the loop touches.
LEMMA DependencyKept ==
    ASSUME DependencyInv, UNCHANGED <<prefix, dependencies, ext, supports, matrix>>
    PROVE  DependencyInv'
BY DEF DependencyInv, Computed

LEMMA LearnedKept ==
    ASSUME ModelsObey, UNCHANGED <<dependencies, matrix, forcing, arbiter_clauses>>
    PROVE  ModelsObey'
BY DEF ModelsObey

LEMMA UnsatKept ==
    ASSUME UnsatSound, UNCHANGED <<prefix, matrix, verdict>>
    PROVE  UnsatSound'
BY DEF UnsatSound

--------------------------------------------------------------------------------
(***************************************************************************)
(* One lemma for each action.                                              *)
(***************************************************************************)

\* checkDefined without a definition.
LEMMA NothingDefined ==
    ASSUME BeginRound \/ SkipRounds \/ EndIteration \/ (\E v \in queue : NotDefined(v)), DependencyInv
    PROVE  /\ UNCHANGED <<prefix, dependencies, supports, undefined>>
           /\ \A e \in DOMAIN ext : dependencies[e] \subseteq ext[e] /\ ext[e] \subseteq ext'[e]
           /\ DOMAIN ext' = DOMAIN ext
<1>1. CASE BeginRound \/ SkipRounds \/ \E v \in queue : NotDefined(v)
  BY <1>1 DEF BeginRound, SkipRounds, NotDefined, containerVars, DependencyInv
<1>2. CASE EndIteration
  BY <1>2 DEF EndIteration, performUpdate, DependencyInv
<1> QED BY <1>1, <1>2

\* A definition found leaves its variable defined by its support.
LEMMA SomethingDefined ==
    ASSUME IInv, DependencyInv, NEW v \in queue, NEW S \in SUBSET ED(v),
           FindDefinition(v, S), UNCHANGED matrix
    PROVE  /\ UNCHANGED <<prefix, dependencies>>
           /\ DependencyInv'
<1>1. Defined(v, S) /\ Definable(matrix, v, S)
  BY DEF FindDefinition
<1>2. v \notin Computed
  BY <1>1, QueueStored DEF Defined, NextInQueue, IInv
<1>3. CASE config["dynamic_dependencies"]
  <2>1. scheduleUpdate(v, S)
    BY <1>1, <1>3 DEF Defined
  <2>2. UNCHANGED <<prefix, dependencies>>
    BY <2>1 DEF scheduleUpdate
  <2>3. \A e \in DOMAIN ext' : dependencies'[e] \subseteq ext'[e]
    BY <2>1 DEF scheduleUpdate, DependencyInv
  <2>4. \A c \in Computed' : Definable(matrix', c, supports'[c])
    BY <1>1, <1>2, <2>1 DEF scheduleUpdate, DependencyInv, Computed
  <2> QED BY <2>2, <2>3, <2>4 DEF DependencyInv
<1>4. CASE ~config["dynamic_dependencies"]
  BY <1>1, <1>4, DependencyKept DEF Defined
<1> QED BY <1>3, <1>4

LEMMA FindDefinitionsKeeps ==
    ASSUME CegisInv, FindDefinitions
    PROVE  CegisInv'
<1>1. IInv'
  BY SetupInvariantKept DEF CegisInv, CegisNext, Search
<1>2. /\ UNCHANGED <<matrix, forcing, arbiter_assignment, proper_arbiters, arbiter_clauses,
                     conflict, unchecked, turn, verdict, default, pc>>
      /\ pc = "setup"
  BY DEF FindDefinitions, SetupUnchanged
<1>3. /\ UNCHANGED <<prefix, dependencies>>
      /\ DependencyInv'
      /\ DOMAIN definitions' = Existentials \ undefined'
      /\ \A v \in DOMAIN definitions' :
            \E S \in SUBSET Variables : definitions'[v] \in [[S -> BOOLEAN] -> BOOLEAN]
  <2>1. CASE /\ BeginRound \/ SkipRounds \/ EndIteration \/ \E v \in queue : NotDefined(v)
             /\ UNCHANGED definitions
    <3>1. UNCHANGED <<prefix, dependencies, supports, undefined>>
      BY <2>1, NothingDefined DEF CegisInv
    <3>2. DependencyInv'
      BY <1>2, <2>1, <3>1, NothingDefined DEF CegisInv, DependencyInv, Computed
    <3> QED BY <2>1, <3>1, <3>2 DEF CegisInv, CegisTypeOK
  <2>2. CASE \E v \in queue : \E S \in SUBSET ED(v) : FindDefinition(v, S)
    <3>1. PICK v \in queue : \E S \in SUBSET ED(v) : FindDefinition(v, S)
      BY <2>2
    <3>2. PICK S \in SUBSET ED(v) : FindDefinition(v, S)
      BY <3>1
    <3>3. UNCHANGED <<prefix, dependencies>> /\ DependencyInv'
      BY <1>2, <3>2, SomethingDefined DEF CegisInv
    <3>4. undefined' = undefined \ {v} /\ v \in Existentials /\ S \in SUBSET Variables
      BY <3>2, QueueStored DEF FindDefinition, Defined, NextInQueue, CegisInv, IInv
    <3>5. PICK g \in Interpolants(v, S) :
             definitions' = [w \in DOMAIN definitions \cup {v} |->
                                IF w = v THEN g ELSE definitions[w]]
      BY <3>2 DEF FindDefinition
    <3>6. g \in [[S -> BOOLEAN] -> BOOLEAN]
      BY DEF Interpolants
    <3>7. /\ DOMAIN definitions = Existentials \ undefined
          /\ \A w \in DOMAIN definitions :
                \E T \in SUBSET Variables : definitions[w] \in [[T -> BOOLEAN] -> BOOLEAN]
      BY DEF CegisInv, CegisTypeOK
    <3>8. DOMAIN definitions' = Existentials \ undefined'
      BY <3>4, <3>5, <3>7
    <3>9. \A w \in DOMAIN definitions' :
             \E T \in SUBSET Variables : definitions'[w] \in [[T -> BOOLEAN] -> BOOLEAN]
      BY <3>4, <3>5, <3>6, <3>7
    <3> QED BY <3>3, <3>8, <3>9
  <2> QED BY <2>1, <2>2 DEF FindDefinitions
<1>4. CegisTypeOK'
  BY <1>1, <1>2, <1>3 DEF IInv, TypeInv, CegisInv, CegisTypeOK, introduced, IsForcingClause, IsArbiter
<1>5. ConflictInv' /\ ModelsObey' /\ UnsatSound'
  BY <1>2, <1>3, LearnedKept, UnsatKept DEF CegisInv, ConflictInv
<1> QED BY <1>1, <1>3, <1>4, <1>5 DEF CegisInv

LEMMA InitDefaultValuesKeeps ==
    ASSUME CegisInv, InitDefaultValues
    PROVE  CegisInv'
<1>1. IInv'
  BY SetupInvariantKept DEF CegisInv, CegisNext, Search
<1>2. /\ UNCHANGED <<matrix, forcing, arbiter_assignment, proper_arbiters, arbiter_clauses,
                     conflict, unchecked, turn, verdict, definitions>>
      /\ pc = "setup" /\ pc' \in {"matrix", "head"}
      /\ default' = [v \in undefined |-> TRUE]
      /\ UNCHANGED containerVars
  BY DEF InitDefaultValues, SetupUnchanged, SkipUnates
<1>3. UNCHANGED <<prefix, dependencies, ext, supports, undefined>>
  BY <1>2 DEF containerVars
<1>4. IsCube(default', Existentials)
  BY <1>2 DEF CegisInv, CegisTypeOK, SetupTypeOK, ContainerTypeOK, IsCube
<1>5. CegisTypeOK'
  BY <1>1, <1>2, <1>3, <1>4
     DEF IInv, TypeInv, CegisInv, CegisTypeOK, introduced, IsForcingClause, IsArbiter
<1>6. ConflictInv' /\ ModelsObey' /\ UnsatSound' /\ DependencyInv'
  BY <1>2, <1>3, LearnedKept, UnsatKept, DependencyKept DEF CegisInv, ConflictInv
<1> QED BY <1>1, <1>5, <1>6 DEF CegisInv

\* In the loop the setup does not change.
LEMMA SetupKept ==
    ASSUME CegisInv, UNCHANGED <<setupVars, matrix>>
    PROVE  /\ IInv' /\ SetupTypeOK'
           /\ DependencyInv'
           /\ UNCHANGED <<prefix, dependencies, undefined, ext, supports>>
<1>1. UNCHANGED <<prefix, dependencies, ext, supports, undefined>>
  BY DEF setupVars, containerVars
<1>2. IInv'
  BY StepType, StepCertified DEF CegisInv, IInv
<1> QED BY <1>1, <1>2, DependencyKept DEF CegisInv, IInv, TypeInv

\* What a clause of the matrix forbids is a core without arbiters.
LEMMA MatrixClauseShape ==
    ASSUME NEW core \in MatrixClauses
    PROVE  /\ IsCube(core.literals, Variables) /\ core.arbiters = EmptyMap
           /\ ~HasExtension(core)
<1>1. PICK c \in UNION {[D -> BOOLEAN] : D \in SUBSET Variables} :
         /\ core = [literals |-> c, arbiters |-> EmptyMap]
         /\ \A s \in matrix : ~Agrees(c, s)
  BY DEF MatrixClauses
<1>2. PICK D \in SUBSET Variables : c \in [D -> BOOLEAN]
  OBVIOUS
<1> QED BY <1>1, <1>2 DEF IsCube, HasExtension

\* What a step of forcingClausesFromMatrix learns.
LEMMA MatrixForcing ==
    ASSUME forcingClausesFromMatrix, NEW c \in forcing' \ forcing
    PROVE  \E core \in MatrixClauses, m \in undefined :
              /\ m \in DOMAIN core.literals
              /\ (DOMAIN core.literals \cap Existentials) \ {m} \subseteq ED(m)
              /\ c = getForcingClause(core, m)
BY DEF forcingClausesFromMatrix, HasForcingClause, includedInExtendedDependencies, analyzeForcingConflict

LEMMA forcingClausesFromMatrixKeeps ==
    ASSUME CegisInv, forcingClausesFromMatrix
    PROVE  CegisInv'
<1>1. /\ UNCHANGED <<setupVars, matrix, definitions, arbiter_assignment,
                     proper_arbiters, arbiter_clauses, conflict, unchecked, turn, verdict>>
      /\ pc = "matrix" /\ pc' \in {"matrix", "head"}
      /\ forcing \subseteq forcing'
  BY DEF forcingClausesFromMatrix, analyzeForcingConflict
<1>2. /\ IInv' /\ SetupTypeOK' /\ DependencyInv'
      /\ UNCHANGED <<prefix, dependencies, undefined>>
  BY <1>1, SetupKept
<1>3. undefined \subseteq Existentials
  BY DEF CegisInv, CegisTypeOK, SetupTypeOK, ContainerTypeOK
<1>4. IsCube(default', Existentials)
  <2>1. CASE UNCHANGED default
    BY <2>1 DEF CegisInv, CegisTypeOK
  <2>2. CASE \E core \in MatrixClauses, m \in undefined :
                m \in DOMAIN core.literals /\ default' = Opposed({m}, core)
    <3>1. PICK core \in MatrixClauses, m \in undefined :
                  m \in DOMAIN core.literals /\ default' = Opposed({m}, core)
      BY <2>2
    <3>2. (~core.literals[m]) \in BOOLEAN /\ IsCube(default, Existentials)
      BY DEF CegisInv, CegisTypeOK
    <3> QED BY <3>1, <3>2 DEF Opposed, IsCube
  <2> QED BY <2>1, <2>2 DEF forcingClausesFromMatrix, HasForcingClause
<1>5. \A c \in forcing' : IsForcingClause(c)
  <2>1. SUFFICES ASSUME NEW c \in forcing' \ forcing PROVE IsForcingClause(c)
    BY DEF CegisInv, CegisTypeOK
  <2>2. PICK core \in MatrixClauses, m \in undefined :
              m \in DOMAIN core.literals /\ c = getForcingClause(core, m)
    BY MatrixForcing
  <2>3. IsCube(core.literals, Variables) /\ core.arbiters = EmptyMap
    BY MatrixClauseShape
  <2>4. IsCube(restrictTo(core.literals, ED(m)), Variables)
    BY <2>3 DEF restrictTo, IsCube
  <2>5. (~core.literals[m]) \in BOOLEAN /\ IsCube(EmptyMap, proper_arbiters)
    BY EmptyCube
  <2> QED BY <1>3, <2>2, <2>3, <2>4, <2>5 DEF getForcingClause, restrictToExtendedDendencies, IsForcingClause
<1>6. CegisTypeOK'
  <2>1. pc' = "done" <=> verdict' # "none"
    BY <1>1 DEF CegisInv, CegisTypeOK
  <2> QED BY <1>1, <1>2, <1>4, <1>5, <2>1
          DEF CegisInv, CegisTypeOK, introduced, IsForcingClause, IsArbiter
<1>7. ModelsObey'
  <2>1. StoredOrder /\ DependenciesSound
    BY OrderFromInvariant, Determined DEF CegisInv, CegisTypeOK
  <2>2. SUFFICES ASSUME NEW F \in SkolemModels(dependencies, matrix), NEW c \in forcing',
                        NEW u \in UniversalAssignments,
                        Agrees(c.premise, Join(u, F[u])), ArbitersAgree(c.arbiters, F)
                 PROVE  Join(u, F[u])[c.var] = c.val
    BY <1>1, <1>2 DEF CegisInv, ModelsObey
  <2>3. CASE c \in forcing
    BY <2>2, <2>3 DEF CegisInv, ModelsObey
  <2>4. CASE c \notin forcing
    <3>1. PICK core \in MatrixClauses, m \in undefined :
              /\ m \in DOMAIN core.literals
              /\ (DOMAIN core.literals \cap Existentials) \ {m} \subseteq ED(m)
              /\ c = getForcingClause(core, m)
      BY <2>4, MatrixForcing
    <3>2. /\ c.premise = restrictTo(core.literals, ED(m)) /\ c.arbiters = core.arbiters
          /\ c.var = m /\ c.val = ~core.literals[m]
      BY <3>1 DEF getForcingClause, restrictToExtendedDendencies
    <3>3. /\ IsCube(core.literals, Variables) /\ IsCube(core.arbiters, proper_arbiters)
          /\ ~HasExtension(core)
      BY MatrixClauseShape, EmptyCube
    <3>4. Join(u, F[u])[m] = ~core.literals[m]
      BY <1>3, <2>1, <2>2, <3>1, <3>2, <3>3, ForcingClauseHolds DEF CegisInv
    <3> QED BY <3>2, <3>4
  <2> QED BY <2>3, <2>4
<1>8. ConflictInv' /\ UnsatSound'
  BY <1>1, <1>2, UnsatKept DEF CegisInv, ConflictInv
<1> QED BY <1>2, <1>6, <1>7, <1>8 DEF CegisInv

LEMMA BeginIterationKeeps ==
    ASSUME CegisInv, BeginIteration
    PROVE  CegisInv'
<1>1. /\ UNCHANGED <<setupVars, matrix, definitions, forcing, arbiter_assignment,
                     proper_arbiters, arbiter_clauses, conflict, unchecked, verdict>>
      /\ pc = "head" /\ pc' = "check"
      /\ turn' = (turn + 1) % RandomEvery
      /\ default' \in IF turn' = 0 THEN [undefined -> BOOLEAN] ELSE {default}
  BY DEF BeginIteration
<1>2. /\ IInv' /\ SetupTypeOK' /\ DependencyInv'
      /\ UNCHANGED <<prefix, dependencies, undefined>>
  BY <1>1, SetupKept
<1>3. turn' \in 0..(RandomEvery - 1)
  BY <1>1, CegisAssumption DEF CegisInv, CegisTypeOK
<1>4. IsCube(default', Existentials)
  BY <1>1 DEF CegisInv, CegisTypeOK, SetupTypeOK, ContainerTypeOK, IsCube
<1>5. CegisTypeOK'
  BY <1>1, <1>2, <1>3, <1>4
     DEF CegisInv, CegisTypeOK, introduced, IsForcingClause, IsArbiter
<1>6. ConflictInv' /\ ModelsObey' /\ UnsatSound'
  BY <1>1, <1>2, LearnedKept, UnsatKept DEF CegisInv, ConflictInv
<1> QED BY <1>2, <1>5, <1>6 DEF CegisInv

\* Join looks universals and existentials up.
LEMMA JoinValues ==
    ASSUME NEW u \in UniversalAssignments, NEW r \in Responses
    PROVE  /\ \A x \in Universals : Join(u, r)[x] = u[x]
           /\ \A e \in Existentials : Join(u, r)[e] = r[e]
BY PrefixAssumption DEF Join, Variables

\* An answer that follows the rules has the values of the realised arbiters.
LEMMA RealisedFollowed ==
    ASSUME CegisTypeOK, NEW u \in UniversalAssignments, NEW r \in Responses,
           NEW e \in Existentials, Follows(e, Join(u, r)),
           NEW a \in proper_arbiters, a[1] = e, Agrees(a[2], u)
    PROVE  arbiter_assignment[a] = r[e]
<1>1. a \in introduced /\ IsArbiter(a) /\ arbiter_assignment[a] \in BOOLEAN
  BY DEF CegisTypeOK
<1>2. PICK f \in Existentials : \E d \in [dependencies[f] -> BOOLEAN] : a = <<f, d>>
  BY <1>1 DEF IsArbiter
<1>3. PICK d \in [dependencies[f] -> BOOLEAN] : a = <<f, d>>
  BY <1>2
<1>4. DOMAIN a[2] \subseteq Universals
  BY <1>3 DEF CegisTypeOK
<1>5. Agrees(a[2], Join(u, r))
  BY <1>4, JoinValues DEF Agrees
<1>6. Fires(e, arbiter_assignment[a], Join(u, r))
  BY <1>5 DEF Fires
<1>7. Join(u, r)[e] = arbiter_assignment[a]
  BY <1>1, <1>6 DEF Follows
<1> QED BY <1>7, JoinValues

\* What a counterexample of either check consists of.
LEMMA CounterexampleShape ==
    ASSUME CegisTypeOK, NEW c \in Counterexamples \cup Inconsistencies
    PROVE  /\ c.universal \in UniversalAssignments
           /\ IsCube(c.existential, Existentials)
           /\ \A e \in DOMAIN c.existential, a \in proper_arbiters :
                 a[1] = e /\ Agrees(a[2], c.universal)
                     => arbiter_assignment[a] = c.existential[e]
<1>1. CASE c \in Counterexamples
  <2>1. PICK z \in UniversalAssignments \X Responses :
           /\ c = [universal |-> z[1], existential |-> z[2]]
           /\ \A e \in Existentials : Follows(e, Join(z[1], z[2]))
    BY <1>1 DEF Counterexamples
  <2>2. c.universal = z[1] /\ c.existential = z[2] /\ z[1] \in UniversalAssignments /\ z[2] \in Responses
    BY <2>1
  <2>3. IsCube(c.existential, Existentials) /\ DOMAIN c.existential = Existentials
    BY <2>2 DEF IsCube, Responses
  <2> QED BY <2>1, <2>2, <2>3, RealisedFollowed
<1>2. CASE c \in Inconsistencies
  <2>1. PICK f \in Existentials : c \in InconsistenciesAt(f)
    BY <1>2 DEF Inconsistencies
  <2>2. PICK z \in UniversalAssignments \X Responses :
           /\ c = [universal |-> z[1], existential |-> restrictTo(z[2], ExistentialED(f))]
           /\ \A d \in ExistentialED(f) : Follows(d, Join(z[1], z[2]))
    BY <2>1 DEF InconsistenciesAt
  <2>3. /\ c.universal = z[1] /\ c.existential = restrictTo(z[2], ExistentialED(f))
        /\ z[1] \in UniversalAssignments /\ z[2] \in Responses
    BY <2>2
  <2>4. ExistentialED(f) \subseteq Existentials
    BY DEF ExistentialED
  <2>5. /\ DOMAIN c.existential = ExistentialED(f)
        /\ \A e \in ExistentialED(f) : c.existential[e] = z[2][e]
    BY <2>3, <2>4 DEF restrictTo, Responses
  <2>6. IsCube(c.existential, Existentials)
    BY <2>3, <2>4 DEF restrictTo, Responses, IsCube
  <2> QED BY <2>2, <2>3, <2>4, <2>5, <2>6, RealisedFollowed
<1> QED BY <1>1, <1>2

LEMMA checkArbiterAssignmentKeeps ==
    ASSUME CegisInv, checkArbiterAssignment
    PROVE  CegisInv'
<1>1. /\ UNCHANGED <<setupVars, matrix, definitions, default, forcing, arbiter_assignment,
                     proper_arbiters, arbiter_clauses, unchecked, turn>>
      /\ pc = "check"
      /\ \/ pc' = "done" /\ verdict' = "sat" /\ UNCHANGED conflict
         \/ /\ pc' = "analyze" /\ UNCHANGED verdict
            /\ conflict' \in Counterexamples \cup Inconsistencies
  BY DEF checkArbiterAssignment, ruleVars
<1>2. /\ IInv' /\ SetupTypeOK' /\ DependencyInv'
      /\ UNCHANGED <<prefix, dependencies, undefined>>
  BY <1>1, SetupKept
<1>3. IsCube(conflict'.universal, Universals) /\ IsCube(conflict'.existential, Existentials)
  BY <1>1, CounterexampleShape DEF CegisInv, CegisTypeOK, UniversalAssignments, IsCube
<1>4. CegisTypeOK'
  <2>1. pc' = "done" <=> verdict' # "none"
    BY <1>1 DEF CegisInv, CegisTypeOK
  <2> QED BY <1>1, <1>2, <1>3, <2>1
          DEF CegisInv, CegisTypeOK, introduced, IsForcingClause, IsArbiter
<1>5. ConflictInv'
  BY <1>1, CounterexampleShape DEF CegisInv, ConflictInv
<1>6. ModelsObey' /\ UnsatSound'
  BY <1>1, <1>2, LearnedKept, UnsatKept DEF CegisInv, UnsatSound
<1> QED BY <1>2, <1>4, <1>5, <1>6 DEF CegisInv

\* The arbiters of a conflict.
LEMMA FailingShape ==
    ASSUME CegisTypeOK, conflict.universal \in UniversalAssignments, NEW core \in Cores
    PROVE  /\ \A a \in DOMAIN FailingArbiters(core) : IsArbiter(a)
           /\ FailingArbiters(core) \in [DOMAIN FailingArbiters(core) -> BOOLEAN]
<1>1. DOMAIN FailingArbiters(core) =
         {ArbiterFor(e, conflict.universal) : e \in DOMAIN core.literals \cap Existentials}
  BY DEF FailingArbiters
<1>2. ASSUME NEW e \in DOMAIN core.literals \cap Existentials
      PROVE  /\ IsArbiter(ArbiterFor(e, conflict.universal))
             /\ core.literals[ArbiterFor(e, conflict.universal)[1]] \in BOOLEAN
  <2>1. [x \in dependencies[e] |-> conflict.universal[x]] \in [dependencies[e] -> BOOLEAN]
    BY DEF CegisTypeOK, UniversalAssignments
  <2>2. core.literals[e] \in BOOLEAN
    BY CoreShape DEF IsCube
  <2> QED BY <2>1, <2>2 DEF ArbiterFor, IsArbiter
<1> QED BY <1>1, <1>2 DEF FailingArbiters

\* An arbiter clause keeps the types.
LEMMA AddArbiterClauseType ==
    ASSUME CegisTypeOK, conflict.universal \in UniversalAssignments, NEW core \in Cores,
           NEW linked \in BOOLEAN, AddArbiterClause(core, linked)
    PROVE  /\ introduced \subseteq introduced'
           /\ proper_arbiters \subseteq proper_arbiters' /\ proper_arbiters' \subseteq introduced'
           /\ \A a \in introduced' : IsArbiter(a)
           /\ arbiter_assignment' \in [introduced' -> BOOLEAN]
           /\ \A c \in arbiter_clauses' : IsCube(c, introduced')
           /\ arbiter_clauses' =
                 arbiter_clauses \cup {Merge(core.arbiters, FailingArbiters(core))}
<1> DEFINE failing == FailingArbiters(core)
<1>1. /\ arbiter_assignment' = Merge(arbiter_assignment, failing)
      /\ proper_arbiters' = IF linked THEN proper_arbiters \cup DOMAIN failing ELSE proper_arbiters
      /\ arbiter_clauses' = arbiter_clauses \cup {Merge(core.arbiters, failing)}
  BY DEF AddArbiterClause
<1>2. /\ \A a \in DOMAIN failing : IsArbiter(a)
      /\ failing \in [DOMAIN failing -> BOOLEAN]
  BY FailingShape
<1> HIDE DEF failing
<1>3. /\ arbiter_assignment \in [introduced -> BOOLEAN]
      /\ proper_arbiters \subseteq introduced
      /\ \A a \in introduced : IsArbiter(a)
      /\ \A c \in arbiter_clauses : IsCube(c, introduced)
  BY DEF CegisTypeOK
<1>4. introduced' = introduced \cup DOMAIN failing
  BY <1>1, <1>3 DEF Merge, introduced
<1>5. arbiter_assignment' \in [introduced' -> BOOLEAN]
  BY <1>1, <1>2, <1>3, <1>4 DEF Merge
<1>6. IsCube(core.arbiters, introduced)
  BY <1>3, CoreShape DEF IsCube
<1>7. IsCube(Merge(core.arbiters, failing), introduced')
  BY <1>2, <1>4, <1>6 DEF Merge, IsCube
<1>8. \A c \in arbiter_clauses' : IsCube(c, introduced')
  BY <1>1, <1>3, <1>4, <1>7 DEF IsCube
<1> QED BY <1>1, <1>2, <1>3, <1>4, <1>5, <1>8 DEF failing

\* What a core adds holds in every model.
LEMMA LearnedObeyed ==
    ASSUME CegisInv, pc = "analyze", NEW core \in Cores, UNCHANGED <<dependencies, matrix>>,
           arbiter_clauses' \subseteq
               arbiter_clauses \cup {Merge(core.arbiters, FailingArbiters(core))},
           \A c \in forcing' \ forcing : \E m \in DOMAIN core.literals \cap Existentials :
               /\ (DOMAIN core.literals \cap Existentials) \ {m} \subseteq ED(m)
               /\ c = getForcingClause(core, m)
    PROVE  ModelsObey'
<1>1. StoredOrder /\ DependenciesSound
  BY OrderFromInvariant, Determined DEF CegisInv, CegisTypeOK
<1>2. SUFFICES ASSUME NEW F \in SkolemModels(dependencies, matrix)
               PROVE  /\ \A c \in forcing' : \A u \in UniversalAssignments :
                            Agrees(c.premise, Join(u, F[u])) /\ ArbitersAgree(c.arbiters, F)
                                => Join(u, F[u])[c.var] = c.val
                      /\ \A c \in arbiter_clauses' : ~ArbitersAgree(c, F)
  BY DEF ModelsObey
<1>3. ASSUME NEW c \in forcing', NEW u \in UniversalAssignments,
             Agrees(c.premise, Join(u, F[u])), ArbitersAgree(c.arbiters, F)
      PROVE  Join(u, F[u])[c.var] = c.val
  <2>1. CASE c \in forcing
    BY <1>3, <2>1 DEF CegisInv, ModelsObey
  <2>2. CASE c \notin forcing
    <3>1. PICK m \in DOMAIN core.literals \cap Existentials :
             /\ (DOMAIN core.literals \cap Existentials) \ {m} \subseteq ED(m)
             /\ c = getForcingClause(core, m)
      BY <2>2
    <3>2. /\ c.premise = restrictTo(core.literals, ED(m)) /\ c.arbiters = core.arbiters
          /\ c.var = m /\ c.val = ~core.literals[m]
      BY <3>1 DEF getForcingClause, restrictToExtendedDendencies
    <3>3. Join(u, F[u])[m] = ~core.literals[m]
      BY <1>1, <1>3, <3>1, <3>2, ForcingClauseHolds, CoreShape DEF CegisInv
    <3> QED BY <3>2, <3>3
  <2> QED BY <2>1, <2>2
<1>4. ASSUME NEW c \in arbiter_clauses' PROVE ~ArbitersAgree(c, F)
  <2>1. CASE c \in arbiter_clauses
    BY <2>1 DEF CegisInv, ModelsObey
  <2>2. CASE c = Merge(core.arbiters, FailingArbiters(core))
    BY <2>2, ArbiterClauseHolds DEF CegisInv
  <2> QED BY <2>1, <2>2
<1> QED BY <1>3, <1>4

\* The default values stay values of existential variables.
LEMMA OpposedType ==
    ASSUME CegisTypeOK, NEW core \in Cores, NEW E, E \subseteq DOMAIN core.literals
    PROVE  IsCube(Opposed(E, core), Existentials)
<1>1. IsCube(default, Existentials)
  BY DEF CegisTypeOK
<1> QED BY <1>1 DEF Opposed, IsCube

\* A forcing clause learned has its type.
LEMMA ForcingType ==
    ASSUME CegisTypeOK, NEW core \in Cores, NEW m \in DOMAIN core.literals \cap Existentials
    PROVE  IsForcingClause(getForcingClause(core, m))
<1>1. IsCube(core.literals, Variables) /\ IsCube(core.arbiters, proper_arbiters)
  BY CoreShape
<1>2. IsCube(restrictTo(core.literals, ED(m)), Variables)
  BY <1>1 DEF restrictTo, IsCube
<1>3. (~core.literals[m]) \in BOOLEAN
  OBVIOUS
<1> QED BY <1>1, <1>2, <1>3 DEF getForcingClause, restrictToExtendedDendencies, IsForcingClause

\* What both ways to analyse a conflict leave.
LearningType(core) ==
    /\ introduced \subseteq introduced'
    /\ proper_arbiters \subseteq proper_arbiters' /\ proper_arbiters' \subseteq introduced'
    /\ \A a \in introduced' : IsArbiter(a)
    /\ arbiter_assignment' \in [introduced' -> BOOLEAN]
    /\ \A c \in arbiter_clauses' : IsCube(c, introduced')
    /\ \A c \in forcing' \ forcing : \E m \in DOMAIN core.literals \cap Existentials :
           /\ (DOMAIN core.literals \cap Existentials) \ {m} \subseteq ED(m)
           /\ c = getForcingClause(core, m)
    /\ arbiter_clauses' \subseteq
           arbiter_clauses \cup {Merge(core.arbiters, FailingArbiters(core))}
    /\ IsCube(default', Existentials)
    /\ unchecked' \in 0..(CheckEvery - 1)
    /\ pc' \in {"head", "arbiters"}

LEMMA AnalyzeForcingType ==
    ASSUME CegisTypeOK, conflict.universal \in UniversalAssignments, NEW core \in Cores,
           NEW m \in Existentials, AnalyzeForcing(core, m)
    PROVE  LearningType(core)
<1>1. /\ m \in DOMAIN core.literals \cap Existentials
      /\ (DOMAIN core.literals \cap Existentials) \ {m} \subseteq ED(m)
  BY DEF AnalyzeForcing, MayForce, HasForcingClause, includedInExtendedDependencies
<1>2. \A c \in forcing' \ forcing : c = getForcingClause(core, m)
  BY DEF AnalyzeForcing, analyzeForcingConflict
<1>3. unchecked' \in 0..(CheckEvery - 1)
  BY CegisAssumption DEF AnalyzeForcing, CegisTypeOK
<1>4. pc' \in {"head", "arbiters"}
  BY DEF AnalyzeForcing
<1>5. CASE config["always_add_arbiter_clause"]
  <2>1. AddArbiterClause(core, FALSE) /\ default' = Opposed(DOMAIN core.literals, core)
    BY <1>5 DEF AnalyzeForcing
  <2>2. IsCube(default', Existentials)
    BY <2>1, OpposedType
  <2> QED BY <1>1, <1>2, <1>3, <1>4, <2>1, <2>2, AddArbiterClauseType DEF LearningType
<1>6. CASE ~config["always_add_arbiter_clause"]
  <2>1. /\ UNCHANGED <<arbiter_assignment, proper_arbiters, arbiter_clauses>>
        /\ default' = Opposed({m}, core)
    BY <1>6 DEF AnalyzeForcing
  <2>2. IsCube(default', Existentials)
    BY <1>1, <2>1, OpposedType
  <2>3. introduced' = introduced
    BY <2>1 DEF introduced
  <2> QED BY <1>1, <1>2, <1>3, <1>4, <2>1, <2>2, <2>3 DEF LearningType, CegisTypeOK
<1> QED BY <1>5, <1>6

LEMMA AnalyzeArbitersType ==
    ASSUME CegisTypeOK, conflict.universal \in UniversalAssignments, NEW core \in Cores,
           AnalyzeArbiters(core)
    PROVE  LearningType(core)
<1>1. /\ AddArbiterClause(core, TRUE) /\ default' = Opposed(DOMAIN core.literals, core)
      /\ pc' = "arbiters" /\ UNCHANGED <<forcing, unchecked>>
  BY DEF AnalyzeArbiters
<1>2. IsCube(default', Existentials)
  BY <1>1, OpposedType
<1>3. unchecked' \in 0..(CheckEvery - 1)
  BY <1>1 DEF CegisTypeOK
<1> QED BY <1>1, <1>2, <1>3, AddArbiterClauseType DEF LearningType

LEMMA analyzeConflictKeeps ==
    ASSUME CegisInv, analyzeConflict
    PROVE  CegisInv'
<1>1. /\ UNCHANGED <<setupVars, matrix, definitions, turn, verdict>>
      /\ pc = "analyze" /\ conflict' = NoConflict
  BY DEF analyzeConflict
<1>2. PICK core \in Cores :
         (\E m \in Existentials : AnalyzeForcing(core, m)) \/ AnalyzeArbiters(core)
  BY DEF analyzeConflict
<1>3. conflict.universal \in UniversalAssignments
  BY <1>1 DEF CegisInv, ConflictInv
<1>4. LearningType(core)
  BY <1>2, <1>3, AnalyzeForcingType, AnalyzeArbitersType DEF CegisInv
<1>5. /\ IInv' /\ SetupTypeOK' /\ DependencyInv'
      /\ UNCHANGED <<prefix, dependencies, undefined>>
  BY <1>1, SetupKept
<1>6. \A c \in forcing' : IsForcingClause(c)'
  <2>1. ASSUME NEW c, IsForcingClause(c) PROVE IsForcingClause(c)'
    BY <1>4, <2>1 DEF LearningType, IsForcingClause, IsCube
  <2>2. \A c \in forcing : IsForcingClause(c)
    BY DEF CegisInv, CegisTypeOK
  <2>3. \A c \in forcing' \ forcing : IsForcingClause(c)
    BY <1>4, ForcingType DEF LearningType, CegisInv
  <2> QED BY <2>1, <2>2, <2>3
<1>7. \A a \in introduced' : IsArbiter(a)'
  BY <1>4, <1>5 DEF LearningType, IsArbiter
<1>8. IsCube(conflict'.universal, Universals) /\ IsCube(conflict'.existential, Existentials)
  BY <1>1, EmptyCube DEF NoConflict
<1>9. CegisTypeOK'
  <2>1. pc' = "done" <=> verdict' # "none"
    BY <1>1, <1>4 DEF CegisInv, CegisTypeOK, LearningType
  <2> QED BY <1>1, <1>4, <1>5, <1>6, <1>7, <1>8, <2>1 DEF CegisInv, CegisTypeOK, LearningType
<1>10. ModelsObey'
  BY <1>1, <1>4, <1>5, LearnedObeyed DEF LearningType
<1>11. ConflictInv' /\ UnsatSound'
  BY <1>1, <1>4, <1>5, UnsatKept DEF CegisInv, ConflictInv, LearningType
<1> QED BY <1>5, <1>9, <1>10, <1>11 DEF CegisInv

\* The arbiter clauses have a solution if the formula has a model: the values
\* the model gives to the arbiters.
LEMMA ModelSolves ==
    ASSUME CegisInv, ArbiterSolutions = {}
    PROVE  ~Satisfiable(prefix, matrix)
<1>1. SUFFICES ASSUME Satisfiable(prefix, matrix) PROVE FALSE
  OBVIOUS
<1>2. PICK F : F \in SkolemModels(dependencies, matrix)
  BY <1>1 DEF CegisInv, DependencyInv, Satisfiable
<1>3. ModelArbiters(F) \in [introduced -> BOOLEAN]
  BY ModelArbitersType
<1>4. PICK c \in arbiter_clauses : Agrees(c, ModelArbiters(F))
  BY <1>3 DEF ArbiterSolutions
<1>5. DOMAIN c \subseteq introduced
  BY DEF CegisInv, CegisTypeOK, IsCube
<1>6. ArbitersAgree(c, F)
  BY <1>4, <1>5, ModelArbitersType DEF Agrees, ArbitersAgree
<1> QED BY <1>2, <1>6 DEF CegisInv, ModelsObey

LEMMA findArbiterAssignmentKeeps ==
    ASSUME CegisInv, findArbiterAssignment
    PROVE  CegisInv'
<1>1. /\ UNCHANGED <<setupVars, matrix, definitions, default, forcing, proper_arbiters,
                     arbiter_clauses, conflict, unchecked, turn>>
      /\ pc = "arbiters"
      /\ \/ /\ ArbiterSolutions = {} /\ pc' = "done" /\ verdict' = "unsat"
            /\ UNCHANGED arbiter_assignment
         \/ /\ pc' = "head" /\ arbiter_assignment' \in ArbiterSolutions /\ UNCHANGED verdict
  BY DEF findArbiterAssignment
<1>2. /\ IInv' /\ SetupTypeOK' /\ DependencyInv'
      /\ UNCHANGED <<prefix, dependencies, undefined>>
  BY <1>1, SetupKept
<1>3. introduced' = introduced /\ arbiter_assignment' \in [introduced' -> BOOLEAN]
  BY <1>1 DEF CegisInv, CegisTypeOK, introduced, ArbiterSolutions
<1>4. CegisTypeOK'
  <2>1. pc' = "done" <=> verdict' # "none"
    BY <1>1 DEF CegisInv, CegisTypeOK
  <2> QED BY <1>1, <1>2, <1>3, <2>1 DEF CegisInv, CegisTypeOK, IsForcingClause, IsArbiter
<1>5. UnsatSound'
  BY <1>1, <1>2, ModelSolves DEF CegisInv, UnsatSound
<1>6. ModelsObey' /\ ConflictInv'
  BY <1>1, <1>2, LearnedKept DEF CegisInv, ConflictInv
<1> QED BY <1>2, <1>4, <1>5, <1>6 DEF CegisInv

LEMMA InterruptKeeps ==
    ASSUME CegisInv, Interrupt
    PROVE  CegisInv'
<1>1. /\ UNCHANGED <<setupVars, matrix, definitions, default, forcing, arbiter_assignment,
                     proper_arbiters, arbiter_clauses, conflict, unchecked, turn>>
      /\ pc' = "done" /\ verdict' = "unknown"
  BY DEF Interrupt, ruleVars, Interrupted
<1>2. /\ IInv' /\ SetupTypeOK' /\ DependencyInv'
      /\ UNCHANGED <<prefix, dependencies, undefined>>
  BY <1>1, SetupKept
<1>3. CegisTypeOK'
  BY <1>1, <1>2 DEF CegisInv, CegisTypeOK, introduced, IsForcingClause, IsArbiter
<1>4. ModelsObey' /\ ConflictInv' /\ UnsatSound'
  BY <1>1, <1>2, LearnedKept DEF CegisInv, ConflictInv, UnsatSound
<1> QED BY <1>2, <1>3, <1>4 DEF CegisInv

LEMMA StutterKeeps ==
    ASSUME CegisInv, UNCHANGED cegisVars
    PROVE  CegisInv'
<1>1. UNCHANGED <<setupVars, matrix, definitions, default, forcing, arbiter_assignment,
                  proper_arbiters, arbiter_clauses, conflict, unchecked, turn, pc, verdict>>
  BY DEF cegisVars, ruleVars
<1>2. /\ IInv' /\ SetupTypeOK' /\ DependencyInv'
      /\ UNCHANGED <<prefix, dependencies, undefined>>
  BY <1>1, SetupKept
<1>3. CegisTypeOK'
  BY <1>1, <1>2 DEF CegisInv, CegisTypeOK, introduced, IsForcingClause, IsArbiter
<1>4. ModelsObey' /\ ConflictInv' /\ UnsatSound'
  BY <1>1, <1>2, LearnedKept, UnsatKept DEF CegisInv, ConflictInv
<1> QED BY <1>2, <1>3, <1>4 DEF CegisInv

LEMMA CegisInvariant == CegisSpec => []CegisInv
<1>1. CegisInv /\ [CegisNext]_cegisVars => CegisInv'
  BY FindDefinitionsKeeps, InitDefaultValuesKeeps, forcingClausesFromMatrixKeeps, BeginIterationKeeps,
     checkArbiterAssignmentKeeps, analyzeConflictKeeps, findArbiterAssignmentKeeps,
     InterruptKeeps, StutterKeeps
     DEF CegisNext, Search
<1> QED BY CegisInitHolds, <1>1, PTL DEF CegisSpec

--------------------------------------------------------------------------------
(***************************************************************************)
(* Theorems.                                                               *)
(***************************************************************************)

\* The state of the loop keeps its types: every forcing clause and every arbiter
\* is over variables the solver has.
THEOREM CegisTypeCorrect == CegisSpec => []CegisTypeOK
<1>1. CegisInv => CegisTypeOK
  BY DEF CegisInv
<1> QED BY CegisInvariant, <1>1, PTL

\* In every model of the formula the universals among the extended dependencies
\* determine a variable, whatever definitions were found.
THEOREM DependenciesDetermine == CegisSpec => []DependenciesSound
<1>1. CegisInv => DependenciesSound
  BY Determined DEF CegisInv, CegisTypeOK
<1> QED BY CegisInvariant, <1>1, PTL

\* No model of the formula is lost by what analyzeConflict learns.
THEOREM NoModelLost == CegisSpec => []ModelsObey
<1>1. CegisInv => ModelsObey
  BY DEF CegisInv
<1> QED BY CegisInvariant, <1>1, PTL

\* The answer 20 is right.
THEOREM UnsatAnswersRight == CegisSpec => []UnsatSound
<1>1. CegisInv => UnsatSound
  BY DEF CegisInv
<1> QED BY CegisInvariant, <1>1, PTL

--------------------------------------------------------------------------------
(***************************************************************************)
(* The answer 10 of solve(): the rules are a model then, and the search    *)
(* implements the contract of its caller.                                  *)
(*                                                                         *)
(* The argument: a rule for a variable reads only what the variable may    *)
(* read (LocalInv).  Along the order of the dependencies the rules thus    *)
(* determine one variable after the other; they do not contradict each     *)
(* other as the consistency check found nothing.  So there is one answer   *)
(* to every universal assignment, it satisfies the matrix as the validity  *)
(* check found nothing, and it respects the dependencies of the input as   *)
(* the stored ones do (CheckDefinedProofs).                                *)
(***************************************************************************)
\* A definition is over the support the container keeps, or over stored
\* dependencies if it keeps none.
DefinitionsLocal ==
    \A v \in DOMAIN definitions :
        IF v \in Computed
        THEN definitions[v] \in [[supports[v] -> BOOLEAN] -> BOOLEAN]
        ELSE \E S \in SUBSET ext[v] : definitions[v] \in [[S -> BOOLEAN] -> BOOLEAN]

LocalInv ==
    /\ DefinitionsLocal
    /\ \A c \in forcing : DOMAIN c.premise \subseteq ED(c.var)
    /\ pc = "setup" => forcing = {}
    /\ pc \in {"matrix", "head", "check", "analyze", "arbiters"} => DOMAIN default = undefined

\* When the search has ended with a model, both checks find nothing.
SatInv ==
    verdict = "sat" =>
        /\ Counterexamples = {} /\ Inconsistencies = {}
        /\ DOMAIN default = undefined

\* The definition of v reads some of its extended dependencies.
LEMMA DefinitionSupport ==
    ASSUME CegisInv, LocalInv, NEW v \in Existentials \ undefined
    PROVE  \E S \in SUBSET ED(v) : definitions[v] \in [[S -> BOOLEAN] -> BOOLEAN]
<1>1. v \in DOMAIN definitions
  BY DEF CegisInv, CegisTypeOK
<1>2. CASE v \in Computed
  <2>1. supports[v] \subseteq ED(v)
    BY <1>2, ReadBySupport DEF ED, computeDynamicDependencies
  <2> QED BY <1>1, <1>2, <2>1 DEF LocalInv, DefinitionsLocal
<1>3. CASE v \notin Computed
  BY <1>1, <1>3 DEF LocalInv, DefinitionsLocal, ED
<1> QED BY <1>2, <1>3

\* What an undefined variable may read contains its own dependencies.
LEMMA UndefinedReads ==
    ASSUME CegisInv, NEW e \in undefined
    PROVE  dependencies[e] \subseteq ED(e)
<1>1. e \notin Computed /\ e \in DOMAIN ext
  BY DEF CegisInv, IInv, TypeInv, Shape, SetupTypeOK, ContainerTypeOK
<1> QED BY <1>1 DEF ED, CegisInv, DependencyInv

\* The stored order, with the universals of the prefix.
LEMMA OrderInPrefix ==
    ASSUME CegisInv, NEW e \in Existentials
    PROVE  /\ e \notin ED(e)
           /\ ED(e) \cap Universals \subseteq prefix[e]
           /\ \A d \in Below(e) : ED(d) \subseteq ED(e)
           /\ ED(e) \subseteq Variables
<1>1. SetupTypeOK /\ Shape /\ Certified(ext)
  BY DEF CegisInv, IInv, TypeInv
<1>2. \A v \in Existentials : ReadThrough(v, ext) = ED(v)
  BY <1>1, ReadThroughExt
<1>3. /\ e \notin ReadThrough(e, ext)
      /\ ReadThrough(e, ext) \cap Universals \subseteq prefix[e]
      /\ \A d \in ReadThrough(e, ext) \cap Existentials :
            ReadThrough(d, ext) \subseteq ReadThrough(e, ext)
  BY <1>1, CertifiedOrder
<1>4. ED(e) \subseteq Variables
  <2>1. CASE e \in Computed
    BY <1>1, <2>1 DEF ED, computeDynamicDependencies, ReadBy, Reach, Computed,
                      SetupTypeOK, ContainerTypeOK
  <2>2. CASE e \notin Computed
    BY <1>1, <2>2 DEF ED, Shape, SetupTypeOK, ContainerTypeOK
  <2> QED BY <2>1, <2>2
<1> QED BY <1>2, <1>3, <1>4 DEF Below

--------------------------------------------------------------------------------
(***************************************************************************)
(* The rules for a variable are local.                                     *)
(***************************************************************************)

\* A set of existentials without the order gives a variable with nothing of the
\* set below it.
LEMMA LowestVariable ==
    ASSUME CegisInv, NEW Bad \in SUBSET Existentials, Bad # {}
    PROVE  \E e \in Bad : Below(e) \cap Bad = {}
<1> DEFINE Sets == {Below(e) : e \in Bad}
<1>1. Sets # {}
  OBVIOUS
<1>2. Sets \subseteq FiniteSubsetsOf(Existentials)
  BY FS_Subset, PrefixAssumption DEF Below, FiniteSubsetsOf
<1>3. PICK B \in Sets : \A C \in Sets : ~ (<<C, B>> \in StrictSubsetOrdering(Existentials))
  <2> HIDE DEF Sets
  <2> QED BY <1>1, <1>2, FS_StrictSubsetOrderingWellFounded, WFMin
<1>4. PICK e \in Bad : B = Below(e)
  OBVIOUS
<1>5. ASSUME NEW d \in Below(e) \cap Bad PROVE FALSE
  <2>1. ED(d) \subseteq ED(e) /\ d \notin ED(d)
    BY OrderInPrefix
  <2>2. <<Below(d), Below(e)>> \in StrictSubsetOrdering(Existentials)
    BY <2>1 DEF Below, StrictSubsetOrdering
  <2> QED BY <1>3, <1>4, <2>2
<1> QED BY <1>5

\* Two assignments with the same values for what e may read: the same rules for
\* e fire.  The annotations of the arbiters of a defined variable may name more
\* universals than it may read.
LEMMA FiresLocally ==
    ASSUME CegisInv, LocalInv, NEW e \in Existentials, NEW b \in BOOLEAN,
           NEW s \in TotalAssignments, NEW t \in TotalAssignments,
           \A x \in ED(e) : s[x] = t[x],
           e \in undefined \/ \A x \in Universals : s[x] = t[x],
           Fires(e, b, s)
    PROVE  Fires(e, b, t)
<1>1. CASE \E c \in forcing : /\ c.var = e /\ c.val = b
                              /\ Agrees(c.premise, s)
                              /\ Agrees(c.arbiters, arbiter_assignment)
  <2>1. PICK c \in forcing : /\ c.var = e /\ c.val = b
                             /\ Agrees(c.premise, s)
                             /\ Agrees(c.arbiters, arbiter_assignment)
    BY <1>1
  <2>2. DOMAIN c.premise \subseteq ED(e)
    BY <2>1 DEF LocalInv
  <2>3. Agrees(c.premise, t)
    BY <2>1, <2>2 DEF Agrees
  <2> QED BY <2>1, <2>3 DEF Fires
<1>2. CASE \E a \in proper_arbiters : /\ a[1] = e /\ arbiter_assignment[a] = b
                                      /\ Agrees(a[2], s)
  <2>1. PICK a \in proper_arbiters : a[1] = e /\ arbiter_assignment[a] = b /\ Agrees(a[2], s)
    BY <1>2
  <2>2. DOMAIN a[2] = dependencies[e] /\ dependencies[e] \subseteq Universals
    <3>1. IsArbiter(a)
      BY DEF CegisInv, CegisTypeOK
    <3>2. PICK f \in Existentials : \E d \in [dependencies[f] -> BOOLEAN] : a = <<f, d>>
      BY <3>1 DEF IsArbiter
    <3> QED BY <2>1, <3>2 DEF CegisInv, CegisTypeOK
  <2>3. \A x \in DOMAIN a[2] : s[x] = t[x]
    BY <2>2, UndefinedReads
  <2>4. Agrees(a[2], t)
    BY <2>1, <2>3 DEF Agrees
  <2> QED BY <2>1, <2>4 DEF Fires
<1>3. CASE /\ e \in DOMAIN definitions
           /\ \E d \in DOMAIN definitions[e] : definitions[e][d] = b /\ Agrees(d, s)
  <2>1. e \in Existentials \ undefined
    BY <1>3 DEF CegisInv, CegisTypeOK
  <2>2. PICK S \in SUBSET ED(e) : definitions[e] \in [[S -> BOOLEAN] -> BOOLEAN]
    BY <2>1, DefinitionSupport
  <2>3. PICK d \in DOMAIN definitions[e] : definitions[e][d] = b /\ Agrees(d, s)
    BY <1>3
  <2>4. DOMAIN d = S
    BY <2>2, <2>3
  <2>5. Agrees(d, t)
    BY <2>2, <2>3, <2>4 DEF Agrees
  <2> QED BY <1>3, <2>3, <2>5 DEF Fires
<1> QED BY <1>1, <1>2, <1>3 DEF Fires
\* The definition of a variable fires under every assignment, with the same
\* value where its support has the same values.
LEMMA DefinitionFires ==
    ASSUME CegisInv, LocalInv, NEW e \in Existentials \ undefined,
           NEW s \in TotalAssignments, NEW t \in TotalAssignments,
           \A x \in ED(e) : s[x] = t[x]
    PROVE  \E b \in BOOLEAN : Fires(e, b, s) /\ Fires(e, b, t)
<1>1. PICK S \in SUBSET ED(e) : definitions[e] \in [[S -> BOOLEAN] -> BOOLEAN]
  BY DefinitionSupport
<1>2. S \subseteq Variables
  BY OrderInPrefix
<1> DEFINE d == [x \in S |-> s[x]]
<1>3. d \in [S -> BOOLEAN]
  BY <1>2 DEF TotalAssignments
<1>4. Agrees(d, s) /\ Agrees(d, t)
  BY DEF Agrees
<1>5. e \in DOMAIN definitions
  BY DEF CegisInv, CegisTypeOK
<1>6. d \in DOMAIN definitions[e] /\ definitions[e][d] \in BOOLEAN
  <2> HIDE DEF d
  <2> QED BY <1>1, <1>3
<1> QED BY <1>4, <1>5, <1>6 DEF Fires

LEMMA JoinTotal ==
    ASSUME NEW u \in UniversalAssignments, NEW r \in Responses
    PROVE  Join(u, r) \in TotalAssignments
BY PrefixAssumption DEF Join, Variables, UniversalAssignments, Responses, TotalAssignments

\* The rules determine a variable from the universals it may read.
LEMMA RulesDetermine ==
    ASSUME CegisInv, LocalInv, DOMAIN default = undefined,
           NEW u \in UniversalAssignments, NEW w \in UniversalAssignments,
           NEW r \in RuleAnswers(u), NEW q \in RuleAnswers(w),
           NEW f \in Existentials, \A x \in ED(f) \cap Universals : u[x] = w[x]
    PROVE  r[f] = q[f]
<1> SUFFICES ASSUME r[f] # q[f] PROVE FALSE
  OBVIOUS
<1> DEFINE Bad == {e \in Existentials : /\ \A x \in ED(e) \cap Universals : u[x] = w[x]
                                        /\ r[e] # q[e]}
           s == Join(u, r)
           t == Join(w, q)
<1>1. r \in Responses /\ q \in Responses
  BY DEF RuleAnswers
<1>2. PICK e \in Bad : Below(e) \cap Bad = {}
  <2>1. f \in Bad /\ Bad \in SUBSET Existentials
    OBVIOUS
  <2> HIDE DEF Bad
  <2> QED BY <2>1, LowestVariable
<1>3. e \in Existentials /\ r[e] # q[e] /\ \A x \in ED(e) \cap Universals : u[x] = w[x]
  BY <1>2
<1>4. \A d \in Below(e) : r[d] = q[d]
  <2>1. TAKE d \in Below(e)
  <2>2. ED(d) \subseteq ED(e) /\ d \in Existentials
    BY <1>3, <2>1, OrderInPrefix DEF Below
  <2> QED BY <1>2, <1>3, <2>1, <2>2
<1>5. \A x \in ED(e) : s[x] = t[x]
  <2>1. TAKE x \in ED(e)
  <2>2. x \in Universals \/ x \in Below(e)
    BY <1>3, <2>1, OrderInPrefix DEF Variables, Below
  <2> QED BY <1>1, <1>3, <1>4, <2>1, <2>2, JoinValues DEF Below
<1>6. s \in TotalAssignments /\ t \in TotalAssignments
  BY <1>1, JoinTotal
<1>7. s[e] = r[e] /\ t[e] = q[e] /\ Follows(e, s) /\ Follows(e, t)
  BY <1>1, <1>3, JoinValues DEF RuleAnswers
<1> HIDE DEF s, t, Bad
<1>8. CASE e \notin undefined
  <2>1. PICK b \in BOOLEAN : Fires(e, b, s) /\ Fires(e, b, t)
    BY <1>3, <1>5, <1>6, <1>8, DefinitionFires
  <2> QED BY <1>3, <1>7, <2>1 DEF Follows
<1>9. CASE e \in undefined
  <2>1. ASSUME NEW b \in BOOLEAN PROVE Fires(e, b, s) <=> Fires(e, b, t)
    BY <1>3, <1>5, <1>6, <1>9, FiresLocally
  <2>2. CASE \E b \in BOOLEAN : Fires(e, b, s)
    BY <1>3, <1>7, <2>1, <2>2 DEF Follows
  <2>3. CASE \A b \in BOOLEAN : ~Fires(e, b, s)
    BY <1>3, <1>7, <1>9, <2>1, <2>3 DEF Follows
  <2> QED BY <2>2, <2>3
<1> QED BY <1>8, <1>9

--------------------------------------------------------------------------------
(***************************************************************************)
(* The rules give an answer.                                               *)
(***************************************************************************)

\* Whether e follows its rules is settled by what it may read and its value.
LEMMA FollowsLocally ==
    ASSUME CegisInv, LocalInv, NEW e \in Existentials,
           NEW s \in TotalAssignments, NEW t \in TotalAssignments,
           \A x \in ED(e) : s[x] = t[x], \A x \in Universals : s[x] = t[x],
           s[e] = t[e], Follows(e, s)
    PROVE  Follows(e, t)
<1>1. \A b \in BOOLEAN : Fires(e, b, s) <=> Fires(e, b, t)
  BY FiresLocally
<1> QED BY <1>1 DEF Follows

\* Rules that do not contradict each other allow a value.
LEMMA ValueAllowed ==
    ASSUME CegisTypeOK, NEW e \in Existentials, NEW s, ~Inconsistent(e, s)
    PROVE  \E b \in BOOLEAN :
              /\ \A c \in BOOLEAN : Fires(e, c, s) => b = c
              /\ e \in DOMAIN default /\ (\A c \in BOOLEAN : ~Fires(e, c, s)) => b = default[e]
<1>1. CASE Fires(e, TRUE, s)
  BY <1>1 DEF Inconsistent
<1>2. CASE Fires(e, FALSE, s)
  BY <1>2 DEF Inconsistent
<1>3. CASE \A c \in BOOLEAN : ~Fires(e, c, s)
  BY <1>3 DEF CegisTypeOK, IsCube
<1> QED BY <1>1, <1>2, <1>3

\* The variables of a set closed under the order can follow their rules.
Answerable(C, u) ==
    /\ C \subseteq Existentials /\ \A e \in C : Below(e) \subseteq C
    /\ \E r \in Responses : \A e \in C : Follows(e, Join(u, r))

\* The next variable along the order gets the value its rules allow.
LEMMA OneMore ==
    ASSUME CegisInv, LocalInv, Inconsistencies = {},
           NEW u \in UniversalAssignments, NEW C, Answerable(C, u),
           NEW e \in Existentials \ C, Below(e) \subseteq C
    PROVE  Answerable(C \cup {e}, u)
<1>1. PICK r \in Responses : \A d \in C : Follows(d, Join(u, r))
  BY DEF Answerable
<1> DEFINE s == Join(u, r)
<1>2. ~Inconsistent(e, s)
  <2>1. SUFFICES ASSUME Inconsistent(e, s) PROVE FALSE
    OBVIOUS
  <2>2. \A d \in ExistentialED(e) : Follows(d, s)
    BY <1>1 DEF Below, ExistentialED
  <2>3. <<u, r>> \in {y \in UniversalAssignments \X Responses :
                        /\ Inconsistent(e, Join(y[1], y[2]))
                        /\ \A d \in ExistentialED(e) : Follows(d, Join(y[1], y[2]))}
    BY <2>1, <2>2
  <2>4. InconsistenciesAt(e) # {}
    BY <2>3 DEF InconsistenciesAt
  <2> QED BY <2>4 DEF Inconsistencies
<1>3. PICK b \in BOOLEAN :
         /\ \A c \in BOOLEAN : Fires(e, c, s) => b = c
         /\ e \in DOMAIN default /\ (\A c \in BOOLEAN : ~Fires(e, c, s)) => b = default[e]
  BY <1>2, ValueAllowed DEF CegisInv
<1> DEFINE q == [r EXCEPT ![e] = b]
           t == Join(u, q)
<1>4. q \in Responses /\ q[e] = b /\ \A d \in Existentials \ {e} : q[d] = r[d]
  BY DEF Responses
<1> HIDE DEF q
<1>5. s \in TotalAssignments /\ t \in TotalAssignments
  BY <1>4, JoinTotal
<1>6. /\ \A x \in Universals : s[x] = t[x]
      /\ \A d \in Existentials \ {e} : s[d] = t[d]
      /\ t[e] = b
  BY <1>4, JoinValues
<1> HIDE DEF s
<1>7. ASSUME NEW d \in Existentials, e \notin Below(d)
      PROVE  \A x \in ED(d) : s[x] = t[x]
  BY <1>6, <1>7, OrderInPrefix DEF Below, Variables
<1>8. ASSUME NEW d \in C PROVE Follows(d, t)
  <2>1. d \in Existentials /\ d # e /\ e \notin Below(d)
    BY <1>8 DEF Answerable
  <2>2. \A x \in ED(d) : s[x] = t[x]
    BY <1>7, <2>1
  <2>3. Follows(d, s)
    BY <1>1, <1>8 DEF s
  <2> HIDE DEF t
  <2> QED BY <1>5, <1>6, <2>1, <2>2, <2>3, FollowsLocally
<1>9. Follows(e, t)
  <2>1. e \notin Below(e)
    OBVIOUS
  <2>2. \A x \in ED(e) : s[x] = t[x]
    BY <1>7, <2>1
  <2> HIDE DEF t
  <2>3. \A c \in BOOLEAN : Fires(e, c, s) <=> Fires(e, c, t)
    BY <1>5, <1>6, <2>2, FiresLocally
  <2> QED BY <1>3, <1>6, <2>3 DEF Follows
<1> QED BY <1>4, <1>8, <1>9 DEF Answerable, t

LEMMA RulesAnswer ==
    ASSUME CegisInv, LocalInv, Inconsistencies = {}, NEW u \in UniversalAssignments
    PROVE  RuleAnswers(u) # {}
<1> DEFINE Rests == {Existentials \ C : C \in {D \in SUBSET Existentials : Answerable(D, u)}}
<1>1. Answerable({}, u)
  <2>1. [e \in Existentials |-> TRUE] \in Responses
    BY DEF Responses
  <2> QED BY <2>1 DEF Answerable
<1>2. Rests # {}
  BY <1>1
<1>3. Rests \subseteq FiniteSubsetsOf(Existentials)
  BY FS_Subset, PrefixAssumption DEF FiniteSubsetsOf
<1>4. PICK R \in Rests : \A Q \in Rests : ~ (<<Q, R>> \in StrictSubsetOrdering(Existentials))
  <2> HIDE DEF Rests
  <2> QED BY <1>2, <1>3, FS_StrictSubsetOrderingWellFounded, WFMin
<1>5. PICK C \in SUBSET Existentials : Answerable(C, u) /\ R = Existentials \ C
  OBVIOUS
<1>6. CASE R = {}
  <2>1. PICK r \in Responses : \A e \in C : Follows(e, Join(u, r))
    BY <1>5 DEF Answerable
  <2> QED BY <1>5, <1>6, <2>1 DEF RuleAnswers
<1>7. CASE R # {}
  <2>1. PICK e \in R : Below(e) \cap R = {}
    <3>1. R \in SUBSET Existentials
      BY <1>5
    <3> QED BY <1>7, <3>1, LowestVariable
  <2>2. Answerable(C \cup {e}, u)
    <3>1. Below(e) \subseteq C /\ e \in Existentials \ C
      BY <1>5, <2>1 DEF Below
    <3> QED BY <1>5, <3>1, OneMore
  <2>3. Existentials \ (C \cup {e}) \in Rests
    BY <2>2 DEF Answerable
  <2>4. <<Existentials \ (C \cup {e}), R>> \in StrictSubsetOrdering(Existentials)
    BY <1>5, <2>1 DEF StrictSubsetOrdering
  <2> QED BY <1>4, <2>3, <2>4
<1> QED BY <1>6, <1>7

\* When both checks find nothing the rules are a model.
LEMMA RulesAreModel ==
    ASSUME CegisInv, LocalInv, Counterexamples = {}, Inconsistencies = {},
           DOMAIN default = undefined
    PROVE  \E F \in SkolemModels(prefix, matrix) :
              \A u \in UniversalAssignments : RuleAnswers(u) = {F[u]}
<1> DEFINE F == [u \in UniversalAssignments |-> CHOOSE r \in RuleAnswers(u) : TRUE]
<1>1. ASSUME NEW u \in UniversalAssignments PROVE F[u] \in RuleAnswers(u)
  BY RulesAnswer
<1> HIDE DEF F
<1>2. ASSUME NEW u \in UniversalAssignments, NEW r \in RuleAnswers(u) PROVE r = F[u]
  <2>1. r \in Responses /\ F[u] \in Responses
    BY <1>1 DEF RuleAnswers
  <2>2. \A e \in Existentials : r[e] = F[u][e]
    BY <1>1, RulesDetermine
  <2> QED BY <2>1, <2>2 DEF Responses
<1>3. ASSUME NEW u \in UniversalAssignments PROVE Join(u, F[u]) \in matrix
  <2>1. F[u] \in Responses /\ \A e \in Existentials : Follows(e, Join(u, F[u]))
    BY <1>1 DEF RuleAnswers
  <2>2. SUFFICES ASSUME Join(u, F[u]) \notin matrix PROVE FALSE
    OBVIOUS
  <2>3. <<u, F[u]>> \in {y \in UniversalAssignments \X Responses :
                           /\ Join(y[1], y[2]) \notin matrix
                           /\ \A e \in Existentials : Follows(e, Join(y[1], y[2]))}
    BY <2>1, <2>2
  <2> QED BY <2>3 DEF Counterexamples
<1>4. ASSUME NEW e \in Existentials, NEW u \in UniversalAssignments,
             NEW w \in UniversalAssignments, \A x \in prefix[e] : u[x] = w[x]
      PROVE  F[u][e] = F[w][e]
  <2>1. \A x \in ED(e) \cap Universals : u[x] = w[x]
    BY <1>4, OrderInPrefix
  <2> QED BY <1>1, <2>1, RulesDetermine
<1>5. F \in [UniversalAssignments -> Responses]
  BY <1>1 DEF F, RuleAnswers
<1>6. F \in SkolemModels(prefix, matrix)
  BY <1>3, <1>4, <1>5 DEF SkolemModels
<1> QED BY <1>1, <1>2, <1>6

--------------------------------------------------------------------------------
(***************************************************************************)
(* The invariant is kept.                                                  *)
(***************************************************************************)

LEMMA InitLocal == CegisInit => LocalInv /\ SatInv
BY EmptyCube DEF CegisInit, LocalInv, DefinitionsLocal, SatInv

\* Extended dependencies as a state function of the container alone.
LEMMA ReadsKept ==
    ASSUME UNCHANGED <<ext, supports>>, NEW v
    PROVE  ED(v)' = ED(v)
BY DEF ED, computeDynamicDependencies, ReadBy, Reach, SupportClosed, Computed

LEMMA DefinitionsKept ==
    ASSUME DefinitionsLocal, UNCHANGED <<definitions, ext, supports>>
    PROVE  DefinitionsLocal'
BY DEF DefinitionsLocal, Computed

\* A step in the loop that learns no forcing clause and leaves the defaults
\* defined where they were.
LEMMA LocalKept ==
    ASSUME CegisInv, LocalInv, UNCHANGED <<setupVars, definitions, forcing>>,
           pc' # "setup",
           DOMAIN default' = DOMAIN default \/ DOMAIN default' = undefined,
           pc = "setup" => pc' = "done" \/ DOMAIN default' = undefined,
           pc = "done" => pc' = "done"
    PROVE  LocalInv'
<1>1. UNCHANGED <<ext, supports, undefined>>
  BY DEF setupVars, containerVars
<1>2. DefinitionsLocal'
  BY <1>1, DefinitionsKept DEF LocalInv
<1>3. \A c \in forcing' : DOMAIN c.premise \subseteq ED(c.var)'
  BY <1>1, ReadsKept DEF LocalInv
<1>4. pc' \in {"matrix", "head", "check", "analyze", "arbiters"} => DOMAIN default' = undefined'
  BY <1>1 DEF LocalInv, CegisInv, CegisTypeOK
<1> QED BY <1>2, <1>3, <1>4 DEF LocalInv

LEMMA FindDefinitionsLocal ==
    ASSUME CegisInv, LocalInv, FindDefinitions
    PROVE  LocalInv'
<1>1. UNCHANGED <<forcing, default, pc>> /\ pc = "setup" /\ forcing = {}
  BY DEF FindDefinitions, SetupUnchanged, LocalInv
<1>2. SUFFICES DefinitionsLocal'
  BY <1>1 DEF LocalInv
<1>3. CASE /\ BeginRound \/ SkipRounds \/ EndIteration \/ \E v \in queue : NotDefined(v)
           /\ UNCHANGED definitions
  <2>1. /\ supports' = supports /\ DOMAIN ext' = DOMAIN ext
        /\ \A e \in DOMAIN ext : ext[e] \subseteq ext'[e]
    BY <1>3, NothingDefined DEF CegisInv
  <2>2. \A v \in DOMAIN definitions : v \notin Computed => v \in DOMAIN ext
    BY DEF CegisInv, CegisTypeOK, IInv, TypeInv, Shape
  <2> QED BY <1>3, <2>1, <2>2 DEF LocalInv, DefinitionsLocal, Computed
<1>4. CASE \E v \in queue : \E S \in SUBSET ED(v) : FindDefinition(v, S)
  <2>1. PICK v \in queue : \E S \in SUBSET ED(v) : FindDefinition(v, S)
    BY <1>4
  <2>2. PICK S \in SUBSET ED(v) : FindDefinition(v, S)
    BY <2>1
  <2>3. Defined(v, S) /\ v \notin Computed /\ ED(v) = ext[v] /\ v \in undefined
    BY <2>2, QueueStored DEF FindDefinition, Defined, NextInQueue, CegisInv, IInv
  <2>4. PICK g \in Interpolants(v, S) :
           definitions' = [w \in DOMAIN definitions \cup {v} |->
                              IF w = v THEN g ELSE definitions[w]]
    BY <2>2 DEF FindDefinition
  <2>5. g \in [[S -> BOOLEAN] -> BOOLEAN]
    BY DEF Interpolants
  <2>6. v \notin DOMAIN definitions
    BY <2>3 DEF CegisInv, CegisTypeOK
  <2>7. /\ DOMAIN definitions' = DOMAIN definitions \cup {v}
        /\ definitions'[v] = g
        /\ \A w \in DOMAIN definitions : definitions'[w] = definitions[w]
    BY <2>4, <2>6
  <2>8. CASE config["dynamic_dependencies"]
    <3>1. /\ supports' = [w \in Computed \cup {v} |-> IF w \in Computed THEN supports[w] ELSE S]
          /\ ext' = [w \in DOMAIN ext \ {v} |-> ext[w]]
      BY <2>3, <2>8 DEF Defined, scheduleUpdate
    <3>2. Computed' = Computed \cup {v}
      BY <3>1 DEF Computed
    <3>3. supports'[v] = S /\ \A w \in Computed : supports'[w] = supports[w]
      BY <2>3, <3>1
    <3>4. \A w \in DOMAIN definitions : w \notin Computed => ext'[w] = ext[w]
      <4>1. \A w \in DOMAIN definitions : w \notin Computed => w \in DOMAIN ext \ {v}
        BY <2>6 DEF CegisInv, CegisTypeOK, IInv, TypeInv, Shape
      <4> QED BY <3>1, <4>1
    <3>5. \A w \in DOMAIN definitions : w # v
      BY <2>6
    <3> QED BY <2>5, <2>7, <3>2, <3>3, <3>4, <3>5 DEF LocalInv, DefinitionsLocal
  <2>9. CASE ~config["dynamic_dependencies"]
    <3>1. UNCHANGED <<ext, supports>>
      BY <2>3, <2>9 DEF Defined
    <3> QED BY <2>3, <2>5, <2>7, <3>1 DEF LocalInv, DefinitionsLocal, Computed
  <2> QED BY <2>8, <2>9
<1> QED BY <1>3, <1>4 DEF FindDefinitions

LEMMA InitDefaultValuesLocal ==
    ASSUME CegisInv, LocalInv, InitDefaultValues
    PROVE  LocalInv'
<1>1. /\ UNCHANGED <<containerVars, definitions, forcing>> /\ pc = "setup" /\ pc' \in {"matrix", "head"}
      /\ default' = [v \in undefined |-> TRUE]
  BY DEF InitDefaultValues, SetupUnchanged, SkipUnates
<1>2. UNCHANGED <<ext, supports, undefined>> /\ DOMAIN default' = undefined
  BY <1>1 DEF containerVars
<1>3. DefinitionsLocal'
  BY <1>1, <1>2, DefinitionsKept DEF LocalInv
<1> QED BY <1>1, <1>2, <1>3 DEF LocalInv

LEMMA forcingClausesFromMatrixLocal ==
    ASSUME CegisInv, LocalInv, forcingClausesFromMatrix
    PROVE  LocalInv'
<1>1. UNCHANGED <<setupVars, definitions>> /\ pc = "matrix" /\ pc' \in {"matrix", "head"}
  BY DEF forcingClausesFromMatrix
<1>2. UNCHANGED <<ext, supports, undefined>>
  BY <1>1 DEF setupVars, containerVars
<1>3. DOMAIN default' = DOMAIN default
  BY DEF forcingClausesFromMatrix, Opposed
<1>4. ASSUME NEW c \in forcing' PROVE DOMAIN c.premise \subseteq ED(c.var)'
  <2>1. CASE c \in forcing
    BY <1>2, <2>1, ReadsKept DEF LocalInv
  <2>2. CASE c \notin forcing
    <3>1. PICK core \in MatrixClauses, m \in undefined : c = getForcingClause(core, m)
      BY <2>2, MatrixForcing
    <3>2. c.premise = restrictTo(core.literals, ED(m)) /\ c.var = m
      BY <3>1 DEF getForcingClause, restrictToExtendedDendencies
    <3> QED BY <1>2, <3>2, ReadsKept DEF restrictTo
  <2> QED BY <2>1, <2>2
<1>5. DefinitionsLocal'
  BY <1>1, <1>2, DefinitionsKept DEF LocalInv
<1> QED BY <1>1, <1>2, <1>3, <1>4, <1>5 DEF LocalInv

LEMMA BeginIterationLocal ==
    ASSUME CegisInv, LocalInv, BeginIteration
    PROVE  LocalInv'
<1>1. /\ UNCHANGED <<setupVars, definitions, forcing>> /\ pc = "head" /\ pc' = "check"
      /\ default' \in IF turn' = 0 THEN [undefined -> BOOLEAN] ELSE {default}
  BY DEF BeginIteration
<1>2. DOMAIN default' = DOMAIN default \/ DOMAIN default' = undefined
  BY <1>1
<1> QED BY <1>1, <1>2, LocalKept

LEMMA analyzeConflictLocal ==
    ASSUME CegisInv, LocalInv, analyzeConflict
    PROVE  LocalInv'
<1>1. UNCHANGED <<setupVars, definitions>> /\ pc = "analyze"
  BY DEF analyzeConflict
<1>2. UNCHANGED <<ext, supports, undefined>>
  BY <1>1 DEF setupVars, containerVars
<1>3. PICK core \in Cores :
         (\E m \in Existentials : AnalyzeForcing(core, m)) \/ AnalyzeArbiters(core)
  BY DEF analyzeConflict
<1>4. LearningType(core)
  BY <1>1, <1>3, AnalyzeForcingType, AnalyzeArbitersType DEF CegisInv, ConflictInv
<1>5. DOMAIN default' = DOMAIN default
  BY <1>3 DEF AnalyzeForcing, AnalyzeArbiters, Opposed
<1>6. ASSUME NEW c \in forcing' PROVE DOMAIN c.premise \subseteq ED(c.var)'
  <2>1. CASE c \in forcing
    BY <1>2, <2>1, ReadsKept DEF LocalInv
  <2>2. CASE c \notin forcing
    <3>1. PICK m \in DOMAIN core.literals \cap Existentials : c = getForcingClause(core, m)
      BY <1>4, <2>2 DEF LearningType
    <3>2. c.premise = restrictTo(core.literals, ED(m)) /\ c.var = m
      BY <3>1 DEF getForcingClause, restrictToExtendedDendencies
    <3> QED BY <1>2, <3>2, ReadsKept DEF restrictTo
  <2> QED BY <2>1, <2>2
<1>7. pc' \in {"head", "arbiters"}
  BY <1>4 DEF LearningType
<1>8. DefinitionsLocal'
  BY <1>1, <1>2, DefinitionsKept DEF LocalInv
<1> QED BY <1>1, <1>2, <1>5, <1>6, <1>7, <1>8 DEF LocalInv

LEMMA LocalStep == CegisInv /\ LocalInv /\ [CegisNext]_cegisVars => LocalInv'
<1> SUFFICES ASSUME CegisInv, LocalInv, [CegisNext]_cegisVars PROVE LocalInv'
  OBVIOUS
<1>1. CASE FindDefinitions
  BY <1>1, FindDefinitionsLocal
<1>2. CASE InitDefaultValues
  BY <1>2, InitDefaultValuesLocal
<1>3. CASE BeginIteration
  BY <1>3, BeginIterationLocal
<1>4. CASE checkArbiterAssignment
  BY <1>4, LocalKept DEF checkArbiterAssignment, ruleVars
<1>5. CASE analyzeConflict
  BY <1>5, analyzeConflictLocal
<1>6. CASE findArbiterAssignment
  BY <1>6, LocalKept DEF findArbiterAssignment
<1>7. CASE Interrupt
  BY <1>7, LocalKept DEF Interrupt, ruleVars
<1>8. CASE UNCHANGED cegisVars
  <2>1. UNCHANGED <<setupVars, definitions, forcing, default, pc>>
    BY <1>8 DEF cegisVars, ruleVars
  <2>2. UNCHANGED <<ext, supports, undefined>>
    BY <2>1 DEF setupVars, containerVars
  <2> QED BY <2>1, <2>2, DefinitionsKept, ReadsKept DEF LocalInv
<1>9. CASE forcingClausesFromMatrix
  BY <1>9, forcingClausesFromMatrixLocal
<1> QED BY <1>1, <1>2, <1>3, <1>4, <1>5, <1>6, <1>7, <1>8, <1>9 DEF CegisNext, Search

\* Both checks read the rules, the matrix and the dependencies alone.
LEMMA ChecksKept ==
    ASSUME UNCHANGED <<setupVars, matrix, ruleVars>>
    PROVE  UNCHANGED <<Counterexamples, Inconsistencies, default, undefined>>
<1>1. UNCHANGED <<ext, supports, undefined, definitions, default, forcing,
                  arbiter_assignment, proper_arbiters>>
  BY DEF setupVars, containerVars, ruleVars
<1>2. ASSUME NEW e, NEW b, NEW s PROVE Fires(e, b, s)' = Fires(e, b, s)
  BY <1>1 DEF Fires
<1>3. ASSUME NEW e, NEW s
      PROVE  Follows(e, s)' = Follows(e, s) /\ Inconsistent(e, s)' = Inconsistent(e, s)
  BY <1>1, <1>2 DEF Follows, Inconsistent
<1>4. ASSUME NEW e PROVE ExistentialED(e)' = ExistentialED(e)
  BY <1>1, ReadsKept DEF ExistentialED
<1>5. Counterexamples' = Counterexamples
  BY <1>3 DEF Counterexamples
<1>6. ASSUME NEW e PROVE InconsistenciesAt(e)' = InconsistenciesAt(e)
  BY <1>3, <1>4 DEF InconsistenciesAt
<1> QED BY <1>1, <1>5, <1>6 DEF Inconsistencies

LEMMA SatStep == CegisInv /\ LocalInv /\ SatInv /\ [CegisNext]_cegisVars => SatInv'
<1> SUFFICES ASSUME CegisInv, LocalInv, SatInv, [CegisNext]_cegisVars, verdict' = "sat"
             PROVE  /\ Counterexamples' = {} /\ Inconsistencies' = {}
                    /\ DOMAIN default' = undefined'
  BY DEF SatInv
<1>1. pc = "done" <=> verdict # "none"
  BY DEF CegisInv, CegisTypeOK
<1>2. CASE checkArbiterAssignment
  <2>1. /\ Counterexamples = {} /\ Inconsistencies = {}
        /\ UNCHANGED <<setupVars, matrix, ruleVars>>
    BY <1>1, <1>2 DEF checkArbiterAssignment
  <2>2. DOMAIN default = undefined
    BY <1>2 DEF checkArbiterAssignment, LocalInv
  <2> QED BY <2>1, <2>2, ChecksKept
<1>3. CASE UNCHANGED cegisVars
  <2>1. UNCHANGED <<setupVars, matrix, ruleVars>> /\ verdict = "sat"
    BY <1>3 DEF cegisVars
  <2> QED BY <2>1, ChecksKept DEF SatInv
<1>4. CASE FindDefinitions \/ InitDefaultValues
  BY <1>1, <1>4 DEF FindDefinitions, InitDefaultValues, SetupUnchanged
<1>5. CASE forcingClausesFromMatrix \/ BeginIteration \/ analyzeConflict
  BY <1>1, <1>5 DEF forcingClausesFromMatrix, BeginIteration, analyzeConflict
<1>6. CASE findArbiterAssignment
  BY <1>1, <1>6 DEF findArbiterAssignment
<1>7. CASE Interrupt
  BY <1>7 DEF Interrupt, Interrupted
<1> QED BY <1>2, <1>3, <1>4, <1>5, <1>6, <1>7 DEF CegisNext, Search

AnswerInv == CegisInv /\ LocalInv /\ SatInv

LEMMA AnswerStep == AnswerInv /\ [CegisNext]_cegisVars => AnswerInv'
BY FindDefinitionsKeeps, InitDefaultValuesKeeps, forcingClausesFromMatrixKeeps, BeginIterationKeeps,
   checkArbiterAssignmentKeeps, analyzeConflictKeeps, findArbiterAssignmentKeeps,
   InterruptKeeps, StutterKeeps, LocalStep, SatStep
   DEF AnswerInv, CegisNext, Search

LEMMA AnswerInvariant == CegisSpec => []AnswerInv
<1>1. CegisInit => AnswerInv
  BY CegisInitHolds, InitLocal DEF AnswerInv
<1> QED BY <1>1, AnswerStep, PTL DEF CegisSpec

LEMMA SatFromInvariant == AnswerInv => SatSound
<1> SUFFICES ASSUME AnswerInv, verdict = "sat"
             PROVE  \E F \in SkolemModels(prefix, matrix) :
                       \A u \in UniversalAssignments : RuleAnswers(u) = {F[u]}
  BY DEF SatSound
<1>1. Counterexamples = {} /\ Inconsistencies = {} /\ DOMAIN default = undefined
  BY DEF AnswerInv, SatInv
<1> QED BY <1>1, RulesAreModel DEF AnswerInv

--------------------------------------------------------------------------------
(***************************************************************************)
(* Theorems.                                                               *)
(***************************************************************************)

\* The answer 10 is right, and the rules kept are the model: one answer to every
\* universal assignment, within the dependencies of the input.
THEOREM SatAnswersRight == CegisSpec => []SatSound
BY AnswerInvariant, SatFromInvariant, PTL

LEMMA ContractModels ==
    Contract!Satisfiable(prefix, matrix) = Satisfiable(prefix, matrix)
BY DEF Contract!Satisfiable, Satisfiable, Contract!SkolemModels, SkolemModels,
       Contract!UniversalAssignments, UniversalAssignments, Contract!Responses, Responses,
       Contract!Join, Join, Contract!Variables, Variables

LEMMA ContractInitially == CegisInit => Contract!ContractInit
<1> SUFFICES ASSUME CegisInit PROVE Contract!ContractInit
  OBVIOUS
<1>1. prefix \in [Existentials -> SUBSET Universals]
  BY CegisInitHolds DEF CegisInv, CegisTypeOK, SetupTypeOK, ContainerTypeOK
<1>2. matrix \in SUBSET TotalAssignments
  BY CegisAssumption DEF CegisInit
<1>3. Contract!TotalAssignments = TotalAssignments
  BY DEF Contract!TotalAssignments, TotalAssignments, Contract!Variables, Variables
<1> QED BY <1>1, <1>2, <1>3 DEF CegisInit, Contract!ContractInit

\* The formula stays, and the search answers at most once.
LEMMA FormulaKept == [CegisNext]_cegisVars => UNCHANGED <<prefix, matrix>>
<1> SUFFICES ASSUME [CegisNext]_cegisVars PROVE UNCHANGED <<prefix, matrix>>
  OBVIOUS
<1>1. [SetupNext]_setupVars
  BY SetupSimulated
<1>2. prefix' = prefix
  <2>1. CASE UNCHANGED containerVars
    BY <2>1 DEF containerVars
  <2>2. CASE \E v \in queue : \E S \in SUBSET ED(v) : Defined(v, S)
    BY <2>2 DEF Defined, scheduleUpdate
  <2>3. CASE EndIteration
    BY <2>3 DEF EndIteration, performUpdate
  <2>4. CASE \E X \in SUBSET undefined : CheckUnates(X)
    BY <2>4 DEF CheckUnates
  <2> QED BY <1>1, <2>1, <2>2, <2>3, <2>4
          DEF SetupNext, SetupStep, Ready, setupVars, BeginRound, SkipRounds, NotDefined,
              SkipUnates
<1>3. matrix' = matrix
  BY DEF CegisNext, Search, FindDefinitions, InitDefaultValues, SetupUnchanged,
         forcingClausesFromMatrix, BeginIteration, checkArbiterAssignment, analyzeConflict, findArbiterAssignment,
         Interrupt, cegisVars
<1> QED BY <1>2, <1>3

LEMMA AnsweredOnce ==
    CegisTypeOK /\ [CegisNext]_cegisVars
        => \/ verdict' = verdict
           \/ verdict = "none" /\ verdict' \in {"sat", "unsat", "unknown"}
<1> SUFFICES ASSUME CegisTypeOK, [CegisNext]_cegisVars, verdict' # verdict
             PROVE  verdict = "none" /\ verdict' \in {"sat", "unsat", "unknown"}
  OBVIOUS
<1>1. pc = "done" <=> verdict # "none"
  BY DEF CegisTypeOK
<1> QED BY <1>1 DEF CegisNext, Search, FindDefinitions, InitDefaultValues, SetupUnchanged,
         forcingClausesFromMatrix, BeginIteration, checkArbiterAssignment, analyzeConflict, findArbiterAssignment,
         Interrupt, Interrupted, cegisVars

\* Every step of the search answers as the contract allows or changes nothing
\* the caller sees.
LEMMA ContractStep ==
    AnswerInv /\ SatSound' /\ UnsatSound' /\ [CegisNext]_cegisVars
        => [Contract!Answer]_(Contract!contractVars)
<1> SUFFICES ASSUME AnswerInv, SatSound', UnsatSound', [CegisNext]_cegisVars
             PROVE  [Contract!Answer]_(Contract!contractVars)
  OBVIOUS
<1>1. prefix' = prefix /\ matrix' = matrix
  BY FormulaKept
<1>2. CASE verdict' = verdict
  BY <1>1, <1>2 DEF Contract!contractVars
<1>3. CASE verdict' = "unknown" /\ verdict = "none"
  BY <1>1, <1>3 DEF Contract!Answer
<1>4. CASE verdict' = "sat" /\ verdict = "none"
  <2>1. Satisfiable(prefix', matrix')
    BY <1>4 DEF SatSound, Satisfiable
  <2>2. Contract!Satisfiable(prefix, matrix)
    BY <1>1, <2>1, ContractModels
  <2> QED BY <1>1, <1>4, <2>2 DEF Contract!Answer
<1>5. CASE verdict' = "unsat" /\ verdict = "none"
  <2>1. ~Satisfiable(prefix', matrix')
    BY <1>5 DEF UnsatSound
  <2>2. ~Contract!Satisfiable(prefix, matrix)
    BY <1>1, <2>1, ContractModels
  <2> QED BY <1>1, <1>5, <2>2 DEF Contract!Answer
<1> QED BY <1>2, <1>3, <1>4, <1>5, AnsweredOnce DEF AnswerInv, CegisInv

\* The search implements the contract of its caller: one answer, and 10 only for
\* a true formula, 20 only for a false one.
THEOREM SearchKeepsContract == CegisSpec => Refinement
<1>1. AnswerInv /\ SatSound' /\ UnsatSound' /\ [CegisNext]_cegisVars
          => [Contract!Answer]_(Contract!contractVars)
  BY ContractStep
<1> QED BY <1>1, AnswerInvariant, SatAnswersRight, UnsatAnswersRight, ContractInitially, PTL
        DEF CegisSpec, Refinement, Contract!ContractSpec

--------------------------------------------------------------------------------
(***************************************************************************)
(* Proofs about the analysis of a conflict: the assertion in getConflict   *)
(* never fails, and with forcing clauses every conflict that is analysed   *)
(* teaches clauses that exclude what no clause excluded before.            *)
(*                                                                         *)
(* The argument: a counterexample follows the rules (ConflictRuled).  An   *)
(* assignment that satisfies the matrix obeys the definitions, so along    *)
(* the order of the dependencies it agrees with the counterexample on all  *)
(* variables as soon as it does on the undefined ones; it then either is   *)
(* the counterexample or obeys two rules that contradict each other.  A    *)
(* forcing clause learned excludes it, an arbiter clause the values of the *)
(* arbiters that failed with it.                                           *)
(***************************************************************************)

\* A satisfying assignment obeys the definitions.
DefinitionsObeyed ==
    \A v \in DOMAIN definitions, s \in matrix :
        \A d \in DOMAIN definitions[v] : Agrees(d, s) => definitions[v][d] = s[v]

ConflictFound == pc = "analyze" => conflict \in Counterexamples \cup Inconsistencies

\* Without arbiter clauses for conflicts that have a forcing clause the arbiter
\* assignment satisfies the arbiter clauses whenever the model is checked.
ArbitersSettled ==
    ~config["always_add_arbiter_clause"] =>
        /\ proper_arbiters = introduced
        /\ pc \notin {"arbiters", "done"} => arbiter_assignment \in ArbiterSolutions

\* What the conflict comes from: an answer r to u of which the variables in C
\* follow their rules; all of them, or those below one with two rules.
Ruled(u, r, C) ==
    /\ u \in UniversalAssignments /\ r \in Responses /\ C \subseteq Existentials
    /\ conflict.universal = u /\ conflict.existential = restrictTo(r, C)
    /\ \A e \in C : Follows(e, Join(u, r))
    /\ \/ C = Existentials /\ Join(u, r) \notin matrix
       \/ \E e \in Existentials : C = ExistentialED(e) /\ Inconsistent(e, Join(u, r))

LEMMA ConflictRuled ==
    ASSUME ConflictFound, pc = "analyze"
    PROVE  \E u, r, C : Ruled(u, r, C)
<1>1. CASE conflict \in Counterexamples
  <2>1. PICK z \in UniversalAssignments \X Responses :
           /\ conflict = [universal |-> z[1], existential |-> z[2]]
           /\ Join(z[1], z[2]) \notin matrix
           /\ \A e \in Existentials : Follows(e, Join(z[1], z[2]))
    BY <1>1 DEF Counterexamples
  <2>2. z[1] \in UniversalAssignments /\ z[2] \in Responses
    OBVIOUS
  <2>3. conflict.universal = z[1] /\ conflict.existential = z[2]
    BY <2>1
  <2>4. restrictTo(z[2], Existentials) = z[2]
    BY <2>2 DEF restrictTo, Responses
  <2>5. Ruled(z[1], z[2], Existentials)
    BY <2>1, <2>2, <2>3, <2>4 DEF Ruled
  <2> QED BY <2>5
<1>2. CASE conflict \in Inconsistencies
  <2>1. PICK e \in Existentials : conflict \in InconsistenciesAt(e)
    BY <1>2 DEF Inconsistencies
  <2>2. PICK z \in UniversalAssignments \X Responses :
           /\ conflict = [universal |-> z[1], existential |-> restrictTo(z[2], ExistentialED(e))]
           /\ Inconsistent(e, Join(z[1], z[2]))
           /\ \A d \in ExistentialED(e) : Follows(d, Join(z[1], z[2]))
    BY <2>1 DEF InconsistenciesAt
  <2>3. z[1] \in UniversalAssignments /\ z[2] \in Responses
    OBVIOUS
  <2>4. conflict.universal = z[1] /\ conflict.existential = restrictTo(z[2], ExistentialED(e))
    BY <2>2
  <2>5. ExistentialED(e) \subseteq Existentials
    BY DEF ExistentialED
  <2>6. Ruled(z[1], z[2], ExistentialED(e))
    BY <2>2, <2>3, <2>4, <2>5 DEF Ruled
  <2> QED BY <2>6
<1> QED BY <1>1, <1>2 DEF ConflictFound

--------------------------------------------------------------------------------
(***************************************************************************)
(* The assertion in getConflict.                                           *)
(***************************************************************************)

\* A definition gives its variable the value every satisfying assignment with
\* the same support has.
LEMMA DefinitionValue ==
    ASSUME CegisInv, LocalInv, DefinitionsObeyed, NEW e \in Existentials \ undefined,
           NEW s \in matrix, NEW t \in TotalAssignments, \A x \in ED(e) : s[x] = t[x]
    PROVE  Fires(e, s[e], t)
<1>1. PICK S \in SUBSET ED(e) : definitions[e] \in [[S -> BOOLEAN] -> BOOLEAN]
  BY DefinitionSupport
<1>2. S \subseteq Variables
  BY OrderInPrefix
<1> DEFINE d == [x \in S |-> t[x]]
<1>3. d \in [S -> BOOLEAN]
  BY <1>2 DEF TotalAssignments
<1>4. Agrees(d, s) /\ Agrees(d, t)
  BY <1>1 DEF Agrees
<1>5. e \in DOMAIN definitions
  BY DEF CegisInv, CegisTypeOK
<1>6. d \in DOMAIN definitions[e]
  <2> HIDE DEF d
  <2> QED BY <1>1, <1>3
<1>7. definitions[e][d] = s[e]
  BY <1>4, <1>5, <1>6 DEF DefinitionsObeyed
<1> QED BY <1>4, <1>5, <1>6, <1>7 DEF Fires

LEMMA MatrixTotal == CegisTypeOK => matrix \subseteq TotalAssignments
BY CegisAssumption DEF CegisTypeOK

\* A satisfying assignment with the universal and undefined values of an answer
\* that follows the rules has its other values too.
LEMMA MatrixFollows ==
    ASSUME CegisInv, LocalInv, DefinitionsObeyed,
           NEW u \in UniversalAssignments, NEW r \in Responses,
           NEW C \in SUBSET Existentials, \A e \in C : Below(e) \subseteq C,
           \A e \in C : Follows(e, Join(u, r)),
           NEW s \in matrix, \A x \in Universals : s[x] = u[x],
           \A e \in C \cap undefined : s[e] = r[e]
    PROVE  \A e \in C : s[e] = r[e]
<1> DEFINE Bad == {e \in C : s[e] # r[e]}
           t == Join(u, r)
<1>1. SUFFICES ASSUME Bad # {} PROVE FALSE
  OBVIOUS
<1>2. PICK e \in Bad : Below(e) \cap Bad = {}
  <2>1. Bad \in SUBSET Existentials
    OBVIOUS
  <2> HIDE DEF Bad
  <2> QED BY <1>1, <2>1, LowestVariable
<1>3. e \in Existentials \ undefined /\ e \in C
  BY <1>2
<1>4. t \in TotalAssignments /\ t[e] = r[e]
  BY <1>3, JoinTotal, JoinValues
<1>5. \A x \in ED(e) : s[x] = t[x]
  <2>1. TAKE x \in ED(e)
  <2>2. x \in Universals \/ x \in Below(e)
    BY <1>3, <2>1, OrderInPrefix DEF Variables, Below
  <2>3. CASE x \in Universals
    BY <2>3, JoinValues
  <2>4. CASE x \in Below(e)
    <3>1. x \in C /\ x \in Existentials
      BY <1>3, <2>4
    <3>2. s[x] = r[x]
      BY <1>2, <2>4, <3>1
    <3> QED BY <3>1, <3>2, JoinValues
  <2> QED BY <2>2, <2>3, <2>4
<1> HIDE DEF t
<1>6. Fires(e, s[e], t)
  BY <1>3, <1>4, <1>5, DefinitionValue
<1>7. s[e] \in BOOLEAN
  BY <1>3, MatrixTotal DEF CegisInv, TotalAssignments, Variables
<1>8. t[e] = s[e]
  BY <1>3, <1>6, <1>7 DEF Follows, t
<1> QED BY <1>2, <1>4, <1>8

\* What obeys the forcing clauses, the links and the matrix has the value of
\* every rule that fires under an assignment with the same values for what the
\* variable may read.
LEMMA RuleObeyed ==
    ASSUME CegisInv, LocalInv, DefinitionsObeyed,
           NEW e \in Existentials, NEW b \in BOOLEAN,
           NEW s \in matrix, NEW t, \A x \in ED(e) : s[x] = t[x],
           \A x \in Universals : s[x] = t[x], Fires(e, b, t),
           NEW A, ObeysForcing(s, A), ObeysLinks(s, A),
           \A a \in proper_arbiters : A[a] = arbiter_assignment[a]
    PROVE  s[e] = b
<1>1. CASE \E c \in forcing : /\ c.var = e /\ c.val = b
                              /\ Agrees(c.premise, t)
                              /\ Agrees(c.arbiters, arbiter_assignment)
  <2>1. PICK c \in forcing : /\ c.var = e /\ c.val = b
                             /\ Agrees(c.premise, t)
                             /\ Agrees(c.arbiters, arbiter_assignment)
    BY <1>1
  <2>2. DOMAIN c.premise \subseteq ED(e) /\ DOMAIN c.arbiters \subseteq proper_arbiters
    BY <2>1 DEF LocalInv, CegisInv, CegisTypeOK, IsForcingClause, IsCube
  <2>3. Agrees(c.premise, s) /\ Agrees(c.arbiters, A)
    BY <2>1, <2>2 DEF Agrees
  <2> QED BY <2>1, <2>3 DEF ObeysForcing
<1>2. CASE \E a \in proper_arbiters : /\ a[1] = e /\ arbiter_assignment[a] = b
                                      /\ Agrees(a[2], t)
  <2>1. PICK a \in proper_arbiters : a[1] = e /\ arbiter_assignment[a] = b /\ Agrees(a[2], t)
    BY <1>2
  <2>2. IsArbiter(a)
    BY DEF CegisInv, CegisTypeOK
  <2>3. PICK f \in Existentials : \E d \in [dependencies[f] -> BOOLEAN] : a = <<f, d>>
    BY <2>2 DEF IsArbiter
  <2>4. DOMAIN a[2] \subseteq Universals
    BY <2>3 DEF CegisInv, CegisTypeOK
  <2>5. Agrees(a[2], s)
    BY <2>1, <2>4 DEF Agrees
  <2> QED BY <2>1, <2>5 DEF ObeysLinks
<1>3. CASE /\ e \in DOMAIN definitions
           /\ \E d \in DOMAIN definitions[e] : definitions[e][d] = b /\ Agrees(d, t)
  <2>1. e \in Existentials \ undefined
    BY <1>3 DEF CegisInv, CegisTypeOK
  <2>2. PICK S \in SUBSET ED(e) : definitions[e] \in [[S -> BOOLEAN] -> BOOLEAN]
    BY <2>1, DefinitionSupport
  <2>3. PICK d \in DOMAIN definitions[e] : definitions[e][d] = b /\ Agrees(d, t)
    BY <1>3
  <2>4. DOMAIN d = S
    BY <2>2, <2>3
  <2>5. Agrees(d, s)
    BY <2>2, <2>3, <2>4 DEF Agrees
  <2> QED BY <1>3, <2>3, <2>5 DEF DefinitionsObeyed
<1> QED BY <1>1, <1>2, <1>3 DEF Fires

\* Below a variable the order is closed.
LEMMA BelowClosed ==
    ASSUME CegisInv, NEW e \in Existentials
    PROVE  \A d \in Below(e) : Below(d) \subseteq Below(e)
BY OrderInPrefix DEF Below

LEMMA AssertionHolds ==
    ASSUME CegisInv, LocalInv, DefinitionsObeyed, ConflictFound, pc = "analyze",
           HasExtension(FullConflict)
    PROVE  FALSE
<1>1. PICK u, r, C : Ruled(u, r, C)
  BY ConflictRuled
<1>2. PICK s \in matrix :
         /\ Agrees(FullConflict.literals, s)
         /\ \E A \in [introduced -> BOOLEAN] :
               Agrees(FullConflict.arbiters, A) /\ ObeysForcing(s, A) /\ ObeysLinks(s, A)
  BY DEF HasExtension
<1>3. PICK A \in [introduced -> BOOLEAN] :
         Agrees(FullConflict.arbiters, A) /\ ObeysForcing(s, A) /\ ObeysLinks(s, A)
  BY <1>2
<1>4. /\ u \in UniversalAssignments /\ r \in Responses /\ C \in SUBSET Existentials
      /\ conflict.universal = u /\ conflict.existential = restrictTo(r, C)
      /\ \A e \in C : Follows(e, Join(u, r))
  BY <1>1 DEF Ruled
<1>5. /\ FullConflict.literals = Merge(u, restrictTo(restrictTo(r, C), undefined))
      /\ FullConflict.arbiters = restrictTo(arbiter_assignment, proper_arbiters)
  BY <1>4 DEF FullConflict
<1>6. \A x \in Universals : s[x] = u[x]
  BY <1>2, <1>4, <1>5 DEF Agrees, Merge, UniversalAssignments
<1>7. \A e \in C \cap undefined : s[e] = r[e]
  <2>1. TAKE e \in C \cap undefined
  <2>2. e \in DOMAIN restrictTo(restrictTo(r, C), undefined) /\ e \notin DOMAIN u
    BY <1>4, <2>1, PrefixAssumption DEF restrictTo, Responses, UniversalAssignments
  <2>3. Merge(u, restrictTo(restrictTo(r, C), undefined))[e] = r[e]
    BY <2>2 DEF Merge, restrictTo
  <2>4. e \in DOMAIN Merge(u, restrictTo(restrictTo(r, C), undefined))
    BY <2>2 DEF Merge
  <2> QED BY <1>2, <1>5, <2>3, <2>4 DEF Agrees
<1>8. \A a \in proper_arbiters : A[a] = arbiter_assignment[a]
  BY <1>3, <1>5 DEF Agrees, restrictTo, CegisInv, CegisTypeOK
<1>9. \A e \in C : Below(e) \subseteq C
  BY <1>1, <1>4, BelowClosed DEF Ruled, ExistentialED, Below
<1>10. \A e \in C : s[e] = r[e]
  BY <1>4, <1>6, <1>7, <1>9, MatrixFollows
<1>11. s \in TotalAssignments
  BY MatrixTotal DEF CegisInv
<1>12. CASE C = Existentials /\ Join(u, r) \notin matrix
  <2>1. \A v \in Variables : Join(u, r)[v] = s[v]
    BY <1>4, <1>6, <1>10, <1>12, JoinValues DEF Variables
  <2>2. Join(u, r) = s
    BY <1>4, <1>11, <2>1, JoinTotal DEF TotalAssignments
  <2> QED BY <1>12, <2>2
<1>13. CASE \E e \in Existentials : C = ExistentialED(e) /\ Inconsistent(e, Join(u, r))
  <2>1. PICK e \in Existentials : C = ExistentialED(e) /\ Inconsistent(e, Join(u, r))
    BY <1>13
  <2>2. \A x \in Universals : s[x] = Join(u, r)[x]
    BY <1>4, <1>6, JoinValues
  <2>3. \A x \in ED(e) : s[x] = Join(u, r)[x]
    <3>1. TAKE x \in ED(e)
    <3>2. x \in Universals \/ x \in C
      BY <2>1, <3>1, OrderInPrefix DEF Variables, ExistentialED
    <3> QED BY <1>4, <1>10, <2>2, <3>2, JoinValues
  <2> DEFINE t == Join(u, r)
  <2>4. Fires(e, TRUE, t) /\ Fires(e, FALSE, t)
    BY <2>1 DEF Inconsistent
  <2>5. ObeysForcing(s, A) /\ ObeysLinks(s, A) /\ s \in matrix /\ e \in Existentials
    BY <1>2, <1>3, <2>1
  <2>6. (\A x \in Universals : s[x] = t[x]) /\ (\A x \in ED(e) : s[x] = t[x])
    BY <2>2, <2>3
  <2> HIDE DEF t
  <2>7. ASSUME NEW b \in BOOLEAN, Fires(e, b, t) PROVE s[e] = b
    BY <1>8, <2>5, <2>6, <2>7, RuleObeyed
  <2>8. s[e] = TRUE /\ s[e] = FALSE
    BY <2>4, <2>7
  <2> QED BY <2>8
<1> QED BY <1>1, <1>12, <1>13 DEF Ruled

--------------------------------------------------------------------------------
(***************************************************************************)
(* What is learned is new.                                                 *)
(***************************************************************************)

\* A core is a part of the failing values.
LEMMA CoreFails ==
    ASSUME CegisTypeOK, NEW core \in Cores
    PROVE  /\ IsPart(core.literals, FailingValues)
           /\ \A e \in DOMAIN core.literals \cap Existentials :
                 e \in DOMAIN conflict.existential /\ core.literals[e] = FailingValues[e]
<1>1. core.literals \in SubCubes(FailingValues)
  BY DEF Cores, FailingValues
<1>2. PICK D \in SUBSET DOMAIN FailingValues : core.literals = restrictTo(FailingValues, D)
  BY <1>1 DEF SubCubes
<1>3. IsPart(core.literals, FailingValues)
  BY <1>2 DEF restrictTo, IsPart, Agrees
<1> QED BY <1>3, CoreShape DEF IsPart, Agrees

\* Before the analysis no rule excludes the counterexample: it follows them.
LEMMA NotRuledOut ==
    ASSUME CegisInv, ConflictFound, pc = "analyze"
    PROVE  ~RuledOut(FailingValues, arbiter_assignment, forcing, proper_arbiters)
<1>1. PICK u, r, C : Ruled(u, r, C)
  BY ConflictRuled
<1>2. /\ u \in UniversalAssignments /\ r \in Responses /\ C \in SUBSET Existentials
      /\ conflict.universal = u /\ conflict.existential = restrictTo(r, C)
      /\ \A e \in C : Follows(e, Join(u, r))
  BY <1>1 DEF Ruled
<1>3. DOMAIN FailingValues = Universals \cup C
  BY <1>2 DEF FailingValues, Merge, restrictTo, UniversalAssignments, Responses
<1>4. \A v \in DOMAIN FailingValues : FailingValues[v] = Join(u, r)[v]
  <2>1. TAKE v \in DOMAIN FailingValues
  <2>2. CASE v \in Universals
    <3>1. FailingValues[v] = u[v]
      BY <1>2, <2>2 DEF FailingValues, Merge, UniversalAssignments
    <3> QED BY <1>2, <2>2, <3>1, JoinValues
  <2>3. CASE v \in C
    <3>1. v \in Existentials /\ v \notin Universals
      BY <1>2, <2>3, PrefixAssumption
    <3>2. FailingValues[v] = r[v]
      BY <1>2, <2>3, <3>1 DEF FailingValues, Merge, restrictTo, UniversalAssignments, Responses
    <3> QED BY <1>2, <3>1, <3>2, JoinValues
  <2> QED BY <1>3, <2>2, <2>3
<1>5. ASSUME NEW c \in forcing,
             IsPart(c.premise, FailingValues), IsPart(c.arbiters, arbiter_assignment),
             c.var \in DOMAIN FailingValues
      PROVE  FailingValues[c.var] = c.val
  <2>1. c.var \in Existentials /\ c.val \in BOOLEAN
    BY DEF CegisInv, CegisTypeOK, IsForcingClause
  <2>2. c.var \in C
    BY <1>3, <1>5, <2>1, PrefixAssumption
  <2>3. Agrees(c.premise, Join(u, r)) /\ Agrees(c.arbiters, arbiter_assignment)
    BY <1>4, <1>5 DEF IsPart, Agrees
  <2>4. Fires(c.var, c.val, Join(u, r))
    BY <2>3 DEF Fires
  <2>5. Join(u, r)[c.var] = c.val
    BY <1>2, <2>1, <2>2, <2>4 DEF Follows
  <2> QED BY <1>4, <1>5, <2>5
<1>6. ASSUME NEW a \in proper_arbiters,
             IsPart(a[2], FailingValues), a[1] \in DOMAIN FailingValues
      PROVE  FailingValues[a[1]] = arbiter_assignment[a]
  <2>1. IsArbiter(a) /\ arbiter_assignment[a] \in BOOLEAN
    BY DEF CegisInv, CegisTypeOK
  <2>2. a[1] \in Existentials
    BY <2>1 DEF IsArbiter
  <2>3. a[1] \in C
    BY <1>3, <1>6, <2>2, PrefixAssumption
  <2>4. Agrees(a[2], Join(u, r))
    BY <1>4, <1>6 DEF IsPart, Agrees
  <2>5. Fires(a[1], arbiter_assignment[a], Join(u, r))
    BY <2>4 DEF Fires
  <2>6. Join(u, r)[a[1]] = arbiter_assignment[a]
    BY <1>2, <2>1, <2>3, <2>5 DEF Follows
  <2> QED BY <1>4, <1>6, <2>6
<1> QED BY <1>5, <1>6 DEF RuledOut

\* The forcing clause of a core excludes the counterexample, with any values of
\* the arbiters that keep those of the core.
LEMMA ForcingRulesOut ==
    ASSUME CegisTypeOK, NEW core \in Cores, NEW m \in DOMAIN core.literals \cap Existentials,
           NEW A, IsPart(core.arbiters, A), NEW P,
           NEW F, getForcingClause(core, m) \in F
    PROVE  RuledOut(FailingValues, A, F, P)
<1> DEFINE c == getForcingClause(core, m)
<1>1. /\ c.premise = restrictTo(core.literals, ED(m)) /\ c.arbiters = core.arbiters
      /\ c.var = m /\ c.val = ~core.literals[m]
  BY DEF getForcingClause, restrictToExtendedDendencies
<1>2. c \in F
  OBVIOUS
<1> HIDE DEF c
<1>3. IsPart(c.premise, FailingValues)
  BY <1>1, CoreFails DEF IsPart, Agrees, restrictTo
<1>4. m \in DOMAIN FailingValues /\ FailingValues[m] = core.literals[m]
  BY CoreFails DEF IsPart, Agrees
<1>5. core.literals[m] \in BOOLEAN
  BY CoreShape DEF IsCube
<1>6. FailingValues[c.var] # c.val
  BY <1>1, <1>4, <1>5
<1>7. IsPart(c.arbiters, A) /\ c.var \in DOMAIN FailingValues
  BY <1>1, <1>4
<1> QED BY <1>2, <1>3, <1>6, <1>7 DEF RuledOut

\* The values of the arbiters of a core outlast an arbiter clause.
LEMMA CoreArbitersKept ==
    ASSUME CegisTypeOK, NEW core \in Cores, NEW linked \in BOOLEAN,
           AddArbiterClause(core, linked)
    PROVE  IsPart(core.arbiters, arbiter_assignment')
<1>1. arbiter_assignment' = Merge(arbiter_assignment, FailingArbiters(core))
  BY DEF AddArbiterClause
<1>2. \A a \in DOMAIN core.arbiters :
         a \in DOMAIN arbiter_assignment /\ core.arbiters[a] = arbiter_assignment[a]
  BY CoreShape DEF CegisTypeOK, introduced
<1> QED BY <1>1, <1>2 DEF IsPart, Agrees, Merge

\* An arbiter clause with links excludes the arbiter assignment, unless an arbiter
\* that had no links has the value that did not fail: then the new links exclude
\* the counterexample.
LEMMA ArbitersRuleOut ==
    ASSUME CegisInv, pc = "analyze", NEW core \in Cores, AddArbiterClause(core, TRUE)
    PROVE  \/ RuledOut(FailingValues, arbiter_assignment', forcing', proper_arbiters')
           \/ Forbidden(arbiter_assignment', arbiter_clauses')
<1> DEFINE failing == FailingArbiters(core)
           clause == Merge(core.arbiters, failing)
<1>1. /\ arbiter_assignment' = Merge(arbiter_assignment, failing)
      /\ proper_arbiters' = proper_arbiters \cup DOMAIN failing
      /\ clause \in arbiter_clauses'
  BY DEF AddArbiterClause
<1>2. IsPart(core.arbiters, arbiter_assignment')
  BY CoreArbitersKept DEF CegisInv
<1>3. DOMAIN failing \subseteq DOMAIN arbiter_assignment'
  <2> HIDE DEF failing
  <2> QED BY <1>1 DEF Merge
<1>4. CASE \A a \in DOMAIN failing : arbiter_assignment'[a] = failing[a]
  <2> HIDE DEF failing
  <2>1. IsPart(clause, arbiter_assignment')
    BY <1>2, <1>3, <1>4 DEF IsPart, Agrees, Merge
  <2> HIDE DEF clause
  <2> QED BY <1>1, <2>1 DEF Forbidden
<1>5. CASE \E a \in DOMAIN failing : arbiter_assignment'[a] # failing[a]
  <2>1. PICK a \in DOMAIN failing : arbiter_assignment'[a] # failing[a]
    BY <1>5
  <2>2. PICK e \in DOMAIN core.literals \cap Existentials :
           a = ArbiterFor(e, conflict.universal)
    BY <2>1 DEF FailingArbiters
  <2>3. a[1] = e /\ DOMAIN a[2] = dependencies[e] /\ Agrees(a[2], conflict.universal)
    BY <2>2 DEF ArbiterFor, Agrees
  <2>4. failing[a] = FailingValues[e] /\ e \in DOMAIN FailingValues
    BY <2>1, <2>2, <2>3, CoreFails DEF FailingArbiters, CegisInv, IsPart
  <2>5. conflict.universal \in UniversalAssignments /\ dependencies[e] \subseteq Universals
    BY <2>2 DEF CegisInv, ConflictInv, CegisTypeOK
  <2>6. IsPart(a[2], FailingValues)
    BY <2>3, <2>5 DEF IsPart, Agrees, FailingValues, Merge, UniversalAssignments
  <2>7. a \in proper_arbiters'
    BY <1>1, <2>1
  <2> HIDE DEF failing
  <2> QED BY <2>1, <2>3, <2>4, <2>6, <2>7 DEF RuledOut
<1> QED BY <1>4, <1>5

--------------------------------------------------------------------------------
(***************************************************************************)
(* The invariant is kept.                                                  *)
(***************************************************************************)

ConflictsInv ==
    /\ AnswerInv
    /\ DefinitionsObeyed
    /\ ConflictFound
    /\ ArbitersSettled

LEMMA InitConflicts == CegisInit => ConflictsInv
<1> SUFFICES ASSUME CegisInit PROVE ConflictsInv
  OBVIOUS
<1>1. AnswerInv
  BY CegisInitHolds, InitLocal DEF AnswerInv
<1>2. DefinitionsObeyed /\ ConflictFound
  BY EmptyCube DEF CegisInit, DefinitionsObeyed, ConflictFound
<1>3. ArbitersSettled
  <2>1. introduced = {} /\ arbiter_assignment \in [introduced -> BOOLEAN]
    BY EmptyCube DEF CegisInit, introduced, EmptyMap
  <2> QED BY <2>1 DEF CegisInit, ArbitersSettled, ArbiterSolutions
<1> QED BY <1>1, <1>2, <1>3 DEF ConflictsInv

\* The definitions found are interpolants.
LEMMA DefinitionsObeyedKept ==
    ASSUME DefinitionsObeyed, CegisInv, [CegisNext]_cegisVars
    PROVE  DefinitionsObeyed'
<1>1. matrix' = matrix
  BY FormulaKept
<1>2. CASE UNCHANGED definitions
  BY <1>1, <1>2 DEF DefinitionsObeyed
<1>3. CASE \E v \in queue : \E S \in SUBSET ED(v) : FindDefinition(v, S)
  <2>1. PICK v \in queue : \E S \in SUBSET ED(v) : FindDefinition(v, S)
    BY <1>3
  <2>2. PICK S \in SUBSET ED(v) : FindDefinition(v, S)
    BY <2>1
  <2>3. PICK g \in Interpolants(v, S) :
           definitions' = [w \in DOMAIN definitions \cup {v} |->
                              IF w = v THEN g ELSE definitions[w]]
    BY <2>2 DEF FindDefinition
  <2>4. /\ g \in [[S -> BOOLEAN] -> BOOLEAN]
        /\ \A s \in matrix : s[v] = g[[x \in S |-> s[x]]]
    BY DEF Interpolants
  <2>5. ASSUME NEW s \in matrix, NEW d \in DOMAIN g, Agrees(d, s) PROVE g[d] = s[v]
    <3>1. d \in [S -> BOOLEAN]
      BY <2>4
    <3>2. d = [x \in S |-> s[x]]
      BY <2>5, <3>1 DEF Agrees
    <3> QED BY <2>4, <3>2
  <2>6. ASSUME NEW w \in DOMAIN definitions', NEW s \in matrix,
               NEW d \in DOMAIN definitions'[w], Agrees(d, s)
        PROVE  definitions'[w][d] = s[w]
    <3>1. CASE w = v
      BY <2>3, <2>5, <2>6, <3>1
    <3>2. CASE w # v
      BY <2>3, <2>6, <3>2 DEF DefinitionsObeyed
    <3> QED BY <3>1, <3>2
  <2> QED BY <1>1, <2>6 DEF DefinitionsObeyed
<1> QED BY <1>2, <1>3 DEF CegisNext, Search, FindDefinitions, InitDefaultValues,
         forcingClausesFromMatrix, BeginIteration, checkArbiterAssignment, analyzeConflict,
         findArbiterAssignment, Interrupt, cegisVars, ruleVars

LEMMA ConflictFoundKept ==
    ASSUME ConflictFound, [CegisNext]_cegisVars
    PROVE  ConflictFound'
<1>1. CASE checkArbiterAssignment
  <2>1. /\ UNCHANGED <<setupVars, matrix, ruleVars>>
        /\ pc' = "analyze" => conflict' \in Counterexamples \cup Inconsistencies
    BY <1>1 DEF checkArbiterAssignment
  <2> QED BY <2>1, ChecksKept DEF ConflictFound
<1>2. CASE UNCHANGED cegisVars
  <2>1. UNCHANGED <<setupVars, matrix, ruleVars>> /\ UNCHANGED <<pc, conflict>>
    BY <1>2 DEF cegisVars
  <2> QED BY <2>1, ChecksKept DEF ConflictFound
<1>3. CASE FindDefinitions \/ InitDefaultValues \/ forcingClausesFromMatrix \/ BeginIteration
           \/ findArbiterAssignment \/ Interrupt
  <2>1. pc' # "analyze"
    BY <1>3 DEF FindDefinitions, InitDefaultValues, forcingClausesFromMatrix, BeginIteration,
                findArbiterAssignment, Interrupt
  <2> QED BY <2>1 DEF ConflictFound
<1>4. CASE analyzeConflict
  <2>1. pc' # "analyze"
    BY <1>4 DEF analyzeConflict, AnalyzeForcing, AnalyzeArbiters
  <2> QED BY <2>1 DEF ConflictFound
<1> QED BY <1>1, <1>2, <1>3, <1>4 DEF CegisNext, Search

LEMMA ConfigKept == [CegisNext]_cegisVars => UNCHANGED config
<1> SUFFICES ASSUME [CegisNext]_cegisVars PROVE UNCHANGED config
  OBVIOUS
<1>1. [SetupNext]_setupVars
  BY SetupSimulated
<1> QED BY <1>1
        DEF SetupNext, SetupStep, Ready, setupVars, BeginRound, SkipRounds, NotDefined,
            SkipUnates, Defined, EndIteration, CheckUnates

LEMMA ArbitersSettledKept ==
    ASSUME ArbitersSettled, CegisInv, [CegisNext]_cegisVars
    PROVE  ArbitersSettled'
<1> SUFFICES ASSUME ~config'["always_add_arbiter_clause"]
             PROVE  /\ proper_arbiters' = introduced'
                    /\ pc' \notin {"arbiters", "done"} => arbiter_assignment' \in ArbiterSolutions'
  BY DEF ArbitersSettled
<1>1. /\ ~config["always_add_arbiter_clause"] /\ proper_arbiters = introduced
      /\ pc \notin {"arbiters", "done"} => arbiter_assignment \in ArbiterSolutions
  BY ConfigKept DEF ArbitersSettled
<1>2. CASE /\ UNCHANGED <<arbiter_assignment, proper_arbiters, arbiter_clauses>>
           /\ pc \in {"arbiters", "done"} => pc' \in {"arbiters", "done"}
  BY <1>1, <1>2 DEF introduced, ArbiterSolutions
<1>3. CASE analyzeConflict
  <2>1. PICK core \in Cores :
           (\E m \in Existentials : AnalyzeForcing(core, m)) \/ AnalyzeArbiters(core)
    BY <1>3 DEF analyzeConflict
  <2>2. CASE \E m \in Existentials : AnalyzeForcing(core, m)
    BY <1>1, <1>2, <1>3, <2>2 DEF AnalyzeForcing, analyzeConflict
  <2>3. CASE AnalyzeArbiters(core)
    <3>1. AddArbiterClause(core, TRUE) /\ pc' = "arbiters"
      BY <2>3 DEF AnalyzeArbiters
    <3>2. /\ arbiter_assignment' = Merge(arbiter_assignment, FailingArbiters(core))
          /\ proper_arbiters' = proper_arbiters \cup DOMAIN FailingArbiters(core)
      BY <3>1 DEF AddArbiterClause
    <3>3. introduced' = introduced \cup DOMAIN FailingArbiters(core)
      BY <3>2 DEF introduced, Merge
    <3> QED BY <1>1, <3>1, <3>2, <3>3
  <2> QED BY <2>1, <2>2, <2>3
<1>4. CASE findArbiterAssignment
  <2>1. /\ UNCHANGED <<proper_arbiters, arbiter_clauses>>
        /\ \/ pc' = "done" /\ UNCHANGED arbiter_assignment
           \/ pc' = "head" /\ arbiter_assignment' \in ArbiterSolutions
    BY <1>4 DEF findArbiterAssignment
  <2>2. introduced' = introduced
    BY <2>1 DEF introduced, ArbiterSolutions
  <2> QED BY <1>1, <2>1, <2>2 DEF ArbiterSolutions
<1>5. CASE FindDefinitions \/ InitDefaultValues \/ forcingClausesFromMatrix \/ BeginIteration
           \/ checkArbiterAssignment \/ Interrupt \/ UNCHANGED cegisVars
  BY <1>2, <1>5 DEF FindDefinitions, InitDefaultValues, SetupUnchanged, forcingClausesFromMatrix,
                    BeginIteration, checkArbiterAssignment, Interrupt, cegisVars, ruleVars
<1> QED BY <1>3, <1>4, <1>5 DEF CegisNext, Search

LEMMA ConflictsInvariant == CegisSpec => []ConflictsInv
<1>1. ConflictsInv /\ [CegisNext]_cegisVars => ConflictsInv'
  BY AnswerStep, DefinitionsObeyedKept, ConflictFoundKept, ArbitersSettledKept
     DEF ConflictsInv, AnswerInv
<1> QED BY InitConflicts, <1>1, PTL DEF CegisSpec

--------------------------------------------------------------------------------
(***************************************************************************)
(* Theorems.                                                               *)
(***************************************************************************)

\* The assertion in getConflict never fails: whichever check found the
\* counterexample, its universal and undefined values contradict the matrix,
\* the forcing clauses and the links, so there is a core.
THEOREM ConflictHasCore == CegisSpec => []ConflictAssertion
<1>1. ConflictsInv => ConflictAssertion
  BY AssertionHolds DEF ConflictsInv, AnswerInv, ConflictAssertion
<1> QED BY ConflictsInvariant, <1>1, PTL

LEMMA LearnsNewStep ==
    ASSUME ConflictsInv, [CegisNext]_cegisVars, pc = "analyze", verdict' = "none",
           config["use_forcing_clauses"], cegisVars' # cegisVars
    PROVE  /\ ~RuledOut(FailingValues, arbiter_assignment, forcing, proper_arbiters)
           /\ \/ config["always_add_arbiter_clause"]
              \/ ~Forbidden(arbiter_assignment, arbiter_clauses)
           /\ \/ RuledOut(FailingValues, arbiter_assignment', forcing', proper_arbiters')
              \/ Forbidden(arbiter_assignment', arbiter_clauses')
<1>1. CegisInv /\ CegisTypeOK /\ ConflictFound /\ ArbitersSettled
  BY DEF ConflictsInv, AnswerInv, CegisInv
<1>2. analyzeConflict
  BY DEF CegisNext, Search, FindDefinitions, InitDefaultValues, forcingClausesFromMatrix,
         BeginIteration, checkArbiterAssignment, findArbiterAssignment, Interrupt, Interrupted
<1>3. ~RuledOut(FailingValues, arbiter_assignment, forcing, proper_arbiters)
  BY <1>1, NotRuledOut
<1>4. ~config["always_add_arbiter_clause"] => ~Forbidden(arbiter_assignment, arbiter_clauses)
  BY <1>1 DEF ArbitersSettled, ArbiterSolutions, Forbidden, IsPart
<1>5. PICK core \in Cores :
         (\E m \in Existentials : AnalyzeForcing(core, m)) \/ AnalyzeArbiters(core)
  BY <1>2 DEF analyzeConflict
<1>6. CASE \E m \in Existentials : AnalyzeForcing(core, m)
  <2>1. PICK m \in Existentials : AnalyzeForcing(core, m)
    BY <1>6
  <2>2. /\ m \in DOMAIN core.literals \cap Existentials
        /\ getForcingClause(core, m) \in forcing'
    BY <2>1 DEF AnalyzeForcing, MayForce, HasForcingClause, analyzeForcingConflict
  <2>3. IsPart(core.arbiters, arbiter_assignment')
    <3>1. CASE config["always_add_arbiter_clause"]
      BY <1>1, <2>1, <3>1, CoreArbitersKept DEF AnalyzeForcing
    <3>2. CASE ~config["always_add_arbiter_clause"]
      <4>1. arbiter_assignment' = arbiter_assignment
        BY <2>1, <3>2 DEF AnalyzeForcing
      <4> QED BY <1>1, <4>1, CoreShape DEF CegisTypeOK, introduced, IsPart, Agrees
    <3> QED BY <3>1, <3>2
  <2>4. RuledOut(FailingValues, arbiter_assignment', forcing', proper_arbiters')
    BY <1>1, <2>2, <2>3, ForcingRulesOut
  <2> QED BY <1>3, <1>4, <2>4
<1>7. CASE AnalyzeArbiters(core)
  <2>1. AddArbiterClause(core, TRUE)
    BY <1>7 DEF AnalyzeArbiters
  <2>2. \/ RuledOut(FailingValues, arbiter_assignment', forcing', proper_arbiters')
        \/ Forbidden(arbiter_assignment', arbiter_clauses')
    BY <1>1, <2>1, ArbitersRuleOut
  <2> QED BY <1>3, <1>4, <2>2
<1> QED BY <1>5, <1>6, <1>7

\* No conflict is met twice when forcing clauses are used: before the analysis
\* neither the rules nor (unless arbiter clauses are always added) the arbiter
\* clauses exclude the counterexample and the values of the arbiters that failed
\* together; after it they do.
THEOREM EveryConflictTeaches == CegisSpec => LearnsNew
<1> DEFINE Learns ==
      pc = "analyze" /\ verdict' = "none" /\ config["use_forcing_clauses"] =>
          /\ ~RuledOut(FailingValues, arbiter_assignment, forcing, proper_arbiters)
          /\ \/ config["always_add_arbiter_clause"]
             \/ ~Forbidden(arbiter_assignment, arbiter_clauses)
          /\ \/ RuledOut(FailingValues, arbiter_assignment', forcing', proper_arbiters')
             \/ Forbidden(arbiter_assignment', arbiter_clauses')
<1>1. ConflictsInv /\ [CegisNext]_cegisVars => [Learns]_cegisVars
  BY LearnsNewStep
<1>2. CegisSpec => [][Learns]_cegisVars
  BY ConflictsInvariant, <1>1, PTL DEF CegisSpec
<1> QED BY <1>2 DEF LearnsNew
================================================================================
