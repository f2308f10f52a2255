---------------------------------- MODULE DQBF ----------------------------------
(***************************************************************************)
(* Dependency quantified Boolean formulas: what the solver is to decide.   *)
(* A matrix is the set of total assignments that satisfy all its clauses.  *)
(***************************************************************************)
EXTENDS Naturals, FiniteSets

CONSTANTS
    Universals,    \* the universal variables of the prefix
    Existentials   \* the existential variables, numbered as in the input

ASSUME PrefixAssumption ==
    /\ Existentials \subseteq Nat
    /\ IsFiniteSet(Existentials)
    /\ IsFiniteSet(Universals)
    /\ Universals \cap Existentials = {}

Variables == Universals \cup Existentials

UniversalAssignments == [Universals -> BOOLEAN]
Responses == [Existentials -> BOOLEAN]
TotalAssignments == [Variables -> BOOLEAN]

\* A cube is a partial assignment: a Boolean function of some variables of D.
IsCube(cube, D) == DOMAIN cube \subseteq D /\ cube \in [DOMAIN cube -> BOOLEAN]
Agrees(cube, s) == \A v \in DOMAIN cube : cube[v] = s[v]
restrictTo(cube, D) == [v \in DOMAIN cube \cap D |-> cube[v]]
SubCubes(cube) == {restrictTo(cube, D) : D \in SUBSET DOMAIN cube}

\* Two cubes over different variables, or that agree on the shared ones.
Merge(c, d) ==
    [v \in DOMAIN c \cup DOMAIN d |-> IF v \in DOMAIN c THEN c[v] ELSE d[v]]

\* The total assignment of a universal assignment and a response to it.
Join(u, r) == [v \in Variables |-> IF v \in Universals THEN u[v] ELSE r[v]]

\* A Skolem model answers every universal assignment so that the matrix is
\* satisfied, and each existential sees only its dependencies.
SkolemModels(dep, matrix) ==
    {F \in [UniversalAssignments -> Responses] :
        /\ \A u \in UniversalAssignments : Join(u, F[u]) \in matrix
        /\ \A e \in Existentials : \A u, w \in UniversalAssignments :
              (\A x \in dep[e] : u[x] = w[x]) => F[u][e] = F[w][e]}

Satisfiable(dep, matrix) == SkolemModels(dep, matrix) # {}

\* The matrix determines v from the variables of S.
Definable(matrix, v, S) ==
    \A s, t \in matrix : (\A x \in S : s[x] = t[x]) => s[v] = t[v]

--------------------------------------------------------------------------------
(***************************************************************************)
(* Extended dependencies.  A variable may read an existential that depends *)
(* on no more than itself; of two variables with the same dependencies the *)
(* smaller one may be read by the larger one.                              *)
(***************************************************************************)
\* Mutant: variables with the same dependencies may read each other.
MayReadEqual(pre, d, e) == pre[d] \subseteq pre[e] /\ d # e

MayRead(pre, d, e) ==
    \/ pre[d] \subseteq pre[e] /\ pre[d] # pre[e]
    \/ pre[d] = pre[e] /\ d < e

computeExtendedDependencies(pre) ==
    [e \in Existentials |-> pre[e] \cup {d \in Existentials : MayRead(pre, d, e)}]
================================================================================
