------------------------------ MODULE Preprocessing ------------------------------
(***************************************************************************)
(* What Preprocessor does to a formula before it is solved: the reflexive  *)
(* resolution-path scheme removes dependencies, universal reduction        *)
(* removes universal literals from clauses.  The scheme searches the       *)
(* matrix once per universal variable and keeps its marks from one search  *)
(* to the next.                                                            *)
(*                                                                         *)
(* A literal is a pair of a variable and its sign, a clause a function     *)
(* from its variables to their signs.                                      *)
(***************************************************************************)
EXTENDS DQBF

CONSTANTS
    Formulas,           \* the formulas considered: [prefix, clauses, ignored]
    PreprocessSettings  \* config.apply_dependency_schemes and apply_forall_reduction

Literals == Variables \X BOOLEAN
IsClause(c) == IsCube(c, Variables)
LiteralsOf(c) == {<<v, c[v]>> : v \in DOMAIN c}
Negation(l) == <<l[1], ~l[2]>>

\* The ignored existentials, the innermost block, depend on all universals.
ASSUME PreprocessingAssumption ==
    /\ \A f \in Formulas :
          /\ f.prefix \in [Existentials -> SUBSET Universals]
          /\ \A c \in f.clauses : IsClause(c)
          /\ f.ignored \subseteq Existentials
          /\ \A e \in f.ignored : f.prefix[e] = Universals
    /\ PreprocessSettings \subseteq [scheme : BOOLEAN, reduction : BOOLEAN]

VARIABLES
    formula, setting,
    clauses,           \* the matrix
    dependencies,      \* pruned_dependencies, then InputFormula::dependencies
    marked_positive,   \* literals reached from the positive literal of a universal
    marked_negative,   \* and from its negative one
    unsearched,        \* the universals not yet searched from
    phase              \* "scheme", "reduction", "done"

preprocessingVars == <<formula, setting, clauses, dependencies,
                       marked_positive, marked_negative, unsearched, phase>>

Kept == Existentials \ formula.ignored

--------------------------------------------------------------------------------
(***************************************************************************)
(* The dependency scheme.                                                  *)
(***************************************************************************)

\* computeInverseDependencies: who depends on u, the ignored ones aside.
inverse_deps(u) == {e \in Kept : u \in formula.prefix[e]}

\* setUpSearchVectors: the variables a search from u may pass.
Considered(u) == inverse_deps(u) \cup formula.ignored \cup {u}

\* The literals one step after those in N: the other literals of the clauses
\* that contain the negation of one in N.
Successors(N) ==
    UNION {LiteralsOf(p[1]) \ {Negation(p[2])} :
              p \in {q \in clauses \X N : Negation(q[2]) \in LiteralsOf(q[1])}}

\* searchPaths(l): l and what it leads to through unmarked literals of the
\* variables considered, together with the marks there were.
searchPaths(l, considered, marked) ==
    LET open == {k \in Literals : k[1] \in considered /\ k \notin marked}
        reach[N \in SUBSET Literals] ==
            LET M == N \cup (Successors(N) \cap open) IN IF M = N THEN N ELSE reach[M]
    IN  marked \cup reach[{l} \cap open]

\* Mutant: the marks of earlier searches are kept.
MarksKept(marked, u, wall) == marked \cup {wall}

\* The marks a search starts with: none at the variables it may pass, and the
\* opposite literal of u as a wall.
setUpSearchVectors(marked, u, wall) ==
    {l \in marked : l[1] \notin Considered(u) \ {u}} \cup {wall}

\* There are paths from u and from its negation to opposite literals of e.
HasPath(e, positive, negative) ==
    \E b \in BOOLEAN : <<e, b>> \in positive /\ <<e, ~b>> \in negative

\* pruned_dependencies[e].push_back(u), which inserts a missing entry.
AddTo(deps, e, u) == (IF e \in DOMAIN deps THEN deps[e] ELSE {}) \cup {u}

\* One turn of the loop over the universals; their order is that of the input.
SearchFrom(u) ==
    /\ phase = "scheme" /\ u \in unsearched
    /\ marked_positive' = searchPaths(<<u, TRUE>>, Considered(u),
                              setUpSearchVectors(marked_positive, u, <<u, FALSE>>))
    /\ marked_negative' = searchPaths(<<u, FALSE>>, Considered(u),
                              setUpSearchVectors(marked_negative, u, <<u, TRUE>>))
    /\ LET found == {e \in inverse_deps(u) : HasPath(e, marked_positive', marked_negative')}
       IN  dependencies' = [e \in DOMAIN dependencies \cup found |->
               IF e \in found THEN AddTo(dependencies, e, u) ELSE dependencies[e]]
    /\ unsearched' = unsearched \ {u}
    /\ UNCHANGED <<formula, setting, clauses, phase>>

PreprocessingInit ==
    /\ formula \in Formulas
    /\ setting \in PreprocessSettings
    /\ clauses = formula.clauses
    /\ dependencies = [e \in Kept |-> IF setting.scheme THEN {} ELSE formula.prefix[e]]
    /\ marked_positive = {} /\ marked_negative = {}
    /\ unsearched = IF setting.scheme THEN Universals ELSE {}
    /\ phase = "scheme"

EndScheme ==
    /\ phase = "scheme" /\ unsearched = {}
    /\ phase' = "reduction"
    /\ UNCHANGED <<formula, setting, clauses, dependencies,
                   marked_positive, marked_negative, unsearched>>

--------------------------------------------------------------------------------
(***************************************************************************)
(* Universal reduction.                                                    *)
(***************************************************************************)

\* A universal literal stays if an existential of the clause depends on it.
Needed(c, v) == v \in Existentials \/ \E e \in DOMAIN c \cap Kept : v \in dependencies[e]

\* Mutant: clauses with ignored variables are reduced as well.
ReduceAlways(c) == restrictTo(c, {v \in DOMAIN c : Needed(c, v)})

applyForallReduction(c) ==
    IF DOMAIN c \cap formula.ignored # {} THEN c
    ELSE restrictTo(c, {v \in DOMAIN c : Needed(c, v)})

Reduce ==
    /\ phase = "reduction"
    /\ clauses' = IF setting.reduction THEN {applyForallReduction(c) : c \in clauses}
                                       ELSE clauses
    /\ phase' = "done"
    /\ UNCHANGED <<formula, setting, dependencies, marked_positive, marked_negative, unsearched>>

PreprocessingNext ==
    \/ \E u \in Universals : SearchFrom(u)
    \/ EndScheme
    \/ Reduce
    \/ phase = "done" /\ UNCHANGED preprocessingVars

PreprocessingSpec == PreprocessingInit /\ [][PreprocessingNext]_preprocessingVars

--------------------------------------------------------------------------------
(***************************************************************************)
(* Properties.                                                             *)
(***************************************************************************)

\* The scheme by its definition, one universal at a time: paths through
\* variables that depend on u, from u and from its negation, to opposite
\* literals of e.
Reachable(l) ==
    LET passable == {m \in Considered(l[1]) \X BOOLEAN : m # Negation(l)}
        IsClosed(K) == Successors(K) \cap passable \subseteq K
    IN  {k \in passable : \A K \in SUBSET passable : l \in K /\ IsClosed(K) => k \in K}

ResolutionPath(u, e) ==
    \E b \in BOOLEAN : <<e, b>> \in Reachable(<<u, TRUE>>) /\ <<e, ~b>> \in Reachable(<<u, FALSE>>)

\* The marks left behind by one search never change the result of a later one,
\* in whatever order the universals are searched from.
SchemeExact ==
    phase = "reduction" /\ setting.scheme =>
        dependencies = [e \in Kept |-> {u \in formula.prefix[e] : ResolutionPath(u, e)}]

\* The satisfying assignments of a set of clauses.
MatrixOf(cs) == {s \in TotalAssignments : \A c \in cs : \E v \in DOMAIN c : s[v] = c[v]}

AllDependencies == [e \in Existentials |->
                       IF e \in Kept THEN dependencies[e] ELSE Universals]

\* Preprocessing neither adds nor removes truth: a model of the result is a
\* model of the input, and where the input has one, so has the result, though
\* reduction works with the dependencies that were left by the scheme.
TruthPreserved ==
    phase = "done" =>
        /\ MatrixOf(clauses) \subseteq MatrixOf(formula.clauses)
        /\ \A e \in Existentials : AllDependencies[e] \subseteq formula.prefix[e]
        /\ Satisfiable(formula.prefix, MatrixOf(formula.clauses))
              => Satisfiable(AllDependencies, MatrixOf(clauses))

\* It is enough to look at the steps of the preprocessor: no later step changes the formula.
TruthKept == [][phase' # phase => TruthPreserved']_preprocessingVars
================================================================================
