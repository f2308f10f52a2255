--------------------------- MODULE DefinabilityChecker ---------------------------
(***************************************************************************)
(* DefinabilityChecker and the ITPSolver behind it, on the formula that    *)
(* preprocessing leaves: whether a variable is defined by others, and what *)
(* defines it.                                                             *)
(*                                                                         *)
(* The interpolating solver holds the matrix twice, the second part over   *)
(* renamed variables, with selectors that equate a variable with its copy  *)
(* or set it in the first part and unset it in the second one.  A          *)
(* definition is read off the refutation of one query; the solver may fail *)
(* at that and is then reset.  The interpolating solver is no part of the  *)
(* repository: it answers a query by what its clauses say or gives up at   *)
(* its limit, and without a refutation it yields no definition.            *)
(*                                                                         *)
(* Assumptions are always empty (conditional definitions are off), and     *)
(* variables are the numbers up to last_number.                            *)
(***************************************************************************)
EXTENDS Preprocessing, ClauseSat

CONSTANTS
    MaxGates,   \* bound on the gates of a definition
    MaxClauses  \* bound on the clauses added to the matrix

\* Variables are the numbers the input uses.
ASSUME DefinabilityAssumption ==
    /\ Variables \subseteq Nat \ {0}
    /\ MaxGates \in Nat

VARIABLES
    definability,  \* "unbuilt", "idle", "extracting"
    last_number,   \* last_used_variable, which the whole solver takes numbers from
    renaming,
    first_part, second_part,  \* of ITPSolver, which adds them again after a reset
    backbone,      \* the clauses of backbone_solver
    query,         \* what getDefinition is called for
    refuted,       \* what the interpolating solver refuted last
    interpolants   \* the definitions found: the values of a variable, and its gates

definabilityVars == <<definability, last_number, renaming, first_part, second_part, backbone,
                      query, refuted, interpolants>>

Highest(S) == CHOOSE n \in S : \A m \in S : m <= n
variablesOf(cs) == {var(l) : l \in UNION cs}

--------------------------------------------------------------------------------
(***************************************************************************)
(* The numbers the constructor takes, for the variables in turn.           *)
(***************************************************************************)
Count == Cardinality(Variables)
firstNumber == Highest(Variables)
place(v, S) == Cardinality({w \in S : w <= v})
renamed(v) == firstNumber + place(v, Variables)
equality_selector(v) == firstNumber + Count + place(v, Variables)
on_selector(e) == firstNumber + 2 * Count + 2 * place(e, Existentials) - 1
off_selector(e) == on_selector(e) + 1

--------------------------------------------------------------------------------
(***************************************************************************)
(* The clauses.                                                            *)
(***************************************************************************)
renameClause(C, names) == {literal(names[var(l)], l > 0) : l \in C}

\* Mutant: only one of the two implications.
implication(l, m, s) == {{-s, -l, m}}
clausalEncodingEquality(l, m, s) == {{-s, -l, m}, {-s, l, -m}}

firstPart == {cubeLiterals(c) : c \in clauses} \cup {{-on_selector(e), e} : e \in Existentials}

secondPart(names) ==
    {renameClause(cubeLiterals(c), names) : c \in clauses}
      \cup {{-off_selector(e), -names[e]} : e \in Existentials}
      \cup UNION {clausalEncodingEquality(v, names[v], equality_selector(v)) : v \in Variables}

\* checkDefinedInterpolate without assumptions: no two assignments of the matrix
\* agree on the variables of S and differ in v.
refutable(v, S) ==
    ~Sat(under(first_part \cup second_part,
               {equality_selector(w) : w \in S} \cup {on_selector(v), off_selector(v)}))

\* checkForced.
forced(v, b) == ~Sat(under(backbone, {literal(v, ~b)}))

--------------------------------------------------------------------------------
DefinabilityInit ==
    /\ definability = "unbuilt"
    /\ last_number = 0
    /\ renaming = [v \in {} |-> 0]
    /\ first_part = {} /\ second_part = {} /\ backbone = {}
    /\ query = <<>> /\ refuted = <<>>
    /\ interpolants = [e \in {} |-> {}]

BuildChecker ==
    /\ phase = "done" /\ definability = "unbuilt" /\ definability' = "idle"
    /\ last_number' = firstNumber + 2 * Count + 2 * Cardinality(Existentials)
    /\ renaming' = [v \in Variables |-> renamed(v)]
    /\ first_part' = firstPart
    /\ second_part' = secondPart(renaming')
    /\ backbone' = {cubeLiterals(c) : c \in clauses}
    /\ UNCHANGED <<query, refuted, interpolants>>

Added == Cardinality(backbone) - Cardinality(clauses)

\* checkDefinability, followed by getDefinition if there is a definition; the
\* solver may give up at the conflict limit.  All checks come before the first
\* clause is added.
CheckDefinability(v) ==
    LET defining == computeExtendedDependencies(AllDependencies)[v]
    IN  /\ definability = "idle" /\ v \in Kept \ DOMAIN interpolants /\ Added = 0
        /\ refutable(v, defining)
        /\ definability' = "extracting"
        /\ query' = <<v, defining>> /\ refuted' = query'
        /\ UNCHANGED <<last_number, renaming, first_part, second_part, backbone, interpolants>>

Found(f, gates) ==
    /\ definability' = "idle"
    /\ interpolants' = [e \in DOMAIN interpolants \cup {query[1]} |->
                           IF e = query[1] THEN [values |-> f, gates |-> gates]
                                           ELSE interpolants[e]]
    /\ UNCHANGED <<renaming, first_part, second_part, backbone, query, refuted>>

\* A variable with one value in all models is defined by a literal.
ForcedDefinition ==
    /\ definability = "extracting"
    /\ \E b \in BOOLEAN :
          /\ forced(query[1], b) /\ (b => ~forced(query[1], FALSE))
          /\ Found([c \in {[y \in {} |-> TRUE]} |-> b], {})
    /\ UNCHANGED last_number

max_var_index == Highest(variablesOf(first_part \cup second_part))

\* What the gates of a definition are numbered from.
\* Mutant: the largest variable of the two parts alone.
ownOffset(n) == max_var_index
offset(n) == Highest({n, max_var_index})

\* The functions of the inputs an interpolant can be.
Interpolants(v, S) ==
    {f \in [[S -> BOOLEAN] -> BOOLEAN] :
        \A s \in MatrixOf(clauses) : s[v] = f[restrictTo(s, S)]}

Interpolate ==
    /\ definability = "extracting" /\ refuted = query
    /\ \A b \in BOOLEAN : ~forced(query[1], b)
    /\ \E f \in Interpolants(query[1], query[2]), n \in 0..MaxGates :
          LET gates == {offset(last_number) + i : i \in 1..n}
          IN  Found(f, gates) /\ last_number' = Highest({last_number} \cup gates)

\* Interpolation fails.  The handler for an invalid argument resets the solver
\* only; the one for a runtime error also repeats the query, without a limit.
InterpolationFails ==
    /\ definability = "extracting"
    /\ \A b \in BOOLEAN : ~forced(query[1], b)
    /\ refuted' \in {<<>>, query}
    /\ UNCHANGED <<definability, last_number, renaming, first_part, second_part, backbone,
                   query, interpolants>>

\* Mutant: the clause is added to the second part as it is.
withoutRenaming(C, names) == C
inSecondPart(C, names) == renameClause(C, names)

\* addClause.
AddClause(C, last) ==
    LET new == {var(l) : l \in C} \ DOMAIN renaming
    IN  /\ definability = "idle"
        /\ first_part' = first_part \cup {C}
        /\ backbone' = backbone \cup {C}
        /\ renaming' = [v \in DOMAIN renaming \cup new |->
                           IF v \in new THEN last + place(v, new) ELSE renaming[v]]
        /\ last_number' = last + Cardinality(new)
        /\ second_part' = second_part \cup {inSecondPart(C, renaming')}
        /\ UNCHANGED <<definability, query, refuted, interpolants>>

\* checkUnates adds a literal; addForcingClause adds a clause of which one literal
\* may be that of an arbiter, numbered before.
AddClauses ==
    /\ Added < MaxClauses
    /\ \E e \in Existentials, b \in BOOLEAN :
          \/ AddClause({literal(e, b)}, last_number)
          \/ \E u \in Universals : AddClause({literal(e, b), u, last_number + 1}, last_number + 1)

DefinabilityNext ==
    \/ BuildChecker
    \/ \E v \in Existentials : CheckDefinability(v)
    \/ ForcedDefinition
    \/ Interpolate
    \/ InterpolationFails
    \/ AddClauses

DefinabilitySpec ==
    /\ PreprocessingInit /\ DefinabilityInit
    /\ [][\/ PreprocessingNext /\ UNCHANGED definabilityVars
          \/ DefinabilityNext /\ UNCHANGED preprocessingVars]_<<preprocessingVars, definabilityVars>>

--------------------------------------------------------------------------------
(***************************************************************************)
(* Properties.                                                             *)
(***************************************************************************)
\* The assignments to all variables of the matrix with the clauses added.
Assignments ==
    {s \in [Variables \cup variablesOf(backbone) -> BOOLEAN] :
        \A C \in backbone : \E l \in C : holds(l, s)}

\* The two parts decide whether the matrix determines a variable, also with the
\* clauses added, which may be over new variables.  What is found by
\* interpolation, however often that fails, has the value of the variable in
\* every model, and its gates share no number with each other, the copies and
\* selectors or an arbiter.
DefinitionsRight ==
    definability # "unbuilt" =>
        /\ \A v \in Existentials :
              LET S == computeExtendedDependencies(AllDependencies)[v]
              IN  refutable(v, S) <=> Definable(Assignments, v, S)
        /\ \A e \in DOMAIN interpolants : \A s \in MatrixOf(clauses) :
              \A c \in DOMAIN interpolants[e].values :
                 Agrees(c, s) => s[e] = interpolants[e].values[c]
        /\ \A d, e \in DOMAIN interpolants :
              d # e => interpolants[d].gates \cap interpolants[e].gates = {}
        /\ \A e \in DOMAIN interpolants :
              interpolants[e].gates \cap variablesOf(first_part \cup second_part) = {}
================================================================================
