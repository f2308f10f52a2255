--------------------------------- MODULE Cegis ---------------------------------
(***************************************************************************)
(* The main loop of Solver::solve(): a model made of rules is checked, a   *)
(* counterexample is reduced to a core, and the core becomes a forcing     *)
(* clause or an arbiter clause, until a check finds nothing (10) or the    *)
(* arbiter clauses have no solution (20).                                  *)
(*                                                                         *)
(* What the SAT solvers return is any result they may return: any          *)
(* counterexample, any unsatisfiable part of it as the core, any solution  *)
(* of the arbiter clauses.                                                 *)
(***************************************************************************)
EXTENDS CheckDefined

CONSTANTS
    Matrices,     \* the matrices considered
    CheckEvery,   \* 600: forcing conflicts between two calls of the arbiter solver
    RandomEvery   \* 500: iterations between two draws of random defaults

ASSUME CegisAssumption ==
    \* Unate variables are not part of the loop modelled here.
    /\ \A c \in Settings : ~c["check_for_unates"]
    /\ Matrices \subseteq SUBSET TotalAssignments
    /\ CheckEvery \in Nat \ {0}
    /\ RandomEvery \in Nat \ {0}

VARIABLES
    matrix,             \* Solver::matrix
    definitions,        \* the definitions found, functions of their support
    default,            \* the polarity of each default value
    forcing,            \* the forcing clauses learned
    arbiter_assignment, \* a value for each arbiter introduced
    proper_arbiters,    \* the arbiters with linking clauses (realised)
    arbiter_clauses,    \* the clauses of arbiter_solver, as cubes they forbid
    conflict,           \* the counterexample of the last check
    unchecked,          \* unchecked_iterations modulo CheckEvery
    turn,               \* iteration modulo RandomEvery
    pc,                 \* what comes next
    verdict             \* "none", "sat" (10), "unsat" (20), "unknown" (0)

ruleVars == <<definitions, default, forcing, arbiter_assignment, proper_arbiters, arbiter_clauses>>
cegisVars == <<setupVars, matrix, ruleVars, conflict, unchecked, turn, pc, verdict>>

--------------------------------------------------------------------------------
(***************************************************************************)
(* Arbiters.  The arbiter of e and an assignment of its dependencies (its  *)
(* annotation) stands for the value of e under this assignment.            *)
(***************************************************************************)
IsArbiter(a) ==
    \E e \in Existentials : \E d \in [dependencies[e] -> BOOLEAN] : a = <<e, d>>

ArbiterFor(e, u) == <<e, [x \in dependencies[e] |-> u[x]]>>

EmptyMap == [x \in {} |-> {}]

\* Between two conflicts the failing assignments do not matter.
NoConflict == [universal |-> EmptyMap, existential |-> EmptyMap]

introduced == DOMAIN arbiter_assignment

\* A forcing clause: if premise and arbiters hold then var has the value val.
IsForcingClause(c) ==
    /\ IsCube(c.premise, Variables)
    /\ IsCube(c.arbiters, proper_arbiters)
    /\ c.var \in Existentials
    /\ c.val \in BOOLEAN

CegisTypeOK ==
    /\ SetupTypeOK
    /\ dependencies \in [Existentials -> SUBSET Universals]
    /\ matrix \in Matrices
    /\ DOMAIN definitions = Existentials \ undefined
    /\ \A v \in DOMAIN definitions :
          \E S \in SUBSET Variables : definitions[v] \in [[S -> BOOLEAN] -> BOOLEAN]
    /\ IsCube(default, Existentials)
    /\ \A c \in forcing : IsForcingClause(c)
    /\ \A a \in introduced : IsArbiter(a)
    /\ arbiter_assignment \in [introduced -> BOOLEAN]
    /\ proper_arbiters \subseteq introduced
    /\ \A c \in arbiter_clauses : IsCube(c, introduced)
    /\ IsCube(conflict.universal, Universals)
    /\ IsCube(conflict.existential, Existentials)
    /\ unchecked \in 0..(CheckEvery - 1)
    /\ turn \in 0..(RandomEvery - 1)
    /\ pc \in {"setup", "matrix", "head", "check", "analyze", "arbiters", "done"}
    /\ verdict \in {"none", "sat", "unsat", "unknown"}
    /\ pc = "done" <=> verdict # "none"

--------------------------------------------------------------------------------
(***************************************************************************)
(* The model the rules describe, read by both checks.                      *)
(***************************************************************************)

\* A rule gives e the value b under s: a forcing clause, the linking clauses
\* of an arbiter, or the definition of e.
Fires(e, b, s) ==
    \/ \E c \in forcing : /\ c.var = e /\ c.val = b
                          /\ Agrees(c.premise, s)
                          /\ Agrees(c.arbiters, arbiter_assignment)
    \/ \E a \in proper_arbiters : /\ a[1] = e /\ arbiter_assignment[a] = b
                                  /\ Agrees(a[2], s)
    \/ /\ e \in DOMAIN definitions
       /\ \E d \in DOMAIN definitions[e] : definitions[e][d] = b /\ Agrees(d, s)

\* The default value counts only where no rule fires.
Follows(e, s) ==
    /\ \A b \in BOOLEAN : Fires(e, b, s) => s[e] = b
    /\ e \in DOMAIN default /\ (\A b \in BOOLEAN : ~Fires(e, b, s)) => s[e] = default[e]

\* Two rules disagree on e.
Inconsistent(e, s) == Fires(e, TRUE, s) /\ Fires(e, FALSE, s)

ExistentialED(e) == ED(e) \cap Existentials

\* The validity check: an answer of the rules that falsifies the matrix.
Counterexamples ==
    {[universal |-> z[1], existential |-> z[2]] :
        z \in {y \in UniversalAssignments \X Responses :
                 /\ Join(y[1], y[2]) \notin matrix
                 /\ \A e \in Existentials : Follows(e, Join(y[1], y[2]))}}

\* The consistency check: the rules contradict each other on e and on no
\* variable e depends on; the counterexample has the values of these.
InconsistenciesAt(e) ==
    {[universal |-> z[1], existential |-> restrictTo(z[2], ExistentialED(e))] :
        z \in {y \in UniversalAssignments \X Responses :
                 /\ Inconsistent(e, Join(y[1], y[2]))
                 /\ \A d \in ExistentialED(e) : Follows(d, Join(y[1], y[2]))}}

\* Mutant: only the validity check counts.
NoInconsistencies == {}

Inconsistencies == UNION {InconsistenciesAt(e) : e \in Existentials}

\* The forcing clauses, and the clauses that link realised arbiters to their
\* variables, under an assignment A of the arbiters.
ObeysForcing(s, A) ==
    \A c \in forcing : Agrees(c.premise, s) /\ Agrees(c.arbiters, A) => s[c.var] = c.val
ObeysLinks(s, A) == \A a \in proper_arbiters : Agrees(a[2], s) => A[a] = s[a[1]]

\* What conflict_extraction_solver is asked: the matrix, the forcing clauses
\* and the linking clauses have a solution that agrees with the core.
HasExtension(core) ==
    \E s \in matrix :
        /\ Agrees(core.literals, s)
        /\ \E A \in [introduced -> BOOLEAN] :
              Agrees(core.arbiters, A) /\ ObeysForcing(s, A) /\ ObeysLinks(s, A)

\* The unsatisfiable parts of the conflict.
Cores ==
    {core \in [literals : SubCubes(Merge(conflict.universal, conflict.existential)),
               arbiters : SubCubes(restrictTo(arbiter_assignment, proper_arbiters))] :
        ~HasExtension(core)}

\* Mutant: the conflict does not name the arbiters.
ConflictWithoutArbiters ==
    [literals |-> Merge(conflict.universal, restrictTo(conflict.existential, undefined)),
     arbiters |-> EmptyMap]

\* The whole conflict as the strategy Core passes it on: the values of the
\* undefined variables only.
FullConflict ==
    [literals |-> Merge(conflict.universal, restrictTo(conflict.existential, undefined)),
     arbiters |-> restrictTo(arbiter_assignment, proper_arbiters)]

--------------------------------------------------------------------------------
(***************************************************************************)
(* Before the loop.                                                        *)
(***************************************************************************)
CegisInit ==
    /\ SetupInit
    /\ matrix \in Matrices
    \* The dependency scheme preserves satisfiability.
    /\ Satisfiable(prefix, matrix) => Satisfiable(dependencies, matrix)
    /\ definitions = EmptyMap
    /\ default = EmptyMap
    /\ forcing = {}
    /\ arbiter_assignment = EmptyMap
    /\ proper_arbiters = {}
    /\ arbiter_clauses = {}
    /\ conflict = NoConflict
    /\ unchecked = 0 /\ turn = 0
    /\ pc = "setup" /\ verdict = "none"

\* The definition of v found by interpolation: a function of its support that
\* every satisfying assignment obeys.  It may be anything where there is none.
Interpolants(v, S) ==
    {g \in [[S -> BOOLEAN] -> BOOLEAN] :
        \A s \in matrix : s[v] = g[[x \in S |-> s[x]]]}

\* Mutant: part of the support is not recorded.
FindShorterDefinition(v, S) ==
    /\ \E T \in SUBSET S : Defined(v, T)
    /\ Definable(matrix, v, S)
    /\ \E g \in Interpolants(v, S) :
          definitions' = [w \in DOMAIN definitions \cup {v} |->
                             IF w = v THEN g ELSE definitions[w]]

FindDefinition(v, S) ==
    /\ Defined(v, S)
    /\ Definable(matrix, v, S)
    /\ \E g \in Interpolants(v, S) :
          definitions' = [w \in DOMAIN definitions \cup {v} |->
                             IF w = v THEN g ELSE definitions[w]]

SetupUnchanged ==
    UNCHANGED <<matrix, forcing, arbiter_assignment, proper_arbiters, arbiter_clauses,
                conflict, unchecked, turn, verdict>>

\* The two calls of checkDefined, with the definitions they find.
FindDefinitions ==
    /\ pc = "setup"
    /\ \/ /\ BeginRound \/ SkipRounds \/ EndIteration \/ \E v \in queue : NotDefined(v)
          /\ UNCHANGED definitions
       \/ \E v \in queue : \E S \in SUBSET ED(v) : FindDefinition(v, S)
    /\ UNCHANGED <<default, pc>>
    /\ SetupUnchanged

\* initDefaultValues: the undefined variables get a default, positive at first.
InitDefaultValues ==
    /\ pc = "setup" /\ SkipUnates
    /\ default' = [v \in undefined |-> TRUE]
    /\ pc' = IF config["check_for_fcs_matrix"] THEN "matrix" ELSE "head"
    /\ UNCHANGED definitions
    /\ SetupUnchanged

--------------------------------------------------------------------------------
(***************************************************************************)
(* The loop.                                                               *)
(***************************************************************************)

\* The head of an iteration; every RandomEvery-th one draws the defaults.
BeginIteration ==
    /\ pc = "head"
    /\ turn' = (turn + 1) % RandomEvery
    /\ default' \in IF turn' = 0 THEN [undefined -> BOOLEAN] ELSE {default}
    /\ pc' = "check"
    /\ UNCHANGED <<setupVars, matrix, definitions, forcing, arbiter_assignment,
                   proper_arbiters, arbiter_clauses, conflict, unchecked, verdict>>

\* The validity check and, if it finds nothing, the consistency check.
checkArbiterAssignment ==
    /\ pc = "check"
    /\ IF Counterexamples \cup Inconsistencies = {}
       THEN /\ pc' = "done" /\ verdict' = "sat"
            /\ UNCHANGED conflict
       ELSE /\ pc' = "analyze"
            /\ conflict' \in IF Counterexamples # {} THEN Counterexamples ELSE Inconsistencies
            /\ UNCHANGED verdict
    /\ UNCHANGED <<setupVars, matrix, ruleVars, unchecked, turn>>

\* Mutant: the variable with the most dependencies is forced in any case.
HasLargest(E, m) ==
    /\ m \in E
    /\ \A e \in E : ~largerExtendedDependencies(e, m)

\* hasForcingClause: the variable with the most extended dependencies is the
\* one to force, if it may read all other existentials of the core.
HasForcingClause(E, m) ==
    /\ m \in E
    /\ \A e \in E : ~largerExtendedDependencies(e, m)
    /\ includedInExtendedDependencies(m, E \ {m})

MayForce(core, m) ==
    /\ config["allow_arbiters_in_forcing_clauses"] \/ core.arbiters = EmptyMap
    /\ HasForcingClause(DOMAIN core.literals \cap Existentials, m)

\* Mutant: the arbiters of the core are not in the clause.
ClauseWithoutArbiters(core, m) ==
    [premise |-> restrictToExtendedDendencies(core.literals, m), arbiters |-> EmptyMap,
     var |-> m, val |-> ~core.literals[m]]

\* Mutant: the literal of the forced variable is not negated.
ClauseForFailing(core, m) ==
    [premise |-> restrictToExtendedDendencies(core.literals, m), arbiters |-> core.arbiters,
     var |-> m, val |-> core.literals[m]]

\* getForcingClause: the core without what m may not read forces m away from
\* its value in the core.
getForcingClause(core, m) ==
    [premise |-> restrictToExtendedDendencies(core.literals, m), arbiters |-> core.arbiters,
     var |-> m, val |-> ~core.literals[m]]

\* The default values of the variables in E become the opposite of the values
\* that failed; defined variables have none.
Opposed(E, core) ==
    [e \in DOMAIN default |-> IF e \in E THEN ~core.literals[e] ELSE default[e]]

analyzeForcingConflict(core, m) ==
    forcing' = IF config["use_forcing_clauses"]
               THEN forcing \cup {getForcingClause(core, m)}
               ELSE forcing

\* getArbiter for each existential of the core, at the universal assignment of
\* the conflict.  New arbiters are assigned what has failed; they get linking
\* clauses unless the conflict has a forcing clause.
FailingArbiters(core) ==
    [a \in {ArbiterFor(e, conflict.universal) : e \in DOMAIN core.literals \cap Existentials} |->
        core.literals[a[1]]]

\* Mutants: a new arbiter gets no value; the arbiters of the core are not in the
\* clause; no arbiter gets linking clauses.
ClauseWithoutValues(core, linked) ==
    LET failing == FailingArbiters(core) IN
    /\ UNCHANGED arbiter_assignment
    /\ proper_arbiters' = IF linked THEN proper_arbiters \cup DOMAIN failing ELSE proper_arbiters
    /\ arbiter_clauses' = arbiter_clauses \cup {Merge(core.arbiters, failing)}
ClauseOfNewArbiters(core, linked) ==
    LET failing == FailingArbiters(core) IN
    /\ arbiter_assignment' = Merge(arbiter_assignment, failing)
    /\ proper_arbiters' = IF linked THEN proper_arbiters \cup DOMAIN failing ELSE proper_arbiters
    /\ arbiter_clauses' = arbiter_clauses \cup {failing}
ClauseWithoutLinks(core, linked) ==
    LET failing == FailingArbiters(core) IN
    /\ arbiter_assignment' = Merge(arbiter_assignment, failing)
    /\ UNCHANGED proper_arbiters
    /\ arbiter_clauses' = arbiter_clauses \cup {Merge(core.arbiters, failing)}

AddArbiterClause(core, linked) ==
    LET failing == FailingArbiters(core) IN
    /\ arbiter_assignment' = Merge(arbiter_assignment, failing)
    /\ proper_arbiters' = IF linked THEN proper_arbiters \cup DOMAIN failing ELSE proper_arbiters
    /\ arbiter_clauses' = arbiter_clauses \cup {Merge(core.arbiters, failing)}

\* A conflict with a forcing clause is settled by the clause, or by the new
\* default alone; only every CheckEvery-th one goes on to the arbiter solver.
AnalyzeForcing(core, m) ==
    /\ MayForce(core, m)
    /\ analyzeForcingConflict(core, m)
    /\ IF config["always_add_arbiter_clause"]
       THEN /\ AddArbiterClause(core, FALSE)
            /\ default' = Opposed(DOMAIN core.literals, core)
       ELSE /\ default' = Opposed({m}, core)
            /\ UNCHANGED <<arbiter_assignment, proper_arbiters, arbiter_clauses>>
    /\ unchecked' = (unchecked + 1) % CheckEvery
    /\ pc' = IF unchecked' = 0 THEN "arbiters" ELSE "head"

AnalyzeArbiters(core) ==
    /\ \A m \in Existentials : ~MayForce(core, m)
    /\ AddArbiterClause(core, TRUE)
    /\ default' = Opposed(DOMAIN core.literals, core)
    /\ pc' = "arbiters"
    /\ UNCHANGED <<forcing, unchecked>>

\* What a clause of the matrix forbids.  The clauses are any the matrix implies.
MatrixClauses ==
    {[literals |-> c, arbiters |-> EmptyMap] :
        c \in {d \in UNION {[D -> BOOLEAN] : D \in SUBSET Variables} :
                 \A s \in matrix : ~Agrees(d, s)}}

\* Before the first iteration: a clause of the matrix that is a forcing clause
\* of an undefined variable is learned as if it were a conflict.  Each clause is
\* visited once, so a step learns something new.
forcingClausesFromMatrix ==
    /\ pc = "matrix"
    /\ \/ \E core \in MatrixClauses : \E m \in undefined :
             /\ HasForcingClause(DOMAIN core.literals \cap Existentials, m)
             /\ analyzeForcingConflict(core, m)
             /\ default' = Opposed({m}, core)
             /\ forcing' # forcing /\ UNCHANGED pc
       \/ pc' = "head" /\ UNCHANGED <<forcing, default>>
    /\ UNCHANGED <<setupVars, matrix, definitions, arbiter_assignment, proper_arbiters,
                   arbiter_clauses, conflict, unchecked, turn, verdict>>

\* getConflict and analyzeConflict.
analyzeConflict ==
    /\ pc = "analyze"
    /\ \E core \in Cores :
          \/ \E m \in Existentials : AnalyzeForcing(core, m)
          \/ AnalyzeArbiters(core)
    /\ conflict' = NoConflict
    /\ UNCHANGED <<setupVars, matrix, definitions, turn, verdict>>

\* The assignments of the arbiters that satisfy all arbiter clauses.
ArbiterSolutions ==
    {A \in [introduced -> BOOLEAN] : \A c \in arbiter_clauses : ~Agrees(c, A)}

findArbiterAssignment ==
    /\ pc = "arbiters"
    /\ IF ArbiterSolutions = {}
       THEN /\ pc' = "done" /\ verdict' = "unsat"
            /\ UNCHANGED arbiter_assignment
       ELSE /\ pc' = "head"
            /\ arbiter_assignment' \in ArbiterSolutions
            /\ UNCHANGED verdict
    /\ UNCHANGED <<setupVars, matrix, definitions, default, forcing, proper_arbiters,
                   arbiter_clauses, conflict, unchecked, turn>>

\* What solve() returns after a signal.  Mutant: as if it had no solution.
InterruptedAsUnsat == "unsat"
Interrupted == "unknown"

\* A signal ends the search wherever it is; solve() then returns 0.
Interrupt ==
    /\ pc # "done"
    /\ pc' = "done" /\ verdict' = Interrupted
    /\ UNCHANGED <<setupVars, matrix, ruleVars, conflict, unchecked, turn>>

Search ==
    \/ FindDefinitions
    \/ InitDefaultValues
    \/ forcingClausesFromMatrix
    \/ BeginIteration
    \/ checkArbiterAssignment
    \/ analyzeConflict
    \/ findArbiterAssignment

CegisNext ==
    \/ Search
    \/ Interrupt
    \/ pc = "done" /\ UNCHANGED cegisVars

\* The process runs on unless it is interrupted.
CegisSpec == CegisInit /\ [][CegisNext]_cegisVars
FairCegisSpec == CegisSpec /\ WF_cegisVars(Search)

--------------------------------------------------------------------------------
(***************************************************************************)
(* Properties.                                                             *)
(***************************************************************************)

\* The answers of the rules to a universal assignment.
RuleAnswers(u) == {r \in Responses : \A e \in Existentials : Follows(e, Join(u, r))}

\* Answer 10 of solve(): the rules give exactly one answer to every universal
\* assignment, it satisfies the matrix, and the value of each existential
\* depends on no universal outside its dependencies in the input, although the
\* rules read other existentials.  The model written to a file is made of them.
SatSound ==
    verdict = "sat" =>
        \E F \in SkolemModels(prefix, matrix) :
            \A u \in UniversalAssignments : RuleAnswers(u) = {F[u]}

\* Answer 20 of solve(): there is no model.
UnsatSound == verdict = "unsat" => ~Satisfiable(prefix, matrix)

\* What a model says about an arbiter: the value of the existential wherever
\* the annotation holds.
ArbiterValue(F, a) ==
    \A u \in UniversalAssignments : Agrees(a[2], u) => F[u][a[1]]

ArbitersAgree(cube, F) == \A a \in DOMAIN cube : cube[a] = ArbiterValue(F, a)

\* Nothing learned excludes a model of the formula: with its own values for the
\* arbiters every model obeys the forcing clauses, although these drop part of
\* the conflict, and satisfies the arbiter clauses.
ModelsObey ==
    \A F \in SkolemModels(dependencies, matrix) :
        /\ \A c \in forcing : \A u \in UniversalAssignments :
              Agrees(c.premise, Join(u, F[u])) /\ ArbitersAgree(c.arbiters, F)
                  => Join(u, F[u])[c.var] = c.val
        /\ \A c \in arbiter_clauses : ~ArbitersAgree(c, F)

\* The assertion in getConflict: the values the counterexample gives to the
\* universal and undefined variables contradict matrix, forcing clauses and
\* links, also when it came from the consistency check, so there is a core.
ConflictAssertion == pc = "analyze" => ~HasExtension(FullConflict)

\* The universals among the extended dependencies determine a variable in every
\* model, also after its dependencies were exchanged for those of its
\* definition.  Dropping the rest of a conflict is right for this reason.
DependenciesSound ==
    \A F \in SkolemModels(dependencies, matrix), e \in Existentials :
        \A u, w \in UniversalAssignments :
            (\A x \in ED(e) \cap Universals : u[x] = w[x]) => F[u][e] = F[w][e]

IsPart(cube, s) == DOMAIN cube \subseteq DOMAIN s /\ Agrees(cube, s)

\* Under the values A of the arbiters the failing values s contradict a rule: one
\* of the forcing clauses F or the links of one of the arbiters P.
RuledOut(s, A, F, P) ==
    \/ \E c \in F : /\ IsPart(c.premise, s) /\ IsPart(c.arbiters, A)
                    /\ c.var \in DOMAIN s /\ s[c.var] # c.val
    \/ \E a \in P : IsPart(a[2], s) /\ a[1] \in DOMAIN s /\ s[a[1]] # A[a]

Forbidden(A, K) == \E c \in K : IsPart(c, A)

FailingValues == Merge(conflict.universal, conflict.existential)

\* No conflict is met twice when forcing clauses are used, so the loop ends.  No
\* rule excluded the counterexample before it was analysed, and no arbiter clause
\* the arbiter assignment (where conflicts with a forcing clause add arbiter
\* clauses too, one may: the arbiter solver was not asked since).  Afterwards a
\* rule excludes the one or an arbiter clause the other.
LearnsNew ==
    [][pc = "analyze" /\ verdict' = "none" /\ config["use_forcing_clauses"] =>
          /\ ~RuledOut(FailingValues, arbiter_assignment, forcing, proper_arbiters)
          /\ \/ config["always_add_arbiter_clause"]
             \/ ~Forbidden(arbiter_assignment, arbiter_clauses)
          /\ \/ RuledOut(FailingValues, arbiter_assignment', forcing', proper_arbiters')
             \/ Forbidden(arbiter_assignment', arbiter_clauses')]_cegisVars

\* solve() returns: it is interrupted or one of the two checks settles it.
Termination == <>(verdict # "none")

\* The search keeps the promise of its caller's contract, step by step.
Contract == INSTANCE SolverContract
    WITH formula_prefix <- prefix, formula_matrix <- matrix, answer <- verdict

Refinement == Contract!ContractSpec
================================================================================
