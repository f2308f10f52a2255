# A verification of Pedant in TLA+

Pedant decides dependency quantified Boolean formulas (DQBF) and writes a model
(Skolem functions) or an answer. This directory holds TLA+ models of the solver
in `src/`, of the SAT solver and the AIGER library that come with it, and of the
scripts that certify its models; the TLC configurations that check them, and
TLAPS proofs of what matters most. Line numbers refer to the files under
`src/src/` unless a path says otherwise.

## The system

| Component | State | Operations | Modelled in |
|---|---|---|---|
| Command line, `Configuration` (`pedant.cc`, `configuration.h`) | option struct | parse, `checkConfiguration` | `Configuration` |
| Input (`dqdimacs*`) | blocks of variables, explicit dependencies, definitions, matrix | read a line; add a block, a dependency line, a definition, a clause | `DQDIMACSParser`, `DependencyExtractor` |
| `Preprocessor` | none of its own | builds `InputFormula`, universal reduction of clauses | `Preprocessing` |
| `DependencyExtractor` | dependencies by block, reflexive resolution-path scheme | `getDependencies`, `getExtendedDependencies` | `DependencyExtractor`, `Preprocessing` |
| `DependencyContainer` | dependencies, extended dependencies, supports, pending updates | `scheduleUpdate`, `performUpdate`, queries | `DependencyContainer`, `DependencyVectors` |
| `Solver` (`solver.cc`) | undefined variables, arbiters and their assignment, counters | constructor, `solve` | `CheckDefined`, `LibraryEntry`, `SolverSetup`, `Cegis` |
| `UnateChecker` | a SAT solver, one array of assumptions | `findUnates` | `UnateChecker` |
| `DefinabilityChecker`, `ITPSolver` | two copies of the matrix, selectors, a solver that logs proofs | check, interpolate, reset and retry, add a clause | `DefinabilityChecker` |
| `SkolemContainer`, `Disjunction` | the rules of the current model: definitions, forcing clauses, linking clauses of arbiters; terminals of open disjunctions | add a rule, create and realise an arbiter, set a default | `SkolemContainer`; what the rules mean: `Cegis` |
| `DefaultValueContainer`, `HoeffdingDefaultTree` | constants or trees, with selectors in two arrays | set, flip, split a leaf | `DefaultValues` |
| `SimpleValidityChecker`, `ConsistencyChecker` | two SAT solvers each, last counterexample | check, extract a conflict | `SkolemContainer`, `RuleChecks`; what they decide: `Cegis` |
| `SupportTracker`, `GraphSeparator` | the conflict graph, a flow network | forced variable, minimal separator | `SupportTracker`, `GraphSeparator` |
| `ModelLogger`, `AIGERBuilder` | the rules in order of their discovery | write a CNF or AIGER certificate | `ModelLogger`, `AIGERBuilder`, `Certification` |
| AIGER library (`src/aiger-1.9.9`) | inputs, gates, outputs, symbols | build, check, reencode, write, read | `Aiger` |
| Certification (`src/certification`) | files | convert, check dependencies, check clauses, check the matrix | `Certification` |
| Glucose (`src/glucose`) | clauses with watchers, trail, reasons | add a clause, solve under assumptions, failed assumptions | `GlucoseSolver` |
| Library entry (`solverwrapper.cc`) | none | `callSolver` | `LibraryEntry` |
| Interrupt | a flag | set, poll | `Cegis!Interrupt` |
| CaDiCaL adapter, solver interface | none | delegate | not modelled |

The program is sequential, apart from a signal handler that sets a flag. What
is hard in it is not concurrency but the length of the argument that connects
its steps: three stores of dependencies change while definitions are found; the
dependencies decide which literals a learned clause may drop; the clauses, the
arbiters and the defaults together are the current model; two checks of two
SAT solvers must agree on what this model is; and the answer is right only if no
step in a long run lost a model. The SAT solvers answer whatever they like within
their contract, so each run of the program is one of very many. Files are where
it can fail half-way: a certificate that was cut off is read by other programs.

How the parts interact: `Preprocessor` hands over the matrix, the dependencies
and the extended dependencies. `Solver::solve` first looks for definitions
(`checkDefined`, twice) with the definability checker; each one found changes the
container, which decides what may be defined next; the unate check may fix more
variables. The main loop then asks `SimpleValidityChecker`
whether the rules in `SkolemContainer` are a model. If not, the support tracker
cuts the counterexample down to a core, and the core becomes a forcing clause (a
rule), or an arbiter clause together with rules for new arbiters (linking
clauses), and the defaults of the variables involved are flipped. The arbiter
solver then gives a new assignment of the arbiters, or there is none and the
formula is false. When both checks pass, the logged rules are written as a
certificate, which `certifyModel.py` checks later against the formula.

### What makes the components correct

- input and extraction: the dependencies are those the lines describe, in whatever
  order they come and a hash map is visited; who may read whom is exactly what
  the definition of extended dependencies says;
- preprocessing: a formula has a model if and only if its result has one, also
  after unate literals are fixed;
- container: no query fails; dependencies stay an order; a variable never gets
  to read a universal outside its prefix; no pending update is missed; the
  vectors stay sorted and hold what they should;
- search for definitions: a definition is a function of its support, and the
  support is within what the variable may read at that time; what interpolation
  yields has the variable's value in every model of the matrix;
- rules: both encodings, whatever was added, decide what the rules say; when both
  checks pass the rules describe one function per variable, and these functions
  are a model;
- separators: the variables kept imply the conflict, allow a forcing clause
  where one was promised, and are no more than necessary;
- learning: no learned clause excludes a model; every conflict has a core; with
  forcing clauses no conflict is met twice;
- `solve`: 10 only for true formulas, 20 only for false ones, 0 after a signal,
  and it returns;
- the SAT solver: what it learns follows, its answers and failed assumptions are
  right, and each call returns;
- certificates: a complete one says what the rules say, in both formats and after
  conversion; a verdict "validated" is right for any file.

## The modules

| Module | What it is |
|---|---|
| `DQBF` | formulas, assignments, models (`SkolemModels`), definability, extended dependencies |
| `Literals`, `ClauseSat` | literals as numbers with a sign; satisfiability of a set of clauses (the contract of the SAT solvers) |
| `DQDIMACSParser` | the input file line by line: preamble, comments, words, rejected lines; extends `DependencyExtractor` |
| `DependencyExtractor` | from blocks of variables and dependency lines to dependencies and extended dependencies |
| `SortedVectors` | what sorting a vector of different numbers gives, and inclusion of sorted ranges |
| `Preprocessing` | the dependency scheme and universal reduction |
| `UnateChecker` | the unate check on what preprocessing leaves; extends `Preprocessing` |
| `DefinabilityChecker` | the definability checker on the same formula; extends `Preprocessing` |
| `DefaultValues`, `SkolemContainer`, `RuleChecks` | default values; the rules and their two encodings; what the rules say and the checks decide |
| `SolverSetup` | composes the three above: preprocessor, both checkers and the container of rules up to the main loop and some steps of it |
| `Configuration` | options and `checkConfiguration` |
| `DependencyContainer` | the dependency bookkeeping on sets: state, queries, updates |
| `CheckDefined` | `solve()` before its main loop; extends the container |
| `DependencyVectors` | the sorted vectors, which take the steps of `CheckDefined` beside the sets |
| `LibraryEntry` | the constructor as the library calls it; composes with `CheckDefined` and the vectors |
| `GraphSeparator`, `SupportTracker` | minimum cuts of the conflict graph; the two traversals that build it |
| `Cegis` | all of `solve()`; composes the main loop with `CheckDefined` |
| `SolverContract` | the abstract specification of `solve()`; `Cegis` implements it |
| `GlucoseSolver` | the incremental SAT solver of the Glucose builds, with its adapter |
| `Aiger`, `AIGERBuilder`, `ModelLogger` | the AIGER library; the circuit and the clauses of a model |
| `Certification` | logging, writing, and `certifyModel.py` with its tools; composes the three above |
| `SortedVectorProofs` | lemmas about sorted vectors and about induction, used by `ExtractorProofs`, `CheckDefinedProofs` and `PreprocessingProofs` |
| `CheckDefinedProofs` | proofs about `CheckDefined`, and about `LibraryEntry` and `DependencyVectors`, which extend it |
| `GlucoseProofs`, `SupportProofs` | proofs about the modules of the same names |
| `ExtractorProofs` | proofs about `DependencyExtractor`, as `DQDIMACSParser` runs it |
| `PreprocessingProofs` | proofs about `Preprocessing`, and about `UnateChecker` and `DefinabilityChecker` on what it leaves |
| `RulesProofs` | proofs about the rules and their encoding, as `SolverSetup` runs the container |
| `CegisProofs` | proofs about `Cegis` |
| `MC*` | instances for TLC |

### How state and actions correspond to the code

*Input.* A line is its first character and its words; `parseLine` ends at the word 0 or at
an exception, `processPrefix` and `parsePrefix` handle what comes before the formula, `parseFormula` is one turn
of the loop over its lines. A word without a number ends in exit code 1 ("invalid"), a number too large
for an `int` in an exception nobody catches ("thrown"), and a file without a preamble in a function that
returns no value ("undefined"). Clauses are read here and modelled in `Preprocessing`.

*Extraction.* The state is that of `DQDIMACS` (`first_block_type` starts with any
value, as its constructor leaves it out) and the two maps of
`DependencyExtractor`, with the vectors as sequences, since their order and
their sizes are used later. `addUniversalBlock`, `addExistentialBlock` and
`addExplicitDependencies` are the functions of these names, one step for each line;
`ImplicitDependencies` is the loop over the blocks, `AddExplicit` one turn of
the loop over the explicit dependencies, in any order. The two binary searches
are recursive functions on the indices of the code. A failing `.at()` leads to
the phase "thrown". `prefix` and `lastBlock` record what the lines mean; no
action reads them. Reading `existential_blocks[-1]` (`dependencyextractor.cc:114`)
is not modelled: the value is not used. Input files declare each variable once,
and have a block.

*Preprocessing.* `SearchFrom` is one turn of the loop of `applyDependencyScheme`,
with all it calls; `marked_positive` and `marked_negative` live on from turn to turn as
the two vectors do (`to_consider` is cleared in each, so it is no state). Universals are
searched from in any order. `Reduce` applies universal reduction to every
clause. Here formulas are clauses; in `Cegis` the set of assignments that satisfy them.

*Unate check.* `FindUnates` is a call of `findUnates`, `CheckVariable` one turn of its
inner loop, `EndPass` the end of a pass. The array of assumptions is a sequence, with the
swaps and pops by position of the code. The SAT solver's three formulas are there by
what they mean, and it may give up where the code sets a conflict limit. No arbiter
exists yet, so `arbiter_assignment` is empty.

*Definability.* `BuildChecker` is the constructor, with renamed variables and the three
kinds of selectors numbered in its order; both parts are sets of clauses and a query
asks whether they are contradictory under its selectors. `CheckDefinability` is a
check that finds a definition, `ForcedDefinition` and `Interpolate` are the two ways
`getDefinition` ends, `InterpolationFails` the two handlers that reset the solver and
call it again. `AddClauses` has the two callers of `addClause`, one with a new arbiter. The
interpolating solver is a submodule and external: with a refutation of the query it
gives any function of the inputs that fits, without one it fails. `Cegis` uses only what
this amounts to (`Definable`, and any function).

*Container.* `ext`, `supports`, `toUpdate`, `innermost` are
`extended_dependencies_map`, `supports`, `variables_to_update`,
`innermost_existentials`, with sets for vectors. `ext` and `supports` are
partial functions, since a failing `.at()` is one of the hazards (`Queryable`).
The recursion of `computeDynamicDependencies` is stated as the least closed set
(`Reach`). `scheduleUpdate` and `performUpdate` are the functions of the same
names. `prefix` is the input's dependency map, which the program does not keep;
it is in the model so that properties can speak about it. In
`DependencyVectors` the variables `vectors` and `pending` hold the vectors as
sequences; `merging` and `includedInBoth` are the two loops as recursive
functions on their indices. The walk may dereference the end of the support
after the last match (`dependencycontainer.cc:298`); the result does not depend on it.

*Search for definitions.* `BeginRound` is a call of `checkDefined`,
`NotDefined` and `Defined` are its loop body, `EndIteration` ends an iteration
of its queue, merges the updates, and decides whether another iteration, the
second call or the rest of `solve()` follows. The queue is an ordered set, and the
smallest variable comes first. A definition may have any support
within the extended dependencies, and a check may give up at its limit.

*Rules.* `SkolemContainer` keeps the clauses given to both checks as sets of clauses,
`validity_check_assumptions` and `default_selectors` as sequences that are written by
position, and the terminal of each disjunction. Its actions are the operations of the
class: `AddDefinition`, `AddForcingClause`, `GetArbiter` (created and realised),
`SetDefaultValue`, and the three ways a conflict goes into a default (`InsertIntoConstant`,
`InsertIntoLeaf`, `InsertAndSplit`). When and where a tree splits is MLPack's choice, except that
it never splits on a variable twice along a path. `SolverSetup` puts it behind the
preprocessor and the unate check as the constructor and `solve()` do. Fresh numbers for a group of
variables are handed out in blocks by rank, where the code counts up. Clauses that are
redundant for what the checks decide are left out (`{-active, -no_forcing}` in one, half of
the translation of a premise in the other).

*Separators.* `VisitForced` and `VisitSource` are the traversal of `getForcedSource`,
`ForcedSource` its result, `ProcessExistential` the traversal of `getMinimalSeparator`,
`Separate` the flow and what is read off it. The rules that are active (the model of the
SAT solver) are any choice, made where a traversal reads them first. The maximum flow is
Boost's: its result is the source side of a minimum cut that is smallest.

*Main loop.* `BeginIteration` is the head of the loop with its random defaults,
`forcingClausesFromMatrix` learns from a clause of the matrix as from a core (any clause
the matrix implies may be one), `checkArbiterAssignment` is the validity check and then the consistency check,
`analyzeConflict` the functions `getConflict` and `analyzeConflict` with all they
call, `findArbiterAssignment` the call of the arbiter solver. The matrix is the
set of its satisfying assignments. A rule set is `definitions`, `forcing`, the
linking clauses of `proper_arbiters`, and `default`; `Follows` is what the clauses in
both checkers say about one variable. A default value is a constant, as in a build without MLPack
(`USE_ML` off), where `pedant.cc:352` puts `Values` in the place of `Functions`; trees are in `DefaultValues` and
`SkolemContainer` only. The core is *any* part of the conflict
that is inconsistent with what the extraction solver knows; this covers the
failed assumptions of any solver and both conflict strategies (`Core` and
`MinSeparator`). A counterexample of the consistency check has the values of
the existentials the inconsistent variable may read.

*Glucose.* A clause is named by its literals, with their order beside it, since the first
two are watched. `VisitBinary` and `VisitLong` are one turn of the loops of `propagate`,
`Conflict` what follows a falsified clause, `LearnStep` analysis with minimisation, the
jump back and the learned clause; `Restart`, `ReduceDB`, `Simplify`,
`AdaptStrategies`, `AssumptionDecided`, `AssumptionFails`, `Decide`, `ModelFound` are the
branches of `search`, `AddClause`, `Solve`, `Return`, `getFailed` the adapter. Activities,
saved phases, block distances and the statistics behind restarts choose among steps, and any choice
is taken. Lists of watchers have no order, a deleted clause is gone at once (the code
cleans its watchers before they are read), and the adapter's modes are fixed: incremental, not parallel, no
certified output. `isSelector` is never true, as `nbVarsInitialFormula` is not set.

*Certificates.* `addForcingClause` and `AddDefinition` log; `WriteModel` writes a file as
`writeModelAsCNFToFile` or `writeModelAsAIGToFile` would, in any order of the variables where an
`unordered_map` gives it; `StopWriting` keeps a beginning of it. `ConvertToBinary` is
`aigtoaig`, `CheckDependencies` the dependency checker, `ConvertToCNF` the converter, `CheckClauses`
the checks of `certifyModel.py` on clauses, `CheckMatrix` its last check. A file is a sequence of
records, with bytes for the gates of a binary file. Rules may read anything but not each other
in a circle (the solver's order of dependencies sees to it) and may be contradictory.

## Runs

| Run | Bounds | States, time | Shows |
|---|---|---|---|
| `DependencyExtractor` | 3 universals, 3 existentials, every sequence of lines, with and without extended dependencies and an ignored block | 1,115,433, 1 min | `InnermostRecognised`, `DependenciesOfPrefix`, `ExtendedExact` |
| `Preprocessing` | 2 universals, 2 existentials; up to four binary clauses, or up to two and one of three literals; see below for what follows | 287,086, 2 min | `SchemeExact`, `TruthKept`, `UnatesPreserveTruth`, `NothingUnateLeft`, `DefinitionsRight`, `ValidityEncodesRules`, `ConsistencyEncodesRules` |
| `CheckDefined` | universals 3 and 5, existentials 1, 2 and 4, every prefix, every relevant configuration | 541,869, 2 min | the container's invariants, `VectorsMatch` |
| `LibraryEntry` | 1 universal, 2 + 2 existentials, any acyclic definitions of at most 2 variables each | 119,398, 20 s | `DefinedAreQueryable`, `GivenAreUsable`, `LibraryOrder` |
| `GivenDefinitionsAccepted`, `RangesSorted` | same | | violated: see findings |
| `Support` | 2 universals, 4 existentials, 2 arbiters, rules of at most 2 variables, all four options | 231,917, 30 s | `SeparatorDetermines`, `ForcingClausePossible`, `CutIsMinimal` |
| `Glucose` | 5 variables, 5 lists of clauses, 2 lists of assumptions, with and without a conflict limit, 2 calls, 1 reduction, fair | 204,800, 1 min | `NothingLost`, `PropagationComplete`, `ReasonsImply`, `AnswersRight`, `SolveReturns` |
| `Certification` | 2 universals, 2 existentials, 1 arbiter, at most 2 rules of 10 clauses and 5 definitions, 4 defaults, 3 formats, 5 formulas, 4 sets of options | 400,812, 1 min | `CertificateRight`, `VerdictRight` |
| `Cegis` | 1 universal, 2 existentials, every prefix, 3 to 5 satisfying assignments, fair | 709,000, 90 s | both answers, conflicts, the contract, and that `solve()` returns |
| `CegisArbiters` | 2 universals, 2 existentials that see one each; two clauses of four literals with definitions; one formula only arbiters settle, and the same with a variable to force first: without definitions, with arbiters in forcing clauses, with an arbiter clause for every conflict | 145,904, 2 min | `ModelsObey` and `LearnsNew`, with arbiters and incomparable variables |
| `NoForcing` | 2 universals, 1 existential that sees both, forcing clauses off, fair | | violated: see findings |

*Extraction and preprocessing.*
Three universals allow three blocks of each kind with one variable each (a binary
search with two levels) or blocks with several, and with three existentials two
variables with explicit dependencies meet one block. A resolution path needs two clauses for each
of the two polarities, which is why the formulas for `Preprocessing` have
four; with shorter ones hardly any dependency is real. There, one variable sees
one universal and the other sees the other one or both; it may be innermost and
ignored only if it sees both. Formulas with a universal in one polarity only are
left out, as nothing depends on it.

*After preprocessing.* The product of all that follows with all formulas is out of
reach, so `MCPreprocessing` chooses formulas for each part. The unate check follows on
those of at most three clauses whose second existential sees one universal. The definability
checker runs on those of four clauses in which variable 3 differs from variable 1,
since there variable 3 has a definition, with at most one gate (`MaxGates`) for each and one
added clause (`MaxClauses`): this is the least with which a second definition must
avoid the gates of the first and the number of an arbiter. On one formula with a
definition, an undefined variable and a clause that connects both the container of rules follows,
with constants, trees over universals and trees over existentials too, two premises
for forcing clauses (none and both values), at most one arbiter (`MaxArbiters`), two
forcing clauses (`MaxRules`, so that a disjunction is extended twice) and at most
24 numbers (`MaxNumbers`). `TruthKept` looks at the formula after
reduction; no later step changes it.

*Container.* Three existentials are the smallest number with a chain of definitions and a
bystander that gains both; two universals are needed for incomparable prefixes.
The numbers of universals and existentials interleave, so that sorting a vector is not
the same as appending to it. `LibraryEntry` ends where a vector is no longer sorted (finding 3):
what the code does then depends on its vectors, which the sets do not say.

*Separators.* Two arbiters belong to variables of which one may read the other; a conflict
has two or three existentials, and one is inconsistent, or none. With arbiters in forcing clauses
only the validity check on two literals is looked at, as there are many more graphs.

*Glucose.* The five lists lead to conflicts in long clauses, a contradiction, clauses shortened when
added, units that propagate, and a clause whose watchers move twice. Clauses are added one by one between the two calls,
as many as one likes, so that the second call meets what the first one learned.

*Certification.* The ten forcing clauses and five definitions include contradictory ones, ones outside the prefix,
an arbiter and a definition with an inner gate; the defaults are constants and trees with two and three leaves.
`ByteBase` (128 in the format) is 4, so that differences take several bytes. Writers are
stopped with at most one rule logged. A formula without the needed model, and one
with a variable that does not occur, are among the five. That the two properties are
not empty was looked at: ASCII certificates and clauses that are cut off do get
validated, contradictory rules do get a false formula validated without
the two options, a circuit that is cut off never.

*Main loop.*
In the main loop two existentials suffice for a forcing clause that reads the
other one, for a core with two incomparable variables and for two arbiters of
one variable; one universal gives each variable two answers. The matrices left
out are those with hardly any or almost all assignments, where a conflict is
trivial; one satisfying assignment is fixed, which loses nothing, as renaming
literals maps the others to it. `CheckEvery` (600 in the code) and `RandomEvery`
(500) are 2 where an answer is expected, so that the case of skipping and the case
of doing are both frequent.
With one universal the extended dependencies of the input are a total order, so a core has a
variable that can be forced and arbiters are realised only where a variable was defined by less than its
dependencies and stands beside another one in a core. `CegisArbiters`
has two universals for this: there realised arbiters, unrealised ones, arbiters that get their links
after their value, and
clauses that hold for one arbiter assignment only meet in a search. Where every conflict adds an arbiter clause,
a second formula lets a variable be forced first, so that its arbiter is there without links when
a later conflict needs it. The formulas
that need arbiters are true; false formulas of this size have too many cores to be
exhausted (hundreds of thousands of states per formula and more), for them `UnsatSound`
is checked with one universal and proved in general.

*Fairness.* `WF(Search)` in `Cegis`: the process runs on unless a signal ends it. Nothing
is assumed about the SAT solvers beyond that they return; in particular random
defaults need not be lucky. `Termination` then says that the loop ends, which
holds as each conflict excludes a counterexample under the values of the arbiters, or these
values, that nothing excluded before (`LearnsNew`). In `GlucoseSolver` the
condition is `[]<>(pc = "ready") \/ []<><<SearchStep>>`, which is weak fairness
of a step of the search: one is possible in every state of a call. It is one loop
of one thread, and nothing is assumed about when the heuristics ask for a restart.

*Deadlock* is checked in every run but `Certification`, where the chain of programs
ends with a verdict; elsewhere a finished run stutters in a step of its own.

## Findings

1. `GivenDefinitionsAccepted`: definitions passed to the library may be refused
   with an exception, depending on the iteration order of a hash map.
2. `NoForcing`: with `--forcing-clauses=false` the solver may loop for ever on a
   true formula, since a conflict then leaves nothing but a flipped default. The formula is
   `(-x | -y | e), (x | y | -e)` with `e` depending on both universals: `e = x` is a model, no constant is one.
3. `RangesSorted`: the vectors of dependencies are searched by bisection and merged as
   sorted ones (`dependencycontainer.cc:49`), but given definitions are appended in the order of a hash map.
   A search in such a vector misses variables, and the literal of one that is missed drops out of
   a forcing clause. `VectorsMatch` shows that nothing of the kind happens without given
   definitions: there the queue is ordered. Explicit dependencies with `--extended-dependencies=false --rrs=false` are the
   second source of unsorted vectors (`dependencyextractor.cc:49`; `DependenciesOfPrefix` says which lists are sorted).

Met while reading or modelling, and not shown by a run of its own:

- *Library.* The loop over the innermost block in `processInnermostExistentials` never does anything
  (`solver.cc:455`). A formula with explicit dependencies and an innermost existential
  block can be refused with an exception, because explicit dependencies are added to
  variables of the ignored block too (`ExtendedExact` says exactly when: `IgnoredReader`).
- *Definitions.* Dynamic dependencies are less complete than documented (`pedant.cc:44`): a variable
  of the support of `e1` that `e2` gains only after `e1` was defined does not make `e1`
  usable for `e2`. Nothing becomes wrong by this (`EffectiveOrder` holds). When an invalid argument stops the
  interpolation, the handler (`definabilitychecker.cc:213`) resets the solver but does not repeat the query, so
  `getDefinition` calls itself on a solver without a proof; nothing bounds the calls.
  `DefinabilityChecker::getFailed` asks `fast_solver`, which is never run (only conditional definitions would notice).
- *Unate check.* `unatechecker.cc:84` and `:109` read one element past the end; what is read is overwritten.
- *Rules.* If conditional definitions could be switched on (`configuration.h:22`), the two writers would treat their
  conflicts differently: one never uses such a definition (`modellogger.h:147`), the other everywhere (`buildAIGER.cc:39`).
  `toggleSwitches` is unconditional, although the comment at `hoeffdingDefaultTree.cc:60` speaks of a change of the majority class,
  and `hoeffdingDefaultTree.cc:43` reads a sample beyond its size if variables are missing in it (any leaf, in the model).
- *Separators.* The comment at `graphSeparator.cc:101` says that preferring does not increase the size;
  with arbiters allowed it may. The comment at `supporttracker.cc:285` says a variable may
  be contained in the dependencies of its own dependencies; `StoredOrder` is proved, so it never is.
- *Certificates.* `src/README.md`'s `certifyModel.py formula model` ends without "Model validated!" when
  ABC is installed, because the path given to it contains the temporary directory
  twice or a file that is not there. A test for `.dimacs` in the script compares four characters and never succeeds; the option for
  standard dependencies has no effect on `checkDynamicDependencies`. The dependency checker relies on an order of gates only
  the library's renumbering ensures. `buildAIGER.cc:110-118` does not push renamed inputs (not reached by the
  definitions there are). The clause count at `modellogger.cc:207` is wrong by one, and nobody reads it.
- *Glucose.* The comment "the propagation queue is empty, even if there was a conflict" (`src/glucose/glucose/glucose_core/Solver.cc:1028`)
  fails for a binary clause; `getValues` in `src/glucose/glucose.cc:128` compares with the wrong bound, by one.
  The conflict limit is looked at between restarts only.

## Proofs

`CheckDefinedProofs` proves, for every finite prefix and every configuration,
all state properties of the search for definitions and the action property
`UndefinedOnlyGain`.

- Assumptions: `PrefixAssumption` (finitely many variables, existentials are
  numbers, no variable is both) and `SetupAssumption` (the constants have their
  types).
- The properties are not inductive: `EffectiveOrder` speaks about a recursion
  over supports, and nothing in it says that the stored dependencies of an
  undefined variable include what a *computed* one among them reads. The
  inductive invariant `IInv` adds a certificate: an assignment `X` of dependencies
  to all variables which is an order, lies within the prefix, equals the stored
  dependencies where there are any, and bounds every support
  (`Certified`). What the recursion reads is then bounded by `X`
  (`ReadByBounded`), so no step has to speak about the recursion.
- There are two certificates, one for the stored dependencies and one for those with
  pending updates merged, as the program works with the former until the end of
  an iteration.
- Defining `v` with support `S` exchanges the certificate (`Exchange`): `v` gets
  what its support bounds, and whoever may read all of `S` may read `v`.

`CegisProofs` proves `CegisTypeOK`, `DependenciesSound`, `ModelsObey` and
`UnsatSound` for `CegisSpec`: every prefix, every matrix, every configuration
`CegisAssumption` admits and every choice of the SAT solvers.

- The search for definitions inside `Cegis` is the one of `CheckDefined`
  (`SetupSimulated`), so `IInv` holds here too.
- `UnsatSound` is not inductive. What is kept is that *each model obeys all
  that was learned* (`ModelsObey`): it satisfies the forcing clauses with its own
  values for the arbiters, and these values satisfy the arbiter clauses. Hence
  while there is a model the arbiter solver has a solution (`ModelSolves`).
- A core is inconsistent with the matrix and what was learned. A model obeys
  both, so it disagrees with each core (`ModelExtends`). A forcing clause keeps
  only the literals of the core its variable may read; that every model still
  obeys it (`ForcingClauseHolds`) needs that the universals among the extended
  dependencies determine the variable (`DependenciesSound`): two universal
  assignments that differ only in the dropped ones get the same answer. For an
  arbiter clause (`ArbiterClauseHolds`) the dependencies themselves do.
- `DependenciesSound` in turn comes from the order of the dependencies
  (`StoredOrder`, from `CheckDefinedProofs`) and from each definition being
  a function of its support in every model (`DependencyInv`).
- The inductive invariant `CegisInv` is the conjunction of these, the types,
  and that a conflict has a value for every universal and agrees with the
  realised arbiters that apply to it (`ConflictInv`).

Its second part proves `SatSound`, and `Refinement` of `SolverContract`.

- Each rule for a variable reads only what the variable may read (`LocalInv`).
  Along the order of the dependencies the rules therefore fix one variable
  after the other (`OneMore`; `RulesAnswer` takes a minimal set of variables left
  over, as strict inclusion of finite sets is well-founded). The consistency
  check found no contradiction, so there is exactly one answer (`RulesAnswer`);
  the validity check found no counterexample, so it satisfies the matrix; and
  two universal assignments that agree on the dependencies of the input get the
  same value (`FollowsLocally`, `OrderInPrefix`).
- A step that sets the verdict is a step of the contract, all others stutter
  (`ContractStep`).
- The assumption under which 10 means true for the *input*, and 20 false, is in
  `CegisInit`: exchanging the dependencies by the dependency scheme keeps the
  formula satisfiable if it is. This is `TruthKept`, proved in `PreprocessingProofs`.

Its third part proves `ConflictAssertion` and `LearnsNew` for `CegisSpec`.

- The conflict under analysis is a counterexample of the validity check or an inconsistency of the
  consistency check (`ConflictFound`). A counterexample follows the rules (`ConflictRuled`). An
  assignment that satisfies the matrix obeys the definitions (`DefinitionsObeyed`); so if it agreed with
  the conflict wherever the core may look, it would agree, one variable after the other along the
  dependencies, everywhere, and be the counterexample, which falsifies the matrix, or obey two
  contradictory rules. So there is a core (`ConflictAssertion`).
- Unless arbiter clauses are always added, the assignment of the arbiters satisfies them whenever the
  rules are checked (`ArbitersSettled`). The invariant `ConflictsInv` adds these parts to
  `AnswerInv` of the second part.
- `LearnsNew` then says what stops the loop, for runs with forcing clauses. The counterexample follows the rules, so none
  excluded it (`NotRuledOut`). A forcing clause that is learned does (`ForcingRulesOut`). An arbiter clause excludes
  the values the arbiters have when it is added, unless an arbiter had another value and no links yet: then its
  links exclude the counterexample (`ArbitersRuleOut`). With an arbiter clause for every conflict the arbiter assignment may
  violate an older clause until the arbiter solver runs again, so for these settings nothing is said of the
  arbiter clauses before (TLC finds such states). Without forcing clauses nothing need be learned (finding 2).
  That the loop ends is `Termination`, a liveness property TLC checks.

`CheckDefinedProofs` goes on to the three properties of `LibrarySpec`: the constructor with any acyclic given
definitions, in any order, then the search for definitions.

- The invariant `LibraryInv` has a certificate as above; each definition, given or
  found, extends it as one that was found does there.
- The given definitions come in the order of a hash map. Unless a lookup fails while they are
  processed (the constructor then throws), each read only variables the container knew, whatever the
  order. So what it knows, computed or stored, is closed under reading (`KnownClosed`), nobody
  reads what it does not know yet, and a variable processed is usable for whoever may read its
  support (`ProcessedAreUsable`).

It also proves `VectorsMatch` for `VectorSpec`, so that what is proved about the sets holds
of the vectors the program keeps. Besides the assumptions above it needs that variables are numbers (`VectorAssumption`).

- A vector in order is the only one with its elements (`IncreasingUnique`). So the invariant says of each vector
  which set it is the listing of (`VectorsAscend`), and an operation on vectors is right when its result is in order
  and has the right elements.
- What is appended must be the largest. A definition leaves the queue before all that is still in it, so what is
  pending is smaller than what is queued (`QueueAscends`), which `VectorsMatch` does not say.
- Merging and walking go through places in two and three vectors. What each step returns is compared with the listing of
  what is left (`MergeFacts`, `WalkDecides`), by induction on the number of places left (`MeasureInduction`, which is
  stated for sets, as the library's theorems about induction cannot be used).

`ExtractorProofs` proves `InnermostRecognised`, `DependenciesOfPrefix` and `ExtendedExact` for `ParserSpec`: any number
of variables, any sequence of lines, any options, any order of the hash map.

- The recorded ends of the blocks ascend, both types alternate but for the first and the last, and no variable is
  listed twice (`FormulaInv`, `ExplicitsInv`). While lines are read a block's dependencies are the universals up to its
  index (`ReadingInv`): a line of universals moves no end before it, and a line of existentials either opens a block or
  prolongs the last one, before which no universal came.
- `increasing` has the numbers of a set in order, each at the place the number of smaller ones gives it (`IncreasingFacts`).
  Sorting the blocks one by one therefore changes neither which variables a block has nor their
  dependencies (`SortedBlocksFacts`, `ImplicitKeepsBlocks`).
- Later blocks depend on more (`BlocksGrow`). So the blocks whose dependencies a variable has are those below some bound,
  and those that have the variable's are above another: the binary searches find both bounds, by induction on
  the length of the range they look at (`MaximalSubSetFound`, `MinimalSuperSetFound`, `RangesByLength`).
- `ExtendedInv` relates the lists to the definition for the variables processed so far. A variable with a dependency line
  adds to its own list and to those of others (`ImplicitReadFound`, `ReadersFound`, `ExplicitReadFacts`); none gets the same
  variable twice (`ListStarted`, `ListExtended`).
- The ignored block has no list: the code throws if a variable with a dependency line is to be added there. When that is
  so, is part of `ExtendedExact` (`IgnoredReader`).

`PreprocessingProofs` proves `SchemeExact` and `TruthKept` for `PreprocessingSpec`.

- A search that adds what is one step away, until nothing is new, ends with the least closed set
  (`SearchEnds`, by the well-foundedness of strict inclusion). No search passes another universal,
  so one not searched from has no mark (`SchemeInv`): with the marks reset elsewhere the search starts as the
  definition does (`SearchIsReachable`).
- `ReductionKeepsModels`: a reduced clause is false under a model only where the clause is false for other values of
  the universals left out, which its existentials do not see.
- The scheme keeps *some* model, another one as a rule. For a universal u, let each variable give where u is
  true the answer it gives where u is false, unless a path leads from u to its answer. Were a clause falsified by that,
  it would contain the negation of a literal on a path, and the path would go on to the
  literal that was true (`PathGoesOn`, `BroughtSatisfies`). After the same for the negation of u the answers of a variable
  depend on u only if paths lead to its opposite literals (`BroughtTogether`). Otherwise the dependency can be
  dropped (`DependencyDropped`), for one universal after the other (`TruthInvariant`).

It also proves `UnatesPreserveTruth` and `NothingUnateLeft` for `UnatesSpec`, after any preprocessing.

- The array of assumptions is written by position: `AssumptionsInPlace` says that at each index the
  loop still visits it holds that variable's switch, through swaps, pops and the restoring of the last one.
- A literal found unate keeps a model if there was one: the value can be
  exchanged in every model without leaving the formula (with the equalities of the other
  variables switched on), and one after the other all can be fixed. The second property
  uses that the last pass, which found none, looked at every index with the same fixed literals.

Its last part proves `DefinitionsRight` for `DefinabilitySpec`, the definability checker after any preprocessing. Besides
the assumptions above it needs that variables are positive numbers and that there is a bound on the gates
(`DefinabilityAssumption`).

- `Sat`, which stands for the solvers, sets unit clauses and then one literal after the other. It decides whether there is an
  assignment (`SatDecides`), by induction on the number of literals left (`MeasureInduction`): what setting literals leaves
  has an assignment if and only if there is one with these literals (`ReducedSatisfiable`).
- Variables, copies and selectors are different numbers, now and after new variables have come in with a clause
  (`RenamingInv`), and the parts are the clauses, their copies, the equalities and the two kinds of unit
  clauses under a selector (`PartsInv`). So an assignment to the parts under a query is
  two assignments of the matrix (`AssignmentSplit`, `AssignmentsJoined`), and the query is contradictory exactly if
  the variable is defined (`PartsDecide`).
- `DefinitionsRight` is not inductive: while a definition is read off, the backbone solver holds the clauses
  of the matrix and no more, since all checks come before the first clause is added (`NothingAdded`); a value it forces is
  then that of every model (`ForcedValue`). Gates are numbered after every number in use (`GatesInv`), for the
  largest variable of the parts never exceeds the number used last (`PartsVariables`).

`RulesProofs` proves `ValidityEncodesRules` for `SolverSetupSpec`: any formula and definitions, any rules, arbiters, polarities
and splits of default trees, in any order. Its assumptions are those of `PreprocessingProofs` and `DefaultAssumption`.

- The container only ever adds clauses and changes signs in its array of assumptions, so the property says of each
  step that old clauses and new ones fit together. `Encodes` says what one existential's clauses mean as long as its selector is
  on, in terms of the terminal that closes its disjunction of rules *now* and of a set of default clauses: they
  force the literal of each rule that fires, a false terminal leaves "some rule fires or none is active", and the
  default clauses hold when the default is applied (`Sound`); and every assignment for which this is so can be
  extended to the numbers used inside (`Complete`). Both directions are needed: one shows that what the check accepts
  obeys the rules, the other that it accepts all that does.
- A rule replaces the terminal: what was the terminal becomes one more number inside, whose value says that
  a later rule fires (`RuleEncoded`). This is right because no other clause has the terminal, so the invariant says who
  may use which number: `Public` numbers (variables, arbiters, selectors, entries of the array) are never among
  those inside (`Separated`), and `NumbersInv` that all that was ever used is at most `last_variable`.
- The array of assumptions holds each existential's terminal and use of defaults at fixed places, then the entries of the
  default rules (`ArrayInv`), and ends with what the other array of default selectors holds (`SuffixInv`). `PlacesInv`
  says which places belong to which constant or leaf, and that the leaves of a tree partition the assignments. So
  setting a polarity, or retiring a leaf that is split, changes the signs of its own two entries, at both places
  stored for it (`Conforms`).
- A defined existential has a new selector, behind which only its definition is (`IsDefined`); the old clauses, whose
  selector is free now, constrain nothing. `RulesInv` is the conjunction, with what holds before the default values come
  (`BeforeInv`) and after (`SearchInv`), and `RulesFollow` derives the property: of the assignments of all numbers with the
  assumptions, one satisfies the clauses exactly where the rules give the value (`UndefinedAccepted`, `DefinedAccepted`). TLC
  checks the property only: the invariant speaks of all assignments of infinitely many numbers.

`SupportProofs` proves the three properties of the separators for `SupportSpec`: any
rules, any conflict, any number of variables.

- Its first part is about any graph. Cuts are closed under meet and join and their cost is
  submodular (`MeetCost`, by counting edges of each of the four capacities: `WeighsLess`), so the
  cheapest cuts have a least one (`NearestCut`), which is what the residual graph of a maximum flow gives. Cutting
  all sources costs less than one penalty (`SourcesAreCheap`), so nothing penalised is cut; and an edge
  between two vertices can be exchanged for the internal edge before it at no cost,
  nearer the sources, so only internal edges are (`OnlyInternal`).
- The invariant `SupportInv` says what the two traversals have collected: `SourceInv` that each
  existential met has a rule or is a source, `GraphInv` that the graph holds the edges of all rules that
  lead to the conflict and that what is forbidden is exactly what the forced variable must not read. Hence the graph
  is one the first part is about (`GraphReady`): a source is never forbidden, on which the penalty rests.
- `SeparatorDetermines` then follows along the order of the dependencies: a least vertex on the far
  side that is not determined has a rule that reads another one, as no edge between vertices is cut.
- Where forcing clauses have no arbiters, an arbiter is read by the rule of one variable only
  (`OneReader`), which the forced variable may read; exchanging the one for the other makes the cut
  cheaper, 2 for 3 (`NoArbiterCut`). A smaller set that determines the conflict would be a cheaper cut
  (`DeterminingIsCut`, with the least closed set around it as the far side).

`GlucoseProofs` proves `ReasonsImply`, `NothingLost`, `PropagationComplete` and `AnswersRight` for
`GlucoseSpec`: finitely many variables, any clauses, any assumptions, any number of calls, every choice of the heuristics.

- None of the four is inductive. `PropagationComplete` needs to know what propagation *leaves behind*, even when
  it is broken off by a conflict or a restart: a watched literal that is false, and whose watchers have
  been visited, is made up for by a true literal of the clause *of the same level or below* (`WatchInv`).
  Backtracking removes the two together or neither, so clauses never have to be visited again;
  the literal the blocker names is as good as any, however old. While a conflict is analysed this holds
  below the current level only, and the jump back, which always leaves that level, restores it.
- Backtracking keeps the entries of the trail of some level and below (`Kept`, `KeptCut`), and a step that keeps
  a beginning of the trail, enqueues at most one literal, and turns no watcher the wrong way keeps the invariant:
  `CutStep`, `DescendStep`, `VisitStep`, `AddStep`, `RemoveStep` state this once for the steps alike.
- `analyze` resolves along the trail: what is open and learnt is false, and follows from the clauses (`Resolving`,
  `ResolveStep`). At least one literal of the level is open and each step resolves the last, so it ends with
  exactly one (`ResolvedFacts`): the trail entry without a reason is the first of its level (`DecisionsInv`). A literal dropped by the
  minimisation is implied by those that stay (`ImpliedFacts`, `Minimized`), by induction along the trail. The clause
  learnt is new (`LearntIsNew`): otherwise a literal it watches would have been made up for.
- What the clauses mean is `WorldsInv`: an assignment that satisfies the clauses given satisfies the database and the literals of
  level 0, and one that satisfies the clauses *given* that are left and these literals satisfies all that was given.
  So learnt clauses may go at any time, and clauses satisfied at level 0 too.
- `AnswersRight`: when no variable is left on the heap all are assigned (`VariablesInv`), and as
  propagation is complete every clause has a true literal (`ModelIsRight`). The failed assumptions are closed under reasons (`FinalFacts`);
  in an assignment that satisfies the clauses and those assumptions, the first literal on the trail that is reached and false has a reason that is
  false, too (`FailedInconsistent`).
- That a call returns is `SolveReturns`, a liveness property TLC checks.

Only model-checked:

- the liveness properties `Termination` and `SolveReturns`, out of this prover's reach;
- the encoding for the consistency check (`ConsistencyEncodesRules`): it has the clauses of all existentials in one
  solver and two terminals for each, which the invariant for the validity check does not speak of;
- the certificates (`CertificateRight`, `VerdictRight`): the circuits are `RECURSIVE` operators, which the prover does not take.

## Not modelled

- CaDiCaL and its adapter, the interpolating solver, Boost's maximum flow, MLPack's trees, ABC, CADET and
  the SAT solver of the scripts are not part of the repository or submodules whose
  directories are empty: they appear as contracts (`ClauseSat`, `Interpolants`,
  `MinimumCuts`, any leaf) or not at all.
- Splitting input lines into words and the command line into options (what an option accepts is in `Configuration`),
  the given definitions in an input file, printing of statistics and drawing of trees and graphs: no state of the solver.
- Conditional definitions, which no option switches on; with them go assumptions in the definability
  checker, conflicts of definitions and part of the CNF writer.
- Trees as default values in the main loop, which only builds with MLPack use (`Cegis` has constants, as
  the default build does, pedant.cc:352-357); the trees are in `DefaultValues`, their use in `SkolemContainer`.
- In `Certification`: the names of files, whose endings may tell the format (certifyModel.py:412-421; the first
  line of the file decides instead), and a CADET that fails: every exit code but 20 counts as true
  (checkModel.py:22-25), and the model has the two codes of an answer only.
- Unate variables in the main loop (`CegisAssumption` excludes the option, which is
  off by default).
- Of AIGER: latches, bad states, constraints, justice, fairness, comments, compression, and the
  other tools. Of Glucose: memory management, activities, certified output, the simplifying
  solver (compiled, not used) and the parallel one (not compiled).
- Functions without a caller: `updateExtendedDependencies`, `setDependencies`,
  `minimizeAssumptions`, `getExistentialResponse`, `getAssertingSupport`, `getActiveRuleSupport`,
  `removePenalty`, `DefinabilityChecker::addVariable`; `DefaultValueContainer::insertSample` refers to members that do not exist.

## Plan

Done: extraction and preprocessing, the container on sets and on vectors, the search for definitions,
both checkers, the library entry, the rules with their encodings and defaults, separators, the main loop and its
contract, Glucose, the writers with the AIGER library and the certification; the proofs above.

Left:

1. Unate variables in `Cegis`.
2. The proof for the encoding of the consistency check.
3. Circuits without `RECURSIVE`, after which the certificates can be proved.
