------------------------------ MODULE LibraryEntry ------------------------------
(***************************************************************************)
(* The constructor of Solver as callSolver uses it: the innermost          *)
(* existential block (Tseitin variables, say) is ignored by the dependency *)
(* extraction, some of its variables come with a definition, and the other *)
(* ones are to be set up by processInnermostExistentials.                  *)
(*                                                                         *)
(* A lookup with .at() that finds nothing ends the run with an exception;  *)
(* the phase is then "thrown".  The definitions are given in any order, so *)
(* the vectors of the container may get out of order.  From then on the    *)
(* searches in them have no defined result, and the model stops.           *)
(***************************************************************************)
EXTENDS DependencyVectors

CONSTANTS
    Block,     \* the innermost existential block
    GivenSets  \* the given definitions considered: partial functions from
               \* variables to the supports of their definitions

VARIABLES
    given,        \* InputFormula::definitions
    unprocessed   \* the given definitions not yet processed

libraryVars == <<vectorVars, given, unprocessed>>

\* A given definition reads universals and existentials of the matrix, and
\* the given definitions have no cycle: some order of the variables puts
\* every definition after those it reads.
Acyclic(g) ==
    \A C \in SUBSET DOMAIN g : C # {} => \E v \in C : g[v] \cap C = {}

\* solver.h: only innermost existential variables have definitions.
ASSUME GivenAssumption ==
    /\ Block \subseteq Existentials
    /\ \A g \in GivenSets :
          /\ DOMAIN g \subseteq Block
          /\ g \in [DOMAIN g -> SUBSET Variables]
          /\ Acyclic(g)

--------------------------------------------------------------------------------
\* The maps of the container have no entry for the ignored block, and the
\* block is not among the undefined variables.
LibraryInit ==
    /\ config \in Settings
    /\ \E pre \in InputPrefixes :
          /\ \A v \in Block : pre[v] = Universals
          /\ prefix = pre
          /\ dependencies = restrictTo(pre, Existentials \ Block)
          /\ ext = [v \in Existentials \ Block |->
                       IF config["extended_dependencies"]
                       THEN computeExtendedDependencies(pre)[v] \ Block
                       ELSE pre[v]]
    /\ VectorsInit
    /\ undefined = Existentials \ Block
    /\ supports = [v \in {} |-> {}]
    /\ toUpdate = [v \in Existentials |-> {}]
    /\ innermost = {}
    /\ given \in GivenSets
    /\ unprocessed = DOMAIN given
    /\ phase = "given"
    /\ round = 1 /\ iteration = 0 /\ queue = {} /\ newQueue = {}

\* After scheduleUpdate, addDefinition restricts the support to the extended
\* dependencies of the variable, which are computed from the supports.
\* Mutant: a failing lookup goes unnoticed.
LookupIgnored(v) == FALSE
LookupFails(v) == given[v] # {} /\ ~Queryable(v)'

\* processGivenDefinitions visits an unordered map: any definition is next.
GivenDefinition(v) ==
    /\ phase = "given"
    /\ undefined' = undefined \ {v}
    /\ scheduleUpdate(v, given[v]) /\ scheduleVectorUpdate(v, given[v])
    /\ addInnermostExistential(v)
    /\ unprocessed' = unprocessed \ {v}
    /\ phase' = IF LookupFails(v) THEN "thrown" ELSE phase
    /\ UNCHANGED <<config, passVars, given>>

EndGiven ==
    /\ phase = "given" /\ unprocessed = {}
    /\ performUpdate /\ performVectorUpdate
    /\ phase' = "innermost"
    /\ UNCHANGED <<config, undefined, passVars, given, unprocessed>>

\* The variables of the block the loop of processInnermostExistentials does
\* not leave aside with "we already added a definition for the variable".
ToProcess == Block \cap undefined

\* The loop, for variables that turn out not to be defined: each may read all
\* universals, the other variables and, in turn, those processed before it.
\* Then solve() runs as it does for a formula from the command line.
ProcessInnermost ==
    /\ phase = "innermost"
    /\ undefined' = undefined \cup ToProcess
    /\ innermost' = innermost \cup ToProcess
    /\ ext' = [w \in DOMAIN ext \cup ToProcess |->
                  IF w \in DOMAIN ext THEN ext[w]
                  ELSE Universals \cup
                       (IF config["extended_dependencies"]
                        THEN (Existentials \ Block) \cup {d \in ToProcess : d < w}
                        ELSE {})]
    /\ vectors' = [w \in DOMAIN ext' |-> IF w \in DOMAIN vectors THEN vectors[w] ELSE ordered[ext'[w]]]
    /\ phase' = "start"
    /\ UNCHANGED <<pending, config, prefix, dependencies, supports, toUpdate, passVars, given, unprocessed>>

LibraryStep ==
    \/ \E v \in unprocessed : GivenDefinition(v)
    \/ EndGiven
    \/ ProcessInnermost
    \/ VectorStep /\ UNCHANGED <<given, unprocessed>>

\* All vectors the searches of the next step read are sorted.
Searchable ==
    /\ RangesSorted
    /\ unprocessed # {} => \A v \in Existentials : Increasing(pending[v])

LibraryNext ==
    \/ Searchable /\ LibraryStep
    \/ (phase \in {"ready", "thrown"} \/ ~Searchable) /\ UNCHANGED libraryVars

LibrarySpec == LibraryInit /\ [][LibraryNext]_libraryVars

--------------------------------------------------------------------------------
(***************************************************************************)
(* Properties.                                                             *)
(***************************************************************************)
Constructed == phase \notin {"given", "innermost", "thrown"}

\* If no lookup failed while the definitions were processed, none fails when
\* the dependencies of a defined variable are computed later.
DefinedAreQueryable ==
    Constructed => \A v \in Computed : Queryable(v)

\* Whatever the order of the map, when the constructor succeeds a variable
\* outside the block that may read all of a given definition may read the
\* variable defined.
GivenAreUsable ==
    phase = "innermost" =>
        \A v \in DOMAIN given, w \in undefined :
            given[v] \subseteq ED(w) => v \in ED(w)

\* The definitions given for the block keep the order of the dependencies: no
\* variable reads itself, and whatever it reads, it may read the dependencies of.
\* They let no variable outside the block read more universals than its prefix.
LibraryOrder ==
    Constructed =>
        /\ EffectiveOrder
        /\ \A e \in Existentials \ Block : EffectiveED(e) \cap Universals \subseteq prefix[e]

\* solver.h: "formula may only contain definitions for innermost existential
\* variables"; such a formula is accepted.
GivenDefinitionsAccepted == phase # "thrown"

================================================================================
