------------------------------ MODULE CheckDefined ------------------------------
(***************************************************************************)
(* Solver::solve() before its main loop: two rounds of checkDefined, which *)
(* look for definitions of the undefined variables, and checkUnates.       *)
(*                                                                         *)
(* A variable is defined if the matrix determines it from some of its      *)
(* extended dependencies.  The support of the definition found is any      *)
(* subset of them, and a definability check may give up at its conflict    *)
(* limit, so a variable may stay undefined in one round and be defined in  *)
(* a later one.  Variables that depend on more after a round are checked   *)
(* again in the next iteration of the same round.                          *)
(***************************************************************************)
EXTENDS DependencyContainer, Configuration

CONSTANTS
    InputPrefixes,  \* the prefixes considered
    Settings        \* the configurations considered

ASSUME SetupAssumption ==
    /\ InputPrefixes \subseteq [Existentials -> SUBSET Universals]
    /\ Settings \subseteq Configurations

VARIABLES
    config,     \* Solver::config, fixed by the time the solver is built
    phase,      \* "start", "checking", "checked", "ready"
    round,      \* the call of checkDefined: 1 (conflict limit 1) or 2
    iteration,  \* the iteration of the queue in this call
    queue,      \* the variables still to be checked in this iteration
    newQueue    \* new_queue: the variables to check in the next one

passVars == <<round, iteration, queue, newQueue>>
setupVars == <<config, containerVars, phase, passVars>>

SetupTypeOK ==
    /\ ContainerTypeOK
    /\ config \in Configurations
    /\ phase \in {"start", "checking", "checked", "ready"}
    /\ round \in 1..2
    /\ iteration \in 0..2
    /\ queue \subseteq Existentials
    /\ newQueue \subseteq Existentials

--------------------------------------------------------------------------------
PassInit ==
    /\ phase = "start"
    /\ round = 1 /\ iteration = 0
    /\ queue = {} /\ newQueue = {}

SetupInit ==
    /\ config \in Settings
    /\ \E pre \in InputPrefixes, dep \in [Existentials -> SUBSET Universals] :
          /\ \A e \in Existentials : dep[e] \subseteq pre[e]
          /\ ContainerInit(pre, dep, config["extended_dependencies"])
    /\ PassInit

\* A call of checkDefined: its queue is a copy of the undefined variables.
BeginRound ==
    /\ phase = "start" /\ config["definitions"]
    /\ phase' = "checking"
    /\ queue' = undefined
    /\ newQueue' = {}
    /\ iteration' = 1
    /\ UNCHANGED <<config, round, containerVars>>

SkipRounds ==
    /\ phase = "start" /\ ~config["definitions"]
    /\ phase' = "checked"
    /\ UNCHANGED <<config, containerVars, passVars>>

\* The queue is a std::set: its smallest variable is next.
\* Mutant: the queue is unordered.
AnyInQueue(v) == phase = "checking" /\ v \in queue
NextInQueue(v) == phase = "checking" /\ v \in queue /\ \A w \in queue : v <= w

\* The check found no definition, or gave up at the conflict limit.
NotDefined(v) ==
    /\ NextInQueue(v)
    /\ queue' = queue \ {v}
    /\ UNCHANGED <<config, phase, round, iteration, newQueue, containerVars>>

\* The variables to check in the next iteration after v was found defined.
\* Mutant: those of earlier definitions are dropped.
OnlyLastGain(v, S) == newQueue' = Gaining(S)
Requeue(v, S) == newQueue' = (newQueue \ {v}) \cup Gaining(S)

\* The check found a definition of v with support S, addDefinition removes v
\* from the undefined variables and, with dynamic dependencies, the variables
\* that may now read v are checked again.
Defined(v, S) ==
    /\ NextInQueue(v)
    /\ S \subseteq ED(v)
    /\ undefined' = undefined \ {v}
    /\ queue' = queue \ {v}
    /\ IF config["dynamic_dependencies"]
       THEN /\ scheduleUpdate(v, S)
            /\ Requeue(v, S)
       ELSE UNCHANGED <<prefix, dependencies, ext, supports, toUpdate, newQueue>>
    /\ UNCHANGED <<config, phase, round, iteration, innermost>>

\* The end of an iteration: the scheduled updates are merged, and the next
\* iteration, the second call or the rest of solve() follows.
EndIteration ==
    /\ phase = "checking" /\ queue = {}
    /\ performUpdate
    /\ queue' = newQueue
    /\ newQueue' = {}
    /\ IF newQueue # {} /\ iteration < incremental_definability_max_iterations(config)
       THEN iteration' = iteration + 1 /\ UNCHANGED <<phase, round>>
       ELSE /\ phase' = IF round = 1 THEN "start" ELSE "checked"
            /\ round' = 2
            /\ UNCHANGED iteration
    /\ UNCHANGED <<config, undefined>>

\* checkUnates takes the variables with a unate literal out of the undefined
\* ones; their extended dependencies stay as they are.
CheckUnates(X) ==
    /\ phase = "checked" /\ config["check_for_unates"]
    /\ undefined' = undefined \ X
    /\ phase' = "ready"
    /\ UNCHANGED <<config, prefix, dependencies, ext, supports, toUpdate, innermost, passVars>>

SkipUnates ==
    /\ phase = "checked" /\ ~config["check_for_unates"]
    /\ phase' = "ready"
    /\ UNCHANGED <<config, containerVars, passVars>>

\* The solver goes on with its main loop, which leaves the container alone.
Ready == phase = "ready" /\ UNCHANGED setupVars

SetupStep ==
    \/ BeginRound
    \/ SkipRounds
    \/ \E v \in queue : NotDefined(v)
    \/ \E v \in queue : \E S \in SUBSET ED(v) : Defined(v, S)
    \/ EndIteration
    \/ \E X \in SUBSET undefined : CheckUnates(X)
    \/ SkipUnates

SetupNext == SetupStep \/ Ready

SetupSpec == SetupInit /\ [][SetupNext]_setupVars

--------------------------------------------------------------------------------
(***************************************************************************)
(* Properties.                                                             *)
(***************************************************************************)

\* computeDynamicDependencies finds every variable it meets: an undefined
\* variable has stored dependencies, and the assertion at the head of
\* includedInDependencies holds for each of them (no undefined variable is
\* computed).
LookupsSucceed ==
    /\ undefined \cap Computed = {}
    /\ \A v \in Existentials : Queryable(v)

\* The effective dependencies order the variables: no variable reads itself,
\* also not through the definitions of others, and whatever a variable reads,
\* it may read the dependencies of.  Without it computeDynamicDependencies
\* would not return and the circuits of the model would have a cycle.
EffectiveOrder ==
    \A e \in Existentials :
        /\ e \notin EffectiveED(e)
        /\ \A d \in EffectiveED(e) \cap Existentials : EffectiveED(d) \subseteq EffectiveED(e)

\* The stored order alone, on which the solver works between two updates.
StoredOrder ==
    \A e \in Existentials :
        /\ e \notin ED(e)
        /\ \A d \in ED(e) \cap Existentials : ED(d) \subseteq ED(e)

\* Extended dependencies never let a variable read, directly or through other
\* variables, a universal variable outside its own dependencies: the Skolem
\* functions found are those of the DQBF.
UniversalsRespected ==
    \A e \in Existentials : EffectiveED(e) \cap Universals \subseteq prefix[e]

\* A variable with scheduled dependencies is checked again: its update is
\* never merged after the last look at it in an iteration.
ScheduledAreRequeued ==
    \A v \in Existentials : toUpdate[v] # {} => v \in newQueue

\* While a variable is undefined the container takes nothing from its
\* dependencies, and all it adds are variables that have a definition.
UndefinedOnlyGain ==
    [][\A v \in undefined' : /\ EffectiveED(v) \subseteq EffectiveED(v)'
                             /\ EffectiveED(v)' \ EffectiveED(v) \subseteq Computed']_setupVars
================================================================================
