-------------------------- MODULE DependencyContainer --------------------------
(***************************************************************************)
(* The dependency bookkeeping of the solver (DependencyContainer_Vector).  *)
(*                                                                         *)
(* An existential variable comes with the universal variables its Skolem   *)
(* function may read ("dependencies").  The container extends this set by  *)
(* existential variables whose values may be read as well ("ext"), and     *)
(* once a variable has a definition it keeps the support of the definition *)
(* instead ("supports") and computes its extended dependencies from the    *)
(* supports on every query.  Sorted vectors are modelled as sets here.     *)
(***************************************************************************)
EXTENDS DQBF

VARIABLES
    prefix,        \* the dependencies of the input formula
    undefined,     \* Solver::undefined_variables, shared with the container
    dependencies,  \* the dependencies the solver keeps, a partial function
    ext,           \* extended_dependencies_map, a partial function
    supports,      \* supports, a partial function; see Computed
    toUpdate,      \* variables_to_update: scheduled, not yet merged
    innermost      \* innermost_existentials

containerVars == <<prefix, undefined, dependencies, ext, supports, toUpdate, innermost>>

\* extended_dependencies_to_compute: filled together with supports.
Computed == DOMAIN supports

ContainerTypeOK ==
    /\ prefix \in [Existentials -> SUBSET Universals]
    /\ undefined \subseteq Existentials
    /\ DOMAIN dependencies \subseteq Existentials
    /\ dependencies \in [DOMAIN dependencies -> SUBSET Universals]
    /\ DOMAIN ext \subseteq Existentials
    /\ ext \in [DOMAIN ext -> SUBSET Variables]
    /\ DOMAIN supports \subseteq Existentials
    /\ supports \in [DOMAIN supports -> SUBSET Variables]
    /\ toUpdate \in [Existentials -> SUBSET Existentials]
    /\ innermost \subseteq Existentials

--------------------------------------------------------------------------------
(***************************************************************************)
(* Queries.                                                                *)
(***************************************************************************)

\* A set of defined variables is closed if it contains the defined variables
\* in the supports of its members.
SupportClosed(C) == \A c \in C : supports[c] \cap Computed \subseteq C

\* The defined variables computeDynamicDependencies visits, started in v.
Reach(v) ==
    {c \in Computed : \A C \in SUBSET Computed : v \in C /\ SupportClosed(C) => c \in C}

\* The variables read through the supports the recursion visits.
ReadBy(v) == UNION {supports[c] : c \in Reach(v)}

\* Mutant: what undefined variables of the supports may read is forgotten.
SupportsOnly(v) == ReadBy(v)

computeDynamicDependencies(v) ==
    ReadBy(v) \cup UNION {ext[d] : d \in (ReadBy(v) \cap DOMAIN ext) \ Computed}

ED(v) == IF v \in Computed THEN computeDynamicDependencies(v) ELSE ext[v]

\* What decides between two candidates to force, and whether one can be forced.
largerExtendedDependencies(v, w) == Cardinality(ED(v)) > Cardinality(ED(w))
includedInExtendedDependencies(v, S) == S \subseteq ED(v)

\* The part of an assignment v may read.
restrictToExtendedDendencies(cube, v) == restrictTo(cube, ED(v))

\* The recursion looks a variable up only where it is stored: neither the
\* computed nor the stored dependencies of v end in a failing lookup.
Queryable(v) ==
    IF v \in Computed
    THEN ReadBy(v) \cap Existentials \subseteq Computed \cup DOMAIN ext
    ELSE v \in DOMAIN ext

\* The dependencies of the prefix; an innermost variable reads all universals.
getDependencies(v) == IF v \in innermost THEN Universals ELSE dependencies[v]

\* Mutants: entries that are scheduled but not merged are overlooked; only the
\* existentials are looked up.
IncludedInMerged(v, S) == S \subseteq ext[v]
IncludedExistentials(v, S) == S \cap Existentials \subseteq ext[v] \cup toUpdate[v]

includedInDependencies(v, S) == S \subseteq ext[v] \cup toUpdate[v]

--------------------------------------------------------------------------------
(***************************************************************************)
(* Construction, from what DependencyExtractor computes of the prefix.     *)
(* The dependencies the solver keeps may be fewer than those of the prefix *)
(* (config.apply_dependency_schemes).                                      *)
(***************************************************************************)
ContainerInit(pre, dep, extended) ==
    /\ prefix = pre
    /\ undefined = Existentials
    /\ dependencies = dep
    /\ ext = IF extended THEN computeExtendedDependencies(pre) ELSE dep
    /\ supports = [v \in {} |-> {}]
    /\ toUpdate = [v \in Existentials |-> {}]
    /\ innermost = {}

--------------------------------------------------------------------------------
(***************************************************************************)
(* Updates.  Both leave undefined, the solver's own, to the caller.        *)
(***************************************************************************)

\* The undefined variables that may read v once v is computed from S.
Gaining(S) == {w \in undefined' : includedInDependencies(w, S)}

\* Mutant: a new support replaces the old ones.
SupportReplaced(v, S) ==
    /\ supports' = [w \in {v} |-> S]
    /\ ext' = [w \in DOMAIN ext \ {v} |-> ext[w]]
    /\ UNCHANGED <<prefix, dependencies, toUpdate>>

\* v is computed from S from now on; every undefined variable that may read
\* all of S may read v as well, but the new entry is merged later.
scheduleUpdate(v, S) ==
    /\ supports' = [w \in Computed \cup {v} |-> IF w \in Computed THEN supports[w] ELSE S]
    /\ ext' = [w \in DOMAIN ext \ {v} |-> ext[w]]
    /\ toUpdate' = [w \in Existentials |->
                       IF w = v THEN {}
                       ELSE IF w \in Gaining(S) THEN toUpdate[w] \cup {v}
                       ELSE toUpdate[w]]
    /\ UNCHANGED <<prefix, dependencies>>

\* Mutant: the schedule is emptied without being merged.
UpdateLost ==
    /\ toUpdate' = [w \in Existentials |-> {}]
    /\ UNCHANGED <<prefix, dependencies, ext, supports, innermost>>

performUpdate ==
    /\ ext' = [w \in DOMAIN ext |-> ext[w] \cup toUpdate[w]]
    /\ toUpdate' = [w \in Existentials |-> {}]
    /\ UNCHANGED <<prefix, dependencies, supports, innermost>>

addInnermostExistential(v) == innermost' = innermost \cup {v}

--------------------------------------------------------------------------------
(***************************************************************************)
(* The dependencies of v when every scheduled update is merged.            *)
(***************************************************************************)
Stored(v) == IF v \in DOMAIN ext THEN ext[v] \cup toUpdate[v] ELSE {}

EffectiveED(v) ==
    IF v \in Computed
    THEN ReadBy(v) \cup UNION {Stored(d) : d \in (ReadBy(v) \cap Existentials) \ Computed}
    ELSE Stored(v)

================================================================================
