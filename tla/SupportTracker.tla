----------------------------- MODULE SupportTracker -----------------------------
(***************************************************************************)
(* From a conflict to the variables whose values are passed on as its      *)
(* assignments: SupportTracker::getForcedSource and getMinimalSeparator,   *)
(* called after a failed validity check with the clause that is falsified, *)
(* or after a failed consistency check with both literals of the variable  *)
(* that is inconsistent.                                                   *)
(*                                                                         *)
(* The vertices of the conflict graph are variables.  In a consistency     *)
(* check the two literals of the inconsistent variable are a vertex each;  *)
(* of any other existential one literal is true, which its own number      *)
(* stands for.  A vertex is forced if a rule gives it its value; then the  *)
(* edges into it come from the variables that rule reads.  The rules that  *)
(* are active are those of the last model of the SAT solver: any choice    *)
(* is taken, where the first traversal reads it.                           *)
(***************************************************************************)
EXTENDS GraphSeparator

CONSTANTS
    Universals,
    Existentials,
    Arbiters,
    Opposite,                \* the vertex of the literal not x, where x is inconsistent
    arbiter_to_existential,  \* the variable an arbiter decides
    ED,                      \* the extended dependencies of the existentials
    Clauses,                 \* the sets of variables of a clause that may be falsified
    Settings,                \* the configurations considered
    MaxSupport               \* the most variables a rule reads

Variables == Universals \cup Existentials
Vertices == Variables \cup Arbiters \cup {Opposite}

ASSUME SupportAssumption ==
    /\ Vertices \subseteq Nat \ {Terminal} /\ IsFiniteSet(Vertices)
    /\ Universals \cap Existentials = {} /\ Variables \cap Arbiters = {}
    /\ Opposite \notin Variables \cup Arbiters
    /\ arbiter_to_existential \in [Arbiters -> Existentials]
    /\ Clauses \subseteq SUBSET Variables
    /\ Settings \subseteq [{"allow_arbiters_in_forcing_clauses",
                            "replace_arbiters_in_separators"} -> BOOLEAN]

\* What the dependency container guarantees (StoredOrder of CheckDefined).
ASSUME OrderAssumption ==
    /\ ED \in [Existentials -> SUBSET Variables]
    /\ \A e \in Existentials :
          e \notin ED[e] /\ \A d \in ED[e] \cap Existentials : ED[d] \subseteq ED[e]

VARIABLES
    config,             \* the two options read here
    inconsistent,       \* the inconsistent variable, or 0 after a validity check
    literals,           \* the vertices the conflict is about
    rule,               \* the support of the active rule, for the forced vertices read
    phase,              \* "source", "graph", "done"
    toProcess,          \* the existentials still to be visited in this traversal
    seen,               \* those visited before
    sources,            \* existential_sources of getForcedSource
    forced_variable,    \* 0 if no forcing clause is possible
    vertices,           \* the forced vertices of the graph
    edges,
    source_vertices,
    forbidden_variables,
    reached,            \* the cut, as far as there is one
    separator           \* what is returned

vars == <<config, inconsistent, literals, rule, phase, toProcess, seen, sources,
          forced_variable, vertices, edges, source_vertices, forbidden_variables,
          reached, separator>>

solverVars == <<config, inconsistent, literals>>
graphVars == <<vertices, edges, source_vertices, forbidden_variables>>

--------------------------------------------------------------------------------
getAlias(v) == IF v = Opposite THEN inconsistent ELSE v

replace_initial == inconsistent # 0

IsExistential(v) == v \in Existentials \cup {Opposite}
existentialsOf(S) == {v \in S : IsExistential(v)}

isForced(v) == v \in DOMAIN rule

\* The support of a definition or a forcing clause of v, or of the clause that
\* links one of its arbiters.
MayRead(v, S) ==
    /\ S \subseteq ED[getAlias(v)] \cup Arbiters
    /\ \/ config["allow_arbiters_in_forcing_clauses"]
       \/ S \cap Arbiters = {}
       \/ \E a \in Arbiters : S \cap Arbiters = {a} /\ arbiter_to_existential[a] = getAlias(v)

\* MaxSupport bounds what a rule reads.
ActiveRules(v) ==
    {S \in SUBSET (ED[getAlias(v)] \cup Arbiters) : Cardinality(S) <= MaxSupport /\ MayRead(v, S)}

\* The vertices a rule in use reads.
supportOf(V) == UNION {rule[v] : v \in V}

containedInExtendedDependencies(d, e) == d \in ED[e]

\* hasForcingClause: the one with the most extended dependencies may read the
\* other ones.  Mutant: it need not.
LargestSource(E, m) ==
    /\ m \in E
    /\ \A e \in E : Cardinality(ED[getAlias(e)]) <= Cardinality(ED[getAlias(m)])

hasForcingClause(E, m) ==
    /\ m \in E
    /\ \A e \in E : Cardinality(ED[getAlias(e)]) <= Cardinality(ED[getAlias(m)])
    /\ \A e \in E \ {m} : containedInExtendedDependencies(getAlias(e), getAlias(m))

\* Where forcing clauses have no arbiters, the variables they decide must do
\* instead.
arbitersReplaceable(m) ==
    \/ config["allow_arbiters_in_forcing_clauses"]
    \/ /\ config["replace_arbiters_in_separators"]
       /\ \A a \in supportOf(DOMAIN rule) \cap Arbiters :
             containedInExtendedDependencies(arbiter_to_existential[a], getAlias(m))

--------------------------------------------------------------------------------
SupportInit ==
    /\ config \in Settings
    /\ inconsistent \in Existentials \cup {0}
    /\ IF inconsistent = 0
       THEN literals \in Clauses
       ELSE literals = {inconsistent, Opposite}
    /\ rule = [v \in {} |-> {}]
    /\ phase = "source"
    /\ toProcess = existentialsOf(literals)
    /\ seen = {} /\ sources = {}
    /\ forced_variable = 0
    /\ vertices = {} /\ edges = {} /\ source_vertices = {} /\ forbidden_variables = {}
    /\ reached = [v \in {} |-> 0] /\ separator = {}

\* getForcedSource visits an existential that has an active rule; in a
\* consistency check the two literals of the inconsistent variable have one.
VisitForced(v) ==
    /\ phase = "source" /\ v \in toProcess
    /\ \E S \in ActiveRules(v) :
          /\ rule' = [w \in DOMAIN rule \cup {v} |-> IF w = v THEN S ELSE rule[w]]
          /\ seen' = seen \cup {v}
          /\ toProcess' = (toProcess \cup existentialsOf(S)) \ seen'
    /\ UNCHANGED <<solverVars, phase, sources, forced_variable, graphVars, reached, separator>>

VisitSource(v) ==
    /\ phase = "source" /\ v \in toProcess
    /\ getAlias(v) # inconsistent
    /\ seen' = seen \cup {v}
    /\ toProcess' = toProcess \ {v}
    /\ sources' = sources \cup {v}
    /\ UNCHANGED <<solverVars, rule, phase, forced_variable, graphVars, reached, separator>>

\* The end of getForcedSource and, in getMinimalSeparator, the literals of the
\* conflict: those of the inconsistent variable are processed at once.
BeginGraph(forced) ==
    LET sink == literals \ {forced} IN
    /\ forced_variable' = forced
    /\ phase' = "graph"
    /\ source_vertices' = {v \in sink : ~isForced(v)}
    /\ IF replace_initial
       THEN /\ vertices' = sink
            /\ edges' = {e \in Vertices \X sink : e[1] \in rule[e[2]] \ {forced}}
            /\ forbidden_variables' = IF forced # 0 THEN sink ELSE {}
            /\ seen' = sink \cup {forced}
            /\ toProcess' = existentialsOf(supportOf(sink)) \ seen'
       ELSE /\ UNCHANGED <<vertices, edges, forbidden_variables>>
            /\ seen' = {forced}
            /\ toProcess' = {v \in sink : isForced(v)}
    /\ UNCHANGED <<solverVars, rule, sources, reached, separator>>

ForcedSource ==
    /\ phase = "source" /\ toProcess = {}
    /\ \/ \E m \in sources : hasForcingClause(sources, m) /\ arbitersReplaceable(m) /\ BeginGraph(m)
       \/ /\ ~\E m \in sources : hasForcingClause(sources, m) /\ arbitersReplaceable(m)
          /\ BeginGraph(0)

\* Mutants: only variables with more dependencies are forbidden; so are all
\* that have an active rule.
ForbidsLarger(v) ==
    /\ forced_variable # 0
    /\ Cardinality(ED[getAlias(v)]) > Cardinality(ED[getAlias(forced_variable)])

ForbidsForced(v) ==
    forced_variable # 0 /\ (isForced(v) \/ getAlias(v) \notin ED[getAlias(forced_variable)])

\* With v in the separator the forced variable could not be forced.
forbids(v) ==
    /\ forced_variable # 0
    /\ ~containedInExtendedDependencies(getAlias(v), getAlias(forced_variable))

\* The queue of getMinimalSeparator.
ProcessExistential(v) ==
    /\ phase = "graph" /\ v \in toProcess
    /\ forbidden_variables' = forbidden_variables \cup (IF forbids(v) THEN {v} ELSE {})
    /\ IF isForced(v)
       THEN /\ vertices' = vertices \cup {v}
            /\ edges' = edges \cup ((rule[v] \ {forced_variable}) \X {v})
            /\ seen' = seen \cup {v}
            /\ toProcess' = (toProcess \cup existentialsOf(rule[v])) \ seen'
            /\ UNCHANGED source_vertices
       ELSE /\ source_vertices' = source_vertices \cup {v}
            /\ toProcess' = toProcess \ {v}
            /\ UNCHANGED <<vertices, edges, seen>>
    /\ UNCHANGED <<solverVars, rule, phase, sources, forced_variable, reached, separator>>

\* Mutant: no arbiter is to be avoided.
NoneUnpreferred(S) == {}

unpreferredOf(S) == IF config["replace_arbiters_in_separators"] THEN S \cap Arbiters ELSE {}

\* Mutant: the universals and arbiters that rules read are not added.
ExistentialTerminals == source_vertices

terminals == source_vertices \cup {v \in supportOf(vertices) : ~IsExistential(v)}

\* What getMinimalSeparator passes to the separator.
conflictGraph ==
    [vertices |-> vertices \cup terminals,
     edges |-> edges,
     vertA |-> terminals,
     vertB |-> literals \ {forced_variable},
     forbidden |-> forbidden_variables \cup (IF replace_initial THEN literals ELSE {}),
     unpreferred |-> unpreferredOf(terminals)]

\* Without a forced variable all sources are returned.
Separate ==
    /\ phase = "graph" /\ toProcess = {}
    /\ phase' = "done"
    /\ IF forced_variable = 0
       THEN separator' = conflictGraph.vertA /\ UNCHANGED reached
       ELSE /\ reached' = reachable(conflictGraph)
            /\ separator' = separatorOf(cutEdges(conflictGraph, reached')) \cup {forced_variable}
    /\ UNCHANGED <<solverVars, rule, toProcess, seen, sources, forced_variable, graphVars>>

Done == phase = "done" /\ UNCHANGED vars

SupportNext ==
    \/ \E v \in toProcess : VisitForced(v) \/ VisitSource(v) \/ ProcessExistential(v)
    \/ ForcedSource
    \/ Separate
    \/ Done

SupportSpec == SupportInit /\ [][SupportNext]_vars

--------------------------------------------------------------------------------
(***************************************************************************)
(* Properties.                                                             *)
(***************************************************************************)
\* What the active rules make of the values of K.
Closed(K) == \A v \in DOMAIN rule : rule[v] \subseteq K => v \in K

graphVertices == literals \cup DOMAIN rule \cup supportOf(DOMAIN rule)

Determines(S) ==
    \A K \in SUBSET graphVertices : S \cap graphVertices \subseteq K /\ Closed(K) => literals \subseteq K

\* The assertion of getConflict rests on this: under the active rules the
\* values passed on imply all literals of the conflict, so they cannot be
\* extended to a model of matrix, forcing and arbiter clauses.
SeparatorDetermines == phase = "done" => Determines(separator)

\* If a variable is to be forced, it may read every other existential that is
\* passed on, so that a core with it gives a forcing clause; and the variable
\* that is inconsistent is never passed on, since a forcing clause for it would
\* leave the conflict as it is.  Where forcing clauses have no arbiters none is
\* passed on: their variables have replaced them.
ForcingClausePossible ==
    phase = "done" /\ forced_variable # 0 =>
        /\ \A v \in existentialsOf(separator) \ {forced_variable} :
              getAlias(v) \in ED[forced_variable]
        /\ replace_initial => separator \cap literals = {}
        /\ ~config["allow_arbiters_in_forcing_clauses"] => separator \cap Arbiters = {}

\* The assertion of vertexSeparatorFromEdgeSeparator: the cut severs nothing
\* but internal edges.  The penalty is calculated for sources that are not
\* forbidden, on which the two traversals of the conflict graph have to agree.
\* And where forcing clauses have no arbiters, avoiding these does not make the
\* separator larger than one of variables the forced one may read has to be.
CutIsMinimal ==
    phase = "done" /\ forced_variable # 0 =>
        /\ conflictGraph.vertA \cap conflictGraph.forbidden = {}
        /\ \A e \in cutEdges(conflictGraph, reached) : e[1] = e[2]
        /\ ~config["allow_arbiters_in_forcing_clauses"] =>
              \A S \in SUBSET {v \in graphVertices : IsExistential(v) =>
                                                       getAlias(v) \in ED[forced_variable]} :
                  Cardinality(S) + 1 < Cardinality(separator) => ~Determines(S \cup {forced_variable})
================================================================================
