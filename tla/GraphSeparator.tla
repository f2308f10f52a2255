----------------------------- MODULE GraphSeparator -----------------------------
(***************************************************************************)
(* The vertex separator nearest the sources (GraphSeparator), read off a   *)
(* minimum cut of a flow network in which a vertex is a pair of nodes with *)
(* an edge between them, its internal edge.                                *)
(*                                                                         *)
(* A graph g is a record: its vertices; edges, pairs <<source, target>>;   *)
(* vertA and vertB, the two sides to separate; forbidden vertices, which   *)
(* the separator must not contain, and unpreferred ones, which it should   *)
(* not.  The maximum flow is the library's; what it leaves reachable from  *)
(* the source is the smallest source side of all minimum cuts.             *)
(***************************************************************************)
EXTENDS Naturals, FiniteSets

internal_capacity == 2
unpreferred_capacity == 3
external_capacity == 4

\* The ends of the network; no vertex of a graph has this name.
Terminal == 0

\* Mutant: as much as may flow when every source is cut.
PenaltyOfSources(g) == internal_capacity * Cardinality(g.vertA)

\* More than can flow: all flow enters the graph through vertices of vertA.
penalty(g) ==
    internal_capacity * Cardinality(g.vertA) + 1 + Cardinality(g.unpreferred)

\* The edges of the network: <<v, v>> is the internal edge of v.
networkEdges(g) ==
    ({Terminal} \X g.vertA) \cup {<<v, v>> : v \in g.vertices}
        \cup g.edges \cup (g.vertB \X {Terminal})

\* How many nodes of each vertex are on the source side.
Cuts(g) == [g.vertices -> 0..2]

tailReached(r, e) ==
    \/ e[1] = Terminal
    \/ e[1] = e[2] /\ r[e[1]] >= 1
    \/ e[1] \notin {e[2], Terminal} /\ r[e[1]] = 2

headReached(r, e) ==
    /\ e[2] # Terminal
    /\ r[e[2]] >= (IF e[1] = e[2] THEN 2 ELSE 1)

cutOf(network, r) == {e \in network : tailReached(r, e) /\ ~headReached(r, e)}

cutEdges(g, r) == cutOf(networkEdges(g), r)

\* Mutant: the edges out of a forbidden vertex keep their capacity.
PenalisedInternal(g, C) ==
    {e \in C : e[1] = Terminal \/ (e[1] \in g.forbidden /\ e[1] = e[2])}

\* connectToSource and applyPenalties: the edges into the graph, the internal
\* edge of a forbidden vertex and all edges out of it.
Penalised(g, C) == {e \in C : e[1] = Terminal \/ e[1] \in g.forbidden}

Unpreferred(g, C) == {e \in C : e[1] \in g.unpreferred}

External(C) == {e \in C : e[2] = Terminal}

\* The sum of the capacities of C.  What is applied last counts.
weight(g, C) ==
    LET U == Unpreferred(g, C)
        P == Penalised(g, C) \ U
        X == External(C) \ (U \cup P)
    IN unpreferred_capacity * Cardinality(U) + penalty(g) * Cardinality(P)
         + external_capacity * Cardinality(X)
         + internal_capacity * Cardinality(C \ (U \cup P \cup X))

MinimumCuts(g) ==
    LET network == networkEdges(g)
        weighted == {<<weight(g, cutOf(network, r)), r>> : r \in Cuts(g)}
        least == CHOOSE w \in {p[1] : p \in weighted} : \A p \in weighted : w <= p[1]
    IN {p[2] : p \in {q \in weighted : q[1] = least}}

\* reachableInResidualGraph.
reachable(g) ==
    LET M == MinimumCuts(g)
    IN CHOOSE r \in M : \A t \in M : \A v \in g.vertices : r[v] <= t[v]

\* vertexSeparatorFromEdgeSeparator.
separatorOf(C) == {e[1] : e \in C}
================================================================================
