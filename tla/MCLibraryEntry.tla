----------------------------- MODULE MCLibraryEntry -----------------------------
(* Two variables before the block and a block of two, any of which are given  *)
(* with any acyclic definitions.                                              *)
EXTENDS LibraryEntry

BlockPrefixes == {p \in [Existentials -> SUBSET Universals] : \A v \in Block : p[v] = Universals}

\* A definition reads variables outside the block and other variables of it.
AllGiven ==
    {g \in UNION {[D -> SUBSET Variables] : D \in SUBSET Block} :
        /\ Acyclic(g)
        /\ \A v \in DOMAIN g : Cardinality(g[v]) <= 2}

DefaultOnly == {DefaultConfiguration}
================================================================================
