------------------------------- MODULE ClauseSat --------------------------------
(* Satisfiability of sets of clauses, what the SAT solvers decide. *)
EXTENDS Literals

\* The clauses with the literals of L set.
reduced(cs, L) == {C \ negateEach(L) : C \in {D \in cs : D \cap L = {}}}

\* Unit clauses first, then one literal with both values.
Sat(cs) ==
    LET decide[rest \in SUBSET SUBSET UNION cs] ==
            LET units == {l \in UNION rest : {l} \in rest}
                branch == CHOOSE l \in UNION rest : TRUE
            IN  \/ rest = {}
                \/ /\ {} \notin rest
                   /\ IF units # {}
                      THEN units \cap negateEach(units) = {} /\ decide[reduced(rest, units)]
                      ELSE decide[reduced(rest, {branch})] \/ decide[reduced(rest, {-branch})]
    IN  decide[cs]

under(cs, assumed) == cs \cup {{l} : l \in assumed}
================================================================================
