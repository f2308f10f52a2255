------------------------------- MODULE RuleChecks -------------------------------
(***************************************************************************)
(* What the rules of the container say, and what the two checks make of    *)
(* them.                                                                   *)
(***************************************************************************)
EXTENDS SkolemContainer, ClauseSat

--------------------------------------------------------------------------------
(***************************************************************************)
(* The rules.                                                              *)
(***************************************************************************)
RulePoints == [Variables \cup proper_arbiters -> BOOLEAN]

\* The values the rules of e force at s.
forcedValues(e, s) ==
    {rule.literal > 0 : rule \in {r \in forcing_clauses :
        var(r.literal) = e /\ \A l \in r.premise : holds(l, s)}}

defaultValue(e, s) ==
    (CHOOSE leaf \in getCertificate(e) : Agrees(leaf.path, s)).value

\* The values s[e] may not differ from; two if the rules are inconsistent.
valuesOf(e, s) ==
    IF e \in DOMAIN definitions
    THEN {definitions[e][CHOOSE c \in DOMAIN definitions[e] : Agrees(c, s)]}
    ELSE IF forcedValues(e, s) # {} THEN forcedValues(e, s) ELSE {defaultValue(e, s)}

obeys(e, s) == valuesOf(e, s) = {s[e]}

\* checkArbiterAssignment: the clauses of e's rules hold at s with all assumptions.
validityAccepts(e, s) ==
    Sat(under(validity_clauses[e],
              Range(validity_check_assumptions) \cup {selectors[d] : d \in Existentials}
                \cup cubeLiterals(s)))

\* checkConsistency finds a conflict under the universals and arbiters in a.
consistencyConflict(a) ==
    Sat(under(consistency_clauses,
              Range(disjunction_terminals) \cup Range(default_selectors)
                \cup Range(default_function_selectors)
                \cup {use_default(e) : e \in Existentials} \cup cubeLiterals(a)))

--------------------------------------------------------------------------------
(***************************************************************************)
(* Properties.                                                             *)
(***************************************************************************)
\* The validity check accepts exactly the assignments in which the existentials
\* have the values their rules, and where none fires their current defaults,
\* give.  The terminals, the default rules and the definitions are moved around
\* in one array of assumptions.
ValidityEncodesRules ==
    stage = "search" => \A s \in RulePoints : \A e \in Existentials :
        validityAccepts(e, s) <=> obeys(e, s)

\* The consistency check finds a conflict exactly where two rules for a variable
\* fire for both values and the variables it reads have the values of their rules.
ConsistencyEncodesRules ==
    stage = "search" => \A a \in [Universals \cup proper_arbiters -> BOOLEAN] :
        consistencyConflict(a) <=>
            \E s \in {Merge(a, r) : r \in Responses} : \E e \in Existentials :
                /\ valuesOf(e, s) = BOOLEAN
                /\ \A d \in reads[e] \cap Existentials : obeys(d, s)
================================================================================
