---------------------------- MODULE MCPreprocessing ----------------------------
(* Small formulas in conjunctive normal form.                                 *)
EXTENDS SolverSetup

ClausesOfLength(n) ==
    UNION {[D -> BOOLEAN] : D \in {E \in SUBSET Variables : Cardinality(E) = n}}
Pairs == {{c, d} : c \in ClausesOfLength(2), d \in ClausesOfLength(2)}

\* Up to four clauses of two literals, or up to two of two and one of three;
\* each universal occurs with both signs, since otherwise nothing depends on it.
BothSigns(cs) == \A u \in Universals, b \in BOOLEAN : \E c \in cs : u \in DOMAIN c /\ c[u] = b
With(css, n) == {cs \in {ds \cup {c} : ds \in css, c \in ClausesOfLength(n)} : BothSigns(cs)}
Triples == {ds \cup {c} : ds \in Pairs, c \in ClausesOfLength(2)}
ClauseSets == With(Triples, 2) \cup With(Pairs, 3)

\* Variables that see different universals, or one that sees more than the
\* other; the innermost variable may be ignored.
InputPrefixes ==
    {p \in [Existentials -> SUBSET Universals] : p[3] = {1} /\ p[4] \in {{2}, Universals}}
SmallFormulas ==
    {f \in [prefix : InputPrefixes, clauses : ClauseSets, ignored : {{}, {4}}] :
        \A e \in f.ignored : f.prefix[e] = Universals}
AllSettings == [scheme : BOOLEAN, reduction : BOOLEAN]
Reducing == {s \in AllSettings : s.reduction}
Both == BOOLEAN
Sorted == <<3, 4>>

\* The unate check follows on formulas of at most three clauses whose variables
\* see one universal each, and on one formula whose rules are modelled too; its
\* dependencies are those of the prefix.
Clause(v, a, w, b) == [x \in {v, w} |-> IF x = v THEN a ELSE b]
RuleFormula ==
    [prefix |-> [e \in Existentials |-> IF e = 3 THEN {1} ELSE Universals],
     clauses |-> {Clause(1, TRUE, 3, TRUE), Clause(1, FALSE, 3, FALSE),
                  Clause(2, TRUE, 4, TRUE), [v \in {2, 3, 4} |-> v # 2]},
     ignored |-> {}]
FormulasConsidered == SmallFormulas \cup {RuleFormula}
UnateFormula ==
    \/ Cardinality(formula.clauses) <= 3 /\ formula.prefix[4] = {2}
    \/ formula = RuleFormula

\* Two premises of forcing clauses, constants or trees as default values.
Premises == {[v \in {} |-> TRUE], [v \in {2, 3} |-> v = 2]}
Options == {"use_ml_trees", "use_existentials_in_tree"}
Defaults == {[o \in Options |-> o \in S] : S \in {{}, {"use_ml_trees"}, Options}}

\* The definability checker runs on formulas of four clauses in which variable 3
\* differs from variable 1, where no unate check follows.
DefinabilityFormula ==
    /\ {Clause(1, TRUE, 3, TRUE), Clause(1, FALSE, 3, FALSE)} \subseteq formula.clauses
    /\ Cardinality(formula.clauses) = 4
    /\ ~UnateFormula

MCInit == SetupInit /\ (setting.scheme <=> formula # RuleFormula)
MCNext ==
    \/ /\ UnatesNext /\ UNCHANGED <<definabilityVars, defaultVars, skolemVars>>
       /\ unatePhase' # unatePhase => UnateFormula
    \/ /\ DefinabilityFormula
       /\ DefinabilityNext /\ UNCHANGED <<preprocessingVars, unateVars, defaultVars, skolemVars>>
    \/ /\ formula = RuleFormula /\ use_conflict_limit
       /\ SkolemNext /\ UNCHANGED <<preprocessingVars, definabilityVars, unateVars>>
MCSpec == MCInit /\ [][MCNext]_<<preprocessingVars, definabilityVars, unateVars, defaultVars, skolemVars>>
================================================================================
