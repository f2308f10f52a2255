---------------------------- MODULE SkolemContainer ----------------------------
(***************************************************************************)
(* The rules for the existentials (SkolemContainer) and the two encodings  *)
(* of them: in the validity check an existential must be set as its rules  *)
(* say (SimpleValidityChecker), in the consistency check it has a variable *)
(* for each value, and rules may set both (ConsistencyChecker).            *)
(*                                                                         *)
(* That no rule but those present sets a variable is a disjunction that    *)
(* stays open: its last literal, the terminal, is assumed to be false, and *)
(* the next disjunct replaces it (Disjunction).  Clauses are sets of       *)
(* literals.  Definitions are found under no assumption, since no arbiter  *)
(* exists yet, so their conflict is empty.                                 *)
(***************************************************************************)
EXTENDS DefaultValues, SequencesExt

CONSTANTS
    ForcingPremises,   \* premises of forcing clauses considered, as cubes
    MaxArbiters,
    MaxRules,          \* forcing clauses and clauses of arbiters
    MaxNumbers         \* variables introduced in the search

VARIABLES
    stage,                  \* "idle", "preprocessing", "search"
    selectors,
    validity_clauses,       \* of the rules of each existential
    consistency_clauses,
    disjunction_terminals,  \* four for each existential
    default_function_selectors,
    definitions,            \* as functions of cubes over their inputs
    forcing_clauses,        \* premise and forced literal, of arbiters too
    arbiter_to_annotation,  \* with the existential
    proper_arbiters         \* those with clauses

skolemVars == <<stage, selectors, validity_clauses, consistency_clauses, disjunction_terminals,
                default_function_selectors, definitions, forcing_clauses,
                arbiter_to_annotation, proper_arbiters>>

--------------------------------------------------------------------------------
(***************************************************************************)
(* The variables of the two encodings.                                     *)
(***************************************************************************)
initialSelector(e) == numberOf(e, 3)
no_forcing_clause_active(e) == numberOf(e, 4)
apply_default(e) == numberOf(e, 5)
use_default_value(e) == numberOf(e, 6)
forcingTerminal(e) == numberOf(e, 7)

literal_variable(e, b) == numberOf(e, IF b THEN 8 ELSE 9)
no_forcing_active(e) == numberOf(e, 10)
use_default(e) == numberOf(e, 11)
conflict_variable(e) == numberOf(e, 12)
default_fires(e, b) == numberOf(e, IF b THEN 13 ELSE 14)
initialDefaultTerminal(e, b) == numberOf(e, IF b THEN 15 ELSE 16)
initialLiteralTerminal(e, b) == numberOf(e, IF b THEN 17 ELSE 18)
fixedActive(e, b) == numberOf(e, IF b THEN 19 ELSE 20)
fixedTerminal(e, b) == numberOf(e, IF b THEN 21 ELSE 22)

\* Positions of the terminals in their arrays.
forcing_disjunction(e) == 2 * rank(e) - 1
default_disjunction(e, b) == 4 * (rank(e) - 1) + (IF b THEN 1 ELSE 2)
literal_disjunction(e, b) == 4 * (rank(e) - 1) + (IF b THEN 3 ELSE 4)

\* Existentials are replaced by the variable of the literal.
translateLiteral(l) == IF var(l) \in Existentials THEN literal_variable(var(l), l > 0) ELSE l
translateClause(C) == {translateLiteral(l) : l \in C}

\* Mutant: the old terminal stays false.
ForgetTerminal(terminal, C, new) == C \cup {new}

createDisjunct(terminal, C, new) == C \cup {terminal, new}

--------------------------------------------------------------------------------
(***************************************************************************)
(* What is there before any rule.                                          *)
(***************************************************************************)
\* initValidityCheckModel.
initialValidityClauses(e) ==
    {{no_forcing_clause_active(e), forcingTerminal(e), -initialSelector(e)},
     {-no_forcing_clause_active(e), -use_default_value(e), apply_default(e), -initialSelector(e)}}

\* initEncoding.
initialConsistencyClauses ==
    {{conflict_variable(e) : e \in Existentials}} \cup
    UNION {{{literal_variable(e, TRUE), literal_variable(e, FALSE)},
            {literal_variable(e, TRUE), -conflict_variable(e)},
            {literal_variable(e, FALSE), -conflict_variable(e)},
            {-literal_variable(e, FALSE), -literal_variable(e, TRUE), conflict_variable(e)}} :
           e \in Existentials} \cup
    UNION {{{-default_fires(e, b), initialDefaultTerminal(e, b)},
            {-default_fires(e, b), no_forcing_active(e)},
            {-default_fires(e, b), use_default(e)},
            {default_fires(e, b), -literal_variable(e, b), initialLiteralTerminal(e, b)}} :
           e \in Existentials, b \in BOOLEAN}

\* The k-th existential.
nthExistential(k) == CHOOSE e \in Existentials : rank(e) = k

SkolemInit ==
    /\ DefaultInit
    /\ stage = "idle"
    /\ validity_check_assumptions =
         [k \in 1..2 * Cardinality(Existentials) |->
             IF k % 2 = 1 THEN -forcingTerminal(nthExistential((k + 1) \div 2))
                          ELSE use_default_value(nthExistential(k \div 2))]
    /\ selectors = [e \in Existentials |-> initialSelector(e)]
    /\ validity_clauses = [e \in Existentials |-> initialValidityClauses(e)]
    /\ consistency_clauses = initialConsistencyClauses
    /\ disjunction_terminals =
         [k \in 1..4 * Cardinality(Existentials) |->
             LET e == nthExistential((k + 3) \div 4)
                 b == k % 2 = 1
             IN  IF k % 4 \in {1, 2} THEN -initialDefaultTerminal(e, b)
                                     ELSE -initialLiteralTerminal(e, b)]
    /\ default_function_selectors = <<>>
    /\ definitions = [e \in {} |-> 0]
    /\ forcing_clauses = {}
    /\ arbiter_to_annotation = [a \in {} |-> 0]
    /\ proper_arbiters = {}

\* addClauseValidityCheck.
guarded(cs, selector) == {C \cup {-selector} : C \in cs}

--------------------------------------------------------------------------------
(***************************************************************************)
(* Definitions.  They come before default values and forcing clauses.      *)
(***************************************************************************)
\* The clauses of a definition, with another variable for the defined one.
definitionClauses(e, f, output) ==
    {pathClause(c) \cup {literal(output, f[c])} : c \in DOMAIN f}

\* SkolemContainer's clauses for an empty conflict; s, a and d are the numbers of
\* selector, new_default_function_active and new_default_function_selector.
validityDefinition(e, f, conflict_active, s, a, d) ==
    LET n == no_forcing_clause_active(e)
    IN  {{conflict_active}, {conflict_active, a, -s}, {-conflict_active, s}, {-a, s},
         {-a, n}, {-a, d}, {-n, -d, a}, {-conflict_active, -n}}
        \cup {C \cup {-s} : C \in definitionClauses(e, f, e)}

\* ConsistencyChecker's clauses, where r is the renamed output and active the
\* variables active_and_circuit_true and active_and_circuit_false.
consistencyDefinition(e, f, conflict_active, s, a, d, r, active) ==
    LET n == no_forcing_active(e)
    IN  {{conflict_active}, {conflict_active, a, -s}, {-conflict_active, s}, {-a, s},
         {-a, n}, {-a, d}, {-n, -d, a}, {-conflict_active, -n}}
        \cup {translateClause(C) : C \in definitionClauses(e, f, r)}
        \cup UNION {{{s, -active[b]}, {literal(r, b), -active[b]}, {-s, -literal(r, b), active[b]},
                     {-active[b], literal_variable(e, b)}} : b \in BOOLEAN}

newDefaultFunctionSelector(assumptions, selector) == Append(assumptions, -selector)

\* addDefinition, with setDefined.
AddDefinition(e, f) ==
    LET n == last_variable
        active == [b \in BOOLEAN |-> IF b THEN n + 6 ELSE n + 7]
        terminal == [b \in BOOLEAN |-> IF b THEN n + 8 ELSE n + 9]
        selector == n + 10
    IN  /\ stage = "preprocessing" /\ e \notin DOMAIN definitions
        /\ \A c \in DOMAIN f : IsCube(c, reads[e])
        /\ definitions' = [d \in DOMAIN definitions \cup {e} |->
                              IF d = e THEN f ELSE definitions[d]]
        /\ consistency_clauses' = consistency_clauses
             \cup consistencyDefinition(e, f, n + 1, n + 2, n + 3, n + 4, n + 5, active)
             \cup {createDisjunct(disjunction_terminals[literal_disjunction(e, b)],
                                  {active[b]}, terminal[b]) : b \in BOOLEAN}
        /\ disjunction_terminals' =
             [disjunction_terminals EXCEPT ![literal_disjunction(e, TRUE)] = -terminal[TRUE],
                                           ![literal_disjunction(e, FALSE)] = -terminal[FALSE]]
        /\ default_function_selectors' =
             newDefaultFunctionSelector(default_function_selectors, n + 4)
        /\ selectors' = [selectors EXCEPT ![e] = selector]
        /\ validity_clauses' = [validity_clauses EXCEPT ![e] = @ \cup guarded(
              validityDefinition(e, f, n + 11, n + 12, n + 13, n + 14)
                \cup {createDisjunct(validity_check_assumptions[forcing_disjunction(e)],
                                     {n + 11}, n + 15)}, selector)]
        /\ validity_check_assumptions' =
             newDefaultFunctionSelector(
                 [validity_check_assumptions EXCEPT ![forcing_disjunction(e)] = -(n + 15)], n + 14)
        /\ last_variable' = n + 15
        /\ UNCHANGED <<stage, default_setting, reads, default_selectors, variables_with_defaults,
                       fixed_defaults, default_trees, forcing_clauses, arbiter_to_annotation,
                       proper_arbiters>>

undefined == Existentials \ DOMAIN definitions

\* The bound on the search: k more numbers may be used, where a rule counts twice.
NumbersLeft(k) ==
    LET initial == LastVariable + BlockSize * Cardinality(Existentials)
        used == last_variable - initial - 15 * Cardinality(DOMAIN definitions)
    IN  used + k + 4 * Cardinality(forcing_clauses) <= MaxNumbers

--------------------------------------------------------------------------------
(***************************************************************************)
(* Forcing clauses and the clauses of arbiters.  A rule forces a literal   *)
(* where its premise, a set of literals, is true.                          *)
(***************************************************************************)
\* SkolemContainer's clauses; n + 3 is forcing_clause_active.
validityRule(e, rule, terminal, n) ==
    {negateEach(rule.premise) \cup {n + 3}, {-(n + 3), rule.literal},
     {-(n + 3), -no_forcing_clause_active(e)}, createDisjunct(terminal, {n + 3}, n + 4)}
    \cup {{l, -(n + 3)} : l \in rule.premise}

translatedPremise(premise) == negateEach(translateClause(premise))

\* ConsistencyChecker's clauses; n + 1 is clause_active.
consistencyRule(e, rule, terminal, n) ==
    {{-(n + 1), -no_forcing_active(e)}, translatedPremise(rule.premise) \cup {n + 1},
     {-(n + 1), literal_variable(e, rule.literal > 0)}, createDisjunct(terminal, {n + 1}, n + 2)}
    \cup {{-(n + 1), l} : l \in translateClause(rule.premise)}

\* One or two rules for e, the two of different signs; they use four numbers each.
addRules(e, rules, n) ==
    LET start(k) == n + 4 * (k - 1)
        position(k) == literal_disjunction(e, rules[k].literal > 0)
        last == start(Len(rules)) + 4
    IN  /\ Cardinality(forcing_clauses) + Len(rules) <= MaxRules
        /\ consistency_clauses' = consistency_clauses \cup
             UNION {consistencyRule(e, rules[k], disjunction_terminals[position(k)], start(k)) :
                    k \in DOMAIN rules}
        /\ disjunction_terminals' =
             [p \in DOMAIN disjunction_terminals |->
                 IF \E k \in DOMAIN rules : p = position(k)
                 THEN -(start(CHOOSE k \in DOMAIN rules : p = position(k)) + 2)
                 ELSE disjunction_terminals[p]]
        /\ validity_clauses' = [validity_clauses EXCEPT ![e] = @ \cup guarded(
              UNION {validityRule(e, rules[k],
                        IF k = 1 THEN validity_check_assumptions[forcing_disjunction(e)]
                                 ELSE -start(k), start(k)) : k \in DOMAIN rules},
              selectors[e])]
        /\ validity_check_assumptions' =
             [validity_check_assumptions EXCEPT ![forcing_disjunction(e)] = -last]
        /\ forcing_clauses' = forcing_clauses \cup {rules[k] : k \in DOMAIN rules}
        /\ last_variable' = last
        /\ UNCHANGED <<stage, default_setting, reads, default_selectors, variables_with_defaults,
                       fixed_defaults, default_trees, selectors, default_function_selectors,
                       definitions>>

\* addForcingClause; with allow_arbiters_in_forcing_clauses also under arbiters.
AddForcingClause(e, b, cube, arbiters) ==
    /\ stage = "search" /\ NumbersLeft(4)
    /\ e \in undefined /\ IsCube(cube, reads[e]) /\ {var(a) : a \in arbiters} \subseteq proper_arbiters
    /\ addRules(e, <<[premise |-> cubeLiterals(cube) \cup arbiters, literal |-> literal(e, b)]>>,
                last_variable)
    /\ UNCHANGED <<arbiter_to_annotation, proper_arbiters>>

\* The clauses of realizeArbiter.
linkingRules(a, e, annotation) ==
    <<[premise |-> cubeLiterals(annotation) \cup {a}, literal |-> e],
      [premise |-> cubeLiterals(annotation) \cup {-a}, literal |-> -e]>>

\* getArbiter.  An arbiter may be introduced without clauses, and get them later.
GetArbiter(e, annotation, introduce_clauses) ==
    LET record == [existential |-> e, annotation |-> annotation]
        known == {a \in DOMAIN arbiter_to_annotation : arbiter_to_annotation[a] = record}
        new == known = {}
        arbiter == IF new THEN last_variable + 1 ELSE CHOOSE a \in known : TRUE
        n == IF new THEN last_variable + 1 ELSE last_variable
    IN  /\ stage = "search" /\ NumbersLeft(9)
        /\ e \in undefined /\ annotation \in [reads[e] \cap Universals -> BOOLEAN]
        /\ new => Cardinality(DOMAIN arbiter_to_annotation) < MaxArbiters
        /\ arbiter_to_annotation' = [a \in DOMAIN arbiter_to_annotation \cup {arbiter} |->
                                        IF a = arbiter THEN record ELSE arbiter_to_annotation[a]]
        /\ IF introduce_clauses /\ arbiter \notin proper_arbiters
           THEN /\ addRules(e, linkingRules(arbiter, e, annotation), n)
                /\ proper_arbiters' = proper_arbiters \cup {arbiter}
           ELSE /\ last_variable' = n
                /\ UNCHANGED <<stage, default_setting, reads, validity_check_assumptions,
                               default_selectors, variables_with_defaults, fixed_defaults,
                               default_trees, selectors, validity_clauses, consistency_clauses,
                               disjunction_terminals, default_function_selectors, definitions,
                               forcing_clauses, proper_arbiters>>

--------------------------------------------------------------------------------
(***************************************************************************)
(* Default values.                                                         *)
(***************************************************************************)
\* ConsistencyChecker::addDefaultClause for the k-th clause C of e with value b: active
\* means that its premise holds, and is one more reason for the default value b.
addDefaultClause(e, b, C, active, terminal, new) ==
    LET premise == negateEach(C \ {literal(e, b)})
    IN  {{l, -active} : l \in translateClause(premise)}
           \cup {createDisjunct(terminal, {active}, new)}

\* addDefaultClauses for the variables E: cs[e][b] are the clauses for value b; each
\* has a variable that is active and a terminal in the consistency check.
addDefaultClauses(E, cs, active, terminal) ==
    LET before(e, b, k) == IF k = 1 THEN disjunction_terminals[default_disjunction(e, b)]
                                    ELSE -terminal[e][b][k - 1]
    IN  /\ validity_clauses' = [e \in Existentials |-> IF e \notin E THEN validity_clauses[e] ELSE
              validity_clauses[e] \cup guarded(
                  UNION {{C \cup {-apply_default(e)} : C \in Range(cs[e][b])} : b \in BOOLEAN},
                  selectors[e])]
        /\ consistency_clauses' = consistency_clauses \cup UNION
             {UNION {addDefaultClause(e, b, cs[e][b][k], active[e][b][k], before(e, b, k),
                                      terminal[e][b][k]) : k \in DOMAIN cs[e][b]} :
              e \in E, b \in BOOLEAN}
        /\ disjunction_terminals' =
             [p \in DOMAIN disjunction_terminals |->
                 IF \E e \in E, b \in BOOLEAN : p = default_disjunction(e, b)
                 THEN LET owner == CHOOSE o \in E \X BOOLEAN : p = default_disjunction(o[1], o[2])
                      IN  -Last(terminal[owner[1]][owner[2]])
                 ELSE disjunction_terminals[p]]
        /\ UNCHANGED <<selectors, default_function_selectors, definitions, forcing_clauses,
                       arbiter_to_annotation, proper_arbiters>>

\* initDefaultValues.
InitDefaultValues ==
    /\ stage = "preprocessing" /\ stage' = "search"
    /\ InitializeDefaults(undefined)
    /\ addDefaultClauses(undefined,
           [e \in undefined |-> [b \in BOOLEAN |-> <<fixedClause(e, b)>>]],
           [e \in undefined |-> [b \in BOOLEAN |-> <<fixedActive(e, b)>>]],
           [e \in undefined |-> [b \in BOOLEAN |-> <<fixedTerminal(e, b)>>]])

\* Only the selectors change.
defaultOnly == UNCHANGED skolemVars

\* setDefaultValue, setPolarity and setRandomDefaultValue.
SetDefaultValue(e, b) ==
    stage = "search" /\ setFixedDefaultPolarity(e, b) /\ defaultOnly

\* insertIntoDefaultContainer without new clauses.
InsertIntoConstant(e, b) == stage = "search" /\ InsertFixed(e, b) /\ defaultOnly

InsertIntoLeaf(e, leaf) == stage = "search" /\ ToggleLeaf(e, leaf) /\ defaultOnly

\* insertIntoDefaultContainer with the clauses of two leaves.
InsertAndSplit(e, leaf, x, majority) ==
    LET numbers(first) == [d \in {e} |-> [b \in BOOLEAN |->
                              LET n == last_variable + first + (IF b THEN 0 ELSE 2)
                              IN  <<n, n + 4>>]]
    IN  /\ stage = "search" /\ NumbersLeft(12) /\ UNCHANGED stage
        /\ SplitLeaf(e, leaf, x, majority)
        /\ addDefaultClauses({e}, [d \in {e} |-> [b \in BOOLEAN |-> leafClauses(d, leaf, x, b)]],
                             numbers(5), numbers(6))

--------------------------------------------------------------------------------
\* Literals of arbiters, and no more than one of them.
ArbiterPremises == {{}} \cup {{literal(a, b)} : a \in proper_arbiters, b \in BOOLEAN}

SkolemOperations ==
    \/ \E e \in Existentials, b \in BOOLEAN, cube \in ForcingPremises, A \in ArbiterPremises :
          AddForcingClause(e, b, cube, A)
    \/ \E e \in Existentials, introduce_clauses \in BOOLEAN :
          \E annotation \in [reads[e] \cap Universals -> BOOLEAN] :
              GetArbiter(e, annotation, introduce_clauses)
    \/ \E e \in Existentials, b \in BOOLEAN : SetDefaultValue(e, b) \/ InsertIntoConstant(e, b)
    \/ \E e \in DOMAIN default_trees : \E leaf \in DOMAIN default_trees[e] : InsertIntoLeaf(e, leaf)
    \/ \E e \in DOMAIN default_trees, majority \in [BOOLEAN -> BOOLEAN] :
          \E leaf \in DOMAIN default_trees[e] \cup {[y \in {} |-> TRUE]}, x \in sample_space(e) :
              InsertAndSplit(e, leaf, x, majority)
================================================================================
