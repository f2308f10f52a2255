----------------------------- MODULE DefaultValues -----------------------------
(***************************************************************************)
(* Default values of the existentials no rule decides                      *)
(* (DefaultValueContainer): constants, or decision trees that grow with    *)
(* the conflicts (HoeffdingDefaultTree, in builds with MLPack).            *)
(*                                                                         *)
(* A default rule has two clauses, for the two values, with a selector     *)
(* each.  The sign of a selector says whether its clause is in use.  It is *)
(* kept in two arrays, for the two checks, at positions stored for each    *)
(* rule; the array of the validity check has other entries as well.        *)
(* Positions start at 1.                                                   *)
(***************************************************************************)
EXTENDS DQBF, Literals, Sequences

CONSTANTS
    LastVariable,      \* the largest number of a variable
    DefaultSettings    \* the values of config.def_strat and use_existentials_in_tree

ASSUME DefaultAssumption ==
    /\ LastVariable \in Nat /\ Variables \subseteq 1..LastVariable
    /\ DefaultSettings \subseteq [{"use_ml_trees", "use_existentials_in_tree"} -> BOOLEAN]

VARIABLES
    default_setting,
    reads,                      \* the extended dependencies
    last_variable,              \* last_used_variable
    validity_check_assumptions,
    default_selectors,          \* the same for the consistency check
    variables_with_defaults,
    fixed_defaults,             \* positions of the constant's positive selector in both
    default_trees               \* leaves of the trees, with positions in both

defaultVars == <<default_setting, reads, last_variable, validity_check_assumptions,
                 default_selectors, variables_with_defaults, fixed_defaults, default_trees>>

--------------------------------------------------------------------------------
\* The place of e among the existentials.
rank(e) == Cardinality({d \in Existentials : d <= e})

\* The numbers given to existentials before the search: rank by rank, a block each.
BlockSize == 23
numberOf(e, k) == LastVariable + BlockSize * (rank(e) - 1) + k

positive_selector(e) == numberOf(e, 1)
negative_selector(e) == numberOf(e, 2)

withSign(s, k, b) == [s EXCEPT ![k] = literal(var(@), b)]

\* The positive selector is at k, the negative one follows.
setPair(s, k, b) == withSign(withSign(s, k, b), k + 1, ~b)
togglePair(s, k) == [s EXCEPT ![k] = -@, ![k + 1] = -@]

\* Mutant: the old rule stays in use.
KeepPair(s, k) == s

disablePair(s, k) == withSign(withSign(s, k, FALSE), k + 1, FALSE)

useDefault(e) == e \in variables_with_defaults
treeIsAvailable(e) == e \in DOMAIN default_trees
treeActive(e) == treeIsAvailable(e) /\ DOMAIN default_trees[e] # {}

sample_space(e) ==
    IF default_setting["use_existentials_in_tree"] THEN reads[e] ELSE reads[e] \cap Universals

selectorPosition(place) == place.selectors

\* The positions of the k-th entry appended to the two arrays.
nextPlace(k) ==
    [assumptions |-> Len(validity_check_assumptions) + k, selectors |-> Len(default_selectors) + k]

--------------------------------------------------------------------------------
\* The configuration and the dependencies come with the formula.
DefaultInit ==
    /\ default_setting = [o \in {"use_ml_trees", "use_existentials_in_tree"} |-> FALSE]
    /\ reads = [e \in Existentials |-> {}]
    /\ last_variable = LastVariable + BlockSize * Cardinality(Existentials)
    /\ default_selectors = <<>>
    /\ variables_with_defaults = {}
    /\ fixed_defaults = [e \in {} |-> 0]
    /\ default_trees = [e \in {} |-> 0]

\* initialize: one undefined variable after the other, by rank.
InitializeDefaults(undefined) ==
    LET n == Cardinality(undefined)
        nth(k) == CHOOSE e \in undefined : Cardinality({d \in undefined : d <= e}) = k
        pairs == [k \in 1..2 * n |->
                    IF k % 2 = 1 THEN positive_selector(nth((k + 1) \div 2))
                                 ELSE -negative_selector(nth(k \div 2))]
    IN  /\ variables_with_defaults' = undefined
        /\ fixed_defaults' =
             [e \in undefined |-> nextPlace(2 * Cardinality({d \in undefined : d <= e}) - 1)]
        /\ validity_check_assumptions' = validity_check_assumptions \o pairs
        /\ default_selectors' = default_selectors \o pairs
        /\ default_trees' =
             [e \in {d \in undefined : default_setting["use_ml_trees"] /\ sample_space(d) # {}} |->
                 [c \in {} |-> 0]]
        /\ UNCHANGED <<default_setting, reads, last_variable>>

\* setFixedDefaultPolarityUnchecked.
SetPolarity(e, b) ==
    /\ validity_check_assumptions' =
         setPair(validity_check_assumptions, fixed_defaults[e].assumptions, b)
    /\ default_selectors' = setPair(default_selectors, selectorPosition(fixed_defaults[e]), b)
    /\ UNCHANGED <<default_setting, reads, last_variable, variables_with_defaults,
                   fixed_defaults, default_trees>>

\* setDefaultValue, also with a random value.
setFixedDefaultPolarity(e, b) == useDefault(e) /\ ~treeActive(e) /\ SetPolarity(e, b)

\* insertConflict where there is no tree, or the tree is empty and stays so.
InsertFixed(e, b) == useDefault(e) /\ ~treeActive(e) /\ SetPolarity(e, b)

\* insertConflict where the leaf the sample belongs to is not split: its value
\* changes.
ToggleLeaf(e, leaf) ==
    /\ treeActive(e) /\ leaf \in DOMAIN default_trees[e]
    /\ LET place == default_trees[e][leaf]
       IN  /\ validity_check_assumptions' =
                togglePair(validity_check_assumptions, place.assumptions)
           /\ default_selectors' = togglePair(default_selectors, selectorPosition(place))
    /\ UNCHANGED <<default_setting, reads, last_variable, variables_with_defaults,
                   fixed_defaults, default_trees>>

\* The two leaves below leaf, x false and x true.
childOf(leaf, x, b) == Merge(leaf, [y \in {x} |-> b])

\* insertConflict where the leaf, or an empty tree, is split: getClauses, and
\* disableFixedDefaults.  The library decides about x and the majorities.
SplitLeaf(e, leaf, x, majority) ==
    LET empty == ~treeActive(e)
        old == IF empty THEN fixed_defaults[e] ELSE default_trees[e][leaf]
        new == <<last_variable + 1, last_variable + 2, last_variable + 3, last_variable + 4>>
        extended(s, k) ==
            LET t == disablePair(s, k) \o new
            IN  setPair(setPair(t, Len(s) + 1, majority[FALSE]), Len(s) + 3, majority[TRUE])
    IN  /\ useDefault(e) /\ treeIsAvailable(e)
        /\ IF empty THEN leaf = [y \in {} |-> TRUE] ELSE leaf \in DOMAIN default_trees[e]
        /\ x \in sample_space(e) \ DOMAIN leaf
        /\ validity_check_assumptions' = extended(validity_check_assumptions, old.assumptions)
        /\ default_selectors' = extended(default_selectors, selectorPosition(old))
        /\ default_trees' = [default_trees EXCEPT ![e] =
              [c \in (DOMAIN @ \ {leaf}) \cup {childOf(leaf, x, b) : b \in BOOLEAN} |->
                  IF c \in DOMAIN @ THEN @[c] ELSE nextPlace(IF c[x] THEN 3 ELSE 1)]]
        /\ fixed_defaults' = [d \in DOMAIN fixed_defaults \ {e} |-> fixed_defaults[d]]
        /\ last_variable' = last_variable + 12  \* 4 selectors, and 2 numbers for each clause
        /\ UNCHANGED <<default_setting, reads, variables_with_defaults>>

--------------------------------------------------------------------------------
\* The literals of the clause of a leaf: one of them is true outside the leaf.
pathClause(leaf) == {literal(v, ~leaf[v]) : v \in DOMAIN leaf}

\* setupClauses: the clauses for b of the two leaves of a split, x false and x true.
leafClauses(e, leaf, x, b) ==
    LET selector == last_variable + (IF b THEN 1 ELSE 2)
    IN  <<pathClause(childOf(leaf, x, FALSE)) \cup {-selector, literal(e, b)},
          pathClause(childOf(leaf, x, TRUE)) \cup {-(selector + 2), literal(e, b)}>>

\* initialize: the clause of the constant b.
fixedClause(e, b) ==
    {-(IF b THEN positive_selector(e) ELSE negative_selector(e)), literal(e, b)}

\* The value of the rule at a place, as the consistency check has it.
activeValue(place) == default_selectors[selectorPosition(place)] > 0

\* getCertificate and retrieveCompleteRepresentation.
getCertificate(e) ==
    IF treeActive(e)
    THEN {[path |-> leaf, value |-> activeValue(default_trees[e][leaf])] :
             leaf \in DOMAIN default_trees[e]}
    ELSE {[path |-> [y \in {} |-> TRUE], value |-> activeValue(fixed_defaults[e])]}
================================================================================
