------------------------------ MODULE SolverSetup ------------------------------
(***************************************************************************)
(* Solver::solve up to its loop, behind the preprocessor: the container of *)
(* rules gets the definitions and the unate literals that were found, then *)
(* the default values of what stays undefined.  UnateChecker chooses which *)
(* variables it is given; those it is not given have a definition, which   *)
(* here is added after the check.  The definability checker goes through   *)
(* its own steps, which decide nothing for the others.                     *)
(***************************************************************************)
EXTENDS UnateChecker, DefinabilityChecker, RuleChecks

SetupInit == UnatesInit /\ DefinabilityInit /\ SkolemInit

\* The existentials that are defined: found by the check, or not given to it.
foundUnate(e) == e \in FoundLiterals \/ -e \in FoundLiterals
toDefine == {e \in Existentials : foundUnate(e) \/ e \notin variables_to_consider}

\* The constructors, with the dependencies the preprocessor leaves.
Construct ==
    /\ unatePhase = "done" /\ stage = "idle" /\ stage' = "preprocessing"
    /\ reads' = computeExtendedDependencies(AllDependencies)
    /\ \A e \in toDefine : foundUnate(e) \/ Definable(MatrixOf(clauses), e, reads'[e])
    /\ default_setting' \in DefaultSettings
    /\ UNCHANGED <<last_variable, validity_check_assumptions, default_selectors,
                   variables_with_defaults, fixed_defaults, default_trees, selectors,
                   validity_clauses, consistency_clauses, disjunction_terminals,
                   default_function_selectors, definitions, forcing_clauses,
                   arbiter_to_annotation, proper_arbiters>>

\* getDefinition: the matrix gives e this value where it has a model.
IsDefinition(e, f) == \A s \in MatrixOf(clauses) : \A c \in DOMAIN f : Agrees(c, s) => s[e] = f[c]

\* checkDefined, with all variables e reads as inputs.
AddFoundDefinition ==
    \E e \in toDefine : ~foundUnate(e) /\
        \E f \in [[reads[e] -> BOOLEAN] -> BOOLEAN] : IsDefinition(e, f) /\ AddDefinition(e, f)

\* checkUnates adds the literal as a definition without inputs.
AddUnate ==
    \E e \in Existentials : foundUnate(e) /\
        AddDefinition(e, [c \in {[y \in {} |-> TRUE]} |-> e \in FoundLiterals])

StartSearch == DOMAIN definitions = toDefine /\ InitDefaultValues

SkolemNext ==
    Construct \/ AddFoundDefinition \/ AddUnate \/ StartSearch \/ SkolemOperations

SetupNext ==
    \/ UnatesNext /\ UNCHANGED <<definabilityVars, defaultVars, skolemVars>>
    \/ DefinabilityNext /\ UNCHANGED <<preprocessingVars, unateVars, defaultVars, skolemVars>>
    \/ SkolemNext /\ UNCHANGED <<preprocessingVars, definabilityVars, unateVars>>

setupVars == <<preprocessingVars, definabilityVars, unateVars, defaultVars, skolemVars>>

SolverSetupSpec == SetupInit /\ [][SetupNext]_setupVars

================================================================================
