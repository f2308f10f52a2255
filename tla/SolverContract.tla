----------------------------- MODULE SolverContract -----------------------------
(***************************************************************************)
(* What Solver::solve() promises its caller: one return value, which is 10 *)
(* only for a true formula, 20 only for a false one, and 0 when the search *)
(* was interrupted.                                                        *)
(***************************************************************************)
EXTENDS DQBF

VARIABLES
    formula_prefix,  \* the dependencies of the formula
    formula_matrix,  \* its satisfying assignments
    answer           \* "none", "sat" (10), "unsat" (20), "unknown" (0)

contractVars == <<formula_prefix, formula_matrix, answer>>

ContractInit ==
    /\ formula_prefix \in [Existentials -> SUBSET Universals]
    /\ formula_matrix \in SUBSET TotalAssignments
    /\ answer = "none"

Answer ==
    /\ answer = "none"
    /\ answer' \in {"unknown",
                    IF Satisfiable(formula_prefix, formula_matrix) THEN "sat" ELSE "unsat"}
    /\ UNCHANGED <<formula_prefix, formula_matrix>>

ContractSpec == ContractInit /\ [][Answer]_contractVars
================================================================================
