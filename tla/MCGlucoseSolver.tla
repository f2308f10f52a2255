---------------------------- MODULE MCGlucoseSolver ----------------------------
(* Clauses over five variables. *)
EXTENDS GlucoseSolver

FiveVariables == 1..5

\* Conflicts in long clauses; a contradiction; clauses shortened when they are added,
\* a tautology and a unit that propagates.
Clauses == {<<{-1, -2, -3, 4}, {-1, -2, -3, -4}, {1, 2, 3}, {-1, 2, 4}, {1, -3}>>,
            <<{1, 2}, {-1, 2}, {1, -2}, {-1, -2}>>,
            <<{-1, 2}, {1, -2, 3, 4}, {2, -2}, {1, 3, -4}, {-3}>>,
            <<{-1, 2}, {-2, 3, 4}, {-2, 3, -4}, {-3, -1}, {1, 4}, {1}>>,
            <<{-1, -3, 2}, {-2, -4, 5}, {-1, -4, -5}>>}

Assumed == {<<1, 3, 4>>, <<-4, -2>>}
================================================================================
