-------------------------------- MODULE Literals --------------------------------
(* Literals are numbers with a sign, clauses sets of them. *)
EXTENDS Integers

var(l) == IF l < 0 THEN -l ELSE l
literal(v, b) == IF b THEN v ELSE -v
negateEach(C) == {-l : l \in C}
holds(l, s) == s[var(l)] = (l > 0)
cubeLiterals(cube) == {literal(v, cube[v]) : v \in DOMAIN cube}
================================================================================
