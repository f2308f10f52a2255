---------------------------- MODULE MCSupportTracker ----------------------------
(* Conflict graphs over two universals, four existentials and two arbiters.   *)
EXTENDS SupportTracker, TLC

Option(allow, replace) ==
    [allow_arbiters_in_forcing_clauses |-> allow, replace_arbiters_in_separators |-> replace]

AllOptions == {Option(allow, replace) : allow, replace \in BOOLEAN}

\* 4 may read 3, 5 neither of them, 6 all others.
TreeED == 3 :> {1} @@ 4 :> {1, 3} @@ 5 :> {2} @@ 6 :> {1, 2, 3, 4, 5}
TreeArbiters == 7 :> 3 @@ 8 :> 4
TreeClauses == {{4, 6}, {2, 5, 6}}

\* With arbiters in forcing clauses there are many more graphs.
MCInit ==
    /\ SupportInit
    /\ config["allow_arbiters_in_forcing_clauses"] => inconsistent = 0 /\ literals = {4, 6}

MCSpec == MCInit /\ [][SupportNext]_vars
================================================================================
