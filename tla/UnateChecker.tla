------------------------------ MODULE UnateChecker ------------------------------
(***************************************************************************)
(* Solver::checkUnates on the formula preprocessing leaves: findUnates     *)
(* looks for existentials that may be fixed to one value.                  *)
(*                                                                         *)
(* The SAT solver holds the matrix, its negation over renamed existentials *)
(* and, for each existential, two equalities a switch turns on.  A         *)
(* variable is unate if with all switches but its own no assignment is     *)
(* lost by changing its value.  The switches and the literals found so far *)
(* are one array of assumptions.  Positions start at 1.  A literal of an   *)
(* existential is its number, with a sign.  No arbiter exists yet.         *)
(***************************************************************************)
EXTENDS Preprocessing, Integers, Sequences

CONSTANTS
    existential_variables,  \* all existentials, as a sorted sequence
    last_used_variable,     \* of the formula
    UnateLimits             \* the values of config.use_conflict_limit_unate_solver considered

ASSUME UnateAssumption ==
    /\ existential_variables \in Seq(Existentials)
    /\ \A e \in Existentials : \E k \in DOMAIN existential_variables : existential_variables[k] = e
    /\ \A k, l \in DOMAIN existential_variables :
          k < l => existential_variables[k] < existential_variables[l]
    /\ last_used_variable \in Nat
    /\ \A e \in Existentials : e \in 1..last_used_variable
    /\ UnateLimits \subseteq BOOLEAN

VARIABLES
    use_conflict_limit,
    variables_to_consider,   \* the variables still undefined
    assumptions,
    indices,                 \* of those not yet known to be unate
    found_unate_literals,
    last_index_to_consider,
    old_last_index,          \* what it was when the pass began
    position,                \* i
    unatePhase               \* "idle", "search", "done"

unateVars == <<use_conflict_limit, variables_to_consider, assumptions, indices, found_unate_literals,
               last_index_to_consider, old_last_index, position, unatePhase>>

--------------------------------------------------------------------------------
Positions == DOMAIN existential_variables

\* The constructor numbers a renamed variable and a switch for each existential.
switchOf(k) == last_used_variable + 2 * k
switches_for_equalities == [k \in Positions |-> switchOf(k)]

initialAssumptions(found) == switches_for_equalities \o found

\* s satisfies the assumptions that are literals of existentials.
SatisfiesAssumed(s, assumed) ==
    \A e \in Existentials : /\ e \in assumed => s[e]
                            /\ -e \in assumed => ~s[e]

\* s and t, its renamed copy, agree where the switches say so.
AgreeWhereSwitched(s, t, assumed) ==
    /\ \A u \in Universals : s[u] = t[u]
    /\ \A k \in Positions : switchOf(k) \in assumed =>
          s[existential_variables[k]] = t[existential_variables[k]]

\* The solver finds no assignment of the matrix with v of sign ~b that is lost
\* when the copy of v has sign b.
NoneLost(v, b, assumed) ==
    \A s \in MatrixOf(clauses) : \A t \in TotalAssignments \ MatrixOf(clauses) :
        ~(/\ SatisfiesAssumed(s, assumed) /\ AgreeWhereSwitched(s, t, assumed)
          /\ s[v] = ~b /\ t[v] = b)

\* checkUnateLiteral: with a limit the solver may give up.
UnateAnswers(v, b, assumed) ==
    IF NoneLost(v, b, assumed) THEN {TRUE} \cup {~use_conflict_limit} ELSE {FALSE}

\* Mutant: the last element is removed, but does not replace the switch.
OnlyPopped(s, k) == SubSeq(s, 1, Len(s) - 1)

\* The switch at k is overwritten by the last element, which is removed.
withoutSwitch(s, k) == SubSeq([s EXCEPT ![k] = s[Len(s)]], 1, Len(s) - 1)

\* The element moved to k goes back to the end.  If the switch was the last
\* element this reads past the end; what it reads is overwritten by the switch.
restored(s, k) ==
    [Append(s, IF k <= Len(s) THEN s[k] ELSE 0) EXCEPT ![k] = switchOf(k)]

\* Mutant: the last index is dropped, but not kept in place of i.
DropLast(s, i) == SubSeq(s, 1, Len(s) - 1)

\* indices[i] = indices.back(); indices.pop_back().
withoutIndex(s, i) == SubSeq([s EXCEPT ![i] = s[Len(s)]], 1, Len(s) - 1)

\* The numbers of K in increasing order: there is one such list.
IncreasingLists(K) ==
    {l \in [1..Cardinality(K) -> K] : \A i, j \in DOMAIN l : i < j => l[i] < l[j]}

UnateInit ==
    /\ use_conflict_limit \in UnateLimits
    /\ variables_to_consider = {}
    /\ assumptions = <<>> /\ indices = <<>> /\ found_unate_literals = <<>>
    /\ last_index_to_consider = 0 /\ old_last_index = 0 /\ position = 1
    /\ unatePhase = "idle"

\* The head of findUnates for the variables still undefined, a sorted vector,
\* and of the first pass.
FindUnates ==
    /\ phase = "done" /\ unatePhase = "idle"
    /\ variables_to_consider' \in SUBSET Kept
    /\ indices' \in IncreasingLists({k \in Positions :
                                       existential_variables[k] \in variables_to_consider'})
    /\ last_index_to_consider' = Len(indices') /\ old_last_index' = Len(indices')
    /\ assumptions' = initialAssumptions(<<>>)
    /\ position' = 1 /\ unatePhase' = "search"
    /\ UNCHANGED <<use_conflict_limit, found_unate_literals>>

\* One turn of the for loop.
CheckVariable ==
    /\ unatePhase = "search" /\ position <= last_index_to_consider
    /\ LET index == indices[position]
           variable == existential_variables[index]
           assumed == withoutSwitch(assumptions, index)
           IsAssumed == {assumed[k] : k \in DOMAIN assumed}
       IN  \E positive \in UnateAnswers(variable, TRUE, IsAssumed),
              negative \in UnateAnswers(variable, FALSE, IsAssumed) :
              IF positive \/ negative
              THEN LET unate_literal == IF positive THEN variable ELSE -variable
                   IN  /\ found_unate_literals' = Append(found_unate_literals, unate_literal)
                       /\ assumptions' = Append(restored(assumed, index), unate_literal)
                       /\ indices' = withoutIndex(indices, position)
                       /\ last_index_to_consider' = last_index_to_consider - 1
                       /\ UNCHANGED position
              ELSE /\ assumptions' = restored(assumed, index)
                   /\ position' = position + 1
                   /\ UNCHANGED <<found_unate_literals, indices, last_index_to_consider>>
    /\ UNCHANGED <<use_conflict_limit, variables_to_consider, old_last_index, unatePhase>>

\* The end of a pass; another one follows if this one found something.
EndPass ==
    /\ unatePhase = "search" /\ position > last_index_to_consider
    /\ IF old_last_index = last_index_to_consider
       THEN unatePhase' = "done" /\ UNCHANGED <<assumptions, old_last_index, position>>
       ELSE /\ old_last_index' = last_index_to_consider
            /\ assumptions' = initialAssumptions(found_unate_literals)
            /\ position' = 1
            /\ UNCHANGED unatePhase
    /\ UNCHANGED <<use_conflict_limit, variables_to_consider, indices, found_unate_literals,
                   last_index_to_consider>>

UnateSteps == FindUnates \/ CheckVariable \/ EndPass

UnatesInit == PreprocessingInit /\ UnateInit

UnatesNext ==
    \/ PreprocessingNext /\ UNCHANGED unateVars
    \/ UnateSteps /\ UNCHANGED preprocessingVars

UnatesSpec == UnatesInit /\ [][UnatesNext]_<<preprocessingVars, unateVars>>

--------------------------------------------------------------------------------
(***************************************************************************)
(* Properties.                                                             *)
(***************************************************************************)
FoundLiterals == {found_unate_literals[k] : k \in DOMAIN found_unate_literals}

\* s with the literals found.
Fixed(s) ==
    [v \in Variables |->
        IF v \in Universals THEN s[v]
        ELSE v \in FoundLiterals \/ (s[v] /\ -v \notin FoundLiterals)]

\* Fixing the literals found loses no model: an assignment of the matrix stays
\* one when all of them are changed at once, although each check changes a
\* single variable, under assumptions that are moved around in one array.
UnatesPreserveTruth ==
    unatePhase # "idle" => \A s \in MatrixOf(clauses) : Fixed(s) \in MatrixOf(clauses)

\* Between two checks the array holds exactly the switches, each at the
\* position it is looked for at, and the literals found after them.
AssumptionsInPlace ==
    unatePhase # "idle" => assumptions = initialAssumptions(found_unate_literals)

\* Without a limit the search ends only where none of the variables it was
\* given can still be fixed, also given what was found after it was checked last.
NothingUnateLeft ==
    unatePhase = "done" /\ ~use_conflict_limit =>
        \A k \in Positions : \A b \in BOOLEAN :
            LET v == existential_variables[k]
                others == {switchOf(l) : l \in Positions \ {k}}
            IN  v \in variables_to_consider /\ NoneLost(v, b, others \cup FoundLiterals)
                    => v \in FoundLiterals \/ -v \in FoundLiterals
================================================================================
