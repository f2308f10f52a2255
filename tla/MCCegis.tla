-------------------------------- MODULE MCCegis --------------------------------
(* The main loop on formulas over three variables.                            *)
EXTENDS Cegis

AllPrefixes == [Existentials -> SUBSET Universals]

\* With fewer satisfying assignments every conflict has many cores, with more
\* of them there is little to learn.  Renaming literals puts one of them at TRUE.
MatricesOfSize(sizes) ==
    {m \in SUBSET TotalAssignments :
        Cardinality(m) \in sizes /\ [v \in Variables |-> TRUE] \in m}

MiddleMatrices == MatricesOfSize(3..5)

DefaultOnly == {DefaultConfiguration}
\* Two variables that see different universals: what makes a DQBF out of a QBF.
\* The matrix has two clauses of four literals, one of them all positive.
SeparatePrefix == {p \in AllPrefixes : \E x, y \in Universals : x # y /\ p[1] = {x} /\ p[2] = {y}}
TwoClauses ==
    {m \in SUBSET TotalAssignments : Cardinality(m) = 14 /\ [v \in Variables |-> FALSE] \notin m}

NoDefinitions == [DefaultConfiguration EXCEPT !["definitions"] = FALSE]

\* Forcing clauses with arbiters, and arbiter clauses beside forcing clauses.
ArbiterSettings ==
    {NoDefinitions,
     [NoDefinitions EXCEPT !["allow_arbiters_in_forcing_clauses"] = TRUE],
     [NoDefinitions EXCEPT !["always_add_arbiter_clause"] = TRUE]}

\* Where both universals hold exactly one existential is true: no variable can
\* be forced in this conflict, only arbiters settle it.
ArbiterMatrices ==
    {{s \in TotalAssignments : (\A x \in Universals : s[x]) => s[1] # s[2]}}

\* The same, and variable 1 is false where only x is true: it can be forced where its
\* arbiter meets that of variable 2.
MixedMatrices(X) ==
    {{s \in m : s[x] /\ (\E y \in Universals : ~s[y]) => ~s[1]} : m \in ArbiterMatrices, x \in X}

\* An arbiter clause for every conflict, as --always-add-arbiter asks for.
AlwaysArbiters == {[NoDefinitions EXCEPT !["always_add_arbiter_clause"] = TRUE]}

\* Forcing clauses from the matrix, as --fcs-matrix asks for.
MatrixForcing == {[DefaultConfiguration EXCEPT !["check_for_fcs_matrix"] = TRUE]}

\* The first with definitions, the second with all other settings, the third where
\* every conflict adds an arbiter clause.
TwoMatrices == TwoClauses \cup ArbiterMatrices \cup MixedMatrices(Universals)
TwoSettings == DefaultOnly \cup MatrixForcing \cup ArbiterSettings

\* The forcing clauses switched off, as --forcing-clauses=false does it.
NoForcing == {[DefaultConfiguration EXCEPT !["use_forcing_clauses"] = FALSE]}

\* Every existential sees all universals.
FullPrefix == {[e \in Existentials |-> Universals]}

\* (not x or not y or e) and (x or y or not e): true where e sees x or y, but not
\* with a constant; e has no definition and really depends on both.
NoConstant ==
    {{s \in TotalAssignments :
        /\ (\A x \in Universals : s[x]) => s[1]
        /\ s[1] => \E x \in Universals : s[x]}}

\* The dependency scheme left the dependencies alone.
MCInit == CegisInit /\ dependencies = prefix
FairMCSpec == MCInit /\ [][CegisNext]_cegisVars /\ WF_cegisVars(Search)

TwoInit ==
    /\ MCInit
    /\ matrix \in TwoClauses => config \in DefaultOnly \cup MatrixForcing
    /\ matrix \in ArbiterMatrices => config \notin MatrixForcing
    /\ matrix \in MixedMatrices(Universals) =>
           config \in AlwaysArbiters /\ matrix \in MixedMatrices(prefix[1])
TwoSpec == TwoInit /\ [][CegisNext]_cegisVars
================================================================================
