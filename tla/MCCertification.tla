---------------------------- MODULE MCCertification ----------------------------
(* Two universal variables 1 and 2, two existentials 3 and 4, one arbiter 5.     *)
EXTENDS Certification

Us == <<1, 2>>
Es == <<3, 4>>

\* One matrix is read with two prefixes.  In the third formula 4 does not occur, the
\* last one is false where 2 is.
And == {{-3, 1}, {3, -1}, {-4, 3}, {-4, 2}, {4, -3, -2}}
PrefixOf(D, F) == [e \in Existentials |-> IF e = 3 THEN D ELSE F]
FormulasConsidered ==
    {[prefix |-> PrefixOf({1}, {1, 2}), clauses |-> And],
     [prefix |-> PrefixOf({1}, {2}), clauses |-> And],
     [prefix |-> PrefixOf({1}, {2}), clauses |-> {{-1, 3}, {1, -3}}],
     [prefix |-> PrefixOf({1}, {1}), clauses |-> {{3, 4}, {-3, -4}, {-1, 3}, {1, -3}}],
     [prefix |-> PrefixOf({1}, {1, 2}), clauses |-> {{2, 4}, {2, -4}}]}

ForcingClausesConsidered ==
    {<<-1, 3>>, <<1, -3>>, <<5, 3>>, <<-5, -1, -3>>,
     <<-3, -2, 4>>, <<3, -4>>, <<2, -4>>, <<2, 4>>, <<-1, 2, -3, 4>>, <<4, -2, 3>>}

Gate(inputs, output) == [inputs |-> inputs, output |-> output]
DefinitionsConsidered ==
    {[variable |-> 3, gates |-> <<Gate(<<1>>, 3)>>],
     [variable |-> 3, gates |-> <<Gate(<<1, -4>>, 3)>>],
     [variable |-> 3, gates |-> <<Gate(<<>>, -3)>>],
     [variable |-> 4, gates |-> <<Gate(<<2, 3>>, 4)>>],
     [variable |-> 4, gates |-> <<Gate(<<2, -3>>, 7), Gate(<<-7, 1>>, 4)>>]}

\* Constants, and trees over 1, and over 3 and 2.
Tree1 == <<<<1, -4>>, <<-1, 4>>>>
Tree3 == <<<<3, 4>>, <<-3, 2, 4>>, <<-3, -2, -4>>>>
DefaultsConsidered ==
    {[e \in Existentials |-> IF e = 3 THEN c ELSE d] :
        c \in {<<<<-3>>>>}, d \in {<<<<4>>>>, <<<<-4>>>>, Tree1, Tree3}}

OptionsConsidered == {{}, {"check_def", "check_cons"}, {"check_def", "check_cons", "std_dep"}, {"abc"}}
AllFormats == {"cnf", "aag", "aig"}

\* The options that matter for a format.  Writers are stopped for one rule at most.
MCNext ==
    /\ CertificationNext
    /\ phase = "search" /\ phase' = "written" =>
          options \in IF format' = "cnf" THEN OptionsConsidered \ {{"abc"}} ELSE {{}, {"abc"}}
    /\ complete /\ ~complete' => Cardinality(logged) <= 1
MCSpec == CertificationInit /\ [][MCNext]_vars
================================================================================
