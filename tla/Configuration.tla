----------------------------- MODULE Configuration -----------------------------
(***************************************************************************)
(* The options that decide what the solver does, as far as the modules of  *)
(* this project read them, and the corrections checkConfiguration makes.   *)
(***************************************************************************)
EXTENDS Naturals

Options == {
    "extended_dependencies", "dynamic_dependencies", "definitions",
    "check_for_unates", "use_forcing_clauses",
    "allow_arbiters_in_forcing_clauses", "always_add_arbiter_clause",
    "check_for_fcs_matrix"}

\* The values checkArguments accepts, and what setConfigurations makes of them.
BoolConstraint == {"true", "false", "1", "0"}
isTrue(val) == val \in {"true", "1"}
setConfigurations(args) == [o \in Options |-> isTrue(args[o])]

\* The options as the command line gives them.
CommandLines == {setConfigurations(args) : args \in [Options -> BoolConstraint]}

checkConfiguration(c) ==
    [c EXCEPT !["dynamic_dependencies"] = @ /\ c["extended_dependencies"],
              !["use_forcing_clauses"] = @ /\ c["extended_dependencies"],
              !["check_for_fcs_matrix"] =
                  @ /\ c["use_forcing_clauses"] /\ c["extended_dependencies"]]

Configurations == {checkConfiguration(c) : c \in CommandLines}

\* Mutant: one iteration more.
OneIterationMore(c) == IF c["dynamic_dependencies"] THEN 3 ELSE 2

\* Without dynamic dependencies a second look for definitions is pointless.
incremental_definability_max_iterations(c) ==
    IF c["dynamic_dependencies"] THEN 2 ELSE 1

\* The option struct's own defaults, which a command line without options keeps.
DefaultConfiguration ==
    [o \in Options |-> o \in {"extended_dependencies", "dynamic_dependencies",
                              "definitions", "use_forcing_clauses"}]
================================================================================
