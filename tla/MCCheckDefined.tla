----------------------------- MODULE MCCheckDefined -----------------------------
(* Every prefix over the constants, under the configurations that differ      *)
(* before the main loop.                                                      *)
EXTENDS DependencyVectors

AllPrefixes == [Existentials -> SUBSET Universals]

\* Options that only the main loop reads stay as they are by default.
SetupSettings ==
    {c \in Configurations :
        \A o \in {"use_forcing_clauses", "allow_arbiters_in_forcing_clauses",
                  "always_add_arbiter_clause", "check_for_fcs_matrix"} :
            c[o] <=> (DefaultConfiguration[o] /\ c["extended_dependencies"])}

\* With extended dependencies the kept ones are not read before the main loop.
MCInit ==
    /\ SetupInit /\ VectorsInit
    /\ config["extended_dependencies"] => dependencies = prefix

MCSpec == MCInit /\ [][VectorNext]_vectorVars
================================================================================
