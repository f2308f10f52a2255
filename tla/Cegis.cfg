CONSTANTS
    Universals = {u1}
    Existentials = {1, 2}
    CheckEvery = 2
    RandomEvery = 2
    InputPrefixes <- AllPrefixes
    Settings <- DefaultOnly
    Matrices <- MiddleMatrices
SPECIFICATION FairCegisSpec
INVARIANTS CegisTypeOK SatSound UnsatSound ConflictAssertion DependenciesSound
PROPERTIES Termination Refinement
