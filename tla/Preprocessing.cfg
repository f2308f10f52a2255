CONSTANTS
    Universals = {1, 2}
    Existentials = {3, 4}
    Formulas <- FormulasConsidered
    PreprocessSettings <- Reducing
    existential_variables <- Sorted
    last_used_variable = 4
    UnateLimits <- Both
    LastVariable = 4
    DefaultSettings <- Defaults
    ForcingPremises <- Premises
    MaxArbiters = 1
    MaxRules = 2
    MaxNumbers = 24
    MaxGates = 1
    MaxClauses = 1
SPECIFICATION MCSpec
INVARIANTS SchemeExact UnatesPreserveTruth NothingUnateLeft DefinitionsRight
INVARIANTS ValidityEncodesRules ConsistencyEncodesRules
PROPERTY TruthKept
