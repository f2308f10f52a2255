CONSTANTS
    Universals = {1, 2}
    Existentials = {3, 4}
    universal_variables <- Us
    existential_variables <- Es
    Arbiters = {5}
    max_variable_in_matrix = 4
    Formulas <- FormulasConsidered
    ForcingClauses <- ForcingClausesConsidered
    Definitions <- DefinitionsConsidered
    DefaultClauses <- DefaultsConsidered
    MaxRules = 2
    Options <- OptionsConsidered
    Formats <- AllFormats
    ByteBase = 4
SPECIFICATION MCSpec
INVARIANTS CertificateRight VerdictRight
CHECK_DEADLOCK FALSE
