CONSTANTS
    Universals = {u1, u2}
    Existentials = {1}
    CheckEvery = 2
    RandomEvery = 2
    InputPrefixes <- FullPrefix
    Settings <- NoForcing
    Matrices <- NoConstant
SPECIFICATION FairMCSpec
PROPERTY Termination
