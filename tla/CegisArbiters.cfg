CONSTANTS
    Universals = {u1, u2}
    Existentials = {1, 2}
    CheckEvery = 2
    RandomEvery = 2
    InputPrefixes <- SeparatePrefix
    Settings <- TwoSettings
    Matrices <- TwoMatrices
SPECIFICATION TwoSpec
INVARIANT ModelsObey
PROPERTY LearnsNew
