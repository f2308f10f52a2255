CONSTANTS
    Universals = {1, 2}
    Existentials = {3, 4, 5, 6}
    Arbiters = {7, 8}
    Opposite = 9
    arbiter_to_existential <- TreeArbiters
    ED <- TreeED
    Clauses <- TreeClauses
    Settings <- AllOptions
    MaxSupport = 2
SPECIFICATION MCSpec
INVARIANTS SeparatorDetermines ForcingClausePossible CutIsMinimal
