CONSTANTS
    Universals = {5}
    Existentials = {1, 2, 3, 4}
    Block = {3, 4}
    InputPrefixes <- BlockPrefixes
    Settings <- DefaultOnly
    GivenSets <- AllGiven
SPECIFICATION LibrarySpec
INVARIANT GivenDefinitionsAccepted
