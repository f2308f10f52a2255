CONSTANTS
    Universals = {1, 2, 3}
    Existentials = {4, 5, 6}
    ExtractorSettings <- AllSettings
    Cnf = Cnf
    NotANumber = NotANumber
    TooLarge = TooLarge
SPECIFICATION ParserSpec
INVARIANTS InnermostRecognised DependenciesOfPrefix ExtendedExact
