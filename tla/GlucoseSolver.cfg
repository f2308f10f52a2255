SPECIFICATION GlucoseSpec
CONSTANTS
    SatVariables <- FiveVariables
    ClauseLists <- Clauses
    AssumptionLists <- Assumed
    MaxCalls = 2
    MaxReductions = 1
INVARIANTS NothingLost PropagationComplete ReasonsImply
PROPERTIES AnswersRight SolveReturns
