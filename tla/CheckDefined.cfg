CONSTANTS
    Universals = {3, 5}
    Existentials = {1, 2, 4}
    InputPrefixes <- AllPrefixes
    Settings <- SetupSettings
SPECIFICATION MCSpec
INVARIANTS SetupTypeOK LookupsSucceed EffectiveOrder StoredOrder UniversalsRespected ScheduledAreRequeued VectorsMatch
PROPERTY UndefinedOnlyGain
