\* Up to two faults, at any point; in other behaviours there are none.
SPECIFICATION FairSpec
CONSTANTS
    MaxFaults = 2
    RETRY_COUNT = 2
    SPAD_MAX_COUNT = 5
    SPAD_APERTURE_START_INDEX = 2
    Nvm <- SomeNvm
    Garbage <- SomeGarbage
INVARIANTS
    FreshIsOneRound
    AssertsOnlyAfterFault
    OneSensorAnswers
    ReadyWhenInitialized
    SpadsOfOneType
PROPERTIES
    AlwaysFreshAgain
    InitEnds
