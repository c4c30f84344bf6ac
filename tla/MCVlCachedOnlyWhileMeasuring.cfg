\* One fault suffices.
SPECIFICATION Spec
CONSTANTS
    MaxFaults = 1
    RETRY_COUNT = 2
    SPAD_MAX_COUNT = 5
    SPAD_APERTURE_START_INDEX = 2
    Nvm <- SomeNvm
    Garbage <- SomeGarbage
INVARIANT CachedOnlyWhileMeasuring
