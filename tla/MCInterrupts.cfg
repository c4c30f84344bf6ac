\* Ticks and rounds enough for two carries, and for samples of three rounds.
SPECIFICATION InterruptsSpec
CONSTANTS
    WORD = 4
    UPTIME = 9
    adc_pins <- Pins
    ROUNDS = 3
INVARIANTS
    NoTornRead
    SamplesOfOneRound
PROPERTIES
    EveryTickCounted
    ConversionsGoOn
