\* Every line, every side, three kinds of command; a history of one entry.
SPECIFICATION Spec
CONSTANTS
    Enemies <- EnemiesAllSides
    Lines = {"NONE", "FRONT", "BACK", "LEFT", "RIGHT", "FRONT_LEFT", "FRONT_RIGHT",
             "BACK_LEFT", "BACK_RIGHT", "DIAGONAL_LEFT", "DIAGONAL_RIGHT"}
    Cmds = {"NONE", "UP", "UNKNOWN", "1"}
    INPUT_HISTORY_BUFFER_SIZE = 1
INVARIANTS
    TypeOK
    OnlyKnownAsserts
    Deadline
    FinishedOnlyAfterLastMove
    MotorsFollowState
    MovesAwayFromLine
PROPERTIES
    StillUntilStarted
    ManualObeysOnlyCommands
    RetreatRunsToItsEnd
    ImplementsStrategy
