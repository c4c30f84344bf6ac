SPECIFICATION Spec
CONSTANTS
    Enemies <- EnemiesAllSides
    Lines = {"NONE", "FRONT_LEFT", "DIAGONAL_LEFT"}
    Cmds = {"NONE", "1"}
    INPUT_HISTORY_BUFFER_SIZE = 1
INVARIANT EveryEventHasTransition
