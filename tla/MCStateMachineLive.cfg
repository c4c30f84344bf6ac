\* Liveness, with the loop and time fair.
SPECIFICATION FairSpec
CONSTANTS
    Enemies <- EnemiesTurning
    Lines = {"NONE", "FRONT_LEFT"}
    Cmds = {"NONE", "1"}
    INPUT_HISTORY_BUFFER_SIZE = 1
PROPERTIES
    RetreatEnds
    SearchSweeps
    AttackGivesUp
