\* Every combination of measurements around the limits, and saves of every kind.
SPECIFICATION PerceptionSpec
CONSTANTS
    Surroundings <- AnySurroundings
    LaterSurroundings <- SomeSurroundings
    Data <- InputType
    Zero <- NoInput
    buffer_size = 3
    Ranges = {50, 100, 150, 199, 300, 599, 600, 65535}
    Voltages = {699, 700}
INVARIANTS
    RemembersLastSide
    MirrorImage
PROPERTY SavesAsSequence
