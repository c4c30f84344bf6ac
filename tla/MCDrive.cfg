SPECIFICATION Spec
CONSTANTS
    Directions <- AllDirections
    Speeds = {"SLOW", "MEDIUM", "FAST", "MAX"}
INVARIANTS
    ObeysLastCall
PROPERTIES
    NoKickOnTheWay
