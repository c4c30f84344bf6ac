\* Two buttons, held for up to three repetitions.
SPECIFICATION IrSpec
CONSTANTS
    Cmds <- TwoButtons
    addr <- Addr
    NoCmd = NoCmd
    Receptions <- SomeReceptions
    PressGaps <- Gaps
    MaxHeld = 3
    LATENCY = 1
INVARIANTS
    DecodesMessages
    PutsOnlyWhatIsSent
    RepeatsWhileHeld
