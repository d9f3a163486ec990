CONSTANTS
    Sides = {"Client", "Server"}
    MaxRx <- MC_MaxRx
    Forged = TRUE
    LateLong = TRUE
    KeylessShort = FALSE
    Resets = FALSE
    IdleFirst = FALSE
    InitialFails = FALSE
    StaleTimers = FALSE
SPECIFICATION Spec
CHECK_DEADLOCK FALSE
PROPERTY StateMachine
