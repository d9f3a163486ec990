CONSTANTS
    Sides = {"Client", "Server"}
    MaxRx <- MC_MaxRx
    Forged = TRUE
    LateLong = FALSE
    KeylessShort = TRUE
    Resets = FALSE
    IdleFirst = FALSE
    InitialFails = TRUE
    StaleTimers = FALSE
SPECIFICATION Spec
CHECK_DEADLOCK FALSE
INVARIANT NoPanic
