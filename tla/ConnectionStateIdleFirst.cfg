CONSTANTS
    Sides = {"Client", "Server"}
    MaxRx <- MC_MaxRx
    Forged = FALSE
    LateLong = FALSE
    KeylessShort = FALSE
    Resets = FALSE
    IdleFirst = TRUE
    InitialFails = FALSE
    StaleTimers = FALSE
SPECIFICATION Spec
CHECK_DEADLOCK FALSE
INVARIANT ConnectionLostOnce
