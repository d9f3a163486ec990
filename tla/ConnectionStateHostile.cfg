CONSTANTS
    Sides = {"Client", "Server"}
    MaxRx <- MC_MaxRx
    Forged = TRUE
    LateLong = TRUE
    KeylessShort = TRUE
    Resets = TRUE
    IdleFirst = TRUE
    InitialFails = TRUE
    StaleTimers = TRUE
SPECIFICATION Spec
CHECK_DEADLOCK FALSE
INVARIANT ConnectedOnce
CONSTRAINT MC_Bound
