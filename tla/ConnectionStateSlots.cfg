CONSTANTS
    Sides = {"Server"}
    MaxRx <- MC_MaxRx
    Forged = FALSE
    LateLong = FALSE
    KeylessShort = FALSE
    Resets = FALSE
    IdleFirst = FALSE
    InitialFails = FALSE
    StaleTimers = FALSE
SPECIFICATION Spec
CHECK_DEADLOCK FALSE
INVARIANT HandshakeSlots
