CONSTANTS
    MaxPn <- MC_MaxPn
    MaxPeerPn <- MC_MaxPeerPn
    Bounds <- MC_Bounds
    NWrites <- MC_NWrites
    MTU <- MC_MTU
    PacketCapacity <- MC_PacketCapacity
    ProbeBytes <- MC_ProbeBytes
    Configs <- MC_Configs
    ReorderingThreshold <- MC_ReorderingThreshold
    DefaultMss <- MC_DefaultMss
    InitialWindow <- MC_InitialWindow
    MinimumWindow <- MC_MinimumWindow
    LossReductionFactor <- MC_LossReductionFactor
    InitialMaxData <- MC_InitialMaxData
    MaxDataLimit <- MC_MaxDataLimit
    NoSsthresh <- MC_NoSsthresh
    StaleTimers = FALSE
INIT Init
NEXT Next
CHECK_DEADLOCK FALSE
INVARIANTS
    TypeOK
    BytesInFlightConservation
    StreamBytesInFlight
    NoDataLoss
    AlarmMatchesInFlight
