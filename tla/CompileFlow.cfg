SPECIFICATION Spec
CONSTANTS
    AccumulatorFormat <- MCWide
    MembraneFormat <- MCFormat
    ThresholdFormat <- MCFormat
    AdaptationFormat <- MCFormat
    VMin <- MCVMin
    VMax = 15
    WMin <- MCWMin
    WMax = 7
    NoLeak = NoLeak
    Sources <- MCSources
    Architectures <- MCArchitectures
    CoreCounts = {0, 1, 2, 3}
    Strategies = {"block", "round_robin", "spread"}
    Capacities <- MCMapLimits
    EventChoices <- MCEvents
    MaxEvents = 3
INVARIANTS
    RoundTrip
    ProgramAccepted
    SpikesReachTargets
    SubsetFiresAlike
    ExportRunsAlike
CHECK_DEADLOCK FALSE
