SPECIFICATION Spec
CONSTANTS
    Settings <- MCSettings
    IngressDepth <- MCIngressDepth
    SynapseLanes <- MCSynapseLanes
    SpikeDepth <- MCSpikeDepth
    Bound = 400
    None = None
    AccumulatorFormat <- MCAccumulator
    MembraneFormat <- MCMembrane
    ThresholdFormat <- MCMembrane
    AdaptationFormat <- MCMembrane
INVARIANTS
    TickDoneIsClean
    OraclePredicts
    SteadyRate
PROPERTIES
    ImplementsScan
    TicksComplete
