SPECIFICATION Spec
CONSTANTS
    VMin <- MCVMin
    VMax = 20
    WMin <- MCWMin
    WMax = 14
    NoLeak = NoLeak
    Networks <- MCNetworks
    Strict = {TRUE, FALSE}
    Rewards = {2}
    MaxProcessed = 6
INVARIANTS
    ErrorsExplained
    TrafficConserved
    OutputsDrained
    RewardsReachAll
    PartitionEquivalent
PROPERTIES
    DeliveriesSorted
    CallsReturn
CHECK_DEADLOCK FALSE
