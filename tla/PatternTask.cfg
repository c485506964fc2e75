SPECIFICATION Spec
CONSTANTS
    VMin <- Int16Min
    VMax = 32767
    WMin <- Int8Min
    WMax = 127
    NoLeak = NoLeak
    Templates <- EveryTemplate
    Seeds = {0, 1}
    Spacing = 10
    RewardDelay = 0
INVARIANTS
    NeverStale
    PresetsBehave
PROPERTIES
    CreditIsOwn
    RewardMovesRight
CHECK_DEADLOCK FALSE
