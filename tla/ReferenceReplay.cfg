SPECIFICATION ReplaySpec
CONSTANTS
    AccumulatorFormat <- SmallFormat
    MembraneFormat <- SmallFormat
    ThresholdFormat <- SmallFormat
    AdaptationFormat <- SmallFormat
    NumCores = 2
    Params <- PairParams
    InitialState <- PairState
    Fanout <- PairFanout
    Routes <- PairRoutes
    event_input_fifo_depth = 3
    batch_fifo_depth = 8
    spike_output_fifo_depth = 2
    EventLists <- ReplayLists
    TickLimit = 4
INVARIANTS
    NothingOverdue
    PacketsMatchSpikes
    OnlineEqualsBatch
CHECK_DEADLOCK FALSE
