SPECIFICATION RefinementSpec
CONSTANTS
    AccumulatorFormat <- SmallFormat
    MembraneFormat <- SmallFormat
    ThresholdFormat <- SmallFormat
    AdaptationFormat <- SmallFormat
    NumCores = 2
    Params <- PairParams
    InitialState <- PairState
    Fanout <- PairFanout
    Routes <- PairRoutes
    external_ingress_fifo_depth = 1
    routed_ingress_fifo_depth = 2
    ingress_events_accepted_per_cycle = 1
    synapse_lanes = 1
    axon_lookup_latency = 1
    contribution_latency = 2
    synapse_work_fifo_depth = 1
    delayed_contribution_fifo_depth = 4
    accumulator_write_ports = 1
    accumulator_clear_bandwidth = 1
    neuron_lanes = 1
    neuron_latency = 3
    neuron_work_fifo_depth = 1
    spike_fifo_depth = 1
    packetizer_throughput = 1
    packetizer_latency = 1
    router_input_fifo_depth = 1
    router_output_fifo_depth = 1
    router_packets_accepted_per_cycle = 1
    router_packets_transmitted_per_cycle_per_destination = 1
    deadlock_detection_threshold = 2
    MaxTick = 4
    HostEvents <- NoEvents
    MaxEvents = 0
    Sources <- BatchSources
    TickLists <- PairTicks
    HostPackets <- NoEvents
    event_input_fifo_depth = 8
    spike_output_fifo_depth = 8
INVARIANTS
    TypeOK
    QuiescentIsDrained
PROPERTIES
    ImplementsReference
CHECK_DEADLOCK FALSE
