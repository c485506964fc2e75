SPECIFICATION FairBatchSpec
CONSTANTS
    AccumulatorFormat <- SmallFormat
    MembraneFormat <- SmallFormat
    ThresholdFormat <- SmallFormat
    AdaptationFormat <- SmallFormat
    NumCores = 2
    Params <- BurstParams
    InitialState <- BurstState
    Fanout <- BurstFanout
    Routes <- BurstRoutes
    external_ingress_fifo_depth = 2
    routed_ingress_fifo_depth = 1
    ingress_events_accepted_per_cycle = 2
    synapse_lanes = 2
    axon_lookup_latency = 1
    contribution_latency = 2
    synapse_work_fifo_depth = 2
    delayed_contribution_fifo_depth = 2
    accumulator_write_ports = 2
    accumulator_clear_bandwidth = 2
    neuron_lanes = 2
    neuron_latency = 3
    neuron_work_fifo_depth = 2
    spike_fifo_depth = 1
    packetizer_throughput = 1
    packetizer_latency = 1
    router_input_fifo_depth = 1
    router_output_fifo_depth = 1
    router_packets_accepted_per_cycle = 2
    router_packets_transmitted_per_cycle_per_destination = 1
    deadlock_detection_threshold = 2
    MaxTick = 4
    HostEvents <- NoEvents
    MaxEvents = 0
    Sources <- BurstSources
    TickLists <- BurstTicks
    HostPackets <- NoEvents
INVARIANTS
    StorageBounded
    PacketsConserved
    CoreSpikesInOrder
    DeadlockIsStorage
PROPERTIES
    DetectorSound
    RunEndsOrReports
CHECK_DEADLOCK FALSE
