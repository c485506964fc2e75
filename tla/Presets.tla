------------------------------- MODULE Presets -------------------------------
(***************************************************************************)
(* The frozen presets and what their classes demand of them: the           *)
(* architecture (mini_loihi/architecture.py), the microarchitecture        *)
(* (mini_loihi/microarchitecture.py) and the profiles of the RTL           *)
(* (rtl_config.py, mempipe_config.py, lifpipe_config.py,                   *)
(* readycut_config.py).  Names, versions and prose fields are left out.    *)
(***************************************************************************)
EXTENDS Integers, Sequences, SequencesExt, FiniteSetsExt

\* NumericFormatSpec, saturating.
Signed(bits) == [min |-> -(2 ^ (bits - 1)), max |-> 2 ^ (bits - 1) - 1, mode |-> "saturate"]

\* EventPacketFormatSpec.
Fields(packet) == DOMAIN packet \ {"packet_width"}
IsPacketFormat(packet) ==
    /\ packet.packet_width > 0 /\ \A f \in Fields(packet) : packet[f] >= 0
    /\ MapThenSumSet(LAMBDA f : packet[f], Fields(packet)) <= packet.packet_width

\* MINI_LOIHI_V6_REF; the formats, which are all signed, by their bits.
V6Ref ==
    [maximum_neurons |-> 256, maximum_axons |-> 256, maximum_synapses |-> 4096,
     routing_entry_capacity |-> 1024, event_input_fifo_depth |-> 256,
     spike_output_fifo_depth |-> 256,
     accumulator_width |-> 24, synaptic_sum_width |-> 40, elapsed_product_width |-> 32,
     weight |-> 8, neuron_state |-> 16, accumulator |-> 24, threshold |-> 16, adaptation |-> 16,
     packet |-> [packet_width |-> 64, event_type |-> 3, source_core |-> 6, source_neuron |-> 8,
                 destination_core |-> 6, destination_axon |-> 8, timestamp |-> 16,
                 payload |-> 8, priority |-> 3]]

\* CoreArchitectureSpec.__post_init__.
IsV6Architecture(a) ==
    /\ \A f \in DOMAIN a \ {"packet"} : a[f] > 0
    /\ a.accumulator = a.accumulator_width /\ a.accumulator_width <= a.synaptic_sum_width
    /\ a.neuron_state <= a.elapsed_product_width
    /\ IsPacketFormat(a.packet)
    /\ a.maximum_neurons <= 2 ^ a.packet.source_neuron
    /\ a.maximum_axons <= 2 ^ a.packet.destination_axon

\* MINI_LOIHI_V6_2_REF.
V62Ref ==
    [cycles_per_logical_tick_budget |-> 64, transport_latency_ticks |-> 1,
     external_ingress_fifo_depth |-> 8, routed_ingress_fifo_depth |-> 4,
     ingress_events_accepted_per_cycle |-> 1, synapse_lanes |-> 2, axon_lookup_latency |-> 1,
     synapse_read_latency |-> 1, contribution_pipeline_latency |-> 1,
     synapse_work_fifo_depth |-> 8, delayed_contribution_fifo_depth |-> 64,
     accumulator_write_ports |-> 1, accumulator_clear_bandwidth |-> 2,
     accumulator_bank_count |-> 1, neuron_lanes |-> 1, neuron_state_read_latency |-> 1,
     neuron_arithmetic_pipeline_latency |-> 2, neuron_state_write_latency |-> 1,
     neuron_work_fifo_depth |-> 8, spike_fifo_depth |-> 4, packetizer_throughput |-> 1,
     packetizer_latency |-> 1, router_input_fifo_depth |-> 4, router_output_fifo_depth |-> 4,
     router_packets_accepted_per_cycle |-> 1,
     router_packets_transmitted_per_cycle_per_destination |-> 1,
     deadlock_detection_threshold |-> 32, maximum_supported_hardware_cycles |-> 100000]

\* The bits of an index below n, and of n itself.
BitsFor(n) == CHOOSE b \in 0 .. 30 : 2 ^ b >= n /\ \A c \in 0 .. b - 1 : 2 ^ c < n
BitLength(n) == BitsFor(n + 1)

-----------------------------------------------------------------------------
\* MINI_LOIHI_V7_0_RTL: what the RTL is generated for.
V70Rtl ==
    [supported_core_count |-> 1, supported_synaptic_delay |-> 0,
     weight_width |-> V6Ref.weight, payload_width |-> V6Ref.packet.payload,
     contribution_width |-> 16, wide_accumulator_width |-> V6Ref.synaptic_sum_width,
     accumulator_width |-> V6Ref.accumulator_width, state_width |-> V6Ref.neuron_state,
     threshold_width |-> V6Ref.threshold, reset_width |-> V6Ref.neuron_state,
     leak_width |-> V6Ref.neuron_state, timestamp_width |-> V6Ref.packet.timestamp,
     neuron_address_width |-> V6Ref.packet.source_neuron,
     axon_address_width |-> V6Ref.packet.destination_axon,
     synapse_address_width |-> BitsFor(V6Ref.maximum_synapses),
     csr_pointer_width |-> BitLength(V6Ref.maximum_synapses), event_id_width |-> 16,
     ingress_fifo_depth |-> V62Ref.external_ingress_fifo_depth,
     spike_fifo_depth |-> V62Ref.spike_fifo_depth, synapse_lanes |-> V62Ref.synapse_lanes,
     accumulator_write_ports |-> V62Ref.accumulator_write_ports,
     neuron_lanes |-> V62Ref.neuron_lanes]

\* RTLProfileSpec.__post_init__.
IsRtlProfile(p) ==
    /\ \A f \in DOMAIN p \ {"supported_synaptic_delay"} : p[f] > 0
    /\ p.supported_synaptic_delay = 0
    /\ p.weight_width = 8 /\ p.payload_width = 8 /\ p.contribution_width = 16
    /\ p.wide_accumulator_width = 40 /\ p.accumulator_width = 24
    /\ {p.state_width, p.threshold_width, p.reset_width, p.leak_width, p.timestamp_width} = {16}
    /\ p.neuron_address_width = 8 /\ p.axon_address_width = 8
    /\ p.synapse_address_width = 12 /\ p.csr_pointer_width = 13 /\ p.event_id_width = 16
    /\ p.synapse_lanes = 2 /\ p.accumulator_write_ports = 1 /\ p.neuron_lanes = 1

\* MINI_LOIHI_V7_1B_MEMPIPE and MempipeProfileSpec.__post_init__.
V71bMempipe ==
    [rom_read_latency |-> 1, state_ram_read_latency |-> 1, state_ram_write_latency |-> 1,
     initialization_entries_per_step |-> 1, initialization_cycles_per_entry |-> 2,
     accumulator_read_latency |-> 0, accumulator_write_ports |-> 1, touched_scan_width |-> 1,
     synapse_lanes |-> 2, neuron_lanes |-> 1, ingress_fifo_depth |-> 8, spike_fifo_depth |-> 4,
     contribution_slots |-> 2,
     controller_states |-> {"INIT_REQUEST", "INIT_WRITE", "IDLE", "INGRESS", "AXON_WAIT",
         "SYNAPSE_REQUEST", "SYNAPSE_RESPONSE", "ACCUMULATE", "SCAN_START", "SCAN",
         "NEURON_WAIT", "NEURON_COMMIT", "SPIKE_DRAIN", "TICK_DONE"}]
IsMempipeProfile(p) ==
    /\ \A f \in DOMAIN p \ {"accumulator_read_latency", "controller_states"} : p[f] > 0
    /\ p.accumulator_read_latency = 0 /\ p.accumulator_write_ports = 1
    /\ p.synapse_lanes = 2 /\ p.neuron_lanes = 1 /\ p.touched_scan_width = 1

\* MINI_LOIHI_V7_1B2_LIFPIPE, its stages with the widths of their registers.
V71b2Lifpipe ==
    [pipeline_stage_count |-> 6, issue_width |-> 1, writeback_width |-> 1,
     initialization_cycles_per_entry |-> 2,
     stages |->
       <<[neuron_id |-> 8, tick |-> 16, accumulator |-> 40],
         [voltage |-> 16, last_update |-> 16, elapsed |-> 16, threshold |-> 16, reset |-> 16,
          leak |-> 16, accumulator |-> 40],
         [leak_delta |-> 32, accumulator_24 |-> 24, accumulator_saturated |-> 1],
         [v_decay |-> 16, candidate_wide |-> 40, v_candidate |-> 16, membrane_saturated |-> 1],
         [v_candidate |-> 16, threshold |-> 16, v_next |-> 16, spike |-> 1],
         [v_next |-> 16, last_update_next |-> 16, spike |-> 1]>>,
     controller_states |-> {"INIT_REQUEST", "INIT_WRITE", "IDLE", "INGRESS", "AXON_WAIT",
         "SYNAPSE_REQUEST", "SYNAPSE_RESPONSE", "ACCUMULATE", "SCAN_START", "SCAN_PIPELINE",
         "PIPELINE_DRAIN", "SPIKE_DRAIN", "TICK_DONE"}]
\* LifpipeProfileSpec.__post_init__; every stage is a register.
IsLifpipeProfile(p) ==
    /\ p.pipeline_stage_count = Len(p.stages) /\ p.pipeline_stage_count >= 6
    /\ p.issue_width = 1 /\ p.writeback_width = 1

\* MINI_LOIHI_V7_1D2_READYCUT and ReadyCutProfileSpec.__post_init__.
V71d2Readycut ==
    [cut_after |-> 2, cut_depth |-> 2, registered_upstream_ready |-> TRUE,
     initialization_cycles_per_entry |-> V71b2Lifpipe.initialization_cycles_per_entry,
     pipeline_stage_count |-> 6, stages |-> V71b2Lifpipe.stages]
IsReadycutProfile(p) ==
    /\ p.cut_after = 2 /\ p.cut_depth = 2 /\ p.registered_upstream_ready
    /\ p.initialization_cycles_per_entry = V71b2Lifpipe.initialization_cycles_per_entry
    /\ p.pipeline_stage_count = 6 /\ p.stages = V71b2Lifpipe.stages

\* The presets satisfy their classes, and no register is too narrow for what its stage
\* computes: a weight times an unsigned payload, a leak times an elapsed time, a decayed
\* membrane plus a narrowed sum.  (The wide accumulator is not wide enough for every tick
\* of 2^16 events and 2^12 synapses: the export checks it for the events it is given.)
ASSUME PresetsAssumption ==
    /\ IsV6Architecture(V6Ref) /\ IsRtlProfile(V70Rtl) /\ IsMempipeProfile(V71bMempipe)
    /\ IsLifpipeProfile(V71b2Lifpipe) /\ IsReadycutProfile(V71d2Readycut)
    /\ V70Rtl.contribution_width - 1 >= V70Rtl.weight_width - 1 + V70Rtl.payload_width
    /\ V71b2Lifpipe.stages[3].leak_delta - 1 >= V70Rtl.leak_width - 1 + V70Rtl.timestamp_width
    /\ V71b2Lifpipe.stages[4].candidate_wide > V70Rtl.accumulator_width
==============================================================================
