-------------------------- MODULE CycleRefinement ---------------------------
(***************************************************************************)
(* CycleMachine implements ReferenceMachine: at every logical-tick barrier *)
(* its functional state is the one the reference machine computes for that *)
(* tick.  The functional state is what result() digests.  Between two      *)
(* barriers the machine has already changed some of it, so the history     *)
(* variable functional keeps the value of the last barrier.                *)
(***************************************************************************)
EXTENDS CycleProperties

CONSTANTS event_input_fifo_depth, spike_output_fifo_depth

VARIABLE functional

EventValue(e) == [timestamp |-> e.timestamp, core |-> e.core, axon |-> e.axon]
PacketValue(p) == [timestamp |-> p.timestamp, core |-> p.core, axon |-> p.axon,
                   source |-> p.source, neuron |-> p.neuron]
SpikeOrder(s, r) ==
    \/ s.tick < r.tick
    \/ s.tick = r.tick /\ s.core < r.core
    \/ s.tick = r.tick /\ s.core = r.core /\ s.neuron < r.neuron

\* _functional_pending and the results; spikes in the order of the reference.
FunctionalState ==
    [input_events |->
        BagOf(EventValue,
              ToSet(SubSeq(source_events, source_index + 1, Len(source_events)))
              \cup UNION {ToSet(external_ingress_fifo[c]) : c \in Cores}),
     routed_packets |->
        BagOf(PacketValue,
              NetworkPackets \cup UNION {ToSet(routed_ingress_fifo[c]) : c \in Cores}),
     delayed_contributions |->
        BagOf(LAMBDA x : [timestamp |-> x[2].due_tick, core |-> x[1],
                          target |-> x[2].target, weight |-> x[2].weight],
              UNION {{<<c, i>> : i \in delayed_contribution_fifo[c]} : c \in Cores}),
     neuron |-> neuron,
     tick |-> last_completed_tick,
     injected |-> IF source_events = <<>> THEN NoTick ELSE Last(source_events).timestamp,
     spikes |-> InOrder(ToSet(logical_spikes), SpikeOrder),
     packets |-> BagOf(PacketValue, ToSet(logical_packets))]

RefinementInit == Init /\ functional = FunctionalState
RefinementNext ==
    BatchNext /\ functional' = IF tick_active' THEN functional ELSE FunctionalState'
RefinementSpec == RefinementInit /\ [][RefinementNext]_<<vars, functional>>

Reference == INSTANCE ReferenceMachine WITH
    EventLists <- Sources,
    TickLimit <- MaxTick,
    input_events <- functional.input_events,
    routed_packets <- functional.routed_packets,
    delayed_contributions <- functional.delayed_contributions,
    neuron <- functional.neuron,
    last_processed_tick <- functional.tick,
    last_injected_timestamp <- functional.injected,
    spikes <- functional.spikes,
    packets <- functional.packets

\* Whatever the queues, the pipelines, the arbitration and the stalls did during
\* a tick, the membranes, adaptations, update ticks, pending events, contributions
\* and packets, and the spikes of the tick are those of the reference machine
\* ("V6.1 remains the functional oracle").
ImplementsReference == Reference!Spec
=============================================================================
