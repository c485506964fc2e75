--------------------------- MODULE CycleProperties --------------------------
(***************************************************************************)
(* What CycleMachine promises: docs/V6_2_CYCLE_MODEL.md names the logical  *)
(* tick barrier, the bounded storage, the lossless backpressure and the    *)
(* deadlock report; the properties below state them of the model.          *)
(***************************************************************************)
EXTENDS CycleMachine

-----------------------------------------------------------------------------
(* Types. *)

Event == [event_id : Nat, timestamp : Nat, core : Cores, axon : Nat, priority : Nat]
Packet == [event_id : Nat, source : Cores, neuron : Nat, core : Cores, axon : Nat,
           timestamp : Nat, priority : Nat]
AxonLookup == [event_id : Nat, axon : Nat, wait : 0 .. axon_lookup_latency]
SynapseWork == [event_id : Nat, axon : Nat, next : Nat \ {0}]
Contribution == [event_id : Nat, synapse : Nat, target : Nat, weight : Int,
                 due_tick : Nat]
NeuronWork(c) == [neuron : Neurons(c), spike : BOOLEAN, state : NeuronState,
                  wait : 0 .. neuron_latency]
CycleSpike(c) == [tick : Nat, neuron : Neurons(c)]
PacketizerWork(c) == [tick : Nat, neuron : Neurons(c), next_route : Nat \ {0}]
PacketInPipeline == [packet : Packet, wait : 0 .. packetizer_latency - 1]

\* Every register holds what the dataclass of cycle_state.py declares.
TypeOK ==
    /\ logical_tick \in Nat /\ last_completed_tick \in Nat \cup {NoTick}
    /\ phase \in {"work", "neuron", "packetize", "barrier"}
    /\ {tick_active, explicit_ticks, inputs_closed} \subseteq BOOLEAN
    /\ explicit_tick_ids \in Seq(Nat)
    /\ no_progress_cycles \in 0 .. deadlock_detection_threshold + 1
    /\ error \in {"none", "deadlock", "omitted tick"}
    /\ source_events \in Seq(Event) /\ source_index \in 0 .. Len(source_events)
    /\ {next_event_id, events_admitted, packets_admitted} \subseteq Nat
    /\ router_round_robin_pointer \in Cores
    /\ packet_pipeline \subseteq PacketInPipeline
    /\ \A c \in Cores :
        /\ external_ingress_fifo[c] \in Seq(Event)
        /\ ingress_round_robin_pointer[c] \in {0, 1}
        /\ {router_input_fifos[c], router_output_fifos[c], routed_ingress_fifo[c]}
              \subseteq Seq(Packet)
        /\ axon_lookup_pipeline[c] \in Seq(AxonLookup)
        /\ synapse_work_fifo[c] \in Seq(SynapseWork)
        /\ delayed_contribution_fifo[c] \subseteq Contribution
        /\ {Bare(i) : i \in ToSet(contribution_pipeline[c])} \subseteq Contribution
        /\ accumulators[c] \in [Neurons(c) -> Int]
        /\ neuron[c] \in [Neurons(c) -> NeuronState]
        /\ affected[c] \cup neuron_pending[c] \cup neuron_work_fifo[c] \subseteq Neurons(c)
        /\ neuron_pipeline[c] \subseteq NeuronWork(c)
        /\ spike_fifo[c] \in Seq(CycleSpike(c))
        /\ packetizer_work[c] \in Seq(PacketizerWork(c))

-----------------------------------------------------------------------------
(* Bounded storage. *)

\* No queue or pipeline of the machine ever holds more than the microarchitecture
\* gives it, although every producer decides on the occupancy of the last cycle
\* (docs: "bounded"; each commit checks len(old...) before it appends).
StorageBounded ==
    /\ Cardinality(packet_pipeline) <= router_input_fifo_depth * NumCores
    /\ \A c \in Cores :
        /\ Len(external_ingress_fifo[c]) <= external_ingress_fifo_depth
        /\ Len(routed_ingress_fifo[c]) <= routed_ingress_fifo_depth
        /\ Len(axon_lookup_pipeline[c]) <= synapse_work_fifo_depth
        /\ Len(synapse_work_fifo[c]) <= synapse_work_fifo_depth
        /\ Len(contribution_pipeline[c]) <= synapse_work_fifo_depth
        /\ Cardinality(delayed_contribution_fifo[c]) <= delayed_contribution_fifo_depth
        /\ Cardinality(neuron_work_fifo[c]) <= neuron_work_fifo_depth
        /\ Cardinality(neuron_pipeline[c]) <= neuron_lanes * neuron_latency
        /\ Len(spike_fifo[c]) <= spike_fifo_depth
        /\ Len(packetizer_work[c]) <= 1
        /\ Len(router_input_fifos[c]) <= router_input_fifo_depth
        /\ Len(router_output_fifos[c]) <= router_output_fifo_depth

-----------------------------------------------------------------------------
(* Nothing is lost, nothing is done twice. *)

InPipeline(c) == {e.neuron : e \in neuron_pipeline[c]}
WorkOf(c) == neuron_pending[c] \cup neuron_work_fifo[c] \cup InPipeline(c)

\* During the neuron phase each affected neuron is in exactly one of: still
\* pending, in the work FIFO, once in the pipeline; in the other phases of a tick
\* the three are empty, and after it no neuron is affected.  So a tick updates
\* each affected neuron exactly once, whatever the stalls of the writeback.
NeuronWorkPartition ==
    \A c \in Cores :
        /\ neuron_pending[c] \cap neuron_work_fifo[c] = {}
        /\ neuron_pending[c] \cap InPipeline(c) = {}
        /\ neuron_work_fifo[c] \cap InPipeline(c) = {}
        /\ \A e, f \in neuron_pipeline[c] : e.neuron = f.neuron => e = f
        /\ IF tick_active /\ phase = "neuron" THEN affected[c] = WorkOf(c) ELSE WorkOf(c) = {}
        /\ ~(tick_active /\ phase \in {"work", "neuron"}) => affected[c] = {}

TotalLen(fifos) == Total([c \in Cores |-> Len(fifos[c])])

\* Every packet the packetizers ever emitted is in exactly one place on its way
\* or has been admitted by the ingress arbiter of its core: the network neither
\* drops nor duplicates ("No internal packet ... is silently dropped").
PacketsConserved ==
    /\ Len(logical_packets) = packets_admitted
          + Cardinality(packet_pipeline) + TotalLen(router_input_fifos)
          + TotalLen(router_output_fifos) + TotalLen(routed_ingress_fifo)
    /\ \A i, j \in 1 .. Len(logical_packets) :
          logical_packets[i].event_id = logical_packets[j].event_id => i = j

\* The spikes of one core are recorded in the order of tick and neuron, without
\* repetition, although the writeback lets quiet neurons pass a stalled spike.
CoreSpikesInOrder ==
    \A i, j \in 1 .. Len(logical_spikes) :
        i < j /\ logical_spikes[i].core = logical_spikes[j].core =>
            \/ logical_spikes[i].tick < logical_spikes[j].tick
            \/ /\ logical_spikes[i].tick = logical_spikes[j].tick
               /\ logical_spikes[i].neuron < logical_spikes[j].neuron

-----------------------------------------------------------------------------
(* Logical time. *)

DueTicks(c) ==
    {e.timestamp : e \in ToSet(external_ingress_fifo[c]) \cup ToSet(routed_ingress_fifo[c])}
    \cup {i.due_tick : i \in delayed_contribution_fifo[c] \cup ToSet(contribution_pipeline[c])}

\* The tick to which everything the machine still has to do belongs, or a later one.
Earliest == CASE ~tick_active -> last_completed_tick + 1
              [] tick_active /\ phase = "work" -> logical_tick
              [] OTHER -> logical_tick + 1

\* Nothing in the machine is late: what waits in a FIFO, a pipeline or the
\* network belongs to the active tick or to a later one, and once the work phase
\* is over only to a later one.
NothingOverdue ==
    /\ \A c \in Cores : \A t \in DueTicks(c) : t >= Earliest
    /\ \A p \in NetworkPackets : p.timestamp >= Earliest
    /\ \A i \in source_index + 1 .. Len(source_events) :
          source_events[i].timestamp >= Earliest

\* The barrier of docs/V6_2_CYCLE_MODEL.md: in its last phase a tick has admitted
\* and applied everything due, updated every affected neuron and packetized
\* every spike; the packets on their way arrive in the next tick.
BarrierContract ==
    tick_active /\ phase = "barrier" =>
        /\ \A c \in Cores :
            /\ \A t \in DueTicks(c) : t > logical_tick
            /\ axon_lookup_pipeline[c] = <<>> /\ synapse_work_fifo[c] = <<>>
            /\ contribution_pipeline[c] = <<>>
            /\ affected[c] = {} /\ neuron_pipeline[c] = {}
            /\ \A n \in Neurons(c) : accumulators[c][n] = 0
            /\ spike_fifo[c] = <<>> /\ packetizer_work[c] = <<>>
        /\ \A p \in NetworkPackets : p.timestamp = logical_tick + 1

\* When run_until_quiescent stops, nothing it was given is left inside: every
\* event, contribution and packet due below the tick limit was processed, also
\* under an explicit list of ticks.
QuiescentIsDrained ==
    Quiescent =>
        /\ \A c \in Cores :
            /\ \A t \in DueTicks(c) : t >= MaxTick
            /\ axon_lookup_pipeline[c] = <<>> /\ synapse_work_fifo[c] = <<>>
            /\ spike_fifo[c] = <<>> /\ packetizer_work[c] = <<>>
        /\ \A p \in NetworkPackets : p.timestamp >= MaxTick
        /\ \A i \in source_index + 1 .. Len(source_events) :
              source_events[i].timestamp >= MaxTick

-----------------------------------------------------------------------------
(* Deadlock detection and progress. *)

\* The report of a deadlock is sound: a first cycle without progress may only be
\* the off-by-one of a pipeline about to be ready, but from the second on no
\* later cycle can move anything, so the counter can only go up.
DetectorSound ==
    [][no_progress_cycles >= 2 /\ StepCycle => no_progress_cycles' > no_progress_cycles]_vars

\* What blocks a deadlocked machine is storage for LATER ticks: either packets of
\* the next tick fill the path from a packet pipeline to a routed ingress FIFO,
\* or contributions of later ticks fill a delayed FIFO.
DeadlockIsStorage ==
    error = "deadlock" =>
        \/ /\ phase \in {"neuron", "packetize"}
           /\ \A p \in NetworkPackets : p.timestamp = logical_tick + 1
           /\ Cardinality(packet_pipeline) = router_input_fifo_depth * NumCores
           /\ \E d \in Cores :
                /\ Len(routed_ingress_fifo[d]) = routed_ingress_fifo_depth
                /\ Len(router_output_fifos[d]) = router_output_fifo_depth
        \/ /\ phase = "work"
           /\ \E c \in Cores :
                /\ Cardinality(delayed_contribution_fifo[c]) = delayed_contribution_fifo_depth
                /\ contribution_pipeline[c] # <<>>

\* A run over a closed input ends: it drains every tick below its limit or it
\* reports why it cannot ("If pending work cannot change registered state beyond
\* the configured threshold, CycleDeadlockError reports"). It never spins.
RunEndsOrReports == inputs_closed ~> (Quiescent \/ error # "none")
=============================================================================
