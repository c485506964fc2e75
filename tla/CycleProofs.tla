----------------------------- MODULE CycleProofs ----------------------------
(***************************************************************************)
(* What the cycle machine keeps, proved for every program,                 *)
(* microarchitecture, input and host: each affected neuron is updated      *)
(* exactly once, the state is typed, storage stays within its bounds, and  *)
(* the network neither loses a packet nor makes one.  Types and bounds     *)
(* need each other: an index into a row of synapses is typed because the   *)
(* work entry names an axon of its core, the room a stage computes is a    *)
(* natural number because the queue it looks at is within its bound, and   *)
(* the packets that a router input accepts are counted by their order,     *)
(* which is total because no two packets of the pipeline share an          *)
(* identifier.                                                             *)
(***************************************************************************)
EXTENDS CycleProperties, OrderingProofs

-----------------------------------------------------------------------------
(* The neuron phase updates every affected neuron exactly once. *)

\* The entries of the neuron pipeline are records with a neuron and a wait.
PipelineShape ==
    \A c \in Cores : \A e \in neuron_pipeline[c] :
        DOMAIN e = {"neuron", "spike", "state", "wait"}

PhaseOK == phase \in {"work", "neuron", "packetize", "barrier"}

WorkInv == PhaseOK /\ PipelineShape /\ NeuronWorkPartition

-----------------------------------------------------------------------------
(* What the stages of the neuron phase read and take. *)

\* Each stage takes only what the stage before it holds, and only in its phase.
LEMMA NeuronStages ==
    ASSUME NEW c \in Cores
    PROVE  /\ IssuedNeurons(c) \subseteq neuron_work_fifo[c]
           /\ FedNeurons(c) \subseteq neuron_pending[c]
           /\ Written(c) \subseteq neuron_pipeline[c]
           /\ ~InNeuron => IssuedNeurons(c) = {} /\ FedNeurons(c) = {} /\ Written(c) = {}
           /\ ~InWork => AccumulatorWrites(c) = {}
<1>1. IssuedNeurons(c) \subseteq neuron_work_fifo[c]
  BY DEF IssuedNeurons, LowestIndices, FirstOf
<1>2. FedNeurons(c) \subseteq neuron_pending[c]
  BY DEF FedNeurons, LowestIndices, FirstOf
<1>3. Written(c) \subseteq neuron_pipeline[c]
  BY DEF Written, WritebackWindow, FirstOf
<1>4. ~InNeuron => IssuedNeurons(c) = {} /\ FedNeurons(c) = {} /\ Written(c) = {}
  BY DEF IssuedNeurons, FedNeurons, Written
<1>5. ~InWork => AccumulatorWrites(c) = {}
  BY DEF AccumulatorWrites
<1> QED BY <1>1, <1>2, <1>3, <1>4, <1>5

\* Waiting changes only the wait.
LEMMA WaitedEntry ==
    ASSUME NEW e, DOMAIN e = {"neuron", "spike", "state", "wait"}
    PROVE  /\ DOMAIN Waited(e) = {"neuron", "spike", "state", "wait"}
           /\ Waited(e).neuron = e.neuron
BY DEF Waited

\* After a cycle the pipeline of a core holds what was not written back and what
\* was issued, with their neurons.
LEMMA PipelineAfterCycle ==
    ASSUME WorkInv, MoveNeurons, NEW c \in Cores
    PROVE  /\ \A e \in neuron_pipeline'[c] : DOMAIN e = {"neuron", "spike", "state", "wait"}
           /\ InPipeline(c)' = (InPipeline(c) \ WrittenNeurons(c)) \cup IssuedNeurons(c)
           /\ \A e, f \in neuron_pipeline'[c] : e.neuron = f.neuron => e = f
<1> DEFINE kept == neuron_pipeline[c] \ Written(c)
           entry(n) == PipelineEntry(c, n)
<1>1. neuron_pipeline'[c] = {Waited(e) : e \in kept} \cup {Waited(entry(n)) : n \in IssuedNeurons(c)}
  BY DEF MoveNeurons
<1>2. \A e \in neuron_pipeline[c] : DOMAIN e = {"neuron", "spike", "state", "wait"}
  BY DEF WorkInv, PipelineShape
<1>3. \A n \in IssuedNeurons(c) :
        DOMAIN entry(n) = {"neuron", "spike", "state", "wait"} /\ entry(n).neuron = n
  BY DEF PipelineEntry
<1> HIDE DEF kept, entry
<1>4. \A e \in kept : DOMAIN Waited(e) = {"neuron", "spike", "state", "wait"}
                        /\ Waited(e).neuron = e.neuron
  BY <1>2, WaitedEntry DEF kept
<1>5. \A n \in IssuedNeurons(c) :
        DOMAIN Waited(entry(n)) = {"neuron", "spike", "state", "wait"}
          /\ Waited(entry(n)).neuron = n
  BY <1>3, WaitedEntry
<1>6. \A e \in neuron_pipeline'[c] : DOMAIN e = {"neuron", "spike", "state", "wait"}
  BY <1>1, <1>4, <1>5
<1>7. \A e, f \in neuron_pipeline[c] : e.neuron = f.neuron => e = f
  BY DEF WorkInv, NeuronWorkPartition
<1>8. {e.neuron : e \in kept} = InPipeline(c) \ WrittenNeurons(c)
  BY <1>7, NeuronStages DEF kept, InPipeline, WrittenNeurons
<1>9. InPipeline(c)' = (InPipeline(c) \ WrittenNeurons(c)) \cup IssuedNeurons(c)
  <2>1. InPipeline(c)' = {e.neuron : e \in neuron_pipeline'[c]}
    BY DEF InPipeline
  <2>2. {e.neuron : e \in neuron_pipeline'[c]} = {e.neuron : e \in kept} \cup IssuedNeurons(c)
    BY <1>1, <1>4, <1>5
  <2> QED BY <2>1, <2>2, <1>8
<1>10. \A e, f \in neuron_pipeline'[c] : e.neuron = f.neuron => e = f
  <2>1. \A e \in kept : e \in neuron_pipeline[c] /\ e.neuron \notin IssuedNeurons(c)
    BY NeuronStages DEF kept, WorkInv, NeuronWorkPartition, InPipeline
  <2> QED BY <1>1, <1>4, <1>5, <1>7, <2>1
<1> QED BY <1>6, <1>9, <1>10

\* What a cycle leaves of the work of a core, by the phase it ran in.
LEMMA WorkAfterCycle ==
    ASSUME WorkInv, MoveNeurons, MoveContributions, NEW c \in Cores
    PROVE  /\ ~InNeuron /\ WorkOf(c) = {} =>
                  neuron_work_fifo'[c] = {} /\ InPipeline(c)' = {}
           /\ ~InNeuron /\ ~InWork => affected'[c] = affected[c]
           /\ InNeuron /\ affected[c] = WorkOf(c) =>
                  /\ affected'[c] = PendingAfterFeed[c] \cup neuron_work_fifo'[c]
                                        \cup InPipeline(c)'
                  /\ PendingAfterFeed[c] \cap neuron_work_fifo'[c] = {}
                  /\ PendingAfterFeed[c] \cap InPipeline(c)' = {}
                  /\ neuron_work_fifo'[c] \cap InPipeline(c)' = {}
<1>1. neuron_work_fifo'[c] = (neuron_work_fifo[c] \ IssuedNeurons(c)) \cup FedNeurons(c)
  BY DEF MoveNeurons
<1>2. affected'[c] = (affected[c] \ WrittenNeurons(c))
                        \cup {i.target : i \in AccumulatorWrites(c)}
  BY DEF MoveContributions
<1>3. InPipeline(c)' = (InPipeline(c) \ WrittenNeurons(c)) \cup IssuedNeurons(c)
  BY PipelineAfterCycle
<1>4. WrittenNeurons(c) \subseteq InPipeline(c) /\ (~InNeuron => WrittenNeurons(c) = {})
  BY NeuronStages DEF WrittenNeurons, InPipeline
<1>5. PendingAfterFeed[c] = neuron_pending[c] \ FedNeurons(c)
  BY DEF PendingAfterFeed
<1>6. InNeuron => ~InWork
  BY DEF InNeuron, InWork
<1>7. /\ neuron_pending[c] \cap neuron_work_fifo[c] = {}
      /\ neuron_pending[c] \cap InPipeline(c) = {}
      /\ neuron_work_fifo[c] \cap InPipeline(c) = {}
  BY DEF WorkInv, NeuronWorkPartition
<1>8. ASSUME ~InNeuron, WorkOf(c) = {}
      PROVE  neuron_work_fifo'[c] = {} /\ InPipeline(c)' = {}
  BY <1>1, <1>3, <1>8, NeuronStages DEF WorkOf
<1>9. ~InNeuron /\ ~InWork => affected'[c] = affected[c]
  BY <1>2, <1>4, NeuronStages
<1>10. ASSUME InNeuron, affected[c] = WorkOf(c)
       PROVE  /\ affected'[c] = PendingAfterFeed[c] \cup neuron_work_fifo'[c]
                                    \cup InPipeline(c)'
              /\ PendingAfterFeed[c] \cap neuron_work_fifo'[c] = {}
              /\ PendingAfterFeed[c] \cap InPipeline(c)' = {}
              /\ neuron_work_fifo'[c] \cap InPipeline(c)' = {}
  <2>1. affected'[c] = WorkOf(c) \ WrittenNeurons(c)
    BY <1>2, <1>6, <1>10, NeuronStages
  <2> QED BY <1>1, <1>3, <1>4, <1>5, <1>7, <2>1, NeuronStages DEF WorkOf
<1> QED BY <1>8, <1>9, <1>10

-----------------------------------------------------------------------------
(* One cycle. *)

\* The phase of the cycle, and what the invariant says of it.
LEMMA PhaseOfCycle ==
    ASSUME WorkInv, NEW c \in Cores
    PROVE  /\ CurrentPhase \in {"work", "neuron", "packetize", "barrier"}
           /\ InNeuron => affected[c] = WorkOf(c)
           /\ ~InNeuron => WorkOf(c) = {}
           /\ ~InNeuron /\ ~InWork => affected[c] = {}
<1>1. CASE tick_active
  <2>1. CurrentPhase = phase
    BY <1>1 DEF CurrentPhase
  <2> QED BY <1>1, <2>1 DEF WorkInv, PhaseOK, NeuronWorkPartition, InNeuron, InWork
<1>2. CASE ~tick_active
  <2>1. CurrentPhase = "work"
    BY <1>2 DEF CurrentPhase
  <2> QED BY <1>2, <2>1 DEF WorkInv, NeuronWorkPartition, InNeuron, InWork
<1> QED BY <1>1, <1>2

\* The moves of a cycle followed by any outcome of the controller.
LEMMA CycleKeepsPartition ==
    ASSUME WorkInv, MoveNeurons, MoveContributions, AdvanceControl \/ StayInPhase
    PROVE  WorkInv'
<1>1. PhaseOK' /\ PipelineShape'
  <2>1. PipelineShape'
    BY PipelineAfterCycle DEF PipelineShape
  <2>2. Cores # {} => CurrentPhase \in {"work", "neuron", "packetize", "barrier"}
    BY PhaseOfCycle
  <2>3. PhaseOK'
    BY DEF AdvanceControl, HoldEmptyTick, EnterNeuron, EnterPacketize, EnterBarrier,
           CompleteTick, StayInPhase, CurrentPhase, PhaseOK, WorkInv
  <2> QED BY <2>1, <2>3
<1>2. ASSUME NEW c \in Cores
      PROVE  /\ neuron_pending'[c] \cap neuron_work_fifo'[c] = {}
             /\ neuron_pending'[c] \cap InPipeline(c)' = {}
             /\ neuron_work_fifo'[c] \cap InPipeline(c)' = {}
             /\ tick_active' /\ phase' = "neuron" => affected'[c] = WorkOf(c)'
             /\ ~(tick_active' /\ phase' = "neuron") => WorkOf(c)' = {}
             /\ ~(tick_active' /\ phase' \in {"work", "neuron"}) => affected'[c] = {}
  <2>1. /\ CurrentPhase \in {"work", "neuron", "packetize", "barrier"}
        /\ InNeuron => affected[c] = WorkOf(c)
        /\ ~InNeuron => WorkOf(c) = {}
        /\ ~InNeuron /\ ~InWork => affected[c] = {}
    BY PhaseOfCycle
  <2>2. /\ ~InNeuron => neuron_work_fifo'[c] = {} /\ InPipeline(c)' = {}
        /\ ~InNeuron /\ ~InWork => affected'[c] = {}
    BY <2>1, WorkAfterCycle
  <2>3. InNeuron =>
            /\ affected'[c] = PendingAfterFeed[c] \cup neuron_work_fifo'[c] \cup InPipeline(c)'
            /\ PendingAfterFeed[c] \cap neuron_work_fifo'[c] = {}
            /\ PendingAfterFeed[c] \cap InPipeline(c)' = {}
            /\ neuron_work_fifo'[c] \cap InPipeline(c)' = {}
    BY <2>1, WorkAfterCycle
  <2>4. ~InNeuron => neuron_pending[c] = {}
    BY <2>1 DEF WorkOf
  <2>5. WorkOf(c)' = neuron_pending'[c] \cup neuron_work_fifo'[c] \cup InPipeline(c)'
    BY DEF WorkOf
  <2>6. CASE HoldEmptyTick
    <3>1. ~InNeuron /\ neuron_pending' = neuron_pending /\ phase' = "work" /\ tick_active'
      BY <2>6 DEF HoldEmptyTick, EmptyIngressWait, CurrentPhase, InNeuron
    <3> QED BY <3>1, <2>2, <2>4, <2>5
  <2>7. CASE EnterNeuron
    <3>1. ~InNeuron /\ neuron_pending' = affected' /\ phase' = "neuron" /\ tick_active'
      BY <2>7 DEF EnterNeuron, InWork, InNeuron
    <3> QED BY <3>1, <2>2, <2>5
  <2>8. CASE EnterPacketize
    <3>1. /\ InNeuron /\ neuron_pending' = PendingAfterFeed /\ phase' = "packetize"
          /\ NeuronComplete'
      BY <2>8 DEF EnterPacketize
    <3>2. neuron_pending'[c] = {} /\ neuron_work_fifo'[c] = {} /\ neuron_pipeline'[c] = {}
      BY <3>1 DEF NeuronComplete
    <3>3. InPipeline(c)' = {}
      BY <3>2 DEF InPipeline
    <3> QED BY <3>1, <3>2, <3>3, <2>3, <2>5
  <2>9. CASE EnterBarrier
    <3>1. ~InNeuron /\ ~InWork /\ neuron_pending' = neuron_pending /\ phase' = "barrier"
      BY <2>9 DEF EnterBarrier, InNeuron, InWork
    <3> QED BY <3>1, <2>2, <2>4, <2>5
  <2>10. CASE CompleteTick
    <3>1. ~InNeuron /\ ~InWork /\ neuron_pending' = neuron_pending /\ ~tick_active'
      BY <2>10 DEF CompleteTick, InNeuron, InWork
    <3> QED BY <3>1, <2>2, <2>4, <2>5
  <2>11. CASE StayInPhase /\ InNeuron
    <3>1. neuron_pending' = PendingAfterFeed /\ phase' = "neuron" /\ tick_active'
      BY <2>11 DEF StayInPhase, InNeuron
    <3> QED BY <3>1, <2>11, <2>3, <2>5
  <2>12. CASE StayInPhase /\ ~InNeuron
    <3>1. /\ neuron_pending' = neuron_pending /\ phase' = CurrentPhase /\ tick_active'
          /\ phase' # "neuron"
      BY <2>12 DEF StayInPhase, InNeuron
    <3>2. phase' \in {"work", "neuron"} \/ ~InWork
      BY <3>1 DEF InWork
    <3> QED BY <3>1, <3>2, <2>12, <2>2, <2>4, <2>5
  <2>13. CASE StayInPhase
    BY <2>11, <2>12, <2>13
  <2> QED BY <2>6, <2>7, <2>8, <2>9, <2>10, <2>13 DEF AdvanceControl
<1>3. \A c \in Cores : \A e, f \in neuron_pipeline'[c] : e.neuron = f.neuron => e = f
  BY PipelineAfterCycle
<1>4. NeuronWorkPartition'
  BY <1>2, <1>3 DEF NeuronWorkPartition
<1> QED BY <1>1, <1>4 DEF WorkInv

-----------------------------------------------------------------------------
(* The specifications. *)

\* Everything that is not a cycle leaves the neuron stages and the phase alone.
LEMMA OthersKeepPartition ==
    ASSUME WorkInv,
           UNCHANGED <<tick_active, phase, affected, neuron_pending, neuron_work_fifo,
                       neuron_pipeline>>
    PROVE  WorkInv'
BY DEF WorkInv, PhaseOK, PipelineShape, NeuronWorkPartition, WorkOf, InPipeline

\* One step of the batch, the live or the harness specification.
LEMMA StepKeepsPartition ==
    ASSUME WorkInv, [BatchNext \/ HarnessNext]_vars
    PROVE  WorkInv'
<1>1. CASE StepCycle
  BY <1>1, CycleKeepsPartition DEF StepCycle
<1>2. CASE RaiseOmittedTick
  BY <1>2, OthersKeepPartition DEF RaiseOmittedTick, coreVars
<1>3. CASE StepIdle \/ UNCHANGED vars
  BY <1>3, OthersKeepPartition DEF StepIdle, vars, controlVars, coreVars
<1>4. ASSUME NEW events \in Sources, LoadInputSource(events)
      PROVE  WorkInv'
  BY <1>4, OthersKeepPartition DEF LoadInputSource, controlVars, coreVars
<1>5. ASSUME NEW ticks \in TickLists, LoadLogicalTicks(ticks)
      PROVE  WorkInv'
  BY <1>5, OthersKeepPartition DEF LoadLogicalTicks, coreVars
<1>6. ASSUME NEW e \in HostEvents, PresentInput(e)
      PROVE  WorkInv'
  BY <1>6, OthersKeepPartition DEF PresentInput, controlVars, coreVars
<1>7. CASE CloseInputs
  BY <1>7, OthersKeepPartition DEF CloseInputs, controlVars, coreVars
<1>8. ASSUME NEW p \in HostPackets, InjectRouterPacket(p)
      PROVE  WorkInv'
  BY <1>8, OthersKeepPartition DEF InjectRouterPacket, controlVars, coreVars
<1> QED BY <1>1, <1>2, <1>3, <1>4, <1>5, <1>6, <1>7, <1>8
        DEF BatchNext, HarnessNext, LiveNext, Run

\* The machine starts without work.
LEMMA InitPartition == Init => WorkInv
BY DEF Init, WorkInv, PhaseOK, PipelineShape, NeuronWorkPartition, WorkOf, InPipeline

\* In a batch run every affected neuron of a tick is updated exactly once, for
\* every program, every microarchitecture and every loaded source.
THEOREM BatchUpdatesOnce == BatchSpec => []NeuronWorkPartition
<1>1. WorkInv /\ [BatchNext]_vars => WorkInv'
  BY StepKeepsPartition
<1>2. WorkInv => NeuronWorkPartition
  BY DEF WorkInv
<1> QED BY <1>1, <1>2, InitPartition, PTL DEF BatchSpec

\* So it is when a host presents events between cycles, at any moment.
THEOREM LiveUpdatesOnce == LiveSpec => []NeuronWorkPartition
<1>1. WorkInv /\ [LiveNext]_vars => WorkInv'
  BY StepKeepsPartition DEF HarnessNext
<1>2. WorkInv => NeuronWorkPartition
  BY DEF WorkInv
<1> QED BY <1>1, <1>2, InitPartition, PTL DEF LiveSpec

\* And when a harness places packets in the router.
THEOREM HarnessUpdatesOnce == HarnessSpec => []NeuronWorkPartition
<1>1. WorkInv /\ [HarnessNext]_vars => WorkInv'
  BY StepKeepsPartition
<1>2. WorkInv => NeuronWorkPartition
  BY DEF WorkInv
<1> QED BY <1>1, <1>2, InitPartition, PTL DEF HarnessSpec

-----------------------------------------------------------------------------
(* The inductive invariant, by the part of the machine it speaks of.  What *)
(* it adds to the types: an entry of a core names an axon, a synapse or a  *)
(* neuron of that core, sets are finite, identifiers are fresh.            *)

HeldEvent(c) == {e \in Event : e.core = c /\ e.axon \in Axons(c)}
HeldPacket(c) == {p \in Packet : p.core = c /\ p.axon \in Axons(c)}
RoutedPacket == {p \in Packet : p.axon \in Axons(p.core)}
HeldLookup(c) == {l \in AxonLookup : l.axon \in Axons(c)}
HeldWork(c) == {w \in SynapseWork : w.axon \in Axons(c) /\ w.next <= Len(Fanout[c][w.axon])}
HeldContribution(c) == [event_id : Nat, synapse : Nat, target : Neurons(c), weight : Int,
                        due_tick : Nat]
PipedContribution(c) == [event_id : Nat, synapse : Nat, target : Neurons(c), weight : Int,
                         due_tick : Nat, wait : 0 .. contribution_latency]

ControlInv ==
    /\ logical_tick \in Nat /\ last_completed_tick \in Nat \cup {NoTick}
    /\ tick_active \in BOOLEAN /\ explicit_ticks \in BOOLEAN /\ inputs_closed \in BOOLEAN
    /\ explicit_tick_ids \in Seq(Nat)
    /\ no_progress_cycles \in 0 .. deadlock_detection_threshold + 1
    /\ error \in {"none", "deadlock", "omitted tick"}
    /\ error = "none" => no_progress_cycles <= deadlock_detection_threshold
    /\ events_admitted \in Nat /\ packets_admitted \in Nat

SourceInv ==
    /\ source_events \in Seq({e \in Event : e.axon \in Axons(e.core)})
    /\ source_index \in 0 .. Len(source_events)

IngressInv(c) ==
    /\ external_ingress_fifo[c] \in Seq(HeldEvent(c))
    /\ Len(external_ingress_fifo[c]) <= external_ingress_fifo_depth
    /\ routed_ingress_fifo[c] \in Seq(HeldPacket(c))
    /\ Len(routed_ingress_fifo[c]) <= routed_ingress_fifo_depth
    /\ ingress_round_robin_pointer[c] \in {0, 1}

LookupInv(c) ==
    /\ axon_lookup_pipeline[c] \in Seq(HeldLookup(c))
    /\ Len(axon_lookup_pipeline[c]) <= synapse_work_fifo_depth
    /\ synapse_work_fifo[c] \in Seq(HeldWork(c))
    /\ Len(synapse_work_fifo[c]) <= synapse_work_fifo_depth

ContributionInv(c) ==
    /\ contribution_pipeline[c] \in Seq(PipedContribution(c))
    /\ Len(contribution_pipeline[c]) <= synapse_work_fifo_depth
    /\ delayed_contribution_fifo[c] \subseteq HeldContribution(c)
    /\ IsFiniteSet(delayed_contribution_fifo[c])
    /\ Cardinality(delayed_contribution_fifo[c]) <= delayed_contribution_fifo_depth
    /\ accumulators[c] \in [Neurons(c) -> Int]
    /\ affected[c] \subseteq Neurons(c)

NeuronInv(c) ==
    /\ neuron[c] \in [Neurons(c) -> NeuronState]
    /\ neuron_pending[c] \subseteq Neurons(c)
    /\ neuron_work_fifo[c] \subseteq Neurons(c)
    /\ Cardinality(neuron_work_fifo[c]) <= neuron_work_fifo_depth
    /\ neuron_pipeline[c] \subseteq NeuronWork(c)
    /\ IsFiniteSet(neuron_pipeline[c])
    /\ Cardinality(neuron_pipeline[c]) <= neuron_lanes * neuron_latency
    /\ spike_fifo[c] \in Seq(CycleSpike(c))
    /\ Len(spike_fifo[c]) <= spike_fifo_depth

RouterInv(c) ==
    /\ packetizer_work[c] \in Seq(PacketizerWork(c))
    /\ Len(packetizer_work[c]) <= 1
    /\ router_input_fifos[c] \in Seq(RoutedPacket)
    /\ Len(router_input_fifos[c]) <= router_input_fifo_depth
    /\ router_output_fifos[c] \in Seq(HeldPacket(c))
    /\ Len(router_output_fifos[c]) <= router_output_fifo_depth

PacketInv ==
    /\ next_event_id \in Nat
    /\ router_round_robin_pointer \in Cores
    /\ packet_pipeline \subseteq [packet : RoutedPacket, wait : 0 .. packetizer_latency - 1]
    /\ IsFiniteSet(packet_pipeline)
    /\ Cardinality(packet_pipeline) <= router_input_fifo_depth * NumCores
    /\ \A e \in packet_pipeline : e.packet.event_id < next_event_id
    /\ \A e, f \in packet_pipeline : e.packet.event_id = f.packet.event_id => e = f

\* The two FIFOs that the host appends to are functions.
PortsInv ==
    /\ external_ingress_fifo = [c \in Cores |-> external_ingress_fifo[c]]
    /\ router_input_fifos = [c \in Cores |-> router_input_fifos[c]]

StorageInv ==
    /\ WorkInv /\ ControlInv /\ SourceInv /\ PacketInv /\ PortsInv
    /\ \A c \in Cores : /\ IngressInv(c) /\ LookupInv(c) /\ ContributionInv(c)
                        /\ NeuronInv(c) /\ RouterInv(c)

-----------------------------------------------------------------------------
(* The microarchitecture and the program. *)

\* Every depth, rate and latency is a positive number, and so are the two products that
\* bound a pipeline.
LEMMA Positive ==
    /\ \A x \in Depths \cup Rates \cup Latencies : x \in Nat /\ x >= 1
    /\ deadlock_detection_threshold \in Nat /\ deadlock_detection_threshold >= 1
    /\ neuron_lanes * neuron_latency \in Nat
    /\ router_input_fifo_depth * NumCores \in Nat
<1>1. \A x \in Depths \cup Rates \cup Latencies : x \in Nat /\ x >= 1
  BY MicroarchitectureAssumption DEF IsMicroarchitecture
<1>2. deadlock_detection_threshold \in Nat /\ deadlock_detection_threshold >= 1
  BY MicroarchitectureAssumption DEF IsMicroarchitecture
<1>3. \A x, y \in Nat : x * y \in Nat
  OBVIOUS
<1>4. NumCores \in Nat
  BY ProgramAssumption
<1>5. neuron_lanes \in Nat /\ neuron_latency \in Nat /\ router_input_fifo_depth \in Nat
  BY <1>1 DEF Depths, Rates, Latencies
<1> QED BY <1>1, <1>2, <1>3, <1>4, <1>5

\* The cores are finitely many naturals, and so are the neurons of one.
LEMMA ProgramFinite ==
    /\ Cores \subseteq Nat /\ IsFiniteSet(Cores) /\ 0 \in Cores
    /\ \A c \in Cores : Neurons(c) \subseteq Nat /\ IsFiniteSet(Neurons(c))
<1>1. NumCores \in Nat /\ NumCores >= 1
  BY ProgramAssumption
<1>2. IsFiniteSet(0 .. NumCores - 1)
  BY <1>1, FS_Interval
<1> QED BY <1>1, <1>2, ProgramAssumption DEF Cores

\* The least of two or three numbers.
LEMMA LeastOfTwo ==
    ASSUME NEW a \in Int, NEW b \in Int
    PROVE  Min({a, b}) \in {a, b} /\ Min({a, b}) <= a /\ Min({a, b}) <= b
<1>1. \E x \in {a, b} : \A y \in {a, b} : x <= y
  BY a <= b \/ b <= a
<1> QED BY <1>1 DEF Min

\* Three numbers have a least one as well.
LEMMA LeastOfThree ==
    ASSUME NEW a \in Int, NEW b \in Int, NEW d \in Int
    PROVE  /\ Min({a, b, d}) \in {a, b, d}
           /\ Min({a, b, d}) <= a /\ Min({a, b, d}) <= b /\ Min({a, b, d}) <= d
<1>1. \E x \in {a, b, d} : \A y \in {a, b, d} : x <= y
  <2>1. CASE a <= b /\ a <= d
    BY <2>1
  <2>2. CASE b <= a /\ b <= d
    BY <2>2
  <2>3. CASE d <= a /\ d <= b
    BY <2>3
  <2> QED BY <2>1, <2>2, <2>3
<1> QED BY <1>1 DEF Min
-----------------------------------------------------------------------------
(* The tick of the cycle. *)

\* A packet in the network is in the packet pipeline or in a router FIFO.
LEMMA NetworkMembers ==
    \A p : p \in NetworkPackets <=>
            \/ \E e \in packet_pipeline : p = e.packet
            \/ \E c \in Cores : p \in ToSet(router_input_fifos[c]) \cup ToSet(router_output_fifos[c])
BY DEF NetworkPackets

\* Every pending tick is a natural number.
LEMMA PendingAreTicks == ASSUME StorageInv PROVE PendingTicks \subseteq Nat
<1>1. SourceTicks \subseteq Nat
  <2>1. source_events \in Seq({e \in Event : e.axon \in Axons(e.core)})
    BY DEF StorageInv, SourceInv
  <2>2. \A i \in 1 .. Len(source_events) : source_events[i] \in Event
    BY <2>1
  <2> QED BY <2>2 DEF SourceTicks, Event
<1>2. ASSUME NEW c \in Cores
      PROVE  /\ IngressTicks(c) \cup DelayedTicks(c) \subseteq Nat
             /\ \A p \in ToSet(router_input_fifos[c]) \cup ToSet(router_output_fifos[c]) :
                    p.timestamp \in Nat
  <2>1. IngressInv(c) /\ ContributionInv(c) /\ RouterInv(c)
    BY DEF StorageInv
  <2>2. \A e \in ToSet(external_ingress_fifo[c]) : e \in Event
    BY <2>1 DEF IngressInv, HeldEvent, ToSet
  <2>3. \A e \in ToSet(routed_ingress_fifo[c]) : e \in Packet
    BY <2>1 DEF IngressInv, HeldPacket, ToSet
  <2>4. \A p \in ToSet(router_input_fifos[c]) : p \in Packet
    BY <2>1 DEF RouterInv, RoutedPacket, ToSet
  <2>5. \A p \in ToSet(router_output_fifos[c]) : p \in Packet
    BY <2>1 DEF RouterInv, HeldPacket, ToSet
  <2>6. \A i \in delayed_contribution_fifo[c] : i.due_tick \in Nat
    BY <2>1 DEF ContributionInv, HeldContribution
  <2>7. IngressTicks(c) \subseteq Nat
    BY <2>2, <2>3 DEF IngressTicks, Event, Packet
  <2>8. DelayedTicks(c) \subseteq Nat
    BY <2>6 DEF DelayedTicks
  <2> QED BY <2>4, <2>5, <2>7, <2>8 DEF Packet
<1>3. \A p \in NetworkPackets : p.timestamp \in Nat
  <2>1. \A e \in packet_pipeline : e.packet \in Packet
    BY DEF StorageInv, PacketInv, RoutedPacket
  <2>2. \A e \in packet_pipeline : e.packet.timestamp \in Nat
    BY <2>1 DEF Packet
  <2> QED BY <2>2, <1>2, NetworkMembers
<1>4. UNION {IngressTicks(c) \cup DelayedTicks(c) : c \in Cores} \subseteq Nat
  BY <1>2
<1>5. {p.timestamp : p \in NetworkPackets} \subseteq Nat
  BY <1>3
<1> QED BY <1>1, <1>4, <1>5 DEF PendingTicks

\* A cycle runs in a tick.
LEMMA TickOfCycle == ASSUME StorageInv, HasWork PROVE CurrentTick \in Nat
<1>1. CASE tick_active
  BY <1>1 DEF CurrentTick, StorageInv, ControlInv
<1>2. CASE ~tick_active
  <2>1. NextPendingTick # NoTick /\ CurrentTick = NextPendingTick
    BY <1>2 DEF HasWork, CurrentTick
  <2>2. CASE ~explicit_ticks
    <3>1. NextPendingTick = NextWorkTick
      BY <2>2 DEF NextPendingTick
    <3>2. PendingTicks # {} /\ NextWorkTick = Min(PendingTicks)
      BY <3>1, <2>1 DEF NextWorkTick
    <3> QED BY <3>1, <3>2, <2>1, PendingAreTicks, MinOfNaturals
  <2>3. CASE explicit_ticks
    <3>1. explicit_tick_ids # <<>>
      BY <2>1, <2>3 DEF NextPendingTick
    <3>2. NextPendingTick = Head(explicit_tick_ids)
      BY <3>1, <2>3 DEF NextPendingTick
    <3>3. explicit_tick_ids \in Seq(Nat)
      BY DEF StorageInv, ControlInv
    <3> QED BY <3>1, <3>2, <3>3, <2>1
  <2> QED BY <2>2, <2>3
<1> QED BY <1>1, <1>2

-----------------------------------------------------------------------------
(* Ingress and source. *)

\* At most as many packets leave a router output as their ingress FIFO has room for.
LEMMA TransmittedFits ==
    ASSUME StorageInv, NEW d \in Cores
    PROVE  /\ Transmitted(d) \in 0 .. Len(router_output_fifos[d])
           /\ Transmitted(d) <= routed_ingress_fifo_depth - Len(routed_ingress_fifo[d])
<1>1. /\ router_output_fifos[d] \in Seq(HeldPacket(d))
      /\ routed_ingress_fifo[d] \in Seq(HeldPacket(d))
      /\ Len(routed_ingress_fifo[d]) <= routed_ingress_fifo_depth
  BY DEF StorageInv, IngressInv, RouterInv
<1> DEFINE r == router_packets_transmitted_per_cycle_per_destination
           n == Len(router_output_fifos[d])
           room == routed_ingress_fifo_depth - Len(routed_ingress_fifo[d])
<1>2. r \in Nat /\ routed_ingress_fifo_depth \in Nat
  BY Positive DEF Rates, Depths
<1>3. n \in Nat /\ room \in Nat
  BY <1>1, <1>2
<1>4. Transmitted(d) = Min({r, n, room})
  BY DEF Transmitted
<1> HIDE DEF r, n, room
<1>5. Transmitted(d) \in {r, n, room} /\ Transmitted(d) <= n /\ Transmitted(d) <= room
  BY <1>2, <1>3, <1>4, LeastOfThree
<1>6. Transmitted(d) \in 0 .. n /\ Transmitted(d) <= room
  BY <1>2, <1>3, <1>5
<1> QED BY <1>6 DEF n, room

\* One of the FIFOs that request the lookup wins.
LEMMA IngressWinner ==
    ASSUME StorageInv, NEW c \in Cores, IngressRequests(c) # {}
    PROVE  /\ \E k \in {0, 1} : IngressWins(c, k)
           /\ Len(axon_lookup_pipeline[c]) < synapse_work_fifo_depth
           /\ InWork
           /\ \A k \in {0, 1} : IngressWins(c, k) =>
                /\ IngressFifo(c, k) # <<>>
                /\ HeadDue(IngressFifo(c, k), CurrentTick)
                /\ Head(IngressFifo(c, k)).axon \in Axons(c)
                /\ Head(IngressFifo(c, k)).event_id \in Nat
<1>1. /\ InWork /\ Len(axon_lookup_pipeline[c]) < synapse_work_fifo_depth
      /\ IngressRequests(c) = {k \in {0, 1} : HeadDue(IngressFifo(c, k), CurrentTick)}
  <2>1. axon_lookup_pipeline[c] \in Seq(HeldLookup(c)) /\ synapse_work_fifo_depth \in Nat
    BY Positive DEF StorageInv, LookupInv, Depths
  <2>2. Len(axon_lookup_pipeline[c]) \in Nat
    BY <2>1
  <2> QED BY <2>1, <2>2 DEF IngressRequests
<1>2. ASSUME NEW k \in {0, 1}, HeadDue(IngressFifo(c, k), CurrentTick)
      PROVE  /\ IngressFifo(c, k) # <<>>
             /\ Head(IngressFifo(c, k)).axon \in Axons(c)
             /\ Head(IngressFifo(c, k)).event_id \in Nat
             /\ Head(IngressFifo(c, k)).priority \in Nat
  <2>1. IngressFifo(c, k) # <<>>
    BY <1>2 DEF HeadDue
  <2>2. IngressFifo(c, k) \in Seq(HeldEvent(c)) \/ IngressFifo(c, k) \in Seq(HeldPacket(c))
    BY DEF IngressFifo, StorageInv, IngressInv
  <2>3. Head(IngressFifo(c, k)) \in HeldEvent(c) \cup HeldPacket(c)
    BY <2>1, <2>2
  <2> QED BY <2>1, <2>3 DEF HeldEvent, HeldPacket, Event, Packet
<1>3. \E k \in {0, 1} : IngressWins(c, k)
  <2> DEFINE p(k) == Head(IngressFifo(c, k)).priority
             R == IngressRequests(c)
  <2>1. \A k \in {0, 1} : k \in R => p(k) \in Nat
    BY <1>1, <1>2
  <2>2. ingress_round_robin_pointer[c] \in {0, 1}
    BY DEF StorageInv, IngressInv
  <2>3. \A k \in {0, 1} : IngressWins(c, k) <=>
            k \in R /\ \A o \in R \ {k} :
                p(k) > p(o) \/ (p(k) = p(o) /\ ingress_round_robin_pointer[c] = k)
    BY DEF IngressWins
  <2>4. R \subseteq {0, 1} /\ R # {}
    BY <1>1
  <2> HIDE DEF p, R
  <2>5. CASE R = {0}
    BY <2>3, <2>5
  <2>6. CASE R = {1}
    BY <2>3, <2>6
  <2>7. CASE R = {0, 1}
    <3>1. p(0) \in Nat /\ p(1) \in Nat
      BY <2>1, <2>7
    <3>2. R \ {0} = {1} /\ R \ {1} = {0}
      BY <2>7
    <3>3. /\ IngressWins(c, 0) <=> p(0) > p(1) \/ (p(0) = p(1) /\ ingress_round_robin_pointer[c] = 0)
          /\ IngressWins(c, 1) <=> p(1) > p(0) \/ (p(1) = p(0) /\ ingress_round_robin_pointer[c] = 1)
      BY <2>3, <2>7, <3>2
    <3> QED BY <2>2, <3>1, <3>3
  <2> QED BY <2>4, <2>5, <2>6, <2>7
<1> QED BY <1>1, <1>2, <1>3 DEF IngressWins

\* What the arbiter leaves of an ingress FIFO.
LEMMA AfterIngressHolds ==
    ASSUME StorageInv, NEW c \in Cores, NEW k \in {0, 1},
           NEW S, IngressFifo(c, k) \in Seq(S)
    PROVE  /\ AfterIngress(c, k) \in Seq(S)
           /\ Len(AfterIngress(c, k)) <= Len(IngressFifo(c, k))
           /\ ToSet(AfterIngress(c, k)) \subseteq ToSet(IngressFifo(c, k))
<1>1. CASE IngressWins(c, k)
  <2>1. IngressFifo(c, k) # <<>>
    BY <1>1 DEF IngressWins, IngressRequests, HeadDue
  <2> QED BY <1>1, <2>1, TailHolds DEF AfterIngress
<1>2. CASE ~IngressWins(c, k)
  BY <1>2 DEF AfterIngress
<1> QED BY <1>1, <1>2
\* The source sends a core no more events than its FIFO has room for.
LEMMA SourcedFits ==
    ASSUME StorageInv, NEW c \in Cores
    PROVE  /\ SourceCount \in 0 .. Len(source_events) - source_index
           /\ SourceCount > 0 => InWork
           /\ \A j \in 1 .. SourceCount : source_events[source_index + j].timestamp = CurrentTick
           /\ SourcedTo(c) \in Seq(HeldEvent(c))
           /\ Len(SourcedTo(c)) <= external_ingress_fifo_depth - Len(external_ingress_fifo[c])
           /\ ToSet(SourcedTo(c)) \subseteq
                {source_events[i] : i \in source_index + 1 .. source_index + SourceCount}
<1> DEFINE C == {e \in Event : e.axon \in Axons(e.core)}
           I == {i \in source_index + 1 .. source_index + SourceCount : source_events[i].core = c}
           room == external_ingress_fifo_depth - Len(external_ingress_fifo[c])
           K == {k \in 0 .. ingress_events_accepted_per_cycle : SourceAdmissible(k)}
<1>1. source_events \in Seq(C) /\ source_index \in 0 .. Len(source_events)
  BY DEF StorageInv, SourceInv
<1>2. room \in Nat
  <2>1. external_ingress_fifo[c] \in Seq(HeldEvent(c))
        /\ Len(external_ingress_fifo[c]) <= external_ingress_fifo_depth
    BY DEF StorageInv, IngressInv
  <2>2. external_ingress_fifo_depth \in Nat
    BY Positive DEF Depths
  <2> QED BY <2>1, <2>2
<1>3. SourceCount \in Nat /\ SourceAdmissible(SourceCount)
  <2>1. ingress_events_accepted_per_cycle \in Nat
    BY Positive DEF Rates
  <2>2. SourceAdmissible(0)
    BY DEF SourceAdmissible
  <2>3. 0 \in K /\ K \subseteq 0 .. ingress_events_accepted_per_cycle
    BY <2>1, <2>2
  <2> HIDE DEF K
  <2>4. Max(K) \in K
    BY <2>1, <2>3, MaxOfNaturals
  <2>5. SourceCount = IF ~InWork THEN 0 ELSE Max(K)
    BY DEF SourceCount, K
  <2>6. CASE InWork
    BY <2>1, <2>4, <2>5, <2>6 DEF K
  <2>7. CASE ~InWork
    BY <2>2, <2>5, <2>7
  <2> QED BY <2>6, <2>7
<1>4. \A j \in 1 .. SourceCount :
        /\ source_index + j <= Len(source_events)
        /\ source_events[source_index + j].timestamp = CurrentTick
        /\ Len(external_ingress_fifo[source_events[source_index + j].core])
             + Cardinality({i \in 1 .. j - 1 : source_events[source_index + i].core
                                                 = source_events[source_index + j].core})
             < external_ingress_fifo_depth
  BY <1>3 DEF SourceAdmissible
<1>5. SourceCount \in 0 .. Len(source_events) - source_index
  <2>1. CASE SourceCount = 0
    BY <2>1, <1>1
  <2>2. CASE SourceCount > 0
    <3>1. source_index + SourceCount <= Len(source_events)
      <4>1. SourceCount \in 1 .. SourceCount
        BY <2>2, <1>3
      <4> QED BY <4>1, <1>4
    <3> QED BY <3>1, <1>1, <1>3
  <2> QED BY <2>1, <2>2, <1>3
<1>6. SourceCount > 0 => InWork
  BY DEF SourceCount
<1>7. I \subseteq 1 .. Len(source_events)
  BY <1>1, <1>5
<1> HIDE DEF C
<1>8. /\ IsFiniteSet(I)
      /\ SourcedTo(c) \in Seq(C) /\ Len(SourcedTo(c)) = Cardinality(I)
      /\ ToSet(SourcedTo(c)) \subseteq {source_events[i] : i \in I}
  BY <1>1, <1>7, PickedHolds DEF SourcedTo
<1>9. \A i \in I : source_events[i] \in HeldEvent(c)
  BY <1>1, <1>7 DEF C, HeldEvent
<1>10. SourcedTo(c) \in Seq(HeldEvent(c))
  <2>1. ToSet(SourcedTo(c)) \subseteq HeldEvent(c)
    BY <1>8, <1>9
  <2> QED BY <2>1, <1>8, HeldIn
<1>11. Cardinality(I) <= room
  <2> DEFINE b == LowerIn(I)
  <2>1. IsOrder(I, b)
    <3>1. I \subseteq Int
      BY <1>7
    <3> QED BY <3>1, IndicesOrdered
  <2>2. ASSUME NEW i \in I
        PROVE  Cardinality(b[i]) < room
    <3> DEFINE j == i - source_index
               E == {k \in 1 .. j - 1 : source_events[source_index + k].core = c}
               shift == [k \in 1 .. j - 1 |-> source_index + k]
    <3>1. j \in 1 .. SourceCount /\ source_index + j = i
      BY <1>1, <1>5
    <3>2. Cardinality(E) < room
      <4>1. Len(external_ingress_fifo[c]) + Cardinality(E) < external_ingress_fifo_depth
        BY <3>1, <1>4
      <4>2. IsFiniteSet(1 .. j - 1) /\ E \subseteq 1 .. j - 1
        BY <3>1, FS_Interval
      <4>3. Cardinality(E) \in Nat
        BY <4>2, FS_Subset, FS_CardinalityType
      <4>4. Len(external_ingress_fifo[c]) \in Nat /\ external_ingress_fifo_depth \in Nat
        BY Positive DEF StorageInv, IngressInv, Depths
      <4> QED BY <4>1, <4>3, <4>4
    <3>3. b[i] = {k \in I : k < i}
      BY DEF LowerIn
    <3>4. \A x \in b[i] : \E k \in E : x = shift[k]
      <4> SUFFICES ASSUME NEW x \in b[i] PROVE \E k \in E : x = shift[k]
        OBVIOUS
      <4>1. x \in source_index + 1 .. source_index + SourceCount /\ x < i
            /\ source_events[x].core = c
        BY <3>3
      <4>2. x - source_index \in 1 .. j - 1 /\ source_index + (x - source_index) = x
        BY <4>1, <3>1, <1>1, <1>5
      <4> QED BY <4>1, <4>2
    <3>5. IsFiniteSet(E)
      <4>1. IsFiniteSet(1 .. j - 1) /\ E \subseteq 1 .. j - 1
        BY <3>1, FS_Interval
      <4> QED BY <4>1, FS_Subset
    <3> HIDE DEF E, shift, b
    <3>6. IsFiniteSet(b[i]) /\ Cardinality(b[i]) <= Cardinality(E)
      BY <3>4, <3>5, ImageBound
    <3> QED BY <3>2, <3>5, <3>6, <1>2, FS_CardinalityType
  <2> HIDE DEF I, b, room
  <2> QED BY <2>1, <2>2, <1>2, <1>8, RankBound
<1>12. ToSet(SourcedTo(c)) \subseteq
         {source_events[i] : i \in source_index + 1 .. source_index + SourceCount}
  BY <1>8
<1> QED BY <1>4, <1>5, <1>6, <1>8, <1>10, <1>11, <1>12

\* The ingress FIFOs after the cycle.
LEMMA IngressKept ==
    ASSUME StorageInv, NEW g, MoveNetwork(g), MoveEvents, NEW c \in Cores
    PROVE  IngressInv(c)'
<1>1. /\ external_ingress_fifo[c] \in Seq(HeldEvent(c))
      /\ Len(external_ingress_fifo[c]) <= external_ingress_fifo_depth
      /\ routed_ingress_fifo[c] \in Seq(HeldPacket(c))
      /\ Len(routed_ingress_fifo[c]) <= routed_ingress_fifo_depth
      /\ ingress_round_robin_pointer[c] \in {0, 1}
      /\ router_output_fifos[c] \in Seq(HeldPacket(c))
  BY DEF StorageInv, IngressInv, RouterInv
<1>2. external_ingress_fifo_depth \in Nat /\ routed_ingress_fifo_depth \in Nat
  BY Positive DEF Depths
<1>3. /\ AfterIngress(c, 0) \in Seq(HeldEvent(c))
      /\ Len(AfterIngress(c, 0)) <= Len(external_ingress_fifo[c])
  BY <1>1, AfterIngressHolds DEF IngressFifo
<1>4. /\ AfterIngress(c, 1) \in Seq(HeldPacket(c))
      /\ Len(AfterIngress(c, 1)) <= Len(routed_ingress_fifo[c])
  BY <1>1, AfterIngressHolds DEF IngressFifo
<1>5. /\ external_ingress_fifo'[c] \in Seq(HeldEvent(c))
      /\ Len(external_ingress_fifo'[c]) <= external_ingress_fifo_depth
  <2>1. external_ingress_fifo'[c] = AfterIngress(c, 0) \o SourcedTo(c)
    BY DEF MoveEvents
  <2>2. /\ SourcedTo(c) \in Seq(HeldEvent(c))
        /\ Len(SourcedTo(c)) <= external_ingress_fifo_depth - Len(external_ingress_fifo[c])
    BY SourcedFits
  <2> QED BY <2>1, <2>2, <1>1, <1>2, <1>3, ConcatHolds
<1>6. /\ routed_ingress_fifo'[c] \in Seq(HeldPacket(c))
      /\ Len(routed_ingress_fifo'[c]) <= routed_ingress_fifo_depth
  <2> DEFINE arrived == SubSeq(router_output_fifos[c], 1, Transmitted(c))
  <2>1. routed_ingress_fifo'[c] = AfterIngress(c, 1) \o arrived
    BY DEF MoveEvents
  <2>2. /\ Transmitted(c) \in 0 .. Len(router_output_fifos[c])
        /\ Transmitted(c) <= routed_ingress_fifo_depth - Len(routed_ingress_fifo[c])
    BY TransmittedFits
  <2>3. arrived \in Seq(HeldPacket(c)) /\ Len(arrived) = Transmitted(c)
    BY <2>2, <1>1, FrontHolds
  <2> HIDE DEF arrived
  <2> QED BY <2>1, <2>2, <2>3, <1>1, <1>2, <1>4, ConcatHolds
<1>7. ingress_round_robin_pointer'[c] \in {0, 1}
  BY <1>1 DEF MoveEvents
<1> QED BY <1>5, <1>6, <1>7 DEF IngressInv, HeldEvent, HeldPacket, Event, Packet
-----------------------------------------------------------------------------
(* Lookup and synapses. *)

\* Waiting takes one off the wait and keeps an entry of a pipeline what it is.
LEMMA WaitedTypes ==
    ASSUME NEW c \in Cores
    PROVE  /\ \A e \in HeldLookup(c) : Waited(e) \in HeldLookup(c)
           /\ \A e \in PipedContribution(c) :
                Waited(e) \in PipedContribution(c) /\ Bare(Waited(e)) = Bare(e)
           /\ \A e \in NeuronWork(c) : Waited(e) \in NeuronWork(c)
<1>1. ASSUME NEW e, e.wait \in Nat
      PROVE  (IF e.wait > 0 THEN e.wait - 1 ELSE 0) \in 0 .. e.wait
  BY <1>1
<1>2. axon_lookup_latency \in Nat /\ contribution_latency \in Nat /\ neuron_latency \in Nat
  BY Positive DEF Latencies
<1>3. \A e \in HeldLookup(c) : Waited(e) \in HeldLookup(c)
  BY <1>2 DEF HeldLookup, AxonLookup, Waited
<1>4. \A e \in PipedContribution(c) :
        Waited(e) \in PipedContribution(c) /\ Bare(Waited(e)) = Bare(e)
  BY <1>2 DEF PipedContribution, Waited, Bare
<1>5. \A e \in NeuronWork(c) : Waited(e) \in NeuronWork(c)
  BY <1>2 DEF NeuronWork, Waited
<1> QED BY <1>3, <1>4, <1>5

\* The lookup at the head reads the row of an axon of its core.
LEMMA LookedUpFits ==
    ASSUME StorageInv, NEW c \in Cores
    PROVE  /\ LookedUp(c) \in Seq(HeldWork(c))
           /\ Len(LookedUp(c)) <= 1
           /\ ~LookupDone(c) => LookedUp(c) = <<>>
<1> DEFINE e == Head(axon_lookup_pipeline[c])
           w == [event_id |-> e.event_id, axon |-> e.axon, next |-> 1]
<1>1. CASE LookupDone(c) /\ Fanout[c][e.axon] # <<>>
  <2>1. axon_lookup_pipeline[c] \in Seq(HeldLookup(c)) /\ axon_lookup_pipeline[c] # <<>>
    BY <1>1 DEF LookupDone, StorageInv, LookupInv
  <2>2. e \in HeldLookup(c)
    BY <2>1
  <2>3. e.axon \in Axons(c) /\ e.event_id \in Nat /\ e.axon \in Nat
    BY <2>2 DEF HeldLookup, AxonLookup
  <2>4. Fanout[c][e.axon] \in Seq(Synapse(c))
    BY <2>3, ProgramAssumption
  <2>5. Len(Fanout[c][e.axon]) \in Nat /\ Len(Fanout[c][e.axon]) >= 1
    BY <2>4, <1>1
  <2>6. w \in HeldWork(c)
    BY <2>3, <2>5 DEF HeldWork, SynapseWork
  <2>7. LookedUp(c) = <<w>>
    BY <1>1 DEF LookedUp
  <2> HIDE DEF w
  <2> QED BY <2>6, <2>7, <1>1
<1>2. CASE ~(LookupDone(c) /\ Fanout[c][e.axon] # <<>>)
  <2>1. LookedUp(c) = <<>>
    BY <1>2 DEF LookedUp
  <2> QED BY <2>1
<1> QED BY <1>1, <1>2

\* The synapses issued in a cycle are in the row of the work entry, and there is room for
\* their contributions.
LEMMA IssueFits ==
    ASSUME StorageInv, NEW c \in Cores
    PROVE  /\ IssueCount(c) \in Nat
           /\ IssueCount(c) <= synapse_work_fifo_depth - Len(contribution_pipeline[c])
           /\ IssueCount(c) > 0 =>
                /\ InWork /\ synapse_work_fifo[c] # <<>>
                /\ Head(synapse_work_fifo[c]) \in HeldWork(c)
                /\ Head(synapse_work_fifo[c]).next + IssueCount(c) - 1
                     <= Len(Fanout[c][Head(synapse_work_fifo[c]).axon])
                /\ Fanout[c][Head(synapse_work_fifo[c]).axon] \in Seq(Synapse(c))
<1> DEFINE w == Head(synapse_work_fifo[c])
           n == Len(Fanout[c][w.axon])
           room == synapse_work_fifo_depth - Len(contribution_pipeline[c])
           left == n - w.next + 1
<1>1. room \in Nat
  <2>1. /\ contribution_pipeline[c] \in Seq(PipedContribution(c))
        /\ Len(contribution_pipeline[c]) <= synapse_work_fifo_depth
    BY DEF StorageInv, ContributionInv
  <2>2. synapse_work_fifo_depth \in Nat
    BY Positive DEF Depths
  <2> QED BY <2>1, <2>2
<1>2. CASE ~InWork \/ synapse_work_fifo[c] = <<>>
  <2>1. IssueCount(c) = 0
    BY <1>2 DEF IssueCount
  <2> QED BY <2>1, <1>1
<1>3. CASE InWork /\ synapse_work_fifo[c] # <<>>
  <2>1. w \in HeldWork(c)
    BY <1>3 DEF StorageInv, LookupInv
  <2>2. w.axon \in Axons(c) /\ w.next \in Nat /\ w.next >= 1 /\ w.next <= n
    BY <2>1 DEF HeldWork, SynapseWork
  <2>3. Fanout[c][w.axon] \in Seq(Synapse(c))
    BY <2>2, ProgramAssumption
  <2>4. n \in Nat
    BY <2>3
  <2>5. left \in Nat /\ synapse_lanes \in Nat
    BY <2>2, <2>4, Positive DEF Rates
  <2>6. IssueCount(c) = Min({synapse_lanes, room, left})
    BY <1>3 DEF IssueCount
  <2> HIDE DEF room, left, n
  <2>7. IssueCount(c) \in {synapse_lanes, room, left}
        /\ IssueCount(c) <= room /\ IssueCount(c) <= left
    BY <2>5, <2>6, <1>1, LeastOfThree
  <2>8. IssueCount(c) \in Nat
    BY <2>5, <2>7, <1>1
  <2>9. w.next + IssueCount(c) - 1 <= n
    BY <2>2, <2>4, <2>7, <2>8 DEF left
  <2> QED BY <1>3, <2>1, <2>3, <2>7, <2>8, <2>9 DEF room, n
<1> QED BY <1>2, <1>3

\* The pipelines of the lookup and of the synapses after the cycle.
LEMMA LookupKept ==
    ASSUME StorageInv, MoveEvents, NEW c \in Cores
    PROVE  LookupInv(c)'
<1>1. /\ axon_lookup_pipeline[c] \in Seq(HeldLookup(c))
      /\ Len(axon_lookup_pipeline[c]) <= synapse_work_fifo_depth
      /\ synapse_work_fifo[c] \in Seq(HeldWork(c))
      /\ Len(synapse_work_fifo[c]) <= synapse_work_fifo_depth
  BY DEF StorageInv, LookupInv
<1>2. synapse_work_fifo_depth \in Nat /\ axon_lookup_latency \in Nat
  BY Positive DEF Depths, Latencies
<1>3. /\ axon_lookup_pipeline'[c] \in Seq(HeldLookup(c))
      /\ Len(axon_lookup_pipeline'[c]) <= synapse_work_fifo_depth
  <2> DEFINE kept == IF LookupDone(c) THEN Tail(axon_lookup_pipeline[c])
                                      ELSE axon_lookup_pipeline[c]
             next == kept \o LookupStarted(c)
  <2>1. kept \in Seq(HeldLookup(c)) /\ Len(kept) <= Len(axon_lookup_pipeline[c])
    <3>1. CASE LookupDone(c)
      BY <3>1, <1>1, TailHolds DEF LookupDone
    <3>2. CASE ~LookupDone(c)
      BY <3>2, <1>1
    <3> QED BY <3>1, <3>2
  <2>2. /\ LookupStarted(c) \in Seq(HeldLookup(c)) /\ Len(LookupStarted(c)) <= 1
        /\ Len(axon_lookup_pipeline[c]) < synapse_work_fifo_depth \/ LookupStarted(c) = <<>>
    <3>1. CASE IngressRequests(c) = {}
      BY <3>1 DEF LookupStarted
    <3>2. CASE IngressRequests(c) # {}
      <4> DEFINE k == CHOOSE k \in {0, 1} : IngressWins(c, k)
                 e == Head(IngressFifo(c, k))
                 l == [event_id |-> e.event_id, axon |-> e.axon, wait |-> axon_lookup_latency]
      <4>1. k \in {0, 1} /\ IngressWins(c, k)
        BY <3>2, IngressWinner
      <4> HIDE DEF k
      <4>2. /\ e.axon \in Axons(c) /\ e.event_id \in Nat
            /\ Len(axon_lookup_pipeline[c]) < synapse_work_fifo_depth
        BY <4>1, <3>2, IngressWinner
      <4>3. e.axon \in Nat
        BY <4>2, ProgramAssumption
      <4>4. l \in HeldLookup(c)
        BY <4>2, <4>3, <1>2 DEF HeldLookup, AxonLookup
      <4>5. LookupStarted(c) = <<l>>
        BY <3>2 DEF LookupStarted, k
      <4> HIDE DEF l
      <4> QED BY <4>2, <4>4, <4>5
    <3> QED BY <3>1, <3>2
  <2>3. /\ axon_lookup_pipeline'[c] = [k \in 1 .. Len(next) |-> Waited(next[k])]
    BY DEF MoveEvents
  <2> HIDE DEF kept
  <2>4. /\ next \in Seq(HeldLookup(c)) /\ Len(next) = Len(kept) + Len(LookupStarted(c))
    BY <2>1, <2>2, ConcatHolds
  <2>5. Len(next) <= synapse_work_fifo_depth /\ Len(next) \in Nat
    <3>1. Len(kept) \in Nat /\ Len(LookupStarted(c)) \in Nat /\ Len(axon_lookup_pipeline[c]) \in Nat
      BY <2>1, <2>2, <1>1
    <3>2. LookupStarted(c) = <<>> => Len(LookupStarted(c)) = 0
      OBVIOUS
    <3> QED BY <3>1, <3>2, <2>1, <2>2, <2>4, <1>1, <1>2
  <2>6. \A k \in 1 .. Len(next) : Waited(next[k]) \in HeldLookup(c)
    BY <2>4, WaitedTypes
  <2> HIDE DEF next
  <2>7. axon_lookup_pipeline'[c] \in [1 .. Len(next) -> HeldLookup(c)]
    BY <2>3, <2>6
  <2> QED BY <2>5, <2>7, FunctionIsSequence
<1>4. /\ synapse_work_fifo'[c] \in Seq(HeldWork(c))
      /\ Len(synapse_work_fifo'[c]) <= synapse_work_fifo_depth
  <2>1. synapse_work_fifo'[c] = SynapseWorkLeft(c) \o LookedUp(c)
    BY DEF MoveEvents
  <2>2. SynapseWorkLeft(c) \in Seq(HeldWork(c))
        /\ Len(SynapseWorkLeft(c)) <= Len(synapse_work_fifo[c])
    <3> DEFINE w == Head(synapse_work_fifo[c])
               rest == [w EXCEPT !.next = @ + IssueCount(c)]
    <3>1. CASE IssueCount(c) = 0
      BY <3>1, <1>1 DEF SynapseWorkLeft
    <3>2. CASE IssueCount(c) # 0 /\ w.next + IssueCount(c) <= Len(Fanout[c][w.axon])
      <4>1. w \in HeldWork(c) /\ IssueCount(c) \in Nat /\ synapse_work_fifo[c] # <<>>
        BY <3>2, IssueFits
      <4>2. rest \in HeldWork(c)
        BY <3>2, <4>1 DEF HeldWork, SynapseWork
      <4>3. SynapseWorkLeft(c) = <<rest>> \o Tail(synapse_work_fifo[c])
        BY <3>2 DEF SynapseWorkLeft
      <4> HIDE DEF rest
      <4>4. <<rest>> \in Seq(HeldWork(c)) /\ Len(<<rest>>) = 1
        BY <4>2
      <4>5. Tail(synapse_work_fifo[c]) \in Seq(HeldWork(c))
            /\ Len(Tail(synapse_work_fifo[c])) = Len(synapse_work_fifo[c]) - 1
        BY <4>1, <1>1, TailHolds
      <4>6. Len(synapse_work_fifo[c]) \in Nat
        BY <1>1
      <4> QED BY <4>3, <4>4, <4>5, <4>6, ConcatHolds
    <3>3. CASE IssueCount(c) # 0 /\ ~(w.next + IssueCount(c) <= Len(Fanout[c][w.axon]))
      <4>1. synapse_work_fifo[c] # <<>> /\ IssueCount(c) \in Nat
        BY <3>3, IssueFits
      <4>2. SynapseWorkLeft(c) = Tail(synapse_work_fifo[c])
        BY <3>3 DEF SynapseWorkLeft
      <4> QED BY <4>1, <4>2, <1>1, TailHolds
    <3> QED BY <3>1, <3>2, <3>3
  <2>3. /\ LookedUp(c) \in Seq(HeldWork(c)) /\ Len(LookedUp(c)) <= 1
        /\ ~LookupDone(c) => LookedUp(c) = <<>>
    BY LookedUpFits
  <2>4. LookupDone(c) => Len(synapse_work_fifo[c]) < synapse_work_fifo_depth
    BY DEF LookupDone
  <2>5. LookedUp(c) = <<>> => Len(LookedUp(c)) = 0
    OBVIOUS
  <2>6. /\ Len(SynapseWorkLeft(c)) \in Nat /\ Len(LookedUp(c)) \in Nat
        /\ Len(synapse_work_fifo[c]) \in Nat
    BY <2>2, <2>3, <1>1
  <2> QED BY <2>1, <2>2, <2>3, <2>4, <2>5, <2>6, <1>1, <1>2, ConcatHolds
<1> QED BY <1>3, <1>4 DEF LookupInv, HeldLookup, HeldWork, AxonLookup, SynapseWork
-----------------------------------------------------------------------------
(* Contributions. *)

\* What is written to the accumulators are contributions to neurons of the core, due in
\* the tick, from the pipeline or from the delayed FIFO.
LEMMA WritesHold ==
    ASSUME StorageInv, NEW c \in Cores
    PROVE  /\ Contributions(c) \subseteq HeldContribution(c)
           /\ AccumulatorWrites(c) \subseteq DueContributions(c)
           /\ AccumulatorWrites(c) \subseteq HeldContribution(c)
           /\ \A i \in AccumulatorWrites(c) : i.due_tick = CurrentTick
<1>1. Contributions(c) \subseteq HeldContribution(c)
  <2>1. \A i \in ToSet(contribution_pipeline[c]) : i \in PipedContribution(c)
    BY DEF StorageInv, ContributionInv, ToSet
  <2>2. \A i \in PipedContribution(c) : Bare(i) \in HeldContribution(c)
    BY DEF PipedContribution, HeldContribution, Bare
  <2> QED BY <2>1, <2>2 DEF Contributions
<1>2. AccumulatorWrites(c) \subseteq DueContributions(c)
  BY DEF AccumulatorWrites, FirstOf, ConflictWinners
<1>3. DueContributions(c) \subseteq HeldContribution(c)
  BY <1>1 DEF DueContributions, StorageInv, ContributionInv
<1> QED BY <1>1, <1>2, <1>3 DEF DueContributions

\* The contributions of a later tick that leave the pipeline are as many as the delayed
\* FIFO has room for once the writes of the cycle have left it.
LEMMA DeferredFits ==
    ASSUME StorageInv, NEW c \in Cores
    PROVE  /\ IsFiniteSet(Deferred(c)) /\ Deferred(c) \subseteq Contributions(c)
           /\ IsFiniteSet(delayed_contribution_fifo[c] \ AccumulatorWrites(c))
           /\ DelayedRoom(c) \in Nat
           /\ Cardinality(Deferred(c)) <= DelayedRoom(c)
           /\ \A i \in Deferred(c) : i.due_tick > CurrentTick
<1> DEFINE kept == delayed_contribution_fifo[c] \ AccumulatorWrites(c)
           I == {k \in 1 .. Len(contribution_pipeline[c]) :
                    /\ IsReady(contribution_pipeline[c][k])
                    /\ contribution_pipeline[c][k].due_tick > CurrentTick}
           n == Min({Len(ReadyFuture(c)), DelayedRoom(c)})
           f == [k \in 1 .. n |-> Bare(ReadyFuture(c)[k])]
<1>1. IsFiniteSet(kept) /\ DelayedRoom(c) \in Nat
  <2>1. /\ IsFiniteSet(delayed_contribution_fifo[c])
        /\ Cardinality(delayed_contribution_fifo[c]) <= delayed_contribution_fifo_depth
    BY DEF StorageInv, ContributionInv
  <2>2. IsFiniteSet(kept) /\ Cardinality(kept) <= Cardinality(delayed_contribution_fifo[c])
    BY <2>1, FS_Subset
  <2>3. Cardinality(kept) \in Nat /\ Cardinality(delayed_contribution_fifo[c]) \in Nat
    BY <2>1, <2>2, FS_CardinalityType
  <2>4. delayed_contribution_fifo_depth \in Nat
    BY Positive DEF Depths
  <2> QED BY <2>1, <2>2, <2>3, <2>4 DEF DelayedRoom
<1>2. contribution_pipeline[c] \in Seq(PipedContribution(c))
  BY DEF StorageInv, ContributionInv
<1>3. /\ ReadyFuture(c) \in Seq(PipedContribution(c))
      /\ ToSet(ReadyFuture(c)) \subseteq {contribution_pipeline[c][k] : k \in I}
  BY <1>2, PickedHolds DEF ReadyFuture
<1>4. n \in Nat /\ n <= Len(ReadyFuture(c)) /\ n <= DelayedRoom(c)
  <2> DEFINE a == Len(ReadyFuture(c))
             b == DelayedRoom(c)
  <2>1. a \in Nat /\ b \in Nat
    BY <1>1, <1>3
  <2> HIDE DEF a, b
  <2>2. Min({a, b}) \in {a, b} /\ Min({a, b}) <= a /\ Min({a, b}) <= b
    BY <2>1, LeastOfTwo
  <2>3. n = Min({a, b})
    BY DEF a, b
  <2>4. n \in Nat /\ n <= a /\ n <= b
    BY <2>1, <2>2, <2>3
  <2> QED BY <2>4 DEF a, b
<1> HIDE DEF n
<1>5. ASSUME NEW k \in 1 .. n
      PROVE  /\ Bare(ReadyFuture(c)[k]) \in Contributions(c)
             /\ Bare(ReadyFuture(c)[k]).due_tick > CurrentTick
  <2>1. ReadyFuture(c)[k] \in ToSet(ReadyFuture(c))
    BY <1>3, <1>4 DEF ToSet
  <2>2. PICK j \in I : ReadyFuture(c)[k] = contribution_pipeline[c][j]
    BY <2>1, <1>3
  <2>3. contribution_pipeline[c][j] \in ToSet(contribution_pipeline[c])
    BY <1>2 DEF ToSet
  <2> QED BY <2>2, <2>3 DEF Contributions, Bare
<1>6. CASE InWork
  <2>1. Deferred(c) = {Bare(ReadyFuture(c)[k]) : k \in 1 .. n}
    BY <1>6 DEF Deferred, n
  <2>2. \A y \in Deferred(c) : \E k \in 1 .. n : y = f[k]
    BY <2>1
  <2>3. IsFiniteSet(1 .. n) /\ Cardinality(1 .. n) = n
    BY <1>4, FS_Interval
  <2> HIDE DEF f
  <2>4. IsFiniteSet(Deferred(c)) /\ Cardinality(Deferred(c)) <= n
    BY <2>2, <2>3, ImageBound
  <2>5. Cardinality(Deferred(c)) \in Nat
    BY <2>4, FS_CardinalityType
  <2> QED BY <2>1, <2>4, <2>5, <1>1, <1>4, <1>5
<1>7. CASE ~InWork
  <2>1. Deferred(c) = {}
    BY <1>7 DEF Deferred
  <2> QED BY <2>1, <1>1, FS_EmptySet
<1> QED BY <1>6, <1>7

\* The contributions that are issued.
LEMMA IssuedHold ==
    ASSUME StorageInv, CurrentTick \in Nat, NEW c \in Cores
    PROVE  /\ IssuedContributions(c) \in Seq(PipedContribution(c))
           /\ Len(IssuedContributions(c)) = IssueCount(c)
           /\ \A k \in 1 .. IssueCount(c) : IssuedContributions(c)[k].due_tick >= CurrentTick
<1> DEFINE w == Head(synapse_work_fifo[c])
           entry(k) == [event_id |-> w.event_id, synapse |-> w.next + k - 1,
                        target |-> Fanout[c][w.axon][w.next + k - 1].target,
                        weight |-> Fanout[c][w.axon][w.next + k - 1].weight,
                        due_tick |-> CurrentTick + Fanout[c][w.axon][w.next + k - 1].delay,
                        wait |-> contribution_latency]
<1>1. IssueCount(c) \in Nat
  BY IssueFits
<1>2. ASSUME NEW k \in 1 .. IssueCount(c)
      PROVE  entry(k) \in PipedContribution(c) /\ entry(k).due_tick >= CurrentTick
  <2>1. IssueCount(c) > 0
    BY <1>1
  <2>2. /\ w \in HeldWork(c)
        /\ w.next + IssueCount(c) - 1 <= Len(Fanout[c][w.axon])
        /\ Fanout[c][w.axon] \in Seq(Synapse(c))
    BY <2>1, IssueFits
  <2>3. w.next \in Nat /\ w.next >= 1 /\ w.event_id \in Nat
    BY <2>2 DEF HeldWork, SynapseWork
  <2> DEFINE i == w.next + k - 1
             s == Fanout[c][w.axon][i]
  <2>4. i \in 1 .. Len(Fanout[c][w.axon])
    <3> DEFINE n == Len(Fanout[c][w.axon])
               m == IssueCount(c)
               x == w.next
    <3>1. n \in Nat /\ x + m - 1 <= n
      <4> DEFINE row == Fanout[c][w.axon]
      <4>1. row \in Seq(Synapse(c)) /\ x + m - 1 <= Len(row)
        BY <2>2
      <4> HIDE DEF row, x, m, w
      <4>2. Len(row) \in Nat
        BY <4>1
      <4> QED BY <4>1, <4>2 DEF row
    <3>2. m \in Nat /\ x \in Nat /\ x >= 1 /\ k \in Nat /\ k >= 1 /\ k <= m
      BY <1>1, <2>3
    <3>3. i = x + k - 1
      OBVIOUS
    <3> HIDE DEF n, m, x, i
    <3>4. i \in 1 .. n
      BY <3>1, <3>2, <3>3
    <3> QED BY <3>4 DEF n
  <2>5. s \in Synapse(c) /\ i \in Nat
    BY <2>2, <2>4
  <2>6. contribution_latency \in Nat
    BY Positive DEF Latencies
  <2>7. entry(k) = [event_id |-> w.event_id, synapse |-> i, target |-> s.target,
                    weight |-> s.weight, due_tick |-> CurrentTick + s.delay,
                    wait |-> contribution_latency]
    OBVIOUS
  <2> HIDE DEF s, i, entry
  <2> QED BY <2>3, <2>5, <2>6, <2>7 DEF PipedContribution, Synapse
<1>3. IssuedContributions(c) = [k \in 1 .. IssueCount(c) |-> entry(k)]
  BY DEF IssuedContributions
<1> HIDE DEF entry
<1>4. IssuedContributions(c) \in [1 .. IssueCount(c) -> PipedContribution(c)]
  BY <1>2, <1>3
<1> QED BY <1>1, <1>2, <1>3, <1>4, FunctionIsSequence

\* The contributions, the accumulators and the affected neurons after the cycle.
LEMMA ContributionKept ==
    ASSUME StorageInv, CurrentTick \in Nat, MoveContributions, NEW c \in Cores
    PROVE  ContributionInv(c)'
<1>1. ContributionInv(c)
  BY DEF StorageInv
<1>2. synapse_work_fifo_depth \in Nat /\ delayed_contribution_fifo_depth \in Nat
  BY Positive DEF Depths
<1>3. /\ contribution_pipeline'[c] \in Seq(PipedContribution(c))
      /\ Len(contribution_pipeline'[c]) <= synapse_work_fifo_depth
  <2> DEFINE kept == Picked(contribution_pipeline[c], KeptContributions(c))
             next == kept \o IssuedContributions(c)
  <2>1. /\ contribution_pipeline[c] \in Seq(PipedContribution(c))
        /\ Len(contribution_pipeline[c]) \in Nat
    BY <1>1 DEF ContributionInv
  <2>2. KeptContributions(c) \subseteq 1 .. Len(contribution_pipeline[c])
    BY DEF KeptContributions
  <2>3. kept \in Seq(PipedContribution(c)) /\ Len(kept) <= Len(contribution_pipeline[c])
    BY <2>1, <2>2, PickedHolds
  <2>4. contribution_pipeline'[c] = [k \in 1 .. Len(next) |-> Waited(next[k])]
    BY DEF MoveContributions
  <2> HIDE DEF kept
  <2>5. /\ IssuedContributions(c) \in Seq(PipedContribution(c))
        /\ Len(IssuedContributions(c)) <= synapse_work_fifo_depth - Len(contribution_pipeline[c])
    BY IssuedHold, IssueFits
  <2>6. next \in Seq(PipedContribution(c)) /\ Len(next) = Len(kept) + Len(IssuedContributions(c))
    BY <2>3, <2>5, ConcatHolds
  <2>7. Len(next) \in Nat /\ Len(next) <= synapse_work_fifo_depth
    <3>1. Len(kept) \in Nat /\ Len(IssuedContributions(c)) \in Nat
      BY <2>3, <2>5
    <3> QED BY <3>1, <2>1, <2>3, <2>5, <2>6, <1>2
  <2>8. \A k \in 1 .. Len(next) : Waited(next[k]) \in PipedContribution(c)
    BY <2>6, WaitedTypes
  <2> HIDE DEF next
  <2>9. contribution_pipeline'[c] \in [1 .. Len(next) -> PipedContribution(c)]
    BY <2>4, <2>8
  <2> QED BY <2>7, <2>9, FunctionIsSequence
<1>4. /\ delayed_contribution_fifo'[c] \subseteq HeldContribution(c)
      /\ IsFiniteSet(delayed_contribution_fifo'[c])
      /\ Cardinality(delayed_contribution_fifo'[c]) <= delayed_contribution_fifo_depth
  <2> DEFINE kept == delayed_contribution_fifo[c] \ AccumulatorWrites(c)
  <2>1. delayed_contribution_fifo'[c] = kept \cup Deferred(c)
    BY DEF MoveContributions
  <2>2. /\ IsFiniteSet(kept) /\ IsFiniteSet(Deferred(c))
        /\ Cardinality(Deferred(c)) <= delayed_contribution_fifo_depth - Cardinality(kept)
        /\ Deferred(c) \subseteq HeldContribution(c)
    BY DeferredFits, WritesHold DEF DelayedRoom
  <2>3. kept \subseteq HeldContribution(c)
    BY <1>1 DEF ContributionInv
  <2> HIDE DEF kept
  <2>4. /\ IsFiniteSet(kept \cup Deferred(c))
        /\ Cardinality(kept \cup Deferred(c)) <= Cardinality(kept) + Cardinality(Deferred(c))
    BY <2>2, UnionBound
  <2>5. /\ Cardinality(kept) \in Nat /\ Cardinality(Deferred(c)) \in Nat
        /\ Cardinality(kept \cup Deferred(c)) \in Nat
    BY <2>2, <2>4, FS_CardinalityType
  <2> QED BY <2>1, <2>2, <2>3, <2>4, <2>5, <1>2
<1>5. accumulators'[c] \in [Neurons(c) -> Int]
  <2> DEFINE W(n) == {i \in AccumulatorWrites(c) : i.target = n}
             sum(n) == IF n \in WrittenNeurons(c) THEN 0
                       ELSE IF W(n) = {} THEN accumulators[c][n]
                            ELSE accumulators[c][n] + (CHOOSE i \in W(n) : TRUE).weight
  <2>1. accumulators'[c] = [n \in Neurons(c) |-> sum(n)]
    BY DEF MoveContributions
  <2>2. ASSUME NEW n \in Neurons(c)
        PROVE  sum(n) \in Int
    <3>1. accumulators[c][n] \in Int
      BY <1>1 DEF ContributionInv
    <3>2. W(n) # {} => (CHOOSE i \in W(n) : TRUE) \in AccumulatorWrites(c)
      OBVIOUS
    <3>3. W(n) # {} => (CHOOSE i \in W(n) : TRUE).weight \in Int
      BY <3>2, WritesHold DEF HeldContribution
    <3> HIDE DEF W
    <3> QED BY <3>1, <3>3
  <2> HIDE DEF sum
  <2> QED BY <2>1, <2>2
<1>6. affected'[c] \subseteq Neurons(c)
  <2>1. affected'[c] = (affected[c] \ WrittenNeurons(c))
                          \cup {i.target : i \in AccumulatorWrites(c)}
    BY DEF MoveContributions
  <2>2. \A i \in AccumulatorWrites(c) : i.target \in Neurons(c)
    BY WritesHold DEF HeldContribution
  <2> QED BY <2>1, <2>2, <1>1 DEF ContributionInv
<1> QED BY <1>3, <1>4, <1>5, <1>6 DEF ContributionInv, PipedContribution, HeldContribution
-----------------------------------------------------------------------------
(* Neurons. *)

\* The arithmetic of an update stays within the integers.
LEMMA UpdateTyped ==
    ASSUME NEW p \in NeuronParams, NEW s \in NeuronState, NEW acc \in Int, NEW tick \in Int
    PROVE  /\ update_neuron(p, s, acc, tick).spike \in BOOLEAN
           /\ update_neuron(p, s, acc, tick).state \in NeuronState
<1>1. ASSUME NEW v \in Int, NEW f, IsFormat(f)
      PROVE  narrow_to_format(v, f) \in Int
  <2>1. f.min \in Int /\ f.max \in Int /\ f.min <= f.max
    BY <1>1 DEF IsFormat, Formats
  <2> DEFINE size == f.max - f.min + 1
             offset == v - f.min
  <2>2. size \in Nat /\ size > 0 /\ offset \in Int
    BY <2>1
  <2> HIDE DEF size, offset
  <2>3. offset % size \in Int
    BY <2>2
  <2> QED BY <2>1, <2>3 DEF narrow_to_format, size, offset
<1>2. ASSUME NEW v \in Int, NEW a \in Int
      PROVE  move_toward_zero(v, a) \in Int
  BY DEF move_toward_zero
<1> DEFINE elapsed == tick - s.last_update_tick
           membrane == move_toward_zero(s.membrane, p.leak * elapsed)
           adapted == move_toward_zero(s.adaptation, p.adaptation_decay * elapsed)
           sum == membrane + narrow_to_format(acc, AccumulatorFormat)
           candidate == narrow_to_format(sum, MembraneFormat)
           raised == narrow_to_format(adapted + p.adaptation_increment, AdaptationFormat)
           spike == candidate >= narrow_to_format(p.threshold + adapted, ThresholdFormat)
<1>3. elapsed \in Int /\ p.leak \in Int /\ p.adaptation_decay \in Int /\ p.reset \in Int
      /\ p.threshold \in Int /\ p.adaptation_increment \in Int
      /\ s.membrane \in Int /\ s.adaptation \in Int
  BY DEF NeuronParams, NeuronState
<1>4. p.leak * elapsed \in Int /\ p.adaptation_decay * elapsed \in Int
  BY <1>3
<1>5. membrane \in Int /\ adapted \in Int
  BY <1>2, <1>3, <1>4
<1> HIDE DEF membrane, adapted, elapsed
<1>6. /\ IsFormat(AccumulatorFormat) /\ IsFormat(MembraneFormat) /\ IsFormat(ThresholdFormat)
      /\ IsFormat(AdaptationFormat)
  BY FormatsAssumption
<1>7. sum \in Int
  <2>1. narrow_to_format(acc, AccumulatorFormat) \in Int
    BY <1>1, <1>6
  <2> QED BY <2>1, <1>5
<1> HIDE DEF sum
<1>8. candidate \in Int
  BY <1>1, <1>6, <1>7
<1>9. adapted + p.adaptation_increment \in Int
  BY <1>3, <1>5
<1>10. raised \in Int
  BY <1>1, <1>6, <1>9
<1>11. /\ update_neuron(p, s, acc, tick).spike = spike
       /\ update_neuron(p, s, acc, tick).state =
            [membrane |-> IF spike THEN p.reset ELSE candidate,
             adaptation |-> IF spike /\ p.alif THEN raised ELSE adapted,
             last_update_tick |-> tick]
  BY DEF update_neuron, sum, membrane, adapted, elapsed
<1>12. spike \in BOOLEAN
  OBVIOUS
<1> HIDE DEF candidate, raised, spike
<1> QED BY <1>3, <1>5, <1>8, <1>10, <1>11, <1>12 DEF NeuronState

\* The first few of a set of indices are few.
LEMMA LowestBound ==
    ASSUME NEW S, S \subseteq Int, IsFiniteSet(S), NEW k \in Nat
    PROVE  IsFiniteSet(LowestIndices(S, k)) /\ Cardinality(LowestIndices(S, k)) <= k
<1> DEFINE b == LowerIn(S)
           T == LowestIndices(S, k)
<1>1. IsOrder(S, b)
  BY IndicesOrdered
<1>2. T \subseteq S /\ \A x \in T : Cardinality(b[x]) < k
  BY DEF LowestIndices, FirstOf, Rank, Below, LowerIn
<1> HIDE DEF b, T
<1>3. IsFiniteSet(T) /\ Cardinality(T) <= k
  BY <1>1, <1>2, RankBound
<1> QED BY <1>3 DEF T

\* They are the first ones: the others come after them.
LEMMA LowestFirst ==
    ASSUME NEW S, S \subseteq Int, IsFiniteSet(S), NEW k \in Nat,
           NEW x \in LowestIndices(S, k), NEW y \in S \ LowestIndices(S, k)
    PROVE  x < y
<1> DEFINE b == LowerIn(S)
<1>1. IsOrder(S, b)
  BY IndicesOrdered
<1>2. x \in S /\ Cardinality(b[x]) < k /\ ~(Cardinality(b[y]) < k)
  BY DEF LowestIndices, FirstOf, Rank, Below, LowerIn
<1>3. x \in b[y] => x < y
  BY DEF LowerIn
<1> HIDE DEF b
<1>4. /\ Cardinality(b[x]) \in 0 .. Cardinality(S) - 1
      /\ x \in b[y] <=> Cardinality(b[x]) < Cardinality(b[y])
  BY <1>1, <1>2, RankGrows
<1>5. Cardinality(b[y]) \in 0 .. Cardinality(S) - 1
  BY <1>1, RankGrows
<1> QED BY <1>2, <1>3, <1>4, <1>5

\* The entries of a pipeline with one entry per neuron are ordered by their neurons.
EarlierNeurons(S) == [e \in S |-> {f \in S : NeuronBefore(f, e)}]

\* They are a finite set and that is a total order, so ranks count them.
LEMMA NeuronsOrdered ==
    ASSUME StorageInv, NEW c \in Cores, NEW S, S \subseteq neuron_pipeline[c]
    PROVE  IsOrder(S, EarlierNeurons(S)) /\ IsFiniteSet(S)
<1> DEFINE b == EarlierNeurons(S)
<1>1. \A e \in S : e.neuron \in Nat
  BY ProgramFinite DEF StorageInv, NeuronInv, NeuronWork
<1>2. \A e, f \in S : e.neuron = f.neuron => e = f
  BY DEF StorageInv, WorkInv, NeuronWorkPartition
<1>3. \A e \in S : b[e] = {f \in S : f.neuron < e.neuron}
  BY DEF EarlierNeurons, NeuronBefore
<1> HIDE DEF b
<1>4. \A e \in S : b[e] \subseteq S /\ e \notin b[e]
  BY <1>1, <1>3
<1>5. \A e, f \in S : e = f \/ e \in b[f] \/ f \in b[e]
  BY <1>1, <1>2, <1>3
<1>6. ASSUME NEW e \in S, NEW f \in S, e \in b[f]
      PROVE  b[e] \subseteq b[f]
  <2>1. e.neuron < f.neuron
    BY <1>3, <1>6
  <2>2. \A d \in S : d.neuron < e.neuron => d.neuron < f.neuron
    BY <2>1, <1>1
  <2> QED BY <2>2, <1>3
<1>7. IsOrder(S, b)
  BY <1>4, <1>5, <1>6 DEF IsOrder
<1>8. IsFiniteSet(S)
  BY FS_Subset DEF StorageInv, NeuronInv
<1> QED BY <1>7, <1>8 DEF b

\* The spikes that are written back are the k-th of them in the order of their neurons,
\* and the spike FIFO has room for them.
LEMMA SpikesFit ==
    ASSUME StorageInv, NEW c \in Cores
    PROVE  /\ Len(SpikesOf(c)) \in Nat /\ DOMAIN SpikesOf(c) = 1 .. Len(SpikesOf(c))
           /\ Len(SpikesOf(c)) <= spike_fifo_depth - Len(spike_fifo[c])
           /\ \A k \in 1 .. Len(SpikesOf(c)) :
                /\ SpikesOf(c)[k].neuron \in Neurons(c)
                /\ SpikesOf(c)[k].neuron \in WrittenNeurons(c)
                /\ \E e \in Written(c) : /\ e.spike /\ e.neuron \in Neurons(c)
                                         /\ SpikesOf(c)[k] = [tick |-> CurrentTick, core |-> c,
                                                             neuron |-> e.neuron]
           /\ Len(SpikesOf(c)) > 0 => InNeuron
<1> DEFINE fired == {e \in Written(c) : e.spike}
           room == spike_fifo_depth - Len(spike_fifo[c])
           n == Cardinality(fired)
<1>1. fired \subseteq neuron_pipeline[c]
  BY NeuronStages
<1>2. IsOrder(fired, EarlierNeurons(fired)) /\ IsFiniteSet(fired)
  BY <1>1, NeuronsOrdered
<1>3. n \in Nat
  BY <1>2, FS_CardinalityType
<1>4. room \in Nat
  <2>1. spike_fifo[c] \in Seq(CycleSpike(c)) /\ Len(spike_fifo[c]) <= spike_fifo_depth
    BY DEF StorageInv, NeuronInv
  <2>2. spike_fifo_depth \in Nat
    BY Positive DEF Depths
  <2> QED BY <2>1, <2>2
<1>5. n <= room
  <2> DEFINE S == {f \in WritebackWindow(c) : f.spike}
             b == EarlierNeurons(S)
  <2>1. S \subseteq neuron_pipeline[c]
    BY DEF WritebackWindow, FirstOf
  <2>2. IsOrder(S, b) /\ IsFiniteSet(S)
    BY <2>1, NeuronsOrdered
  <2>3. ASSUME NEW e \in fired
        PROVE  e \in S /\ Cardinality(b[e]) < room
    <3>1. /\ e \in WritebackWindow(c) /\ e.spike
          /\ Cardinality({f \in WritebackWindow(c) : f.spike /\ NeuronBefore(f, e)}) < room
      BY <2>3 DEF Written
    <3>2. b[e] = {f \in WritebackWindow(c) : f.spike /\ NeuronBefore(f, e)}
      BY <3>1 DEF EarlierNeurons
    <3> QED BY <3>1, <3>2
  <2> HIDE DEF S, b, fired, room
  <2> QED BY <2>2, <2>3, <1>4, RankBound
<1>6. ASSUME NEW k \in 1 .. n
      PROVE  InOrder(fired, NeuronBefore)[k] \in fired
  <2> DEFINE b == EarlierNeurons(fired)
             j == k - 1
  <2>1. j \in 0 .. n - 1
    BY <1>3
  <2> HIDE DEF b, fired, j
  <2>2. IsOrder(fired, b)
    BY <1>2 DEF b
  <2>3. \E e \in fired : Cardinality(b[e]) = j
    BY <2>1, <2>2, <1>2, RankTaken
  <2>4. \A e \in fired : Cardinality(b[e]) = Rank(e, fired, NeuronBefore)
    BY DEF b, EarlierNeurons, Rank
  <2>5. InOrder(fired, NeuronBefore)[k] = CHOOSE e \in fired : Rank(e, fired, NeuronBefore) = j
    BY DEF InOrder, j
  <2> QED BY <2>3, <2>4, <2>5
<1> HIDE DEF fired
<1>7. SpikesOf(c) = [k \in 1 .. n |-> [tick |-> CurrentTick, core |-> c,
                                       neuron |-> InOrder(fired, NeuronBefore)[k].neuron]]
  BY DEF SpikesOf, fired
<1>8. DOMAIN SpikesOf(c) = 1 .. n /\ Len(SpikesOf(c)) = n
  <2> HIDE DEF n
  <2> QED BY <1>3, <1>7
<1>9. \A k \in 1 .. n : SpikesOf(c)[k].neuron \in Neurons(c)
                          /\ SpikesOf(c)[k].neuron \in WrittenNeurons(c)
                          /\ \E e \in Written(c) :
                                /\ e.spike /\ e.neuron \in Neurons(c)
                                /\ SpikesOf(c)[k] = [tick |-> CurrentTick, core |-> c,
                                                    neuron |-> e.neuron]
  <2>1. \A e \in fired : /\ e.neuron \in Neurons(c) /\ e.neuron \in WrittenNeurons(c)
                         /\ e \in Written(c) /\ e.spike
    BY <1>1 DEF StorageInv, NeuronInv, NeuronWork, WrittenNeurons, fired
  <2> QED BY <2>1, <1>6, <1>7
<1>10. n > 0 => InNeuron
  <2>1. ~InNeuron => fired = {}
    BY DEF Written, fired
  <2> QED BY <2>1, FS_EmptySet
<1> QED BY <1>3, <1>5, <1>8, <1>9, <1>10

\* What is issued and fed fits the pipeline and the work FIFO, and is the first part of
\* what waits.
LEMMA NeuronRoom ==
    ASSUME StorageInv, NEW c \in Cores
    PROVE  /\ IsFiniteSet(IssuedNeurons(c)) /\ IssuedNeurons(c) \subseteq Neurons(c)
           /\ Cardinality(IssuedNeurons(c))
                <= neuron_lanes * neuron_latency - Cardinality(neuron_pipeline[c])
           /\ IsFiniteSet(FedNeurons(c)) /\ FedNeurons(c) \subseteq Neurons(c)
           /\ Cardinality(FedNeurons(c))
                <= neuron_work_fifo_depth - Cardinality(neuron_work_fifo[c])
           /\ \A n \in IssuedNeurons(c) : \A m \in neuron_work_fifo[c] \ IssuedNeurons(c) : n < m
           /\ \A n \in FedNeurons(c) : \A m \in neuron_pending[c] \ FedNeurons(c) : n < m
<1>1. /\ neuron_work_fifo[c] \subseteq Neurons(c) /\ neuron_pending[c] \subseteq Neurons(c)
      /\ Cardinality(neuron_work_fifo[c]) <= neuron_work_fifo_depth
      /\ IsFiniteSet(neuron_pipeline[c])
      /\ Cardinality(neuron_pipeline[c]) <= neuron_lanes * neuron_latency
  BY DEF StorageInv, NeuronInv
<1>2. /\ IsFiniteSet(neuron_work_fifo[c]) /\ IsFiniteSet(neuron_pending[c])
      /\ neuron_work_fifo[c] \subseteq Int /\ neuron_pending[c] \subseteq Int
  BY <1>1, ProgramFinite, FS_Subset
<1> DEFINE room == neuron_lanes * neuron_latency - Cardinality(neuron_pipeline[c])
           space == neuron_work_fifo_depth - Cardinality(neuron_work_fifo[c])
<1>3. room \in Nat /\ neuron_lanes \in Nat
  <2>1. Cardinality(neuron_pipeline[c]) \in Nat
    BY <1>1, FS_CardinalityType
  <2>2. neuron_lanes * neuron_latency \in Nat /\ neuron_lanes \in Nat
    BY Positive DEF Rates
  <2> QED BY <2>1, <2>2, <1>1
<1>4. space \in Nat /\ accumulator_clear_bandwidth \in Nat
  <2>1. Cardinality(neuron_work_fifo[c]) \in Nat
    BY <1>2, FS_CardinalityType
  <2>2. neuron_work_fifo_depth \in Nat /\ accumulator_clear_bandwidth \in Nat
    BY Positive DEF Rates, Depths
  <2> QED BY <2>1, <2>2, <1>1
<1>5. /\ IsFiniteSet(IssuedNeurons(c)) /\ IssuedNeurons(c) \subseteq Neurons(c)
      /\ Cardinality(IssuedNeurons(c)) <= room
      /\ \A n \in IssuedNeurons(c) : \A m \in neuron_work_fifo[c] \ IssuedNeurons(c) : n < m
  <2>1. CASE ~InNeuron
    <3>1. IssuedNeurons(c) = {}
      BY <2>1 DEF IssuedNeurons
    <3> QED BY <3>1, <1>3, FS_EmptySet
  <2>2. CASE InNeuron
    <3> DEFINE k == Min({neuron_lanes, room})
    <3>1. IssuedNeurons(c) = LowestIndices(neuron_work_fifo[c], k)
      BY <2>2 DEF IssuedNeurons
    <3> HIDE DEF room
    <3>2. k \in {neuron_lanes, room} /\ k <= room
      BY <1>3, LeastOfTwo
    <3>3. k \in Nat
      BY <3>2, <1>3
    <3> HIDE DEF k
    <3>4. IsFiniteSet(IssuedNeurons(c)) /\ Cardinality(IssuedNeurons(c)) <= k
      BY <3>1, <3>3, <1>2, LowestBound
    <3>5. Cardinality(IssuedNeurons(c)) \in Nat
      BY <3>4, FS_CardinalityType
    <3>6. \A n \in IssuedNeurons(c) : \A m \in neuron_work_fifo[c] \ IssuedNeurons(c) : n < m
      BY <3>1, <3>3, <1>2, LowestFirst
    <3> QED BY <3>2, <3>3, <3>4, <3>5, <3>6, <1>1, <1>3, NeuronStages
  <2> QED BY <2>1, <2>2
<1>6. /\ IsFiniteSet(FedNeurons(c)) /\ FedNeurons(c) \subseteq Neurons(c)
      /\ Cardinality(FedNeurons(c)) <= space
      /\ \A n \in FedNeurons(c) : \A m \in neuron_pending[c] \ FedNeurons(c) : n < m
  <2>1. CASE ~InNeuron
    <3>1. FedNeurons(c) = {}
      BY <2>1 DEF FedNeurons
    <3> QED BY <3>1, <1>4, FS_EmptySet
  <2>2. CASE InNeuron
    <3> DEFINE k == Min({space, accumulator_clear_bandwidth})
    <3>1. FedNeurons(c) = LowestIndices(neuron_pending[c], k)
      BY <2>2 DEF FedNeurons
    <3> HIDE DEF space
    <3>2. k \in {space, accumulator_clear_bandwidth} /\ k <= space
      BY <1>4, LeastOfTwo
    <3>3. k \in Nat
      BY <3>2, <1>4
    <3> HIDE DEF k
    <3>4. IsFiniteSet(FedNeurons(c)) /\ Cardinality(FedNeurons(c)) <= k
      BY <3>1, <3>3, <1>2, LowestBound
    <3>5. Cardinality(FedNeurons(c)) \in Nat
      BY <3>4, FS_CardinalityType
    <3>6. \A n \in FedNeurons(c) : \A m \in neuron_pending[c] \ FedNeurons(c) : n < m
      BY <3>1, <3>3, <1>2, LowestFirst
    <3> QED BY <3>2, <3>3, <3>4, <3>5, <3>6, <1>1, <1>4, NeuronStages
  <2> QED BY <2>1, <2>2
<1> QED BY <1>5, <1>6

\* The neurons, their pipeline and the spike FIFO after the cycle.
LEMMA NeuronKept ==
    ASSUME StorageInv, CurrentTick \in Nat, MoveNeurons, MoveContributions,
           AdvanceControl \/ StayInPhase, NEW c \in Cores, ContributionInv(c)'
    PROVE  NeuronInv(c)'
<1>1. NeuronInv(c) /\ ContributionInv(c)
  BY DEF StorageInv
<1>2. neuron_work_fifo_depth \in Nat /\ spike_fifo_depth \in Nat /\ neuron_latency \in Nat
      /\ neuron_lanes * neuron_latency \in Nat
  BY Positive DEF Depths, Latencies
<1>3. ASSUME NEW n \in Neurons(c)
      PROVE  PipelineEntry(c, n) \in NeuronWork(c)
  <2>1. Params[c][n] \in NeuronParams
    BY ProgramAssumption
  <2>2. neuron[c][n] \in NeuronState /\ accumulators[c][n] \in Int /\ CurrentTick \in Int
    BY <1>1 DEF NeuronInv, ContributionInv
  <2> DEFINE u == update_neuron(Params[c][n], neuron[c][n], accumulators[c][n], CurrentTick)
  <2>3. u.spike \in BOOLEAN /\ u.state \in NeuronState
    BY <2>1, <2>2, UpdateTyped
  <2>4. PipelineEntry(c, n) = [neuron |-> n, spike |-> u.spike, state |-> u.state,
                               wait |-> neuron_latency]
    BY DEF PipelineEntry
  <2> HIDE DEF u
  <2> QED BY <2>3, <2>4, <1>2 DEF NeuronWork
<1>4. neuron'[c] \in [Neurons(c) -> NeuronState]
  <2>1. neuron'[c] = [n \in Neurons(c) |->
            IF n \in WrittenNeurons(c) THEN UpdateOf(c, n) ELSE neuron[c][n]]
    BY DEF MoveNeurons
  <2>2. ASSUME NEW n \in WrittenNeurons(c)
        PROVE  UpdateOf(c, n) \in NeuronState
    <3>1. (CHOOSE e \in Written(c) : e.neuron = n) \in Written(c)
      BY <2>2 DEF WrittenNeurons
    <3>2. Written(c) \subseteq NeuronWork(c)
      BY <1>1, NeuronStages DEF NeuronInv
    <3> QED BY <3>1, <3>2 DEF UpdateOf, NeuronWork
  <2> QED BY <2>1, <2>2, <1>1 DEF NeuronInv
<1>5. neuron_pending'[c] \subseteq Neurons(c)
  <2>1. neuron_pending' = neuron_pending \/ neuron_pending' = PendingAfterFeed
        \/ neuron_pending' = affected'
    BY DEF AdvanceControl, HoldEmptyTick, EnterNeuron, EnterPacketize, EnterBarrier,
           CompleteTick, StayInPhase
  <2> QED BY <2>1, <1>1 DEF NeuronInv, ContributionInv, PendingAfterFeed
<1>6. neuron_work_fifo'[c] \subseteq Neurons(c)
      /\ Cardinality(neuron_work_fifo'[c]) <= neuron_work_fifo_depth
  <2> DEFINE kept == neuron_work_fifo[c] \ IssuedNeurons(c)
  <2>1. neuron_work_fifo'[c] = kept \cup FedNeurons(c)
    BY DEF MoveNeurons
  <2>2. /\ neuron_work_fifo[c] \subseteq Neurons(c) /\ IsFiniteSet(neuron_work_fifo[c])
    BY <1>1, ProgramFinite, FS_Subset DEF NeuronInv
  <2>3. IsFiniteSet(kept) /\ Cardinality(kept) <= Cardinality(neuron_work_fifo[c])
    BY <2>2, FS_Subset
  <2>4. /\ IsFiniteSet(FedNeurons(c)) /\ FedNeurons(c) \subseteq Neurons(c)
        /\ Cardinality(FedNeurons(c)) <= neuron_work_fifo_depth - Cardinality(neuron_work_fifo[c])
    BY NeuronRoom
  <2>5. kept \subseteq Neurons(c)
    BY <2>2
  <2> HIDE DEF kept
  <2>6. /\ IsFiniteSet(kept \cup FedNeurons(c))
        /\ Cardinality(kept \cup FedNeurons(c)) <= Cardinality(kept) + Cardinality(FedNeurons(c))
    BY <2>3, <2>4, UnionBound
  <2>7. /\ Cardinality(kept) \in Nat /\ Cardinality(FedNeurons(c)) \in Nat
        /\ Cardinality(neuron_work_fifo[c]) \in Nat /\ Cardinality(kept \cup FedNeurons(c)) \in Nat
    BY <2>2, <2>3, <2>4, <2>6, FS_CardinalityType
  <2> QED BY <2>1, <2>3, <2>4, <2>5, <2>6, <2>7, <1>2
<1>7. /\ neuron_pipeline'[c] \subseteq NeuronWork(c) /\ IsFiniteSet(neuron_pipeline'[c])
      /\ Cardinality(neuron_pipeline'[c]) <= neuron_lanes * neuron_latency
  <2> DEFINE kept == neuron_pipeline[c] \ Written(c)
             older == {Waited(e) : e \in kept}
             newer == {Waited(PipelineEntry(c, n)) : n \in IssuedNeurons(c)}
             step == [e \in kept |-> Waited(e)]
             issue == [n \in IssuedNeurons(c) |-> Waited(PipelineEntry(c, n))]
  <2>1. neuron_pipeline'[c] = older \cup newer
    BY DEF MoveNeurons
  <2>2. /\ neuron_pipeline[c] \subseteq NeuronWork(c) /\ IsFiniteSet(neuron_pipeline[c])
    BY <1>1 DEF NeuronInv
  <2>3. IsFiniteSet(kept) /\ Cardinality(kept) <= Cardinality(neuron_pipeline[c])
    BY <2>2, FS_Subset
  <2>4. /\ IsFiniteSet(IssuedNeurons(c)) /\ IssuedNeurons(c) \subseteq Neurons(c)
        /\ Cardinality(IssuedNeurons(c))
             <= neuron_lanes * neuron_latency - Cardinality(neuron_pipeline[c])
    BY NeuronRoom
  <2>5. \A y \in older : \E e \in kept : y = step[e]
    OBVIOUS
  <2>6. \A y \in newer : \E n \in IssuedNeurons(c) : y = issue[n]
    OBVIOUS
  <2>7. older \subseteq NeuronWork(c)
    BY <2>2, WaitedTypes
  <2>8. newer \subseteq NeuronWork(c)
    BY <2>4, <1>3, WaitedTypes
  <2> HIDE DEF kept, older, newer, step, issue
  <2>9. IsFiniteSet(older) /\ Cardinality(older) <= Cardinality(kept)
    BY <2>3, <2>5, ImageBound
  <2>10. IsFiniteSet(newer) /\ Cardinality(newer) <= Cardinality(IssuedNeurons(c))
    BY <2>4, <2>6, ImageBound
  <2>11. /\ IsFiniteSet(older \cup newer)
         /\ Cardinality(older \cup newer) <= Cardinality(older) + Cardinality(newer)
    BY <2>9, <2>10, UnionBound
  <2>12. /\ Cardinality(older) \in Nat /\ Cardinality(newer) \in Nat
         /\ Cardinality(kept) \in Nat /\ Cardinality(IssuedNeurons(c)) \in Nat
         /\ Cardinality(neuron_pipeline[c]) \in Nat /\ Cardinality(older \cup newer) \in Nat
    BY <2>2, <2>3, <2>4, <2>9, <2>10, <2>11, FS_CardinalityType
  <2> DEFINE bound == neuron_lanes * neuron_latency
  <2>13. bound \in Nat /\ Cardinality(IssuedNeurons(c)) <= bound - Cardinality(neuron_pipeline[c])
    BY <2>4, <1>2
  <2> HIDE DEF bound
  <2>14. Cardinality(older \cup newer) <= bound
    BY <2>3, <2>9, <2>10, <2>11, <2>12, <2>13
  <2> QED BY <2>1, <2>7, <2>8, <2>11, <2>14 DEF bound
<1>8. spike_fifo'[c] \in Seq(CycleSpike(c)) /\ Len(spike_fifo'[c]) <= spike_fifo_depth
  <2> DEFINE kept == IF SpikeTaken(c) THEN Tail(spike_fifo[c]) ELSE spike_fifo[c]
             entry(i) == [tick |-> CurrentTick, neuron |-> SpikesOf(c)[i].neuron]
             new == [i \in DOMAIN SpikesOf(c) |-> entry(i)]
  <2>1. spike_fifo'[c] = kept \o new
    BY DEF MoveNeurons
  <2>2. spike_fifo[c] \in Seq(CycleSpike(c)) /\ Len(spike_fifo[c]) \in Nat
    BY <1>1 DEF NeuronInv
  <2>3. kept \in Seq(CycleSpike(c)) /\ Len(kept) <= Len(spike_fifo[c])
    <3>1. CASE SpikeTaken(c)
      BY <3>1, <2>2, TailHolds DEF SpikeTaken
    <3>2. CASE ~SpikeTaken(c)
      BY <3>2, <2>2
    <3> QED BY <3>1, <3>2
  <2> DEFINE n == Len(SpikesOf(c))
  <2>4. /\ n \in Nat /\ DOMAIN SpikesOf(c) = 1 .. n
        /\ n <= spike_fifo_depth - Len(spike_fifo[c])
        /\ \A k \in 1 .. n : SpikesOf(c)[k].neuron \in Neurons(c)
    BY SpikesFit
  <2>5. \A k \in 1 .. n : entry(k) \in CycleSpike(c)
    BY <2>4 DEF CycleSpike
  <2> HIDE DEF n, entry, kept
  <2>6. new \in [1 .. n -> CycleSpike(c)]
    BY <2>4, <2>5
  <2> HIDE DEF new
  <2>7. new \in Seq(CycleSpike(c)) /\ Len(new) = n
    BY <2>4, <2>6, FunctionIsSequence
  <2>8. kept \o new \in Seq(CycleSpike(c)) /\ Len(kept \o new) = Len(kept) + n
    BY <2>3, <2>7, ConcatHolds
  <2>9. Len(kept) \in Nat
    BY <2>3
  <2> QED BY <2>1, <2>2, <2>3, <2>4, <2>8, <2>9, <1>2
<1> QED BY <1>4, <1>5, <1>6, <1>7, <1>8 DEF NeuronInv, NeuronWork, CycleSpike
-----------------------------------------------------------------------------
(* The order of the packets of the pipeline. *)

\* PacketBefore compares the first of the five keys that differs.
LEMMA PacketBeforeIs ==
    ASSUME NEW p \in Packet, NEW q \in Packet
    PROVE  PacketBefore(p, q) <=>
             \/ p.source < q.source
             \/ p.source = q.source /\ p.neuron < q.neuron
             \/ p.source = q.source /\ p.neuron = q.neuron /\ p.core < q.core
             \/ /\ p.source = q.source /\ p.neuron = q.neuron /\ p.core = q.core
                /\ p.axon < q.axon
             \/ /\ p.source = q.source /\ p.neuron = q.neuron /\ p.core = q.core
                /\ p.axon = q.axon /\ p.event_id < q.event_id
<1> DEFINE key(r) == <<r.source, r.neuron, r.core, r.axon, r.event_id>>
           first == {i \in 1 .. 5 : key(p)[i] # key(q)[i]}
           m == Min(first)
<1>1. PacketBefore(p, q) <=> first # {} /\ key(p)[m] < key(q)[m]
  BY DEF PacketBefore
<1>2. \A r \in Packet : /\ key(r)[1] = r.source /\ key(r)[2] = r.neuron /\ key(r)[3] = r.core
                        /\ key(r)[4] = r.axon /\ key(r)[5] = r.event_id
  OBVIOUS
<1> HIDE DEF key
<1>3. \A r \in Packet : /\ r.source \in Nat /\ r.neuron \in Nat /\ r.core \in Nat
                        /\ r.axon \in Nat /\ r.event_id \in Nat
  BY ProgramFinite DEF Packet
<1>4. first \subseteq 1 .. 5
  OBVIOUS
<1>5. \A i \in 1 .. 5 : i \in first <=> key(p)[i] # key(q)[i]
  OBVIOUS
<1> HIDE DEF first
<1>6. first # {} => m \in first /\ \A j \in first : m <= j
  <2>1. first \subseteq Nat
    BY <1>4
  <2> QED BY <2>1, MinOfNaturals
<1> HIDE DEF m
<1>7. first # {} => m \in 1 .. 5 /\ key(p)[m] # key(q)[m]
                    /\ \A j \in 1 .. 5 : j < m => key(p)[j] = key(q)[j]
  <2> SUFFICES ASSUME first # {}
               PROVE  m \in 1 .. 5 /\ key(p)[m] # key(q)[m]
                      /\ \A j \in 1 .. 5 : j < m => key(p)[j] = key(q)[j]
    OBVIOUS
  <2>1. m \in 1 .. 5 /\ key(p)[m] # key(q)[m]
    BY <1>4, <1>5, <1>6
  <2>2. ASSUME NEW j \in 1 .. 5, j < m
        PROVE  j \notin first
    BY <2>1, <2>2, <1>6
  <2> QED BY <2>1, <2>2, <1>5
<1>8. CASE first = {}
  <2>1. \A i \in 1 .. 5 : key(p)[i] = key(q)[i]
    BY <1>8, <1>5
  <2>2. /\ p.source = q.source /\ p.neuron = q.neuron /\ p.core = q.core /\ p.axon = q.axon
        /\ p.event_id = q.event_id
    BY <2>1, <1>2
  <2> QED BY <1>1, <1>3, <1>8, <2>2
<1>9. CASE first # {} /\ m = 1
  <2>1. key(p)[1] # key(q)[1]
    BY <1>7, <1>9
  <2> QED BY <2>1, <1>1, <1>2, <1>3, <1>9
<1>10. CASE first # {} /\ m = 2
  <2>1. key(p)[2] # key(q)[2] /\ key(p)[1] = key(q)[1]
    BY <1>7, <1>10
  <2> QED BY <2>1, <1>1, <1>2, <1>3, <1>10
<1>11. CASE first # {} /\ m = 3
  <2>1. key(p)[3] # key(q)[3] /\ key(p)[1] = key(q)[1] /\ key(p)[2] = key(q)[2]
    BY <1>7, <1>11
  <2> QED BY <2>1, <1>1, <1>2, <1>3, <1>11
<1>12. CASE first # {} /\ m = 4
  <2>1. key(p)[4] # key(q)[4] /\ key(p)[1] = key(q)[1] /\ key(p)[2] = key(q)[2]
        /\ key(p)[3] = key(q)[3]
    BY <1>7, <1>12
  <2> QED BY <2>1, <1>1, <1>2, <1>3, <1>12
<1>13. CASE first # {} /\ m = 5
  <2>1. key(p)[5] # key(q)[5] /\ key(p)[1] = key(q)[1] /\ key(p)[2] = key(q)[2]
        /\ key(p)[3] = key(q)[3] /\ key(p)[4] = key(q)[4]
    BY <1>7, <1>13
  <2> QED BY <2>1, <1>1, <1>2, <1>3, <1>13
<1>14. m \in 1 .. 5 => m = 1 \/ m = 2 \/ m = 3 \/ m = 4 \/ m = 5
  OBVIOUS
<1> QED BY <1>7, <1>8, <1>9, <1>10, <1>11, <1>12, <1>13, <1>14

\* It is a strict order, total on packets with distinct identifiers.
EarlierPackets(S) == [p \in S |-> {q \in S : PacketBefore(q, p)}]

\* Packets with distinct identifiers are totally ordered by it.
LEMMA PacketsOrdered ==
    ASSUME NEW S, S \subseteq Packet, \A p, q \in S : p.event_id = q.event_id => p = q
    PROVE  IsOrder(S, EarlierPackets(S))
<1> DEFINE b == EarlierPackets(S)
<1>1. \A r \in Packet : /\ r.source \in Nat /\ r.neuron \in Nat /\ r.core \in Nat
                        /\ r.axon \in Nat /\ r.event_id \in Nat
  BY ProgramFinite DEF Packet
<1>2. \A p \in S : b[p] = {q \in S : PacketBefore(q, p)}
  BY DEF EarlierPackets
<1>3. \A p \in S : ~PacketBefore(p, p)
  BY <1>1, PacketBeforeIs
<1>4. \A p, q \in S : p = q \/ PacketBefore(p, q) \/ PacketBefore(q, p)
  <2> SUFFICES ASSUME NEW p \in S, NEW q \in S, p.event_id # q.event_id
               PROVE  PacketBefore(p, q) \/ PacketBefore(q, p)
    OBVIOUS
  <2>1. p \in Packet /\ q \in Packet
    OBVIOUS
  <2> QED BY <2>1, <1>1, PacketBeforeIs
<1>5. ASSUME NEW p \in S, NEW q \in S, NEW r \in S, PacketBefore(p, q), PacketBefore(q, r)
      PROVE  PacketBefore(p, r)
  <2>1. p \in Packet /\ q \in Packet /\ r \in Packet
    OBVIOUS
  <2> QED BY <2>1, <1>1, <1>5, PacketBeforeIs
<1> HIDE DEF b
<1>6. \A p, q \in S : p \in b[q] => b[p] \subseteq b[q]
  BY <1>2, <1>5
<1>7. IsOrder(S, b)
  BY <1>2, <1>3, <1>4, <1>6 DEF IsOrder
<1> QED BY <1>7 DEF b

\* The packets that are ready, in any selection, are ordered.
LEMMA ReadyOrdered ==
    ASSUME StorageInv, NEW S, S \subseteq ReadyPackets
    PROVE  S \subseteq RoutedPacket /\ IsFiniteSet(S) /\ IsOrder(S, EarlierPackets(S))
<1>1. S \subseteq RoutedPacket
  BY DEF ReadyPackets, StorageInv, PacketInv
<1>2. \A p, q \in S : p.event_id = q.event_id => p = q
  <2> SUFFICES ASSUME NEW p \in S, NEW q \in S, p.event_id = q.event_id
               PROVE  p = q
    OBVIOUS
  <2>1. PICK e \in packet_pipeline : p = e.packet
    BY DEF ReadyPackets
  <2>2. PICK f \in packet_pipeline : q = f.packet
    BY DEF ReadyPackets
  <2> QED BY <2>1, <2>2 DEF StorageInv, PacketInv
<1>3. IsFiniteSet(S)
  <2> DEFINE f == [e \in packet_pipeline |-> e.packet]
  <2>1. \A p \in S : \E e \in packet_pipeline : p = f[e]
    BY DEF ReadyPackets
  <2> HIDE DEF f
  <2> QED BY <2>1, ImageBound DEF StorageInv, PacketInv
<1>4. S \subseteq Packet
  BY <1>1 DEF RoutedPacket
<1> QED BY <1>1, <1>2, <1>3, <1>4, PacketsOrdered

\* A router input accepts ready packets of its core, each once and in their order, and no
\* more than it has room for.
LEMMA AcceptedFits ==
    ASSUME StorageInv, NEW s \in Cores
    PROVE  /\ AcceptedFrom(s) \in Seq(RoutedPacket)
           /\ Len(AcceptedFrom(s)) <= router_input_fifo_depth - Len(router_input_fifos[s])
           /\ ToSet(AcceptedFrom(s)) \subseteq ReadyPackets
           /\ Len(AcceptedFrom(s)) = Cardinality({p \in AcceptedPackets : p.source = s})
<1> DEFINE A == {p \in AcceptedPackets : p.source = s}
           S == {q \in ReadyPackets : q.source = s}
           room == router_input_fifo_depth - Len(router_input_fifos[s])
           n == Cardinality(A)
<1>1. room \in Nat
  <2>1. /\ router_input_fifos[s] \in Seq(RoutedPacket)
        /\ Len(router_input_fifos[s]) <= router_input_fifo_depth
    BY DEF StorageInv, RouterInv
  <2>2. router_input_fifo_depth \in Nat
    BY Positive DEF Depths
  <2> QED BY <2>1, <2>2
<1>2. A \subseteq S
  BY DEF AcceptedPackets, FirstOf, RoomyPackets
<1>3. IsFiniteSet(S) /\ IsOrder(S, EarlierPackets(S))
  BY ReadyOrdered
<1>4. \A p \in A : Cardinality(EarlierPackets(S)[p]) < room
  <2>1. \A p \in A : Cardinality({q \in ReadyPackets : q.source = p.source /\ PacketBefore(q, p)})
                       < router_input_fifo_depth - Len(router_input_fifos[p.source])
    BY DEF AcceptedPackets, FirstOf, RoomyPackets
  <2>2. \A p \in A : EarlierPackets(S)[p]
                       = {q \in ReadyPackets : q.source = p.source /\ PacketBefore(q, p)}
    BY <1>2 DEF EarlierPackets
  <2> QED BY <2>1, <2>2
<1>5. A \subseteq RoutedPacket /\ IsFiniteSet(A) /\ IsOrder(A, EarlierPackets(A))
      /\ A \subseteq ReadyPackets
  BY <1>2, ReadyOrdered
<1> HIDE DEF S, room, A
<1>6. n <= room
  <2> DEFINE b == EarlierPackets(S)
  <2>1. IsOrder(S, b) /\ \A p \in A : Cardinality(b[p]) < room
    BY <1>3, <1>4
  <2> HIDE DEF b
  <2> QED BY <2>1, <1>1, <1>2, <1>3, RankBound
<1>7. n \in Nat
  BY <1>5, FS_CardinalityType
<1>8. ASSUME NEW k \in 1 .. n
      PROVE  InOrder(A, PacketBefore)[k] \in A
  <2> DEFINE b == EarlierPackets(A)
             j == k - 1
  <2>1. j \in 0 .. n - 1
    BY <1>7
  <2>2. IsOrder(A, b)
    BY <1>5
  <2> HIDE DEF b, j
  <2>3. \E e \in A : Cardinality(b[e]) = j
    BY <2>1, <2>2, <1>5, RankTaken
  <2>4. \A e \in A : Cardinality(b[e]) = Rank(e, A, PacketBefore)
    BY DEF b, EarlierPackets, Rank
  <2>5. InOrder(A, PacketBefore)[k] = CHOOSE e \in A : Rank(e, A, PacketBefore) = j
    BY DEF InOrder, j
  <2> QED BY <2>3, <2>4, <2>5
<1>9. AcceptedFrom(s) = InOrder(A, PacketBefore)
  BY DEF AcceptedFrom, A
<1>10. AcceptedFrom(s) \in [1 .. n -> A]
  <2>1. AcceptedFrom(s) = [k \in 1 .. n |-> CHOOSE e \in A : Rank(e, A, PacketBefore) = k - 1]
    BY <1>9 DEF InOrder
  <2> QED BY <2>1, <1>8, <1>9
<1> HIDE DEF n
<1>11. /\ AcceptedFrom(s) \in Seq(A) /\ Len(AcceptedFrom(s)) = n
       /\ ToSet(AcceptedFrom(s)) \subseteq A
  BY <1>7, <1>10, FunctionIsSequence
<1>12. AcceptedFrom(s) \in Seq(RoutedPacket)
  BY <1>5, <1>11
<1> QED BY <1>5, <1>6, <1>11, <1>12 DEF room, A, n
-----------------------------------------------------------------------------
(* Packetizers. *)

\* The routes of a cycle are ordered by core and by route.
EarlierRoutes(S) == [x \in S |-> {y \in S : RouteBefore(y, x)}]

\* Core first, then route, is a total order.
LEMMA RoutesOrdered ==
    ASSUME NEW S, S \subseteq Nat \X Nat
    PROVE  IsOrder(S, EarlierRoutes(S))
<1> DEFINE b == EarlierRoutes(S)
<1>1. \A x \in S : x[1] \in Nat /\ x[2] \in Nat /\ x = <<x[1], x[2]>>
  OBVIOUS
<1>2. \A x \in S : b[x] = {y \in S : y[1] < x[1] \/ (y[1] = x[1] /\ y[2] < x[2])}
  BY DEF EarlierRoutes, RouteBefore
<1> HIDE DEF b
<1>3. \A x \in S : b[x] \subseteq S /\ x \notin b[x]
  BY <1>1, <1>2
<1>4. \A x, y \in S : x = y \/ x \in b[y] \/ y \in b[x]
  <2> SUFFICES ASSUME NEW x \in S, NEW y \in S, x # y
               PROVE  x \in b[y] \/ y \in b[x]
    OBVIOUS
  <2>1. x[1] # y[1] \/ x[2] # y[2]
    BY <1>1
  <2> QED BY <2>1, <1>1, <1>2
<1>5. ASSUME NEW x \in S, NEW y \in S, x \in b[y], NEW z \in b[x]
      PROVE  z \in b[y]
  <2>1. z \in S /\ (z[1] < x[1] \/ (z[1] = x[1] /\ z[2] < x[2]))
    BY <1>2
  <2>2. x[1] < y[1] \/ (x[1] = y[1] /\ x[2] < y[2])
    BY <1>2, <1>5
  <2>3. z[1] < y[1] \/ (z[1] = y[1] /\ z[2] < y[2])
    BY <2>1, <2>2, <1>1
  <2> QED BY <2>1, <2>3, <1>2
<1>6. IsOrder(S, b)
  BY <1>3, <1>4, <1>5 DEF IsOrder
<1> QED BY <1>6 DEF b

\* The routes packetized in a cycle are routes of the spikes being packetized, and the
\* packet pipeline has room for them.
LEMMA RoutesFit ==
    ASSUME StorageInv
    PROVE  /\ IsFiniteSet(PacketizedRoutes) /\ PacketizedRoutes \subseteq Nat \X Nat
           /\ Cardinality(PacketizedRoutes)
                <= router_input_fifo_depth * NumCores - Cardinality(packet_pipeline)
           /\ \A x \in PacketizedRoutes :
                /\ x[1] \in Cores /\ packetizer_work[x[1]] # <<>>
                /\ x[2] \in Head(packetizer_work[x[1]]).next_route ..
                              Len(Routes[x[1]][Head(packetizer_work[x[1]]).neuron])
<1> DEFINE room == router_input_fifo_depth * NumCores - Cardinality(packet_pipeline)
           S == UNION {RoutesLeft(c) : c \in Cores}
<1>1. ASSUME NEW c \in Cores
      PROVE  /\ IsFiniteSet(RoutesLeft(c)) /\ RoutesLeft(c) \subseteq Nat \X Nat
             /\ \A x \in RoutesLeft(c) :
                  /\ x[1] = c /\ packetizer_work[c] # <<>>
                  /\ x[2] \in Head(packetizer_work[c]).next_route ..
                                Len(Routes[c][Head(packetizer_work[c]).neuron])
  <2>1. CASE packetizer_work[c] = <<>>
    <3>1. RoutesLeft(c) = {}
      BY <2>1 DEF RoutesLeft
    <3> QED BY <3>1, FS_EmptySet
  <2>2. CASE packetizer_work[c] # <<>>
    <3> DEFINE w == Head(packetizer_work[c])
               n == Len(Routes[c][w.neuron])
               m == Min({w.next_route + packetizer_throughput - 1, n})
               f == [r \in w.next_route .. m |-> <<c, r>>]
    <3>1. packetizer_work[c] \in Seq(PacketizerWork(c))
      BY DEF StorageInv, RouterInv
    <3>2. w.next_route \in Nat /\ w.next_route >= 1 /\ w.neuron \in Neurons(c)
      <4>1. w \in PacketizerWork(c)
        BY <3>1, <2>2
      <4> HIDE DEF w
      <4> QED BY <4>1 DEF PacketizerWork
    <3>3. Routes[c][w.neuron] \in Seq(Route)
      BY <3>2, ProgramAssumption
    <3>4. n \in Nat /\ packetizer_throughput \in Nat
      <4> DEFINE row == Routes[c][w.neuron]
      <4>1. row \in Seq(Route)
        BY <3>3
      <4> HIDE DEF row
      <4>2. Len(row) \in Nat
        BY <4>1
      <4> QED BY <4>2, Positive DEF Rates, row
    <3>5. w.next_route + packetizer_throughput - 1 \in Int
      BY <3>2, <3>4
    <3>6. RoutesLeft(c) = {<<c, r>> : r \in w.next_route .. m}
      BY <2>2 DEF RoutesLeft
    <3> HIDE DEF n
    <3>7. m \in Int /\ m <= n
      <4> DEFINE last == w.next_route + packetizer_throughput - 1
      <4>1. last \in Int
        BY <3>5
      <4> HIDE DEF last
      <4>9. n \in Int
        BY <3>4
      <4>2. Min({last, n}) \in {last, n} /\ Min({last, n}) <= n
        BY <4>1, <4>9, LeastOfTwo
      <4>3. m = Min({last, n})
        BY DEF last
      <4> HIDE DEF m
      <4> QED BY <4>1, <4>2, <4>3, <3>4
    <3> HIDE DEF m
    <3>8. c \in Nat
      BY ProgramFinite
    <3>9. IsFiniteSet(w.next_route .. m)
      BY <3>2, <3>7, FS_Interval
    <3>10. \A x \in RoutesLeft(c) : \E r \in w.next_route .. m : x = f[r]
      BY <3>6
    <3>11. IsFiniteSet(RoutesLeft(c))
      <4> HIDE DEF f, w
      <4> QED BY <3>9, <3>10, ImageBound
    <3>12. \A r \in w.next_route .. m : r \in Nat /\ r \in w.next_route .. n
      BY <3>2, <3>4, <3>7
    <3> HIDE DEF f, w
    <3>13. \A x \in RoutesLeft(c) : x \in Nat \X Nat /\ x[1] = c /\ x[2] \in w.next_route .. n
      BY <3>6, <3>8, <3>12
    <3> QED BY <2>2, <3>11, <3>13 DEF w, n
  <2> QED BY <2>1, <2>2
<1>2. IsFiniteSet(S)
  <2> DEFINE T == {RoutesLeft(c) : c \in Cores}
             f == [c \in Cores |-> RoutesLeft(c)]
  <2>1. \A x \in T : \E c \in Cores : x = f[c]
    OBVIOUS
  <2>2. \A x \in T : IsFiniteSet(x)
    BY <1>1
  <2> HIDE DEF f, T
  <2>3. IsFiniteSet(T)
    BY <2>1, ProgramFinite, ImageBound
  <2>4. IsFiniteSet(UNION T)
    BY <2>2, <2>3, FS_UNION
  <2> QED BY <2>4 DEF T
<1>3. S \subseteq Nat \X Nat
  BY <1>1
<1>4. room \in Nat
  <2>1. Cardinality(packet_pipeline) \in Nat
        /\ Cardinality(packet_pipeline) <= router_input_fifo_depth * NumCores
    BY FS_CardinalityType DEF StorageInv, PacketInv
  <2>2. router_input_fifo_depth * NumCores \in Nat
    BY Positive
  <2> QED BY <2>1, <2>2
<1>5. PacketizedRoutes \subseteq S
  BY DEF PacketizedRoutes, FirstOf
<1>6. /\ IsFiniteSet(PacketizedRoutes) /\ Cardinality(PacketizedRoutes) <= room
  <2> DEFINE b == EarlierRoutes(S)
  <2>1. IsOrder(S, b)
    BY <1>3, RoutesOrdered
  <2>2. \A x \in PacketizedRoutes : Cardinality(b[x]) < room
    BY DEF PacketizedRoutes, FirstOf, Rank, EarlierRoutes
  <2> HIDE DEF b, S, room
  <2> QED BY <2>1, <2>2, <1>2, <1>4, <1>5, RankBound
<1>7. \A x \in PacketizedRoutes : \E c \in Cores : x \in RoutesLeft(c)
  BY <1>5
<1> HIDE DEF S, room
<1> QED BY <1>1, <1>3, <1>5, <1>6, <1>7 DEF room

\* The packets of a cycle, in their order: the k-th carries the k-th fresh identifier.
LEMMA NewPacketsFit ==
    ASSUME StorageInv, CurrentTick \in Nat
    PROVE  /\ Cardinality(PacketizedRoutes) \in Nat
           /\ DOMAIN NewPackets = 1 .. Cardinality(PacketizedRoutes)
           /\ \A k \in 1 .. Cardinality(PacketizedRoutes) :
                /\ NewPackets[k] \in RoutedPacket
                /\ NewPackets[k].event_id = next_event_id + k - 1
                /\ \E x \in PacketizedRoutes : NewPackets[k] = PacketFor(x)
<1> DEFINE S == PacketizedRoutes
           n == Cardinality(S)
<1>1. IsFiniteSet(S) /\ S \subseteq Nat \X Nat
  BY RoutesFit
<1>2. n \in Nat
  BY <1>1, FS_CardinalityType
<1>3. ASSUME NEW k \in 1 .. n
      PROVE  /\ InOrder(S, RouteBefore)[k] \in S
             /\ Cardinality({y \in S : RouteBefore(y, InOrder(S, RouteBefore)[k])}) = k - 1
  <2> DEFINE b == EarlierRoutes(S)
             j == k - 1
  <2>1. j \in 0 .. n - 1
    BY <1>2
  <2>2. IsOrder(S, b)
    BY <1>1, RoutesOrdered
  <2> HIDE DEF b, j, S
  <2>3. \E e \in S : Cardinality(b[e]) = j
    BY <2>1, <2>2, <1>1, RankTaken
  <2>4. \A e \in S : Cardinality(b[e]) = Rank(e, S, RouteBefore)
    BY DEF b, EarlierRoutes, Rank
  <2>5. InOrder(S, RouteBefore)[k] = CHOOSE e \in S : Rank(e, S, RouteBefore) = j
    BY DEF InOrder, j
  <2>6. InOrder(S, RouteBefore)[k] \in S /\ Rank(InOrder(S, RouteBefore)[k], S, RouteBefore) = j
    BY <2>3, <2>4, <2>5
  <2> QED BY <2>6 DEF Rank, j
<1>4. ASSUME NEW x \in S
      PROVE  /\ PacketFor(x) \in RoutedPacket
             /\ PacketFor(x).event_id
                  = next_event_id + Cardinality({y \in S : RouteBefore(y, x)})
  <2> DEFINE c == x[1]
             w == Head(packetizer_work[c])
             r == Routes[c][w.neuron][x[2]]
             id == next_event_id + Cardinality({y \in S : RouteBefore(y, x)})
  <2>1. PacketFor(x) = [event_id |-> id, source |-> c, neuron |-> w.neuron, core |-> r.core,
                        axon |-> r.axon, timestamp |-> w.tick + 1, priority |-> 0]
    BY DEF PacketFor
  <2>2. /\ c \in Cores /\ packetizer_work[c] # <<>>
        /\ x[2] \in w.next_route .. Len(Routes[c][w.neuron])
    BY RoutesFit
  <2>3. w \in PacketizerWork(c)
    BY <2>2 DEF StorageInv, RouterInv
  <2>4. w.next_route \in Nat /\ w.next_route >= 1 /\ w.neuron \in Neurons(c) /\ w.tick \in Nat
    BY <2>3 DEF PacketizerWork
  <2>5. Routes[c][w.neuron] \in Seq(Route)
    BY <2>2, <2>4, ProgramAssumption
  <2>6. x[2] \in 1 .. Len(Routes[c][w.neuron])
    <3> DEFINE row == Routes[c][w.neuron]
    <3>9. row \in Seq(Route)
      BY <2>5
    <3> HIDE DEF row
    <3>1. Len(row) \in Nat
      BY <3>9
    <3> USE DEF row
    <3> QED BY <3>1, <2>2, <2>4
  <2>7. r \in Route
    BY <2>5, <2>6
  <2>8. id \in Nat
    <3>1. IsFiniteSet({y \in S : RouteBefore(y, x)})
      BY <1>1, FS_Subset
    <3>2. Cardinality({y \in S : RouteBefore(y, x)}) \in Nat
      BY <3>1, FS_CardinalityType
    <3> QED BY <3>2 DEF StorageInv, PacketInv
  <2>9. w.neuron \in Nat
    BY <2>2, <2>4, ProgramFinite
  <2> HIDE DEF id, r, w, c
  <2>10. PacketFor(x) \in RoutedPacket
    BY <2>1, <2>2, <2>4, <2>7, <2>8, <2>9 DEF RoutedPacket, Packet, Route
  <2> QED BY <2>1, <2>10 DEF id
<1>5. NewPackets = [k \in 1 .. n |-> PacketFor(InOrder(S, RouteBefore)[k])]
  BY DEF NewPackets
<1> HIDE DEF S, n
<1>6. DOMAIN NewPackets = 1 .. n
  BY <1>5
<1>7. \A k \in 1 .. n : NewPackets[k] \in RoutedPacket
                        /\ NewPackets[k].event_id = next_event_id + (k - 1)
                        /\ \E x \in S : NewPackets[k] = PacketFor(x)
  BY <1>3, <1>4, <1>5
<1>8. next_event_id \in Nat
  BY DEF StorageInv, PacketInv
<1>9. \A k \in 1 .. n : next_event_id + (k - 1) = next_event_id + k - 1
  BY <1>2, <1>8
<1> QED BY <1>2, <1>6, <1>7, <1>9 DEF n, S
\* What remains of the packetizer work of a core.
LEMMA PacketizerKept ==
    ASSUME StorageInv, NEW c \in Cores
    PROVE  PacketizerWorkAfter(c) \in Seq(PacketizerWork(c)) /\ Len(PacketizerWorkAfter(c)) <= 1
<1> DEFINE w == Head(packetizer_work[c])
           s == Head(spike_fifo[c])
           n == Cardinality(PacketizedFrom(c))
           rest == [w EXCEPT !.next_route = @ + n]
           taken == [tick |-> s.tick, neuron |-> s.neuron, next_route |-> 1]
           more == packetizer_work[c] # <<>> /\ w.next_route + n <= Len(Routes[c][w.neuron])
           begun == SpikeTaken(c) /\ Routes[c][s.neuron] # <<>>
<1>1. PacketizerWorkAfter(c) = CASE more -> <<rest>> [] begun -> <<taken>> [] OTHER -> <<>>
  BY DEF PacketizerWorkAfter
<1>2. ASSUME packetizer_work[c] # <<>>
      PROVE  rest \in PacketizerWork(c)
  <2>1. packetizer_work[c] \in Seq(PacketizerWork(c))
    BY DEF StorageInv, RouterInv
  <2>2. w \in PacketizerWork(c)
    BY <1>2, <2>1
  <2>3. n \in Nat
    <3>1. IsFiniteSet(PacketizedFrom(c))
      BY RoutesFit, FS_Subset DEF PacketizedFrom
    <3> QED BY <3>1, FS_CardinalityType
  <2> HIDE DEF w, n
  <2> QED BY <2>2, <2>3 DEF PacketizerWork
<1>3. ASSUME spike_fifo[c] # <<>>
      PROVE  taken \in PacketizerWork(c)
  <2>1. spike_fifo[c] \in Seq(CycleSpike(c))
    BY DEF StorageInv, NeuronInv
  <2>2. s \in CycleSpike(c)
    BY <1>3, <2>1
  <2> HIDE DEF s
  <2> QED BY <2>2 DEF PacketizerWork, CycleSpike
<1>4. more => ~begun
  BY DEF SpikeTaken
<1>5. more => rest \in PacketizerWork(c)
  BY <1>2
<1>6. begun => taken \in PacketizerWork(c)
  BY <1>3 DEF SpikeTaken
<1> HIDE DEF rest, taken, more, begun
<1>7. \A e \in PacketizerWork(c) : <<e>> \in Seq(PacketizerWork(c)) /\ Len(<<e>>) = 1
  OBVIOUS
<1>8. CASE more
  <2>1. PacketizerWorkAfter(c) = <<rest>>
    BY <1>1, <1>4, <1>8
  <2> QED BY <2>1, <1>5, <1>7, <1>8
<1>9. CASE ~more /\ begun
  <2>1. PacketizerWorkAfter(c) = <<taken>>
    BY <1>1, <1>9
  <2> QED BY <2>1, <1>6, <1>7, <1>9
<1>10. CASE ~more /\ ~begun
  <2>1. PacketizerWorkAfter(c) = <<>>
    BY <1>1, <1>10
  <2> QED BY <2>1
<1> QED BY <1>4, <1>8, <1>9, <1>10

-----------------------------------------------------------------------------
(* Router. *)

\* A grant is to a core with a packet at the head of its router input.
LEMMA GrantsAreRequests ==
    ASSUME StorageInv, NEW g \in GrantSeqs
    PROVE  /\ g \in Seq(Requesters) /\ Requesters \subseteq Cores
           /\ DOMAIN g = 1 .. Len(g)
           /\ \A i \in 1 .. Len(g) :
                /\ g[i] \in Cores /\ router_input_fifos[g[i]] # <<>>
                /\ RequestOf(g[i]) \in RoutedPacket
                /\ RequestOf(g[i]) \in ToSet(router_input_fifos[g[i]])
<1>1. PICK k \in Nat : g \in [1 .. k -> Requesters]
  <2> DEFINE K == 0 .. Min({router_packets_accepted_per_cycle, NumCores})
  <2>1. PICK k \in K : g \in [1 .. k -> Requesters]
    BY DEF GrantSeqs
  <2>2. router_packets_accepted_per_cycle \in Int /\ NumCores \in Int
    BY Positive, ProgramAssumption DEF Rates
  <2>3. Min({router_packets_accepted_per_cycle, NumCores}) \in Int
    BY <2>2, LeastOfTwo
  <2>4. k \in Nat
    BY <2>1, <2>3
  <2> QED BY <2>1, <2>4
<1>2. g \in Seq(Requesters) /\ DOMAIN g = 1 .. Len(g)
  BY <1>1
<1>3. ASSUME NEW s \in Requesters
      PROVE  /\ s \in Cores /\ router_input_fifos[s] # <<>>
             /\ RequestOf(s) \in RoutedPacket
             /\ RequestOf(s) \in ToSet(router_input_fifos[s])
  <2>1. s \in Cores /\ router_input_fifos[s] # <<>>
    BY DEF Requesters
  <2>2. router_input_fifos[s] \in Seq(RoutedPacket)
    BY <2>1 DEF StorageInv, RouterInv
  <2> QED BY <2>1, <2>2, TailHolds DEF RequestOf
<1>4. \A i \in 1 .. Len(g) : g[i] \in Requesters
  BY <1>2
<1> QED BY <1>2, <1>3, <1>4

\* The packets granted to a router output are for its core, and it has room for them.
LEMMA GrantedFits ==
    ASSUME StorageInv, NEW g \in GrantSeqs, IsArbitration(g), NEW d \in Cores
    PROVE  /\ GrantedTo(g, d) \in Seq(HeldPacket(d))
           /\ Len(GrantedTo(g, d)) <= router_output_fifo_depth - Len(router_output_fifos[d])
           /\ ToSet(GrantedTo(g, d)) \subseteq {RequestOf(g[i]) : i \in 1 .. Len(g)}
           /\ Len(GrantedTo(g, d)) = Cardinality({i \in 1 .. Len(g) : RequestOf(g[i]).core = d})
<1> DEFINE I == {i \in 1 .. Len(g) : RequestOf(g[i]).core = d}
           q == [i \in 1 .. Len(g) |-> RequestOf(g[i])]
           room == router_output_fifo_depth - Len(router_output_fifos[d])
<1>1. /\ Len(g) \in Nat /\ \A i \in 1 .. Len(g) : RequestOf(g[i]) \in RoutedPacket
  BY GrantsAreRequests
<1>2. q \in [1 .. Len(g) -> RoutedPacket]
  BY <1>1
<1>3. \A i \in 1 .. Len(g) : q[i] = RequestOf(g[i])
  OBVIOUS
<1> DEFINE n == Len(g)
<1> HIDE DEF q
<1>4. q \in Seq(RoutedPacket) /\ Len(q) = Len(g)
  <2>1. n \in Nat /\ q \in [1 .. n -> RoutedPacket]
    BY <1>1, <1>2
  <2> HIDE DEF n
  <2>2. q \in Seq(RoutedPacket) /\ Len(q) = n
    BY <2>1, FunctionIsSequence
  <2> QED BY <2>2 DEF n
<1>5. I \subseteq 1 .. Len(q)
  BY <1>4
<1>6. /\ IsFiniteSet(I)
      /\ GrantedTo(g, d) \in Seq(RoutedPacket) /\ Len(GrantedTo(g, d)) = Cardinality(I)
      /\ ToSet(GrantedTo(g, d)) \subseteq {q[i] : i \in I}
  <2>1. GrantedTo(g, d) = Picked(q, I)
    BY DEF GrantedTo, q
  <2> HIDE DEF I
  <2> QED BY <2>1, <1>4, <1>5, PickedHolds
<1>7. ToSet(GrantedTo(g, d)) \subseteq HeldPacket(d)
  <2>1. \A i \in I : q[i] \in HeldPacket(d)
    BY <1>1, <1>3 DEF HeldPacket, RoutedPacket
  <2> QED BY <2>1, <1>6
<1>8. room \in Nat
  <2>1. router_output_fifos[d] \in Seq(HeldPacket(d))
        /\ Len(router_output_fifos[d]) <= router_output_fifo_depth
    BY DEF StorageInv, RouterInv
  <2>2. router_output_fifo_depth \in Nat
    BY Positive DEF Depths
  <2> QED BY <2>1, <2>2
<1>9. Cardinality(I) <= room
  <2> DEFINE b == LowerIn(I)
  <2>1. IsOrder(I, b)
    <3>1. I \subseteq Int
      OBVIOUS
    <3> QED BY <3>1, IndicesOrdered
  <2>2. ASSUME NEW i \in I
        PROVE  Cardinality(b[i]) < room
    <3>1. g[i] \in Grantable(g, i - 1)
      BY DEF IsArbitration
    <3>2. Len(router_output_fifos[d]) + Cardinality({j \in 1 .. i - 1 : RequestOf(g[j]).core = d})
            < router_output_fifo_depth
      BY <3>1 DEF Grantable
    <3>3. b[i] = {j \in 1 .. i - 1 : RequestOf(g[j]).core = d}
      <4>1. b[i] = {j \in I : j < i}
        BY DEF LowerIn
      <4>2. \A j : j \in I /\ j < i <=> j \in 1 .. i - 1 /\ RequestOf(g[j]).core = d
        BY <1>1
      <4> QED BY <4>1, <4>2
    <3>4. IsFiniteSet(b[i])
      <4>1. b[i] \subseteq I
        BY DEF LowerIn
      <4> QED BY <4>1, <1>6, FS_Subset
    <3>5. Cardinality(b[i]) \in Nat
      BY <3>4, FS_CardinalityType
    <3>6. Len(router_output_fifos[d]) \in Nat /\ router_output_fifo_depth \in Nat
      BY Positive DEF Depths, StorageInv, RouterInv
    <3> HIDE DEF b, I
    <3> QED BY <3>2, <3>3, <3>5, <3>6
  <2> HIDE DEF I, b, room
  <2> QED BY <2>1, <2>2, <1>6, <1>8, RankBound
<1>10. ToSet(GrantedTo(g, d)) \subseteq {RequestOf(g[i]) : i \in 1 .. Len(g)}
  BY <1>3, <1>6
<1>11. GrantedTo(g, d) \in Seq(HeldPacket(d))
  BY <1>6, <1>7, HeldIn
<1>12. Len(GrantedTo(g, d)) = Cardinality({i \in 1 .. Len(g) : RequestOf(g[i]).core = d})
  BY <1>6
<1> HIDE DEF I
<1> QED BY <1>6, <1>9, <1>10, <1>11, <1>12

\* The packetizer and the router FIFOs of a core after the cycle.
LEMMA RouterKept ==
    ASSUME StorageInv, NEW g \in GrantSeqs, IsArbitration(g), MoveNetwork(g), NEW c \in Cores
    PROVE  RouterInv(c)'
<1>1. /\ router_input_fifos[c] \in Seq(RoutedPacket)
      /\ Len(router_input_fifos[c]) <= router_input_fifo_depth
      /\ router_output_fifos[c] \in Seq(HeldPacket(c))
      /\ Len(router_output_fifos[c]) <= router_output_fifo_depth
  BY DEF StorageInv, RouterInv
<1>2. router_input_fifo_depth \in Nat /\ router_output_fifo_depth \in Nat
  BY Positive DEF Depths
<1>3. packetizer_work'[c] \in Seq(PacketizerWork(c)) /\ Len(packetizer_work'[c]) <= 1
  BY PacketizerKept DEF MoveNetwork
<1>4. /\ router_input_fifos'[c] \in Seq(RoutedPacket)
      /\ Len(router_input_fifos'[c]) <= router_input_fifo_depth
  <2> DEFINE kept == IF c \in ToSet(g) THEN Tail(router_input_fifos[c]) ELSE router_input_fifos[c]
  <2>1. router_input_fifos'[c] = kept \o AcceptedFrom(c)
    BY DEF MoveNetwork
  <2>2. c \in ToSet(g) => router_input_fifos[c] # <<>>
    BY GrantsAreRequests DEF ToSet
  <2>3. kept \in Seq(RoutedPacket) /\ Len(kept) <= Len(router_input_fifos[c])
    <3>1. CASE c \in ToSet(g)
      BY <3>1, <2>2, <1>1, TailHolds
    <3>2. CASE c \notin ToSet(g)
      BY <3>2, <1>1
    <3> QED BY <3>1, <3>2
  <2> HIDE DEF kept
  <2>4. /\ AcceptedFrom(c) \in Seq(RoutedPacket)
        /\ Len(AcceptedFrom(c)) <= router_input_fifo_depth - Len(router_input_fifos[c])
    BY AcceptedFits
  <2>5. /\ kept \o AcceptedFrom(c) \in Seq(RoutedPacket)
        /\ Len(kept \o AcceptedFrom(c)) = Len(kept) + Len(AcceptedFrom(c))
    BY <2>3, <2>4, ConcatHolds
  <2>6. Len(kept) \in Nat /\ Len(AcceptedFrom(c)) \in Nat /\ Len(router_input_fifos[c]) \in Nat
    BY <2>3, <2>4, <1>1
  <2> QED BY <2>1, <2>3, <2>4, <2>5, <2>6, <1>2
<1>5. /\ router_output_fifos'[c] \in Seq(HeldPacket(c))
      /\ Len(router_output_fifos'[c]) <= router_output_fifo_depth
  <2> DEFINE kept == SubSeq(router_output_fifos[c], Transmitted(c) + 1, Len(router_output_fifos[c]))
  <2>1. router_output_fifos'[c] = kept \o GrantedTo(g, c)
    BY DEF MoveNetwork
  <2>2. Transmitted(c) \in 0 .. Len(router_output_fifos[c])
    BY TransmittedFits
  <2>3. kept \in Seq(HeldPacket(c)) /\ Len(kept) = Len(router_output_fifos[c]) - Transmitted(c)
    BY <2>2, <1>1, RestHolds
  <2> HIDE DEF kept
  <2>4. /\ GrantedTo(g, c) \in Seq(HeldPacket(c))
        /\ Len(GrantedTo(g, c)) <= router_output_fifo_depth - Len(router_output_fifos[c])
    BY GrantedFits
  <2>5. /\ kept \o GrantedTo(g, c) \in Seq(HeldPacket(c))
        /\ Len(kept \o GrantedTo(g, c)) = Len(kept) + Len(GrantedTo(g, c))
    BY <2>3, <2>4, ConcatHolds
  <2>6. Len(kept) \in Nat /\ Len(GrantedTo(g, c)) \in Nat /\ Len(router_output_fifos[c]) \in Nat
    BY <2>3, <2>4, <1>1
  <2> QED BY <2>1, <2>2, <2>3, <2>4, <2>5, <2>6, <1>2
<1> QED BY <1>3, <1>4, <1>5 DEF RouterInv, PacketizerWork, RoutedPacket, HeldPacket, Packet

\* The packet pipeline after the cycle: what was not accepted and the new packets.
LEMMA PacketsKept ==
    ASSUME StorageInv, CurrentTick \in Nat, NEW g \in GrantSeqs, MoveNetwork(g)
    PROVE  PacketInv'
<1> DEFINE kept == {x \in packet_pipeline : x.packet \notin AcceptedPackets}
           older == {Waited(e) : e \in kept}
           fresh(i) == Waited([packet |-> NewPackets[i], wait |-> packetizer_latency])
           newer == {fresh(i) : i \in DOMAIN NewPackets}
           n == Cardinality(PacketizedRoutes)
           bound == router_input_fifo_depth * NumCores
           Entry == [packet : RoutedPacket, wait : 0 .. packetizer_latency - 1]
<1>1. PacketInv
  BY DEF StorageInv
<1>2. /\ n \in Nat /\ DOMAIN NewPackets = 1 .. n
      /\ \A k \in 1 .. n : /\ NewPackets[k] \in RoutedPacket
                            /\ NewPackets[k].event_id = next_event_id + k - 1
      /\ n <= bound - Cardinality(packet_pipeline)
  BY NewPacketsFit, RoutesFit
<1>3. packet_pipeline' = older \cup newer /\ next_event_id' = next_event_id + n
  BY DEF MoveNetwork
<1>4. packetizer_latency \in Nat /\ packetizer_latency >= 1 /\ bound \in Nat
  BY Positive DEF Latencies
<1>5. ASSUME NEW e \in Entry
      PROVE  Waited(e) \in Entry /\ Waited(e).packet = e.packet
  BY <1>4 DEF Waited
<1>6. ASSUME NEW k \in 1 .. n
      PROVE  fresh(k) \in Entry /\ fresh(k).packet = NewPackets[k]
  <2>1. NewPackets[k] \in RoutedPacket
    BY <1>2
  <2> QED BY <2>1, <1>4 DEF Waited
<1>7. kept \subseteq packet_pipeline /\ packet_pipeline \subseteq Entry /\ IsFiniteSet(packet_pipeline)
  BY <1>1 DEF PacketInv
<1>8. older \subseteq Entry /\ newer \subseteq Entry
  BY <1>2, <1>5, <1>6, <1>7
<1>9. \A e \in older : \E f \in kept : e = Waited(f) /\ e.packet = f.packet
  BY <1>5, <1>7
<1>10. \A e \in newer : \E k \in 1 .. n : e = fresh(k) /\ e.packet = NewPackets[k]
  BY <1>2, <1>6
<1>11. next_event_id \in Nat /\ \A e \in packet_pipeline : e.packet.event_id < next_event_id
  BY <1>1 DEF PacketInv
<1>12. \A e \in packet_pipeline : e.packet.event_id \in Nat
  BY <1>7 DEF RoutedPacket, Packet
<1>13. /\ IsFiniteSet(older) /\ IsFiniteSet(newer)
       /\ Cardinality(older) <= Cardinality(packet_pipeline)
       /\ Cardinality(newer) <= n
  <2> DEFINE step == [e \in kept |-> Waited(e)]
             enter == [k \in 1 .. n |-> fresh(k)]
  <2>1. \A y \in older : \E e \in kept : y = step[e]
    OBVIOUS
  <2>2. \A y \in newer : \E k \in 1 .. n : y = enter[k]
    BY <1>2
  <2>3. IsFiniteSet(kept) /\ Cardinality(kept) <= Cardinality(packet_pipeline)
    BY <1>7, FS_Subset
  <2>4. IsFiniteSet(1 .. n) /\ Cardinality(1 .. n) = n
    BY <1>2, FS_Interval
  <2> HIDE DEF step, enter, older, newer, kept, n, fresh
  <2>5. IsFiniteSet(older) /\ Cardinality(older) <= Cardinality(kept)
    BY <2>1, <2>3, ImageBound
  <2>6. IsFiniteSet(newer) /\ Cardinality(newer) <= n
    BY <2>2, <2>4, ImageBound
  <2>7. /\ Cardinality(older) \in Nat /\ Cardinality(kept) \in Nat
        /\ Cardinality(packet_pipeline) \in Nat
    BY <2>3, <2>5, <1>7, FS_CardinalityType
  <2> QED BY <2>3, <2>5, <2>6, <2>7
<1> HIDE DEF kept, older, newer, fresh, n, bound, Entry
<1>14. IsFiniteSet(packet_pipeline') /\ Cardinality(packet_pipeline') <= bound
  <2>1. /\ IsFiniteSet(older \cup newer)
        /\ Cardinality(older \cup newer) <= Cardinality(older) + Cardinality(newer)
    BY <1>13, UnionBound
  <2>2. /\ Cardinality(older) \in Nat /\ Cardinality(newer) \in Nat
        /\ Cardinality(packet_pipeline) \in Nat /\ Cardinality(older \cup newer) \in Nat
    BY <2>1, <1>7, <1>13, FS_CardinalityType
  <2> QED BY <2>1, <2>2, <1>2, <1>3, <1>4, <1>13
<1>15. \A e \in older : e.packet.event_id \in Nat /\ e.packet.event_id < next_event_id
  BY <1>7, <1>9, <1>11, <1>12
<1>16. \A e \in newer : \E k \in 1 .. n : e = fresh(k) /\ e.packet.event_id = next_event_id + k - 1
  BY <1>2, <1>10
<1>17. \A e \in packet_pipeline' : e.packet.event_id < next_event_id'
  <2>1. \A e \in older : e.packet.event_id < next_event_id + n
    BY <1>2, <1>11, <1>15
  <2>2. \A e \in newer : e.packet.event_id < next_event_id + n
    BY <1>2, <1>11, <1>16
  <2> QED BY <2>1, <2>2, <1>3
<1>18. \A e, f \in packet_pipeline' : e.packet.event_id = f.packet.event_id => e = f
  <2> SUFFICES ASSUME NEW e \in older \cup newer, NEW f \in older \cup newer,
                      e.packet.event_id = f.packet.event_id
               PROVE  e = f
    BY <1>3
  <2>1. CASE e \in older /\ f \in older
    <3>1. PICK x \in kept : e = Waited(x) /\ e.packet = x.packet
      BY <2>1, <1>9
    <3>2. PICK y \in kept : f = Waited(y) /\ f.packet = y.packet
      BY <2>1, <1>9
    <3>3. x = y
      BY <3>1, <3>2, <1>1, <1>7 DEF PacketInv
    <3> QED BY <3>1, <3>2, <3>3
  <2>2. CASE e \in newer /\ f \in newer
    <3>1. PICK k \in 1 .. n : e = fresh(k) /\ e.packet.event_id = next_event_id + k - 1
      BY <2>2, <1>16
    <3>2. PICK m \in 1 .. n : f = fresh(m) /\ f.packet.event_id = next_event_id + m - 1
      BY <2>2, <1>16
    <3>3. k = m
      BY <3>1, <3>2, <1>2, <1>11
    <3> QED BY <3>1, <3>2, <3>3
  <2>3. CASE (e \in older /\ f \in newer) \/ (e \in newer /\ f \in older)
    <3>1. ASSUME NEW x \in older, NEW y \in newer
          PROVE  x.packet.event_id # y.packet.event_id
      <4>1. PICK k \in 1 .. n : y.packet.event_id = next_event_id + k - 1
        BY <1>16
      <4>2. x.packet.event_id < next_event_id /\ x.packet.event_id \in Nat
        BY <1>15
      <4> QED BY <4>1, <4>2, <1>2, <1>11
    <3> QED BY <2>3, <3>1
  <2> QED BY <2>1, <2>2, <2>3
<1>19. next_event_id' \in Nat
  BY <1>2, <1>3, <1>11
<1>20. router_round_robin_pointer' \in Cores
  <2>1. router_round_robin_pointer' = PointerAfter(g, Len(g))
    BY DEF MoveNetwork
  <2>2. CASE Len(g) = 0
    BY <2>1, <2>2, <1>1 DEF PointerAfter, PacketInv
  <2>3. CASE Len(g) # 0
    <3>1. g[Len(g)] \in Nat
      <4>1. Len(g) \in 1 .. Len(g)
        BY <2>3, GrantsAreRequests
      <4> QED BY <4>1, GrantsAreRequests, ProgramFinite
    <3>2. NumCores \in Nat /\ NumCores > 0
      BY ProgramAssumption
    <3>3. (g[Len(g)] + 1) % NumCores \in 0 .. NumCores - 1
      <4> DEFINE a == g[Len(g)] + 1
      <4>1. a \in Nat
        BY <3>1
      <4> HIDE DEF a
      <4>2. a % NumCores \in 0 .. NumCores - 1
        BY <4>1, <3>2
      <4> QED BY <4>2 DEF a
    <3> QED BY <2>1, <2>3, <3>3 DEF PointerAfter, Cores
  <2> QED BY <2>2, <2>3
<1>21. packet_pipeline' \subseteq Entry
  BY <1>3, <1>8
<1> QED BY <1>14, <1>17, <1>18, <1>19, <1>20, <1>21 DEF PacketInv, bound, Entry, RoutedPacket, Packet
-----------------------------------------------------------------------------
(* One cycle. *)

\* The controller after the cycle.
LEMMA ControlKept ==
    ASSUME StorageInv, StepCycle
    PROVE  ControlInv'
<1>1. ControlInv /\ CurrentTick \in Nat
  BY TickOfCycle DEF StorageInv, StepCycle
<1>2. logical_tick' \in Nat /\ explicit_ticks' \in BOOLEAN /\ inputs_closed' \in BOOLEAN
  BY <1>1 DEF StepCycle, ControlInv, hostVars
<1>3. explicit_tick_ids' \in Seq(Nat)
  <2>1. CASE explicit_ticks /\ ~tick_active
    <3>1. explicit_tick_ids # <<>>
      BY <2>1 DEF StepCycle, HasWork, NextPendingTick
    <3> QED BY <2>1, <3>1, <1>1, TailHolds DEF StepCycle, ControlInv
  <2>2. CASE ~(explicit_ticks /\ ~tick_active)
    BY <2>2, <1>1 DEF StepCycle, ControlInv
  <2> QED BY <2>1, <2>2
<1>4. PICK g \in GrantSeqs :
        /\ MoveEvents
        /\ \/ AdvanceControl /\ CheckDeadlock(TRUE)
           \/ StayInPhase /\ CheckDeadlock(Transfers(g))
  BY DEF StepCycle
<1>5. events_admitted' \in Nat /\ packets_admitted' \in Nat
  <2>1. \A S : S \subseteq Cores => Cardinality(S) \in Nat
    BY ProgramFinite, FS_Subset, FS_CardinalityType
  <2> DEFINE a == Cardinality({c \in Cores : IngressWins(c, 0)})
             b == Cardinality({c \in Cores : IngressWins(c, 1)})
  <2>2. a \in Nat /\ b \in Nat
    BY <2>1
  <2>3. events_admitted' = events_admitted + a /\ packets_admitted' = packets_admitted + b
    BY <1>4 DEF MoveEvents
  <2>4. events_admitted \in Nat /\ packets_admitted \in Nat
    BY <1>1 DEF ControlInv
  <2> HIDE DEF a, b
  <2> QED BY <2>2, <2>3, <2>4
<1>6. tick_active' \in BOOLEAN /\ last_completed_tick' \in Nat \cup {NoTick}
  BY <1>1, <1>4 DEF AdvanceControl, HoldEmptyTick, EnterNeuron, EnterPacketize, EnterBarrier,
                    CompleteTick, StayInPhase, ControlInv
<1>7. PICK progress \in BOOLEAN :
        /\ no_progress_cycles' = IF progress \/ FutureTransition' THEN 0
                                 ELSE no_progress_cycles + 1
        /\ error' = IF no_progress_cycles' > deadlock_detection_threshold
                    THEN "deadlock" ELSE "none"
  <2>1. CASE AdvanceControl /\ CheckDeadlock(TRUE)
    BY <2>1 DEF CheckDeadlock
  <2>2. CASE StayInPhase /\ CheckDeadlock(Transfers(g))
    <3>1. Transfers(g) \in BOOLEAN
      BY DEF Transfers
    <3> QED BY <2>2, <3>1 DEF CheckDeadlock
  <2> QED BY <1>4, <2>1, <2>2
<1>8. no_progress_cycles \in Nat /\ no_progress_cycles <= deadlock_detection_threshold
  BY <1>1, Positive DEF ControlInv, StepCycle
<1>9. /\ no_progress_cycles' \in 0 .. deadlock_detection_threshold + 1
      /\ error' \in {"none", "deadlock", "omitted tick"}
      /\ error' = "none" => no_progress_cycles' <= deadlock_detection_threshold
  BY <1>7, <1>8, Positive
<1> QED BY <1>2, <1>3, <1>5, <1>6, <1>9 DEF ControlInv

\* A cycle keeps the invariant.
LEMMA CycleKeepsStorage ==
    ASSUME StorageInv, StepCycle
    PROVE  StorageInv'
<1>1. CurrentTick \in Nat
  BY TickOfCycle DEF StepCycle
<1>2. PICK g \in GrantSeqs :
        /\ IsArbitration(g) /\ MoveNetwork(g) /\ MoveNeurons /\ MoveContributions /\ MoveEvents
        /\ AdvanceControl \/ StayInPhase
  BY DEF StepCycle
<1>3. WorkInv'
  BY <1>2, CycleKeepsPartition DEF StorageInv
<1>4. ControlInv'
  BY ControlKept
<1>5. SourceInv'
  <2>1. source_events' = source_events
    BY DEF StepCycle, hostVars
  <2>2. source_index' = source_index + SourceCount
    BY <1>2 DEF MoveEvents
  <2>3. SourceCount \in 0 .. Len(source_events) - source_index
    BY SourcedFits, ProgramFinite
  <2>4. source_index \in 0 .. Len(source_events) /\ Len(source_events) \in Nat
    BY DEF StorageInv, SourceInv
  <2>5. source_index' \in 0 .. Len(source_events)
    BY <2>2, <2>3, <2>4
  <2> QED BY <2>1, <2>5 DEF StorageInv, SourceInv, Event
<1>6. PacketInv'
  BY <1>1, <1>2, PacketsKept
<1>7. PortsInv'
  BY <1>2 DEF PortsInv, MoveNetwork, MoveEvents
<1>8. ASSUME NEW c \in Cores
      PROVE  IngressInv(c)' /\ LookupInv(c)' /\ ContributionInv(c)' /\ NeuronInv(c)' /\ RouterInv(c)'
  <2>1. IngressInv(c)'
    BY <1>2, IngressKept
  <2>2. LookupInv(c)'
    BY <1>2, LookupKept
  <2>3. ContributionInv(c)'
    BY <1>1, <1>2, ContributionKept
  <2>4. NeuronInv(c)'
    BY <1>1, <1>2, <2>3, NeuronKept
  <2>5. RouterInv(c)'
    BY <1>2, RouterKept
  <2> QED BY <2>1, <2>2, <2>3, <2>4, <2>5
<1> QED BY <1>3, <1>4, <1>5, <1>6, <1>7, <1>8 DEF StorageInv

-----------------------------------------------------------------------------
(* The host. *)

\* A step that leaves the registers of the cores and of the network alone keeps what the
\* invariant says of them.
LEMMA CoresUntouched ==
    ASSUME StorageInv, UNCHANGED <<coreVars, networkVars>>
    PROVE  /\ \A c \in Cores : LookupInv(c)' /\ ContributionInv(c)' /\ NeuronInv(c)'
           /\ UNCHANGED <<phase, tick_active>> => WorkInv'
<1>1. ASSUME NEW c \in Cores
      PROVE  LookupInv(c)' /\ ContributionInv(c)' /\ NeuronInv(c)'
  <2>1. LookupInv(c) /\ ContributionInv(c) /\ NeuronInv(c)
    BY DEF StorageInv
  <2>2. LookupInv(c)'
    BY <2>1 DEF LookupInv, coreVars, HeldLookup, HeldWork, AxonLookup, SynapseWork
  <2>3. ContributionInv(c)'
    BY <2>1 DEF ContributionInv, coreVars, PipedContribution, HeldContribution
  <2>4. NeuronInv(c)'
    BY <2>1 DEF NeuronInv, coreVars, NeuronWork, CycleSpike
  <2> QED BY <2>2, <2>3, <2>4
<1>2. UNCHANGED <<phase, tick_active>> => WorkInv'
  BY OthersKeepPartition DEF StorageInv, coreVars
<1> QED BY <1>1, <1>2

\* load_input_source gives every event an identifier of its own and the index starts at 0.
LEMMA LoadSourceKeeps ==
    ASSUME StorageInv, NEW events \in Sources, LoadInputSource(events)
    PROVE  StorageInv'
<1> USE DEF LoadInputSource
<1>1. /\ \A c \in Cores : LookupInv(c)' /\ ContributionInv(c)' /\ NeuronInv(c)'
      /\ WorkInv'
  BY CoresUntouched DEF controlVars
<1>2. events \in Seq([timestamp : Int, core : Int, axon : Int, priority : Int])
  BY HostAssumption
<1>3. Len(events) \in Nat /\ DOMAIN events = 1 .. Len(events)
  BY <1>2
<1>4. next_event_id \in Nat /\ source_events = <<>> /\ source_index \in 0 .. Len(source_events)
  BY DEF StorageInv, PacketInv, SourceInv
<1>5. SourceInv'
  <2> DEFINE C == {e \in Event : e.axon \in Axons(e.core)}
             entry(i) == CycleInput(events[i], next_event_id + i - 1)
  <2>1. ASSUME NEW i \in 1 .. Len(events)
        PROVE  entry(i) \in C
    <3>1. IsInputEvent(events[i])
      BY <1>3
    <3>2. /\ events[i].core \in Cores /\ events[i].axon \in Axons(events[i].core)
          /\ events[i].timestamp \in Nat /\ events[i].priority \in Nat
      BY <3>1 DEF IsInputEvent
    <3>3. events[i].axon \in Nat
      BY <3>2, ProgramAssumption
    <3>4. next_event_id + i - 1 \in Nat
      BY <1>3, <1>4
    <3> QED BY <3>2, <3>3, <3>4 DEF CycleInput, Event
  <2>2. source_events' = [i \in 1 .. Len(events) |-> entry(i)]
    BY <1>3
  <2> DEFINE n == Len(events)
  <2> HIDE DEF C, entry, n
  <2>3. source_events' \in [1 .. n -> C] /\ n \in Nat
    BY <1>3, <2>1, <2>2 DEF n
  <2>4. source_events' \in Seq(C)
    BY <2>3, FunctionIsSequence
  <2>5. source_index' = 0 /\ Len(source_events') \in Nat
    BY <1>4, <2>4
  <2>6. source_index' \in 0 .. Len(source_events')
    BY <2>5
  <2> QED BY <2>4, <2>6 DEF SourceInv, C, Event
<1>6. ControlInv'
  BY DEF StorageInv, ControlInv, controlVars, resultVars
<1>7. PacketInv'
  <2>1. next_event_id' = next_event_id + Len(events)
    OBVIOUS
  <2>2. \A e \in packet_pipeline : e.packet.event_id \in Nat
    BY DEF StorageInv, PacketInv, RoutedPacket, Packet
  <2>3. \A e \in packet_pipeline : e.packet.event_id < next_event_id'
    BY <2>1, <2>2, <1>3, <1>4 DEF StorageInv, PacketInv
  <2>4. next_event_id' \in Nat
    BY <2>1, <1>3, <1>4
  <2> QED BY <2>3, <2>4 DEF StorageInv, PacketInv, networkVars, RoutedPacket, Packet
<1>8. PortsInv'
  BY DEF StorageInv, PortsInv
<1>9. \A c \in Cores : IngressInv(c)' /\ RouterInv(c)'
  <2>1. \A c \in Cores : IngressInv(c)'
    BY DEF StorageInv, IngressInv, coreVars, HeldEvent, HeldPacket, Event, Packet
  <2>2. \A c \in Cores : RouterInv(c)'
    BY DEF StorageInv, RouterInv, coreVars, networkVars, PacketizerWork, RoutedPacket,
           HeldPacket, Packet
  <2> QED BY <2>1, <2>2
<1> QED BY <1>1, <1>5, <1>6, <1>7, <1>8, <1>9 DEF StorageInv

\* load_logical_ticks replaces the list of ticks.
LEMMA LoadTicksKeeps ==
    ASSUME StorageInv, NEW ticks \in TickLists, LoadLogicalTicks(ticks)
    PROVE  StorageInv'
<1> USE DEF LoadLogicalTicks
<1>1. /\ \A c \in Cores : LookupInv(c)' /\ ContributionInv(c)' /\ NeuronInv(c)'
      /\ WorkInv'
  BY CoresUntouched
<1>2. ticks \in Seq(Nat)
  BY HostAssumption
<1>3. ControlInv'
  BY <1>2 DEF StorageInv, ControlInv, hostVars, resultVars
<1>4. SourceInv' /\ PortsInv'
  BY DEF StorageInv, SourceInv, PortsInv, hostVars, Event
<1>5. PacketInv'
  BY DEF StorageInv, PacketInv, networkVars, RoutedPacket, Packet
<1>6. \A c \in Cores : IngressInv(c)'
  BY DEF StorageInv, IngressInv, coreVars, HeldEvent, HeldPacket, Event, Packet
<1>7. \A c \in Cores : RouterInv(c)'
  BY DEF StorageInv, RouterInv, coreVars, networkVars, PacketizerWork, RoutedPacket,
         HeldPacket, Packet
<1> QED BY <1>1, <1>3, <1>4, <1>5, <1>6, <1>7 DEF StorageInv

\* present_input appends to an external FIFO that has room.
LEMMA PresentKeeps ==
    ASSUME StorageInv, NEW e \in HostEvents, PresentInput(e)
    PROVE  StorageInv'
<1> USE DEF PresentInput
<1>1. /\ \A c \in Cores : LookupInv(c)' /\ ContributionInv(c)' /\ NeuronInv(c)'
      /\ WorkInv'
  BY CoresUntouched DEF controlVars
<1>2. ControlInv'
  BY DEF StorageInv, ControlInv, controlVars, hostVars, resultVars
<1>3. SourceInv'
  BY DEF StorageInv, SourceInv, hostVars, Event
<1>4. next_event_id \in Nat /\ next_event_id' = next_event_id + 1
  BY DEF StorageInv, PacketInv
<1>5. PacketInv'
  <2>1. \A f \in packet_pipeline : f.packet.event_id \in Nat
    BY DEF StorageInv, PacketInv, RoutedPacket, Packet
  <2>2. \A f \in packet_pipeline : f.packet.event_id < next_event_id'
    BY <2>1, <1>4 DEF StorageInv, PacketInv
  <2>3. next_event_id' \in Nat
    BY <1>4
  <2> QED BY <2>2, <2>3 DEF StorageInv, PacketInv, networkVars, RoutedPacket, Packet
<1> DEFINE new == CycleInput(e, next_event_id)
<1>6. e.core \in Cores /\ new \in HeldEvent(e.core)
  <2>1. /\ e.core \in Cores /\ e.axon \in Axons(e.core)
        /\ e.timestamp \in Nat /\ e.priority \in Nat
    BY DEF IsInputEvent
  <2>2. e.axon \in Nat
    BY <2>1, ProgramAssumption
  <2> QED BY <2>1, <2>2, <1>4 DEF CycleInput, HeldEvent, Event
<1> HIDE DEF new
<1>7. external_ingress_fifo' = [external_ingress_fifo EXCEPT ![e.core] = Append(@, new)]
  BY DEF new
<1>8. PortsInv'
  BY <1>7 DEF StorageInv, PortsInv
<1>9. ASSUME NEW c \in Cores
      PROVE  IngressInv(c)'
  <2>1. IngressInv(c)
    BY DEF StorageInv
  <2>2. CASE c = e.core
    <3>1. external_ingress_fifo'[c] = Append(external_ingress_fifo[c], new)
      BY <2>2, <1>7 DEF StorageInv, PortsInv
    <3>2. Len(external_ingress_fifo[c]) < external_ingress_fifo_depth
      BY <2>2
    <3>3. external_ingress_fifo_depth \in Nat
      BY Positive DEF Depths
    <3>6. external_ingress_fifo[c] \in Seq(HeldEvent(c)) /\ new \in HeldEvent(c)
      BY <2>1, <2>2, <1>6 DEF IngressInv
    <3>4. /\ external_ingress_fifo'[c] \in Seq(HeldEvent(c))
          /\ Len(external_ingress_fifo'[c]) = Len(external_ingress_fifo[c]) + 1
          /\ Len(external_ingress_fifo[c]) \in Nat
      BY <3>1, <3>6
    <3>5. Len(external_ingress_fifo'[c]) <= external_ingress_fifo_depth
      BY <3>2, <3>3, <3>4
    <3> QED BY <2>1, <3>4, <3>5 DEF IngressInv, coreVars, HeldEvent, HeldPacket, Event, Packet
  <2>3. CASE c # e.core
    <3>1. external_ingress_fifo'[c] = external_ingress_fifo[c]
      BY <2>3, <1>7 DEF StorageInv, PortsInv
    <3> QED BY <2>1, <3>1 DEF IngressInv, coreVars, HeldEvent, HeldPacket, Event, Packet
  <2> QED BY <2>2, <2>3
<1>10. \A c \in Cores : RouterInv(c)'
  BY DEF StorageInv, RouterInv, coreVars, networkVars, PacketizerWork, RoutedPacket,
         HeldPacket, Packet
<1> QED BY <1>1, <1>2, <1>3, <1>5, <1>8, <1>9, <1>10 DEF StorageInv

\* inject_router_packet appends to a router input that has room, and takes the identifier.
LEMMA InjectKeeps ==
    ASSUME StorageInv, NEW p \in HostPackets, p.event_id >= next_event_id, InjectRouterPacket(p)
    PROVE  StorageInv'
<1> USE DEF InjectRouterPacket
<1>1. /\ \A c \in Cores : LookupInv(c)' /\ ContributionInv(c)' /\ NeuronInv(c)'
      /\ WorkInv'
  BY CoresUntouched DEF controlVars
<1>2. ControlInv'
  BY DEF StorageInv, ControlInv, controlVars, hostVars, resultVars
<1>3. SourceInv'
  BY DEF StorageInv, SourceInv, hostVars, Event
<1>4. p \in RoutedPacket /\ p.source \in Cores /\ p.event_id \in Nat
  <2>1. next_event_id \in Nat
    BY DEF StorageInv, PacketInv
  <2>2. p \in [event_id : Int, source : Int, neuron : Nat, core : Int, axon : Nat,
               timestamp : Nat, priority : Int]
        /\ (p.core \in Cores => p.axon \in Axons(p.core))
    BY HostAssumption
  <2>3. p.event_id \in Nat
    BY <2>1, <2>2
  <2> QED BY <2>2, <2>3 DEF IsPacket, RoutedPacket, Packet
<1>5. PacketInv'
  <2>1. next_event_id \in Nat /\ next_event_id' = Max({next_event_id, p.event_id + 1})
    BY DEF StorageInv, PacketInv
  <2>2. next_event_id' = p.event_id + 1
    <3> DEFINE a == next_event_id
               b == p.event_id + 1
    <3>1. a \in Nat /\ b \in Nat /\ a <= b
      BY <2>1, <1>4
    <3> HIDE DEF a, b
    <3>2. \E x \in {a, b} : \A y \in {a, b} : x >= y
      BY <3>1
    <3>3. Max({a, b}) \in {a, b} /\ \A y \in {a, b} : Max({a, b}) >= y
      BY <3>2 DEF Max
    <3>4. Max({a, b}) = b
      BY <3>1, <3>3
    <3> QED BY <3>4, <2>1 DEF a, b
  <2> DEFINE q == p.event_id
             old == next_event_id
             new == next_event_id'
  <2>6. q \in Nat /\ q >= old /\ old \in Nat /\ new = q + 1
    BY <2>1, <2>2, <1>4
  <2>3. \A f \in packet_pipeline : f.packet.event_id \in Nat
    BY DEF StorageInv, PacketInv, RoutedPacket, Packet
  <2>7. \A f \in packet_pipeline : f.packet.event_id < old
    BY DEF StorageInv, PacketInv
  <2> HIDE DEF q, old, new
  <2>4. \A f \in packet_pipeline : f.packet.event_id < new
    BY <2>6, <2>7, <2>3
  <2>5. new \in Nat
    BY <2>6
  <2>8. packet_pipeline' = packet_pipeline
    BY DEF networkVars
  <2>9. /\ next_event_id' \in Nat
        /\ \A f \in packet_pipeline' : f.packet.event_id < next_event_id'
    BY <2>4, <2>5, <2>8 DEF new
  <2> QED BY <2>9, <2>8 DEF StorageInv, PacketInv, networkVars, RoutedPacket, Packet
<1>6. PortsInv'
  BY DEF StorageInv, PortsInv
<1>7. \A c \in Cores : IngressInv(c)'
  BY DEF StorageInv, IngressInv, coreVars, HeldEvent, HeldPacket, Event, Packet
<1>8. ASSUME NEW c \in Cores
      PROVE  RouterInv(c)'
  <2>1. RouterInv(c)
    BY DEF StorageInv
  <2>2. CASE c = p.source
    <3>1. router_input_fifos'[c] = Append(router_input_fifos[c], p)
      BY <2>2 DEF StorageInv, PortsInv
    <3>2. Len(router_input_fifos[c]) < router_input_fifo_depth
      BY <2>2
    <3>3. router_input_fifo_depth \in Nat
      BY Positive DEF Depths
    <3>4. /\ router_input_fifos'[c] \in Seq(RoutedPacket)
          /\ Len(router_input_fifos'[c]) = Len(router_input_fifos[c]) + 1
          /\ Len(router_input_fifos[c]) \in Nat
      BY <2>1, <3>1, <1>4 DEF RouterInv
    <3>5. Len(router_input_fifos'[c]) <= router_input_fifo_depth
      BY <3>2, <3>3, <3>4
    <3> QED BY <2>1, <3>4, <3>5 DEF RouterInv, coreVars, networkVars, PacketizerWork,
                                    RoutedPacket, HeldPacket, Packet
  <2>3. CASE c # p.source
    <3>1. router_input_fifos'[c] = router_input_fifos[c]
      BY <2>3 DEF StorageInv, PortsInv
    <3> QED BY <2>1, <3>1 DEF RouterInv, coreVars, networkVars, PacketizerWork, RoutedPacket,
                              HeldPacket, Packet
  <2> QED BY <2>2, <2>3
<1> QED BY <1>1, <1>2, <1>3, <1>5, <1>6, <1>7, <1>8 DEF StorageInv
\* Closing the inputs and raising the error of an omitted tick change a flag.
LEMMA FlagKeeps ==
    ASSUME StorageInv, CloseInputs \/ RaiseOmittedTick
    PROVE  StorageInv'
<1> USE DEF CloseInputs, RaiseOmittedTick
<1>1. /\ \A c \in Cores : LookupInv(c)' /\ ContributionInv(c)' /\ NeuronInv(c)'
      /\ WorkInv'
  BY CoresUntouched DEF controlVars
<1>2. ControlInv'
  BY DEF StorageInv, ControlInv, controlVars, hostVars, resultVars
<1>3. SourceInv' /\ PortsInv'
  BY DEF StorageInv, SourceInv, PortsInv, hostVars, Event
<1>4. PacketInv'
  BY DEF StorageInv, PacketInv, networkVars, RoutedPacket, Packet
<1>5. \A c \in Cores : IngressInv(c)'
  BY DEF StorageInv, IngressInv, coreVars, HeldEvent, HeldPacket, Event, Packet
<1>6. \A c \in Cores : RouterInv(c)'
  BY DEF StorageInv, RouterInv, coreVars, networkVars, PacketizerWork, RoutedPacket,
         HeldPacket, Packet
<1> QED BY <1>1, <1>2, <1>3, <1>4, <1>5, <1>6 DEF StorageInv

\* A step that changes nothing.
LEMMA StutterKeeps ==
    ASSUME StorageInv, UNCHANGED vars
    PROVE  StorageInv'
<1> USE DEF vars
<1>1. /\ \A c \in Cores : LookupInv(c)' /\ ContributionInv(c)' /\ NeuronInv(c)'
      /\ WorkInv'
  BY CoresUntouched DEF controlVars
<1>2. ControlInv'
  BY DEF StorageInv, ControlInv, controlVars, hostVars, resultVars
<1>3. SourceInv' /\ PortsInv'
  BY DEF StorageInv, SourceInv, PortsInv, hostVars, Event
<1>4. PacketInv'
  BY DEF StorageInv, PacketInv, networkVars, RoutedPacket, Packet
<1>5. \A c \in Cores : IngressInv(c)'
  BY DEF StorageInv, IngressInv, coreVars, HeldEvent, HeldPacket, Event, Packet
<1>6. \A c \in Cores : RouterInv(c)'
  BY DEF StorageInv, RouterInv, coreVars, networkVars, PacketizerWork, RoutedPacket,
         HeldPacket, Packet
<1> QED BY <1>1, <1>2, <1>3, <1>4, <1>5, <1>6 DEF StorageInv

-----------------------------------------------------------------------------
(* The specifications. *)

\* One step of the batch, the live or the harness specification.
LEMMA StepKeepsStorage ==
    ASSUME StorageInv, [BatchNext \/ HarnessNext]_vars
    PROVE  StorageInv'
<1>1. CASE StepCycle
  BY <1>1, CycleKeepsStorage
<1>2. CASE CloseInputs \/ RaiseOmittedTick
  BY <1>2, FlagKeeps
<1>3. CASE StepIdle \/ UNCHANGED vars
  BY <1>3, StutterKeeps DEF StepIdle
<1>4. ASSUME NEW events \in Sources, LoadInputSource(events)
      PROVE  StorageInv'
  BY <1>4, LoadSourceKeeps
<1>5. ASSUME NEW ticks \in TickLists, LoadLogicalTicks(ticks)
      PROVE  StorageInv'
  BY <1>5, LoadTicksKeeps
<1>6. ASSUME NEW e \in HostEvents, PresentInput(e)
      PROVE  StorageInv'
  BY <1>6, PresentKeeps
<1>7. ASSUME NEW p \in HostPackets, p.event_id >= next_event_id, InjectRouterPacket(p)
      PROVE  StorageInv'
  BY <1>7, InjectKeeps
<1> QED BY <1>1, <1>2, <1>3, <1>4, <1>5, <1>6, <1>7
        DEF BatchNext, HarnessNext, LiveNext, Run

\* The machine starts empty.
LEMMA InitStorage == Init => StorageInv
<1> SUFFICES ASSUME Init PROVE StorageInv
  OBVIOUS
<1> USE DEF Init
<1>1. WorkInv
  BY InitPartition
<1>2. ControlInv
  <2>1. no_progress_cycles \in 0 .. deadlock_detection_threshold + 1
    BY Positive
  <2>2. no_progress_cycles <= deadlock_detection_threshold
    BY Positive
  <2>3. explicit_tick_ids \in Seq(Nat)
    OBVIOUS
  <2>4. logical_tick \in Nat /\ events_admitted \in Nat /\ packets_admitted \in Nat
    OBVIOUS
  <2> QED BY <2>1, <2>2, <2>3, <2>4, Zenon DEF ControlInv
<1>3. SourceInv /\ PortsInv
  BY DEF SourceInv, PortsInv
<1>4. PacketInv
  BY ProgramFinite, Positive, FS_EmptySet DEF PacketInv
<1>5. ASSUME NEW c \in Cores
      PROVE  IngressInv(c) /\ LookupInv(c) /\ ContributionInv(c) /\ NeuronInv(c) /\ RouterInv(c)
  <2>1. \A x \in Depths : x \in Nat
    BY Positive
  <2>2. IngressInv(c) /\ LookupInv(c)
    BY <2>1 DEF IngressInv, LookupInv, Depths
  <2>3. Cardinality({}) = 0 /\ IsFiniteSet({})
    BY FS_EmptySet
  <2>4. ContributionInv(c)
    BY <2>1, <2>3 DEF ContributionInv, Depths
  <2>5. neuron[c] \in [Neurons(c) -> NeuronState]
    BY ProgramAssumption
  <2>6. NeuronInv(c)
    BY <2>1, <2>3, <2>5, Positive DEF NeuronInv, Depths
  <2>7. RouterInv(c)
    BY <2>1 DEF RouterInv, Depths
  <2> QED BY <2>2, <2>4, <2>6, <2>7
<1> QED BY <1>1, <1>2, <1>3, <1>4, <1>5 DEF StorageInv

\* The invariant says every type.
LEMMA StorageIsTyped == ASSUME StorageInv PROVE TypeOK
<1>1. /\ ControlInv /\ SourceInv /\ PacketInv /\ PhaseOK
      /\ \A c \in Cores : /\ IngressInv(c) /\ LookupInv(c) /\ ContributionInv(c)
                          /\ NeuronInv(c) /\ RouterInv(c)
  BY DEF StorageInv, WorkInv
<1>2. source_events \in Seq(Event) /\ source_index \in 0 .. Len(source_events)
  BY <1>1 DEF SourceInv
<1>3. packet_pipeline \subseteq PacketInPipeline
  BY <1>1 DEF PacketInv, PacketInPipeline, RoutedPacket
<1>4. ASSUME NEW c \in Cores
      PROVE  /\ external_ingress_fifo[c] \in Seq(Event)
             /\ ingress_round_robin_pointer[c] \in {0, 1}
             /\ {router_input_fifos[c], router_output_fifos[c], routed_ingress_fifo[c]}
                    \subseteq Seq(Packet)
             /\ axon_lookup_pipeline[c] \in Seq(AxonLookup)
             /\ synapse_work_fifo[c] \in Seq(SynapseWork)
  <2>1. IngressInv(c) /\ LookupInv(c) /\ RouterInv(c)
    BY <1>1
  <2>2. external_ingress_fifo[c] \in Seq(Event) /\ routed_ingress_fifo[c] \in Seq(Packet)
    BY <2>1 DEF IngressInv, HeldEvent, HeldPacket
  <2>3. router_input_fifos[c] \in Seq(Packet) /\ router_output_fifos[c] \in Seq(Packet)
    BY <2>1 DEF RouterInv, RoutedPacket, HeldPacket
  <2>4. axon_lookup_pipeline[c] \in Seq(AxonLookup) /\ synapse_work_fifo[c] \in Seq(SynapseWork)
    BY <2>1 DEF LookupInv, HeldLookup, HeldWork
  <2> QED BY <2>1, <2>2, <2>3, <2>4 DEF IngressInv
<1>5. ASSUME NEW c \in Cores
      PROVE  /\ delayed_contribution_fifo[c] \subseteq Contribution
             /\ {Bare(i) : i \in ToSet(contribution_pipeline[c])} \subseteq Contribution
             /\ accumulators[c] \in [Neurons(c) -> Int]
             /\ neuron[c] \in [Neurons(c) -> NeuronState]
             /\ affected[c] \cup neuron_pending[c] \cup neuron_work_fifo[c] \subseteq Neurons(c)
             /\ neuron_pipeline[c] \subseteq NeuronWork(c)
             /\ spike_fifo[c] \in Seq(CycleSpike(c))
             /\ packetizer_work[c] \in Seq(PacketizerWork(c))
  <2>1. ContributionInv(c) /\ NeuronInv(c) /\ RouterInv(c) /\ Neurons(c) \subseteq Nat
    BY <1>1, ProgramFinite
  <2>2. delayed_contribution_fifo[c] \subseteq Contribution
    BY <2>1 DEF ContributionInv, HeldContribution, Contribution
  <2>3. \A i \in ToSet(contribution_pipeline[c]) : i \in PipedContribution(c)
    BY <2>1 DEF ContributionInv, ToSet
  <2>4. {Bare(i) : i \in ToSet(contribution_pipeline[c])} \subseteq Contribution
    BY <2>1, <2>3 DEF PipedContribution, Bare, Contribution
  <2> QED BY <2>1, <2>2, <2>4 DEF ContributionInv, NeuronInv, RouterInv
<1>6. {next_event_id, events_admitted, packets_admitted} \subseteq Nat
  BY <1>1 DEF ControlInv, PacketInv
<1>7. {tick_active, explicit_ticks, inputs_closed} \subseteq BOOLEAN
  BY <1>1 DEF ControlInv
<1>8. router_round_robin_pointer \in Cores
  BY <1>1 DEF PacketInv
<1> QED BY <1>1, <1>2, <1>3, <1>4, <1>5, <1>6, <1>7, <1>8 DEF TypeOK, ControlInv, PhaseOK

\* And every bound.
LEMMA StorageIsBounded == ASSUME StorageInv PROVE StorageBounded
BY DEF StorageInv, PacketInv, IngressInv, LookupInv, ContributionInv, NeuronInv, RouterInv,
       StorageBounded

\* In a batch run every register keeps its type, for every program, every
\* microarchitecture, every loaded source and every list of ticks.
THEOREM BatchTyped == BatchSpec => []TypeOK
<1>1. StorageInv /\ [BatchNext]_vars => StorageInv'
  BY StepKeepsStorage
<1>2. StorageInv => TypeOK
  BY StorageIsTyped
<1> QED BY <1>1, <1>2, InitStorage, PTL DEF BatchSpec

\* So it does when a host presents events and a harness places packets between cycles.
THEOREM HarnessTyped == HarnessSpec => []TypeOK
<1>1. StorageInv /\ [HarnessNext]_vars => StorageInv'
  BY StepKeepsStorage
<1>2. StorageInv => TypeOK
  BY StorageIsTyped
<1> QED BY <1>1, <1>2, InitStorage, PTL DEF HarnessSpec

\* In a batch run no queue and no pipeline exceeds what the microarchitecture gives it.
THEOREM BatchBounded == BatchSpec => []StorageBounded
<1>1. StorageInv /\ [BatchNext]_vars => StorageInv'
  BY StepKeepsStorage
<1>2. StorageInv => StorageBounded
  BY StorageIsBounded
<1> QED BY <1>1, <1>2, InitStorage, PTL DEF BatchSpec

\* Nor does one when a host and a harness act between cycles.
THEOREM HarnessBounded == HarnessSpec => []StorageBounded
<1>1. StorageInv /\ [HarnessNext]_vars => StorageInv'
  BY StepKeepsStorage
<1>2. StorageInv => StorageBounded
  BY StorageIsBounded
<1> QED BY <1>1, <1>2, InitStorage, PTL DEF HarnessSpec
-----------------------------------------------------------------------------
(* The network loses no packet and makes none: what a stage takes from a   *)
(* FIFO, summed over the cores, is what the next one appends.              *)

\* The sum over the cores, stage by stage.
LEMMA SumOverCores ==
    ASSUME NEW a \in [Cores -> Nat], NEW b \in [Cores -> Nat],
           NEW f \in [Cores -> Nat], NEW h \in [Cores -> Nat],
           \A c \in Cores : a[c] + b[c] = f[c] + h[c]
    PROVE  Total(a) + Total(b) = Total(f) + Total(h)
<1> DEFINE t == [c \in Cores |-> f[c] + h[c]]
<1>1. t \in [Cores -> Nat] /\ IsFiniteSet(Cores)
  BY ProgramFinite
<1>2. Total(t) = Total(f) + Total(h)
  <2>1. \A c \in Cores : t[c] = f[c] + h[c]
    OBVIOUS
  <2> HIDE DEF t
  <2> QED BY <1>1, <2>1, TotalOfSum
<1>3. Total(t) = Total(a) + Total(b)
  <2>1. \A c \in Cores : t[c] = a[c] + b[c]
    OBVIOUS
  <2> HIDE DEF t
  <2> QED BY <1>1, <2>1, TotalOfSum
<1> QED BY <1>2, <1>3

\* The packet pipeline: accepted packets leave it, new ones enter it.
LEMMA PipelineCounts ==
    ASSUME StorageInv, CurrentTick \in Nat, NEW g, MoveNetwork(g)
    PROVE  /\ IsFiniteSet(AcceptedPackets) /\ Cardinality(AcceptedPackets) \in Nat
           /\ Cardinality(packet_pipeline') \in Nat
           /\ Cardinality(packet_pipeline') + Cardinality(AcceptedPackets)
                = Cardinality(packet_pipeline) + Cardinality(PacketizedRoutes)
<1> DEFINE taken == {x \in packet_pipeline : x.packet \in AcceptedPackets}
           kept == {x \in packet_pipeline : x.packet \notin AcceptedPackets}
           step == [e \in kept |-> Waited(e)]
           n == Cardinality(PacketizedRoutes)
           enter == [i \in 1 .. n |-> Waited([packet |-> NewPackets[i], wait |-> packetizer_latency])]
           older == {step[e] : e \in kept}
           newer == {enter[i] : i \in 1 .. n}
           packetOf == [e \in taken |-> e.packet]
           Entry == [packet : RoutedPacket, wait : 0 .. packetizer_latency - 1]
<1>1. /\ packet_pipeline \subseteq Entry /\ IsFiniteSet(packet_pipeline) /\ next_event_id \in Nat
      /\ \A e \in packet_pipeline : e.packet.event_id < next_event_id
      /\ \A e, f \in packet_pipeline : e.packet.event_id = f.packet.event_id => e = f
  BY DEF StorageInv, PacketInv
<1>2. /\ n \in Nat /\ DOMAIN NewPackets = 1 .. n
      /\ \A k \in 1 .. n : NewPackets[k].event_id = next_event_id + k - 1
  BY NewPacketsFit
<1>3. packet_pipeline' = older \cup newer
  BY <1>2 DEF MoveNetwork
<1>4. /\ \A e \in kept : step[e].packet = e.packet
      /\ \A i \in 1 .. n : enter[i].packet = NewPackets[i]
  <2>1. \A e \in Entry : Waited(e).packet = e.packet
    BY DEF Waited
  <2>2. \A i \in 1 .. n : enter[i].packet = NewPackets[i]
    BY DEF Waited
  <2> QED BY <1>1, <2>1, <2>2
<1>5. IsFiniteSet(kept) /\ IsFiniteSet(taken) /\ IsFiniteSet(1 .. n) /\ Cardinality(1 .. n) = n
  <2>1. IsFiniteSet(kept) /\ IsFiniteSet(taken)
    BY <1>1, FS_Subset
  <2> HIDE DEF n
  <2>2. IsFiniteSet(1 .. n) /\ Cardinality(1 .. n) = n
    BY <1>2, FS_Interval
  <2> QED BY <2>1, <2>2
<1>6. AcceptedPackets = {packetOf[e] : e \in taken}
  <2>1. \A p \in AcceptedPackets : \E e \in packet_pipeline : p = e.packet
    BY DEF AcceptedPackets, RoomyPackets, ReadyPackets, FirstOf
  <2> QED BY <2>1
<1>7. \A e, f \in taken : packetOf[e] = packetOf[f] => e = f
  BY <1>1
<1>8. \A e, f \in kept : step[e] = step[f] => e = f
  <2>1. ASSUME NEW e \in kept, NEW f \in kept, step[e] = step[f]
        PROVE  e = f
    <3>1. e.packet = f.packet
      BY <2>1, <1>4
    <3> QED BY <3>1, <1>1
  <2> QED BY <2>1
<1>9. \A i, j \in 1 .. n : enter[i] = enter[j] => i = j
  <2>1. ASSUME NEW i \in 1 .. n, NEW j \in 1 .. n, enter[i] = enter[j]
        PROVE  i = j
    <3>1. next_event_id + i - 1 = next_event_id + j - 1
      BY <2>1, <1>2, <1>4
    <3> QED BY <3>1, <1>1, <1>2
  <2> QED BY <2>1
<1>10. older \cap newer = {}
  <2>1. ASSUME NEW e \in kept, NEW i \in 1 .. n, step[e] = enter[i]
        PROVE  FALSE
    <3>1. e.packet.event_id = next_event_id + i - 1
      BY <2>1, <1>2, <1>4
    <3>2. e.packet.event_id < next_event_id
      BY <1>1
    <3> QED BY <3>1, <3>2, <1>1, <1>2
  <2> QED BY <2>1
<1>11. kept \cup taken = packet_pipeline /\ kept \cap taken = {}
  OBVIOUS
<1> HIDE DEF taken, kept, step, enter, packetOf, Entry, n
<1>12. /\ IsFiniteSet(AcceptedPackets) /\ Cardinality(AcceptedPackets) = Cardinality(taken)
  BY <1>5, <1>6, <1>7, ImageSize
<1>13. IsFiniteSet(older) /\ Cardinality(older) = Cardinality(kept)
  BY <1>5, <1>8, ImageSize
<1>14. IsFiniteSet(newer) /\ Cardinality(newer) = n
  BY <1>5, <1>9, ImageSize
<1> HIDE DEF older, newer
<1>15. Cardinality(packet_pipeline) = Cardinality(kept) + Cardinality(taken) - Cardinality({})
  BY <1>5, <1>11, FS_Union
<1>16. Cardinality(packet_pipeline') = Cardinality(older) + Cardinality(newer) - Cardinality({})
  BY <1>3, <1>10, <1>13, <1>14, FS_Union
<1>17. Cardinality({}) = 0 /\ Cardinality(kept) \in Nat /\ Cardinality(taken) \in Nat
  BY <1>5, FS_EmptySet, FS_CardinalityType
<1> QED BY <1>2, <1>12, <1>13, <1>14, <1>15, <1>16, <1>17 DEF n

\* The router inputs: a grant takes the head of one, an accepted packet joins that of its
\* source.
LEMMA InputsCount ==
    ASSUME StorageInv, NEW g \in GrantSeqs, IsArbitration(g), MoveNetwork(g),
           IsFiniteSet(AcceptedPackets)
    PROVE  /\ TotalLen(router_input_fifos) \in Nat /\ TotalLen(router_input_fifos') \in Nat
           /\ TotalLen(router_input_fifos') + Len(g)
                = TotalLen(router_input_fifos) + Cardinality(AcceptedPackets)
<1> DEFINE old == [c \in Cores |-> Len(router_input_fifos[c])]
           new == [c \in Cores |-> Len(router_input_fifos'[c])]
           granted == [c \in Cores |-> IF c \in ToSet(g) THEN 1 ELSE 0]
           sourceOf == [p \in AcceptedPackets |-> p.source]
           accepted == [c \in Cores |-> Cardinality({p \in AcceptedPackets : p.source = c})]
<1>1. ASSUME NEW c \in Cores
      PROVE  /\ Len(router_input_fifos[c]) \in Nat /\ Len(router_input_fifos'[c]) \in Nat
             /\ Cardinality({p \in AcceptedPackets : p.source = c}) \in Nat
             /\ Len(router_input_fifos'[c]) + granted[c] = Len(router_input_fifos[c]) + accepted[c]
  <2> DEFINE kept == IF c \in ToSet(g) THEN Tail(router_input_fifos[c]) ELSE router_input_fifos[c]
  <2>1. router_input_fifos'[c] = kept \o AcceptedFrom(c)
    BY DEF MoveNetwork
  <2>2. c \in ToSet(g) => router_input_fifos[c] # <<>>
    BY GrantsAreRequests DEF ToSet
  <2>3. router_input_fifos[c] \in Seq(RoutedPacket)
    BY DEF StorageInv, RouterInv
  <2>4. /\ kept \in Seq(RoutedPacket) /\ Len(router_input_fifos[c]) \in Nat
        /\ Len(kept) + granted[c] = Len(router_input_fifos[c])
    <3>1. CASE c \in ToSet(g)
      BY <3>1, <2>2, <2>3, TailHolds
    <3>2. CASE c \notin ToSet(g)
      BY <3>2, <2>3
    <3> QED BY <3>1, <3>2
  <2> HIDE DEF kept
  <2>5. AcceptedFrom(c) \in Seq(RoutedPacket) /\ Len(AcceptedFrom(c)) = accepted[c]
    BY AcceptedFits
  <2>6. kept \o AcceptedFrom(c) \in Seq(RoutedPacket)
        /\ Len(kept \o AcceptedFrom(c)) = Len(kept) + Len(AcceptedFrom(c))
    BY <2>4, <2>5, ConcatHolds
  <2>7. Len(kept) \in Nat /\ Len(AcceptedFrom(c)) \in Nat /\ granted[c] \in Nat
    BY <2>4, <2>5
  <2>8. accepted[c] = Cardinality({p \in AcceptedPackets : p.source = c})
    OBVIOUS
  <2> HIDE DEF granted, accepted
  <2>9. Len(router_input_fifos'[c]) = Len(kept) + accepted[c] /\ accepted[c] \in Nat
    BY <2>1, <2>5, <2>6, <2>7
  <2>10. Len(router_input_fifos'[c]) + granted[c] = Len(router_input_fifos[c]) + accepted[c]
    BY <2>4, <2>7, <2>9
  <2> QED BY <2>4, <2>7, <2>8, <2>9, <2>10
<1>2. /\ old \in [Cores -> Nat] /\ new \in [Cores -> Nat] /\ granted \in [Cores -> Nat]
      /\ accepted \in [Cores -> Nat]
  BY <1>1
<1>3. \A c \in Cores : new[c] + granted[c] = old[c] + accepted[c]
  BY <1>1
<1>4. /\ TotalLen(router_input_fifos) = Total(old) /\ TotalLen(router_input_fifos') = Total(new)
  BY DEF TotalLen
<1>5. Total(accepted) = Cardinality(AcceptedPackets)
  <2>1. sourceOf \in [AcceptedPackets -> Cores]
    <3>1. AcceptedPackets \subseteq ReadyPackets
      BY DEF AcceptedPackets, RoomyPackets, FirstOf
    <3>2. AcceptedPackets \subseteq RoutedPacket
      BY <3>1, ReadyOrdered
    <3> QED BY <3>2 DEF RoutedPacket, Packet
  <2>2. \A c \in Cores : accepted[c] = Cardinality({p \in AcceptedPackets : sourceOf[p] = c})
    <3>1. \A c : {p \in AcceptedPackets : sourceOf[p] = c} = {p \in AcceptedPackets : p.source = c}
      OBVIOUS
    <3> QED BY <3>1
  <2>3. accepted \in [Cores -> Nat] /\ IsFiniteSet(Cores)
    BY <1>2, ProgramFinite
  <2> HIDE DEF accepted, sourceOf
  <2> QED BY <2>1, <2>2, <2>3, TotalByKey
<1>6. Total(granted) = Len(g)
  <2>1. g \in Seq(Requesters) /\ ToSet(g) \subseteq Cores /\ Len(g) \in Nat
    BY GrantsAreRequests DEF ToSet
  <2>2. \A i, j \in 1 .. Len(g) : g[i] = g[j] => i = j
    <3>1. \A i \in 1 .. Len(g) : \A j \in 1 .. i - 1 : g[j] # g[i]
      BY DEF IsArbitration, Grantable
    <3>2. \A i, j \in 1 .. Len(g) : i < j => i \in 1 .. j - 1
      BY <2>1
    <3> QED BY <3>1, <3>2, <2>1
  <2>3. IsFiniteSet(1 .. Len(g)) /\ Cardinality(1 .. Len(g)) = Len(g)
    BY <2>1, FS_Interval
  <2>4. ToSet(g) = {g[i] : i \in 1 .. Len(g)}
    BY <2>1 DEF ToSet
  <2>5. Cardinality(ToSet(g)) = Len(g)
    BY <2>2, <2>3, <2>4, ImageSize
  <2>6. \A c \in Cores : granted[c] = IF c \in ToSet(g) THEN 1 ELSE 0
    OBVIOUS
  <2> HIDE DEF granted
  <2>7. Total(granted) = Cardinality(ToSet(g))
    BY <2>1, <2>6, <1>2, ProgramFinite, TotalOfFlags
  <2> QED BY <2>5, <2>7
<1> HIDE DEF old, new, granted, accepted
<1>7. Total(new) + Total(granted) = Total(old) + Total(accepted)
  BY <1>2, <1>3, SumOverCores
<1>8. Total(old) \in Nat /\ Total(new) \in Nat
  BY <1>2, ProgramFinite, CellsFinite
<1> QED BY <1>4, <1>5, <1>6, <1>7, <1>8
\* The router outputs: the packets granted to them enter, the transmitted ones leave.
LEMMA OutputsCount ==
    ASSUME StorageInv, NEW g \in GrantSeqs, IsArbitration(g), MoveNetwork(g)
    PROVE  /\ TotalLen(router_output_fifos) \in Nat /\ TotalLen(router_output_fifos') \in Nat
           /\ Total([c \in Cores |-> Transmitted(c)]) \in Nat /\ Len(g) \in Nat
           /\ TotalLen(router_output_fifos') + Total([c \in Cores |-> Transmitted(c)])
                = TotalLen(router_output_fifos) + Len(g)
<1> DEFINE old == [c \in Cores |-> Len(router_output_fifos[c])]
           new == [c \in Cores |-> Len(router_output_fifos'[c])]
           sent == [c \in Cores |-> Transmitted(c)]
           coreOf == [i \in 1 .. Len(g) |-> RequestOf(g[i]).core]
           granted == [c \in Cores |-> Cardinality({i \in 1 .. Len(g) : RequestOf(g[i]).core = c})]
<1>1. ASSUME NEW c \in Cores
      PROVE  /\ Len(router_output_fifos[c]) \in Nat /\ Len(router_output_fifos'[c]) \in Nat
             /\ Transmitted(c) \in Nat
             /\ Cardinality({i \in 1 .. Len(g) : RequestOf(g[i]).core = c}) \in Nat
             /\ Len(router_output_fifos'[c]) + Transmitted(c) = Len(router_output_fifos[c]) + granted[c]
  <2> DEFINE kept == SubSeq(router_output_fifos[c], Transmitted(c) + 1, Len(router_output_fifos[c]))
  <2>1. router_output_fifos'[c] = kept \o GrantedTo(g, c)
    BY DEF MoveNetwork
  <2>2. router_output_fifos[c] \in Seq(HeldPacket(c))
    BY DEF StorageInv, RouterInv
  <2>3. Transmitted(c) \in 0 .. Len(router_output_fifos[c])
    BY TransmittedFits
  <2>4. kept \in Seq(HeldPacket(c)) /\ Len(kept) = Len(router_output_fifos[c]) - Transmitted(c)
    BY <2>2, <2>3, RestHolds
  <2>5. Len(router_output_fifos[c]) \in Nat /\ Transmitted(c) \in Nat
    BY <2>2, <2>3
  <2> HIDE DEF kept
  <2>6. GrantedTo(g, c) \in Seq(HeldPacket(c)) /\ Len(GrantedTo(g, c)) = granted[c]
    BY GrantedFits
  <2>7. kept \o GrantedTo(g, c) \in Seq(HeldPacket(c))
        /\ Len(kept \o GrantedTo(g, c)) = Len(kept) + Len(GrantedTo(g, c))
    BY <2>4, <2>6, ConcatHolds
  <2>8. granted[c] = Cardinality({i \in 1 .. Len(g) : RequestOf(g[i]).core = c})
    OBVIOUS
  <2> HIDE DEF granted
  <2>9. Len(GrantedTo(g, c)) \in Nat
    BY <2>6
  <2>10. Len(router_output_fifos'[c]) = Len(router_output_fifos[c]) - Transmitted(c) + granted[c]
         /\ granted[c] \in Nat /\ Len(router_output_fifos'[c]) \in Nat
    BY <2>1, <2>4, <2>6, <2>7, <2>9
  <2>11. Len(router_output_fifos'[c]) + Transmitted(c) = Len(router_output_fifos[c]) + granted[c]
    BY <2>5, <2>10
  <2> QED BY <2>5, <2>8, <2>10, <2>11
<1>2. /\ old \in [Cores -> Nat] /\ new \in [Cores -> Nat] /\ sent \in [Cores -> Nat]
      /\ granted \in [Cores -> Nat]
  BY <1>1
<1>3. \A c \in Cores : new[c] + sent[c] = old[c] + granted[c]
  BY <1>1
<1>4. /\ TotalLen(router_output_fifos) = Total(old) /\ TotalLen(router_output_fifos') = Total(new)
  BY DEF TotalLen
<1>5. Len(g) \in Nat /\ \A i \in 1 .. Len(g) : RequestOf(g[i]) \in RoutedPacket
  BY GrantsAreRequests
<1>6. Total(granted) = Len(g)
  <2>1. coreOf \in [1 .. Len(g) -> Cores]
    BY <1>5 DEF RoutedPacket, Packet
  <2>2. \A c \in Cores : granted[c] = Cardinality({i \in 1 .. Len(g) : coreOf[i] = c})
    <3>1. \A c : {i \in 1 .. Len(g) : coreOf[i] = c} = {i \in 1 .. Len(g) : RequestOf(g[i]).core = c}
      OBVIOUS
    <3> QED BY <3>1
  <2> DEFINE X == 1 .. Len(g)
  <2>3. IsFiniteSet(X) /\ Cardinality(X) = Len(g)
    BY <1>5, FS_Interval
  <2>4. granted \in [Cores -> Nat] /\ IsFiniteSet(Cores)
    BY <1>2, ProgramFinite
  <2>5. coreOf \in [X -> Cores] /\ \A c \in Cores : granted[c] = Cardinality({i \in X : coreOf[i] = c})
    BY <2>1, <2>2
  <2> HIDE DEF granted, coreOf, X
  <2>6. Total(granted) = Cardinality(X)
    BY <2>3, <2>4, <2>5, TotalByKey
  <2> QED BY <2>3, <2>6
<1> HIDE DEF old, new, granted, sent
<1>7. Total(new) + Total(sent) = Total(old) + Total(granted)
  BY <1>2, <1>3, SumOverCores
<1>8. Total(old) \in Nat /\ Total(new) \in Nat /\ Total(sent) \in Nat
  BY <1>2, ProgramFinite, CellsFinite
<1> QED BY <1>4, <1>5, <1>6, <1>7, <1>8 DEF sent

\* The routed ingress FIFOs: the transmitted packets enter, the admitted ones leave.
LEMMA RoutedCount ==
    ASSUME StorageInv, NEW g, MoveNetwork(g), MoveEvents
    PROVE  /\ TotalLen(routed_ingress_fifo) \in Nat /\ TotalLen(routed_ingress_fifo') \in Nat
           /\ Cardinality({c \in Cores : IngressWins(c, 1)}) \in Nat
           /\ TotalLen(routed_ingress_fifo') + Cardinality({c \in Cores : IngressWins(c, 1)})
                = TotalLen(routed_ingress_fifo) + Total([c \in Cores |-> Transmitted(c)])
<1> DEFINE old == [c \in Cores |-> Len(routed_ingress_fifo[c])]
           new == [c \in Cores |-> Len(routed_ingress_fifo'[c])]
           sent == [c \in Cores |-> Transmitted(c)]
           won == {c \in Cores : IngressWins(c, 1)}
           admitted == [c \in Cores |-> IF c \in won THEN 1 ELSE 0]
<1>1. ASSUME NEW c \in Cores
      PROVE  /\ Len(routed_ingress_fifo[c]) \in Nat /\ Len(routed_ingress_fifo'[c]) \in Nat
             /\ Transmitted(c) \in Nat
             /\ Len(routed_ingress_fifo'[c]) + admitted[c] = Len(routed_ingress_fifo[c]) + Transmitted(c)
  <2> DEFINE arrived == SubSeq(router_output_fifos[c], 1, Transmitted(c))
  <2>1. routed_ingress_fifo'[c] = AfterIngress(c, 1) \o arrived
    BY DEF MoveEvents
  <2>2. router_output_fifos[c] \in Seq(HeldPacket(c)) /\ routed_ingress_fifo[c] \in Seq(HeldPacket(c))
    BY DEF StorageInv, RouterInv, IngressInv
  <2>3. Transmitted(c) \in 0 .. Len(router_output_fifos[c])
    BY TransmittedFits
  <2>4. arrived \in Seq(HeldPacket(c)) /\ Len(arrived) = Transmitted(c)
    BY <2>2, <2>3, FrontHolds
  <2>5. Len(routed_ingress_fifo[c]) \in Nat /\ Transmitted(c) \in Nat
    BY <2>2, <2>3
  <2>6. AfterIngress(c, 1) \in Seq(HeldPacket(c))
        /\ Len(AfterIngress(c, 1)) + admitted[c] = Len(routed_ingress_fifo[c])
    <3>1. IngressFifo(c, 1) = routed_ingress_fifo[c]
      BY DEF IngressFifo
    <3>2. CASE IngressWins(c, 1)
      <4>1. routed_ingress_fifo[c] # <<>>
        BY <3>1, <3>2 DEF IngressWins, IngressRequests, HeadDue
      <4>2. AfterIngress(c, 1) = Tail(routed_ingress_fifo[c]) /\ admitted[c] = 1
        BY <3>1, <3>2 DEF AfterIngress
      <4> QED BY <4>1, <4>2, <2>2, <2>5, TailHolds
    <3>3. CASE ~IngressWins(c, 1)
      <4>1. AfterIngress(c, 1) = routed_ingress_fifo[c] /\ admitted[c] = 0
        BY <3>1, <3>3 DEF AfterIngress
      <4> QED BY <4>1, <2>2, <2>5
    <3> QED BY <3>2, <3>3
  <2> HIDE DEF arrived
  <2>7. AfterIngress(c, 1) \o arrived \in Seq(HeldPacket(c))
        /\ Len(AfterIngress(c, 1) \o arrived) = Len(AfterIngress(c, 1)) + Len(arrived)
    BY <2>4, <2>6, ConcatHolds
  <2>8. admitted[c] \in Nat /\ Len(AfterIngress(c, 1)) \in Nat
    BY <2>6
  <2> HIDE DEF admitted
  <2> QED BY <2>1, <2>4, <2>5, <2>6, <2>7, <2>8
<1>2. /\ old \in [Cores -> Nat] /\ new \in [Cores -> Nat] /\ sent \in [Cores -> Nat]
      /\ admitted \in [Cores -> Nat]
  BY <1>1
<1>3. \A c \in Cores : new[c] + admitted[c] = old[c] + sent[c]
  BY <1>1
<1>4. /\ TotalLen(routed_ingress_fifo) = Total(old) /\ TotalLen(routed_ingress_fifo') = Total(new)
  BY DEF TotalLen
<1>5. IsFiniteSet(Cores) /\ won \subseteq Cores
  BY ProgramFinite
<1>6. Cardinality(won) \in Nat
  BY <1>5, FS_Subset, FS_CardinalityType
<1>7. Total(admitted) = Cardinality(won)
  <2>1. \A c \in Cores : admitted[c] = IF c \in won THEN 1 ELSE 0
    OBVIOUS
  <2> HIDE DEF admitted, won
  <2> QED BY <2>1, <1>2, <1>5, TotalOfFlags
<1> HIDE DEF old, new, admitted, sent
<1>8. Total(new) + Total(admitted) = Total(old) + Total(sent)
  BY <1>2, <1>3, SumOverCores
<1>9. Total(old) \in Nat /\ Total(new) \in Nat
  BY <1>2, ProgramFinite, CellsFinite
<1> QED BY <1>4, <1>6, <1>7, <1>8, <1>9 DEF sent
\* Where the packets that were ever emitted are.
PlacesCounted ==
    Len(logical_packets) = packets_admitted
        + Cardinality(packet_pipeline) + TotalLen(router_input_fifos)
        + TotalLen(router_output_fifos) + TotalLen(routed_ingress_fifo)

\* The record of what was emitted: an identifier is used once, and is no longer fresh.
LogInv ==
    /\ logical_packets \in Seq(RoutedPacket)
    /\ \A i \in 1 .. Len(logical_packets) : logical_packets[i].event_id < next_event_id
    /\ \A i, j \in 1 .. Len(logical_packets) :
          logical_packets[i].event_id = logical_packets[j].event_id => i = j

ConservedInv == StorageInv /\ PlacesCounted /\ LogInv

\* The entries of two sequences in a row.
LEMMA ConcatEntries ==
    ASSUME NEW S, NEW s \in Seq(S), NEW t \in Seq(S)
    PROVE  /\ \A i \in 1 .. Len(s) : (s \o t)[i] = s[i]
           /\ \A i \in Len(s) + 1 .. Len(s) + Len(t) : (s \o t)[i] = t[i - Len(s)]
OBVIOUS

\* A cycle records the packets it makes, with fresh identifiers.
LEMMA LogKept ==
    ASSUME StorageInv, LogInv, CurrentTick \in Nat, NEW g, MoveNetwork(g)
    PROVE  /\ LogInv' /\ Len(logical_packets) \in Nat
           /\ Len(logical_packets') = Len(logical_packets) + Cardinality(PacketizedRoutes)
<1> DEFINE n == Cardinality(PacketizedRoutes)
           m == Len(logical_packets)
<1>1. /\ n \in Nat /\ DOMAIN NewPackets = 1 .. n
      /\ \A k \in 1 .. n : NewPackets[k] \in RoutedPacket
      /\ \A k \in 1 .. n : NewPackets[k].event_id = next_event_id + k - 1
  BY NewPacketsFit
<1>2. logical_packets \in Seq(RoutedPacket) /\ m \in Nat /\ next_event_id \in Nat
  BY DEF LogInv, StorageInv, PacketInv
<1>3. logical_packets' = logical_packets \o NewPackets /\ next_event_id' = next_event_id + n
  BY DEF MoveNetwork
<1>4. NewPackets \in Seq(RoutedPacket) /\ Len(NewPackets) = n
  <2>1. NewPackets = [k \in 1 .. n |-> NewPackets[k]]
    BY DEF NewPackets
  <2>2. NewPackets \in [1 .. n -> RoutedPacket]
    BY <1>1, <2>1
  <2> HIDE DEF n
  <2> QED BY <1>1, <2>2, FunctionIsSequence
<1> HIDE DEF n
<1>5. /\ logical_packets' \in Seq(RoutedPacket) /\ Len(logical_packets') = m + n
      /\ \A i \in 1 .. m : logical_packets'[i] = logical_packets[i]
      /\ \A i \in m + 1 .. m + n : logical_packets'[i] = NewPackets[i - m]
  BY <1>2, <1>3, <1>4, ConcatHolds, ConcatEntries
<1>6. /\ \A i \in 1 .. m : logical_packets[i].event_id < next_event_id
      /\ \A i \in 1 .. m : logical_packets[i].event_id \in Nat
      /\ \A i, j \in 1 .. m : logical_packets[i].event_id = logical_packets[j].event_id => i = j
  <2>1. \A i \in 1 .. m : logical_packets[i] \in RoutedPacket
    BY <1>2
  <2>2. \A i \in 1 .. m : logical_packets[i].event_id \in Nat
    BY <2>1 DEF RoutedPacket, Packet
  <2> QED BY <2>2 DEF LogInv
<1> DEFINE id(i) == logical_packets'[i].event_id
<1>7. /\ \A i \in 1 .. m : id(i) = logical_packets[i].event_id
      /\ \A i \in m + 1 .. m + n : id(i) = next_event_id + (i - m) - 1
  <2>1. \A i \in m + 1 .. m + n : i - m \in 1 .. n
    BY <1>1, <1>2
  <2> QED BY <2>1, <1>1, <1>5
<1> HIDE DEF id, m
<1>8. \A i \in 1 .. m + n : id(i) < next_event_id + n
  <2>1. ASSUME NEW i \in 1 .. m PROVE id(i) < next_event_id + n
    <3>1. id(i) \in Nat /\ id(i) < next_event_id
      BY <1>6, <1>7
    <3> QED BY <3>1, <1>1, <1>2
  <2>2. ASSUME NEW i \in m + 1 .. m + n PROVE id(i) < next_event_id + n
    <3>1. id(i) = next_event_id + (i - m) - 1
      BY <1>7
    <3> QED BY <3>1, <1>1, <1>2
  <2>3. \A i \in 1 .. m + n : i \in 1 .. m \/ i \in m + 1 .. m + n
    BY <1>1, <1>2
  <2> QED BY <2>1, <2>2, <2>3
<1>9. \A i, j \in 1 .. m + n : id(i) = id(j) => i = j
  <2>1. \A i \in 1 .. m + n : i \in 1 .. m \/ i \in m + 1 .. m + n
    BY <1>1, <1>2
  <2>2. \A i \in 1 .. m, j \in m + 1 .. m + n : id(i) < id(j)
    <3>1. \A i \in 1 .. m : id(i) \in Nat /\ id(i) < next_event_id
      BY <1>6, <1>7
    <3>2. \A j \in m + 1 .. m + n : id(j) \in Int /\ id(j) >= next_event_id
      <4>1. \A j \in m + 1 .. m + n : j \in Int /\ j - m >= 1
        BY <1>1, <1>2
      <4> QED BY <4>1, <1>2, <1>7
    <3> QED BY <3>1, <3>2, <1>2
  <2>3. \A i \in 1 .. m + n : id(i) \in Int
    BY <1>1, <1>2, <1>6, <1>7
  <2>4. \A i, j \in m + 1 .. m + n : id(i) = id(j) => i = j
    BY <1>1, <1>2, <1>7
  <2>5. \A i, j \in 1 .. m : id(i) = id(j) => i = j
    BY <1>6, <1>7
  <2>6. \A a, b \in Int : a < b => a # b
    OBVIOUS
  <2>7. \A i \in 1 .. m, j \in m + 1 .. m + n : id(i) # id(j)
    <3>1. \A i \in 1 .. m : i \in 1 .. m + n
      BY <1>1, <1>2
    <3>2. \A i \in m + 1 .. m + n : i \in 1 .. m + n
      BY <1>1, <1>2
    <3> QED BY <2>2, <2>3, <2>6, <3>1, <3>2
  <2> QED BY <2>1, <2>4, <2>5, <2>7, Zenon
<1>10. LogInv'
  BY <1>3, <1>5, <1>8, <1>9 DEF LogInv, id, RoutedPacket, Packet
<1> QED BY <1>2, <1>5, <1>10 DEF m, n

\* A cycle keeps the count.
LEMMA CycleConserves ==
    ASSUME ConservedInv, StepCycle
    PROVE  ConservedInv'
<1>1. StorageInv /\ PlacesCounted /\ LogInv
  BY DEF ConservedInv
<1>2. CurrentTick \in Nat
  BY <1>1, TickOfCycle DEF StepCycle
<1>3. PICK g \in GrantSeqs : IsArbitration(g) /\ MoveNetwork(g) /\ MoveEvents
  BY DEF StepCycle
<1> DEFINE made == Cardinality(PacketizedRoutes)
           accepted == Cardinality(AcceptedPackets)
           sent == Total([c \in Cores |-> Transmitted(c)])
           won == Cardinality({c \in Cores : IngressWins(c, 1)})
           pipe == Cardinality(packet_pipeline)
           input == TotalLen(router_input_fifos)
           output == TotalLen(router_output_fifos)
           routed == TotalLen(routed_ingress_fifo)
           log == Len(logical_packets)
           new_pipe == Cardinality(packet_pipeline')
           new_input == TotalLen(router_input_fifos')
           new_output == TotalLen(router_output_fifos')
           new_routed == TotalLen(routed_ingress_fifo')
           new_log == Len(logical_packets')
           granted == Len(g)
<1>4. /\ IsFiniteSet(AcceptedPackets) /\ accepted \in Nat /\ new_pipe \in Nat
      /\ new_pipe + accepted = pipe + made
  BY <1>1, <1>2, <1>3, PipelineCounts
<1>5. input \in Nat /\ new_input \in Nat /\ new_input + granted = input + accepted
  BY <1>1, <1>3, <1>4, InputsCount
<1>6. /\ output \in Nat /\ new_output \in Nat /\ sent \in Nat /\ granted \in Nat
      /\ new_output + sent = output + granted
  BY <1>1, <1>3, OutputsCount
<1>7. routed \in Nat /\ new_routed \in Nat /\ won \in Nat /\ new_routed + won = routed + sent
  BY <1>1, <1>3, RoutedCount
<1>8. LogInv' /\ log \in Nat /\ new_log = log + made
  BY <1>1, <1>2, <1>3, LogKept
<1>9. packets_admitted \in Nat /\ packets_admitted' = packets_admitted + won
  BY <1>1, <1>3 DEF MoveEvents, StorageInv, ControlInv
<1>10. made \in Nat /\ pipe \in Nat
  BY <1>1, <1>2, NewPacketsFit, FS_CardinalityType DEF StorageInv, PacketInv
<1>11. log = packets_admitted + pipe + input + output + routed
  BY <1>1 DEF PlacesCounted
<1>12. PlacesCounted' <=> new_log = packets_admitted' + new_pipe + new_input + new_output + new_routed
  BY DEF PlacesCounted
<1> HIDE DEF made, accepted, sent, won, pipe, input, output, routed, log, new_pipe, new_input,
             new_output, new_routed, new_log, granted
<1>13. new_log = packets_admitted' + new_pipe + new_input + new_output + new_routed
  BY <1>4, <1>5, <1>6, <1>7, <1>8, <1>9, <1>10, <1>11
<1>14. StorageInv'
  BY <1>1, CycleKeepsStorage
<1> QED BY <1>8, <1>12, <1>13, <1>14 DEF ConservedInv

\* The host's calls leave the network alone, but for identifiers they take.
LEMMA StepConserves ==
    ASSUME ConservedInv, [BatchNext \/ LiveNext]_vars
    PROVE  ConservedInv'
<1>1. StorageInv /\ PlacesCounted /\ LogInv
  BY DEF ConservedInv
<1>2. StorageInv'
  BY <1>1, StepKeepsStorage DEF HarnessNext
<1>3. CASE StepCycle
  BY <1>3, CycleConserves
<1>4. ASSUME UNCHANGED <<coreVars, router_input_fifos, networkVars, resultVars>>,
             next_event_id' \in Nat, next_event_id' >= next_event_id
      PROVE  ConservedInv'
  <2>1. PlacesCounted'
    BY <1>1, <1>4 DEF PlacesCounted, TotalLen, coreVars, networkVars, resultVars
  <2>2. LogInv'
    <3>1. logical_packets \in Seq(RoutedPacket) /\ next_event_id \in Nat
      BY <1>1 DEF LogInv, StorageInv, PacketInv
    <3>2. \A i \in 1 .. Len(logical_packets) : logical_packets[i].event_id \in Nat
      BY <3>1 DEF RoutedPacket, Packet
    <3>3. logical_packets' = logical_packets
      BY <1>4 DEF resultVars
    <3>4. \A i \in 1 .. Len(logical_packets) : logical_packets[i].event_id < next_event_id'
      BY <1>1, <1>4, <3>1, <3>2 DEF LogInv
    <3> QED BY <1>1, <3>3, <3>4 DEF LogInv, RoutedPacket, Packet
  <2> QED BY <1>2, <2>1, <2>2 DEF ConservedInv
<1>5. next_event_id \in Nat
  BY <1>1 DEF StorageInv, PacketInv
<1>6. ASSUME NEW events \in Sources, LoadInputSource(events)
      PROVE  ConservedInv'
  <2>1. events \in Seq([timestamp : Int, core : Int, axon : Int, priority : Int])
    BY HostAssumption
  <2>2. Len(events) \in Nat
    BY <2>1
  <2> QED BY <1>4, <1>5, <1>6, <2>2 DEF LoadInputSource
<1>7. ASSUME NEW ticks \in TickLists, LoadLogicalTicks(ticks)
      PROVE  ConservedInv'
  BY <1>4, <1>5, <1>7 DEF LoadLogicalTicks
<1>8. ASSUME NEW e \in HostEvents, PresentInput(e)
      PROVE  ConservedInv'
  BY <1>4, <1>5, <1>8 DEF PresentInput
<1>9. CASE CloseInputs \/ RaiseOmittedTick
  <2>1. UNCHANGED <<coreVars, router_input_fifos, networkVars, resultVars>>
        /\ next_event_id' = next_event_id
    BY <1>9, Zenon DEF CloseInputs, RaiseOmittedTick
  <2> QED BY <1>4, <1>5, <2>1
<1>10. CASE StepIdle \/ UNCHANGED vars
  BY <1>4, <1>5, <1>10 DEF StepIdle, vars
<1> QED BY <1>3, <1>6, <1>7, <1>8, <1>9, <1>10 DEF BatchNext, LiveNext, Run

\* The network starts empty.
LEMMA InitConserved == Init => ConservedInv
<1> SUFFICES ASSUME Init PROVE ConservedInv
  OBVIOUS
<1> DEFINE none == [c \in Cores |-> 0]
<1>1. Total(none) = 0
  <2>1. Cells(none) = {}
    BY DEF Cells
  <2> QED BY <2>1, FS_EmptySet DEF Total
<1>2. /\ TotalLen(router_input_fifos) = Total(none)
      /\ TotalLen(router_output_fifos) = Total(none)
      /\ TotalLen(routed_ingress_fifo) = Total(none)
  BY DEF TotalLen, Init
<1>3. Cardinality(packet_pipeline) = 0 /\ packets_admitted = 0 /\ logical_packets = <<>>
  BY FS_EmptySet DEF Init
<1> QED BY <1>1, <1>2, <1>3, InitStorage DEF ConservedInv, PlacesCounted, LogInv

\* A batch run loses no packet, makes none twice, and never uses an identifier twice.
THEOREM BatchConserved == BatchSpec => []PacketsConserved
<1>1. ConservedInv /\ [BatchNext]_vars => ConservedInv'
  BY StepConserves
<1>2. ConservedInv => PacketsConserved
  BY DEF ConservedInv, PlacesCounted, LogInv, PacketsConserved
<1> QED BY <1>1, <1>2, InitConserved, PTL DEF BatchSpec

\* Neither does one in which a host presents events between cycles.
THEOREM LiveConserved == LiveSpec => []PacketsConserved
<1>1. ConservedInv /\ [LiveNext]_vars => ConservedInv'
  BY StepConserves
<1>2. ConservedInv => PacketsConserved
  BY DEF ConservedInv, PlacesCounted, LogInv, PacketsConserved
<1> QED BY <1>1, <1>2, InitConserved, PTL DEF LiveSpec
=============================================================================
