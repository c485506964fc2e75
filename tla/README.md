# mini_loihi in TLA+

`mini_loihi` is a digital neuromorphic processor in four forms: an event-driven
simulator of one or several cores (V4/V5), a functional *reference machine* over
compiled programs (V6.1), a *cycle machine* that predicts the same results with
bounded queues, pipelines and arbiters (V6.2), and SystemVerilog (V7) with
Python oracles that predict it cycle by cycle. A compiler and a mapper turn
networks into the images these machines run. This directory holds TLA+ modules
for all of them, TLC configurations that check the modules, and TLAPS proofs.
Every definition names the code it stands for in `PROJECT.json` ("map").

## 1. The system

| Component | State | Operations | Hard behaviour | What makes it correct |
|---|---|---|---|---|
| Fixed-point arithmetic, neuron update (`fixed_point.py`, `reference_backend.update_neuron`) | none (pure) | narrow, decay, LIF/ALIF update | saturation and wrap at the boundary; a decay over many idle ticks at once | results fit their format; decaying once for `m+n` ticks is decaying twice |
| Reference machine (`reference_backend.py`) | bags of pending inputs, packets, delayed contributions; neuron banks; last processed tick; results | `inject`, `step`, `run_until`, `run_ticks`; a tick = admission, accumulation, update, spikes, routing | callers that interleave injection and ticks; exceptions in a tick | nothing overdue; one packet per spike and route; a result independent of how it was fed |
| Cycle machine (`cycle_backend.py`, `microarchitecture.py`) | about 25 FIFOs, pipelines, banks and pointers; tick controller; deadlock counter | `step_cycle` (ten commit stages, then the controller), `present_input`, `load_input_source`, `load_logical_ticks`, `close_inputs`, `run_until_quiescent`, packets placed by a harness | producers that decide on last cycle's occupancy; stalls in any stage; arbitration; host calls at any cycle; deadlock of a full network | bounded storage, nothing lost or doubled, an exact tick barrier, same function as the reference machine, a sound deadlock report, a run that ends |
| `rv_fifo.sv` | circular buffer, pointers, occupancy | push, pop, both, reset | push and pop of the same edge; a depth that is no power of two | it is a bounded queue |
| `rv_registered_cut.sv` | two entries, registered ready | accept, emit, both, reset | a registered `ready` is one cycle old | it is a queue of two with no bubble; a stalled payload is held |
| LIF pipelines (`lif_pipeline*.sv`) | six stages and their payloads, the cut | load, hold, commit | a commit atomic with the spike FIFO; memories that answer a cycle later | every issued neuron committed once, with the reference machine's arithmetic |
| RTL cores (`mini_loihi_core_mempipe.sv`, `_lifpipe.sv`, `_readycut.sv`) | controller of 13 or 14 states; memories, banks, FIFOs, scanner, neuron engine | initialisation, host handshakes, one tick after the other | handshakes at the edge of a state change; back pressure of spikes | a tick is the reference machine's tick, ends, and leaves nothing behind |
| Cycle oracles (`mempipe_cycle.py`, `lifpipe_cycle.py`, `readycut_cycle.py`) | none kept | predict a tick | off by one at stalls | the cycle numbers of the RTL |
| Event-driven core (`core.py`, `event.py`, `memory.py`, `numeric.py`) | voltages, synapses with lazily decayed traces, two queues, a clock | push, process, reward | a reward that dates a synapse ahead of the next event; an exception in a fan-out | traces never go stale; rewards move weights the right way |
| Multi-core system (`multicore.py`) | a heap of deliveries, a clock, the cores | install, inject, process, reward all or one | routing that raises in the middle of a drain; a reward that is not atomic | time order; no spike lost or doubled; partitioning changes nothing |
| Compiler (`model_ir.py`, `compiler.py`, `hardware_ir.py`, `artifacts.py`) | none kept | check, place, pack, validate, read back | multi-edges, axons shared by remote targets, empty cores | the images mean the network; what compiles runs |
| Mapper (`mapping.py`) | none kept | partition, build memories and routes, reconstruct | the same | the same, and the multi-core system accepts it |
| Presets and profiles (`architecture.py`, `*_config.py`) | constants | validate | widths that depend on one another | no register is too narrow |
| Compatible subsets (`reference_compatibility.py`, `rtl_artifacts.py`) | none kept | decide, export | features one machine has and the other lacks | on the V5 subset the machines agree, up to the order of a tick's spikes; the RTL exactly |
| Learning experiment (`pattern_task.py`, `stability_audit.py`) | a template whose synapses outlive every trial's core | trial, reward, diagnose | dates of evaluations and trials out of order | credit stays within a trial; the documented results |
| Traces, reports, digests, verification drivers, benchmarks, command line | files | write, compare | - | outside the model |

How they interact. The compiler makes a program (parameter banks, CSR fan-out,
routes) that the reference and the cycle machine take as a constant.
`run_cycle_differential` runs both and compares their results; the event-driven
core and the RTL are compared with the reference machine on their subsets (the V5
comparison and that of the cycle machine demand an order of spikes that the machines
do not share: see "Disagreements found"). Within
the cycle machine the cores interact only through the network: packetizer, packet
pipeline, router input FIFO, arbiter, router output FIFO, routed ingress FIFO of
the destination. The host interacts between two cycles. An RTL core uses
`rv_fifo` for its queues, and the "ready cut" core has `rv_registered_cut` between
two stages of its neuron pipeline. The V5 cores interact through
`MultiCoreSystem`: a spike is drained from a core's output queue and becomes one
delivery for each destination of its routing entry.

`PROJECT.json` lists every component with its source files, and under "hazards"
each place where the code is hard to test.

## 2. The modules

| Module | Models | Built on |
|---|---|---|
| `Ordering` | "the first k of a set in an order", sets as sorted sequences, selections and totals, bags | - |
| `NeuronUpdate` | `fixed_point.py`, `update_neuron`, formats | - |
| `ReferenceMachine` | the reference machine, one action for an injection, one for a tick; its properties | `NeuronUpdate`, `Ordering` |
| `ReferenceReplay` | two machines on the same events, one fed online, one at once | `ReferenceMachine`, `INSTANCE` of it |
| `CycleMachine`, `CycleProperties` | the cycle machine and its properties | `NeuronUpdate`, `Ordering` |
| `CycleRefinement` | the cycle machine implements the reference machine | `INSTANCE ReferenceMachine` |
| `CycleOnline` | the cycle machine with a host that presents events and places packets, and a history of whether it was in time | `CycleProperties` |
| `BoundedQueue` | abstract: a bounded queue with a synchronous reset | - |
| `RvFifo`, `RvRegisteredCut` | the two RTL storage elements, with the ports of `RvPorts` | `RvPorts`, `INSTANCE BoundedQueue` |
| `NeuronScan` | abstract: a core's tick as one update for each touched neuron, in order | `NeuronUpdate` |
| `LifPipeline` | the neuron pipeline with and without the cut, edge by edge | `NeuronUpdate` |
| `RtlCore` | the three RTL cores under one clock, and what they implement | `LifPipeline`, `INSTANCE NeuronScan` |
| `PipelineOracle`, `MempipeOracle` | the oracles, translated from their Python | `NeuronUpdate` |
| `RtlProperties` | the cores against the oracles | `RtlCore`, `INSTANCE` of each oracle |
| `RtlFixtures` | the fixtures of the RTL regressions | - |
| `EventCore` | the neuron update and the plastic synapse of V5 | - |
| `EventSystem`, `EventProperties` | `MultiCoreSystem` and its cores; properties (the networks of the benchmark, the validation and the tests are in `MCEventSystem`) | `EventCore` |
| `PatternTask`, `PatternAudit` | the learning experiment; its diagnostics and properties | `EventCore` |
| `Compiler`, `ProgramChecks` | the network, the compiler with its read-back, the validators | `NeuronUpdate`, `Ordering` |
| `Mapper` | the V4 mapper | `Compiler` |
| `Presets` | the frozen presets and what their classes demand | - |
| `Compatibility` | the subsets, and one program run by the V5 core, the reference machine and the RTL | `ProgramChecks`, `EventCore`, `Presets`, `INSTANCE NeuronScan` |
| `CompileFlow` | a caller: build, compile or map, inject; properties | `Compatibility`, `Mapper` |
| `Programs`, `MC*` | small instances for TLC | |
| `OrderingProofs` | lemmas about selections, sorted sequences, totals and sums over sets | `Ordering`, `TLAPS` |
| `CycleProofs`, `CycleTimeProofs` | theorems of the cycle machine: storage, types, work and packets; logical time, order, detector and deadlock | `CycleProperties`; `CycleOnline`, `CycleProofs` |
| `EventProofs` | theorems of the multi-core system | `EventProperties`, `TLAPS` |
| `RtlProofs` | theorems of the neuron update, the pipeline stages and the RTL cores | `RtlCore`, `OrderingProofs` |
| `ReferenceProofs` | theorems of the reference machine, alone and replayed | `ReferenceReplay`, `OrderingProofs` |
| the other `*Proofs` | theorems and proofs | the module of their name, `TLAPS` |

### The cycle machine

`step_cycle` deep-copies the registered state, lets ten commit stages move data
from the copy to the live state, then runs the tick controller on the live state
and last the deadlock detector. In TLA+ the copy is the unprimed state and the
live state the primed one, so each stage is an equation between the two:

| Code | Model |
|---|---|
| `_commit_router_to_ingress`, `_commit_router_arbitration` | `Transmitted`, `Grantable`, `IsArbitration`, in `MoveNetwork` |
| `_commit_packet_pipeline`, `_commit_packetizer` | `AcceptedPackets`, `PacketizedRoutes`, `PacketFor`, in `MoveNetwork` |
| `_commit_neuron_writeback`, `_commit_neuron_issue`, `_feed_neuron_fifo` | `WritebackWindow`, `Written`, `IssuedNeurons`, `FedNeurons`, in `MoveNeurons` |
| `_commit_accumulator_writes`, `_commit_future_contributions`, `_commit_contribution_issue` | `DueContributions`, `ConflictWinners`, `Deferred`, `IssuedContributions`, in `MoveContributions` |
| `_commit_synapse_lookup`, `_commit_ingress`, `_commit_input_source` | `LookupDone`, `AfterIngress`, `SourceCount`, in `MoveEvents` |
| `_advance_control` | `EnterNeuron`, `EnterPacketize`, `EnterBarrier`, `CompleteTick`, `HoldEmptyTick`, `StayInPhase` |
| `_check_deadlock` | `CheckDeadlock` |
| `run_until_quiescent` | `StepCycle`, `StepIdle`, `RaiseOmittedTick`, `Quiescent` |
| host calls | `LoadInputSource`, `LoadLogicalTicks`, `PresentInput`, `CloseInputs`, `InjectRouterPacket` |

The next-state relations say who the host is: `BatchNext` (a source and possibly a
list of ticks are loaded, then the loop runs: what `run_compiled_program_cycles`
does), `LiveNext` (events are presented between any two cycles) and `HarnessNext`
(router packets are placed as well, as `tests/test_v6_2_cycle_backend.py` does).
`CycleOnline` is the last of them with the history variable `orderly`: true while
every presented event could still be processed in its tick and stood behind no
later event of its FIFO.

### The RTL cores

One step of `RtlCore` is one clock edge of one of the three cores, from reset on,
with junk in the memories that reset does not clear. The setting fixes the
profile, the fixture and the consumer of the spikes; the test bench of
`tb_mini_loihi_core_*.sv`, which offers events and takes `tick_done`, is the
environment. The actions are the states of the controller:

| Code (state) | Model |
|---|---|
| `INIT_REQUEST`, `INIT_WRITE` | `Initialise` |
| `IDLE` | `TickStart`, `Idle` |
| `INGRESS` | `Ingress` |
| `AXON_WAIT`, `SYNAPSE_REQUEST`, `SYNAPSE_RESPONSE` | `Fetch` |
| `ACCUMULATE` | `Accumulate` |
| `SCAN_START`, `SCAN` with `touched_neuron_scanner.sv` | `ScanStart`, `Scan` |
| `NEURON_WAIT`, `NEURON_COMMIT` (mempipe) | `NeuronWait`, `NeuronCommit` |
| `SCAN_PIPELINE`, `PIPELINE_DRAIN` (lifpipe, readycut) | `RunPipeline`, with `LifPipeline!Step` |
| `SPIKE_DRAIN`, `TICK_DONE` | `SpikeDrain`, `TickDone` |

`LifPipeline` has one stage record for each of N0 to N5: `Response`, `Product`,
`Candidate` and `Decision` are what the stages compute, `Ready` the `stage_ready`
chain, `Commits` the commit that needs room in the spike FIFO, `CutAfter` the cut.
The synchronous state memory answers the request of the edge before
(`MemoryRead`).

### The event-driven system

A call of the host (`inject_external_event`, `process_until_idle`,
`apply_global_reward`, `apply_targeted_reward`) is a sequence of small steps of
`EventSystem`, each ending where the code may raise, so that an exception leaves
exactly the state the code leaves; the host catches it and may go on. `Deliver`
pops the heap, `UpdateSynapse` is one turn of the fan-out loop, `FinishEvent` ends
it, `RouteSpike` takes one spike from the output queue and schedules its copies,
`FinishDelivery` ends the drain, `BeginReward`, `RewardSynapse` and `FinishReward`
apply a reward core by core, `EndRun` returns or raises at `max_events`.

### Abstractions

- A `ready_cycle` (absolute hardware cycle) is a countdown `wait`; the hardware
  cycle counter itself only appears in reports.
- In the cycle and reference machine payloads are 1: a weight stands for weight
  times payload. Trace records, timing counters and digests are left out; nothing
  reads them back.
- The neuron work FIFO, the neuron pipeline and `neuron_pending` are sets: they
  are fed, issued and written back in order of neuron index, so the set and its
  order are the sequence. The delayed-contribution FIFO and the packet pipeline
  are sorted by the code each time they are used, so they too are sets.
- Contribution latencies (synapse read, contribution pipeline) and neuron
  latencies (read, arithmetic, write) only appear in the code as sums; so they
  do here. `transport_latency_ticks` is 1, the only value the compatibility
  check admits; `use_packet_priority` is never read by the router, which always
  orders by priority.
- The reference machine's queues are bags: it sorts them before use, and the
  order within a tick does not reach its results, because sums commute.
- Host calls a machine refuses are no step, except where the refusal comes after
  a change of state (`EventSystem`). In the reference machine an exception ends
  the run.
- Neurons, axons, cores and addresses of the compiler, the RTL and V5 count from 1.
- A V5 core's input queue is empty between calls of the multi-core system (every
  push is followed by the pop of the same event); only its last time is kept.
- Ratios of `stability_audit.py` are compared by multiplying out.

Definitions marked "Mutation" are slips a later change of the code could make;
nothing in a specification uses them. They are the "mutants" of `PROJECT.json`:
with one of them in the place of the definition it varies, the property named
there fails.

## 3. The runs

| Run | Bounds | Shows |
|---|---|---|
| `CycleBatch` | two cores of two neurons in a loop, nearly every depth 1, sources of up to 3 events, three explicit tick lists, 4 ticks | the cycle machine refines the reference machine at every barrier; types; a quiet machine is drained |
| `CycleTight` | a core of five neurons whose spikes make 8 packets or more for one destination, sources of up to 3 events, two explicit tick lists, which leave out ticks that packets need | storage, conservation of packets and spike order under stalls; both kinds of deadlock and what they consist of; soundness of the detector; every run ends, drained or with a report |
| `CycleOnline` | two events for one core, of two ticks, presented in any order, and two router packets placed, between any cycles; 3 ticks | neuron work exact for any host; for one in time nothing overdue and the documented barrier |
| `ReferenceReplay` | injections of one or two events and ticks in any order, idle ticks, 4 ticks; then a batch run on the recorded events | time and packets of the reference machine; online and batch agree |
| `RvElements` | the FIFO at depth 3, the cut; 3 payloads, one of the two elements in a behaviour | a bounded queue; a queue of two, a stalled payload held |
| `EventSystem` | eleven networks (those of benchmark, validation and tests, and two learning cores with feedback); one or two injections, a reward, dates up to 1, strict and lenient routing, delays 0 and 1, `max_events` as the callers pass it, or none | every exception has its cause, traffic is conserved, queues drained, deliveries in order, rewards complete, calls return, a partition computes what one core does |
| `PatternTask` | the four presets with 8, 12 and 20 trials, the 32 combinations of the sweep, two label sequences | no synapse is ever newer than an event, credit is own, rewards move weights the right way, documented results |
| `RtlCore` | twelve fixtures, three profiles, stall windows, alternating and free consumers, ingress declared done early or late | the cores refine `NeuronScan`, end every tick clean, take the predicted cycles, keep one neuron per cycle when nothing stalls |
| `CompileFlow` | two sources and three targets with up to three of seven connections, and the networks of the tests; 0 to 3 cores, both strategies and an unknown one, roomy and narrow capacities, up to 3 events | read-back, acceptance, reachability, agreement with V5 on its subset up to the order of a tick's spikes, and with the RTL on its own |
| `SubsetOrder` | as `CompileFlow` | violated: see below |
| `HeadOfLine` | as `CycleOnline`, a host of two events | violated: see below |
| `MappedRoutes` | as `CompileFlow` | violated: see below |

Why the bounds are enough. The arbitration, stall and ordering decisions of the
cycle machine compare at most two cores, two FIFO heads, and an occupancy with a
depth: two cores and depth 1 or 2 reach every outcome of every comparison, and a
smaller depth only adds stalls. Ticks interact with the next one (packets) and
with those a synaptic delay away, so 3 to 4 ticks with delays 0 and 1 cover
generation, arrival and a tick after. The burst is the smallest program with
more packets than the network stores, which is what a deadlock needs. Membranes
of the cycle machine have 5 bits and saturate, so that three coinciding inputs
already reach the boundary. Depth 3 is the smallest depth where a pointer that
wraps at a power of two goes wrong. The RTL cores have the depths and widths of
the frozen profile; the fixtures are those of the regressions, the longest
shortened to more spikes than FIFO, pipeline and cut together hold, and `Mixed`
adds what they lack (saturation, decay between ticks, an axon without synapses).
In V5, voltages have 20 as a limit so that two spikes saturate, and a second
network gives every routing case; one reward and two injections are the least
with which a reward comes between two events that share a synapse. Three
connections of the compiler are the least with a multi-edge next to another
edge, or an axon shared by two cores.

The runs of the machines say `CHECK_DEADLOCK FALSE` where a machine that has
reported an error, or whose caller has stopped, takes no further step. That a run
which should go on does go on is what `RunEndsOrReports`, `DetectorSound`,
`CallsReturn` and `TicksComplete` say. The two storage elements and the RTL cores
are checked for deadlock.

Fairness.

- `WF_vars(Run)` (cycle machine): `run_until_quiescent` is a loop around
  `step_cycle`, so while a cycle can run, or its check of the ticks raises, it does. Nothing is assumed of the
  host; the liveness property starts from `inputs_closed`.
- `WF_vars(Working)` (event system): a call runs on its own until it returns or
  raises. The host need not call. Networks with endless recurrence are bounded by
  `MaxProcessed`.
- `WF_vars(Next)` and `SF_vars(a spike is taken)` (RTL): the clock keeps running,
  and a consumer whose choice is free does not refuse for ever. A scheduled
  consumer is deterministic.
- `WF_vars(Next)` (learning experiment): it is a program that runs on.

### Disagreements found

Three runs are expected to fail; each checks what a document says.

- `HeadOfLine`: an event queued behind one of a later tick keeps the cycle machine
  opening and completing its tick for ever; no deadlock is reported, though
  `docs/V6_2_CYCLE_MODEL.md:175` promises a report when pending work cannot move.
- `MappedRoutes`: `map_connections_to_cores` names a destination once for each
  connection, so a source with two targets on one core gets a routing entry that
  `install_routing_entry` refuses as "duplicate destinations".
- `SubsetOrder`: `compare_v5_compatible_subset` compares spikes in order, and
  `docs/V6_1_REFERENCE_BACKEND.md:178` says that on the V5 subset they "are compared
  exactly". Within a tick the V5 core fires in the order of the events, the reference
  machine in the order of the neurons: two events of one tick on axons whose targets
  stand the other way round make the comparison report `compatible=False`, for a
  program `is_v5_compatible_subset` accepts. What does agree is `SubsetFiresAlike`:
  the same neurons at the same times as often, and the same membranes.

Three more are visible in the models and stated as limits of the properties:

- an event for the active tick presented after its work phase is accepted and misses
  the tick (`orderly` excludes it);
- the cycle machine records spikes in the order of writebacks, which interleaves the
  cores, the reference machine by core and neuron; `run_cycle_differential`
  (`cycle_backend.py:1514`) compares the two lists in order, so it reports "logical
  spike mismatch" for two machines of two cores that did the same work. As a bag the
  spikes are the same (`ImplementsReference`), and core by core in order
  (`CoreSpikesInOrder`);
- a delayed FIFO that was full in the registered state can accept in the same cycle
  (`Deferred`).

`RewardsReachAll` speaks of rewards dated with the clock; one dated otherwise, which a
core can refuse after others have applied it (`apply_global_reward` is not atomic),
leaves those rewarded in the model as in the code.

## 4. The proofs

| Theorem | States, for all constants | Invariant |
|---|---|---|
| `CycleProofs!BatchUpdatesOnce`, `LiveUpdatesOnce`, `HarnessUpdatesOnce` | `NeuronWorkPartition`: each affected neuron is updated exactly once per tick | `WorkInv` |
| `CycleProofs!BatchTyped`, `HarnessTyped` | `TypeOK` | `StorageInv` |
| `CycleProofs!BatchBounded`, `HarnessBounded` | `StorageBounded`: no queue ever exceeds its depth | `StorageInv` |
| `CycleProofs!BatchConserved`, `LiveConserved` | `PacketsConserved`: packets emitted are as many as are held or were admitted, identifiers are unique | `ConservedInv` |
| `CycleTimeProofs!BatchNothingOverdue`, `OnlineNothingOverdue` | `NothingOverdue`: nothing held is late (online: while the host is in time) | `TimeInv`, `OnlineInv` |
| `CycleTimeProofs!BatchBarrier`, `OnlineBarrier` | `BarrierContract`: what the barrier of the documentation promises | `TimeInv`, `OnlineInv` |
| `CycleTimeProofs!BatchDrained` | `QuiescentIsDrained`: a run that stops leaves nothing due | `BatchInv` |
| `CycleTimeProofs!BatchDetectorSound` | `DetectorSound`: a counted standstill stays one | `StuckInv` |
| `CycleTimeProofs!BatchSpikesInOrder` | `CoreSpikesInOrder` | `BatchInv`, `SpikeInv` |
| `CycleTimeProofs!BatchDeadlockIsStorage` | `DeadlockIsStorage`: only full storage blocks a run | `CauseInv` |
| `EventProofs!MemoriesSaturate` | voltages and weights keep their widths, traces stay natural numbers | `TypeInv` |
| `EventProofs!ExceptionsExplained` | `ErrorsExplained`: each exception has its one cause | `EventInv` |
| `EventProofs!SpikesRouted` | `OutputsDrained` | `EventInv` |
| `EventProofs!RewardsDelivered` | `RewardsReachAll` | `EventInv` |
| `EventProofs!DeliveredInOrder` | `DeliveriesSorted`, an action property: deliveries never go back in time, whatever the axonal delays; where those are positive they come in the full order of the heap | `EventInv`, `OrderInv`, `DeliveredInv` |
| `EventProofs!CopiesConserved` | `TrafficConserved` | `EventInv`, `ConservedInv` |
| `ReferenceProofs!NeverOverdue` | `NothingOverdue` of the reference machine | `TimeInv` |
| `ReferenceProofs!PacketsFollowSpikes` | `PacketsMatchSpikes`: each spike sends one packet per route, and nothing else does | `PacketInv` |
| `ReferenceProofs!OnlineIsBatch` | `OnlineEqualsBatch`: what is computed does not depend on when or in what groups events were injected, nor on idle ticks | `ReplayInv` |
| `RtlProofs!LazyDecay` | decay over `m+n` ticks is decay over `m`, then `n` | case split on sign, with `DecayComposes` |
| `RtlProofs!NarrowFits`, `UpdateFits` | results fit their formats | `ModRange` |
| `RtlProofs!StagesComputeUpdate` | the chained arithmetic of the pipeline's stages is `update_neuron` for a LIF neuron | stage by stage |
| `RtlProofs!StagesHandOver` | a neuron leaves a stage exactly when the next, the cut or the commit takes it | case split on the stage |
| `RtlProofs!TicksLeaveClean` | `TickDoneIsClean`: a done tick leaves queues, pipeline, bank and touched bits empty, in all three cores | `IInv` |
| `RtlProofs!CoreImplementsScan` | `ImplementsScan`: each of the three cores implements `NeuronScan`, whatever the program, the depths and the consumer of the spikes | `IInv` |
| `RvFifoProofs!TypeCorrect`, `PointersAlwaysAgree`, `FifoImplementsQueue` | the FIFO is a bounded queue of its depth | `Inv` |
| `RvRegisteredCutProofs!TypeCorrect`, `ReadyAlwaysExact`, `StalledPayloadAlwaysHeld`, `CutImplementsQueue` | the cut is a queue of two, and holds a stalled payload: what `RvElements` checks of the instance `Cut` | `Inv` |

The inductive invariants of the cycle machine:

- `WorkInv == NeuronWorkPartition /\ PhaseOK /\ PipelineShape`. The partition
  alone is not inductive: which of its cases applies depends on the phase, so one
  needs that the phase is one of the four; and that two entries of the pipeline
  stay equal or different while their countdowns run needs that they are records
  with the same fields.
- `StorageInv` adds, queue by queue, the types of the entries and the bound of the
  length. The bounds need each other: a queue stays in its depth because the stage
  that fills it reads its old length and takes no more than the difference, which
  holds only while the lengths are those of sequences and the sets are finite. That
  a packet in the pipeline is unique needs that its identifier is below
  `next_event_id`.
- `ConservedInv` counts packets over all cores. A sum over the cores is the
  cardinality of a set of cells (`Total` in `Ordering`), so that one packet moving
  is one cell moving (lemmas of `OrderingProofs`), with no induction.
- `TimeInv` says that everything held is due from `Earliest` on, that the packets
  on their way all arrive in one tick, the next one, and that a phase that is over
  has left its pipelines empty: without the last, a contribution could be written
  into a tick that is past. `FedBySource` adds that an external FIFO is in the order
  of its timestamps when only the source fills it, so that its head speaks for it.
- `OnlineInv` is the same while `orderly`; a host that is late only ends its
  hypothesis.
- `StuckInv` says what the first and the second cycle without progress leave: first
  no entry that only waits, then a cycle (`Stuck`) in which no stage moves
  anything. Two cycles are needed, because an expiring wait is no progress itself
  but can enable one.
- `SpikeInv` keeps, for each recorded spike of the running tick, that all neurons
  still to be updated have a larger index or are spikes held before it.
- `CauseInv` joins them. A stuck machine with room everywhere must be shown to move;
  in the accumulator arbiter this needs that no two contributions to a neuron tie,
  and so that an event and a synapse determine a contribution (`IdentityInv`, which
  says that identifiers have one origin).

Those of the multi-core system:

- `EventInv` joins `TypeInv` (with a heap whose entries are distinct by number and
  all memories in range); `ClockInv`: no heap entry is behind the clock, no queue of
  a core ahead of it, which is why no queue ever refuses an event; `RewardInv`: core
  and synapse times are behind the clock unless a reward was dated after it, and,
  core by core, what was given is what was taken plus what the running call still
  owes; `SpikeInv`: a waiting spike has the time of the running event unless
  something raised, which is why routing is never late; and `ErrorsExplained`.
- `OrderInv` says that no heap entry precedes the last delivery, nor the running
  one: a copy of a spike is due strictly later because the axonal delay is positive.
  `DeliveredInv`, which needs no such delay, says that the last delivery is not after
  the clock, and `ClockInv` that nothing in the heap is behind it.
- `ConservedInv` is `TrafficConserved` with the finiteness of what is owed. Pushing a
  spike adds its copies (`PushedOwes`); routing one removes them and moves those of
  the spikes behind it by one place, a bijection (`RoutedOwes`).

And of the others:

- `TimeInv` of the reference machine restates `NothingOverdue` queue by queue, with
  the timestamps natural numbers and the tick counter one too, or -1 before the
  first tick.
- `PacketInv` is `PacketsMatchSpikes` with the recorded spikes being ones of neurons
  of the program, which makes their uses of routes finite. A tick counts its packets
  over neurons, the property over indices of the recorded list, so the step rests on
  a bijection of the two (`SentByTick`): the list holds each spike of a tick once
  (`NewSpikesOnce`) because the order of cores and neurons is total.
- `ReplayInv` says that there is a run, a sequence of states of a machine that had all
  the events from the start, that leads to where the online machine is, and that the
  batch machine is on it. A tick prolongs the run by one state. An injection changes
  every state of it: the events are added to each, and each step of the run remains
  one, because the events are due after every tick of the run (`GrownSteps`). A step
  of the run in which nothing is due leaves everything as it is (`IdleSteps`): queues,
  spikes, packets and the neurons, whose decay waits for the next tick that touches
  them. So the last place of the run that agrees with the batch machine is its end, or
  something held there is due in the step that follows, which is then the tick the
  batch machine takes (`BatchPlace`). Both machines are one function of what is due in
  a tick (`PhasesAre`, `BatchPhasesAre`).
- `IInv` of the RTL cores (`RtlProofs!Invariant`) has a part for each unit.
  `InitialiseInv`: the words before `index` are written, and reset left nothing
  else behind. `QuietInv`: what a state does not use is empty, and the bank is zero
  wherever the touched bit is off. `FrontInv`: the bank holds, for each neuron, the
  sum of the contributions `Done` so far (those of the events taken out of the
  ingress FIFO, without those of the event in work that are still to be fetched or
  wait in the lanes), and the FIFO holds the next events of the list; so the sum is
  whole when the scan begins, wherever the handshakes fell. `SumsInv`: it stays
  whole until the neuron retires. `MempipeInv`: one neuron is in work, the touched
  ones are at or behind the cursor, and the memory word is that neuron's.
  `PipelineInv`: each of the eight places a neuron can be in (six stages, two in the
  cut) holds exactly what the stages up to there make of the neuron's sum and of its
  memory word (`Work`), the neurons are in ascending order from the far end, and the
  touched neurons before the cursor are those in flight. It is inductive because the
  stages hand over (`StagesHandOver`, `Moved`), because the word of a neuron changes
  only when that neuron itself retires, and because no neuron is in two places.
- `CoreImplementsScan` maps the start of the scan to `StartTick`, each retirement to
  `UpdateNeuron` of the least pending neuron, the end of the scan to `FinishTick` and
  every other edge to a stutter. What retires is `Work` at the last place, which
  `StagesComputeUpdate` says is the reference machine's update.
- `Inv` of the FIFO and the cut: types, pointer arithmetic modulo the depth, and
  for the cut that the registered ready is exact. The refinement needs that the
  contents, read from the read pointer on, lose their head on a pop and gain a
  last element on a push.

Sums over sets. The community modules define the fold of a set by a recursive
function on its subsets, picked by `CHOOSE`. `SumExists` shows that its equation has
a solution, `SumUnique` that two solutions agree on every subset, and
`SumSolved` that the fold is the value of any of them. From that `SumAdd` and
`SumRemove` follow: a sum does not depend on the order in which it is taken. Where
a proof needs induction over the size of a set, it takes the least
counterexample, which exists because a set of natural numbers has one.

TLC checked each of these invariants on the instance of the run that checks the
property it supports before it was proved, with one exception: `ReplayInv` quantifies
over runs, which TLC cannot enumerate, so that only `OnlineEqualsBatch` itself and
`TimeInv` were checked.

Assumptions: `MicroarchitectureAssumption` (depths, rates and latencies are
positive, as `MicroarchitectureSpec.__post_init__` requires), `ProgramAssumption` and
`ReferenceAssumption` (a compiled program is well formed: finitely many neurons and
routes, delays not negative), `ImageAssumption` (its images have a bank entry for each of
their neurons and finitely many synapses; injected events are records of numbers),
`FormatsAssumption` (a format has `min <= max`),
`SettingsAssumption` (the programs an RTL core is given are those that
`validate_rtl_subset` accepts: LIF neurons, synapses to neurons of the core, events to
its axons; its FIFO and its lanes are at least one), `NoneAssumption` (the model value for
an invalid stage is no payload),
`FifoAssumption`, `PortAssumption` (the value for no handshake is no payload), `NumberAssumption` (the ranges of voltages and
weights hold 0), `NetworkAssumption` (memories agree with the sizes of their core, routes name axons that exist: what the constructors and
`install_routing_entry` check) and the two `HostAssumption` (what the hosts of the
cycle machine and of the multi-core system pass: numbers). TLC evaluates each in a
run, as it does `FlowAssumption` and `PresetsAssumption` (the frozen presets satisfy
their classes and no register is too narrow), on which no proof rests.

Only model-checked:

- the refinement of the reference machine by the cycle machine
  (`ImplementsReference`): it compares bags of packets, contributions and spikes that
  two machines fill in different orders, so that a proof needs a correspondence of
  all their queues during a tick, over bags that are themselves folds;
- `PartitionEquivalent`: it runs a fold over a fan-out as often as events were
  processed, which is induction over data;
- everything about the compiler and the oracles, whose operators fold over
  sequences or recurse (`OraclePredicts` and `SteadyRate` compare the RTL cores with
  those oracles);
- the learning experiment, which is a finite set of experiments: TLC visits all of
  them;
- liveness under fairness (`RunEndsOrReports`, `CallsReturn`, `TicksComplete`) and
  `ENABLED`, which the prover does not treat.

## 5. Not modelled

- The partial state an exception leaves behind in the middle of a tick of the
  reference or the cycle machine (neither can go on from it), widths of widened
  intermediates, the limits on timestamps and on the number of hardware cycles.
- `mini_loihi_core.sv`, the first RTL core with combinational memories: the three
  later ones repeat its controller with the memory stages added. A reset in the
  middle of a tick, and the saturation flags of the RTL.
- A V5 core of its own whose queue holds several events at once; profiles, memory
  estimates and wall-clock times.
- The JSON and memory-file forms of programs, digests, traces and timing reports:
  records the machines do not read.
- `rtl_verify.py`, `rtl_audit.py`, `eda.py`, `*_artifacts.py`, `*_trace.py`: they
  generate files, run external tools and parse their output. Of
  `lifpipe_verify.py`, `readycut_verify.py` and `mempipe_verify.py` only the
  comparisons are modelled. Test benches, tops and core-level formal harnesses are
  the repository's own verification.
- `benchmark.py`, `presets.py`, `__main__.py`, `__init__.py`: timing, tables and
  argument parsing.

## 6. Plan

What is left, in order of importance:

1. Proofs: `ImplementsReference` with the lemmas about sums over sets that the RTL
   cores now use; the invariants of the learning experiment that need no
   enumeration (`CreditIsOwn`).
2. Timestamp limits and mid-tick exceptions of the reference and the cycle machine.
3. A reset in the middle of a tick of the RTL cores (`tb_mempipe_reset.sv`).
