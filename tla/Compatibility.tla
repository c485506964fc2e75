---------------------------- MODULE Compatibility ----------------------------
(***************************************************************************)
(* A compiled program of one core, run by the V5 core (event by event,     *)
(* synapse by synapse), by the reference machine (tick by tick, the        *)
(* contributions of a tick summed) and, exported, by the RTL machines; and *)
(* the subsets on which they are said to agree:                            *)
(* mini_loihi/reference_compatibility.py and mini_loihi/rtl_artifacts.py.  *)
(* An event is [timestamp, core, axon, payload].                           *)
(***************************************************************************)
EXTENDS ProgramChecks, EventCore, Presets

\* Every synapse an event drives, <<event, address>>, in the order of the core.
Traversed(image, events) ==
    FlattenSeq([i \in DOMAIN events |->
        LET a == events[i].axon
        IN  [k \in 1 .. image.axon_fanout_len[a] |-> <<i, image.axon_fanout_ptr[a] + k - 1>>]])

\* No event and synapse reach a neuron twice in one tick.
NoFanIn(image, events) ==
    LET crossed == Traversed(image, events)
    IN  \A i, j \in DOMAIN crossed :
          /\ events[crossed[i][1]].timestamp = events[crossed[j][1]].timestamp
          /\ image.synapses[crossed[i][2]].target = image.synapses[crossed[j][2]].target
          => i = j

\* A target has no route of its own.
TerminalTargets(program) ==
    \A s \in ToSet(program.cores[1].synapses) : \A r \in ToSet(program.global_routing_image) :
        r.source_neuron # s.target

\* Mutation: same-tick fan-in is let through.
SubsetWithFanIn(program, events) ==
    /\ Len(program.cores) = 1
    /\ \A n \in ToSet(program.cores[1].neurons) : ~n.alif /\ n.leak = 0 /\ n.reset = 0
    /\ \A s \in ToSet(program.cores[1].synapses) : s.delay = 0 /\ s.rule = 0
    /\ \A i \in DOMAIN events : events[i].payload = 1 /\ events[i].core = 1
    /\ TerminalTargets(program)

\* is_v5_compatible_subset.
CompatibleSubset(program, events) ==
    /\ Len(program.cores) = 1
    /\ \A n \in ToSet(program.cores[1].neurons) : ~n.alif /\ n.leak = 0 /\ n.reset = 0
    /\ \A s \in ToSet(program.cores[1].synapses) : s.delay = 0 /\ s.rule = 0
    /\ \A i \in DOMAIN events : events[i].payload = 1 /\ events[i].core = 1
    /\ TerminalTargets(program)
    /\ NoFanIn(program.cores[1], events)

\* A run: the neurons and the spikes <<time, neuron>> in the order they were recorded.
StartOf(image) ==
    [neurons |-> [n \in DOMAIN image.neurons |->
         [membrane |-> image.neurons[n].voltage, adaptation |-> image.neurons[n].adaptation,
          last_update_tick |-> 0]],
     spikes |-> <<>>]

\* The V5 core after all its events.
RunV5(image, events) ==
    LET cross(run, x) ==
          LET s == image.synapses[x[2]]
              update == UpdateNeuron(DefaultConfig, run.neurons[s.target].membrane,
                                     image.neurons[s.target].threshold, s.weight)
          IN  [neurons |-> [run.neurons EXCEPT ![s.target].membrane = update.v],
               spikes |-> IF update.spike
                          THEN Append(run.spikes, <<events[x[1]].timestamp, s.target>>)
                          ELSE run.spikes]
    IN  FoldLeft(cross, StartOf(image), Traversed(image, events))

-----------------------------------------------------------------------------
(* The reference machine.                                                   *)

\* The neurons of one tick, in their order, each with the sum of its contributions.
RunTick(image, run, tick, arrivals) ==
    LET crossed == ToSet(Traversed(image, arrivals))
        targets == {image.synapses[x[2]].target : x \in crossed}
        sum(n) == MapThenSumSet(
                    LAMBDA x : image.synapses[x[2]].weight * arrivals[x[1]].payload,
                    {x \in crossed : image.synapses[x[2]].target = n})
        update(r, n) ==
          LET after == update_neuron(image.neurons[n], r.neurons[n], sum(n), tick)
          IN  [neurons |-> [r.neurons EXCEPT ![n] = after.state],
               spikes |-> IF after.spike THEN Append(r.spikes, <<tick, n>>) ELSE r.spikes]
    IN  FoldLeft(update, run, SetToSortSeq(targets, <))

\* The packets of the spikes of a tick, which arrive in the next one.
RoutedOf(program, spikes, tick) ==
    FlattenSeq([i \in DOMAIN spikes |->
        LET of == SelectSeq(program.global_routing_image,
                            LAMBDA r : spikes[i] = <<tick, r.source_neuron>>)
        IN  [k \in DOMAIN of |-> [timestamp |-> tick + 1, axon |-> of[k].axon, payload |-> 1]]])

\* run_compiled_program, of one core without synaptic delays, up to the last tick given.
RunV6(program, events, last) ==
    LET image == program.cores[1]
        step(run, tick) ==
          RunTick(image, run, tick,
                  SelectSeq(events, LAMBDA e : e.timestamp = tick)
                      \o RoutedOf(program, run.spikes, tick - 1))
    IN  FoldLeft(step, StartOf(image), [i \in 1 .. last + 1 |-> i - 1])

-----------------------------------------------------------------------------
(* mini_loihi/rtl_artifacts.py: a program and its events become a fixture   *)
(* of the RTL, which has no router, no delays and one core.                 *)

\* Mutation: an image whose spikes drive its own synapses is let through.
RtlSupportedRecurrent(program, a, events) ==
    /\ AcceptedArtifact(program) /\ AcceptedProgram(program, a)
    /\ Len(program.cores) = V70Rtl.supported_core_count
    /\ \A n \in ToSet(program.cores[1].neurons) :
        /\ ~n.alif /\ n.adaptation = 0 /\ n.adaptation_increment = 0 /\ n.adaptation_decay = 0
        /\ n.leak >= 0
    /\ \A s \in ToSet(program.cores[1].synapses) : s.delay = 0 /\ s.rule = 0 /\ s.tag = 0
    /\ \A i \in DOMAIN events :
        /\ i > 1 => events[i - 1].timestamp <= events[i].timestamp
        /\ events[i].core = 1

\* validate_rtl_subset.
RtlSupported(program, a, events) ==
    /\ AcceptedArtifact(program) /\ AcceptedProgram(program, a)
    /\ Len(program.cores) = V70Rtl.supported_core_count
    /\ \A n \in ToSet(program.cores[1].neurons) :
        /\ ~n.alif /\ n.adaptation = 0 /\ n.adaptation_increment = 0 /\ n.adaptation_decay = 0
        /\ n.leak >= 0
    /\ \A s \in ToSet(program.cores[1].synapses) :
        s.delay = V70Rtl.supported_synaptic_delay /\ s.rule = 0 /\ s.tag = 0
    /\ \A r \in ToSet(program.global_routing_image) : r.source_core = 1 /\ r.core = 1
    /\ TerminalTargets(program)
    /\ \A i \in DOMAIN events :
        /\ i > 1 => events[i - 1].timestamp <= events[i].timestamp
        /\ events[i].core = 1 /\ events[i].axon \in DOMAIN program.cores[1].axon_fanout_ptr
        /\ Fits(events[i].payload, a.payload)

\* _validate_wide_accumulator_bound: no order of a tick's contributions can overflow.
WideAccumulatorBounded(image, events, a) ==
    LET crossed == ToSet(Traversed(image, events))
        absolute(x) == LET v == image.synapses[x[2]].weight * events[x[1]].payload
                       IN  IF v < 0 THEN -v ELSE v
    IN  \A x \in crossed :
          MapThenSumSet(absolute,
              {y \in crossed : /\ events[y[1]].timestamp = events[x[1]].timestamp
                               /\ image.synapses[y[2]].target = image.synapses[x[2]].target})
          < 2 ^ (a.sum_width - 1)

\* What export_rtl_fixture demands of the ticks and the events it writes.
Exportable(program, a, events, tick_ids) ==
    /\ RtlSupported(program, a, events)
    /\ LogicalTicks(tick_ids, a)
    /\ \A i \in DOMAIN events : Contains(tick_ids, events[i].timestamp)
    /\ Len(events) < 2 ^ V70Rtl.event_id_width
    /\ WideAccumulatorBounded(program.cores[1], events, a)

\* The memories and the event list it writes, as a fixture of NeuronScan.
Exported(program, events, tick_ids) ==
    LET image == program.cores[1]
    IN  [params |-> image.neurons,
         voltage |-> [n \in DOMAIN image.neurons |-> image.neurons[n].voltage],
         fanout |-> [a \in DOMAIN image.axon_fanout_ptr |->
                       SubSeq(image.synapses, image.axon_fanout_ptr[a],
                              image.axon_fanout_ptr[a] + image.axon_fanout_len[a] - 1)],
         ticks |-> [t \in DOMAIN tick_ids |->
                      [id |-> tick_ids[t],
                       events |-> SelectSeq(events, LAMBDA e : e.timestamp = tick_ids[t])]]]

\* What the RTL machines do with a fixture: NeuronScan, run to its end.
Scan(f) == INSTANCE NeuronScan WITH Fixtures <- {f}, fixture <- f, completed <- 0,
               running <- FALSE, pending <- {}, neurons <- <<>>, spikes <- <<>>
RunRtl(f) ==
    LET start == [neurons |-> [n \in DOMAIN f.params |->
                      [membrane |-> f.voltage[n], adaptation |-> 0, last_update_tick |-> 0]],
                  spikes |-> <<>>]
        step(run, tick) ==
          LET update(r, n) ==
                LET after == update_neuron(f.params[n], r.neurons[n],
                                           Scan(f)!Accumulated(tick.events, n), tick.id)
                IN  [neurons |-> [r.neurons EXCEPT ![n] = after.state],
                     spikes |-> IF after.spike THEN Append(r.spikes, <<tick.id, n>>)
                                ELSE r.spikes]
          IN  FoldLeft(update, run, SetToSortSeq(Scan(f)!Touched(tick.events), <))
    IN  FoldLeft(step, start, f.ticks)
==============================================================================
