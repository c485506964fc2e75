----------------------------- MODULE CompileFlow -----------------------------
(***************************************************************************)
(* From a network to a program that runs: a caller builds a network,       *)
(* compiles it for an architecture, and injects events into the program;   *)
(* or it maps the same graph with the V4 mapper.                           *)
(***************************************************************************)
EXTENDS Compatibility, Mapper

CONSTANTS
    Sources,         \* what a caller gives NetworkIR
    Architectures,
    CoreCounts, Strategies,
    Capacities,      \* of the mapper
    EventChoices,    \* the events a caller injects
    MaxEvents

ASSUME FlowAssumption == \A a \in Architectures : IsArchitecture(a)

VARIABLES
    stage,           \* "raw", "network", then "program", "mapped" or "refused"
    network, architecture, cores, strategy,
    product,         \* the CompiledProgram or the PartitionedNetwork
    events           \* injected into the program
flow == <<stage, network, architecture, cores, strategy, product, events>>

\* The graph the mapper gets: the neurons numbered in their order, odd connections plastic.
Graph(n) ==
    LET ordered == OrderedNeurons(n)
        number(key) == CHOOSE g \in DOMAIN ordered : ordered[g] = key
    IN  [i \in DOMAIN n.connections |->
           LET x == n.connections[i]
           IN  [source |-> number(x.source), target |-> number(x.target),
                weight |-> x.weight, plastic |-> x.id % 2 = 1]]
Count(n) == Cardinality(Neurons(n))

Init ==
    /\ network \in Sources /\ architecture \in Architectures
    /\ cores \in CoreCounts /\ strategy \in Strategies
    /\ stage = "raw" /\ product = <<>> /\ events = <<>>

\* NetworkIR(...).
Build ==
    /\ stage = "raw"
    /\ stage' = IF IsNetworkIR(network) THEN "network" ELSE "refused"
    /\ UNCHANGED <<network, architecture, cores, strategy, product, events>>

\* compile_network.
Compile ==
    /\ stage = "network"
    /\ IF Refused(network, architecture, cores, strategy)
       THEN stage' = "refused" /\ UNCHANGED product
       ELSE stage' = "program" /\ product' = Compiled(network, cores, strategy)
    /\ UNCHANGED <<network, architecture, cores, strategy, events>>

\* map_connections_to_cores.
Map ==
    /\ stage = "network"
    /\ \E capacity \in Capacities :
         IF MappingRefused(Count(network), cores, Graph(network), capacity, strategy)
         THEN stage' = "refused" /\ UNCHANGED product
         ELSE /\ stage' = "mapped"
              /\ product' = Partitioned(Count(network), cores, Graph(network), strategy)
    /\ UNCHANGED <<network, architecture, cores, strategy, events>>

\* The caller adds an event the reference machine accepts, in time order.
Inject ==
    /\ stage = "program" /\ AcceptedProgram(product, architecture) /\ Len(events) < MaxEvents
    /\ \E e \in EventChoices :
        /\ AcceptedEvent(product, architecture, e, 0)
        /\ \A i \in DOMAIN events : events[i].timestamp <= e.timestamp
        /\ events' = Append(events, e)
    /\ UNCHANGED <<stage, network, architecture, cores, strategy, product>>

\* Two ticks after the last event that a caller injects, and the lists of ticks up to there.
Horizon == Max({e.timestamp : e \in EventChoices}) + 2
TickLists == {SetToSortSeq(S, <) : S \in SUBSET (0 .. Horizon)}

Next == Build \/ Compile \/ Map \/ Inject
Spec == Init /\ [][Next]_flow

------------------------------------------------------------------------------
(* Properties.                                                              *)

ConnectionBag(n) ==
    BagOf(LAMBDA x : [source |-> x.source, target |-> x.target, weight |-> x.weight,
                      delay |-> x.delay, rule |-> x.rule, tag |-> x.tag], Connections(n))

\* Nothing is lost or invented on the way into the memories: the connections read back
\* from the images (reconstruct_compiled_connections) and from the partition
\* (reconstruct_global_connections) are those of the network, each as often as it was given,
\* whatever the placement cut apart; and the mapper's report counts each of them once.
RoundTrip ==
    /\ stage = "program" => ReconstructedConnections(product) = ConnectionBag(network)
    /\ stage = "mapped" =>
         /\ MappingRoundTrip(product, Graph(network))
         /\ LocalConnections(product) + RemoteConnections(product) = Len(network.connections)

\* What the compiler produces, the machines take: validate_compiled_program accepts every
\* program, and the reference machine every one that asks for no learning, which it cannot
\* run, for an architecture of integer formats.  (The only ones modelled: one with
\* fractional bits compiles, and reference_backend.py:715 refuses it.)  A network is
\* refused when it is built or compiled, not later.
ProgramAccepted ==
    stage = "program" =>
        /\ CoresNumbered(product) /\ AcceptedArtifact(product)
        /\ (\A x \in Connections(network) : x.rule = 0 /\ x.tag = 0)
           => AcceptedProgram(product, architecture)

\* The synapses a spike of neuron n of core c reaches when every route is followed.
Reached(program, c, n) ==
    UNION {{<<r.core, r.axon, i>> : i \in FanoutAddresses(program.cores[r.core], r.axon)} :
              r \in {s \in ToSet(program.cores[c].routing_entries) : s.source_neuron = n}}
Outgoing(program, key) ==
    LET read(x) == LET s == program.cores[x[1]].synapses[x[3]]
                   IN  [target |-> Placed(program, x[1], s.target),
                        weight |-> s.weight, delay |-> s.delay]
        place == program.placements[key]
    IN  BagOf(read, Reached(program, place.core, place.local))

\* A spike does what the network says: following the routes of its neuron drives the
\* neuron's connections and no other synapse, none of them twice.  (The read-back of
\* RoundTrip would not notice an axon fed by two neurons or twice by one.)
SpikesReachTargets ==
    stage = "program" => \A key \in Neurons(network) :
        Outgoing(product, key)
            = BagOf(LAMBDA x : [target |-> x.target, weight |-> x.weight, delay |-> x.delay],
                    {x \in Connections(network) : x.source = key})

\* On the subset is_v5_compatible_subset accepts, the event-driven core and the reference
\* machine end with the same membranes and fire the same neurons at the same times, each
\* as often: no program or event list passes on which firing at each event differs from
\* firing once for the sum of a tick.  The order within a tick is SubsetAgrees.
SubsetFiresAlike ==
    stage = "program" /\ events # <<>> /\ CompatibleSubset(product, events) =>
        LET v5 == RunV5(product.cores[1], events)
            v6 == RunV6(product, events, Horizon)
        IN  /\ \A n \in DOMAIN v5.neurons : v5.neurons[n].membrane = v6.neurons[n].membrane
            /\ BagOf(LAMBDA i : v5.spikes[i], DOMAIN v5.spikes)
                 = BagOf(LAMBDA i : v6.spikes[i], DOMAIN v6.spikes)

\* docs/V6_1_REFERENCE_BACKEND.md:178 says of that subset that the spikes "are compared
\* exactly", and the predicate calls its order "unambiguous event-by-event ordering"
\* (reference_compatibility.py:60): compare_v5_compatible_subset, which compares the two
\* lists in order (line 110), must find them equal.
SubsetAgrees ==
    stage = "program" /\ events # <<>> /\ CompatibleSubset(product, events) =>
        RunV5(product.cores[1], events).spikes = RunV6(product, events, Horizon).spikes

\* A program and its events that export_rtl_fixture takes run on the RTL, which routes no
\* spike and steps only through the ticks it is given, as on the reference machine: the
\* same spikes in the same order and the same neurons at the end, for the ticks of the
\* events and for every other list of ticks that has them.
ExportRunsAlike ==
    stage = "program" /\ events # <<>> /\ RtlSupported(product, architecture, events) =>
        \A ids \in TickLists : Exportable(product, architecture, events, ids) =>
            RunRtl(Exported(product, events, ids)) = RunV6(product, events, Horizon)

\* docs/HARDWARE_MAPPING.md:3 says the mapper translates a graph into routing entries;
\* MultiCoreSystem must accept them.
RoutesInstallable ==
    stage = "mapped" => \A entry \in product.routing_entries : Installable(product, entry)
==============================================================================
