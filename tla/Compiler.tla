------------------------------- MODULE Compiler -------------------------------
(***************************************************************************)
(* mini_loihi/compiler.py: a network becomes one memory image per core and *)
(* the routes between them, or is refused.  Before it, the intermediate    *)
(* representation the compiler starts from (mini_loihi/model_ir.py) and    *)
(* the limits it compiles to (mini_loihi/architecture.py).                 *)
(* Identifiers are numbers in the order of their strings.  Populations,    *)
(* neurons, cores, axons and addresses count from 1; a neuron of the       *)
(* network is <<population, index>>.  Ports, deadlines and priorities,     *)
(* which the compiled image drops, are left out.                           *)
(***************************************************************************)
EXTENDS NeuronUpdate, Ordering

\* The order of Python's tuples of integers.
LexBefore(s, t) ==
    \E i \in DOMAIN s : s[i] < t[i] /\ \A j \in 1 .. i - 1 : s[j] = t[j]

Fits(value, format) == format.min <= value /\ value <= format.max

\* LIFParameters and ALIFParameters, a LIF neuron having no adaptation.
LifPopulation(id, count, threshold) ==
    [id |-> id, count |-> count,
     neuron |-> [alif |-> FALSE, threshold |-> threshold, reset |-> 0, leak |-> 0, voltage |-> 0,
                 adaptation |-> 0, adaptation_increment |-> 0, adaptation_decay |-> 0]]

\* ConnectionIR with its defaults: delay 1, no learning.
Connection(id, source, target, weight) ==
    [id |-> id, source |-> source, target |-> target, weight |-> weight,
     delay |-> 1, rule |-> 0, tag |-> 0]

Populations(network) == ToSet(network.populations)
Connections(network) == ToSet(network.connections)

Unique(items) == \A i, j \in DOMAIN items : items[i].id = items[j].id => i = j

\* The checks of __post_init__: identifiers are unique, every end of a connection is a
\* neuron of a population, no count is empty and no delay or tag negative.
HasNeuron(network, key) ==
    \E p \in Populations(network) : p.id = key[1] /\ key[2] \in 1 .. p.count

IsNetworkIR(network) ==
    /\ Unique(network.populations) /\ Unique(network.connections)
    /\ \A p \in Populations(network) : p.count > 0
    /\ \A x \in Connections(network) :
        /\ HasNeuron(network, x.source) /\ HasNeuron(network, x.target)
        /\ x.delay >= 0 /\ x.tag >= 0

\* neuron_count and the parameters of a neuron's population.
Neurons(network) == UNION {{<<p.id, i>> : i \in 1 .. p.count} : p \in Populations(network)}
PopulationOf(network, key) == CHOOSE p \in Populations(network) : p.id = key[1]

\* network_from_v5_connections: one LIF population, the connections <<source, target,
\* weight>> numbered in their order.
FromV5(connections, count, threshold) ==
    [populations |-> <<LifPopulation(1, count, threshold)>>,
     connections |-> [i \in DOMAIN connections |->
         Connection(i, <<1, connections[i][1]>>, <<1, connections[i][2]>>, connections[i][3])]]

\* CoreArchitectureSpec: its capacities are positive and its identifiers fit the fields
\* of the packet format.
IsArchitecture(a) ==
    /\ {a.neurons, a.axons, a.synapses, a.routes, a.accumulator_width} \subseteq Nat \ {0}
    /\ \A f \in {a.weight, a.state, a.threshold, a.adaptation, a.learning} : IsFormat(f)
    /\ a.neurons <= a.source_neurons /\ a.axons <= a.destination_axons
    /\ a.accumulator_width <= a.sum_width

\* How many cores the source and destination fields of a packet can name.
CoreCapacity(a) == IF a.source_cores < a.destination_cores THEN a.source_cores
                   ELSE a.destination_cores

-------------------------------------------------------------------------------
(* The compiler: placement.                                                   *)

\* The core of the g-th of count neurons.
BlockSize(count, cores) == Max({1, (count + cores - 1) \div cores})
CoreOf(g, count, cores, strategy) ==
    IF strategy = "block" THEN Min({(g - 1) \div BlockSize(count, cores), cores - 1}) + 1
    ELSE ((g - 1) % cores) + 1

\* The neurons 1 .. count on their cores; a core numbers its own in their order.
PlaceAll(count, cores, strategy) ==
    [g \in 1 .. count |->
        LET core == CoreOf(g, count, cores, strategy)
        IN  [core |-> core,
             local |-> Cardinality({h \in 1 .. g : CoreOf(h, count, cores, strategy) = core})]]

OrderedNeurons(network) == InOrder(Neurons(network), LexBefore)

\* _place_neurons: where each neuron of the network goes.
Placement(network, cores, strategy) ==
    LET ordered == OrderedNeurons(network)
        places == PlaceAll(Len(ordered), cores, strategy)
    IN  [key \in Neurons(network) |-> places[CHOOSE g \in DOMAIN ordered : ordered[g] = key]]

\* The image of a neuron, the banks side by side.
NeuronImage(network, key) == PopulationOf(network, key).neuron

LocalNeurons(network, place, c) ==
    LET here == {key \in Neurons(network) : place[key].core = c}
    IN  [n \in 1 .. Cardinality(here) |->
            NeuronImage(network, CHOOSE key \in here : place[key].local = n)]

-------------------------------------------------------------------------------
(* Axons: one for each source with a target on the core, in order of the source. *)

Incoming(network, place, c) == {x \in Connections(network) : place[x.target].core = c}
AxonSources(network, place, c) ==
    InOrder({x.source : x \in Incoming(network, place, c)}, LexBefore)

DestinationKey(x) == <<x.target[1], x.target[2], x.delay, x.id>>
DestinationBefore(x, y) == LexBefore(DestinationKey(x), DestinationKey(y))

\* Mutation: of two connections between the same neurons only the first is kept.
OneForEachTarget(network, place, c, source) ==
    LET entries == {x \in Incoming(network, place, c) : x.source = source}
    IN  InOrder({x \in entries : \A y \in entries : y.target = x.target => x.id <= y.id},
                DestinationBefore)

\* The connections of one axon in the order of their destinations.
AxonEntries(network, place, c, source) ==
    InOrder({x \in Incoming(network, place, c) : x.source = source}, DestinationBefore)

Entries(network, place, c) ==
    LET sources == AxonSources(network, place, c)
    IN  [a \in DOMAIN sources |-> AxonEntries(network, place, c, sources[a])]

\* The synapse arrays and the pointers and lengths into them (CSR).
Pointer(entries, a) == 1 + Len(FlattenSeq(SubSeq(entries, 1, a - 1)))
SynapseImage(place, x) ==
    [target |-> place[x.target].local, weight |-> x.weight, delay |-> x.delay,
     rule |-> x.rule, tag |-> x.tag]
SynapseArrays(place, entries) ==
    LET connections == FlattenSeq(entries)
    IN  [i \in DOMAIN connections |-> SynapseImage(place, connections[i])]

-------------------------------------------------------------------------------
(* Routes: one from each source to each axon that listens to it. *)

RouteKey(r) == <<r.source_core, r.source_neuron, r.core, r.axon>>
RouteBefore(r, s) == LexBefore(RouteKey(r), RouteKey(s))
Route(place, source, c, a) ==
    [source_core |-> place[source].core, source_neuron |-> place[source].local,
     core |-> c, axon |-> a]

\* Mutation: a core does not get the spikes of its own neurons.
RemoteRoutesOnly(network, place, cores) ==
    LET routes(c) ==
          LET sources == AxonSources(network, place, c)
          IN  {Route(place, sources[a], c, a) :
                  a \in {b \in DOMAIN sources : place[sources[b]].core # c}}
    IN  InOrder(UNION {routes(c) : c \in 1 .. cores}, RouteBefore)

GlobalRoutes(network, place, cores) ==
    LET routes(c) ==
          LET sources == AxonSources(network, place, c)
          IN  {Route(place, sources[a], c, a) : a \in DOMAIN sources}
    IN  InOrder(UNION {routes(c) : c \in 1 .. cores}, RouteBefore)

\* CompiledCoreImage.
CoreImage(network, place, routes, c) ==
    LET entries == Entries(network, place, c)
    IN  [core_id |-> c,
         neurons |-> LocalNeurons(network, place, c),
         axon_fanout_ptr |-> [a \in DOMAIN entries |-> Pointer(entries, a)],
         axon_fanout_len |-> [a \in DOMAIN entries |-> Len(entries[a])],
         synapses |-> SynapseArrays(place, entries),
         routing_entries |-> SelectSeq(routes, LAMBDA r : r.source_core = c)]

\* ResourceUsageReport.
ResourceUsage(image) ==
    [neurons |-> Len(image.neurons), axons |-> Len(image.axon_fanout_ptr),
     synapses |-> Len(image.synapses), routes |-> Len(image.routing_entries)]

-------------------------------------------------------------------------------
(* Refusals.                                                               *)

\* _validate_network_for_architecture, for a population and for a connection.
PopulationFits(p, a) ==
    LET n == p.neuron
    IN  /\ Fits(n.threshold, a.threshold)
        /\ \A v \in {n.reset, n.leak, n.voltage} : Fits(v, a.state)
        /\ n.leak >= 0
        /\ n.alif => /\ \A v \in {n.adaptation_increment, n.adaptation_decay} :
                           Fits(v, a.adaptation) /\ v >= 0
                     /\ Fits(n.adaptation, a.adaptation)
ConnectionFits(x, a) ==
    Fits(x.weight, a.weight) /\ x.delay <= a.max_timestamp /\ Fits(x.tag, a.learning)
NetworkFits(network, a) ==
    /\ \A p \in Populations(network) : PopulationFits(p, a)
    /\ \A x \in Connections(network) : ConnectionFits(x, a)

\* Mutation: the room of the spike routes is not checked.
RoutesUnchecked(usage, a) ==
    usage.neurons <= a.neurons /\ usage.axons <= a.axons /\ usage.synapses <= a.synapses

\* _check_capacity.
WithinCapacity(usage, a) ==
    /\ usage.neurons <= a.neurons /\ usage.axons <= a.axons
    /\ usage.synapses <= a.synapses /\ usage.routes <= a.routes

Images(network, cores, strategy) ==
    LET place == Placement(network, cores, strategy)
        routes == GlobalRoutes(network, place, cores)
    IN  [c \in 1 .. cores |-> CoreImage(network, place, routes, c)]

\* compile_network raises ValueError.
Refused(network, a, cores, strategy) ==
    \/ cores <= 0 \/ cores > CoreCapacity(a)
    \/ strategy \notin {"block", "round_robin"}
    \/ ~NetworkFits(network, a)
    \/ \E c \in 1 .. cores :
          ~WithinCapacity(ResourceUsage(Images(network, cores, strategy)[c]), a)

\* CompiledProgram.
Compiled(network, cores, strategy) ==
    LET place == Placement(network, cores, strategy)
    IN  [cores |-> Images(network, cores, strategy),
         usage |-> [c \in 1 .. cores |-> ResourceUsage(Images(network, cores, strategy)[c])],
         global_routing_image |-> GlobalRoutes(network, place, cores),
         placements |-> place]

-------------------------------------------------------------------------------
(* reconstruct_compiled_connections: the bag of connections read back.     *)

Placed(program, c, n) ==
    CHOOSE key \in DOMAIN program.placements :
        program.placements[key] = [core |-> c, local |-> n]
AxonRoutes(program, c, a) ==
    {r \in ToSet(program.global_routing_image) : r.core = c /\ r.axon = a}
FanoutAddresses(image, a) ==
    image.axon_fanout_ptr[a] .. image.axon_fanout_ptr[a] + image.axon_fanout_len[a] - 1

ReadBack(program, c, a, i) ==
    LET image == program.cores[c]
        route == CHOOSE r \in AxonRoutes(program, c, a) : TRUE
        s == image.synapses[i]
    IN  [source |-> Placed(program, route.source_core, route.source_neuron),
         target |-> Placed(program, c, s.target),
         weight |-> s.weight, delay |-> s.delay, rule |-> s.rule, tag |-> s.tag]
ReconstructedConnections(program) ==
    BagOf(LAMBDA x : ReadBack(program, x[1], x[2], x[3]),
          UNION {UNION {{<<c, a, i>> : i \in FanoutAddresses(program.cores[c], a)} :
              a \in DOMAIN program.cores[c].axon_fanout_ptr} : c \in DOMAIN program.cores})
===============================================================================
