-------------------------------- MODULE Mapper --------------------------------
(***************************************************************************)
(* mini_loihi/mapping.py: the V4 mapper.  A graph of numbered neurons and  *)
(* a list of connections [source, target, weight, plastic] become the      *)
(* synapse memories of the cores and the routing entries MultiCoreSystem   *)
(* installs.  Neurons, cores, axons and addresses count from 1.            *)
(***************************************************************************)
EXTENDS Compiler

\* block_partition and round_robin_partition.
NeuronToCore(count, cores, strategy) == PlaceAll(count, cores, strategy)

OnCore(connections, refs, c) ==
    SelectSeq(connections, LAMBDA x : refs[x.target].core = c)

\* axon_map: the sources of a core's connections in the order they appear.
FirstAppearance(connections, source) ==
    CHOOSE i \in DOMAIN connections : connections[i].source = source
                                      /\ \A j \in 1 .. i - 1 : connections[j].source # source
AxonMap(connections, refs, c) ==
    LET here == OnCore(connections, refs, c)
    IN  InOrder({here[i].source : i \in DOMAIN here},
                LAMBDA s, t : FirstAppearance(here, s) < FirstAppearance(here, t))

\* The local axon of a connection on its target's core.
AxonOf(connections, refs, x) ==
    LET axons == AxonMap(connections, refs, refs[x.target].core)
    IN  CHOOSE a \in DOMAIN axons : axons[a] = x.source

\* The fan-outs of an axon, in the order of the connections.
MappedFanout(connections, refs, c, source) ==
    LET here == SelectSeq(OnCore(connections, refs, c), LAMBDA x : x.source = source)
    IN  [i \in DOMAIN here |-> [target |-> refs[here[i].target].local,
                                weight |-> here[i].weight, plastic |-> here[i].plastic]]

\* SynapseMemory and CoreConfig of a core; a core without axons gets an empty one.
Memory(connections, refs, c) ==
    LET axons == AxonMap(connections, refs, c)
        fanouts == IF axons = <<>> THEN << <<>> >>
                   ELSE [a \in DOMAIN axons |-> MappedFanout(connections, refs, c, axons[a])]
    IN  [num_neurons |-> Cardinality({g \in DOMAIN refs : refs[g].core = c}),
         fanout_ptr |-> [a \in DOMAIN fanouts |-> Pointer(fanouts, a)],
         fanout_len |-> [a \in DOMAIN fanouts |-> Len(fanouts[a])],
         synapse_array |-> FlattenSeq(fanouts)]

\* route_targets: the destinations of a source, one for each of its connections.
RouteTargets(connections, refs, source) ==
    LET from == SelectSeq(connections, LAMBDA x : x.source = source)
    IN  [i \in DOMAIN from |-> [core |-> refs[from[i].target].core,
                                axon |-> AxonOf(connections, refs, from[i])]]

\* RoutingEntry of every source.
RoutingEntries(connections, refs) ==
    LET Entry(source) ==
          LET destinations == RouteTargets(connections, refs, source)
              here == refs[source].core
          IN  [source |-> refs[source],
               local |-> SelectSeq(destinations, LAMBDA d : d.core = here),
               remote |-> SelectSeq(destinations, LAMBDA d : d.core # here)]
    IN  {Entry(source) : source \in {connections[i].source : i \in DOMAIN connections}}

\* _estimate_core_memory_bytes.
EstimatedBytes(m) ==
    m.num_neurons * 4 + Len(m.fanout_ptr) * 8 + Len(m.synapse_array) * 3

\* _validate_capacity.
CoreFits(m, entries, capacity) ==
    /\ m.num_neurons <= capacity.neurons /\ Len(m.fanout_ptr) <= capacity.axons
    /\ Len(m.synapse_array) <= capacity.synapses /\ entries <= capacity.routes
    /\ EstimatedBytes(m) <= capacity.bytes

EntriesOf(connections, refs, c) ==
    Cardinality({r \in RoutingEntries(connections, refs) : r.source.core = c})

\* map_connections_to_cores raises: an unknown neuron, too little room, or a core
\* without neurons, for which CoreConfig refuses num_neurons = 0.
MappingRefused(count, cores, connections, capacity, strategy) ==
    \/ count <= 0 \/ cores <= 0 \/ strategy \notin {"block", "round_robin"}
    \/ \E i \in DOMAIN connections : {connections[i].source, connections[i].target} \ 1 .. count # {}
    \/ LET refs == NeuronToCore(count, cores, strategy)
       IN  \E c \in 1 .. cores :
             LET m == Memory(connections, refs, c)
             IN  ~CoreFits(m, EntriesOf(connections, refs, c), capacity) \/ m.num_neurons = 0

\* PartitionedNetwork.
Partitioned(count, cores, connections, strategy) ==
    LET refs == NeuronToCore(count, cores, strategy)
    IN  [neuron_to_core |-> refs,
         memories |-> [c \in 1 .. cores |-> Memory(connections, refs, c)],
         routing_entries |-> RoutingEntries(connections, refs)]

-------------------------------------------------------------------------------
(* reconstruct_global_connections and the report.                          *)

Destinations(entry) == entry.local \o entry.remote

\* The source an axon is driven by, if any.
SourcesOfAxon(partition, c, a) ==
    {entry.source : entry \in {e \in partition.routing_entries :
        [core |-> c, axon |-> a] \in ToSet(Destinations(e))}}
GlobalOf(partition, ref) ==
    CHOOSE g \in DOMAIN partition.neuron_to_core : partition.neuron_to_core[g] = ref

AxonAddresses(m, a) == m.fanout_ptr[a] .. m.fanout_ptr[a] + m.fanout_len[a] - 1

ReconstructedGlobal(partition) ==
    LET read(x) ==
          LET s == partition.memories[x[1]].synapse_array[x[3]]
              source == CHOOSE r \in SourcesOfAxon(partition, x[1], x[2]) : TRUE
          IN  [source |-> GlobalOf(partition, source),
               target |-> GlobalOf(partition, [core |-> x[1], local |-> s.target]),
               weight |-> s.weight, plastic |-> s.plastic]
        addresses(c) == UNION {{<<c, a, i>> : i \in AxonAddresses(partition.memories[c], a)} :
              a \in {b \in DOMAIN partition.memories[c].fanout_ptr :
                        SourcesOfAxon(partition, c, b) # {}}}
    IN  BagOf(read, UNION {addresses(c) : c \in DOMAIN partition.memories})

\* audit_mapping_round_trip.
MappingRoundTrip(partition, connections) ==
    ReconstructedGlobal(partition)
        = BagOf(LAMBDA i : connections[i], DOMAIN connections)

\* build_mapping_report: the connections within a core and between cores.
LocalConnections(partition) ==
    MapThenSumSet(LAMBDA e : Len(e.local), partition.routing_entries)
RemoteConnections(partition) ==
    MapThenSumSet(LAMBDA e : Len(e.remote), partition.routing_entries)

\* MultiCoreSystem.install_routing_entry accepts the entry.
Installable(partition, entry) ==
    LET destinations == Destinations(entry)
    IN  /\ \A i, j \in DOMAIN destinations : destinations[i] = destinations[j] => i = j
        /\ entry.source.local \in 1 .. partition.memories[entry.source.core].num_neurons
        /\ \A i \in DOMAIN destinations :
             destinations[i].axon \in DOMAIN partition.memories[destinations[i].core].fanout_ptr
===============================================================================
