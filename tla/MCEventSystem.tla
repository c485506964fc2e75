---------------------------- MODULE MCEventSystem ----------------------------
(***************************************************************************)
(* The systems the V5 scenarios build: multicore_benchmark.py and          *)
(* validation.py, and a busier one of two learning cores: core 1 forwards  *)
(* its spikes to itself and to core 2.  Cores, neurons and axons count     *)
(* from 1 instead of 0.  A connection is <<axon, target, weight>>; a route *)
(* lists the local and the remote destinations <<core, axon>> of the       *)
(* spikes of a neuron.                                                     *)
(***************************************************************************)
EXTENDS EventProperties

\* The synapses of one axon, in the order of the connections.
OfAxon(connections, axon) == SelectSeq(connections, LAMBDA x : x[1] = axon)

\* SynapseMemory.from_connections and _synapse_memory: the synapse array holds the
\* fan-out of one axon after the other, fanout_ptr and fanout_len delimit it.
SynapseArray(connections, axons, plastic) ==
    LET ordered == FlattenSeq([a \in 1 .. axons |-> OfAxon(connections, a)])
    IN  [i \in DOMAIN ordered |->
           [target |-> ordered[i][2], weight |-> ordered[i][3], plastic |-> plastic]]

FanoutPointers(connections, axons) ==
    [a \in 1 .. axons |->
       LET start == Len(SelectSeq(connections, LAMBDA x : x[1] < a))
       IN  [i \in 1 .. Len(OfAxon(connections, a)) |-> start + i]]

\* A core as _make_core builds it.
MakeCore(neurons, axons, connections, learning) ==
    [neurons |-> neurons, axons |-> axons,
     config |-> [DefaultConfig EXCEPT !.learning = learning],
     threshold |-> [n \in 1 .. neurons |-> 10],
     synapses |-> SynapseArray(connections, axons, learning),
     fanout |-> FanoutPointers(connections, axons)]

\* The registered cores with the one routing entry the scenarios install, that of
\* neuron 1 of core 1, and the delays 1 and gap.  The scenario injects one event, runs
\* until idle with its limit and may give one reward.
System(cores, local, remote, gap, limit, rewards) ==
    LET Route(c, n, destinations) == IF c = 1 /\ n = 1 THEN destinations ELSE <<>>
    IN  [neurons |-> [c \in DOMAIN cores |-> cores[c].neurons],
         axons |-> [c \in DOMAIN cores |-> cores[c].axons],
         config |-> [c \in DOMAIN cores |-> cores[c].config],
         threshold |-> [c \in DOMAIN cores |-> cores[c].threshold],
         synapses |-> [c \in DOMAIN cores |-> cores[c].synapses],
         fanout |-> [c \in DOMAIN cores |-> cores[c].fanout],
         local |-> [c \in DOMAIN cores |-> [n \in 1 .. cores[c].neurons |->
                      Route(c, n, local)]],
         remote |-> [c \in DOMAIN cores |-> [n \in 1 .. cores[c].neurons |->
                      Route(c, n, remote)]],
         delays |-> {<<1, gap>>}, limits |-> {limit},
         injections |-> 1, rewards |-> rewards, time |-> 0]

TwoCoreFeedforward ==
    System(<<MakeCore(1, 1, << <<1, 1, 12>> >>, FALSE), MakeCore(1, 1, << <<1, 1, 5>> >>, FALSE)>>,
           <<>>, << <<2, 1>> >>, 1, 16, 0)

MostlyLocal ==
    System(<<MakeCore(2, 2, << <<1, 1, 12>>, <<2, 2, 1>> >>, FALSE),
             MakeCore(1, 1, << <<1, 1, 1>> >>, FALSE)>>,
           << <<1, 2>> >>, <<>>, 1, 16, 0)

CommunicationHeavy ==
    System([c \in 1 .. 4 |-> MakeCore(1, 1, << <<1, 1, IF c = 1 THEN 12 ELSE 1>> >>, FALSE)],
           <<>>, << <<2, 1>>, <<3, 1>>, <<4, 1>> >>, 1, 16, 0)

MulticastHeavy ==
    System(<<MakeCore(1, 2, << <<1, 1, 12>>, <<2, 1, 1>> >>, FALSE),
             MakeCore(1, 1, << <<1, 1, 1>> >>, FALSE), MakeCore(1, 1, << <<1, 1, 1>> >>, FALSE)>>,
           << <<1, 2>> >>, << <<2, 1>>, <<3, 1>> >>, 1, 16, 0)

\* Its spike comes back to its own axon: the only scenario that never becomes idle.
SparseRecurrent ==
    System(<<MakeCore(1, 1, << <<1, 1, 12>> >>, FALSE)>>, << <<1, 1>> >>, <<>>, 1, 4, 0)

PlasticTwoCore ==
    System(<<MakeCore(1, 1, << <<1, 1, 12>> >>, FALSE), MakeCore(1, 1, << <<1, 1, 12>> >>, TRUE)>>,
           <<>>, << <<2, 1>> >>, 1, 16, 1)

\* run_single_partition_equivalence: the partitioned half of it.
SinglePartition ==
    System(<<MakeCore(1, 1, << <<1, 1, 12>> >>, FALSE), MakeCore(1, 1, << <<1, 1, 5>> >>, FALSE)>>,
           <<>>, << <<2, 1>> >>, 1, 8, 0)

\* _two_core_packet_delivery and _exact_multicast_result run without a limit.
TwoCorePacketDelivery ==
    System(<<MakeCore(1, 1, << <<1, 1, 12>> >>, FALSE), MakeCore(1, 1, << <<1, 1, 5>> >>, FALSE)>>,
           <<>>, << <<2, 1>> >>, 2, NoLimit, 0)

ExactMulticast ==
    System(<<MakeCore(1, 1, << <<1, 1, 12>> >>, FALSE),
             MakeCore(2, 2, << <<1, 1, 1>>, <<2, 2, 1>> >>, FALSE)>>,
           <<>>, << <<2, 1>>, <<2, 2>> >>, 1, NoLimit, 0)

\* run_repeated_multicore_snapshot
RepeatedSnapshot ==
    System(<<MakeCore(1, 1, << <<1, 1, 12>> >>, FALSE), MakeCore(1, 1, << <<1, 1, 5>> >>, FALSE),
             MakeCore(1, 1, << <<1, 1, 6>> >>, FALSE)>>,
           <<>>, << <<2, 1>>, <<3, 1>> >>, 1, 16, 0)

------------------------------------------------------------------------------
(* The learning system, and what the run tries.                              *)

MCConfig ==
    [DefaultConfig EXCEPT !.leak = 1, !.learning = TRUE, !.rate = 2,
                          !.eligibilityDecay = 1, !.traceDecay = 1, !.postIncrement = 2]
MCSynapse(target, weight, plastic) ==
    [target |-> target, weight |-> weight, plastic |-> plastic]
MCLearning ==
    [neurons |-> <<2, 2>>, axons |-> <<2, 2>>, config |-> <<MCConfig, MCConfig>>,
     threshold |-> << <<12, 20>>, <<12, 20>> >>,
     synapses |-> << <<MCSynapse(1, 12, FALSE), MCSynapse(2, 11, TRUE), MCSynapse(2, 12, FALSE)>>,
                     <<MCSynapse(1, 13, TRUE)>> >>,
     fanout |-> << << <<1, 2>>, <<3>> >>, << <<1>>, <<>> >> >>,
     local |-> << << << <<1, 2>> >>, <<>> >>, << <<>>, <<>> >> >>,
     remote |-> << << << <<2, 1>> >>, << <<2, 2>> >> >>, << <<>>, <<>> >> >>,
     delays |-> {<<0, 1>>, <<1, 1>>}, limits |-> {NoLimit, 1},
     injections |-> 2, rewards |-> 1, time |-> 1]

MCNetworks ==
    <<MCLearning, TwoCoreFeedforward, MostlyLocal, CommunicationHeavy, MulticastHeavy,
      SparseRecurrent, PlasticTwoCore, RepeatedSnapshot, SinglePartition,
      TwoCorePacketDelivery, ExactMulticast>>
MCVMin == -20
MCWMin == -14
==============================================================================
