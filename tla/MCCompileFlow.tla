---------------------------- MODULE MCCompileFlow ----------------------------
(* Networks of two sources and three targets, of which the second target is *)
(* an ALIF population, and the networks of the compiler's tests.            *)
EXTENDS CompileFlow

MCFormat == Signed(5)
MCWide == Signed(7)
MCWeight == Signed(4)
MCPayload == [min |-> 0, max |-> 1, mode |-> "saturate"]
MCVMin == -16
MCWMin == -8

MCRoomy ==
    [neurons |-> 8, axons |-> 8, synapses |-> 8, routes |-> 8,
     source_neurons |-> 8, destination_axons |-> 8, source_cores |-> 4, destination_cores |-> 4,
     accumulator_width |-> 7, sum_width |-> 8, max_timestamp |-> 3,
     weight |-> MCWeight, state |-> MCFormat, threshold |-> MCFormat, adaptation |-> MCFormat,
     learning |-> MCFormat, payload |-> MCPayload]
MCNarrow == [MCRoomy EXCEPT !.neurons = 3, !.axons = 2, !.synapses = 3, !.routes = 2,
                            !.source_cores = 2]

MCArchitectures == {MCRoomy, MCNarrow}

MCAlif(id, count) ==
    [LifPopulation(id, count, 4) EXCEPT !.neuron.alif = TRUE, !.neuron.adaptation_increment = 2,
                                        !.neuron.adaptation_decay = 1]
MCLeaky(id, count) == [LifPopulation(id, count, 9) EXCEPT !.neuron.leak = 1]
MCDelayed(x, d) == [x EXCEPT !.delay = d]

MCChoices ==
    {MCDelayed(Connection(1, <<1, 1>>, <<2, 2>>, 6), 0), MCDelayed(Connection(2, <<1, 1>>, <<2, 1>>, 7), 0),
     MCDelayed(Connection(3, <<1, 2>>, <<2, 1>>, -4), 0), MCDelayed(Connection(4, <<1, 2>>, <<2, 2>>, 5), 0),
     MCDelayed(Connection(5, <<1, 1>>, <<2, 2>>, 6), 0),  \* the same synapse as the first
     MCDelayed(Connection(6, <<2, 1>>, <<1, 1>>, 5), 0),
     [Connection(7, <<1, 2>>, <<2, 1>>, 3) EXCEPT !.rule = 1, !.tag = 1]}

MCNetwork(populations, connections) ==
    [populations |-> populations,
     connections |-> InOrder(connections, LAMBDA x, y : x.id < y.id)]
MCGraphs ==
    {MCNetwork(<<LifPopulation(1, 2, 5), LifPopulation(2, 2, 5)>>, S) :
        S \in {T \in SUBSET MCChoices : Cardinality(T) \in 1 .. 3}}
MCTests ==
    {MCNetwork(<<LifPopulation(1, 2, 10), MCAlif(2, 2)>>,
               {Connection(1, <<1, 1>>, <<2, 1>>, 5), Connection(3, <<1, 1>>, <<2, 1>>, 7),
                MCDelayed(Connection(2, <<1, 2>>, <<2, 2>>, -2), 2)}),
     MCNetwork(<<LifPopulation(1, 2, 9), MCLeaky(2, 2)>>,
               {MCDelayed(Connection(1, <<1, 1>>, <<2, 1>>, 5), 0),
                MCDelayed(Connection(2, <<1, 2>>, <<2, 1>>, 4), 0),
                MCDelayed(Connection(3, <<1, 1>>, <<2, 2>>, -3), 0)}),
     MCNetwork(<<LifPopulation(1, 1, 10)>>, {Connection(1, <<1, 1>>, <<1, 2>>, 1)}),
     MCNetwork(<<LifPopulation(1, 1, 10)>>, {Connection(1, <<1, 1>>, <<1, 1>>, 8)}),
     FromV5(<< <<1, 2, 3>>, <<1, 3, 4>>, <<2, 3, 5>>, <<3, 3, 6>> >>, 3, 10)}
MCSources == MCGraphs \cup MCTests

MCEvent(t, a) == [timestamp |-> t, core |-> 1, axon |-> a, payload |-> 1]
MCEvents == {MCEvent(t, a) : t \in {0, 2}, a \in {1, 2}} \cup {MCEvent(4, 1)}
MCMapLimits ==
    {[neurons |-> 8, axons |-> 8, synapses |-> 8, routes |-> 8, bytes |-> 99],
     [neurons |-> 3, axons |-> 2, synapses |-> 2, routes |-> 2, bytes |-> 40]}
==============================================================================
