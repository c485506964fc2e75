----------------------------- MODULE RtlFixtures -----------------------------
(***************************************************************************)
(* The directed fixtures of the RTL regressions (mini_loihi/rtl_vectors.py,*)
(* lifpipe_throughput.py, readycut_throughput.py), with neurons and axons  *)
(* counted from 1 and the longest of them shortened.                       *)
(***************************************************************************)
EXTENDS Integers, Sequences, SequencesExt

\* A LIF population of n neurons, as the compiler lays it out.
Population(n, threshold, leak) ==
    [i \in 1 .. n |-> [leak |-> leak, threshold |-> threshold, reset |-> 0, alif |-> FALSE,
                       adaptation_decay |-> 0, adaptation_increment |-> 0]]

Synapses(targets, weights) ==
    [k \in DOMAIN targets |-> [target |-> targets[k], weight |-> weights[k]]]

Fixture(params, fanout, ticks) ==
    [params |-> params, voltage |-> [i \in DOMAIN params |-> 0], fanout |-> fanout, ticks |-> ticks]

Event(axon, payload) == [axon |-> axon, payload |-> payload]
At(id, events) == [id |-> id, events |-> events]

Demo == Fixture(Population(3, 10, 1),
    <<<<[target |-> 2, weight |-> 5], [target |-> 3, weight |-> -3]>>>>,
    <<At(0, <<Event(1, 1), Event(1, 1)>>), At(3, <<Event(1, 1)>>)>>)

\* Targets 2 .. 8 in turn, k of them: 1 + index % 7 of the code.
Cyclic(k) == [index \in 1 .. k |-> 2 + ((index - 1) % 7)]

\* One fixture of each class of seeded regressions.
Biased(seed_class) ==
    LET all == [i \in 1 .. 7 |-> i + 1]
        ones == [i \in 1 .. 7 |-> 1]
        params == Population(8, IF seed_class = "spike_density" THEN 1 ELSE 32767, 0)
    IN  CASE seed_class = "arithmetic_boundary" ->
               Fixture(params, <<<<[target |-> 2, weight |-> 127], [target |-> 3, weight |-> -128]>>>>,
                       <<At(0, <<Event(1, 255)>>)>>)
          [] seed_class = "fanout_boundary" ->
               Fixture(params, <<Synapses(Cyclic(12), [k \in 1 .. 12 |-> IF k % 2 = 0 THEN -3 ELSE 5])>>,
                       <<At(0, <<Event(1, 3)>>)>>)
          [] seed_class = "fifo_pressure" ->
               Fixture(params, <<Synapses(Cyclic(3), ones)>>, <<At(0, [i \in 1 .. 10 |-> Event(1, 1)])>>)
          [] seed_class = "accumulator_conflict" ->
               Fixture(params, <<[k \in 1 .. 5 |-> [target |-> 2, weight |-> 1 + ((k - 1) % 3)]]>>,
                       <<At(0, [i \in 1 .. 3 |-> Event(1, 2)])>>)
          [] seed_class = "touched_density" \/ seed_class = "spike_density" ->
               Fixture(params, <<Synapses(all, ones)>>, <<At(0, <<Event(1, 1)>>)>>)
          [] seed_class = "empty_ticks" ->
               Fixture(params, <<<<[target |-> 2, weight |-> 2]>>>>,
                       [i \in 1 .. 5 |-> At(i - 1, IF i % 2 = 0 THEN <<Event(1, 1)>> ELSE <<>>)])

SeedClasses == {"arithmetic_boundary", "fanout_boundary", "fifo_pressure", "accumulator_conflict",
                "touched_density", "empty_ticks", "spike_density"}

\* The throughput fixtures: one event touches all neurons but the first.
DenseLifpipe(touched_neurons) ==
    Fixture(Population(touched_neurons + 1, 32767, 0),
            <<[k \in 1 .. touched_neurons |-> [target |-> k + 1, weight |-> 1]]>>,
            <<At(0, <<Event(1, 1)>>)>>)

DenseReadycut(touched_neurons) == DenseLifpipe(touched_neurons)

SpikingReadycut(touched_neurons) ==
    [DenseLifpipe(touched_neurons) EXCEPT !.params = Population(touched_neurons + 1, 1, 0)]

\* More spikes than the spike FIFO, the pipeline and the cut hold together, each of
\* them owed to the membrane left by an earlier tick.
Backlog(touched_neurons) ==
    [Fixture(Population(touched_neurons + 1, 4, 1),
            <<[k \in 1 .. touched_neurons |-> [target |-> k + 1, weight |-> 3]]>>,
            <<At(0, <<Event(1, 1)>>), At(2, <<Event(1, 1)>>)>>)
     EXCEPT !.voltage = [k \in 1 .. touched_neurons + 1 |-> IF k % 5 = 0 THEN 0 ELSE 2]]

\* Saturation of the membrane, a threshold reached from below zero, decay between
\* ticks, an axon without synapses and a zero sum, which the directed fixtures lack.
Mixed == [Fixture(
    [Population(6, 10, 2) EXCEPT ![3].reset = -4, ![6].threshold = 32767],
    <<<<[target |-> 6, weight |-> 127], [target |-> 2, weight |-> 4], [target |-> 3, weight |-> 6]>>,
      <<>>,
      <<[target |-> 3, weight |-> 7], [target |-> 4, weight |-> -5], [target |-> 4, weight |-> 5]>>>>,
    <<At(0, <<Event(1, 255), Event(2, 1), Event(3, 1)>>), At(2, <<Event(1, 3), Event(3, 2)>>),
      At(7, <<Event(1, 255), Event(3, 1)>>)>>)
    EXCEPT !.voltage = <<0, -3, 2, 9, 0, 300>>]
=============================================================================
