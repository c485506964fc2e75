------------------------------ MODULE Programs ------------------------------
(***************************************************************************)
(* Small compiled programs and input events, for the MC modules.           *)
(***************************************************************************)
EXTENDS Integers, Sequences, TLC

\* 5-bit membranes: two large inputs saturate.
SmallFormat == [min |-> -16, max |-> 15, mode |-> "saturate"]

Lif(threshold) ==
    [leak |-> 1, threshold |-> threshold, reset |-> 0, alif |-> FALSE,
     adaptation_decay |-> 0, adaptation_increment |-> 0]
Alif(threshold) ==
    [leak |-> 0, threshold |-> threshold, reset |-> 0, alif |-> TRUE,
     adaptation_decay |-> 1, adaptation_increment |-> 2]
Rest == [membrane |-> 0, adaptation |-> 0, last_update_tick |-> 0]

To(n, w, d) == [target |-> n, weight |-> w, delay |-> d]
Via(c, a) == [core |-> c, axon |-> a]

\* Two cores of two neurons. Axon 0 drives both neurons, axon 1 one neuron at
\* once and the other a tick later. Neuron 0 of each core projects to both
\* cores, neuron 1 of core 0 to core 1.
PairParams == 0 :> (0 :> Lif(3) @@ 1 :> Alif(3)) @@ 1 :> (0 :> Lif(3) @@ 1 :> Lif(4))
PairState == [c \in 0 .. 1 |-> [n \in 0 .. 1 |-> Rest]]
PairFanout ==
    [c \in 0 .. 1 |-> 0 :> <<To(0, 3, 0), To(1, 3, 0)>> @@ 1 :> <<To(1, 2, 0), To(0, 2, 1)>>]
PairRoutes ==
    0 :> (0 :> <<Via(0, 1), Via(1, 1)>> @@ 1 :> <<Via(1, 1)>>)
    @@ 1 :> (0 :> <<Via(0, 1), Via(1, 1)>> @@ 1 :> <<>>)

Ev(t, c, a, p) == [timestamp |-> t, core |-> c, axon |-> a, priority |-> p]

PairEvents == {Ev(t, c, a, 0) : t \in {0, 1}, c \in {0, 1}, a \in {0, 1}}
                \cup {Ev(1, 0, 0, 1)}

\* Every source of up to k events in time order.
Ordered(events, k) ==
    {s \in UNION {[1 .. n -> events] : n \in 1 .. k} :
        \A i \in 2 .. Len(s) : s[i - 1].timestamp <= s[i].timestamp}
PairHostEvents == {Ev(0, 0, 0, 0), Ev(1, 0, 1, 1)}
BlockedHostEvents == {Ev(1, 0, 1, 0), Ev(2, 0, 1, 0)}
PairTicks == {<<0, 1, 2, 3>>, <<0, 2>>, <<1, 3>>}

\* For the reference machine: a caller injects one or two events at a time, with
\* gaps in which a tick is idle and a membrane decays.
ReplayLists ==
    Ordered({Ev(0, 0, 0, 0), Ev(0, 1, 1, 0), Ev(2, 0, 1, 0), Ev(3, 1, 1, 0)}, 2)
\* For the refinement: all of one core, some of the other, two priorities.
RefinementSources ==
    Ordered({Ev(0, 0, 0, 0), Ev(0, 0, 1, 0), Ev(0, 1, 0, 0), Ev(1, 1, 1, 0), Ev(1, 0, 0, 1)}, 3)

\* All sources of one or two events, and those.
BatchSources == Ordered(PairEvents, 2) \cup RefinementSources

\* A burst: axon 0 of core 0 fires neurons 0, 1, 2 and 4 and leaves neuron 3
\* below its threshold; the spikes make more packets for core 1 than the network
\* stores. Axon 1 of core 0 only has delayed synapses.
BurstParams ==
    0 :> [n \in 0 .. 4 |-> IF n = 3 THEN Lif(3) ELSE Lif(1)] @@ 1 :> (0 :> Lif(1))
BurstState == 0 :> [n \in 0 .. 4 |-> Rest] @@ 1 :> [n \in {0} |-> Rest]
BurstFanout ==
    0 :> (0 :> [i \in 1 .. 5 |-> To(i - 1, 2, 0)]
          @@ 1 :> <<To(0, 1, 1), To(0, 1, 2)>>
          @@ 2 :> <<To(4, 1, 0), To(2, 1, 0)>>)
    @@ 1 :> (0 :> <<To(0, 1, 0)>> @@ 1 :> <<>> @@ 2 :> <<To(0, -1, 0)>>)
BurstRoutes ==
    0 :> (0 :> <<Via(1, 0), Via(1, 1), Via(1, 2)>> @@ 1 :> <<Via(1, 0), Via(1, 1), Via(1, 2)>>
          @@ 2 :> <<Via(1, 0)>> @@ 3 :> <<Via(1, 1)>> @@ 4 :> <<Via(1, 1), Via(0, 1)>>)
    @@ 1 :> (0 :> <<Via(0, 2), Via(1, 1)>>)
BurstSources == Ordered({Ev(t, 0, a, 0) : t \in {0, 1}, a \in {0, 1, 2}} \cup {Ev(0, 1, 0, 0)}, 3)

BurstTicks == {<<0, 1>>, <<1, 3>>}

NoTicks == {}
NoEvents == {}

\* Router packets a harness places (tests/test_v6_2_cycle_backend.py does so to
\* set up an arbitration): two sources, two priorities, one destination.
Placed(i, c, n, p) == [event_id |-> i, source |-> c, neuron |-> n, core |-> 1,
                       axon |-> 0, timestamp |-> 1, priority |-> p]
PairPackets == {Placed(10, 0, 0, 0), Placed(12, 1, 0, 2)}
=============================================================================
