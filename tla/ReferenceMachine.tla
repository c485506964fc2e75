-------------------------- MODULE ReferenceMachine --------------------------
(***************************************************************************)
(* mini_loihi/reference_backend.py, class ReferenceMachine: what a logical *)
(* tick means, without queues or cycles.  It is the functional oracle of   *)
(* the cycle machine, and here the abstract specification CycleRefinement  *)
(* shows CycleMachine to implement.                                        *)
(*                                                                         *)
(* Event identifiers only fix the order of trace records and of sums that  *)
(* commute, so events, packets and contributions are kept in bags and the  *)
(* identifiers are left out.                                               *)
(***************************************************************************)
EXTENDS NeuronUpdate, Ordering

CONSTANTS
    NumCores, Params, InitialState, Fanout, Routes,  \* as in CycleMachine
    event_input_fifo_depth, spike_output_fifo_depth, \* architecture, per core
    EventLists,      \* the event lists a caller injects
    TickLimit        \* ticks below this one are processed

Cores == 0 .. NumCores - 1

\* What the compiler and the callers guarantee: a core's neurons are numbered and
\* finitely many, and so are the routes of a neuron; delays are not negative and
\* events carry a tick.  Every neuron starts with last_update_tick 0.
ASSUME ReferenceAssumption ==
    /\ NumCores \in Nat
    /\ \A c \in Cores :
          /\ DOMAIN Params[c] \subseteq Nat /\ IsFiniteSet(DOMAIN Params[c])
          /\ \A n \in DOMAIN Params[c] : IsFiniteSet(DOMAIN Routes[c][n])
    /\ \A c \in Cores : \A a \in DOMAIN Fanout[c] : \A i \in DOMAIN Fanout[c][a] :
          Fanout[c][a][i].delay \in Nat
    /\ \A c \in Cores : \A n \in DOMAIN Params[c] :
          InitialState[c][n].last_update_tick = 0
    /\ \A events \in EventLists : \A i \in DOMAIN events : events[i].timestamp \in Nat

\* An image has its banks for exactly its neurons and finitely many synapses, and events
\* come in lists.
ASSUME ImageAssumption ==
    /\ InitialState = [c \in Cores |-> [n \in DOMAIN Params[c] |-> InitialState[c][n]]]
    /\ \A c \in Cores :
          /\ IsFiniteSet(DOMAIN Fanout[c])
          /\ \A a \in DOMAIN Fanout[c] : IsFiniteSet(DOMAIN Fanout[c][a])
    /\ EventLists \subseteq
          Seq([timestamp : Nat, core : Nat, axon : Nat, priority : Nat])

VARIABLES
    input_events,          \* bag of [timestamp, core, axon]
    routed_packets,        \* bag of [timestamp, core, axon, source, neuron]
    delayed_contributions, \* bag of [timestamp, core, target, weight]
    neuron, last_processed_tick, last_injected_timestamp,
    spikes,                \* in the order they were recorded
    packets                \* bag of every packet emitted

vars == <<input_events, routed_packets, delayed_contributions, neuron,
          last_processed_tick, last_injected_timestamp, spikes, packets>>

\* The part of a bag that belongs to tick t.
At(B, t) == [x \in {y \in DOMAIN B : y.timestamp = t} |-> B[x]]
NotAt(B, t) == [x \in {y \in DOMAIN B : y.timestamp # t} |-> B[x]]

\* How many of the elements of S the bag holds.
Count(B, S) == MapThenSumSet(LAMBDA x : B[x], DOMAIN B \cap S)

-----------------------------------------------------------------------------
(* The phases of _process_tick. *)

\* _ingress_phase: how many events, external and routed, reach axon a of core c.
Arrivals(t, c, a) ==
    LET reached(due) ==
          MapThenSumSet(LAMBDA x : due[x], {x \in DOMAIN due : x.core = c /\ x.axon = a})
    IN  reached(At(input_events, t)) + reached(At(routed_packets, t))

\* Every synapse an arrival traverses.
Traversals(t) ==
    UNION {UNION {{<<c, a, i>> : i \in DOMAIN Fanout[c][a]} :
                     a \in {b \in DOMAIN Fanout[c] : Arrivals(t, c, b) > 0}} : c \in Cores}
SynapseAt(x) == Fanout[x[1]][x[2]][x[3]]

\* _synaptic_accumulation_phase: the contributions due at t, summed by neuron.
DueDelayed(t, c, n) ==
    {x \in DOMAIN At(delayed_contributions, t) : x.core = c /\ x.target = n}
DueTraversed(t, c, n) ==
    {x \in Traversals(t) : x[1] = c /\ SynapseAt(x).target = n /\ SynapseAt(x).delay = 0}
Affected(t, c) ==
    {n \in DOMAIN Params[c] : DueDelayed(t, c, n) # {} \/ DueTraversed(t, c, n) # {}}
WideSum(t, c, n) ==
    MapThenSumSet(LAMBDA x : x.weight * At(delayed_contributions, t)[x], DueDelayed(t, c, n))
    + MapThenSumSet(LAMBDA x : SynapseAt(x).weight * Arrivals(t, x[1], x[2]),
                    DueTraversed(t, c, n))

\* Mutation: a synaptic delay counts from the tick before.
DelayedEarly(t, x) == [timestamp |-> t + SynapseAt(x).delay - 1, core |-> x[1],
                       target |-> SynapseAt(x).target, weight |-> SynapseAt(x).weight]

Delayed(t, x) == [timestamp |-> t + SynapseAt(x).delay, core |-> x[1],
                  target |-> SynapseAt(x).target, weight |-> SynapseAt(x).weight]
NewlyDelayed(t) ==
    LET late == {x \in Traversals(t) : SynapseAt(x).delay > 0}
    IN  [d \in {Delayed(t, x) : x \in late} |->
            MapThenSumSet(LAMBDA x : Arrivals(t, x[1], x[2]),
                          {x \in late : Delayed(t, x) = d})]

\* Mutation: the decay counts from the last tick of the machine, not of the neuron.
UpdateByMachineClock(t, c, n) ==
    update_neuron(Params[c][n],
                  [neuron[c][n] EXCEPT !.last_update_tick = last_processed_tick],
                  WideSum(t, c, n), t)

\* _neuron_update_phase and _spike_emission_phase, in order of core and neuron.
Update(t, c, n) == update_neuron(Params[c][n], neuron[c][n], WideSum(t, c, n), t)
Fired(t, c) == {n \in Affected(t, c) : Update(t, c, n).spike}
SpikeBefore(s, r) == s.core < r.core \/ (s.core = r.core /\ s.neuron < r.neuron)
NewSpikes(t) ==
    InOrder(UNION {{[tick |-> t, core |-> c, neuron |-> n] : n \in Fired(t, c)} :
                      c \in Cores},
            SpikeBefore)

\* Mutation: only the first route of a neuron is served.
NewPacketsOfFirstRoute(t) ==
    LET emitted == UNION {{<<c, n>> : n \in {m \in Fired(t, c) : Routes[c][m] # <<>>}} :
                             c \in Cores}
        packet(x) == [timestamp |-> t + 1, core |-> Routes[x[1]][x[2]][1].core,
                      axon |-> Routes[x[1]][x[2]][1].axon,
                      source |-> x[1], neuron |-> x[2]]
    IN  BagOf(packet, emitted)

\* _routing_phase: one packet per route of each spike, for the next tick.
NewPackets(t) ==
    LET emitted == UNION {UNION {{<<c, n, r>> : r \in DOMAIN Routes[c][n]} :
                                    n \in Fired(t, c)} : c \in Cores}
        packet(x) == [timestamp |-> t + 1, core |-> Routes[x[1]][x[2]][x[3]].core,
                      axon |-> Routes[x[1]][x[2]][x[3]].axon,
                      source |-> x[1], neuron |-> x[2]]
    IN  BagOf(packet, emitted)

-----------------------------------------------------------------------------

\* The events of a list without their order and priority.
InputBag(events) ==
    LET event(i) == [timestamp |-> events[i].timestamp, core |-> events[i].core,
                     axon |-> events[i].axon]
    IN  BagOf(event, DOMAIN events)

Pending == DOMAIN input_events \cup DOMAIN routed_packets \cup DOMAIN delayed_contributions

Init ==
    /\ input_events = EmptyBag /\ routed_packets = EmptyBag
    /\ delayed_contributions = EmptyBag
    /\ neuron = InitialState
    /\ last_processed_tick = -1 /\ last_injected_timestamp = -1
    /\ spikes = <<>> /\ packets = EmptyBag

\* inject, for each event of a list (the loop of run_compiled_program).  The
\* current tick is one past the last processed one.  A list with an event that
\* inject refuses (it raises ValueError) ends the run, so it is not injected.
Inject(events) ==
    /\ events # <<>>
    /\ Head(events).timestamp >= last_injected_timestamp
    /\ last_injected_timestamp' = Last(events).timestamp
    /\ \A i \in 2 .. Len(events) : events[i - 1].timestamp <= events[i].timestamp
    /\ \A i \in DOMAIN events : events[i].timestamp > last_processed_tick
    /\ input_events' = input_events (+) InputBag(events)
    /\ \A c \in Cores :
         Count(input_events', {x \in DOMAIN input_events' : x.core = c})
            <= event_input_fifo_depth
    /\ UNCHANGED <<routed_packets, delayed_contributions, neuron,
                   last_processed_tick, spikes, packets>>

\* _process_tick; step and run_until take the next pending tick, run_ticks any
\* tick that skips no pending one.  Too many spikes of a core raise ValueError.
ProcessTick(t) ==
    /\ t > last_processed_tick
    /\ last_processed_tick' = t
    /\ \A x \in Pending : x.timestamp >= t
    /\ \A c \in Cores : Cardinality(Fired(t, c)) <= spike_output_fifo_depth
    /\ input_events' = NotAt(input_events, t)
    /\ routed_packets' = NotAt(routed_packets, t) (+) NewPackets(t)
    /\ delayed_contributions' = NotAt(delayed_contributions, t) (+) NewlyDelayed(t)
    /\ neuron' = [c \in Cores |-> [n \in DOMAIN Params[c] |->
          IF n \in Affected(t, c) THEN Update(t, c, n).state ELSE neuron[c][n]]]
    /\ spikes' = spikes \o NewSpikes(t)
    /\ packets' = packets (+) NewPackets(t)
    /\ UNCHANGED last_injected_timestamp

Next ==
    \/ \E events \in EventLists : Inject(events)
    \/ \E t \in 0 .. TickLimit - 1 : ProcessTick(t)

Spec == Init /\ [][Next]_vars

-----------------------------------------------------------------------------
(* What the oracle promises (docs/V6_1_REFERENCE_BACKEND.md), to callers   *)
(* that inject between ticks as well as before the first one.              *)

\* Nothing pending is ever late, and no neuron was updated in the future: what a
\* tick generates (packets a tick later, delayed contributions) and what a caller
\* injects between two ticks is always due in a tick still to be processed.
NothingOverdue ==
    /\ \A x \in Pending : x.timestamp > last_processed_tick
    /\ \A c \in Cores : \A n \in DOMAIN Params[c] :
          neuron[c][n].last_update_tick \in 0 .. last_processed_tick \cup {0}

\* Every spike sends one packet over each route of its neuron, for the tick after
\* it, and there are no other packets.
PacketsMatchSpikes ==
    LET sent(i, r) == [timestamp |-> spikes[i].tick + 1,
                       core |-> Routes[spikes[i].core][spikes[i].neuron][r].core,
                       axon |-> Routes[spikes[i].core][spikes[i].neuron][r].axon,
                       source |-> spikes[i].core, neuron |-> spikes[i].neuron]
        uses == UNION {{<<i, r>> : r \in DOMAIN Routes[spikes[i].core][spikes[i].neuron]} :
                          i \in DOMAIN spikes}
    IN  packets = BagOf(LAMBDA u : sent(u[1], u[2]), uses)
=============================================================================
