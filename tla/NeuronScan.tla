------------------------------ MODULE NeuronScan ------------------------------
(***************************************************************************)
(* What a single-core machine of any profile promises: in every logical    *)
(* tick the touched neurons are updated once each in ascending order with  *)
(* the sum of the tick's contributions, as the reference machine updates   *)
(* them (_neuron_update_phase of reference_backend.py).                    *)
(***************************************************************************)
EXTENDS NeuronUpdate, Sequences, FiniteSetsExt

CONSTANTS
    Fixtures    \* the programs: [params, voltage: by neuron; fanout[a]: the synapses [target,
                \* weight] of axon a in address order; ticks: a sequence of
                \* [id, events], an event [axon, payload]]

VARIABLES
    completed,      \* ticks done
    running,        \* a tick runs
    pending,        \* neurons still to be updated in it
    neurons,        \* the state of every neuron
    fixture,        \* the program that runs
    spikes          \* <<tick, neuron>> in the order they were fired

scan == <<fixture, completed, running, pending, neurons, spikes>>

\* The contributions of a tick's events: <<event, address>>.
Contributions(events) ==
    UNION {{<<i, a>> : a \in DOMAIN fixture.fanout[events[i].axon]} : i \in DOMAIN events}
Target(events, x) == fixture.fanout[events[x[1]].axon][x[2]].target
Value(events, x) == fixture.fanout[events[x[1]].axon][x[2]].weight * events[x[1]].payload

Touched(events) == {Target(events, x) : x \in Contributions(events)}
Accumulated(events, n) ==
    MapThenSumSet(LAMBDA x : Value(events, x),
                  {x \in Contributions(events) : Target(events, x) = n})

Tick == fixture.ticks[completed + 1]

Init ==
    /\ fixture \in Fixtures
    /\ completed = 0 /\ ~running /\ pending = {} /\ spikes = <<>>
    /\ neurons = [n \in DOMAIN fixture.params |->
         [membrane |-> fixture.voltage[n], adaptation |-> 0, last_update_tick |-> 0]]

StartTick ==
    /\ ~running /\ completed < Len(fixture.ticks)
    /\ running' = TRUE
    /\ pending' = Touched(Tick.events)
    /\ UNCHANGED <<fixture, completed, neurons, spikes>>

UpdateNeuron ==
    LET n == Min(pending)
        update == update_neuron(fixture.params[n], neurons[n],
                                Accumulated(Tick.events, n), Tick.id)
    IN  /\ running /\ pending # {}
        /\ pending' = pending \ {n}
        /\ neurons' = [neurons EXCEPT ![n] = update.state]
        /\ spikes' = IF update.spike THEN Append(spikes, <<Tick.id, n>>) ELSE spikes
        /\ UNCHANGED <<fixture, completed, running>>

FinishTick ==
    /\ running /\ pending = {}
    /\ running' = FALSE
    /\ completed' = completed + 1
    /\ UNCHANGED <<fixture, pending, neurons, spikes>>

Spec == Init /\ [][StartTick \/ UpdateNeuron \/ FinishTick]_scan
==============================================================================
