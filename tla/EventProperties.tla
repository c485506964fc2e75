--------------------------- MODULE EventProperties ---------------------------
(* What the V5 multi-core system promises, over EventSystem.                *)
EXTENDS EventSystem, FiniteSets, SequencesExt

\* Every exception the system can raise has one cause: an event never reaches a queue
\* too late (event.py, multicore.py:161); an event or reward finds a synapse updated
\* after it (core.py:250) only if some reward was dated after the system clock; a reward
\* comes too early only if one was dated by hand; routing raises for a missing route
\* only under strict_routing, and schedules in the past only the spikes that an earlier
\* exception left in an output queue.
ErrorsExplained ==
    /\ "order" \notin errors
    /\ "elapsed" \in errors => ahead
    /\ "reward" \in errors => misdated
    /\ "route" \in errors => settings.strict
    /\ "past" \in errors => errors \cap {"elapsed", "route"} # {}

\* The copies still owed by the spikes in the output queue of core c.
Owed(c) ==
    UNION {{<<c, i, k>> : k \in 1 .. Len(Destinations(c, output[c][i].neuron))} :
           i \in DOMAIN output[c]}

\* Every copy of a spike is scheduled once, and everything scheduled is delivered once
\* or still queued; only an exception in the middle of routing loses copies.
TrafficConserved ==
    /\ emitted = counts.multicast + Cardinality(UNION {Owed(c) : c \in Cores})
    /\ counts.multicast = counts.local + counts.sent + lost
    /\ counts.processed + Cardinality(queue) = injections + counts.local + counts.sent
    /\ counts.sent = counts.received + Cardinality({e \in queue : e.packet})
    /\ lost > 0 => "past" \in errors

\* A spike stays in a core's output queue only while that core's event is worked on, or
\* after an exception in the middle of it (multicore.py:230-234).
OutputsDrained ==
    \A c \in Cores : output[c] # <<>> =>
        \/ pc \in {"event", "drain"} /\ here = c
        \/ errors \cap {"elapsed", "route", "past"} # {}

\* Deliveries never go back in time, whatever the delays, the host and the exceptions it
\* catches.  With a positive axonal delay they are in the order of time, core and axon, as
\* long as the host injects nothing behind the last delivery and no event raised
\* (multicore.py:159, MULTICORE_ARCHITECTURE.md:47); with delay zero a spike may reach a
\* core before the cursor, at the time being processed.
DeliveriesSorted ==
    [][lastKey' # lastKey =>
         /\ lastKey[1] <= lastKey'[1]
         /\ settings.local > 0 /\ ~behind /\ errors \cap {"elapsed", "route", "past"} = {}
            => Precedes(lastKey, lastKey')]_vars

\* A reward dated with the clock reaches every core it is addressed to, once; the loop
\* over the cores is not undone when it raises (multicore.py:191).
RewardsReachAll == pc = "host" /\ ~misdated => taken = given

\* The same neurons on one core, as run_single_partition_equivalence runs them: an event
\* is taken from a queue in the order of its insertion, its fan-out is applied, and each
\* spike appends its destinations at once; no time passes.
OneEvent(state) ==
    LET event == Head(state.todo)
        Apply(partial, address) ==
            LET s == network.synapses[event[1]][address]
                update == UpdateNeuron(network.config[event[1]], partial.voltage[event[1]][s.target],
                                       network.threshold[event[1]][s.target], s.weight)
            IN  [todo |-> partial.todo \o
                            (IF update.spike THEN Destinations(event[1], s.target) ELSE <<>>),
                 voltage |-> [partial.voltage EXCEPT ![event[1]][s.target] = update.v]]
    IN  FoldLeft(Apply, [state EXCEPT !.todo = Tail(@)], network.fanout[event[1]][event[2]])

OneCore(event, steps) ==
    LET run[k \in 0 .. steps] ==
            IF k = 0
            THEN [todo |-> <<event>>,
                  voltage |-> [c \in Cores |-> [n \in 1 .. network.neurons[c] |-> 0]]]
            ELSE OneEvent(run[k - 1])
    IN  run[steps]

\* Partitioning changes nothing: a system that ran one event until it was idle has done
\* the work and holds the voltages of the same neurons on one core, whatever the delays
\* (validation.py:41, whose note only allows the times to differ).
PartitionEquivalent ==
    pc = "host" /\ queue = {} /\ injections = 1 /\ errors = {} =>
        OneCore(opening, counts.processed) = [todo |-> <<>>, voltage |-> voltage]

\* Every call of the host comes back: the queue of a network without recurrence empties.
CallsReturn == pc # "host" ~> pc = "host"
==============================================================================
