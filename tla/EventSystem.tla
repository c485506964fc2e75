----------------------------- MODULE EventSystem -----------------------------
(***************************************************************************)
(* The V5 multi-core system: MultiCoreSystem of multicore.py, its cores    *)
(* (MiniLoihiCore of core.py) and their memories (memory.py).              *)
(*                                                                         *)
(* A call of the host is a sequence of small steps, each ending where the  *)
(* code may raise, so that a call that raises leaves exactly the state the *)
(* code leaves.  The host catches the exception and may go on.  A core's   *)
(* input queue is empty whenever no call runs (every push is followed by   *)
(* the pop of the same event), so only the time of its last push is kept.  *)
(***************************************************************************)
EXTENDS EventCore, Sequences, Functions

CONSTANTS
    Networks,         \* the systems tried: a sequence of records with the fields
                      \*   neurons, axons: neurons and axons of each core, 1 .. their number
                      \*   config: CoreConfig of each core
                      \*   threshold[c][n], synapses[c]: the memories as first written
                      \*   fanout[c][a]: the addresses of the synapses of axon a, in order
                      \*   local[c][n], remote[c][n]: destinations <<core, axon>> of a spike
                      \*   delays: the values <<local_axonal_delay, inter_core_delay>> tried
                      \* and the bounds of the host's calls in that system
                      \*   limits: the values of max_events it passes
                      \*   injections, rewards: how often it injects and rewards
                      \*   time: the latest time it dates an event or a reward
    Strict,           \* the values tried for strict_routing
    Rewards,          \* the rewards the host gives
    MaxProcessed      \* bound: no call to run the system after so many events

NoLimit == -1

\* SynapseMemory: a target is a neuron of the core, a fan-out a range of the array.
IsSynapseMemory(neurons, axons, synapses, fanout) ==
    /\ synapses \in Seq([target : 1 .. neurons, weight : WMin .. WMax, plastic : BOOLEAN])
    /\ DOMAIN fanout = 1 .. axons
    /\ \A a \in 1 .. axons : fanout[a] \in Seq(DOMAIN synapses)

\* NeuronStateMemory: one state for each neuron, in the voltage range.
IsNeuronMemory(neurons, threshold) == threshold \in [1 .. neurons -> VMin .. VMax]

\* MiniLoihiCore: its memories agree with the size of the core.
IsCore(w, c) ==
    /\ w.axons[c] \in Nat \ {0}
    /\ w.config[c] \in CoreConfig
    /\ IsSynapseMemory(w.neurons[c], w.axons[c], w.synapses[c], w.fanout[c])
    /\ IsNeuronMemory(w.neurons[c], w.threshold[c])

\* install_routing_entry: no destination twice, and each a registered core's axon.
RoutingTargets(w) == UNION {{c} \X (1 .. w.axons[c]) : c \in DOMAIN w.neurons}
IsRoutingEntry(w, local, remote) ==
    /\ local \in Seq(RoutingTargets(w)) /\ remote \in Seq(RoutingTargets(w))
    /\ IsInjective(local \o remote)

IsNetwork(w) ==
    /\ w.neurons \in Seq(Nat \ {0}) /\ w.neurons # <<>>
    /\ \A c \in DOMAIN w.neurons :
        /\ IsCore(w, c)
        /\ \A n \in 1 .. w.neurons[c] : IsRoutingEntry(w, w.local[c][n], w.remote[c][n])
    /\ w.delays \subseteq Nat \X Nat
    /\ w.limits \subseteq Nat \cup {NoLimit}
    /\ w.injections \in Nat /\ w.rewards \in Nat /\ w.time \in Nat

ASSUME NetworkAssumption == \A w \in DOMAIN Networks : IsNetwork(Networks[w])

ASSUME HostAssumption ==
    /\ Strict \subseteq BOOLEAN
    /\ Rewards \subseteq Int /\ MaxProcessed \in Nat

VARIABLES
    settings,     \* the network, the delays and strict_routing, fixed from the start
    queue,        \* the heap _queue, as a set: sequence numbers make entries distinct
    sequence,     \* _sequence
    current,      \* current_time
    counts,       \* the counters of MultiCoreMetrics that are about traffic
    voltage,      \* voltage[c][n]
    synapses,     \* synapses[c][i]: SynapseEntry at address i
    coreTime,     \* _current_time of each core
    lastIn,       \* _last_pushed_time of each core's input queue
    output,       \* output[c]: output_event_queue, spikes [neuron, time]
    lastOut,      \* its _last_pushed_time
    pc,           \* where the running call is, "host" when none runs
    frame,        \* its locals
    errors,       \* history: the exceptions the host has caught
    behind,       \* history: an event was injected behind the last delivery
    ahead,        \* history: a reward was dated after current_time
    misdated,     \* history: a reward was dated otherwise than current_time
    lastKey,      \* history: <<time, core, axon>> of the last delivery
    emitted,      \* history: copies owed for the spikes pushed to an output queue
    lost,         \* history: copies of spikes popped for routing when routing raised
    opening,      \* history: <<core, axon>> of the first event injected
    given, taken, \* history: rewards addressed to each core and rewards it applied
    injections, rewardCalls     \* the host's calls so far

clocks == <<current, coreTime, lastIn, lastOut>>
host == <<injections, rewardCalls, given, behind, ahead, misdated, opening>>
vars == <<settings, queue, sequence, counts, voltage, synapses, output, pc, frame,
          errors, lastKey, emitted, lost, taken, clocks, host>>

\* The locals of a call: the core and the loop index it is at, the event it works on,
\* what is left of max_events and whether running out of it raises, and the reward it
\* applies with the last core that gets it.
Idle == [core |-> 1, position |-> 0, axon |-> 1, time |-> 0,
         left |-> 0, raises |-> FALSE, value |-> 0, final |-> 1]

------------------------------------------------------------------------------
network == Networks[settings.network]
Cores == DOMAIN network.neurons
Destinations(c, n) == network.local[c][n] \o network.remote[c][n]

Key(e) == <<e.time, e.core, e.axon, e.number>>

\* Tuples of numbers in the order Python compares them.
Precedes(x, y) ==
    \E i \in 1 .. Len(x) : x[i] < y[i] /\ \A j \in 1 .. i - 1 : x[j] = y[j]

IsFirstIn(e) == \A f \in queue : f = e \/ e.number < f.number

IsNextByTime(e) ==
    \A f \in queue : f = e \/ Precedes(<<e.time, e.number>>, <<f.time, f.number>>)

IsNextUntied(e) ==
    \A f \in queue : f = e \/ Precedes(<<e.time, e.core, e.axon>>, <<f.time, f.core, f.axon>>)

\* EventQueue.push: refused before the last event pushed.
InOrder(last, time) == time >= last

\* heappop: the smallest entry.
IsNext(e) == \A f \in queue : f = e \/ Precedes(Key(e), Key(f))

\* The heap entries made for one spike, local destinations before remote ones.
Arrival(c, n, i, time) ==
    time + settings.local + (IF i > Len(network.local[c][n]) THEN settings.gap ELSE 0)

EntriesLocalOnly(c, n, time) ==
    {[time |-> Arrival(c, n, i, time), core |-> Destinations(c, n)[i][1],
      axon |-> Destinations(c, n)[i][2], number |-> sequence + i,
      packet |-> i > Len(network.local[c][n])] : i \in 1 .. Len(network.local[c][n])}

Entries(c, n, time) ==
    {[time |-> Arrival(c, n, i, time), core |-> Destinations(c, n)[i][1],
      axon |-> Destinations(c, n)[i][2], number |-> sequence + i,
      packet |-> i > Len(network.local[c][n])] : i \in 1 .. Len(Destinations(c, n))}

Init ==
    /\ \E w \in DOMAIN Networks : \E d \in Networks[w].delays, strict \in Strict :
          settings = [network |-> w, local |-> d[1], gap |-> d[2], strict |-> strict]
    /\ queue = {} /\ sequence = 0 /\ current = 0
    /\ counts = [processed |-> 0, local |-> 0, sent |-> 0, received |-> 0,
                 multicast |-> 0, unrouted |-> 0]
    /\ voltage = [c \in Cores |-> [n \in 1 .. network.neurons[c] |-> 0]]
    /\ synapses = [c \in Cores |-> [i \in DOMAIN network.synapses[c] |->
           [target |-> network.synapses[c][i].target, weight |-> network.synapses[c][i].weight,
            plastic |-> network.synapses[c][i].plastic,
            eligibility |-> 0, pre |-> 0, post |-> 0, last |-> 0]]]
    /\ coreTime = [c \in Cores |-> 0]
    /\ lastIn = [c \in Cores |-> 0] /\ lastOut = [c \in Cores |-> 0]
    /\ output = [c \in Cores |-> <<>>]
    /\ pc = "host" /\ frame = Idle
    /\ errors = {} /\ behind = FALSE /\ ahead = FALSE /\ misdated = FALSE
    /\ lastKey = <<0, 0, 0>> /\ emitted = 0 /\ lost = 0
    /\ given = [c \in Cores |-> 0] /\ taken = [c \in Cores |-> 0]
    /\ injections = 0 /\ rewardCalls = 0 /\ opening = <<>>

Return == pc' = "host" /\ frame' = Idle /\ UNCHANGED errors

\* The running call raises: the host catches the exception.
Raise(kind) == pc' = "host" /\ frame' = Idle /\ errors' = errors \cup {kind}

\* The locals of the running call, and the configuration of the core it is at.
here == frame.core
position == frame.position
config == network.config[here]

------------------------------------------------------------------------------
(* The host's calls.                                                        *)

\* Event and validate_neuron_id: a time, and an axon of the core.
IsEvent(c, a, time) == time \in Nat /\ a \in 1 .. network.axons[c]

\* inject_external_event; a time before current_time is refused.
Inject(c, a, time) ==
    /\ pc = "host" /\ injections < network.injections
    /\ IsEvent(c, a, time) /\ time >= current
    /\ queue' = queue \cup {[time |-> time, core |-> c, axon |-> a,
                             number |-> sequence + 1, packet |-> FALSE]}
    /\ sequence' = sequence + 1
    /\ injections' = injections + 1
    /\ opening' = IF opening = <<>> THEN <<c, a>> ELSE opening
    /\ behind' = (behind \/ Precedes(<<time, c, a>>, lastKey))
    /\ UNCHANGED <<settings, counts, voltage, synapses, output, pc, frame, errors,
                   lastKey, emitted, lost, taken, clocks, rewardCalls, given, ahead,
                   misdated>>

\* process_until_idle(limit) on a queue that is not empty; process_one_system_event
\* is the limit 1 that does not raise.
StartRun(limit, raises) ==
    /\ pc = "host" /\ queue # {} /\ counts.processed < MaxProcessed
    /\ ~raises => limit = 1
    /\ frame' = [Idle EXCEPT !.left = limit, !.raises = raises]
    /\ pc' = "run"
    /\ UNCHANGED <<settings, queue, sequence, counts, voltage, synapses, output, errors,
                   lastKey, emitted, lost, taken, clocks, host>>

\* apply_global_reward (first = 1, last = n) or apply_targeted_reward (first = last).
StartReward(first, last, value, time) ==
    /\ pc = "host" /\ rewardCalls < network.rewards
    /\ frame' = [Idle EXCEPT !.core = first, !.final = last, !.value = value,
                             !.time = time]
    /\ rewardCalls' = rewardCalls + 1
    /\ given' = [c \in Cores |-> given[c] + (IF first <= c /\ c <= last THEN 1 ELSE 0)]
    /\ ahead' = (ahead \/ time > current)
    /\ misdated' = (misdated \/ time # current)
    /\ pc' = "reward"
    /\ UNCHANGED <<settings, queue, sequence, counts, voltage, synapses, output, errors,
                   lastKey, emitted, lost, taken, clocks, injections, behind, opening>>

------------------------------------------------------------------------------
(* process_one_system_event                                                 *)

\* Pop the heap, advance the clock, push the event to its core and start it.
Deliver(e) ==
    /\ pc = "run" /\ frame.left # 0
    /\ e \in queue /\ IsNext(e)
    /\ queue' = queue \ {e}
    /\ current' = e.time
    /\ counts' = [counts EXCEPT !.processed = @ + 1,
                                !.received = @ + (IF e.packet THEN 1 ELSE 0)]
    /\ IF ~InOrder(lastIn[e.core], e.time)
       THEN Raise("order") /\ UNCHANGED <<lastIn, coreTime>>
       ELSE /\ lastIn' = [lastIn EXCEPT ![e.core] = e.time]
            /\ coreTime' = [coreTime EXCEPT ![e.core] = e.time]
            /\ frame' = [frame EXCEPT !.core = e.core, !.axon = e.axon, !.time = e.time,
                                      !.position = 1]
            /\ pc' = "event" /\ UNCHANGED errors
    /\ UNCHANGED <<settings, sequence, voltage, synapses, output, lastOut, lastKey,
                   emitted, lost, taken, host>>

\* One turn of the loop of MiniLoihiCore.process_one_event: the neuron is written and
\* its spike queued before the plastic synapse is brought up to date, which may raise.
UpdateSynapse ==
    LET address == network.fanout[here][frame.axon][position]
        s == synapses[here][address]
        update == UpdateNeuron(config, voltage[here][s.target],
                               network.threshold[here][s.target], s.weight)
    IN  /\ pc = "event" /\ position <= Len(network.fanout[here][frame.axon])
        /\ voltage' = [voltage EXCEPT ![here][s.target] = update.v]
        /\ IF update.spike /\ InOrder(lastOut[here], frame.time)
           THEN /\ output' = [output EXCEPT ![here] =
                                Append(@, [neuron |-> s.target, time |-> frame.time])]
                /\ lastOut' = [lastOut EXCEPT ![here] = frame.time]
                /\ emitted' = emitted + Len(Destinations(here, s.target))
           ELSE UNCHANGED <<output, lastOut, emitted>>
        /\ IF update.spike /\ ~InOrder(lastOut[here], frame.time)
           THEN Raise("order") /\ UNCHANGED synapses
           ELSE IF Stale(config, s, frame.time)
           THEN Raise("elapsed") /\ UNCHANGED synapses
           ELSE /\ synapses' = [synapses EXCEPT ![here][address] =
                                  Traced(config, s, update.spike, frame.time)]
                /\ frame' = [frame EXCEPT !.position = @ + 1]
                /\ UNCHANGED <<pc, errors>>
        /\ UNCHANGED <<settings, queue, sequence, counts, lastKey, lost, taken, current,
                       coreTime, lastIn, host>>

\* The event is over: it is logged and the output queue is drained.
FinishEvent ==
    /\ pc = "event" /\ position > Len(network.fanout[here][frame.axon])
    /\ lastKey' = <<frame.time, here, frame.axon>>
    /\ pc' = "drain"
    /\ UNCHANGED <<settings, queue, sequence, counts, voltage, synapses, output, frame,
                   errors, emitted, lost, taken, clocks, host>>

\* _route_spike of the oldest spike of the output queue.
RouteSpike ==
    LET spike == Head(output[here])
        locals == Len(network.local[here][spike.neuron])
        total == Len(Destinations(here, spike.neuron))
    IN  /\ pc = "drain" /\ output[here] # <<>>
        /\ output' = [output EXCEPT ![here] = Tail(@)]
        /\ IF total = 0
           THEN /\ counts' = [counts EXCEPT !.unrouted = @ + 1]
                /\ IF settings.strict THEN Raise("route")
                   ELSE UNCHANGED <<pc, frame, errors>>
                /\ UNCHANGED <<queue, sequence, lost>>
           ELSE IF Arrival(here, spike.neuron, 1, spike.time) < current
           THEN /\ counts' = [counts EXCEPT !.multicast = @ + total]
                /\ lost' = lost + total
                /\ Raise("past")
                /\ UNCHANGED <<queue, sequence>>
           ELSE /\ queue' = queue \cup Entries(here, spike.neuron, spike.time)
                /\ sequence' = sequence + total
                /\ counts' = [counts EXCEPT !.multicast = @ + total,
                                            !.local = @ + locals,
                                            !.sent = @ + total - locals]
                /\ UNCHANGED <<pc, frame, errors, lost>>
        /\ UNCHANGED <<settings, voltage, synapses, lastKey, emitted, taken, clocks, host>>

OneDrained(c) == TRUE

Drained(c) == output[c] = <<>>

\* The output queue is empty: one event of max_events is spent.
FinishDelivery ==
    /\ pc = "drain" /\ Drained(here)
    /\ frame' = [Idle EXCEPT !.left = IF frame.left = NoLimit THEN NoLimit
                                      ELSE frame.left - 1,
                             !.raises = frame.raises]
    /\ pc' = "run"
    /\ UNCHANGED <<settings, queue, sequence, counts, voltage, synapses, output, errors,
                   lastKey, emitted, lost, taken, clocks, host>>

\* The run returns, or raises when max_events were processed and the queue is not empty.
EndRun ==
    /\ pc = "run" /\ (frame.left = 0 \/ queue = {})
    /\ IF frame.raises /\ queue # {} THEN Raise("limit") ELSE Return
    /\ UNCHANGED <<settings, queue, sequence, counts, voltage, synapses, output, lastKey,
                   emitted, lost, taken, clocks, host>>

------------------------------------------------------------------------------
(* MiniLoihiCore.apply_reward, on one core after the other                  *)

TooEarlyOrNow(c, time) == time <= coreTime[c]

TooEarly(c, time) == time < coreTime[c]

\* The checks at its head; without learning the core ignores the reward.
BeginReward ==
    /\ pc = "reward" /\ position = 0
    /\ IF config.learning /\ TooEarly(here, frame.time) THEN Raise("reward")
       ELSE /\ frame' = [frame EXCEPT !.position =
                           IF config.learning THEN 1 ELSE Len(network.synapses[here]) + 1]
            /\ UNCHANGED <<pc, errors>>
    /\ UNCHANGED <<settings, queue, sequence, counts, voltage, synapses, output, lastKey,
                   emitted, lost, taken, clocks, host>>

\* One turn of its loop over the whole synapse array.
RewardSynapse ==
    LET s == synapses[here][position]
    IN  /\ pc = "reward" /\ position \in 1 .. Len(network.synapses[here])
        /\ IF Stale(config, s, frame.time) THEN Raise("elapsed") /\ UNCHANGED synapses
           ELSE /\ synapses' = [synapses EXCEPT ![here][position] =
                                  Rewarded(config, s, frame.value, frame.time)]
                /\ frame' = [frame EXCEPT !.position = @ + 1]
                /\ UNCHANGED <<pc, errors>>
        /\ UNCHANGED <<settings, queue, sequence, counts, voltage, output, lastKey,
                       emitted, lost, taken, clocks, host>>

\* The core's time becomes the reward's; go on with the next core or return.
FinishReward ==
    /\ pc = "reward" /\ position > Len(network.synapses[here])
    /\ coreTime' = IF config.learning THEN [coreTime EXCEPT ![here] = frame.time]
                   ELSE coreTime
    /\ taken' = [taken EXCEPT ![here] = @ + 1]
    /\ IF here = frame.final THEN Return
       ELSE /\ frame' = [frame EXCEPT !.core = @ + 1, !.position = 0]
            /\ UNCHANGED <<pc, errors>>
    /\ UNCHANGED <<settings, queue, sequence, counts, voltage, synapses, output, lastKey,
                   emitted, lost, current, lastIn, lastOut, host>>

------------------------------------------------------------------------------
Working ==
    \/ \E e \in queue : Deliver(e)
    \/ UpdateSynapse \/ FinishEvent \/ RouteSpike \/ FinishDelivery \/ EndRun
    \/ BeginReward \/ RewardSynapse \/ FinishReward

HostCall ==
    \/ \E c \in Cores : \E a \in 1 .. network.axons[c], t \in 0 .. network.time : Inject(c, a, t)
    \/ \E limit \in network.limits, raises \in BOOLEAN : StartRun(limit, raises)
    \/ \E value \in Rewards, t \in {current} \cup 0 .. network.time :
        \/ StartReward(1, Len(network.neurons), value, t)
        \/ \E c \in Cores : StartReward(c, c, value, t)

Next == Working \/ HostCall

\* A call runs on its own until it returns or raises; the host need not call.
Spec == Init /\ [][Next]_vars /\ WF_vars(Working)
==============================================================================
