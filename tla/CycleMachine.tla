---------------------------- MODULE CycleMachine ----------------------------
(***************************************************************************)
(* mini_loihi/cycle_backend.py, class CycleMachine: the deterministic      *)
(* cycle-level machine of V6.2.  One StepCycle is one call of step_cycle:  *)
(* every transfer is decided on the registered (unprimed) state, all       *)
(* transfers commit together, and the tick controller then looks at the    *)
(* committed (primed) state.  The host acts between two cycles.            *)
(*                                                                         *)
(* Where the code stores an absolute ready_cycle, the model stores how     *)
(* many cycles are left (wait), so that the state space is finite; trace   *)
(* records and timing counters are left out.                               *)
(***************************************************************************)
EXTENDS NeuronUpdate, Ordering

CONSTANTS
    NumCores,        \* len(program.cores)
    Params,          \* Params[c][n]: parameter banks of neuron n of core c
    InitialState,    \* InitialState[c][n]: initial_neuron_state_banks
    Fanout,          \* Fanout[c][a]: CSR row of axon a, a sequence of synapses
    Routes,          \* Routes[c][n]: the routes of neuron n, in image order
    \* MicroarchitectureSpec, field by field:
    external_ingress_fifo_depth, routed_ingress_fifo_depth,
    ingress_events_accepted_per_cycle, synapse_lanes, axon_lookup_latency,
    contribution_latency,  \* synapse_read_latency + contribution_pipeline_latency
    synapse_work_fifo_depth, delayed_contribution_fifo_depth,
    accumulator_write_ports, accumulator_clear_bandwidth, neuron_lanes,
    neuron_latency,        \* state read + arithmetic + state write latencies
    neuron_work_fifo_depth, spike_fifo_depth, packetizer_throughput,
    packetizer_latency, router_input_fifo_depth, router_output_fifo_depth,
    router_packets_accepted_per_cycle,
    router_packets_transmitted_per_cycle_per_destination,
    deadlock_detection_threshold,
    \* the host
    MaxTick,         \* max_logical_ticks of run_until_quiescent
    HostEvents,      \* the events (without their id) a host may present
    MaxEvents,       \* how many of them it presents at most
    Sources,         \* the event sequences it may load as an input source
    TickLists,       \* the explicit tick sequences it may load
    HostPackets      \* the packets a harness may place in a router input

Cores == 0 .. NumCores - 1
Neurons(c) == DOMAIN Params[c]
Axons(c) == DOMAIN Fanout[c]

Depths == {external_ingress_fifo_depth, routed_ingress_fifo_depth,
           synapse_work_fifo_depth, delayed_contribution_fifo_depth,
           neuron_work_fifo_depth, spike_fifo_depth,
           router_input_fifo_depth, router_output_fifo_depth}
Rates == {ingress_events_accepted_per_cycle, synapse_lanes,
          accumulator_write_ports, accumulator_clear_bandwidth, neuron_lanes,
          packetizer_throughput, router_packets_accepted_per_cycle,
          router_packets_transmitted_per_cycle_per_destination}
Latencies == {axon_lookup_latency, contribution_latency, neuron_latency,
              packetizer_latency}

\* __post_init__ of MicroarchitectureSpec: every field is a positive integer, and
\* two of the latencies are sums of two and of three fields.
IsMicroarchitecture ==
    /\ Depths \cup Rates \cup Latencies \subseteq Nat \ {0}
    /\ contribution_latency >= 2 /\ neuron_latency >= 3
    /\ deadlock_detection_threshold \in Nat \ {0}

ASSUME MicroarchitectureAssumption == IsMicroarchitecture

Synapse(c) == [target : Neurons(c), weight : Int, delay : Nat]
Route == {r \in [core : Cores, axon : Nat] : r.axon \in Axons(r.core)}

ASSUME ProgramAssumption ==
    /\ NumCores \in Nat \ {0}
    /\ DOMAIN Params = Cores /\ DOMAIN InitialState = Cores
    /\ DOMAIN Fanout = Cores /\ DOMAIN Routes = Cores
    /\ \A c \in Cores :
        /\ Neurons(c) \subseteq Nat /\ IsFiniteSet(Neurons(c))
        /\ Params[c] \in [Neurons(c) -> NeuronParams]
        /\ InitialState[c] \in [Neurons(c) -> NeuronState]
        /\ Axons(c) \subseteq Nat
        /\ Fanout[c] \in [Axons(c) -> Seq(Synapse(c))]
        /\ Routes[c] \in [Neurons(c) -> Seq(Route)]
    /\ MaxTick \in Nat /\ MaxEvents \in Nat

\* The objects a caller hands over are dataclasses of integers, ticks are checked by
\* validate_logical_tick_ids, and a harness places packets a packetizer could have made
\* (inject_router_packet does not ask for the axon).
ASSUME HostAssumption ==
    /\ Sources \subseteq Seq([timestamp : Int, core : Int, axon : Int, priority : Int])
    /\ TickLists \subseteq Seq(Nat)
    /\ \A p \in HostPackets :
        /\ p \in [event_id : Int, source : Int, neuron : Nat, core : Int, axon : Nat,
                  timestamp : Nat, priority : Int]
        /\ p.core \in Cores => p.axon \in Axons(p.core)

VARIABLES
    \* controller
    logical_tick, phase, tick_active, last_completed_tick,
    explicit_ticks,      \* BOOLEAN: _explicit_tick_ids is not None
    explicit_tick_ids,   \* those not begun yet
    no_progress_cycles, error,
    \* input source and host
    source_events, source_index, inputs_closed, next_event_id,
    \* per core, in pipeline order
    external_ingress_fifo, routed_ingress_fifo, ingress_round_robin_pointer,
    axon_lookup_pipeline, synapse_work_fifo, contribution_pipeline,
    delayed_contribution_fifo, accumulators, affected, neuron,
    neuron_pending, neuron_work_fifo, neuron_pipeline, spike_fifo,
    packetizer_work,
    \* network
    packet_pipeline, router_input_fifos, router_output_fifos,
    router_round_robin_pointer,
    \* results
    logical_spikes, logical_packets, events_admitted, packets_admitted

controlVars == <<logical_tick, phase, tick_active, last_completed_tick,
    explicit_ticks, explicit_tick_ids, no_progress_cycles, error>>
hostVars == <<source_events, inputs_closed>>
coreVars == <<routed_ingress_fifo, ingress_round_robin_pointer,
    axon_lookup_pipeline, synapse_work_fifo, contribution_pipeline,
    delayed_contribution_fifo, accumulators, affected, neuron,
    neuron_pending, neuron_work_fifo, neuron_pipeline, spike_fifo,
    packetizer_work>>
networkVars == <<packet_pipeline, router_output_fifos,
    router_round_robin_pointer>>
resultVars == <<logical_spikes, logical_packets, events_admitted,
    packets_admitted>>
vars == <<controlVars, hostVars, source_index, next_event_id,
    external_ingress_fifo, coreVars, router_input_fifos, networkVars,
    resultVars>>

NoTick == -1

-----------------------------------------------------------------------------
(* Helpers shared by the stages. *)

\* Mutation: the indices are scanned downwards.
Above(a, b) == a > b
HighestIndices(S, k) == FirstOf(S, k, Above)

LowestIndices(S, k) == FirstOf(S, k, Below)

\* One cycle less to wait.
Waited(e) == [e EXCEPT !.wait = IF @ > 0 THEN @ - 1 ELSE 0]
IsReady(e) == e.wait = 0

\* _head_for_tick: the head of a FIFO, if it belongs to the tick.
HeadDue(fifo, t) == fifo # <<>> /\ Head(fifo).timestamp = t

-----------------------------------------------------------------------------
(* The tick controller before the cycle: _next_pending_logical_tick and    *)
(* _begin_tick, the first thing step_cycle does.                           *)

\* The packets in the packet pipeline and in the router.
NetworkPackets ==
    {e.packet : e \in packet_pipeline}
        \cup UNION {ToSet(router_input_fifos[c]) \cup ToSet(router_output_fifos[c]) : c \in Cores}

\* The ticks of the next source event and of what a core holds.
SourceTicks ==
    {source_events[i].timestamp : i \in {source_index + 1} \cap 1 .. Len(source_events)}
IngressTicks(c) ==
    {e.timestamp : e \in ToSet(external_ingress_fifo[c]) \cup ToSet(routed_ingress_fifo[c])}
DelayedTicks(c) == {i.due_tick : i \in delayed_contribution_fifo[c]}

\* Mutation: the delayed contributions are not work.
PendingTicksWithoutDelayed ==
    SourceTicks \cup {p.timestamp : p \in NetworkPackets}
        \cup UNION {IngressTicks(c) : c \in Cores}

\* _next_work_tick collects these timestamps.
PendingTicks ==
    SourceTicks \cup {p.timestamp : p \in NetworkPackets}
        \cup UNION {IngressTicks(c) \cup DelayedTicks(c) : c \in Cores}

NextWorkTick == IF PendingTicks = {} THEN NoTick ELSE Min(PendingTicks)

NextPendingTick ==
    CASE ~explicit_ticks -> NextWorkTick
      [] explicit_ticks /\ explicit_tick_ids = <<>> -> NoTick
      [] OTHER -> Head(explicit_tick_ids)

\* The explicit list skips a tick that has work: ValueError.
OmittedTick ==
    /\ explicit_ticks
    /\ NextWorkTick # NoTick
    /\ explicit_tick_ids # <<>> => NextWorkTick < Head(explicit_tick_ids)

\* The tick and the phase this cycle runs in, after _begin_tick if it begins one.
CurrentTick == IF tick_active THEN logical_tick ELSE NextPendingTick
CurrentPhase == IF tick_active THEN phase ELSE "work"
\* _begin_tick of an explicit tick without source events sets a flag that
\* _advance_control_state consumes in the same cycle.
EmptyIngressWait ==
    /\ ~tick_active
    /\ explicit_ticks
    /\ \A i \in source_index + 1 .. Len(source_events) :
            source_events[i].timestamp # CurrentTick

InWork == CurrentPhase = "work"
InNeuron == CurrentPhase = "neuron"

-----------------------------------------------------------------------------
(* _commit_router_destinations: router outputs to routed ingress. *)

Transmitted(d) ==
    Min({router_packets_transmitted_per_cycle_per_destination,
         Len(router_output_fifos[d]),
         routed_ingress_fifo_depth - Len(routed_ingress_fifo[d])})

-----------------------------------------------------------------------------
(* _commit_router_arbitration: the loop grants one source after the other; *)
(* a result of the loop is the sequence of its winners.                    *)

Requesters == {s \in Cores : router_input_fifos[s] # <<>>}
RequestOf(s) == Head(router_input_fifos[s])

GrantSeqs == UNION {[1 .. k -> Requesters] :
                        k \in 0 .. Min({router_packets_accepted_per_cycle, NumCores})}

\* Mutation: the grants of this cycle are not counted against the output.
GrantableBlindly(g, k) ==
    {s \in Requesters \ {g[i] : i \in 1 .. k} :
        Len(router_output_fifos[RequestOf(s).core]) < router_output_fifo_depth}

\* Mutation: the output is taken for full one packet early.
GrantableShort(g, k) ==
    {s \in Requesters \ {g[i] : i \in 1 .. k} :
        Len(router_output_fifos[RequestOf(s).core]) + 1 < router_output_fifo_depth}

\* The requesters still served after the first k grants of g.
Grantable(g, k) ==
    {s \in Requesters \ {g[i] : i \in 1 .. k} :
        LET d == RequestOf(s).core
        IN  Len(router_output_fifos[d])
              + Cardinality({i \in 1 .. k : RequestOf(g[i]).core = d})
            < router_output_fifo_depth}

\* Mutation: the pointer does not wrap around.
PointerWithoutWrap(g, k) ==
    IF k = 0 THEN router_round_robin_pointer ELSE g[k] + 1

PointerAfter(g, k) ==
    IF k = 0 THEN router_round_robin_pointer ELSE (g[k] + 1) % NumCores

\* Highest priority first, then the distance from the round-robin pointer.
Preferred(s, S, pointer) ==
    \A o \in S :
        \/ RequestOf(s).priority > RequestOf(o).priority
        \/ /\ RequestOf(s).priority = RequestOf(o).priority
           /\ (s - pointer) % NumCores <= (o - pointer) % NumCores

IsArbitration(g) ==
    /\ \A k \in 1 .. Len(g) :
        /\ g[k] \in Grantable(g, k - 1)
        /\ Preferred(g[k], Grantable(g, k - 1), PointerAfter(g, k - 1))
    /\ \/ Len(g) = router_packets_accepted_per_cycle
       \/ Grantable(g, Len(g)) = {}

\* The packets the grants g move to the output of d, in grant order.
GrantedTo(g, d) ==
    Picked([i \in 1 .. Len(g) |-> RequestOf(g[i])],
           {i \in 1 .. Len(g) : RequestOf(g[i]).core = d})

-----------------------------------------------------------------------------
(* _commit_packet_pipeline: packets to the input of their source core. *)

\* The sort key of the code, on packets.
PacketBefore(p, q) ==
    LET key(r) == <<r.source, r.neuron, r.core, r.axon, r.event_id>>
        first  == {i \in 1 .. 5 : key(p)[i] # key(q)[i]}
    IN  first # {} /\ key(p)[Min(first)] < key(q)[Min(first)]

ReadyPackets == {e.packet : e \in {x \in packet_pipeline : IsReady(x)}}

\* The ready packets that find room in their router input.
RoomyPackets ==
    {p \in ReadyPackets :
        Cardinality({q \in ReadyPackets : q.source = p.source /\ PacketBefore(q, p)})
            < router_input_fifo_depth - Len(router_input_fifos[p.source])}

AcceptedPackets == FirstOf(RoomyPackets, router_packets_accepted_per_cycle, PacketBefore)

AcceptedFrom(s) ==
    InOrder({p \in AcceptedPackets : p.source = s}, PacketBefore)

-----------------------------------------------------------------------------
(* _commit_packetizers: a spike becomes one packet per route; the spike    *)
(* being packetized leaves room for the next one a cycle after its last.   *)

RoutesLeft(c) ==
    IF packetizer_work[c] = <<>> THEN {}
    ELSE LET w == Head(packetizer_work[c])
         IN  {<<c, r>> : r \in w.next_route
                .. Min({w.next_route + packetizer_throughput - 1,
                        Len(Routes[c][w.neuron])})}

RouteBefore(a, b) == a[1] < b[1] \/ (a[1] = b[1] /\ a[2] < b[2])

\* The routes packetized in this cycle: cores share what the pipeline has left.
PacketizedRoutes ==
    FirstOf(UNION {RoutesLeft(c) : c \in Cores},
            router_input_fifo_depth * NumCores - Cardinality(packet_pipeline),
            RouteBefore)

PacketizedFrom(c) == {x \in PacketizedRoutes : x[1] = c}

\* Mutations: the packet arrives in the tick of its spike; the packets of one
\* cycle share an identifier.
PacketWithoutLatency(x) ==
    LET w == Head(packetizer_work[x[1]])
        r == Routes[x[1]][w.neuron][x[2]]
    IN  [event_id |-> next_event_id
                        + Cardinality({y \in PacketizedRoutes : RouteBefore(y, x)}),
         source |-> x[1], neuron |-> w.neuron, core |-> r.core, axon |-> r.axon,
         timestamp |-> w.tick, priority |-> 0]
PacketWithSharedId(x) ==
    [PacketWithoutLatency(x) EXCEPT !.event_id = next_event_id, !.timestamp = @ + 1]

PacketFor(x) ==
    LET w == Head(packetizer_work[x[1]])
        r == Routes[x[1]][w.neuron][x[2]]
    IN  [event_id  |-> next_event_id
                        + Cardinality({y \in PacketizedRoutes : RouteBefore(y, x)}),
         source    |-> x[1],
         neuron    |-> w.neuron,
         core      |-> r.core,
         axon      |-> r.axon,
         timestamp |-> w.tick + 1,      \* transport_latency_ticks is 1
         priority  |-> 0]

NewPackets == [i \in 1 .. Cardinality(PacketizedRoutes) |->
                 PacketFor(InOrder(PacketizedRoutes, RouteBefore)[i])]

\* The spike FIFO is read when no spike is being packetized.
SpikeTaken(c) == packetizer_work[c] = <<>> /\ spike_fifo[c] # <<>>

\* What remains of the work entry, or the spike just taken if it has routes.
PacketizerWorkAfter(c) ==
    LET w == Head(packetizer_work[c])
        s == Head(spike_fifo[c])
    IN  CASE packetizer_work[c] # <<>>
             /\ w.next_route + Cardinality(PacketizedFrom(c)) <= Len(Routes[c][w.neuron])
               -> <<[w EXCEPT !.next_route = @ + Cardinality(PacketizedFrom(c))]>>
          [] SpikeTaken(c) /\ Routes[c][s.neuron] # <<>>
               -> <<[tick |-> s.tick, neuron |-> s.neuron, next_route |-> 1]>>
          [] OTHER -> <<>>
-----------------------------------------------------------------------------
(* _commit_neuron_writeback, _commit_neuron_issue and _commit_neuron_feed. *)
(* Neurons are fed in ascending index, so the order of the neuron FIFO and *)
(* of the neuron pipeline is the order of the indices.                     *)

NeuronBefore(e, f) == e.neuron < f.neuron

\* At most one update per lane leaves the pipeline; a spike needs room.
WritebackWindow(c) ==
    FirstOf({e \in neuron_pipeline[c] : IsReady(e)}, neuron_lanes, NeuronBefore)
Written(c) ==
    IF ~InNeuron THEN {}
    ELSE {e \in WritebackWindow(c) :
            e.spike => Cardinality({f \in WritebackWindow(c) :
                                        f.spike /\ NeuronBefore(f, e)})
                            < spike_fifo_depth - Len(spike_fifo[c])}
WrittenNeurons(c) == {e.neuron : e \in Written(c)}
UpdateOf(c, n) == (CHOOSE e \in Written(c) : e.neuron = n).state
SpikesOf(c) ==
    LET fired == {e \in Written(c) : e.spike}
    IN  [i \in 1 .. Cardinality(fired) |->
            [tick |-> CurrentTick, core |-> c,
             neuron |-> InOrder(fired, NeuronBefore)[i].neuron]]

\* The spikes of a cycle are recorded core by core.
NewSpikes == UNION {ToSet(SpikesOf(c)) : c \in Cores}
RecordedBefore(s, t) == s.core < t.core \/ (s.core = t.core /\ s.neuron < t.neuron)

IssuedNeurons(c) ==
    IF ~InNeuron THEN {}
    ELSE LowestIndices(neuron_work_fifo[c],
            Min({neuron_lanes,
                 neuron_lanes * neuron_latency - Cardinality(neuron_pipeline[c])}))

\* _calculate_neuron_pipeline_entry reads the core's state at issue.
PipelineEntry(c, n) ==
    LET u == update_neuron(Params[c][n], neuron[c][n], accumulators[c][n], CurrentTick)
    IN  [neuron |-> n, spike |-> u.spike, state |-> u.state, wait |-> neuron_latency]

FedNeurons(c) ==
    IF ~InNeuron THEN {}
    ELSE LowestIndices(neuron_pending[c],
            Min({neuron_work_fifo_depth - Cardinality(neuron_work_fifo[c]),
                 accumulator_clear_bandwidth}))

-----------------------------------------------------------------------------
(* _commit_accumulator_writes and _commit_future_contributions. *)

\* A contribution without its pipeline wait.
Bare(i) == [event_id |-> i.event_id, synapse |-> i.synapse, target |-> i.target,
            weight |-> i.weight, due_tick |-> i.due_tick]

Contributions(c) == {Bare(i) : i \in {x \in ToSet(contribution_pipeline[c]) : IsReady(x)}}

DueContributions(c) ==
    {i \in Contributions(c) \cup delayed_contribution_fifo[c] : i.due_tick = CurrentTick}

\* The order of the code on the contributions of one neuron.
ContributionBefore(i, j) ==
    i.event_id < j.event_id \/ (i.event_id = j.event_id /\ i.synapse < j.synapse)

\* Mutation: contributions to one neuron do not conflict.
ConflictsIgnored(c) == DueContributions(c)

\* The first candidate of each neuron; ports go to the lowest neurons.
ConflictWinners(c) ==
    {i \in DueContributions(c) :
        \A j \in DueContributions(c) :
            j.target = i.target => i = j \/ ContributionBefore(i, j)}
TargetBefore(i, j) == i.target < j.target
AccumulatorWrites(c) ==
    IF ~InWork THEN {}
    ELSE FirstOf(ConflictWinners(c), accumulator_write_ports, TargetBefore)

\* A ready contribution of a later tick goes to the delayed FIFO, which the
\* accumulator writes of the same cycle have already drained.
ReadyFuture(c) ==
    Picked(contribution_pipeline[c],
           {k \in 1 .. Len(contribution_pipeline[c]) :
               /\ IsReady(contribution_pipeline[c][k])
               /\ contribution_pipeline[c][k].due_tick > CurrentTick})
DelayedRoom(c) ==
    delayed_contribution_fifo_depth
        - Cardinality(delayed_contribution_fifo[c] \ AccumulatorWrites(c))
Deferred(c) ==
    IF ~InWork THEN {}
    ELSE {Bare(ReadyFuture(c)[k]) :
            k \in 1 .. Min({Len(ReadyFuture(c)), DelayedRoom(c)})}


\* The contributions that stay in the pipeline, by their index.
KeptContributions(c) ==
    {k \in 1 .. Len(contribution_pipeline[c]) :
        \/ ~IsReady(contribution_pipeline[c][k])
        \/ Bare(contribution_pipeline[c][k]) \notin AccumulatorWrites(c) \cup Deferred(c)}

-----------------------------------------------------------------------------
(* _commit_synapse_issue, _commit_axon_lookup, _commit_ingress and         *)
(* _commit_external_source.                                                *)

IssueCount(c) ==
    IF ~InWork \/ synapse_work_fifo[c] = <<>> THEN 0
    ELSE LET w == Head(synapse_work_fifo[c])
         IN  Min({synapse_lanes,
                  synapse_work_fifo_depth - Len(contribution_pipeline[c]),
                  Len(Fanout[c][w.axon]) - w.next + 1})

IssuedContributions(c) ==
    [k \in 1 .. IssueCount(c) |->
        LET w == Head(synapse_work_fifo[c])
            i == w.next + k - 1
            s == Fanout[c][w.axon][i]
        IN  [event_id |-> w.event_id, synapse |-> i, target |-> s.target,
             weight |-> s.weight, due_tick |-> CurrentTick + s.delay,
             wait |-> contribution_latency]]

\* The work entry at the head keeps the part of the row not issued yet.
SynapseWorkLeft(c) ==
    IF IssueCount(c) = 0 THEN synapse_work_fifo[c]
    ELSE LET w == Head(synapse_work_fifo[c])
         IN  IF w.next + IssueCount(c) <= Len(Fanout[c][w.axon])
             THEN <<[w EXCEPT !.next = @ + IssueCount(c)]>> \o Tail(synapse_work_fifo[c])
             ELSE Tail(synapse_work_fifo[c])

LookupDone(c) ==
    /\ InWork
    /\ axon_lookup_pipeline[c] # <<>>
    /\ IsReady(Head(axon_lookup_pipeline[c]))
    /\ Len(synapse_work_fifo[c]) < synapse_work_fifo_depth

LookedUp(c) ==
    LET e == Head(axon_lookup_pipeline[c])
    IN  IF LookupDone(c) /\ Fanout[c][e.axon] # <<>>
        THEN <<[event_id |-> e.event_id, axon |-> e.axon, next |-> 1]>>
        ELSE <<>>

\* Kind 0 is the external FIFO, kind 1 the routed one.
IngressFifo(c, kind) ==
    IF kind = 0 THEN external_ingress_fifo[c] ELSE routed_ingress_fifo[c]
IngressRequests(c) ==
    IF ~InWork \/ Len(axon_lookup_pipeline[c]) >= synapse_work_fifo_depth THEN {}
    ELSE {k \in {0, 1} : HeadDue(IngressFifo(c, k), CurrentTick)}

\* Priority first, then the kind the round-robin pointer names.
IngressWins(c, kind) ==
    /\ kind \in IngressRequests(c)
    /\ \A other \in IngressRequests(c) \ {kind} :
        LET p == Head(IngressFifo(c, kind)).priority
            q == Head(IngressFifo(c, other)).priority
        IN  p > q \/ (p = q /\ ingress_round_robin_pointer[c] = kind)

AfterIngress(c, kind) ==
    IF IngressWins(c, kind) THEN Tail(IngressFifo(c, kind)) ELSE IngressFifo(c, kind)

LookupStarted(c) ==
    IF IngressRequests(c) = {} THEN <<>>
    ELSE LET kind == CHOOSE k \in {0, 1} : IngressWins(c, k)
             e    == Head(IngressFifo(c, kind))
         IN  <<[event_id |-> e.event_id, axon |-> e.axon, wait |-> axon_lookup_latency]>>

\* How many events of the loaded source enter the external FIFOs.
SourceAdmissible(k) ==
    \A j \in 1 .. k :
        /\ source_index + j <= Len(source_events)
        /\ LET e == source_events[source_index + j]
           IN  /\ e.timestamp = CurrentTick
               /\ Len(external_ingress_fifo[e.core])
                    + Cardinality({i \in 1 .. j - 1 :
                                    source_events[source_index + i].core = e.core})
                    < external_ingress_fifo_depth
SourceCount ==
    IF ~InWork THEN 0
    ELSE Max({k \in 0 .. ingress_events_accepted_per_cycle : SourceAdmissible(k)})
SourcedTo(c) ==
    Picked(source_events,
           {i \in source_index + 1 .. source_index + SourceCount : source_events[i].core = c})
-----------------------------------------------------------------------------
(* The committed state of the registers, one equation per register. *)

MoveNetwork(g) ==
    /\ router_output_fifos' = [d \in Cores |->
          SubSeq(router_output_fifos[d], Transmitted(d) + 1, Len(router_output_fifos[d]))
            \o GrantedTo(g, d)]
    /\ router_input_fifos' = [s \in Cores |->
          (IF s \in ToSet(g) THEN Tail(router_input_fifos[s]) ELSE router_input_fifos[s])
            \o AcceptedFrom(s)]
    /\ router_round_robin_pointer' = PointerAfter(g, Len(g))
    /\ packet_pipeline' =
          {Waited(e) : e \in {x \in packet_pipeline : x.packet \notin AcceptedPackets}}
          \cup {Waited([packet |-> NewPackets[i], wait |-> packetizer_latency]) :
                    i \in DOMAIN NewPackets}
    /\ packetizer_work' = [c \in Cores |-> PacketizerWorkAfter(c)]
    /\ next_event_id' = next_event_id + Cardinality(PacketizedRoutes)
    /\ logical_packets' = logical_packets \o NewPackets

MoveNeurons ==
    /\ neuron_pipeline' = [c \in Cores |->
          {Waited(e) : e \in neuron_pipeline[c] \ Written(c)}
          \cup {Waited(PipelineEntry(c, n)) : n \in IssuedNeurons(c)}]
    /\ neuron_work_fifo' = [c \in Cores |->
          (neuron_work_fifo[c] \ IssuedNeurons(c)) \cup FedNeurons(c)]
    /\ neuron' = [c \in Cores |-> [n \in Neurons(c) |->
          IF n \in WrittenNeurons(c) THEN UpdateOf(c, n) ELSE neuron[c][n]]]
    /\ spike_fifo' = [c \in Cores |->
          (IF SpikeTaken(c) THEN Tail(spike_fifo[c]) ELSE spike_fifo[c])
            \o [i \in DOMAIN SpikesOf(c) |->
                   [tick |-> CurrentTick, neuron |-> SpikesOf(c)[i].neuron]]]
    /\ logical_spikes' = logical_spikes \o InOrder(NewSpikes, RecordedBefore)

MoveContributions ==
    /\ accumulators' = [c \in Cores |-> [n \in Neurons(c) |->
          IF n \in WrittenNeurons(c) THEN 0
          ELSE LET w == {i \in AccumulatorWrites(c) : i.target = n}
               IN  IF w = {} THEN accumulators[c][n]
                   ELSE accumulators[c][n] + (CHOOSE i \in w : TRUE).weight]]
    /\ affected' = [c \in Cores |->
          (affected[c] \ WrittenNeurons(c)) \cup {i.target : i \in AccumulatorWrites(c)}]
    /\ delayed_contribution_fifo' = [c \in Cores |->
          (delayed_contribution_fifo[c] \ AccumulatorWrites(c)) \cup Deferred(c)]
    /\ contribution_pipeline' = [c \in Cores |->
          LET next == Picked(contribution_pipeline[c], KeptContributions(c))
                        \o IssuedContributions(c)
          IN  [k \in 1 .. Len(next) |-> Waited(next[k])]]

MoveEvents ==
    /\ synapse_work_fifo' = [c \in Cores |-> SynapseWorkLeft(c) \o LookedUp(c)]
    /\ axon_lookup_pipeline' = [c \in Cores |->
          LET kept == IF LookupDone(c) THEN Tail(axon_lookup_pipeline[c])
                                       ELSE axon_lookup_pipeline[c]
              next == kept \o LookupStarted(c)
          IN  [k \in 1 .. Len(next) |-> Waited(next[k])]]
    /\ ingress_round_robin_pointer' = [c \in Cores |->
          CASE IngressWins(c, 0) -> 1
            [] IngressWins(c, 1) -> 0
            [] OTHER -> ingress_round_robin_pointer[c]]
    /\ routed_ingress_fifo' = [c \in Cores |->
          AfterIngress(c, 1) \o SubSeq(router_output_fifos[c], 1, Transmitted(c))]
    /\ external_ingress_fifo' = [c \in Cores |-> AfterIngress(c, 0) \o SourcedTo(c)]
    /\ source_index' = source_index + SourceCount
    /\ events_admitted' =
          events_admitted + Cardinality({c \in Cores : IngressWins(c, 0)})
    /\ packets_admitted' =
          packets_admitted + Cardinality({c \in Cores : IngressWins(c, 1)})

\* Mutation: what the network moves is not progress.
TransfersOfCores(g) ==
    \/ SourceCount > 0
    \/ \E c \in Cores :
        \/ SpikeTaken(c) \/ Written(c) # {} \/ IssuedNeurons(c) # {} \/ FedNeurons(c) # {}
        \/ AccumulatorWrites(c) # {} \/ Deferred(c) # {}
        \/ IssueCount(c) > 0 \/ LookupDone(c) \/ IngressRequests(c) # {}

\* Whether any commit of the cycle moved something (the progress flag).
Transfers(g) ==
    \/ g # <<>> \/ AcceptedPackets # {} \/ PacketizedRoutes # {} \/ SourceCount > 0
    \/ \E c \in Cores :
        \/ Transmitted(c) > 0 \/ SpikeTaken(c)
        \/ Written(c) # {} \/ IssuedNeurons(c) # {} \/ FedNeurons(c) # {}
        \/ AccumulatorWrites(c) # {} \/ Deferred(c) # {}
        \/ IssueCount(c) > 0 \/ LookupDone(c) \/ IngressRequests(c) # {}

-----------------------------------------------------------------------------
(* _advance_control_state, on the committed registers. *)

\* Mutation: contributions in the pipeline do not hold the work phase.
WorkCompleteEarly ==
    /\ \/ source_index >= Len(source_events)
       \/ source_events[source_index + 1].timestamp # logical_tick
    /\ \A c \in Cores :
        /\ ~HeadDue(external_ingress_fifo[c], logical_tick)
        /\ ~HeadDue(routed_ingress_fifo[c], logical_tick)
        /\ axon_lookup_pipeline[c] = <<>>
        /\ synapse_work_fifo[c] = <<>>

\* _work_complete, of logical_tick.
WorkComplete ==
    /\ \/ source_index >= Len(source_events)
       \/ source_events[source_index + 1].timestamp # logical_tick
    /\ \A c \in Cores :
        /\ ~HeadDue(external_ingress_fifo[c], logical_tick)
        /\ ~HeadDue(routed_ingress_fifo[c], logical_tick)
        /\ axon_lookup_pipeline[c] = <<>>
        /\ synapse_work_fifo[c] = <<>>
        /\ contribution_pipeline[c] = <<>>
        /\ \A i \in delayed_contribution_fifo[c] : i.due_tick # logical_tick
    /\ \A p \in NetworkPackets : p.timestamp > logical_tick

NeuronComplete ==
    \A c \in Cores :
        neuron_pending[c] = {} /\ neuron_work_fifo[c] = {} /\ neuron_pipeline[c] = {}

PacketizationComplete ==
    \A c \in Cores : spike_fifo[c] = <<>> /\ packetizer_work[c] = <<>>

\* Mutation: a fed neuron stays pending.
PendingNeverFed == neuron_pending

PendingAfterFeed == [c \in Cores |-> neuron_pending[c] \ FedNeurons(c)]

\* An explicit tick without events: one cycle of wait.
HoldEmptyTick ==
    /\ EmptyIngressWait
    /\ phase' = "work"
    /\ tick_active' = TRUE
    /\ UNCHANGED <<last_completed_tick, neuron_pending>>

EnterNeuron ==
    /\ ~EmptyIngressWait
    /\ InWork
    /\ WorkComplete'
    /\ phase' = "neuron"
    /\ tick_active' = TRUE
    /\ neuron_pending' = affected'
    /\ UNCHANGED last_completed_tick

EnterPacketize ==
    /\ InNeuron
    /\ neuron_pending' = PendingAfterFeed
    /\ NeuronComplete'
    /\ phase' = "packetize"
    /\ tick_active' = TRUE
    /\ UNCHANGED last_completed_tick

EnterBarrier ==
    /\ CurrentPhase = "packetize"
    /\ PacketizationComplete'
    /\ phase' = "barrier"
    /\ tick_active' = TRUE
    /\ UNCHANGED <<last_completed_tick, neuron_pending>>

CompleteTick ==
    /\ CurrentPhase = "barrier"
    /\ phase' = "barrier"
    /\ tick_active' = FALSE
    /\ last_completed_tick' = CurrentTick
    /\ UNCHANGED neuron_pending

StayInPhase ==
    /\ ~EmptyIngressWait
    /\ neuron_pending' = IF InNeuron THEN PendingAfterFeed ELSE neuron_pending
    /\ \/ InWork /\ ~WorkComplete'
       \/ InNeuron /\ ~NeuronComplete'
       \/ CurrentPhase = "packetize" /\ ~PacketizationComplete'
    /\ phase' = CurrentPhase
    /\ tick_active' = TRUE
    /\ UNCHANGED last_completed_tick

AdvanceControl ==
    \/ HoldEmptyTick \/ EnterNeuron \/ EnterPacketize \/ EnterBarrier \/ CompleteTick

-----------------------------------------------------------------------------
(* _check_deadlock and step_cycle. *)

\* Mutation: a packet that waits for room counts as one that will move.
FutureTransitionOfPackets ==
    \/ packet_pipeline # {}
    \/ \E c \in Cores : axon_lookup_pipeline[c] # <<>> \/ contribution_pipeline[c] # <<>>

\* _has_future_pipeline_transition, after the cycle count went up.
FutureTransition ==
    \/ \E e \in packet_pipeline : ~IsReady(e)
    \/ \E c \in Cores :
        \/ \E e \in ToSet(axon_lookup_pipeline[c]) : ~IsReady(e)
        \/ \E e \in ToSet(contribution_pipeline[c]) : ~IsReady(e)
        \/ \E e \in neuron_pipeline[c] : ~IsReady(e)

\* Cycles without progress and without a pipeline to wait for are counted.
CheckDeadlock(progress) ==
    /\ no_progress_cycles' =
          IF progress \/ FutureTransition' THEN 0 ELSE no_progress_cycles + 1
    /\ error' = IF no_progress_cycles' > deadlock_detection_threshold
                THEN "deadlock" ELSE "none"

\* run_until_quiescent calls step_cycle while there is a tick below its limit.
HasWork ==
    tick_active \/ (/\ ~OmittedTick
                    /\ NextPendingTick # NoTick
                    /\ NextPendingTick < MaxTick)

StepCycle ==
    /\ error = "none"
    /\ HasWork
    /\ logical_tick' = CurrentTick
    /\ explicit_tick_ids' = IF explicit_ticks /\ ~tick_active
                            THEN Tail(explicit_tick_ids) ELSE explicit_tick_ids
    /\ UNCHANGED <<explicit_ticks, hostVars>>
    /\ \E g \in GrantSeqs :
        /\ IsArbitration(g)
        /\ MoveNetwork(g)
        /\ MoveNeurons
        /\ MoveContributions
        /\ MoveEvents
        /\ \/ AdvanceControl /\ CheckDeadlock(TRUE)
           \/ StayInPhase /\ CheckDeadlock(Transfers(g))

\* _next_pending_logical_tick raises ValueError.
RaiseOmittedTick ==
    /\ error = "none"
    /\ ~tick_active /\ OmittedTick
    /\ error' = "omitted tick"
    /\ UNCHANGED <<logical_tick, phase, tick_active, last_completed_tick,
                   explicit_ticks, explicit_tick_ids, no_progress_cycles,
                   hostVars, source_index, next_event_id, external_ingress_fifo,
                   coreVars, router_input_fifos, networkVars, resultVars>>

\* Nothing left to do: step_cycle returns False.
Quiescent == ~tick_active /\ ~OmittedTick /\ ~HasWork

StepIdle ==
    /\ error = "none"
    /\ Quiescent
    /\ UNCHANGED vars

-----------------------------------------------------------------------------
(* The host: load_input_source, load_logical_ticks, present_input,         *)
(* close_inputs and inject_router_packet, between two cycles.  A call that *)
(* is refused (INVALID, LATE, BACKPRESSURED, ValueError) is no step: all it *)
(* can leave behind is a gap in the event identifiers.                     *)

\* _validate_external_event and _validate_packet: the core and the axon exist (a packet
\* is not asked for its axon), and the numbers are those of the packet format.
IsInputEvent(e) ==
    /\ e.core \in Cores /\ e.axon \in Axons(e.core)
    /\ e.timestamp \in Nat /\ e.priority \in Nat
IsPacket(p) == p.source \in Cores /\ p.core \in Cores /\ p.priority \in Nat

\* _to_cycle_input, with the identifier the machine allocates.
CycleInput(e, id) ==
    [event_id |-> id, timestamp |-> e.timestamp, core |-> e.core, axon |-> e.axon,
     priority |-> e.priority]

LoadInputSource(events) ==
    /\ source_events = <<>>
    /\ \A i \in DOMAIN events : IsInputEvent(events[i])
    /\ \A i \in 2 .. Len(events) : events[i - 1].timestamp <= events[i].timestamp
    /\ source_events' = [i \in DOMAIN events |-> CycleInput(events[i], next_event_id + i - 1)]
    /\ next_event_id' = next_event_id + Len(events)
    /\ inputs_closed' = TRUE
    /\ UNCHANGED <<controlVars, source_index, external_ingress_fifo, coreVars,
                   router_input_fifos, networkVars, resultVars>>

LoadLogicalTicks(ticks) ==
    /\ ~tick_active /\ ~explicit_ticks
    /\ \A i \in 2 .. Len(ticks) : ticks[i - 1] < ticks[i]
    /\ \A e \in ToSet(source_events) : e.timestamp \in ToSet(ticks)
    /\ explicit_ticks' = TRUE
    /\ explicit_tick_ids' = ticks
    /\ UNCHANGED <<logical_tick, phase, tick_active, last_completed_tick,
                   no_progress_cycles, error, hostVars, source_index,
                   next_event_id, external_ingress_fifo, coreVars,
                   router_input_fifos, networkVars, resultVars>>

\* Mutation: no event is LATE.
PresentLate(e) ==
    /\ ~inputs_closed
    /\ Len(external_ingress_fifo[e.core]) < external_ingress_fifo_depth
    /\ external_ingress_fifo' = [external_ingress_fifo EXCEPT ![e.core] =
          Append(@, CycleInput(e, next_event_id))]
    /\ next_event_id' = next_event_id + 1
    /\ UNCHANGED <<controlVars, hostVars, source_index, coreVars,
                   router_input_fifos, networkVars, resultVars>>

PresentInput(e) ==
    /\ IsInputEvent(e)
    /\ ~inputs_closed
    /\ e.timestamp > last_completed_tick
    /\ tick_active => e.timestamp >= logical_tick
    /\ Len(external_ingress_fifo[e.core]) < external_ingress_fifo_depth
    /\ external_ingress_fifo' = [external_ingress_fifo EXCEPT ![e.core] =
          Append(@, CycleInput(e, next_event_id))]
    /\ next_event_id' = next_event_id + 1
    /\ UNCHANGED <<controlVars, hostVars, source_index, coreVars,
                   router_input_fifos, networkVars, resultVars>>

CloseInputs ==
    /\ ~inputs_closed
    /\ inputs_closed' = TRUE
    /\ UNCHANGED <<controlVars, source_events, source_index, next_event_id,
                   external_ingress_fifo, coreVars, router_input_fifos,
                   networkVars, resultVars>>

InjectRouterPacket(p) ==
    /\ IsPacket(p)
    /\ Len(router_input_fifos[p.source]) < router_input_fifo_depth
    /\ router_input_fifos' = [router_input_fifos EXCEPT ![p.source] = Append(@, p)]
    /\ next_event_id' = Max({next_event_id, p.event_id + 1})
    /\ UNCHANGED <<controlVars, hostVars, source_index, external_ingress_fifo,
                   coreVars, networkVars, resultVars>>

-----------------------------------------------------------------------------
(* Specifications: the machine is used in batch (run_cycle_model loads the *)
(* source of a fresh machine and runs it), live (events are presented      *)
(* between cycles), or by a harness that also places router packets.       *)

Init ==
    /\ logical_tick = 0 /\ phase = "work" /\ tick_active = FALSE
    /\ last_completed_tick = NoTick
    /\ explicit_ticks = FALSE /\ explicit_tick_ids = <<>>
    /\ no_progress_cycles = 0 /\ error = "none"
    /\ source_events = <<>> /\ source_index = 0
    /\ inputs_closed = FALSE /\ next_event_id = 0
    /\ external_ingress_fifo = [c \in Cores |-> <<>>]
    /\ routed_ingress_fifo = [c \in Cores |-> <<>>]
    /\ ingress_round_robin_pointer = [c \in Cores |-> 0]
    /\ axon_lookup_pipeline = [c \in Cores |-> <<>>]
    /\ synapse_work_fifo = [c \in Cores |-> <<>>]
    /\ contribution_pipeline = [c \in Cores |-> <<>>]
    /\ delayed_contribution_fifo = [c \in Cores |-> {}]
    /\ accumulators = [c \in Cores |-> [n \in Neurons(c) |-> 0]]
    /\ affected = [c \in Cores |-> {}]
    /\ neuron = InitialState
    /\ neuron_pending = [c \in Cores |-> {}]
    /\ neuron_work_fifo = [c \in Cores |-> {}]
    /\ neuron_pipeline = [c \in Cores |-> {}]
    /\ spike_fifo = [c \in Cores |-> <<>>]
    /\ packetizer_work = [c \in Cores |-> <<>>]
    /\ packet_pipeline = {}
    /\ router_input_fifos = [c \in Cores |-> <<>>]
    /\ router_output_fifos = [c \in Cores |-> <<>>]
    /\ router_round_robin_pointer = 0
    /\ logical_spikes = <<>> /\ logical_packets = <<>>
    /\ events_admitted = 0 /\ packets_admitted = 0

Fresh == ~tick_active /\ last_completed_tick = NoTick

Run == StepCycle \/ RaiseOmittedTick \/ StepIdle

BatchNext ==
    \/ Fresh /\ \E events \in Sources : LoadInputSource(events)
    \/ Fresh /\ inputs_closed /\ \E ticks \in TickLists : LoadLogicalTicks(ticks)
    \/ Run

Presented ==
    MapThenSumSet(LAMBDA c : Len(external_ingress_fifo[c]), Cores) + events_admitted

LiveNext ==
    \/ Presented < MaxEvents /\ \E e \in HostEvents : PresentInput(e)
    \/ CloseInputs
    \/ Run

HarnessNext ==
    \/ LiveNext
    \/ \E p \in HostPackets : p.event_id >= next_event_id /\ InjectRouterPacket(p)

BatchSpec == Init /\ [][BatchNext]_vars
LiveSpec == Init /\ [][LiveNext]_vars
HarnessSpec == Init /\ [][HarnessNext]_vars

\* run_until_quiescent is a loop around step_cycle: a cycle that can run does, and a
\* check that raises is reached.
FairBatchSpec == BatchSpec /\ WF_vars(Run)
FairLiveSpec == LiveSpec /\ WF_vars(Run)
=============================================================================
