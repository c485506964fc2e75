----------------------------- MODULE PipelineOracle ----------------------------
(***************************************************************************)
(* The cycle oracles of the lifpipe and readycut profiles                  *)
(* (mini_loihi/lifpipe_cycle.py, mini_loihi/readycut_cycle.py):            *)
(* a functional simulation of the same core, which knows the payload of    *)
(* every touched neuron in advance and only replays the schedule.  A stage *)
(* holds the number of a neuron, or 0.                                     *)
(***************************************************************************)
EXTENDS NeuronUpdate, Sequences, FiniteSetsExt

CONSTANTS SpikeDepth        \* profile_stage_spike_depth()

\* The sums and the touched neurons of a tick's events.
Touches(fixture, events) ==
    UNION {{fixture.fanout[events[i].axon][a].target : a \in DOMAIN fixture.fanout[events[i].axon]}
           : i \in DOMAIN events}
Accumulators(fixture, events) ==
    [n \in DOMAIN fixture.params |->
        MapThenSumSet(LAMBDA i :
            MapThenSumSet(LAMBDA a : fixture.fanout[events[i].axon][a].weight * events[i].payload,
                {a \in DOMAIN fixture.fanout[events[i].axon] :
                    fixture.fanout[events[i].axon][a].target = n}),
            DOMAIN events)]

\* The cycle after the last accumulation: two cycles per axon, two per pair of
\* synapses, one per synapse.
IngressCompleteCycle(fixture, events) ==
    IF events = <<>> THEN 0
    ELSE 1 + MapThenSumSet(LAMBDA i :
             LET length == Len(fixture.fanout[events[i].axon])
             IN  2 + 2 * ((length + 1) \div 2) + length,
             DOMAIN events)

\* The result of a touched neuron's update.
NeuronPayload(p, s, accumulator, tick) ==
    LET decayed   == move_toward_zero(s.voltage, p.leak * (tick - s.last_update))
        candidate == narrow_to_format(decayed + narrow_to_format(accumulator, AccumulatorFormat),
                                      MembraneFormat)
        spike     == candidate >= p.threshold
    IN  [spike |-> spike, voltage |-> IF spike THEN p.reset ELSE candidate]

\* The schedule of a tick, before its first cycle.
BeforeTick == [cycle |-> 0, controller |-> "PRE_SCAN", cursor |-> 1, stages |-> <<0, 0, 0, 0, 0, 0>>,
               cut |-> <<>>, cut_ready |-> TRUE, occupancy |-> 0,
               issues |-> <<>>, writebacks |-> <<>>, full |-> 0, backpressure |-> 0, total |-> 0]

\* The controller enters the scan at its cycle.
Entered(o, scan_first_cycle) ==
    IF o.cycle = scan_first_cycle THEN [o EXCEPT !.controller = "SCAN"] ELSE o

\* Stage k (1 for N0) is ready: ready(last) is the exit condition of the chain.
StageReady(o, k, last, exit) == exit \/ \E j \in k .. last : o.stages[j] = 0

Exit(o, spikes) == o.stages[6] = 0 \/ o.stages[6] \notin spikes \/ o.occupancy < SpikeDepth

\* The scanner: skips an untouched neuron, issues a touched one when N0 is ready.
Scan(o, touched, n0_ready, count) ==
    IF o.controller # "SCAN" \/ o.cursor > count THEN [cursor |-> o.cursor, issue |-> 0]
    ELSE IF o.cursor \notin touched THEN [cursor |-> o.cursor + 1, issue |-> 0]
    ELSE IF n0_ready THEN [cursor |-> o.cursor + 1, issue |-> o.cursor]
    ELSE [cursor |-> o.cursor, issue |-> 0]

\* The controller after the cycle; "DONE" is tick_complete_cycle being set.
Controller(o, count) ==
    CASE o.controller = "SCAN" /\ o.cursor > count -> "DRAIN"
      [] o.controller = "DRAIN" /\ o.cut = <<>> /\ \A k \in 1 .. 6 : o.stages[k] = 0 -> "SPIKE_DRAIN"
      [] o.controller = "SPIKE_DRAIN" /\ o.occupancy = 0 -> "DONE"
      [] OTHER -> o.controller

One(condition) == IF condition THEN 1 ELSE 0

\* The utilization counters of the cycle, from the stages at its start.
Counted(o, ready, issue, commits) ==
    LET counting == o.controller \in {"SCAN", "DRAIN"}
        held == \E k \in 1 .. 6 : o.stages[k] # 0 /\ ~ready[k]
    IN  [o EXCEPT !.cycle = @ + 1,
            !.issues = IF issue # 0 THEN Append(@, o.cycle) ELSE @,
            !.writebacks = IF commits THEN Append(@, o.cycle) ELSE @,
            !.full = @ + One(counting /\ \A k \in 1 .. 6 : o.stages[k] # 0),
            !.backpressure = @ + One(counting /\ held),
            !.total = @ + One(counting)]

\* The spike FIFO takes a retiring spike and gives one to a ready consumer.
Occupied(o, spikes, commits, spike_ready) ==
    o.occupancy + One(commits /\ o.stages[6] \in spikes) - One(o.occupancy > 0 /\ spike_ready)

\* One cycle of the schedule of a tick s: what it touched, which of those spike, the
\* cycle in which the scan starts, the number of neurons, and spike_ready, the ready
\* signal by cycle.
LifpipeCycle(old, s) ==
    LET o == Entered(old, s.scan)
        ready == [k \in 1 .. 6 |-> StageReady(o, k, 6, Exit(o, s.spikes))]
        scan == Scan(o, s.touched, ready[1], s.count)
        commits == o.stages[6] # 0 /\ ready[6]
    IN  [Counted(o, ready, scan.issue, commits) EXCEPT
            !.controller = Controller(o, s.count),
            !.cursor = scan.cursor,
            !.occupancy = Occupied(o, s.spikes, commits, s.spike_ready[o.cycle]),
            !.stages = [k \in 1 .. 6 |-> IF ~ready[k] THEN o.stages[k]
                                         ELSE IF k = 1 THEN scan.issue ELSE o.stages[k - 1]]]

\* The neurons after a tick, with what the tick touched and which of them spiked.
TickUpdate(fixture, neurons, t) ==
    LET tick == fixture.ticks[t]
        touched == Touches(fixture, tick.events)
        sums == Accumulators(fixture, tick.events)
        payload == [n \in touched |->
                       NeuronPayload(fixture.params[n], neurons[n], sums[n], tick.id)]
    IN  [touched |-> touched, spikes |-> {n \in touched : payload[n].spike},
         scan |-> IngressCompleteCycle(fixture, tick.events) + 2,
         neurons |-> [n \in DOMAIN neurons |->
             IF n \in touched THEN [voltage |-> payload[n].voltage, last_update |-> tick.id]
             ELSE neurons[n]]]

InitialNeurons(fixture) ==
    [n \in DOMAIN fixture.params |-> [voltage |-> fixture.voltage[n], last_update |-> 0]]

RECURSIVE NeuronsAfter(_, _)
NeuronsAfter(fixture, t) ==
    IF t = 0 THEN InitialNeurons(fixture)
    ELSE TickUpdate(fixture, NeuronsAfter(fixture, t - 1), t).neurons

-----------------------------------------------------------------------------
(* The readycut schedule: a two-entry registered cut between N2 and N3.    *)

\* The consumer's ready signal: windows and alternation.
ScheduledReady(cycle, start, length, alternating) ==
    IF alternating /\ cycle >= start THEN (cycle - start) % 2 = 1
    ELSE ~(start <= cycle /\ cycle < start + length)

\* The stages behind the cut wait for its in_ready register, those after it for N5.
CutStageReady(o, k, spikes) ==
    IF k > 3 THEN StageReady(o, k, 6, Exit(o, spikes)) ELSE StageReady(o, k, 3, o.cut_ready)

CutAfter(o, enqueue, dequeue) ==
    [cut |-> (IF dequeue THEN Tail(o.cut) ELSE o.cut) \o (IF enqueue THEN <<o.stages[3]>> ELSE <<>>),
     ready |-> CASE enqueue /\ ~dequeue -> Len(o.cut) < 1
                 [] dequeue /\ ~enqueue -> TRUE
                 [] OTHER -> Len(o.cut) < 2]

ReadycutCycle(old, s) ==
    LET o == Entered(old, s.scan)
        ready == [k \in 1 .. 6 |-> CutStageReady(o, k, s.spikes)]
        scan == Scan(o, s.touched, ready[1], s.count)
        commits == o.stages[6] # 0 /\ ready[6]
        dequeue == o.cut # <<>> /\ ready[4]
        cut == CutAfter(o, o.stages[3] # 0 /\ o.cut_ready, dequeue)
        loaded(k) == CASE k = 1 -> scan.issue
                       [] k = 4 -> IF dequeue THEN Head(o.cut) ELSE 0
                       [] OTHER -> o.stages[k - 1]
    IN  [Counted(o, ready, scan.issue, commits) EXCEPT
            !.controller = Controller(o, s.count),
            !.cursor = scan.cursor,
            !.occupancy = Occupied(o, s.spikes, commits, s.spike_ready[o.cycle]),
            !.cut = cut.cut, !.cut_ready = cut.ready,
            !.stages = [k \in 1 .. 6 |-> IF ready[k] THEN loaded(k) ELSE o.stages[k]]]

-----------------------------------------------------------------------------
(* The ticks.                                                              *)

Schedule(fixture, t, spike_ready, cut) ==
    LET update == TickUpdate(fixture, NeuronsAfter(fixture, t - 1), t)
    IN  [touched |-> update.touched, spikes |-> update.spikes, scan |-> update.scan,
         count |-> Len(fixture.params), spike_ready |-> spike_ready, cut |-> cut]

\* The schedule is stepped until the tick completes, or for as many cycles as spike_ready
\* gives, which stands for the oracles' limit of a million cycles.
RECURSIVE RunSchedule(_, _)
RunSchedule(o, s) ==
    IF o.controller = "DONE" \/ o.cycle \notin DOMAIN s.spike_ready THEN o
    ELSE RunSchedule(IF s.cut THEN ReadycutCycle(o, s) ELSE LifpipeCycle(o, s), s)

\* The schedule of the t-th tick.
LifpipeTick(fixture, t, spike_ready) ==
    RunSchedule(BeforeTick, Schedule(fixture, t, spike_ready, FALSE))
ReadycutTick(fixture, t, spike_ready) ==
    RunSchedule(BeforeTick, Schedule(fixture, t, spike_ready, TRUE))
=============================================================================
