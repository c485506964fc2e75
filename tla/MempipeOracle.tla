---------------------------- MODULE MempipeOracle ----------------------------
(***************************************************************************)
(* The cycle oracle of the mempipe profile (mini_loihi/mempipe_cycle.py):  *)
(* it adds up the cycles of a tick, and replays the spike FIFO lazily, at  *)
(* the commits only.                                                       *)
(***************************************************************************)
EXTENDS PipelineOracle

\* The cycle at which the k-th event's axon is looked up.
RequestCycle(fixture, events, k) == IngressCompleteCycle(fixture, SubSeq(events, 1, k - 1))

\* The cycles at which the events are accepted: the first two back to back, a later one
\* at the look-up of the one before it.
AcceptCycles(fixture, events) ==
    [k \in DOMAIN events |->
        CASE k = 1 -> 0
          [] k = 2 -> 1
          [] OTHER -> RequestCycle(fixture, events, k - 1)]

\* advance_fifo_before: the consumer took a spike in every cycle since the last one
\* looked at, from the end of the stall on.
AdvanceFifoBefore(m, target_cycle, stall) ==
    LET served == Cardinality({c \in m.last + 1 .. target_cycle - 1 : c >= stall})
    IN  [m EXCEPT !.occupancy = IF served > @ THEN 0 ELSE @ - served,
                  !.last = target_cycle - 1]

\* attempt_commit, with the FIFO brought up to date: the state after the cycle.
AttemptCommit(m, commit_cycle, emits_spike, stall) ==
    LET now == AdvanceFifoBefore(m, commit_cycle, stall)
        can_enqueue == now.occupancy < SpikeDepth
    IN  [now EXCEPT
            !.occupancy = @ + One(emits_spike /\ can_enqueue)
                            - One(now.occupancy > 0 /\ commit_cycle >= stall),
            !.last = commit_cycle,
            !.committed = ~emits_spike \/ can_enqueue]

RECURSIVE CommitFrom(_, _, _, _)
CommitFrom(m, commit_cycle, emits_spike, stall) ==
    LET attempt == AttemptCommit(m, commit_cycle, emits_spike, stall)
    IN  IF attempt.committed THEN attempt
        ELSE CommitFrom(attempt, commit_cycle + 1, emits_spike, stall)

\* The neurons from n on, the scanner being at scan_cycle.
RECURSIVE ScanFrom(_, _, _, _, _)
ScanFrom(m, n, update, count, stall) ==
    IF n > count THEN m
    ELSE IF n \notin update.touched
    THEN ScanFrom([m EXCEPT !.cycle = @ + 1], n + 1, update, count, stall)
    ELSE LET commit == CommitFrom(m, m.cycle + 2, n \in update.spikes, stall)
         IN  ScanFrom([commit EXCEPT !.cycle = commit.last + 1,
                          !.issues = Append(@, m.cycle),
                          !.writebacks = Append(@, commit.last)],
                      n + 1, update, count, stall)

\* The tick is complete when the FIFO has been found empty.
RECURSIVE DrainFrom(_, _, _)
DrainFrom(m, complete_cycle, stall) ==
    LET now == AdvanceFifoBefore(m, complete_cycle, stall)
    IN  IF now.occupancy = 0 THEN complete_cycle
        ELSE DrainFrom(AttemptCommit(now, complete_cycle, FALSE, stall), complete_cycle + 1, stall)

MempipeTick(fixture, t, stall) ==
    LET count == Len(fixture.params)
        events == fixture.ticks[t].events
        update == TickUpdate(fixture, NeuronsAfter(fixture, t - 1), t)
        m == ScanFrom([cycle |-> update.scan, occupancy |-> 0, last |-> -1, committed |-> FALSE,
                       issues |-> <<>>, writebacks |-> <<>>], 1, update, count, stall)
    IN  [accepts |-> AcceptCycles(fixture, events),
         issues |-> m.issues, writebacks |-> m.writebacks, total |-> count + 1,
         cycles |-> DrainFrom(m, m.cycle + 1, stall) + 1]
=============================================================================
