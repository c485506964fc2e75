-------------------------- MODULE ReferenceReplay ---------------------------
(***************************************************************************)
(* Two runs of the reference machine on the same events.  The online one   *)
(* receives them a few at a time between its ticks and may be driven       *)
(* through idle ticks (inject, step, run_ticks); the batch one receives    *)
(* them all before its first tick and only processes the pending ticks     *)
(* (run_compiled_program).  The programs and the event lists are those of    *)
(* Programs.                                                               *)
(***************************************************************************)
EXTENDS ReferenceMachine, Programs

CONSTANT batch_fifo_depth   \* holds all the events

VARIABLES
    stage,      \* "online" or "batch"
    history,    \* the events of the online run, in injection order
    b_input_events, b_routed_packets, b_delayed_contributions, b_neuron,
    b_last_processed_tick, b_last_injected_timestamp, b_spikes, b_packets

batchVars == <<b_input_events, b_routed_packets, b_delayed_contributions, b_neuron,
               b_last_processed_tick, b_last_injected_timestamp, b_spikes, b_packets>>

Batch == INSTANCE ReferenceMachine WITH
    event_input_fifo_depth <- batch_fifo_depth,
    input_events <- b_input_events,
    routed_packets <- b_routed_packets,
    delayed_contributions <- b_delayed_contributions,
    neuron <- b_neuron,
    last_processed_tick <- b_last_processed_tick,
    last_injected_timestamp <- b_last_injected_timestamp,
    spikes <- b_spikes,
    packets <- b_packets

ReplayInit == Init /\ Batch!Init /\ stage = "online" /\ history = <<>>

OnlineStep ==
    /\ stage = "online"
    /\ \/ \E events \in EventLists : Inject(events) /\ history' = history \o events
       \/ \E t \in 0 .. TickLimit - 1 : ProcessTick(t) /\ UNCHANGED history
    /\ UNCHANGED <<stage, batchVars>>

\* The caller stops the online run and starts the batch run.
Load ==
    /\ stage = "online"
    /\ stage' = "batch"
    /\ IF history = <<>> THEN UNCHANGED batchVars ELSE Batch!Inject(history)
    /\ UNCHANGED <<vars, history>>

\* run_until with the online run's tick as its bound.
BatchStep ==
    /\ stage = "batch"
    /\ Batch!Pending # {}
    /\ LET next == Min({x.timestamp : x \in Batch!Pending})
       IN  next <= last_processed_tick /\ Batch!ProcessTick(next)
    /\ UNCHANGED <<vars, stage, history>>

ReplaySpec ==
    ReplayInit /\ [][OnlineStep \/ Load \/ BatchStep]_<<vars, stage, history, batchVars>>

\* When the batch run has caught up it agrees with the online run: what the
\* machine computes does not depend on when its caller injected an event, on how
\* the events were grouped, or on idle ticks (lazy decay equals stepping through).
OnlineEqualsBatch ==
    stage = "batch" /\ (\A x \in Batch!Pending : x.timestamp > last_processed_tick) =>
        /\ b_input_events = input_events
        /\ b_routed_packets = routed_packets
        /\ b_delayed_contributions = delayed_contributions
        /\ b_neuron = neuron
        /\ b_spikes = spikes
        /\ b_packets = packets
=============================================================================
