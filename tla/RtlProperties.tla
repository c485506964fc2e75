---------------------------- MODULE RtlProperties ----------------------------
(***************************************************************************)
(* What the RTL cores are checked for: against the reference semantics, as *)
(* a refinement, and against the cycle oracles, as mempipe_verify.py,      *)
(* lifpipe_verify.py and readycut_verify.py compare them.                  *)
(***************************************************************************)
EXTENDS RtlCore, SequencesExt

CONSTANT Bound      \* the oracles' limit of cycles

Oracle == INSTANCE PipelineOracle
Mempipe == INSTANCE MempipeOracle

\* What the oracle of the profile says of a tick.
Predicted(t) ==
    CASE setting.profile = "mempipe" -> Mempipe!MempipeTick(fixture, t, setting.stall.length)
      [] setting.profile = "lifpipe" ->
            Oracle!LifpipeTick(fixture, t, [at \in 0 .. Bound |-> SpikeReady(at)])
      [] setting.profile = "readycut" ->
            Oracle!ReadycutTick(fixture, t,
                [at \in 0 .. Bound |->
                    Oracle!ScheduledReady(at, setting.stall.start, setting.stall.length,
                                          setting.stall.kind = "alternating")])

\* The comparisons of the verification drivers: final state, tick cycles with the
\* traced issues and writebacks, utilization.
functional == [n \in Neurons |-> ram[n]] = Oracle!NeuronsAfter(fixture, begun)
mempipe_cycle(p) ==
    /\ cycle = p.cycles /\ trace.total = p.total
    /\ trace.accepts = p.accepts /\ trace.issues = p.issues /\ trace.writebacks = p.writebacks
pipeline_cycle(p) ==
    /\ cycle = p.cycle /\ trace.issues = p.issues /\ trace.writebacks = p.writebacks
utilization(p) ==
    trace.full = p.full /\ trace.backpressure = p.backpressure /\ trace.total = p.total

\* At the end of every tick the core and the oracle agree: on the neurons, on the
\* number of cycles, on the cycle of every issue and every writeback, on the
\* utilization.
OraclePredicts ==
    state = "TICK_DONE" /\ Scheduled =>
        /\ functional
        /\ LET p == Predicted(begun)
           IN  IF setting.profile = "mempipe" THEN mempipe_cycle(p)
               ELSE pipeline_cycle(p) /\ utilization(p)

\* Every tick that is offered is completed, however spikes and stalls are spread, if
\* the consumer does not refuse spikes for ever.
TicksComplete == <>[](state = "IDLE" /\ begun = Len(fixture.ticks))

Consecutive(values) == \A i \in 1 .. Len(values) - 1 : values[i + 1] = values[i] + 1

\* The throughput the pipelines were built for (run_dense_lifpipe_throughput,
\* run_dense_readycut_throughput): when all neurons but the first are touched, none
\* spikes and nothing stalls, one neuron is issued and one committed in every cycle;
\* the first comes out after the six stages, one cycle later with the cut.
fill_latency == trace.writebacks[1] - trace.issues[1]
SteadyRate ==
    state = "TICK_DONE" /\ Scheduled /\ setting.dense /\ setting.profile # "mempipe" =>
        /\ Len(trace.issues) = Len(fixture.params) - 1
        /\ Len(trace.writebacks) = Len(fixture.params) - 1
        /\ Consecutive(trace.issues) /\ Consecutive(trace.writebacks)
        /\ trace.full > 0 /\ trace.backpressure = 0
        /\ fill_latency = IF setting.profile = "readycut" THEN 7 ELSE 6
=============================================================================
