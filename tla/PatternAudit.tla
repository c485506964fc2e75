----------------------------- MODULE PatternAudit -----------------------------
(* The diagnostics of stability_audit.py over the trials of PatternTask, and *)
(* what the experiment promises.  A ratio is compared by multiplying out.    *)
EXTENDS PatternTask, FiniteSetsExt

\* Trials as evaluated before, trained and evaluated after.
Done == pc = "start" /\ trial > Len(Schedule)
Trained == SelectSeq(results, LAMBDA r : r.training)
CorrectBefore == Cardinality({i \in 1 .. Len(Before) : results[i].correct})
CorrectAfter == Cardinality({i \in Len(results) - 1 .. Len(results) : results[i].correct})

\* _population_stats: spikes of a population, and whether all of it was silent.
SpikeCount(spikes, ids) == Len(SelectSeq(spikes, LAMBDA s : s.source \in ToSet(ids)))
AllSilent(spikes, ids) == SpikeCount(spikes, ids) = 0

TotalSpikes ==
    FoldSeq(LAMBDA r, n : n + SpikeCount(r.input, Inputs) + SpikeCount(r.hidden, Hidden)
                            + SpikeCount(r.output, Outputs), 0, Trained)
OutputSpikes == [i \in DOMAIN Trained |-> SpikeCount(Trained[i].output, Outputs)]

\* The spike rates are per neuron (two in each population) and time step of a trial.
RateIsZero == TotalSpikes = 0
RateIsHigh == 2 * TotalSpikes > 3 * 2 * Spacing * Len(Trained)
HiddenSilence == \A i \in DOMAIN Trained : AllSilent(Trained[i].hidden, Hidden)
OutputSilence == Trained # <<>> /\ AllSilent(Trained[Len(Trained)].output, Outputs)

\* rolling_accuracy over the last five trials is at least 3/4 after trial i.
RollingIsHigh(i) ==
    LET recent == {j \in 1 .. i : j > i - 5}
    IN  4 * Cardinality({j \in recent : Trained[j].correct}) >= 3 * Cardinality(recent)

ClampedUpdates == FoldSeq(LAMBDA r, n : n + r.clamped, 0, Trained)
Weights == {synapses[i].weight : i \in {j \in Addresses : synapses[j].plastic}}

\* A tenth or less of the output spikes outside the trial with the most of them.
Dominated ==
    LET total == FoldSeq(+, 0, OutputSpikes)
    IN  total > 0 /\ 10 * Max(Range(OutputSpikes)) >= 9 * total

AccuracyIsHigh == 4 * CorrectAfter >= 3 * 2

\* classify_stability: the first of its labels that fits.
Stability ==
    LET labels ==
          << <<RateIsZero \/ HiddenSilence, "silent_network">>,
             <<RateIsHigh, "spike_explosion">>,
             <<Min(Weights) <= WMin \/ Max(Weights) >= WMax \/ ClampedUpdates > 0,
               "weight_saturation">>,
             <<Dominated /\ ~AccuracyIsHigh, "output_collapse">>,
             <<AccuracyIsHigh /\ \E i \in DOMAIN Trained : RollingIsHigh(i), "stable_learning">>,
             <<TRUE, "no_learning">> >>
    IN  SelectSeq(labels, LAMBDA l : l[1])[1][2]

\* evaluate_guardrails: every warning that fits.
Guardrails ==
    {w \in {"clamped_updates", "weight_near_int8_limit", "output_collapse",
            "hidden_silence", "output_silence", "spike_explosion", "stability"} :
        \/ w = "clamped_updates" /\ ClampedUpdates > 0
        \/ w = "weight_near_int8_limit" /\ (Min(Weights) <= -120 \/ Max(Weights) >= 120)
        \/ w = "output_collapse" /\ Dominated
        \/ w = "hidden_silence" /\ HiddenSilence
        \/ w = "output_silence" /\ OutputSilence
        \/ w = "spike_explosion" /\ RateIsHigh
        \/ w = "stability" /\ Stability # "stable_learning"}

------------------------------------------------------------------------------
\* The evaluation is dated long after every training trial, and the traces of a synapse
\* remember the time they were last used; yet no trial finds a synapse updated after it
\* (_decay_synapse_to_time never raises), since an evaluation does not touch the traces.
NeverStale == ~raised

\* With both decays on, credit does not leak from one trial to the next: a reward only
\* moves the weights of synapses that a spike of this trial crossed, although the traces
\* of all of them live on in the template (pattern_task.py:272-291).
CreditIsOwn ==
    [][template.traceDecay > 0 /\ template.eligibilityDecay > 0 =>
         \A i \in Addresses :
             synapses'[i].weight # synapses[i].weight => i \in crossed]_vars

\* A positive reward never weakens a synapse and a negative one never strengthens it,
\* whatever decay and saturation do to the traces before (PLASTICITY.md).
RewardMovesRight ==
    [][\A i \in Addresses :
         /\ synapses'[i].weight > synapses[i].weight => reward > 0
         /\ synapses'[i].weight < synapses[i].weight => reward < 0]_vars

\* The documented results: the stable preset goes from one to two correct answers with
\* no clamped weight and no warning (README.md:106-111); without a learning rate nothing
\* changes; the stress preset is diagnosed as saturated (REFERENCE_RESULTS.json:42-47).
PresetsBehave ==
    Done =>
        /\ template.name = "stable" =>
            /\ CorrectBefore = 1 /\ CorrectAfter = 2 /\ ClampedUpdates = 0
            /\ Stability = "stable_learning" /\ Guardrails = {}
        /\ template.name = "no_learning_control" =>
            /\ CorrectAfter = CorrectBefore /\ Stability = "no_learning"
            /\ \A i \in Addresses : synapses[i].weight = Circuit[i][3]
        /\ template.name = "saturation_stress" => Stability = "weight_saturation"

-----------------------------------------------------------------------------
(* The values of the constants: every preset with the numbers of trials    *)
(* the repository runs it with, and the whole parameter sweep.             *)

EveryTemplate == LearningPresets(8) \cup LearningPresets(12) \cup LearningPresets(20)
                 \cup ParameterSweep
Int16Min == -32768
Int8Min == -128
=============================================================================
