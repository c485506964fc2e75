----------------------------- MODULE PatternTask -----------------------------
(***************************************************************************)
(* The V2 experiment: run_training_experiment of pattern_task.py and its   *)
(* audited twin in stability_audit.py, on one core of core.py.  Pattern A  *)
(* should make the first output neuron spike most, pattern B the second.   *)
(* The weights and traces live in the template's synapse memory and        *)
(* survive from trial to trial; voltages, queues and the core's clock are  *)
(* those of a core built anew for every trial.  The experiment evaluates   *)
(* (without learning, dated far in the future), trains, evaluates again.   *)
(***************************************************************************)
EXTENDS EventCore, Sequences, FiniteSets, SequencesExt

CONSTANTS
    Templates,      \* the templates tried: records of Preset
    Seeds,          \* the seeds of the label sequence
    Spacing,        \* trial_spacing
    RewardDelay     \* reward_delay

\* LEARNING_PRESETS, with the number of training trials.
Preset(name, rate, traceDecay, eligibilityDecay, reward, threshold, trials) ==
    [name |-> name, rate |-> rate, traceDecay |-> traceDecay,
     eligibilityDecay |-> eligibilityDecay, reward |-> reward, threshold |-> threshold,
     trials |-> trials]

LearningPresets(trials) ==
    {Preset("stable", 1, 1, 1, 2, 10, trials), Preset("aggressive", 1, 0, 1, 1, 10, trials),
     Preset("no_learning_control", 0, 1, 1, 1, 10, trials),
     Preset("saturation_stress", 2, 0, 0, 2, 10, trials)}

\* run_parameter_sweep: eight trials of every combination.
ParameterSweep ==
    {Preset("sweep", rate, traceDecay, eligibilityDecay, reward, threshold, 8) :
        rate \in {1, 2}, traceDecay \in {0, 1}, eligibilityDecay \in {0, 1},
        reward \in {1, 2}, threshold \in {10, 11}}

Inputs == <<1, 2>>
Hidden == <<3, 4>>
Outputs == <<5, 6>>

\* build_microcircuit_template: <<source, target, weight, plastic>> in address order.
Circuit == << <<1, 3, 12, FALSE>>, <<2, 4, 12, FALSE>>,
              <<3, 5, 12, TRUE>>, <<3, 6, 9, TRUE>>,
              <<4, 6, 9, TRUE>>, <<4, 5, 12, TRUE>> >>
Addresses == DOMAIN Circuit
FanoutOf(source) == {i \in Addresses : Circuit[i][1] = source}

VARIABLES
    template, seed,
    synapses,       \* template.synapse_memory
    trial,          \* the trial of the schedule that runs or is next
    pc,             \* what the trial does next
    inputs,         \* input events of the trial still to be pushed
    voltage, inQueue, outQueue,     \* the trial's core
    outputs,        \* output_events: spikes of the output neurons
    hidden,         \* hidden_events: spikes of the hidden neurons
    reward,         \* the reward the trial earned
    raised,         \* some call raised ValueError: the experiment is over
    results,        \* one record per finished trial
    crossed         \* history: plastic synapses an event of this trial crossed

vars == <<template, seed, synapses, trial, pc, inputs, voltage, inQueue, outQueue,
          outputs, hidden, reward, raised, results, crossed>>

------------------------------------------------------------------------------
\* _make_label_sequence: A and B in turn, rotated by one for an odd seed.
Labels(n) == [i \in 1 .. n |-> IF i % 2 = 1 THEN "A" ELSE "B"]
LabelSequence(n) ==
    IF seed % 2 = 1 /\ n > 0 THEN Tail(Labels(n)) \o <<Head(Labels(n))>> ELSE Labels(n)

Evaluation(index) ==
    << [label |-> "A", index |-> index, training |-> FALSE],
       [label |-> "B", index |-> index + 1, training |-> FALSE] >>

\* The experiment evaluates before and after the training, the sweep only after it.
Before == IF template.name = "sweep" THEN <<>> ELSE Evaluation(10000)
After == Evaluation(IF template.name = "sweep" THEN 30000 ELSE 20000)

Schedule ==
    Before
    \o [i \in 1 .. template.trials |->
          [label |-> LabelSequence(template.trials)[i], index |-> i - 1, training |-> TRUE]]
    \o After

Current == Schedule[trial]
StartTime == Current.index * Spacing

\* encode_pattern: A is one spike of the first input, B two of the second.
Encoded(label, start) ==
    IF label = "A" THEN << [source |-> 1, time |-> start] >>
    ELSE << [source |-> 2, time |-> start], [source |-> 2, time |-> start + 1] >>

Target == IF Current.label = "A" THEN 1 ELSE 2
LastInputTime == StartTime + (IF Current.label = "A" THEN 0 ELSE 1)

LearnsAlways == TRUE

LearnsNow == Current.training

\* _build_trial_core
Config ==
    [DefaultConfig EXCEPT !.learning = LearnsNow, !.rate = template.rate,
                          !.eligibilityDecay = template.eligibilityDecay,
                          !.traceDecay = template.traceDecay]

\* decode_output_spikes: the spikes inside the trial's window, and the output that
\* spiked most; a tie goes to the one whose first spike is earliest, then to the one
\* seen first.
InWindow == SelectSeq(outputs, LAMBDA s : StartTime <= s.time /\ s.time <= StartTime + Spacing - 1)
Spikes(n) == {i \in DOMAIN InWindow : InWindow[i].source = Outputs[n]}
FirstSeen(n) == CHOOSE i \in Spikes(n) : \A j \in Spikes(n) : i <= j
Count(n) == Len(SelectSeq(InWindow, LAMBDA s : s.source = Outputs[n]))

Better(m, n) ==
    \/ Count(m) > Count(n)
    \/ Count(m) = Count(n) /\ Count(m) > 0 /\ FirstSeen(m) < FirstSeen(n)

Decoded == IF InWindow = <<>> THEN 0 ELSE IF Better(2, 1) THEN 2 ELSE 1

AssignedSwapped ==
    IF Decoded = 0 THEN 0 ELSE IF Decoded = Target THEN -template.reward ELSE template.reward

\* assign_reward, without a reward when no output spiked
Assigned ==
    IF Decoded = 0 THEN 0 ELSE IF Decoded = Target THEN template.reward ELSE -template.reward

------------------------------------------------------------------------------
Init ==
    /\ template \in Templates /\ seed \in Seeds
    /\ synapses = [i \in Addresses |->
         [target |-> Circuit[i][2], weight |-> Circuit[i][3], plastic |-> Circuit[i][4],
          eligibility |-> 0, pre |-> 0, post |-> 0, last |-> 0]]
    /\ trial = 1 /\ pc = "start" /\ raised = FALSE /\ results = <<>>
    /\ inputs = <<>> /\ voltage = [n \in 1 .. 6 |-> 0]
    /\ inQueue = <<>> /\ outQueue = <<>> /\ outputs = <<>> /\ hidden = <<>>
    /\ reward = 0 /\ crossed = {}

\* run_trial begins: the pattern is encoded and a new core is built.
StartTrial ==
    /\ pc = "start" /\ trial <= Len(Schedule)
    /\ inputs' = Encoded(Current.label, StartTime)
    /\ voltage' = [n \in 1 .. 6 |-> 0]
    /\ outputs' = <<>> /\ hidden' = <<>> /\ crossed' = {}
    /\ pc' = "run"
    /\ UNCHANGED <<template, seed, synapses, trial, inQueue, outQueue, reward, raised, results>>

\* The next input event is pushed once the core has dealt with the one before.
PushInput ==
    /\ pc = "run" /\ inputs # <<>> /\ inQueue = <<>> /\ outQueue = <<>>
    /\ inQueue' = <<Head(inputs)>> /\ inputs' = Tail(inputs)
    /\ UNCHANGED <<template, seed, synapses, trial, pc, voltage, outQueue, outputs, hidden,
                   reward, raised, results, crossed>>

\* process_one_event: the fan-out of one source has no target twice, so its turns are
\* independent of each other; the spikes are queued in address order.
ProcessEvent ==
    LET e == Head(inQueue)
        fanout == FanoutOf(e.source)
        update == [i \in fanout |->
            UpdateNeuron(Config, voltage[synapses[i].target], template.threshold,
                         synapses[i].weight)]
        spiking == SetToSortSeq({i \in fanout : update[i].spike}, <)
    IN  /\ pc = "run" /\ inQueue # <<>>
        /\ IF \E i \in fanout : Stale(Config, synapses[i], e.time)
           THEN /\ raised' = TRUE /\ pc' = "stop"
                /\ UNCHANGED <<synapses, voltage, inQueue, outQueue, crossed>>
           ELSE /\ inQueue' = Tail(inQueue)
                /\ voltage' = [n \in 1 .. 6 |->
                     IF \E i \in fanout : synapses[i].target = n
                     THEN update[CHOOSE i \in fanout : synapses[i].target = n].v
                     ELSE voltage[n]]
                /\ outQueue' = outQueue \o [j \in DOMAIN spiking |->
                     [source |-> synapses[spiking[j]].target, time |-> e.time]]
                /\ synapses' = [i \in Addresses |->
                     IF i \in fanout THEN Traced(Config, synapses[i], update[i].spike, e.time)
                     ELSE synapses[i]]
                /\ crossed' = crossed \cup fanout
                /\ UNCHANGED <<raised, pc>>
        /\ UNCHANGED <<template, seed, trial, inputs, outputs, hidden, reward, results>>

\* _route_non_output_spikes: a spike of an output neuron is recorded, any other is fed
\* back as an input event and processed before the next spike is looked at.
RouteSpike ==
    LET e == Head(outQueue)
    IN  /\ pc = "run" /\ inQueue = <<>> /\ outQueue # <<>>
        /\ outQueue' = Tail(outQueue)
        /\ IF e.source \in ToSet(Outputs)
           THEN outputs' = Append(outputs, e) /\ UNCHANGED <<inQueue, hidden>>
           ELSE /\ inQueue' = <<e>> /\ UNCHANGED outputs
                /\ hidden' = IF e.source \in ToSet(Hidden) THEN Append(hidden, e) ELSE hidden
        /\ UNCHANGED <<template, seed, synapses, trial, pc, inputs, voltage, reward, raised,
                       results, crossed>>

\* The answer is decoded; a training trial goes on to its reward.
Decode ==
    /\ pc = "run" /\ inputs = <<>> /\ inQueue = <<>> /\ outQueue = <<>>
    /\ reward' = Assigned
    /\ pc' = "reward"
    /\ UNCHANGED <<template, seed, synapses, trial, inputs, voltage, inQueue, outQueue,
                   outputs, hidden, raised, results, crossed>>

RewardTime == LastInputTime + RewardDelay

\* Weights apply_reward has to clamp.
Clamped ==
    {i \in Addresses :
        /\ Learns(Config, synapses[i])
        /\ WeightMoved(Config, DecayedTo(Config, synapses[i], RewardTime), reward)
           \notin WMin .. WMax}

\* apply_reward in a training trial, and the record of the trial.
FinishTrial ==
    /\ pc = "reward"
    /\ IF \E i \in Addresses : Stale(Config, synapses[i], RewardTime)
       THEN /\ raised' = TRUE /\ pc' = "stop"
            /\ UNCHANGED <<synapses, trial, results>>
       ELSE /\ synapses' = [i \in Addresses |->
                 IF LearnsNow THEN Rewarded(Config, synapses[i], reward, RewardTime)
                 ELSE synapses[i]]
            /\ results' = Append(results,
                 [training |-> Current.training, correct |-> Decoded = Target,
                  input |-> Encoded(Current.label, StartTime), hidden |-> hidden,
                  output |-> outputs, clamped |-> Cardinality(Clamped)])
            /\ trial' = trial + 1 /\ pc' = "start" /\ UNCHANGED raised
    /\ UNCHANGED <<template, seed, inputs, voltage, inQueue, outQueue, outputs, hidden,
                   reward, crossed>>

Next == StartTrial \/ PushInput \/ ProcessEvent \/ RouteSpike \/ Decode \/ FinishTrial

Spec == Init /\ [][Next]_vars /\ WF_vars(Next)
==============================================================================
