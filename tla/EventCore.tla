------------------------------ MODULE EventCore ------------------------------
(***************************************************************************)
(* The arithmetic of the V5 event-driven core: the neuron update of        *)
(* numeric.py and the plastic synapse of core.py, whose traces are decayed *)
(* only when an event or a reward reads them.  k is a CoreConfig: a record *)
(* of leak, reset, learning, rate, eligibilityDecay, traceDecay,           *)
(* preIncrement and postIncrement.  A synapse has the fields of            *)
(* SynapseEntry; last is last_update_time.                                 *)
(***************************************************************************)
EXTENDS Integers

CONSTANTS
    VMin, VMax,          \* the membrane voltage is saturated to VMin .. VMax (int16)
    WMin, WMax,          \* a learned weight is clamped to WMin .. WMax (int8)
    NoLeak               \* leak_shift None

ASSUME NumberAssumption ==
    /\ VMin \in Int /\ VMax \in Int /\ VMin <= 0 /\ 0 <= VMax
    /\ WMin \in Int /\ WMax \in Int /\ WMin <= 0 /\ 0 <= WMax

CoreConfig ==
    [leak : {NoLeak} \cup 0 .. 15, reset : VMin .. VMax, learning : BOOLEAN,
     rate : Nat, eligibilityDecay : Nat, traceDecay : Nat,
     preIncrement : Nat, postIncrement : Nat]

\* CoreConfig(): the defaults of config.py.
DefaultConfig ==
    [leak |-> NoLeak, reset |-> 0, learning |-> FALSE, rate |-> 1,
     eligibilityDecay |-> 0, traceDecay |-> 0, preIncrement |-> 1, postIncrement |-> 1]

Clamp(low, high, x) == IF x > high THEN high ELSE IF x < low THEN low ELSE x

\* The voltage after the leak: v - (v >> leak), the shift rounding down.
Leaked(k, v) ==
    IF k.leak = NoLeak THEN v ELSE Clamp(VMin, VMax, v - (v \div 2 ^ k.leak))

\* One synapse drives one neuron: saturating addition, then threshold, then leak.
UpdateNeuron(k, v, threshold, weight) ==
    LET sum == Clamp(VMin, VMax, v + weight)
    IN  [v |-> IF sum >= threshold THEN k.reset ELSE Leaked(k, sum),
         spike |-> sum >= threshold]

------------------------------------------------------------------------------
(* Plastic synapses                                                         *)

DecayPastZero(value, amount) == value - amount

DecayTowardZero(value, amount) ==
    IF value > 0 THEN (IF value > amount THEN value - amount ELSE 0)
                 ELSE (IF value + amount < 0 THEN value + amount ELSE 0)

Learns(k, s) == k.learning /\ s.plastic

\* _decay_synapse_to_time raises ValueError for this synapse and time.
Stale(k, s, time) == Learns(k, s) /\ time < s.last

RedatedTo(k, s, time) == IF ~Learns(k, s) THEN s ELSE [s EXCEPT !.last = time]

\* The synapse brought from its last update to time.
DecayedTo(k, s, time) ==
    IF ~Learns(k, s) THEN s
    ELSE [s EXCEPT
            !.eligibility = DecayTowardZero(@, k.eligibilityDecay * (time - s.last)),
            !.pre = DecayTowardZero(@, k.traceDecay * (time - s.last)),
            !.post = DecayTowardZero(@, k.traceDecay * (time - s.last)),
            !.last = time]

\* _update_plastic_traces: the traces after an event crossed the synapse.
Traced(k, s, spike, time) ==
    IF ~Learns(k, s) THEN s
    ELSE LET d == DecayedTo(k, s, time)
             pre == d.pre + k.preIncrement
             post == d.post + (IF spike THEN k.postIncrement ELSE 0)
         IN  [d EXCEPT !.pre = pre, !.post = post,
                       !.eligibility = @ + (IF spike THEN pre * post ELSE 0)]

\* The body of apply_reward's loop: decay, then move the weight.
WeightMoved(k, s, reward) == s.weight + k.rate * reward * s.eligibility

Rewarded(k, s, reward, time) ==
    IF ~Learns(k, s) THEN s
    ELSE LET d == DecayedTo(k, s, time)
         IN  [d EXCEPT !.weight = Clamp(WMin, WMax, WeightMoved(k, d, reward))]
==============================================================================
