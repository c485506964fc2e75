---------------------------- MODULE NeuronUpdate ----------------------------
(***************************************************************************)
(* The arithmetic of one lazy LIF/ALIF neuron update, as both the          *)
(* reference machine (mini_loihi/reference_backend.py) and the cycle       *)
(* machine (mini_loihi/cycle_backend.py) perform it with the operators of  *)
(* mini_loihi/fixed_point.py.  A format is a record of its bounds and its  *)
(* overflow mode; the validations that raise when a value does not fit a   *)
(* WIDENED intermediate are left out: the widths of the architecture are   *)
(* chosen so that no compiled program reaches them.                        *)
(***************************************************************************)
EXTENDS Integers

CONSTANTS
    AccumulatorFormat,   \* architecture.accumulator_format
    MembraneFormat,      \* architecture.neuron_state_format
    ThresholdFormat,     \* architecture.threshold_format
    AdaptationFormat     \* architecture.adaptation_state_format

Formats == [min : Int, max : Int, mode : {"saturate", "wrap"}]

IsFormat(f) == f \in Formats /\ f.min <= f.max

ASSUME FormatsAssumption ==
    /\ IsFormat(AccumulatorFormat)
    /\ IsFormat(MembraneFormat)
    /\ IsFormat(ThresholdFormat)
    /\ IsFormat(AdaptationFormat)

\* narrow_to_format: the value itself when it fits, else clamped to the nearest
\* bound, or reduced modulo the number of representable values.
narrow_to_format(v, f) ==
    CASE f.min <= v /\ v <= f.max -> v
      [] f.mode = "saturate" /\ v < f.min -> f.min
      [] f.mode = "saturate" /\ v > f.max -> f.max
      [] OTHER -> f.min + ((v - f.min) % (f.max - f.min + 1))

\* move_toward_zero: a decay never crosses zero.
move_toward_zero(v, amount) ==
    CASE v > amount  -> v - amount
      [] v < -amount -> v + amount
      [] OTHER       -> 0

\* The neuron state kept between ticks.
NeuronState == [membrane : Int, adaptation : Int, last_update_tick : Int]

\* The parameter banks of one compiled neuron.  alif is the model kind.
NeuronParams ==
    [leak : Nat, threshold : Int, reset : Int, alif : BOOLEAN,
     adaptation_decay : Nat, adaptation_increment : Int]

\* One update at tick with the (wide) sum acc of the tick's contributions: leak
\* and adaptation decay for the elapsed ticks, integration, threshold, reset.
update_neuron(p, s, acc, tick) ==
    LET elapsed   == tick - s.last_update_tick
        membrane  == move_toward_zero(s.membrane, p.leak * elapsed)
        adapted   == move_toward_zero(s.adaptation, p.adaptation_decay * elapsed)
        candidate == narrow_to_format(
                         membrane + narrow_to_format(acc, AccumulatorFormat),
                         MembraneFormat)
        threshold == narrow_to_format(p.threshold + adapted, ThresholdFormat)
        spike     == candidate >= threshold
    IN  [spike |-> spike,
         state |->
            [membrane   |-> IF spike THEN p.reset ELSE candidate,
             adaptation |-> IF spike /\ p.alif
                            THEN narrow_to_format(adapted + p.adaptation_increment,
                                                  AdaptationFormat)
                            ELSE adapted,
             last_update_tick |-> tick]]
=============================================================================
