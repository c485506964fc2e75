---------------------------- MODULE MCRvElements ----------------------------
(***************************************************************************)
(* Both storage elements of rtl/common under every input, one of them in a *)
(* behaviour: the other is left as a reset leaves it, since no property    *)
(* relates the two.                                                        *)
(***************************************************************************)
EXTENDS RvFifo

VARIABLES element,   \* the element under its clock
    cut_storage, cut_read, cut_write, cut_occupancy, cut_ready, cut_enqueued,
    cut_dequeued, cut_stalled, cut_payload

cut_vars == <<cut_storage, cut_read, cut_write, cut_occupancy, cut_ready, cut_enqueued,
    cut_dequeued, cut_stalled, cut_payload>>

Cut == INSTANCE RvRegisteredCut WITH
    storage <- cut_storage, read_pointer <- cut_read, write_pointer <- cut_write,
    occupancy <- cut_occupancy, in_ready <- cut_ready, enqueued <- cut_enqueued,
    dequeued <- cut_dequeued, previous_stalled <- cut_stalled,
    previous_payload <- cut_payload

ElementsInit == element \in {"fifo", "cut"} /\ Init /\ Cut!Init

ElementsNext ==
    \/ element = "fifo" /\ Next /\ UNCHANGED <<element, cut_vars>>
    \/ element = "cut" /\ Cut!Next /\ UNCHANGED <<element, vars>>

ElementsSpec == ElementsInit /\ [][ElementsNext]_<<element, vars, cut_vars>>

\* The registered cut is a queue of two, and offers a stalled payload again
\* (rtl/common/rv_registered_cut.sv and its assertions).
ImplementsQueueOfTwo == Cut!ImplementsQueueOfTwo
StalledPayloadHeld == Cut!StalledPayloadHeld
=============================================================================
