---------------------------- MODULE BoundedQueue ----------------------------
(***************************************************************************)
(* What a ready/valid storage element of rtl/common promises: a queue of   *)
(* at most Depth payloads.  In a clock cycle the producer may offer one    *)
(* payload and the consumer may be ready for one; an offer is taken when   *)
(* there was room before the cycle, the head leaves when there was one.    *)
(***************************************************************************)
EXTENDS Integers, Sequences

CONSTANTS Depth, Payload, None

VARIABLES
    queue,      \* the payloads held, oldest first
    enqueued,   \* the payload taken in the last cycle, or None
    dequeued    \* the payload handed over in the last cycle, or None

vars == <<queue, enqueued, dequeued>>

Init == queue = <<>> /\ enqueued = None /\ dequeued = None

Reset == queue' = <<>> /\ enqueued' = None /\ dequeued' = None

Cycle(offer, ready) ==
    LET in  == offer # None /\ Len(queue) < Depth
        out == ready /\ queue # <<>>
    IN  /\ queue' = (IF out THEN Tail(queue) ELSE queue) \o (IF in THEN <<offer>> ELSE <<>>)
        /\ enqueued' = IF in THEN offer ELSE None
        /\ dequeued' = IF out THEN Head(queue) ELSE None

Next == Reset \/ \E offer \in Payload \cup {None}, ready \in BOOLEAN : Cycle(offer, ready)

Spec == Init /\ [][Next]_vars
=============================================================================
