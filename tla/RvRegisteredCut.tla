-------------------------- MODULE RvRegisteredCut ---------------------------
(***************************************************************************)
(* rtl/common/rv_registered_cut.sv: a two-entry buffer whose in_ready is a *)
(* register, so that no combinational path leads from out_ready to         *)
(* in_ready.  One step is one clock edge.                                  *)
(***************************************************************************)
EXTENDS Integers, Sequences, RvPorts

VARIABLES storage, read_pointer, write_pointer, occupancy, in_ready,
    enqueued, dequeued,  \* the payloads that crossed the ports at the last edge
    previous_stalled, previous_payload   \* registers of the module's assertions

vars == <<storage, read_pointer, write_pointer, occupancy, in_ready, enqueued, dequeued,
          previous_stalled, previous_payload>>

out_valid == occupancy # 0
out_payload == storage[read_pointer]

\* The state after a first reset, with whatever the storage held.
Init ==
    /\ storage \in [0 .. 1 -> Payload]
    /\ read_pointer = 0 /\ write_pointer = 0 /\ occupancy = 0 /\ in_ready = TRUE
    /\ enqueued = None /\ dequeued = None
    /\ previous_stalled = FALSE /\ previous_payload = None

\* Mutation: the write pointer is not reset.
ResetOfReadSide ==
    /\ read_pointer' = 0 /\ occupancy' = 0 /\ in_ready' = TRUE
    /\ enqueued' = None /\ dequeued' = None
    /\ previous_stalled' = FALSE
    /\ UNCHANGED <<storage, write_pointer, previous_payload>>

Reset ==
    /\ read_pointer' = 0 /\ write_pointer' = 0 /\ occupancy' = 0 /\ in_ready' = TRUE
    /\ enqueued' = None /\ dequeued' = None
    /\ previous_stalled' = FALSE
    /\ UNCHANGED <<storage, previous_payload>>

\* Mutation: a payload taken at this edge is not counted.
ReadyOfOldOccupancy(enqueue, dequeue) == dequeue \/ occupancy < 2

\* in_ready is decided from the occupancy BEFORE the edge.
ReadyAfter(enqueue, dequeue) ==
    CASE enqueue /\ ~dequeue -> occupancy < 1
      [] ~enqueue /\ dequeue -> TRUE
      [] OTHER -> occupancy < 2

Clock(in_valid, in_payload, out_ready) ==
    LET enqueue == in_valid /\ in_ready
        dequeue == out_valid /\ out_ready
    IN  /\ occupancy' = CASE enqueue /\ ~dequeue -> occupancy + 1
                          [] ~enqueue /\ dequeue -> occupancy - 1
                          [] OTHER -> occupancy
        /\ storage' = IF enqueue THEN [storage EXCEPT ![write_pointer] = in_payload] ELSE storage
        /\ write_pointer' = IF enqueue THEN 1 - write_pointer ELSE write_pointer
        /\ read_pointer' = IF dequeue THEN 1 - read_pointer ELSE read_pointer
        /\ in_ready' = ReadyAfter(enqueue, dequeue)
        /\ enqueued' = IF enqueue THEN in_payload ELSE None
        /\ dequeued' = IF dequeue THEN out_payload ELSE None
        /\ previous_stalled' = (out_valid /\ ~out_ready)
        /\ previous_payload' = out_payload

Next ==
    \/ Reset
    \/ \E in_valid, out_ready \in BOOLEAN, in_payload \in Payload :
          Clock(in_valid, in_payload, out_ready)

Spec == Init /\ [][Next]_vars

-----------------------------------------------------------------------------

\* The registers hold values of their declared ranges; occupancy never exceeds
\* the two entries (the assertion of the module), so the registered in_ready
\* never lets a third payload in.
TypeOK ==
    /\ storage \in [0 .. 1 -> Payload]
    /\ read_pointer \in 0 .. 1 /\ write_pointer \in 0 .. 1
    /\ occupancy \in 0 .. 2 /\ in_ready \in BOOLEAN
    /\ enqueued \in Payload \cup {None} /\ dequeued \in Payload \cup {None}
    /\ previous_stalled \in BOOLEAN /\ previous_payload \in Payload \cup {None}

\* The registered in_ready is the capacity of this very cycle: it neither admits
\* into a full buffer nor costs a cycle of throughput.
ReadyIsExact == in_ready <=> occupancy < 2

\* Each pointer flips on its own condition; their difference is the parity of the
\* occupancy.
PointersAgree == (write_pointer = read_pointer) <=> occupancy # 1

\* The handshake assertion of the module: a payload that was offered and not
\* taken is offered again, unchanged.
StalledPayloadHeld == previous_stalled => out_valid /\ out_payload = previous_payload

\* n payloads of a storage, from a pointer on; Contents are those of the cut.
Held(s, pointer, n) == [i \in 1 .. n |-> s[IF i = 1 THEN pointer ELSE 1 - pointer]]
Contents == Held(storage, read_pointer, occupancy)

Queue == INSTANCE BoundedQueue WITH Depth <- 2, queue <- Contents

\* The cut is a queue of two: it delays payloads, and never loses, repeats or
\* reorders one; it refuses one only when it is full.
ImplementsQueueOfTwo == Queue!Spec
=============================================================================
