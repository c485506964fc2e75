------------------------------- MODULE RvFifo -------------------------------
(***************************************************************************)
(* rtl/common/rv_fifo.sv: the ready/valid FIFO of the RTL cores, a circular*)
(* buffer with an occupancy counter.  One step is one clock edge; the      *)
(* inputs of the edge are arbitrary.  The storage is not reset.            *)
(***************************************************************************)
EXTENDS Integers, Sequences, RvPorts

CONSTANT DEPTH

ASSUME FifoAssumption == DEPTH \in Nat \ {0}

VARIABLES storage, read_pointer, write_pointer, occupancy,
    enqueued, dequeued   \* the payloads that crossed the ports at the last edge

vars == <<storage, read_pointer, write_pointer, occupancy, enqueued, dequeued>>

\* Mutation: a full FIFO is ready for one more payload.
ready_when_full == occupancy <= DEPTH

in_ready == occupancy < DEPTH
out_valid == occupancy # 0
out_data == storage[read_pointer]

Successor(pointer) == IF pointer = DEPTH - 1 THEN 0 ELSE pointer + 1

\* The state after a first reset, with whatever the storage held.
Init ==
    /\ storage \in [0 .. DEPTH - 1 -> Payload]
    /\ read_pointer = 0 /\ write_pointer = 0 /\ occupancy = 0
    /\ enqueued = None /\ dequeued = None

\* Mutation: the write pointer is not reset.
ResetOfReadSide ==
    /\ read_pointer' = 0 /\ occupancy' = 0
    /\ enqueued' = None /\ dequeued' = None
    /\ UNCHANGED <<storage, write_pointer>>

Reset ==
    /\ read_pointer' = 0 /\ write_pointer' = 0 /\ occupancy' = 0
    /\ enqueued' = None /\ dequeued' = None
    /\ UNCHANGED storage

Clock(in_valid, in_data, out_ready) ==
    LET enqueue == in_valid /\ in_ready
        dequeue == out_valid /\ out_ready
    IN  /\ storage' = IF enqueue THEN [storage EXCEPT ![write_pointer] = in_data] ELSE storage
        /\ write_pointer' = IF enqueue THEN Successor(write_pointer) ELSE write_pointer
        /\ read_pointer' = IF dequeue THEN Successor(read_pointer) ELSE read_pointer
        /\ occupancy' = CASE enqueue /\ ~dequeue -> occupancy + 1
                          [] ~enqueue /\ dequeue -> occupancy - 1
                          [] OTHER -> occupancy
        /\ enqueued' = IF enqueue THEN in_data ELSE None
        /\ dequeued' = IF dequeue THEN out_data ELSE None

Next ==
    \/ Reset
    \/ \E in_valid, out_ready \in BOOLEAN, in_data \in Payload :
          Clock(in_valid, in_data, out_ready)

Spec == Init /\ [][Next]_vars

-----------------------------------------------------------------------------

\* The registers hold values of their declared ranges: in particular the pointers
\* stay inside the storage and occupancy never exceeds DEPTH (the assertion of the
\* module), also where DEPTH is not a power of two.
TypeOK ==
    /\ storage \in [0 .. DEPTH - 1 -> Payload]
    /\ read_pointer \in 0 .. DEPTH - 1 /\ write_pointer \in 0 .. DEPTH - 1
    /\ occupancy \in 0 .. DEPTH
    /\ enqueued \in Payload \cup {None} /\ dequeued \in Payload \cup {None}

\* The slot i places past a pointer, around the end of the storage.
Slot(pointer, i) == IF pointer + i < DEPTH THEN pointer + i ELSE pointer + i - DEPTH

\* The three registers agree: the write pointer is occupancy slots past the read
\* pointer, although each of the three is updated by its own condition.
PointersAgree ==
    write_pointer = IF occupancy = DEPTH THEN read_pointer ELSE Slot(read_pointer, occupancy)

\* n payloads of a storage, from a pointer on; Contents are those of the FIFO.
Run(s, pointer, n) == [i \in 1 .. n |-> s[Slot(pointer, i - 1)]]
Contents == Run(storage, read_pointer, occupancy)

Queue == INSTANCE BoundedQueue WITH Depth <- DEPTH, queue <- Contents

\* The circular buffer is a queue: payloads leave in the order they entered, none
\* is lost or repeated, and only a full queue refuses one.
ImplementsQueue == Queue!Spec
=============================================================================
