---------------------------- MODULE RvFifoProofs ----------------------------
(***************************************************************************)
(* For every depth and every payload type: the registers of rv_fifo stay   *)
(* in range and agree, and the buffer implements a queue of DEPTH payloads.*)
(***************************************************************************)
EXTENDS RvFifo, SequenceTheorems, TLAPS

Inv == TypeOK /\ PointersAgree

\* A clock edge keeps the registers in range: the pointers wrap at DEPTH - 1 and
\* the occupancy moves only when a payload does.
LEMMA ClockKeepsType ==
    ASSUME TypeOK, NEW in_valid \in BOOLEAN, NEW in_data \in Payload,
           NEW out_ready \in BOOLEAN, Clock(in_valid, in_data, out_ready)
    PROVE  TypeOK'
<1> DEFINE enqueue == in_valid /\ in_ready
           dequeue == out_valid /\ out_ready
<1>1. storage' \in [0 .. DEPTH - 1 -> Payload]
  BY DEF TypeOK, Clock
<1>2. write_pointer' \in 0 .. DEPTH - 1 /\ read_pointer' \in 0 .. DEPTH - 1
  BY FifoAssumption DEF TypeOK, Clock, Successor
<1>3. occupancy' \in 0 .. DEPTH
  BY FifoAssumption DEF TypeOK, Clock, in_ready, out_valid
<1>4. enqueued' \in Payload \cup {None} /\ dequeued' \in Payload \cup {None}
  BY FifoAssumption DEF TypeOK, Clock, out_data
<1> QED BY <1>1, <1>2, <1>3, <1>4 DEF TypeOK

\* The three registers keep agreeing: each case of the two transfers moves the
\* pointers and the occupancy by matching amounts around the storage.
LEMMA ClockKeepsPointers ==
    ASSUME Inv, NEW in_valid \in BOOLEAN, NEW in_data \in Payload,
           NEW out_ready \in BOOLEAN, Clock(in_valid, in_data, out_ready)
    PROVE  PointersAgree'
<1> DEFINE enqueue == in_valid /\ in_ready
           dequeue == out_valid /\ out_ready
<1>1. /\ DEPTH \in Nat \ {0} /\ occupancy \in 0 .. DEPTH
      /\ read_pointer \in 0 .. DEPTH - 1 /\ write_pointer \in 0 .. DEPTH - 1
      /\ write_pointer = IF occupancy = DEPTH THEN read_pointer
                         ELSE Slot(read_pointer, occupancy)
  BY FifoAssumption DEF Inv, TypeOK, PointersAgree
<1>2. CASE enqueue /\ dequeue
  <2>1. /\ write_pointer' = Successor(write_pointer) /\ read_pointer' = Successor(read_pointer)
        /\ occupancy' = occupancy /\ occupancy < DEPTH
    BY <1>2 DEF Clock, in_ready
  <2> QED BY <1>1, <2>1 DEF PointersAgree, Slot, Successor
<1>3. CASE enqueue /\ ~dequeue
  <2>1. /\ write_pointer' = Successor(write_pointer) /\ read_pointer' = read_pointer
        /\ occupancy' = occupancy + 1 /\ occupancy < DEPTH
    BY <1>3 DEF Clock, in_ready
  <2> QED BY <1>1, <2>1 DEF PointersAgree, Slot, Successor
<1>4. CASE ~enqueue /\ dequeue
  <2>1. /\ write_pointer' = write_pointer /\ read_pointer' = Successor(read_pointer)
        /\ occupancy' = occupancy - 1 /\ occupancy # 0
    BY <1>4 DEF Clock, out_valid
  <2> QED BY <1>1, <2>1 DEF PointersAgree, Slot, Successor
<1>5. CASE ~enqueue /\ ~dequeue
  <2>1. /\ write_pointer' = write_pointer /\ read_pointer' = read_pointer
        /\ occupancy' = occupancy
    BY <1>5 DEF Clock
  <2> QED BY <1>1, <2>1 DEF PointersAgree, Slot
<1> QED BY <1>2, <1>3, <1>4, <1>5

\* The invariant holds in every reachable state.
THEOREM InvHolds == Spec => []Inv
<1>1. Init => Inv
  BY FifoAssumption DEF Init, Inv, TypeOK, PointersAgree, Slot
<1>2. Inv /\ [Next]_vars => Inv'
  <2> SUFFICES ASSUME Inv, [Next]_vars PROVE Inv'
    OBVIOUS
  <2>1. CASE Reset
    BY <2>1, FifoAssumption DEF Reset, Inv, TypeOK, PointersAgree, Slot
  <2>2. ASSUME NEW in_valid \in BOOLEAN, NEW out_ready \in BOOLEAN, NEW in_data \in Payload,
               Clock(in_valid, in_data, out_ready)
        PROVE  Inv'
    BY <2>2, ClockKeepsType, ClockKeepsPointers DEF Inv
  <2>3. CASE UNCHANGED vars
    BY <2>3 DEF vars, Inv, TypeOK, PointersAgree, Slot
  <2> QED BY <2>1, <2>2, <2>3 DEF Next
<1> QED BY <1>1, <1>2, PTL DEF Spec

\* The registers of the FIFO never leave their ranges: no overflow of the storage
\* and no underflow of the occupancy, for every depth.
THEOREM TypeCorrect == Spec => []TypeOK
BY InvHolds, PTL DEF Inv

\* The pointers and the occupancy always describe the same contents.
THEOREM PointersAlwaysAgree == Spec => []PointersAgree
BY InvHolds, PTL DEF Inv

-----------------------------------------------------------------------------
(* The refinement. *)

\* The tail of a longer sequence.
LEMMA TailConcat ==
    ASSUME NEW S, NEW s \in Seq(S), s # <<>>, NEW x \in S
    PROVE  Tail(s \o <<x>>) = Tail(s) \o <<x>>
BY AppendIsConcat, HeadTailAppend, HeadTailProperties

\* A run of n slots is a sequence of n payloads.
LEMMA RunIsSeq ==
    ASSUME NEW s \in [0 .. DEPTH - 1 -> Payload], NEW r \in 0 .. DEPTH - 1,
           NEW n \in 0 .. DEPTH
    PROVE  Run(s, r, n) \in Seq(Payload) /\ Len(Run(s, r, n)) = n
<1>1. \A i \in 1 .. n : Slot(r, i - 1) \in 0 .. DEPTH - 1
  BY FifoAssumption DEF Slot
<1>2. \A i \in 1 .. n : s[Slot(r, i - 1)] \in Payload
  BY <1>1
<1> QED BY <1>1, <1>2 DEF Run

\* Writing the first free slot appends to the run.
LEMMA RunAppend ==
    ASSUME NEW s \in [0 .. DEPTH - 1 -> Payload], NEW r \in 0 .. DEPTH - 1,
           NEW n \in 0 .. DEPTH - 1, NEW x \in Payload
    PROVE  Run([s EXCEPT ![Slot(r, n)] = x], r, n + 1) = Run(s, r, n) \o <<x>>
<1> DEFINE t == [s EXCEPT ![Slot(r, n)] = x]
           longer == Run(t, r, n + 1)
           shorter == Run(s, r, n)
<1>1. t \in [0 .. DEPTH - 1 -> Payload] /\ Slot(r, n) \in 0 .. DEPTH - 1
  BY FifoAssumption DEF Slot
<1> HIDE DEF t
<1>a. n \in 0 .. DEPTH /\ n + 1 \in 0 .. DEPTH
  BY FifoAssumption
<1>2. longer \in Seq(Payload) /\ Len(longer) = n + 1
  BY <1>1, <1>a, RunIsSeq
<1>3. shorter \in Seq(Payload) /\ Len(shorter) = n
  BY <1>a, RunIsSeq
<1>4. shorter \o <<x>> \in Seq(Payload) /\ Len(shorter \o <<x>>) = n + 1
  BY <1>3
<1>5. ASSUME NEW i \in 1 .. n + 1 PROVE longer[i] = (shorter \o <<x>>)[i]
  <2>1. longer[i] = t[Slot(r, i - 1)]
    BY DEF Run
  <2>2. CASE i = n + 1
    BY <2>1, <2>2, <1>1, <1>3 DEF t
  <2>3. CASE i \in 1 .. n
    <3>1. Slot(r, i - 1) # Slot(r, n) /\ Slot(r, i - 1) \in 0 .. DEPTH - 1
      BY <2>3, FifoAssumption DEF Slot
    <3>2. shorter[i] = s[Slot(r, i - 1)]
      BY <2>3 DEF Run
    <3>3. (shorter \o <<x>>)[i] = shorter[i]
      BY <2>3, <1>3
    <3> QED BY <2>1, <3>1, <3>2, <3>3 DEF t
  <2>4. i = n + 1 \/ i \in 1 .. n
    OBVIOUS
  <2> QED BY <2>2, <2>3, <2>4
<1> HIDE DEF longer, shorter
<1> QED BY <1>2, <1>4, <1>5, SeqEqual DEF longer, shorter, t

\* Advancing the read pointer drops the head of the run.
LEMMA RunTail ==
    ASSUME NEW s \in [0 .. DEPTH - 1 -> Payload], NEW r \in 0 .. DEPTH - 1,
           NEW n \in 1 .. DEPTH
    PROVE  /\ Run(s, Successor(r), n - 1) = Tail(Run(s, r, n))
           /\ Head(Run(s, r, n)) = s[r]
<1>1. Successor(r) \in 0 .. DEPTH - 1 /\ Slot(r, 0) = r
  BY FifoAssumption DEF Successor, Slot
<1>2. Run(s, r, n) \in Seq(Payload) /\ Len(Run(s, r, n)) = n
  BY RunIsSeq
<1>3. Run(s, Successor(r), n - 1) \in Seq(Payload) /\ Len(Run(s, Successor(r), n - 1)) = n - 1
  <2>1. n - 1 \in 0 .. DEPTH
    BY FifoAssumption
  <2> QED BY <1>1, <2>1, RunIsSeq
<1>4. /\ Tail(Run(s, r, n)) \in Seq(Payload) /\ Len(Tail(Run(s, r, n))) = n - 1
      /\ \A i \in 1 .. n - 1 : Tail(Run(s, r, n))[i] = Run(s, r, n)[i + 1]
  BY <1>2, HeadTailProperties
<1>5. ASSUME NEW i \in 1 .. n - 1
      PROVE  Run(s, Successor(r), n - 1)[i] = Tail(Run(s, r, n))[i]
  <2>1. Slot(Successor(r), i - 1) = Slot(r, i)
    BY FifoAssumption DEF Slot, Successor
  <2>2. Run(s, r, n)[i + 1] = s[Slot(r, i)]
    BY DEF Run
  <2> QED BY <2>1, <2>2, <1>4 DEF Run
<1>6. Head(Run(s, r, n)) = s[r]
  BY <1>1, <1>2 DEF Run
<1> QED BY <1>3, <1>4, <1>5, <1>6, SeqEqual

\* A clock edge appends the offered payload and removes the head, as the queue
\* does: one case per combination of the two transfers.
LEMMA ClockIsCycle ==
    ASSUME Inv, NEW in_valid \in BOOLEAN, NEW in_data \in Payload,
           NEW out_ready \in BOOLEAN, Clock(in_valid, in_data, out_ready)
    PROVE  Queue!Cycle(IF in_valid THEN in_data ELSE None, out_ready)
<1> DEFINE offer == IF in_valid THEN in_data ELSE None
           enqueue == in_valid /\ in_ready
           dequeue == out_valid /\ out_ready
           in == offer # None /\ Len(Contents) < DEPTH
           out == out_ready /\ Contents # <<>>
           filled == Run(storage', read_pointer, occupancy + 1)
<1>1. Contents \in Seq(Payload) /\ Len(Contents) = occupancy
  BY RunIsSeq DEF Contents, Inv, TypeOK
<1>2. in <=> enqueue
  BY <1>1, FifoAssumption, PortAssumption DEF in_ready, Inv, TypeOK
<1>3. out <=> dequeue
  BY <1>1 DEF out_valid, Inv, TypeOK
<1>4. enqueue => filled = Contents \o <<in_data>>
  <2> SUFFICES ASSUME enqueue PROVE filled = Contents \o <<in_data>>
    OBVIOUS
  <2>1. occupancy \in 0 .. DEPTH - 1 /\ write_pointer = Slot(read_pointer, occupancy)
    BY FifoAssumption DEF in_ready, PointersAgree, Inv, TypeOK
  <2> QED BY <2>1, RunAppend DEF Clock, Contents, Inv, TypeOK
<1>5. dequeue => /\ Head(Contents) = out_data
                 /\ Run(storage, read_pointer', occupancy - 1) = Tail(Contents)
  BY RunTail, FifoAssumption DEF Clock, Contents, out_valid, out_data, Inv, TypeOK
<1>6. enqueued' = IF in THEN offer ELSE None
  BY <1>2 DEF Clock
<1>7. dequeued' = IF out THEN Head(Contents) ELSE None
  BY <1>3, <1>5 DEF Clock
<1>8. Contents' = (IF out THEN Tail(Contents) ELSE Contents)
                     \o (IF in THEN <<offer>> ELSE <<>>)
  <2>1. CASE enqueue /\ dequeue
    <3>1. Run(storage', read_pointer', occupancy) = Tail(filled)
      <4>1. PICK n \in 1 .. DEPTH : n = occupancy + 1
        BY <2>1, FifoAssumption DEF Clock, in_ready, Inv, TypeOK
      <4>2. /\ storage' \in [0 .. DEPTH - 1 -> Payload] /\ read_pointer \in 0 .. DEPTH - 1
            /\ read_pointer' = Successor(read_pointer) /\ n - 1 = occupancy
        BY <2>1, <4>1 DEF Clock, Inv, TypeOK
      <4>3. Run(storage', Successor(read_pointer), n - 1) = Tail(Run(storage', read_pointer, n))
        BY <4>2, RunTail
      <4> QED BY <4>1, <4>2, <4>3
    <3>2. Tail(Contents \o <<in_data>>) = Tail(Contents) \o <<in_data>>
      BY <1>1, <1>3, <2>1, TailConcat
    <3>3. Contents' = Run(storage', read_pointer', occupancy)
      BY <2>1 DEF Clock, Contents
    <3> QED BY <2>1, <3>1, <3>2, <3>3, <1>2, <1>3, <1>4
  <2>2. CASE enqueue /\ ~dequeue
    <3>1. Contents' = filled
      BY <2>2 DEF Clock, Contents
    <3> QED BY <2>2, <3>1, <1>2, <1>3, <1>4
  <2>3. CASE ~enqueue /\ dequeue
    <3>1. Contents' = Tail(Contents)
      BY <2>3, <1>5 DEF Clock, Contents
    <3>2. Tail(Contents) \o <<>> = Tail(Contents)
      BY <1>1, <1>3, <2>3, HeadTailProperties, ConcatEmptySeq
    <3> QED BY <2>3, <3>1, <3>2, <1>2, <1>3
  <2>4. CASE ~enqueue /\ ~dequeue
    <3>1. Contents' = Contents
      BY <2>4 DEF Clock, Contents
    <3>2. Contents \o <<>> = Contents
      BY <1>1, ConcatEmptySeq
    <3> QED BY <2>4, <3>1, <3>2, <1>2, <1>3
  <2> QED BY <2>1, <2>2, <2>3, <2>4
<1> QED BY <1>6, <1>7, <1>8 DEF Queue!Cycle

\* The FIFO implements the bounded queue, for every depth and payload type.
THEOREM FifoImplementsQueue == Spec => ImplementsQueue
<1>1. Init => Queue!Init
  BY FifoAssumption DEF Init, Queue!Init, Contents, Run
<1>2. Inv /\ Inv' /\ [Next]_vars => [Queue!Next]_(Queue!vars)
  <2> SUFFICES ASSUME Inv, Inv', [Next]_vars PROVE [Queue!Next]_(Queue!vars)
    OBVIOUS
  <2>1. CASE Reset
    BY <2>1 DEF Reset, Contents, Run, Queue!Next, Queue!Reset
  <2>2. ASSUME NEW in_valid \in BOOLEAN, NEW out_ready \in BOOLEAN, NEW in_data \in Payload,
               Clock(in_valid, in_data, out_ready)
        PROVE  Queue!Next
    BY <2>2, ClockIsCycle DEF Queue!Next
  <2>3. CASE UNCHANGED vars
    BY <2>3 DEF vars, Queue!vars, Contents
  <2> QED BY <2>1, <2>2, <2>3 DEF Next
<1> QED BY <1>1, <1>2, InvHolds, PTL DEF Spec, ImplementsQueue, Queue!Spec
=============================================================================
