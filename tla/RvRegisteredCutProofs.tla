----------------------- MODULE RvRegisteredCutProofs ------------------------
(***************************************************************************)
(* For every payload type: rv_registered_cut never overflows, its          *)
(* registered in_ready is exact, a stalled payload is held, and it         *)
(* implements a queue of two payloads.                                     *)
(***************************************************************************)
EXTENDS RvRegisteredCut, SequenceTheorems, TLAPS

\* ReadyIsExact is what makes TypeOK inductive: an offer is taken on in_ready.
Inv == TypeOK /\ ReadyIsExact /\ PointersAgree

\* One clock edge keeps the invariant, and holds a stalled payload.
LEMMA ClockKeepsInv ==
    ASSUME Inv, NEW in_valid \in BOOLEAN, NEW in_payload \in Payload,
           NEW out_ready \in BOOLEAN, Clock(in_valid, in_payload, out_ready)
    PROVE  Inv' /\ StalledPayloadHeld'
<1>1. storage' \in [0 .. 1 -> Payload] /\ previous_payload' \in Payload
  <2>1. storage[read_pointer] \in Payload
    BY DEF Inv, TypeOK
  <2>2. previous_payload' = storage[read_pointer]
    BY DEF Clock, out_payload
  <2>3. storage' \in [0 .. 1 -> Payload]
    BY DEF Inv, TypeOK, Clock
  <2> QED BY <2>1, <2>2, <2>3
<1>2. occupancy' \in 0 .. 2 /\ in_ready' \in BOOLEAN /\ ReadyIsExact'
  <2>1. occupancy' \in 0 .. 2
    BY DEF Inv, TypeOK, ReadyIsExact, Clock, ReadyAfter, out_valid
  <2>2. ReadyIsExact'
    BY DEF Inv, TypeOK, ReadyIsExact, Clock, ReadyAfter, out_valid
  <2>3. in_ready' \in BOOLEAN
    <3>1. (occupancy < 1) \in BOOLEAN /\ (occupancy < 2) \in BOOLEAN
      OBVIOUS
    <3> QED BY <3>1, Zenon DEF Clock, ReadyAfter
  <2> QED BY <2>1, <2>2, <2>3, Zenon
<1>3. read_pointer' \in 0 .. 1 /\ write_pointer' \in 0 .. 1
  BY DEF Inv, TypeOK, Clock
<1>4. enqueued' \in Payload \cup {None} /\ dequeued' \in Payload \cup {None}
  BY DEF Inv, TypeOK, Clock, out_payload
<1>5. previous_stalled' \in BOOLEAN
  BY Zenon DEF Clock, out_valid
<1>6. PointersAgree'
  BY DEF Inv, TypeOK, ReadyIsExact, PointersAgree, Clock, out_valid
<1>7. StalledPayloadHeld'
  <2> SUFFICES ASSUME out_valid, ~out_ready
               PROVE  out_valid' /\ out_payload' = previous_payload'
    BY DEF StalledPayloadHeld, Clock
  <2>1. read_pointer' = read_pointer /\ occupancy' # 0
    BY DEF Inv, TypeOK, Clock, out_valid
  <2>2. storage'[read_pointer] = storage[read_pointer]
    BY DEF Inv, TypeOK, ReadyIsExact, PointersAgree, Clock, out_valid
  <2> QED BY <2>1, <2>2 DEF Clock, out_valid, out_payload
<1> QED BY <1>1, <1>2, <1>3, <1>4, <1>5, <1>6, <1>7 DEF Inv, TypeOK

\* The invariant holds in every reachable state, with the handshake assertion.
THEOREM InvHolds == Spec => [](Inv /\ StalledPayloadHeld)
<1>1. Init => Inv /\ StalledPayloadHeld
  <2> SUFFICES ASSUME Init PROVE Inv /\ StalledPayloadHeld
    OBVIOUS
  <2>1. TypeOK
    <3>1. /\ storage \in [0 .. 1 -> Payload] /\ occupancy \in 0 .. 2
          /\ read_pointer \in 0 .. 1 /\ write_pointer \in 0 .. 1
      BY DEF Init
    <3>2. /\ enqueued \in Payload \cup {None} /\ dequeued \in Payload \cup {None}
          /\ previous_payload \in Payload \cup {None}
      BY DEF Init
    <3>3. in_ready \in BOOLEAN /\ previous_stalled \in BOOLEAN
      BY Zenon DEF Init
    <3> QED BY <3>1, <3>2, <3>3, Zenon DEF TypeOK
  <2>2. ReadyIsExact /\ PointersAgree
    BY DEF Init, ReadyIsExact, PointersAgree
  <2>3. StalledPayloadHeld
    BY DEF Init, StalledPayloadHeld
  <2> QED BY <2>1, <2>2, <2>3 DEF Inv
<1>2. Inv /\ StalledPayloadHeld /\ [Next]_vars => (Inv /\ StalledPayloadHeld)'
  <2> SUFFICES ASSUME Inv, StalledPayloadHeld, [Next]_vars PROVE (Inv /\ StalledPayloadHeld)'
    OBVIOUS
  <2>1. CASE Reset
    <3>1. TypeOK'
      <4>1. /\ storage' \in [0 .. 1 -> Payload] /\ occupancy' \in 0 .. 2
            /\ read_pointer' \in 0 .. 1 /\ write_pointer' \in 0 .. 1
        BY <2>1 DEF Reset, Inv, TypeOK
      <4>2. /\ enqueued' \in Payload \cup {None} /\ dequeued' \in Payload \cup {None}
            /\ previous_payload' \in Payload \cup {None}
        BY <2>1 DEF Reset, Inv, TypeOK
      <4>3. in_ready' \in BOOLEAN /\ previous_stalled' \in BOOLEAN
        BY <2>1, Zenon DEF Reset
      <4> QED BY <4>1, <4>2, <4>3, Zenon DEF TypeOK
    <3>2. ReadyIsExact' /\ PointersAgree'
      BY <2>1 DEF Reset, ReadyIsExact, PointersAgree
    <3>3. StalledPayloadHeld'
      BY <2>1 DEF Reset, StalledPayloadHeld
    <3> QED BY <3>1, <3>2, <3>3 DEF Inv
  <2>2. ASSUME NEW in_valid \in BOOLEAN, NEW out_ready \in BOOLEAN, NEW in_payload \in Payload,
               Clock(in_valid, in_payload, out_ready)
        PROVE  (Inv /\ StalledPayloadHeld)'
    BY <2>2, ClockKeepsInv
  <2>3. CASE UNCHANGED vars
    BY <2>3 DEF vars, Inv, TypeOK, ReadyIsExact, PointersAgree, StalledPayloadHeld,
                out_valid, out_payload
  <2> QED BY <2>1, <2>2, <2>3 DEF Next
<1> QED BY <1>1, <1>2, PTL DEF Spec

\* The two entries never overflow.
THEOREM TypeCorrect == Spec => []TypeOK
BY InvHolds, PTL DEF Inv

\* The registered in_ready equals the combinational capacity test it replaces.
THEOREM ReadyAlwaysExact == Spec => []ReadyIsExact
BY InvHolds, PTL DEF Inv

\* The handshake assertion of the module holds for every payload type.
THEOREM StalledPayloadAlwaysHeld == Spec => []StalledPayloadHeld
BY InvHolds, PTL

-----------------------------------------------------------------------------
(* The refinement. *)

\* The contents, by occupancy.
LEMMA HeldByCase ==
    ASSUME NEW s, NEW p
    PROVE  /\ Held(s, p, 0) = <<>>
           /\ Held(s, p, 1) = <<s[p]>>
           /\ Held(s, p, 2) = <<s[p], s[1 - p]>>
BY DEF Held

\* What the registered cut holds, by its occupancy.
LEMMA ContentsByCase ==
    ASSUME Inv
    PROVE  /\ occupancy = 0 => Contents = <<>>
           /\ occupancy = 1 => Contents = <<storage[read_pointer]>>
           /\ occupancy = 2 => Contents = <<storage[read_pointer], storage[1 - read_pointer]>>
BY HeldByCase DEF Contents

\* A clock edge appends the offered payload and removes the head.
LEMMA ClockIsCycle ==
    ASSUME Inv, NEW in_valid \in BOOLEAN, NEW in_payload \in Payload,
           NEW out_ready \in BOOLEAN, Clock(in_valid, in_payload, out_ready)
    PROVE  Queue!Cycle(IF in_valid THEN in_payload ELSE None, out_ready)
<1> DEFINE offer == IF in_valid THEN in_payload ELSE None
           enqueue == in_valid /\ in_ready
           dequeue == out_valid /\ out_ready
           in == offer # None /\ Len(Contents) < 2
           out == out_ready /\ Contents # <<>>
<1>1. Inv'
  BY ClockKeepsInv
<1>2. Len(Contents) = occupancy
  BY DEF Contents, Held, Inv, TypeOK
<1>3. in <=> enqueue
  <2>1. offer # None <=> in_valid
    BY PortAssumption
  <2>2. Len(Contents) < 2 <=> in_ready
    BY <1>2, Zenon DEF Inv, ReadyIsExact
  <2> QED BY <2>1, <2>2, Zenon
<1>4. out <=> dequeue
  <2>1. Contents # <<>> <=> occupancy # 0
    <3>1. CASE occupancy = 0
      BY <3>1, ContentsByCase
    <3>2. CASE occupancy = 1
      BY <3>2, ContentsByCase
    <3>3. CASE occupancy = 2
      BY <3>3, ContentsByCase
    <3>4. occupancy \in 0 .. 2
      BY DEF Inv, TypeOK
    <3> QED BY <3>1, <3>2, <3>3, <3>4
  <2> QED BY <2>1, Zenon DEF out_valid
<1>5. enqueued' = IF in THEN offer ELSE None
  BY <1>3 DEF Clock
<1>6. dequeued' = IF out THEN Head(Contents) ELSE None
  BY <1>4, ContentsByCase DEF Clock, out_valid, out_payload, Inv, TypeOK
<1>7. /\ occupancy' = 0 => Contents' = <<>>
      /\ occupancy' = 1 => Contents' = <<storage'[read_pointer']>>
      /\ occupancy' = 2 => Contents' = <<storage'[read_pointer'], storage'[1 - read_pointer']>>
  BY HeldByCase DEF Contents
<1>8. Contents' = (IF out THEN Tail(Contents) ELSE Contents)
                     \o (IF in THEN <<offer>> ELSE <<>>)
  <2> DEFINE r == read_pointer
             a == storage[r]
             b == storage[1 - r]
  <2>1. CASE enqueue /\ dequeue
    <3>1. occupancy = 1 /\ occupancy' = 1 /\ read_pointer' = 1 - r /\ write_pointer = 1 - r
      BY <2>1 DEF Clock, Inv, TypeOK, ReadyIsExact, PointersAgree, out_valid
    <3>2. storage'[1 - r] = in_payload
      BY <2>1, <3>1 DEF Clock, Inv, TypeOK
    <3>3. Contents = <<a>> /\ Contents' = <<in_payload>>
      BY <3>1, <3>2, <1>7, ContentsByCase
    <3> QED BY <2>1, <3>3, <1>3, <1>4
  <2>2. CASE enqueue /\ ~dequeue
    <3>1. occupancy \in {0, 1} /\ occupancy' = occupancy + 1 /\ read_pointer' = r
      BY <2>2 DEF Clock, Inv, TypeOK, ReadyIsExact, out_valid
    <3>2. CASE occupancy = 0
      <4>1. storage'[r] = in_payload
        BY <2>2, <3>1, <3>2 DEF Clock, Inv, TypeOK, PointersAgree
      <4>2. Contents = <<>> /\ Contents' = <<in_payload>>
        BY <3>1, <3>2, <4>1, <1>7, ContentsByCase
      <4> QED BY <2>2, <4>2, <1>3, <1>4
    <3>3. CASE occupancy = 1
      <4>1. storage'[r] = a /\ storage'[1 - r] = in_payload
        BY <2>2, <3>1, <3>3 DEF Clock, Inv, TypeOK, PointersAgree
      <4>2. Contents = <<a>> /\ Contents' = <<a, in_payload>>
        BY <3>1, <3>3, <4>1, <1>7, ContentsByCase
      <4> QED BY <2>2, <4>2, <1>3, <1>4
    <3> QED BY <3>1, <3>2, <3>3
  <2>3. CASE ~enqueue /\ dequeue
    <3>1. occupancy \in {1, 2} /\ occupancy' = occupancy - 1 /\ read_pointer' = 1 - r
      BY <2>3 DEF Clock, Inv, TypeOK, out_valid
    <3>2. storage' = storage
      BY <2>3 DEF Clock
    <3>3. CASE occupancy = 1
      <4>1. Contents = <<a>> /\ Contents' = <<>>
        BY <3>1, <3>3, <1>7, ContentsByCase
      <4> QED BY <2>3, <4>1, <1>3, <1>4
    <3>4. CASE occupancy = 2
      <4>1. Contents = <<a, b>> /\ Contents' = <<b>>
        BY <3>1, <3>2, <3>4, <1>7, ContentsByCase
      <4> QED BY <2>3, <4>1, <1>3, <1>4
    <3> QED BY <3>1, <3>3, <3>4
  <2>4. CASE ~enqueue /\ ~dequeue
    <3>1. Contents' = Contents
      BY <2>4 DEF Clock, Contents
    <3>2. Contents \in Seq(Payload)
      BY DEF Contents, Held, Inv, TypeOK
    <3>3. Contents \o <<>> = Contents
      BY <3>2, ConcatEmptySeq
    <3> QED BY <2>4, <3>1, <3>3, <1>3, <1>4
  <2> QED BY <2>1, <2>2, <2>3, <2>4
<1> QED BY <1>5, <1>6, <1>8 DEF Queue!Cycle

\* The cut implements a queue of two, for every payload type.
THEOREM CutImplementsQueue == Spec => ImplementsQueueOfTwo
<1>1. Init => Queue!Init
  BY HeldByCase DEF Init, Queue!Init, Contents
<1>2. Inv /\ [Next]_vars => [Queue!Next]_(Queue!vars)
  <2> SUFFICES ASSUME Inv, [Next]_vars PROVE [Queue!Next]_(Queue!vars)
    OBVIOUS
  <2>1. CASE Reset
    BY <2>1, HeldByCase DEF Reset, Contents, Queue!Next, Queue!Reset
  <2>2. ASSUME NEW in_valid \in BOOLEAN, NEW out_ready \in BOOLEAN, NEW in_payload \in Payload,
               Clock(in_valid, in_payload, out_ready)
        PROVE  Queue!Next
    BY <2>2, ClockIsCycle DEF Queue!Next
  <2>3. CASE UNCHANGED vars
    BY <2>3 DEF vars, Queue!vars, Contents
  <2> QED BY <2>1, <2>2, <2>3 DEF Next
<1> QED BY <1>1, <1>2, InvHolds, PTL DEF Spec, ImplementsQueueOfTwo, Queue!Spec
=============================================================================
