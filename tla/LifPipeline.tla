----------------------------- MODULE LifPipeline -----------------------------
(***************************************************************************)
(* The six-stage neuron pipeline N0..N5 of rtl/core/lif_pipeline.sv and of *)
(* lif_pipeline_readycut.sv, which puts a registered cut between N2 and    *)
(* N3.  The operators give the state after one clock edge.  A pipeline is  *)
(* a record [stage, cut, cut_ready]: what each stage holds (None: its      *)
(* valid bit is off), the payloads in the cut and the cut's in_ready.      *)
(***************************************************************************)
EXTENDS NeuronUpdate, Sequences

CONSTANTS None, SpikeDepth      \* SPIKE_FIFO_DEPTH

Stages == 0 .. 5

\* What N0 to N5 hold.
Issues == [neuron : Int, tick : Int, accumulator : Int]
Responses == [neuron : Int, tick : Int, accumulator : Int, voltage : Int, elapsed : Int]
Products == [neuron : Int, tick : Int, voltage : Int, leak_delta : Int, accumulator : Int]
Candidates == [neuron : Int, tick : Int, candidate : Int]
Decisions == [neuron : Int, tick : Int, spike : BOOLEAN, voltage : Int]

ASSUME NoneAssumption ==
    None \notin Issues \cup Responses \cup Products \cup Candidates \cup Decisions

EmptyPipeline == [stage |-> [i \in Stages |-> None], cut |-> <<>>, cut_ready |-> TRUE]

IsEmpty(pipe) == (\A i \in Stages : pipe.stage[i] = None) /\ pipe.cut = <<>>

\* Mutation: the last stage does not wait for the spike FIFO.
LeavesUnchecked(pipe, occupancy) == TRUE

\* A neuron leaves N5 unless it spikes into a full FIFO.
Leaves(pipe, occupancy) ==
    pipe.stage[5] # None => ~pipe.stage[5].spike \/ occupancy < SpikeDepth

\* stage_ready: an empty stage somewhere ahead takes up the advance, or the far end
\* lets a neuron out.  The cut ends the chain of N0..N2 with its own register.
Ready(pipe, i, occupancy, cut) ==
    LET last == IF cut /\ i <= 2 THEN 2 ELSE 5
    IN  \/ \E j \in i .. last : pipe.stage[j] = None
        \/ IF last = 2 THEN pipe.cut_ready ELSE Leaves(pipe, occupancy)

\* The neuron that retires at this edge.
Commits(pipe, occupancy) == pipe.stage[5] # None /\ Leaves(pipe, occupancy)

\* N1 takes the answer of the state memory, N2 the leak product and the narrowed
\* sum, N3 the decayed and integrated membrane, N4 the decision, N5 holds it.
Response(n0, memory) ==
    [neuron |-> n0.neuron, tick |-> n0.tick, accumulator |-> n0.accumulator,
     voltage |-> memory.voltage, elapsed |-> n0.tick - memory.last_update]

Product(n1, params) ==
    [neuron |-> n1.neuron, tick |-> n1.tick, voltage |-> n1.voltage,
     leak_delta |-> params[n1.neuron].leak * n1.elapsed,
     accumulator |-> narrow_to_format(n1.accumulator, AccumulatorFormat)]

Candidate(n2) ==
    [neuron |-> n2.neuron, tick |-> n2.tick,
     candidate |-> narrow_to_format(move_toward_zero(n2.voltage, n2.leak_delta) + n2.accumulator,
                                    MembraneFormat)]

Decision(n3, params) ==
    LET spike == n3.candidate >= params[n3.neuron].threshold
    IN  [neuron |-> n3.neuron, tick |-> n3.tick, spike |-> spike,
         voltage |-> IF spike THEN params[n3.neuron].reset ELSE n3.candidate]

\* Mutation: in_ready is not raised again by a payload that leaves.
CutStaysShut(pipe, enqueue, dequeue) ==
    [payloads |-> (IF dequeue THEN Tail(pipe.cut) ELSE pipe.cut)
                  \o (IF enqueue THEN <<Candidate(pipe.stage[2])>> ELSE <<>>),
     ready |-> pipe.cut_ready /\ (enqueue /\ ~dequeue => Len(pipe.cut) < 1)]

\* Mutation: the cut reserves a slot for a payload that is already on its way out.
CutHalfUsed(pipe, enqueue, dequeue) ==
    [payloads |-> (IF dequeue THEN Tail(pipe.cut) ELSE pipe.cut)
                  \o (IF enqueue THEN <<Candidate(pipe.stage[2])>> ELSE <<>>),
     ready |-> ~enqueue]

\* The cut of rv_registered_cut.sv at the same edge.
CutAfter(pipe, enqueue, dequeue) ==
    [payloads |-> (IF dequeue THEN Tail(pipe.cut) ELSE pipe.cut)
                  \o (IF enqueue THEN <<Candidate(pipe.stage[2])>> ELSE <<>>),
     ready |-> CASE enqueue /\ ~dequeue -> Len(pipe.cut) < 1
                 [] dequeue /\ ~enqueue -> TRUE
                 [] OTHER -> Len(pipe.cut) < 2]

\* What stage i loads when it is ready: issue is the neuron offered to N0, memory
\* the word the state memory answers with.
Loads(pipe, i, issue, memory, params, cut) ==
    LET previous == pipe.stage[i - 1]
    IN  CASE i = 0 -> issue
          [] i = 3 /\ cut -> IF pipe.cut = <<>> THEN None ELSE Head(pipe.cut)
          [] i > 0 /\ ~(i = 3 /\ cut) /\ previous = None -> None
          [] OTHER -> CASE i = 1 -> Response(previous, memory)
                        [] i = 2 -> Product(previous, params)
                        [] i = 3 -> Candidate(previous)
                        [] i = 4 -> Decision(previous, params)
                        [] i = 5 -> previous

\* One clock edge.
Step(pipe, issue, memory, params, occupancy, cut) ==
    LET ready(i) == Ready(pipe, i, occupancy, cut)
        enqueue == cut /\ pipe.stage[2] # None /\ pipe.cut_ready
        dequeue == cut /\ pipe.cut # <<>> /\ ready(3)
        after   == CutAfter(pipe, enqueue, dequeue)
    IN  [stage |-> [i \in Stages |->
                       IF ready(i) THEN Loads(pipe, i, issue, memory, params, cut)
                       ELSE pipe.stage[i]],
         cut |-> after.payloads, cut_ready |-> after.ready]
=============================================================================
