------------------------------- MODULE RtlCore -------------------------------
(***************************************************************************)
(* The three single-core RTL machines: mini_loihi_core_mempipe.sv (one     *)
(* neuron at a time), mini_loihi_core_lifpipe.sv (the neuron pipeline) and *)
(* mini_loihi_core_readycut.sv (the pipeline with a registered cut).  One  *)
(* step is one clock edge after reset.  The test bench is external: it     *)
(* offers the events of a tick one after another, declares ingress done,   *)
(* and takes spikes by the schedule of the setting, or whenever it likes.  *)
(***************************************************************************)
EXTENDS LifPipeline, FiniteSetsExt

CONSTANTS
    Settings,       \* [fixture (see NeuronScan), profile, stall, early]
    IngressDepth,   \* INGRESS_FIFO_DEPTH
    SynapseLanes    \* 2 in the code

VARIABLES
    setting,
    state,          \* the controller
    index,          \* the neuron being initialised
    begun,          \* ticks started
    cycle,          \* logical_cycle (0 while the test bench is unscheduled)
    front,          \* [offered, complete, fifo, axon, next, payload, lanes]: events accepted
                    \* in this tick, ingress_complete, the ingress FIFO, the event in
                    \* work with its next synapse, the pending contributions
    bank, touched,  \* accumulator_bank, touched_bitmap
    cursor,         \* of touched_neuron_scanner, 0 when it is not active
    result,         \* mempipe: the neuron that waits to be committed, or None
    pipe,           \* the neuron pipeline
    memory,         \* read_data of the state memories
    ram,            \* [voltage, last_update] of every neuron
    fifo,           \* the spike FIFO
    taken,          \* the spikes the test bench took
    trace           \* [accepts, issues, writebacks, full, backpressure, total]: the cycles
                    \* of the tick's accepted events, issues and writebacks, and the
                    \* utilization counters (total: the scanner's in mempipe)

\* A program the RTL accepts (validate_rtl_subset): LIF neurons without adaptation
\* and thresholds of their format, synapses to neurons of the core, events to its axons.
IsFixture(f) ==
    /\ f.params \in Seq(NeuronParams) /\ f.params # <<>>
    /\ \A n \in DOMAIN f.params :
          /\ ~f.params[n].alif /\ f.params[n].adaptation_decay = 0
          /\ f.params[n].threshold \in ThresholdFormat.min .. ThresholdFormat.max
    /\ f.voltage \in [DOMAIN f.params -> Int]
    /\ f.fanout \in Seq(Seq([target : DOMAIN f.params, weight : Int]))
    /\ f.ticks \in Seq([id : Int, events : Seq([axon : DOMAIN f.fanout, payload : Int])])

ASSUME SettingsAssumption ==
    /\ IngressDepth \in Nat \ {0} /\ SynapseLanes \in Nat \ {0}
    /\ \A s \in Settings : IsFixture(s.fixture)

vars == <<setting, state, index, begun, cycle, front, bank, touched, cursor, result, pipe,
          memory, ram, fifo, taken, trace>>

fixture == setting.fixture
Neurons == DOMAIN fixture.params
Events == fixture.ticks[begun].events
current_tick == fixture.ticks[begun].id
Cut == setting.profile = "readycut"
Scheduled == setting.stall.kind # "any"

\* The ready signal of the spike port at a logical cycle: not during the stall window,
\* or every second cycle from its start on.
SpikeReady(at) ==
    IF setting.stall.kind = "alternating" /\ at >= setting.stall.start
    THEN (at - setting.stall.start) % 2 = 1
    ELSE ~(setting.stall.start <= at /\ at < setting.stall.start + setting.stall.length)

ZeroWord == [voltage |-> 0, last_update |-> 0]
EmptyTrace == [accepts |-> <<>>, issues |-> <<>>, writebacks |-> <<>>, full |-> 0, backpressure |-> 0, total |-> 0]
EmptyFront == [offered |-> 0, complete |-> FALSE, fifo |-> <<>>, axon |-> None, next |-> 1,
               payload |-> 0, lanes |-> {}]

\* After reset, with junk in the memories, which reset does not clear.
Init ==
    /\ setting \in Settings
    /\ state = "INIT_REQUEST" /\ index = 1 /\ begun = 0 /\ cycle = 0
    /\ front = EmptyFront
    /\ \E junk \in {0, 1} :
          /\ bank = [n \in Neurons |-> junk]
          /\ ram = [n \in Neurons |-> [voltage |-> junk, last_update |-> junk]]
          /\ touched = IF junk = 0 THEN {} ELSE Neurons
    /\ cursor = 0 /\ result = None
    /\ pipe = EmptyPipeline /\ memory = ZeroWord
    /\ fifo = <<>> /\ taken = <<>> /\ trace = EmptyTrace

-----------------------------------------------------------------------------
\* Parts shared by the steps.

\* The spike FIFO, with what is enqueued at this edge.
SpikeFifo(enqueued) ==
    \E ready \in BOOLEAN :
        /\ Scheduled => ready = SpikeReady(cycle)
        /\ LET dequeue == ready /\ fifo # <<>>
           IN  /\ fifo' = (IF dequeue THEN Tail(fifo) ELSE fifo) \o enqueued
               /\ taken' = IF dequeue THEN Append(taken, Head(fifo)) ELSE taken

Counting == cycle' = IF Scheduled THEN cycle + 1 ELSE 0

NeuronIdle == UNCHANGED <<cursor, result, pipe, memory, ram>>

Noted(at) == IF Scheduled THEN Append(at, cycle) ELSE at

\* A neuron of the tick retires: its state is written, its bank word and touched bit
\* are cleared, its spike is enqueued.
Retire(n, voltage, spike) ==
    /\ ram' = [ram EXCEPT ![n] = [voltage |-> voltage, last_update |-> current_tick]]
    /\ bank' = [bank EXCEPT ![n] = 0]
    /\ touched' = touched \ {n}
    /\ SpikeFifo(IF spike THEN <<<<current_tick, n>>>> ELSE <<>>)

NoRetire == UNCHANGED <<ram, bank, touched>> /\ SpikeFifo(<<>>)

-----------------------------------------------------------------------------
\* Initialisation and the front end, the same in every profile.

\* INIT_REQUEST reads the initial voltage of a neuron, INIT_WRITE stores it and clears
\* the neuron's bank word and touched bit.
Initialise ==
    /\ state \in {"INIT_REQUEST", "INIT_WRITE"}
    /\ IF state = "INIT_REQUEST"
       THEN state' = "INIT_WRITE" /\ UNCHANGED <<index, bank, touched, ram>>
       ELSE /\ bank' = [bank EXCEPT ![index] = 0]
            /\ touched' = touched \ {index}
            /\ ram' = [ram EXCEPT ![index] = [voltage |-> fixture.voltage[index],
                                              last_update |-> 0]]
            /\ index' = index + 1
            /\ state' = IF index = Len(fixture.params) THEN "IDLE" ELSE "INIT_REQUEST"
    /\ UNCHANGED <<setting, begun, cycle, front, cursor, result, pipe, memory, fifo, taken, trace>>

TickStart ==
    /\ state = "IDLE" /\ begun < Len(fixture.ticks)
    /\ begun' = begun + 1 /\ cycle' = 0 /\ trace' = EmptyTrace
    /\ front' = [front EXCEPT !.offered = 0, !.complete = FALSE]
    /\ state' = "INGRESS"
    /\ SpikeFifo(<<>>)
    /\ UNCHANGED <<setting, index, bank, touched, cursor, result, pipe, memory, ram>>

\* Mutation: the FIFO is the only thing ingress waits for.
IngressDrained(accept, done) == front.complete \/ done

\* Ingress is over when it was declared done and no event is accepted at this edge.
IngressOver(accept, done) == (front.complete \/ done) /\ ~accept

\* The test bench offers the next event; with the last one (setting.early) or after it,
\* it declares ingress done.  The event at the head of the FIFO is taken into work.
Ingress ==
    LET accept == front.offered < Len(Events) /\ Len(front.fifo) < IngressDepth
        offered == front.offered + (IF accept THEN 1 ELSE 0)
        done == IF setting.early THEN offered = Len(Events) ELSE front.offered = Len(Events)
        accepted == IF accept THEN <<Events[offered]>> ELSE <<>>
    IN  /\ state = "INGRESS"
        /\ front' = IF front.fifo # <<>>
                    THEN [front EXCEPT !.offered = offered, !.complete = @ \/ done,
                            !.fifo = Tail(@) \o accepted, !.axon = Head(front.fifo).axon,
                            !.payload = Head(front.fifo).payload, !.next = 1]
                    ELSE [front EXCEPT !.offered = offered, !.complete = @ \/ done,
                            !.fifo = @ \o accepted]
        /\ state' = CASE front.fifo # <<>> -> "AXON_WAIT"
                      [] front.fifo = <<>> /\ IngressOver(accept, done) -> "SCAN_START"
                      [] OTHER -> "INGRESS"
        /\ trace' = [trace EXCEPT !.accepts = IF accept THEN Noted(@) ELSE @]
        /\ Counting /\ SpikeFifo(<<>>) /\ NeuronIdle
        /\ UNCHANGED <<setting, index, begun, bank, touched>>

Fanout == fixture.fanout[front.axon]

\* AXON_WAIT, SYNAPSE_REQUEST and SYNAPSE_RESPONSE: the fanout of the axon, then up to
\* SynapseLanes contributions at a time.
Fetch ==
    LET requested == front.next .. Min({Len(Fanout), front.next + SynapseLanes - 1})
    IN  /\ state \in {"AXON_WAIT", "SYNAPSE_REQUEST", "SYNAPSE_RESPONSE"}
        /\ CASE state = "AXON_WAIT" ->
                  /\ state' = IF Fanout = <<>> THEN "INGRESS" ELSE "SYNAPSE_REQUEST"
                  /\ UNCHANGED front
             [] state = "SYNAPSE_REQUEST" -> state' = "SYNAPSE_RESPONSE" /\ UNCHANGED front
             [] state = "SYNAPSE_RESPONSE" ->
                  /\ front' = [front EXCEPT !.next = @ + Cardinality(requested),
                        !.lanes = {[target |-> Fanout[a].target, address |-> a,
                                    value |-> Fanout[a].weight * front.payload] : a \in requested}]
                  /\ state' = "ACCUMULATE"
        /\ Counting /\ SpikeFifo(<<>>) /\ NeuronIdle
        /\ UNCHANGED <<setting, index, begun, bank, touched, trace>>

\* One pending contribution per cycle, the smaller target first, then the smaller address.
Accumulate ==
    \E lane \in front.lanes :
        /\ state = "ACCUMULATE"
        /\ \A other \in front.lanes :
              \/ lane.target < other.target
              \/ lane.target = other.target /\ lane.address <= other.address
        /\ bank' = [bank EXCEPT ![lane.target] = @ + lane.value]
        /\ touched' = touched \cup {lane.target}
        /\ front' = [front EXCEPT !.lanes = @ \ {lane}]
        /\ state' = CASE front'.lanes # {} -> "ACCUMULATE"
                      [] front'.lanes = {} /\ front.next <= Len(Fanout) -> "SYNAPSE_REQUEST"
                      [] OTHER -> "INGRESS"
        /\ Counting /\ SpikeFifo(<<>>) /\ NeuronIdle
        /\ UNCHANGED <<setting, index, begun, trace>>

ScanStart ==
    /\ state = "SCAN_START"
    /\ cursor' = 1
    /\ state' = IF setting.profile = "mempipe" THEN "SCAN" ELSE "SCAN_PIPELINE"
    /\ Counting /\ SpikeFifo(<<>>)
    /\ UNCHANGED <<setting, index, begun, front, bank, touched, result, pipe, memory, ram, trace>>

ScanDone == cursor > Len(fixture.params)

-----------------------------------------------------------------------------
\* mempipe: one neuron at a time.

\* Inspect the neuron under the cursor: skip it, or request its state.
Scan ==
    /\ state = "SCAN"
    /\ CASE ScanDone -> /\ state' = "SPIKE_DRAIN" /\ cursor' = 0
                       /\ UNCHANGED <<memory, result>>
         [] ~ScanDone /\ cursor \notin touched ->
              cursor' = cursor + 1 /\ UNCHANGED <<state, memory, result>>
         [] ~ScanDone /\ cursor \in touched ->
              /\ state' = "NEURON_WAIT" /\ memory' = ram[cursor]
              /\ UNCHANGED <<cursor, result>>
    /\ trace' = [trace EXCEPT !.issues = IF state' = "NEURON_WAIT" THEN Noted(@) ELSE @,
                              !.total = IF Scheduled THEN @ + 1 ELSE @]
    /\ Counting /\ NoRetire
    /\ UNCHANGED <<setting, index, begun, front, pipe>>

\* lif_neuron_datapath.sv: the update of the neuron under the cursor.
NeuronWait ==
    /\ state = "NEURON_WAIT"
    /\ result' = LET n0 == [neuron |-> cursor, tick |-> current_tick, accumulator |-> bank[cursor]]
                     n2 == Product(Response(n0, memory), fixture.params)
                 IN  Decision(Candidate(n2), fixture.params)
    /\ memory' = ZeroWord
    /\ state' = "NEURON_COMMIT"
    /\ Counting /\ NoRetire
    /\ UNCHANGED <<setting, index, begun, front, cursor, pipe, trace>>

\* Commit it, once the spike FIFO has room for its spike.
NeuronCommit ==
    /\ state = "NEURON_COMMIT"
    /\ IF ~result.spike \/ Len(fifo) < SpikeDepth
       THEN /\ Retire(result.neuron, result.voltage, result.spike)
            /\ trace' = [trace EXCEPT !.writebacks = Noted(@)]
            /\ cursor' = cursor + 1 /\ result' = None /\ state' = "SCAN"
       ELSE NoRetire /\ UNCHANGED <<trace, cursor, result, state>>
    /\ Counting
    /\ UNCHANGED <<setting, index, begun, front, pipe, memory>>

-----------------------------------------------------------------------------
\* lifpipe and readycut: the scanner feeds the pipeline.

\* Mutation: the state memory is read only for the neuron that enters N0.
MemoryReadOnce(issue) == IF issue # None THEN ram[issue.neuron] ELSE ZeroWord

\* The state memory is read for the neuron that enters N0, and again for the one that
\* waits there, since an unrequested word is lost (read_data falls back to zero).
MemoryRead(issue) ==
    CASE issue # None -> ram[issue.neuron]
      [] issue = None /\ pipe.stage[0] # None -> ram[pipe.stage[0].neuron]
      [] OTHER -> ZeroWord

\* The trace after an edge of SCAN_PIPELINE or PIPELINE_DRAIN.
Traced(issued, commits) ==
    LET held == {i \in Stages : pipe.stage[i] # None /\ ~Ready(pipe, i, Len(fifo), Cut)}
        One(condition) == IF condition THEN 1 ELSE 0
    IN  IF ~Scheduled THEN trace
        ELSE [trace EXCEPT
                 !.issues = IF issued THEN Noted(@) ELSE @,
                 !.writebacks = IF commits THEN Noted(@) ELSE @,
                 !.full = @ + One(\A i \in Stages : pipe.stage[i] # None),
                 !.backpressure = @ + One(held # {}),
                 !.total = @ + 1]

\* The next scanner state: an untouched neuron is skipped, a touched one waits until N0
\* is ready; the cycle after the last neuron leaves the scan.
ScanPipeline(issuing) ==
    CASE state = "PIPELINE_DRAIN" ->
            /\ state' = IF IsEmpty(pipe) THEN "SPIKE_DRAIN" ELSE state
            /\ UNCHANGED cursor
      [] state = "SCAN_PIPELINE" /\ ScanDone -> state' = "PIPELINE_DRAIN" /\ cursor' = 0
      [] OTHER -> /\ cursor' = IF issuing \/ cursor \notin touched THEN cursor + 1 ELSE cursor
                  /\ UNCHANGED state

RunPipeline ==
    LET issuing == /\ state = "SCAN_PIPELINE" /\ cursor \in touched
                   /\ Ready(pipe, 0, Len(fifo), Cut)
        issue == IF issuing
                 THEN [neuron |-> cursor, tick |-> current_tick, accumulator |-> bank[cursor]]
                 ELSE None
        commits == Commits(pipe, Len(fifo))
        n5 == pipe.stage[5]
    IN  /\ state \in {"SCAN_PIPELINE", "PIPELINE_DRAIN"}
        /\ ScanPipeline(issuing)
        /\ pipe' = Step(pipe, issue, memory, fixture.params, Len(fifo), Cut)
        /\ memory' = MemoryRead(issue)
        /\ IF commits THEN Retire(n5.neuron, n5.voltage, n5.spike) ELSE NoRetire
        /\ trace' = Traced(issuing, commits)
        /\ Counting
        /\ UNCHANGED <<setting, index, begun, front, result>>

-----------------------------------------------------------------------------

\* The tick is done when the spike FIFO is empty; the test bench takes the done signal
\* at once.
SpikeDrain ==
    /\ state = "SPIKE_DRAIN"
    /\ state' = IF fifo = <<>> THEN "TICK_DONE" ELSE state
    /\ Counting /\ SpikeFifo(<<>>) /\ NeuronIdle
    /\ UNCHANGED <<setting, index, begun, front, bank, touched, trace>>

TickDone ==
    /\ state = "TICK_DONE"
    /\ state' = "IDLE"
    /\ Counting /\ SpikeFifo(<<>>) /\ NeuronIdle
    /\ UNCHANGED <<setting, index, begun, front, bank, touched, trace>>

\* No further tick is offered: the core waits for one.
Idle == state = "IDLE" /\ begun = Len(fixture.ticks) /\ UNCHANGED vars

Next ==
    \/ Idle \/ Initialise \/ TickStart \/ Ingress \/ Fetch \/ Accumulate \/ ScanStart
    \/ Scan \/ NeuronWait \/ NeuronCommit
    \/ RunPipeline \/ SpikeDrain \/ TickDone

\* The clock keeps running, and the test bench does not refuse spikes for ever.
Fairness ==
    /\ WF_vars(Next)
    /\ SF_vars(Next /\ taken' # taken)

Spec == Init /\ [][Next]_vars /\ Fairness
-----------------------------------------------------------------------------
Initialised == state \notin {"INIT_REQUEST", "INIT_WRITE"}
Scanning == state \in {"SCAN_START", "SCAN", "NEURON_WAIT", "NEURON_COMMIT", "SCAN_PIPELINE",
                       "PIPELINE_DRAIN", "SPIKE_DRAIN"}

\* The core as the abstract scan sees it: the tick begins when its events have been
\* accumulated, a neuron is updated when its result is committed.
Abstract == INSTANCE NeuronScan WITH
    Fixtures <- {s.fixture : s \in Settings},
    completed <- IF state \in {"INIT_REQUEST", "INIT_WRITE", "IDLE", "TICK_DONE"} THEN begun
                 ELSE begun - 1,
    running <- Scanning,
    pending <- IF Scanning THEN touched ELSE {},
    neurons <- [n \in Neurons |->
        [membrane |-> IF Initialised THEN ram[n].voltage ELSE fixture.voltage[n],
         adaptation |-> 0,
         last_update_tick |-> IF Initialised THEN ram[n].last_update ELSE 0]],
    spikes <- taken \o fifo

\* In every profile, and whatever the consumer of the spikes does, a tick updates
\* exactly the touched neurons, once, in ascending order, with the whole sum of the
\* tick's contributions and the values of the last tick, and its spikes leave in
\* that order.
ImplementsScan == Abstract!Spec

\* When a tick is done nothing of it is left: queues, pipeline and cut are empty and
\* every bank word and touched bit is clear for the next tick.
TickDoneIsClean ==
    state \in {"TICK_DONE", "IDLE"} =>
        /\ fifo = <<>> /\ front.fifo = <<>> /\ front.lanes = {}
        /\ IsEmpty(pipe) /\ result = None
        /\ touched = {} /\ \A n \in Neurons : bank[n] = 0
=============================================================================
