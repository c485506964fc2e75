------------------------------ MODULE RtlProofs ------------------------------
(***************************************************************************)
(* The arithmetic of the neuron update and of the stages that perform it,  *)
(* for every format and every value, and the RTL cores: a done tick leaves *)
(* nothing behind, and every profile implements NeuronScan.                *)
(***************************************************************************)
EXTENDS RtlCore, OrderingProofs

\* A decay of a + b is a decay of a followed by a decay of b: it stops at zero,
\* whichever way it is cut.
LEMMA DecayComposes ==
    ASSUME NEW v \in Int, NEW a \in Nat, NEW b \in Nat
    PROVE  move_toward_zero(move_toward_zero(v, a), b) = move_toward_zero(v, a + b)
<1>1. CASE v > a
  BY <1>1 DEF move_toward_zero
<1>2. CASE v < -a
  BY <1>2 DEF move_toward_zero
<1>3. CASE -a <= v /\ v <= a
  BY <1>3 DEF move_toward_zero
<1> QED BY <1>1, <1>2, <1>3

\* The lazy update of the code is sound: the leak (or the adaptation decay) of
\* early + late silent ticks, applied at once when the neuron is next touched,
\* is what applying it after the early ticks and again after the late ones gives.
THEOREM LazyDecay ==
    ASSUME NEW v \in Int, NEW leak \in Nat, NEW early \in Nat, NEW late \in Nat
    PROVE  move_toward_zero(v, leak * (early + late))
              = move_toward_zero(move_toward_zero(v, leak * early), leak * late)
<1>1. leak * early \in Nat /\ leak * late \in Nat
  OBVIOUS
<1>2. leak * (early + late) = leak * early + leak * late
  OBVIOUS
<1> QED BY <1>1, <1>2, DecayComposes

\* A remainder is below the modulus.
LEMMA ModRange ==
    ASSUME NEW a \in Int, NEW n \in Nat \ {0}
    PROVE  a % n \in 0 .. n - 1
OBVIOUS

\* Whatever the sum of the contributions and the overflow mode, what is stored
\* fits its format.
THEOREM NarrowFits ==
    ASSUME NEW v \in Int, NEW f, IsFormat(f)
    PROVE  narrow_to_format(v, f) \in f.min .. f.max
<1>1. f.min \in Int /\ f.max \in Int /\ f.min <= f.max
  BY DEF IsFormat, Formats
<1>2. f.mode = "saturate" \/ f.mode = "wrap"
  BY DEF IsFormat, Formats
<1> DEFINE size == f.max - f.min + 1
<1>3. size \in Nat \ {0}
  BY <1>1
<1>4. (v - f.min) % size \in 0 .. size - 1
  <2> HIDE DEF size
  <2>1. v - f.min \in Int
    BY <1>1
  <2> QED BY <1>3, <2>1, ModRange
<1> QED BY <1>1, <1>2, <1>4 DEF narrow_to_format

\* One update, for every state and every sum: the membrane is the reset value or
\* fits its format, and the tick of the update is recorded.
THEOREM UpdateFits ==
    ASSUME NEW p \in NeuronParams, NEW s \in NeuronState, NEW acc \in Int, NEW tick \in Int,
           tick >= s.last_update_tick
    PROVE  LET u == update_neuron(p, s, acc, tick)
           IN  /\ u.state.last_update_tick = tick
               /\ \/ u.spike /\ u.state.membrane = p.reset
                  \/ ~u.spike /\ u.state.membrane \in MembraneFormat.min .. MembraneFormat.max
<1> DEFINE membrane == move_toward_zero(s.membrane, p.leak * (tick - s.last_update_tick))
           sum == membrane + narrow_to_format(acc, AccumulatorFormat)
<1>1. p.leak * (tick - s.last_update_tick) \in Int
  BY DEF NeuronParams, NeuronState
<1>2. membrane \in Int
  BY <1>1 DEF move_toward_zero, NeuronState
<1>3. narrow_to_format(acc, AccumulatorFormat) \in Int
  <2>1. AccumulatorFormat.min \in Int /\ AccumulatorFormat.max \in Int
    BY FormatsAssumption DEF IsFormat, Formats
  <2> QED BY <2>1, FormatsAssumption, NarrowFits
<1>4. narrow_to_format(sum, MembraneFormat) \in MembraneFormat.min .. MembraneFormat.max
  BY <1>2, <1>3, FormatsAssumption, NarrowFits
<1> HIDE DEF membrane
<1> QED BY <1>4 DEF update_neuron, membrane

-----------------------------------------------------------------------------
(* The pipeline of the RTL (LifPipeline). *)

\* What the stages N1, N2, N3 and N4 (and the cut, which holds what N3 is given) make of
\* an issued neuron, one after the other, is the update of the reference machine, for a
\* LIF neuron with a threshold of its format and the word that the state memory holds.
THEOREM StagesComputeUpdate ==
    ASSUME NEW params, NEW n0, NEW word,
           ~params[n0.neuron].alif,
           params[n0.neuron].threshold \in ThresholdFormat.min .. ThresholdFormat.max,
           params[n0.neuron].adaptation_decay * (n0.tick - word.last_update) \in Nat
    PROVE  LET u == update_neuron(params[n0.neuron],
                        [membrane |-> word.voltage, adaptation |-> 0,
                         last_update_tick |-> word.last_update],
                        n0.accumulator, n0.tick)
               d == Decision(Candidate(Product(Response(n0, word), params)), params)
           IN  /\ d.neuron = n0.neuron /\ d.tick = n0.tick
               /\ d.spike = u.spike /\ d.voltage = u.state.membrane
<1> DEFINE p == params[n0.neuron]
           m == Product(Response(n0, word), params)
           c == Candidate(m)
           candidate == narrow_to_format(
               move_toward_zero(word.voltage, p.leak * (n0.tick - word.last_update))
                   + narrow_to_format(n0.accumulator, AccumulatorFormat), MembraneFormat)
<1>1. /\ m.neuron = n0.neuron /\ m.tick = n0.tick /\ m.voltage = word.voltage
      /\ m.leak_delta = p.leak * (n0.tick - word.last_update)
      /\ m.accumulator = narrow_to_format(n0.accumulator, AccumulatorFormat)
  BY DEF Product, Response
<1>2. c.neuron = n0.neuron /\ c.tick = n0.tick /\ c.candidate = candidate
  BY <1>1 DEF Candidate
<1>3. move_toward_zero(0, p.adaptation_decay * (n0.tick - word.last_update)) = 0
  BY DEF move_toward_zero
<1>4. narrow_to_format(p.threshold + 0, ThresholdFormat) = p.threshold
  BY FormatsAssumption DEF narrow_to_format, IsFormat, Formats
<1> QED BY <1>2, <1>3, <1>4 DEF Decision, update_neuron

\* A neuron in a stage moves on exactly when the next one, the cut or the commit takes it
\* over at the same edge: a stall loses no neuron and repeats none, whatever bubbles there
\* are and whether or not the spike FIFO has room.
THEOREM StagesHandOver ==
    ASSUME NEW p, NEW occupancy, NEW cut \in BOOLEAN, NEW i \in Stages,
           p.stage[i] # None
    PROVE  Ready(p, i, occupancy, cut) <=>
               CASE i = 5         -> Commits(p, occupancy)
                 [] cut /\ i = 2  -> p.cut_ready
                 [] OTHER         -> Ready(p, i + 1, occupancy, cut)
<1>1. CASE i = 5
  BY <1>1 DEF Ready, Commits, Leaves
<1>2. CASE cut /\ i = 2
  BY <1>2 DEF Ready
<1>3. CASE i # 5 /\ ~(cut /\ i = 2)
  <2> DEFINE last(k) == IF cut /\ k <= 2 THEN 2 ELSE 5
  <2>1. last(i) = last(i + 1) /\ i + 1 <= last(i)
    BY <1>3 DEF Stages
  <2>2. (\E j \in i .. last(i) : p.stage[j] = None)
            <=> \E j \in i + 1 .. last(i) : p.stage[j] = None
    BY <2>1 DEF Stages
  <2> QED BY <1>3, <2>1, <2>2 DEF Ready
<1> QED BY <1>1, <1>2, <1>3

-----------------------------------------------------------------------------
(* The inductive invariant of the cores. *)

\* The values of the tick's contributions, and the sum of those in X that go to n.
Contributed == Abstract!Contributions(Events)
Goes(x) == Abstract!Target(Events, x)
Values == [x \in Contributed |-> Abstract!Value(Events, x)]
Sum(X, n) == SumOf(Values, {x \in X : Goes(x) = n})

EventRecords == [axon : DOMAIN fixture.fanout, payload : Int]
Spikes == Int \X Int

FrontStates == {"INGRESS", "AXON_WAIT", "SYNAPSE_REQUEST", "SYNAPSE_RESPONSE", "ACCUMULATE"}
PipelineStates == {"SCAN_PIPELINE", "PIPELINE_DRAIN"}

TypeInv ==
    /\ setting \in Settings
    /\ begun \in 0 .. Len(fixture.ticks)
    /\ bank \in [Neurons -> Int] /\ touched \subseteq Neurons
    /\ ram \in [Neurons -> [voltage : Int, last_update : Int]]
    /\ fifo \in Seq(Spikes) /\ taken \in Seq(Spikes)
    /\ front = [offered |-> front.offered, complete |-> front.complete, fifo |-> front.fifo,
                axon |-> front.axon, next |-> front.next, payload |-> front.payload,
                lanes |-> front.lanes]
    /\ front.complete \in BOOLEAN
    /\ state \in FrontStates \/ Scanning => begun >= 1

\* The neurons before index are initialised.
InitialiseInv ==
    state \in {"INIT_REQUEST", "INIT_WRITE"} =>
        /\ index \in Neurons
        /\ fifo = <<>>
        /\ \A m \in 1 .. index - 1 :
              /\ ram[m] = [voltage |-> fixture.voltage[m], last_update |-> 0]
              /\ bank[m] = 0 /\ m \notin touched

\* What is not in use is empty.
QuietInv ==
    /\ state \notin FrontStates => front.fifo = <<>>
    /\ state # "ACCUMULATE" => front.lanes = {}
    /\ state # "NEURON_COMMIT" => result = None
    /\ state \notin PipelineStates => IsEmpty(pipe)
    /\ state \in {"IDLE", "TICK_DONE"} => fifo = <<>>
    /\ state \in {"IDLE", "TICK_DONE", "SPIKE_DRAIN"} => touched = {}
    /\ Initialised => \A n \in Neurons \ touched : bank[n] = 0

\* The front end.
InWork == front.offered - Len(front.fifo)
Rest == IF state = "INGRESS" THEN {}
        ELSE {<<InWork, a>> : a \in {a \in DOMAIN Fanout :
                 a >= front.next \/ \E lane \in front.lanes : lane.address = a}}
Done == {x \in Contributed : x[1] <= InWork} \ Rest
FrontInv ==
    state \in FrontStates =>
        /\ front.offered \in 0 .. Len(Events)
        /\ front.complete => front.offered = Len(Events)
        /\ front.fifo \in Seq(EventRecords) /\ Len(front.fifo) <= front.offered
        /\ \A k \in 1 .. Len(front.fifo) : front.fifo[k] = Events[InWork + k]
        /\ touched = {Goes(x) : x \in Done}
        /\ \A n \in Neurons : bank[n] = Sum(Done, n)
        /\ state # "INGRESS" =>
              /\ InWork >= 1
              /\ front.axon = Events[InWork].axon /\ front.payload = Events[InWork].payload
              /\ front.next \in 1 .. Len(Fanout) + 1
              /\ state = "AXON_WAIT" => front.next = 1
              /\ state \in {"SYNAPSE_REQUEST", "SYNAPSE_RESPONSE"} => front.next <= Len(Fanout)
              /\ \A lane \in front.lanes :
                    /\ lane.address \in 1 .. front.next - 1
                    /\ lane = [target |-> Fanout[lane.address].target, address |-> lane.address,
                               value |-> Fanout[lane.address].weight * front.payload]

\* The sums are kept until their neurons retire.
SumsInv == Scanning => \A n \in touched : bank[n] = Sum(Contributed, n)

\* The places of the pipeline in the order a neuron passes them: N0 to N2, the cut from its
\* tail to its head, N3 to N5; and what is made of an issued neuron at each.
Places == 0 .. 7
Place(p, k) ==
    CASE k <= 2 -> p.stage[k]
      [] k = 3  -> IF Len(p.cut) = 2 THEN p.cut[2] ELSE None
      [] k = 4  -> IF p.cut # <<>> THEN p.cut[1] ELSE None
      [] k >= 5 -> p.stage[k - 2]
Work(n0, word, params, k) ==
    CASE k = 0      -> n0
      [] k = 1      -> Response(n0, word)
      [] k = 2      -> Product(Response(n0, word), params)
      [] k \in 3 .. 5 -> Candidate(Product(Response(n0, word), params))
      [] k \in 6 .. 7 -> Decision(Candidate(Product(Response(n0, word), params)), params)

\* The cut holds at most two candidates, and is ready when it holds fewer.
CutWell(p, cut) ==
    /\ p.cut \in Seq(Candidates) /\ Len(p.cut) <= 2
    /\ IF cut THEN p.cut_ready = (Len(p.cut) < 2) ELSE p.cut = <<>>

Issued(n) == [neuron |-> n, tick |-> current_tick, accumulator |-> bank[n]]
InFlight(n) == \E k \in Places : Place(pipe, k) # None /\ Place(pipe, k).neuron = n

\* mempipe: the neurons before the cursor are done, the one under it is in work.
MempipeInv ==
    /\ state \in {"SCAN", "NEURON_WAIT", "NEURON_COMMIT"} =>
          cursor \in 1 .. Len(fixture.params) + 1 /\ \A m \in touched : m >= cursor
    /\ state \in {"NEURON_WAIT", "NEURON_COMMIT"} => cursor \in touched
    /\ state = "NEURON_WAIT" => memory = ram[cursor]
    /\ state = "NEURON_COMMIT" => result = Work(Issued(cursor), ram[cursor], fixture.params, 7)

\* The pipelines: each place holds what has to be made of its neuron, in ascending order
\* from the far end, and the touched neurons before the cursor are all there.
PipelineInv ==
    /\ CutWell(pipe, Cut)
    /\ pipe.stage[0] # None => memory = ram[pipe.stage[0].neuron]
    /\ \A k \in Places : Place(pipe, k) # None =>
          /\ Place(pipe, k).neuron \in touched
          /\ Place(pipe, k) = Work(Issued(Place(pipe, k).neuron), ram[Place(pipe, k).neuron],
                                   fixture.params, k)
    /\ \A k, l \in Places : k < l /\ Place(pipe, k) # None /\ Place(pipe, l) # None =>
          Place(pipe, l).neuron < Place(pipe, k).neuron
    /\ state = "SCAN_PIPELINE" =>
          /\ cursor \in 1 .. Len(fixture.params) + 1
          /\ \A n \in touched : n < cursor <=> InFlight(n)
    /\ state = "PIPELINE_DRAIN" => \A n \in touched : InFlight(n)

IInv ==
    /\ TypeInv /\ InitialiseInv /\ QuietInv /\ FrontInv /\ SumsInv /\ MempipeInv /\ PipelineInv
-----------------------------------------------------------------------------
(* The contributions of a tick. *)

\* A member of a sequence.
LEMMA MemberOf ==
    ASSUME NEW S, NEW s \in Seq(S)
    PROVE  /\ DOMAIN s = 1 .. Len(s) /\ Len(s) \in Nat
           /\ \A i \in 1 .. Len(s) : s[i] \in S
           /\ IsFiniteSet(DOMAIN s)
<1>1. DOMAIN s = 1 .. Len(s) /\ Len(s) \in Nat /\ \A i \in 1 .. Len(s) : s[i] \in S
  OBVIOUS
<1>2. IsFiniteSet(1 .. Len(s))
  BY <1>1, FS_Interval
<1> QED BY <1>1, <1>2

\* The program that runs.
LEMMA FixtureFacts ==
    ASSUME TypeInv
    PROVE  /\ fixture.ticks \in Seq([id : Int, events : Seq(EventRecords)])
           /\ fixture.fanout \in Seq(Seq([target : Neurons, weight : Int]))
           /\ fixture.params \in Seq(NeuronParams) /\ fixture.voltage \in [Neurons -> Int]
           /\ Neurons = 1 .. Len(fixture.params) /\ Len(fixture.params) \in Nat \ {0}
           /\ \A n \in Neurons :
                 /\ fixture.params[n] \in NeuronParams
                 /\ ~fixture.params[n].alif /\ fixture.params[n].adaptation_decay = 0
                 /\ fixture.params[n].threshold \in ThresholdFormat.min .. ThresholdFormat.max
<1>1. IsFixture(fixture)
  BY SettingsAssumption DEF TypeInv, fixture
<1>2. fixture.params \in Seq(NeuronParams) /\ fixture.params # <<>>
  BY <1>1 DEF IsFixture
<1>3. Neurons = 1 .. Len(fixture.params) /\ Len(fixture.params) \in Nat \ {0}
  BY <1>2 DEF Neurons
<1>4. \A n \in Neurons : fixture.params[n] \in NeuronParams
  BY <1>2, <1>3, MemberOf
<1> QED BY <1>1, <1>2, <1>3, <1>4 DEF IsFixture, EventRecords, Neurons

\* The tick that runs.
LEMMA TickFacts ==
    ASSUME TypeInv, begun >= 1
    PROVE  /\ begun \in 1 .. Len(fixture.ticks) /\ current_tick \in Int
           /\ Events \in Seq(EventRecords)
           /\ DOMAIN Events = 1 .. Len(Events) /\ Len(Events) \in Nat
           /\ \A i \in 1 .. Len(Events) :
                 /\ Events[i] \in EventRecords
                 /\ Events[i].axon \in DOMAIN fixture.fanout /\ Events[i].payload \in Int
                 /\ fixture.fanout[Events[i].axon] \in Seq([target : Neurons, weight : Int])
<1>1. begun \in 1 .. Len(fixture.ticks)
  BY FixtureFacts, MemberOf DEF TypeInv
<1>2. fixture.ticks[begun] \in [id : Int, events : Seq(EventRecords)]
  BY <1>1, FixtureFacts, MemberOf
<1>3. current_tick \in Int /\ Events \in Seq(EventRecords)
  BY <1>2 DEF current_tick, Events
<1>4. DOMAIN Events = 1 .. Len(Events) /\ Len(Events) \in Nat
  BY <1>3, MemberOf
<1>5. ASSUME NEW i \in 1 .. Len(Events)
      PROVE  /\ Events[i] \in EventRecords
             /\ Events[i].axon \in DOMAIN fixture.fanout /\ Events[i].payload \in Int
  <2>1. Events[i] \in EventRecords
    BY <1>3, MemberOf
  <2> QED BY <2>1 DEF EventRecords
<1>6. ASSUME NEW i \in 1 .. Len(Events)
      PROVE  fixture.fanout[Events[i].axon] \in Seq([target : Neurons, weight : Int])
  <2>1. Events[i].axon \in DOMAIN fixture.fanout
    BY <1>5
  <2> QED BY <2>1, FixtureFacts, MemberOf
<1> QED BY <1>1, <1>3, <1>4, <1>5, <1>6

\* Its contributions are finitely many integers that go to neurons.
LEMMA ContributionsAre ==
    ASSUME TypeInv, begun >= 1
    PROVE  /\ IsFiniteSet(Contributed)
           /\ \A x : x \in Contributed <=> \E i \in 1 .. Len(Events) :
                 \E a \in DOMAIN fixture.fanout[Events[i].axon] : x = <<i, a>>
           /\ \A x \in Contributed : x[1] \in 1 .. Len(Events) /\ Goes(x) \in Neurons /\ Values[x] \in Int
<1> DEFINE addresses(i) == {<<i, a>> : a \in DOMAIN fixture.fanout[Events[i].axon]}
           columns == {addresses(i) : i \in 1 .. Len(Events)}
<1>1. DOMAIN Events = 1 .. Len(Events) /\ Len(Events) \in Nat
  BY TickFacts
<1>2. Contributed = UNION columns
  BY <1>1 DEF Contributed, Abstract!Contributions
<1>3. ASSUME NEW i \in 1 .. Len(Events), NEW a \in DOMAIN fixture.fanout[Events[i].axon]
      PROVE  fixture.fanout[Events[i].axon][a] \in [target : Neurons, weight : Int]
  BY TickFacts, MemberOf
<1>4. ASSUME NEW i \in 1 .. Len(Events)
      PROVE  IsFiniteSet(addresses(i))
  <2> DEFINE D == DOMAIN fixture.fanout[Events[i].axon]
             pair == [a \in D |-> <<i, a>>]
  <2>1. IsFiniteSet(D)
    BY TickFacts, MemberOf
  <2>2. \A y \in addresses(i) : \E a \in D : y = pair[a]
    OBVIOUS
  <2> HIDE DEF D, pair, addresses
  <2> QED BY <2>1, <2>2, ImageBound
<1>5. IsFiniteSet(Contributed)
  <2>1. IsFiniteSet(1 .. Len(Events))
    BY <1>1, FS_Interval
  <2>3. IsFiniteSet(columns)
    <3> DEFINE column == [i \in 1 .. Len(Events) |-> addresses(i)]
    <3>1. \A y \in columns : \E i \in 1 .. Len(Events) : y = column[i]
      OBVIOUS
    <3> HIDE DEF addresses, columns, column
    <3> QED BY <2>1, <3>1, ImageBound
  <2>4. \A c \in columns : IsFiniteSet(c)
    BY <1>4
  <2> HIDE DEF columns
  <2> QED BY <1>2, <2>3, <2>4, FS_UNION
<1>6. ASSUME NEW x
      PROVE  x \in Contributed <=> \E i \in 1 .. Len(Events) :
                 \E a \in DOMAIN fixture.fanout[Events[i].axon] : x = <<i, a>>
  <2>1. x \in Contributed <=> \E i \in 1 .. Len(Events) : x \in addresses(i)
    <3> HIDE DEF addresses
    <3> QED BY <1>2
  <2> QED BY <2>1
<1>7. ASSUME NEW x \in Contributed
      PROVE  x[1] \in 1 .. Len(Events) /\ Goes(x) \in Neurons /\ Values[x] \in Int
  <2>1. PICK i \in 1 .. Len(Events) : \E a \in DOMAIN fixture.fanout[Events[i].axon] : x = <<i, a>>
    BY <1>6
  <2>2. PICK a \in DOMAIN fixture.fanout[Events[i].axon] : x = <<i, a>>
    BY <2>1
  <2>3. fixture.fanout[Events[i].axon][a] \in [target : Neurons, weight : Int]
    BY <1>3
  <2>4. Events[i].payload \in Int
    BY TickFacts
  <2> QED BY <2>2, <2>3, <2>4 DEF Goes, Values, Abstract!Target, Abstract!Value
<1> QED BY <1>5, <1>6, <1>7

\* The sums of the abstract scan.
LEMMA AccumulatedIsSum ==
    ASSUME TypeInv, begun >= 1, NEW n
    PROVE  Abstract!Accumulated(Events, n) = Sum(Contributed, n)
<1> DEFINE S == {x \in Contributed : Goes(x) = n}
           A == {x \in Abstract!Contributions(Events) : Abstract!Target(Events, x) = n}
           Solves(g) == g = [s \in SUBSET A |-> IF s = {} THEN 0
                            ELSE LET x == CHOOSE x \in s : TRUE
                                 IN  Abstract!Value(Events, x) + g[s \ {x}]]
           c == CHOOSE g : Solves(g)
<1>1. A = S /\ S \subseteq Contributed
  BY DEF Contributed, Goes
<1>2. IsFiniteSet(S)
  BY <1>1, ContributionsAre, FS_Subset
<1>3. Abstract!Accumulated(Events, n) = c[A]
  BY DEF Abstract!Accumulated, Abstract!MapThenSumSet, Abstract!MapThenFoldSet
<1>4. ASSUME NEW g
      PROVE  Solves(g) <=> IsSum(Values, A, g)
  <2>1. \A x \in A : Values[x] = Abstract!Value(Events, x)
    BY <1>1 DEF Values
  <2>2. \A s \in SUBSET A :
           (IF s = {} THEN 0
            ELSE LET x == CHOOSE x \in s : TRUE IN Abstract!Value(Events, x) + g[s \ {x}])
         = (IF s = {} THEN 0
            ELSE LET x == CHOOSE x \in s : TRUE IN Values[x] + g[s \ {x}])
    BY <2>1
  <2> HIDE DEF A
  <2> QED BY <2>2 DEF IsSum
<1>5. IsFiniteSet(A)
  BY <1>1, <1>2
<1>6. IsSum(Values, A, c)
  <2>1. PICK g : IsSum(Values, A, g)
    <3> HIDE DEF A
    <3> QED BY <1>5, SumExists
  <2>2. Solves(g)
    BY <1>4, <2>1
  <2> HIDE DEF Solves
  <2>3. Solves(c)
    BY <2>2
  <2> QED BY <1>4, <2>3
<1>7. SumOf(Values, A) = c[A]
  <2> HIDE DEF A, c
  <2> QED BY <1>5, <1>6, SumSolved
<1>8. Sum(Contributed, n) = SumOf(Values, S)
  BY DEF Sum
<1> QED BY <1>1, <1>3, <1>7, <1>8

\* As long as the tick runs, they stay what they are.
LEMMA SameTick ==
    ASSUME UNCHANGED <<setting, begun>>
    PROVE  /\ fixture' = fixture /\ Neurons' = Neurons /\ Cut' = Cut
           /\ Events' = Events /\ current_tick' = current_tick
           /\ EventRecords' = EventRecords
           /\ Contributed' = Contributed /\ Values' = Values
           /\ \A x : Goes(x)' = Goes(x)
           /\ \A X, n : Sum(X, n)' = Sum(X, n)
<1>1. fixture' = fixture
  BY DEF fixture
<1>2. Neurons' = Neurons /\ Cut' = Cut /\ Events' = Events /\ current_tick' = current_tick
      /\ EventRecords' = EventRecords
  BY <1>1 DEF Neurons, Cut, Events, current_tick, EventRecords
<1>3. Contributed' = Contributed
  BY <1>1, <1>2 DEF Contributed, Abstract!Contributions
<1>4. \A x : Goes(x)' = Goes(x)
  BY <1>1, <1>2 DEF Goes, Abstract!Target
<1>5. Values' = Values
  BY <1>1, <1>2, <1>3 DEF Values, Abstract!Value
<1>6. \A X, n : Sum(X, n)' = Sum(X, n)
  BY <1>4, <1>5 DEF Sum
<1> QED BY <1>1, <1>2, <1>3, <1>4, <1>5, <1>6

\* One more contribution changes the sum of its target.
LEMMA SumGrows ==
    ASSUME TypeInv, begun >= 1, NEW X, X \subseteq Contributed, NEW x \in Contributed \ X, NEW n
    PROVE  /\ Sum(X, n) \in Int
           /\ Sum(X \cup {x}, n) = Sum(X, n) + (IF Goes(x) = n THEN Values[x] ELSE 0)
<1> DEFINE S == {y \in X : Goes(y) = n}
           T == {y \in X \cup {x} : Goes(y) = n}
<1>1. IsFiniteSet(S) /\ x \notin S
  <2>1. S \subseteq Contributed
    OBVIOUS
  <2>2. IsFiniteSet(S)
    BY <2>1, ContributionsAre, FS_Subset
  <2> QED BY <2>2
<1>2. \A y \in S \cup {x} : Values[y] \in Int
  BY ContributionsAre
<1>3. Sum(X, n) = SumOf(Values, S) /\ Sum(X \cup {x}, n) = SumOf(Values, T)
  BY DEF Sum
<1>4. IF Goes(x) = n THEN T = S \cup {x} ELSE T = S
  OBVIOUS
<1> HIDE DEF S, T
<1>5. SumOf(Values, S) \in Int /\ SumOf(Values, S \cup {x}) = SumOf(Values, S) + Values[x]
  BY <1>1, <1>2, SumAdd
<1>6. CASE Goes(x) = n
  BY <1>3, <1>4, <1>5, <1>6
<1>7. CASE Goes(x) # n
  BY <1>3, <1>4, <1>5, <1>7
<1> QED BY <1>6, <1>7

\* A neuron that no contribution goes to has the sum 0.
LEMMA SumOfNone ==
    ASSUME NEW X, NEW n, \A x \in X : Goes(x) # n
    PROVE  Sum(X, n) = 0
<1>1. {x \in X : Goes(x) = n} = {}
  OBVIOUS
<1>2. IsFiniteSet({}) /\ SumOf(Values, {}) = 0
  BY FS_EmptySet, SumStep
<1> QED BY <1>1, <1>2 DEF Sum

-----------------------------------------------------------------------------
(* The spike FIFO, and what the places of the pipeline hold. *)

\* No spike is lost, repeated or overtaken.
LEMMA SpikeFlow ==
    ASSUME TypeInv, NEW enqueued \in Seq(Spikes), SpikeFifo(enqueued)
    PROVE  /\ fifo' \in Seq(Spikes) /\ taken' \in Seq(Spikes)
           /\ taken' \o fifo' = (taken \o fifo) \o enqueued
           /\ fifo = <<>> /\ enqueued = <<>> => fifo' = <<>>
<1>1. fifo \in Seq(Spikes) /\ taken \in Seq(Spikes)
  BY DEF TypeInv
<1>2. CASE UNCHANGED taken /\ fifo' = fifo \o enqueued
  BY <1>1, <1>2
<1>3. CASE fifo # <<>> /\ taken' = Append(taken, Head(fifo)) /\ fifo' = Tail(fifo) \o enqueued
  <2>1. fifo' \in Seq(Spikes) /\ taken' \in Seq(Spikes)
    BY <1>1, <1>3
  <2>2. Append(taken, Head(fifo)) \o Tail(fifo) = taken \o fifo
    BY <1>1, <1>3
  <2>3. Append(taken, Head(fifo)) \o (Tail(fifo) \o enqueued)
            = (Append(taken, Head(fifo)) \o Tail(fifo)) \o enqueued
    <3> DEFINE a == Append(taken, Head(fifo))
               b == Tail(fifo)
    <3>1. a \in Seq(Spikes) /\ b \in Seq(Spikes)
      BY <1>1, <1>3
    <3> HIDE DEF a, b
    <3>2. a \o (b \o enqueued) = (a \o b) \o enqueued
      BY <3>1
    <3> QED BY <3>2 DEF a, b
  <2> QED BY <1>3, <2>1, <2>2, <2>3
<1> QED BY <1>2, <1>3 DEF SpikeFifo

\* Whatever is narrowed to the accumulator or the membrane is an integer.
LEMMA NarrowedIsInt ==
    ASSUME NEW v \in Int
    PROVE  narrow_to_format(v, AccumulatorFormat) \in Int /\ narrow_to_format(v, MembraneFormat) \in Int
<1>1. /\ AccumulatorFormat.min \in Int /\ AccumulatorFormat.max \in Int
      /\ MembraneFormat.min \in Int /\ MembraneFormat.max \in Int
  BY FormatsAssumption DEF IsFormat, Formats
<1>2. /\ narrow_to_format(v, AccumulatorFormat) \in AccumulatorFormat.min .. AccumulatorFormat.max
      /\ narrow_to_format(v, MembraneFormat) \in MembraneFormat.min .. MembraneFormat.max
  BY FormatsAssumption, NarrowFits
<1> QED BY <1>1, <1>2

\* What is made of a touched neuron is of the type of its place, and names the neuron.
LEMMA WorkIs ==
    ASSUME TypeInv, begun >= 1, NEW n \in Neurons, NEW k \in Places
    PROVE  LET w == Work(Issued(n), ram[n], fixture.params, k)
           IN  /\ w # None /\ w.neuron = n /\ w.tick = current_tick
               /\ k \in 3 .. 5 => w \in Candidates
               /\ k \in 6 .. 7 => w \in Decisions
<1> DEFINE n0 == Issued(n)
           n1 == Response(n0, ram[n])
           n2 == Product(n1, fixture.params)
           n3 == Candidate(n2)
           n4 == Decision(n3, fixture.params)
<1>1. /\ n \in Int /\ current_tick \in Int /\ bank[n] \in Int
      /\ ram[n].voltage \in Int /\ ram[n].last_update \in Int
      /\ fixture.params[n].leak \in Int /\ fixture.params[n].reset \in Int
  <2>1. n \in Int /\ current_tick \in Int
    BY TickFacts, FixtureFacts
  <2>2. bank[n] \in Int /\ ram[n] \in [voltage : Int, last_update : Int]
    BY DEF TypeInv
  <2>3. fixture.params[n] \in NeuronParams
    BY FixtureFacts
  <2> QED BY <2>1, <2>2, <2>3 DEF NeuronParams
<1>2. n0 \in Issues /\ n0.neuron = n /\ n0.tick = current_tick
  BY <1>1 DEF Issued, Issues
<1>3. n1 \in Responses /\ n1.neuron = n /\ n1.tick = current_tick
  BY <1>1 DEF Issued, Response, Responses
<1>4. n2 \in Products /\ n2.neuron = n /\ n2.tick = current_tick
  <2>1. narrow_to_format(n1.accumulator, AccumulatorFormat) \in Int
    BY <1>3, NarrowedIsInt DEF Responses
  <2>2. n1.elapsed \in Int /\ n1.voltage \in Int
    BY <1>3 DEF Responses
  <2>3. fixture.params[n].leak * n1.elapsed \in Int
    BY <1>1, <2>2
  <2> HIDE DEF n1
  <2> QED BY <1>1, <1>3, <2>1, <2>2, <2>3 DEF Product, Products
<1>5. n3 \in Candidates /\ n3.neuron = n /\ n3.tick = current_tick
  <2> HIDE DEF n2
  <2>1. move_toward_zero(n2.voltage, n2.leak_delta) + n2.accumulator \in Int
    BY <1>4 DEF Products, move_toward_zero
  <2> QED BY <1>1, <1>4, <2>1, NarrowedIsInt DEF Candidate, Candidates
<1>6. n4 \in Decisions /\ n4.neuron = n /\ n4.tick = current_tick
  <2> HIDE DEF n3
  <2> QED BY <1>1, <1>5 DEF Decision, Decisions, Candidates
<1>7. n0 # None /\ n1 # None /\ n2 # None /\ n3 # None /\ n4 # None
  <2> HIDE DEF n0, n1, n2, n3, n4
  <2> QED BY <1>2, <1>3, <1>4, <1>5, <1>6, NoneAssumption
<1>8. Work(n0, ram[n], fixture.params, k) =
         CASE k = 0 -> n0 [] k = 1 -> n1 [] k = 2 -> n2 [] k \in 3 .. 5 -> n3 [] k \in 6 .. 7 -> n4
  BY DEF Work
<1>9. k = 0 \/ k = 1 \/ k = 2 \/ k \in 3 .. 5 \/ k \in 6 .. 7
  BY DEF Places
<1> HIDE DEF n0, n1, n2, n3, n4
<1> QED BY <1>2, <1>3, <1>4, <1>5, <1>6, <1>7, <1>8, <1>9 DEF n0

\* The place that what is in place k moves to at a clock edge, 8 when it retires.
MovesTo(p, k, occupancy, cut) ==
    LET ready(i) == Ready(p, i, occupancy, cut)
        dequeue  == cut /\ p.cut # <<>> /\ ready(3)
    IN  CASE k \in 0 .. 1     -> IF ready(k) THEN k + 1 ELSE k
          [] k = 2 /\ ~cut    -> IF ready(2) THEN 5 ELSE 2
          [] k = 2 /\ cut     -> IF ~p.cut_ready THEN 2
                                 ELSE IF p.cut = <<>> \/ dequeue THEN 4 ELSE 3
          [] k \in 3 .. 4     -> IF dequeue THEN k + 1 ELSE k
          [] k \in 5 .. 6     -> IF ready(k - 2) THEN k + 1 ELSE k
          [] k = 7            -> IF Commits(p, occupancy) THEN 8 ELSE 7

\* w is what is made of the neuron in a place, at each place.
Worked(w, params) ==
    /\ w[2] = Product(w[1], params)
    /\ w[3] = Candidate(w[2]) /\ w[4] = w[3] /\ w[5] = w[3]
    /\ w[6] = Decision(w[5], params) /\ w[7] = w[6]

\* A stage that is empty is ready, one that is not is ready when what follows takes over.
LEMMA ReadyChain ==
    ASSUME NEW p, NEW occupancy, NEW cut \in BOOLEAN
    PROVE  /\ \A i \in Stages : p.stage[i] = None => Ready(p, i, occupancy, cut)
           /\ \A i \in 0 .. 4 : p.stage[i] # None /\ ~(cut /\ i = 2) =>
                 (Ready(p, i, occupancy, cut) <=> Ready(p, i + 1, occupancy, cut))
           /\ cut /\ p.stage[2] # None => (Ready(p, 2, occupancy, cut) <=> p.cut_ready)
           /\ p.stage[5] # None => (Ready(p, 5, occupancy, cut) <=> Commits(p, occupancy))
<1>1. ASSUME NEW i \in Stages, p.stage[i] = None
      PROVE  Ready(p, i, occupancy, cut)
  BY <1>1 DEF Ready, Stages
<1>2. ASSUME NEW i \in 0 .. 4, p.stage[i] # None, ~(cut /\ i = 2)
      PROVE  Ready(p, i, occupancy, cut) <=> Ready(p, i + 1, occupancy, cut)
  <2>1. i \in Stages /\ i # 5
    BY DEF Stages
  <2> QED BY <1>2, <2>1, StagesHandOver
<1>3. ASSUME cut, p.stage[2] # None
      PROVE  Ready(p, 2, occupancy, cut) <=> p.cut_ready
  BY <1>3 DEF Ready
<1>4. ASSUME p.stage[5] # None
      PROVE  Ready(p, 5, occupancy, cut) <=> Commits(p, occupancy)
  BY <1>4 DEF Ready, Commits, Leaves
<1> QED BY <1>1, <1>2, <1>3, <1>4

\* The registers after an edge.
LEMMA StageAfter ==
    ASSUME NEW p, NEW issue, NEW word, NEW params, NEW occupancy, NEW cut \in BOOLEAN
    PROVE  LET q == Step(p, issue, word, params, occupancy, cut)
               r(i) == Ready(p, i, occupancy, cut)
               s(i) == p.stage[i]
           IN  /\ q.stage[0] = IF r(0) THEN issue ELSE s(0)
               /\ q.stage[1] = IF r(1) THEN IF s(0) = None THEN None ELSE Response(s(0), word) ELSE s(1)
               /\ q.stage[2] = IF r(2) THEN IF s(1) = None THEN None ELSE Product(s(1), params) ELSE s(2)
               /\ ~cut => q.stage[3] = IF r(3) THEN IF s(2) = None THEN None ELSE Candidate(s(2))
                                       ELSE s(3)
               /\ cut => q.stage[3] = IF r(3) THEN IF p.cut = <<>> THEN None ELSE Head(p.cut) ELSE s(3)
               /\ q.stage[4] = IF r(4) THEN IF s(3) = None THEN None ELSE Decision(s(3), params) ELSE s(4)
               /\ q.stage[5] = IF r(5) THEN s(4) ELSE s(5)
<1> DEFINE q == Step(p, issue, word, params, occupancy, cut)
<1>1. \A i \in Stages : q.stage[i] = IF Ready(p, i, occupancy, cut)
                                     THEN Loads(p, i, issue, word, params, cut) ELSE p.stage[i]
  BY DEF Step
<1>2. 0 \in Stages /\ 1 \in Stages /\ 2 \in Stages /\ 3 \in Stages /\ 4 \in Stages /\ 5 \in Stages
  BY DEF Stages
<1>3. /\ Loads(p, 0, issue, word, params, cut) = issue
      /\ Loads(p, 1, issue, word, params, cut)
             = IF p.stage[0] = None THEN None ELSE Response(p.stage[0], word)
      /\ Loads(p, 2, issue, word, params, cut)
             = IF p.stage[1] = None THEN None ELSE Product(p.stage[1], params)
  BY DEF Loads
<1>4. /\ ~cut => Loads(p, 3, issue, word, params, cut)
                     = IF p.stage[2] = None THEN None ELSE Candidate(p.stage[2])
      /\ cut => Loads(p, 3, issue, word, params, cut)
                    = IF p.cut = <<>> THEN None ELSE Head(p.cut)
  BY DEF Loads
<1>5. /\ Loads(p, 4, issue, word, params, cut)
             = IF p.stage[3] = None THEN None ELSE Decision(p.stage[3], params)
      /\ Loads(p, 5, issue, word, params, cut) = p.stage[4]
  BY DEF Loads
<1> HIDE DEF q
<1> QED BY <1>1, <1>2, <1>3, <1>4, <1>5 DEF q

\* The members of a concatenation.
LEMMA ConcatAt ==
    ASSUME NEW S, NEW u \in Seq(S), NEW v \in Seq(S)
    PROVE  /\ u \o v \in Seq(S) /\ Len(u \o v) = Len(u) + Len(v)
           /\ \A i \in 1 .. Len(u) : (u \o v)[i] = u[i]
           /\ \A i \in 1 .. Len(v) : (u \o v)[Len(u) + i] = v[i]
           /\ u \o v = <<>> <=> Len(u \o v) = 0
OBVIOUS

\* The members of a tail.
LEMMA TailAt ==
    ASSUME NEW S, NEW s \in Seq(S), s # <<>>
    PROVE  /\ Tail(s) \in Seq(S) /\ Len(Tail(s)) = Len(s) - 1
           /\ \A k \in 1 .. Len(s) - 1 : Tail(s)[k] = s[1 + k]
OBVIOUS

\* The cut after an edge: what was in it has moved towards its head, and the candidate of
\* N2 is behind it.
LEMMA CutAfterEdge ==
    ASSUME NEW p, NEW issue, NEW word, NEW params, NEW occupancy, NEW cut \in BOOLEAN,
           CutWell(p, cut), NEW x, p.stage[2] # None => x = Candidate(p.stage[2]) /\ x \in Candidates
    PROVE  LET q == Step(p, issue, word, params, occupancy, cut)
               enqueue == cut /\ p.stage[2] # None /\ p.cut_ready
               dequeue == cut /\ p.cut # <<>> /\ Ready(p, 3, occupancy, cut)
           IN  /\ CutWell(q, cut)
               /\ Place(q, 4) = CASE dequeue /\ Len(p.cut) = 2 -> Place(p, 3)
                                  [] ~dequeue /\ p.cut # <<>>  -> Place(p, 4)
                                  [] enqueue /\ (p.cut = <<>> \/ dequeue) -> x
                                  [] OTHER -> None
               /\ Place(q, 3) = CASE ~dequeue /\ Len(p.cut) = 2 -> Place(p, 3)
                                  [] ~dequeue /\ enqueue /\ Len(p.cut) = 1 -> x
                                  [] OTHER -> None
               /\ dequeue => Head(p.cut) = Place(p, 4)
               /\ p.cut = <<>> => Place(p, 3) = None /\ Place(p, 4) = None
               /\ Len(p.cut) = 1 => Place(p, 3) = None /\ p.cut # <<>>
               /\ Len(p.cut) = 2 => p.cut # <<>>
               /\ Len(p.cut) \in 0 .. 2 /\ (p.cut = <<>> <=> Len(p.cut) = 0)
<1> DEFINE q == Step(p, issue, word, params, occupancy, cut)
           enqueue == cut /\ p.stage[2] # None /\ p.cut_ready
           dequeue == cut /\ p.cut # <<>> /\ Ready(p, 3, occupancy, cut)
           s == p.cut
           t == q.cut
           len == Len(p.cut)
           m == IF dequeue THEN len - 1 ELSE len
<1>1. /\ t = (IF dequeue THEN Tail(s) ELSE s) \o (IF enqueue THEN <<x>> ELSE <<>>)
      /\ q.cut_ready = CASE enqueue /\ ~dequeue -> len < 1
                         [] dequeue /\ ~enqueue -> TRUE
                         [] OTHER -> len < 2
  BY DEF Step, CutAfter
<1>2. /\ s \in Seq(Candidates) /\ len <= 2
      /\ cut => p.cut_ready = (len < 2)
      /\ ~cut => s = <<>>
  BY DEF CutWell
<1>3. /\ Place(q, 3) = IF Len(t) = 2 THEN t[2] ELSE None
      /\ Place(q, 4) = IF t # <<>> THEN t[1] ELSE None
      /\ Place(p, 3) = IF len = 2 THEN s[2] ELSE None
      /\ Place(p, 4) = IF s # <<>> THEN s[1] ELSE None
  BY DEF Place
<1>4. /\ enqueue => len < 2 /\ x \in Candidates
      /\ dequeue => s # <<>>
      /\ ~cut => ~enqueue /\ ~dequeue
      /\ enqueue \in BOOLEAN /\ dequeue \in BOOLEAN
  BY <1>2
<1>5. CutWell(q, cut) <=> /\ t \in Seq(Candidates) /\ Len(t) <= 2
                          /\ cut => q.cut_ready = (Len(t) < 2)
                          /\ ~cut => t = <<>>
  BY DEF CutWell
<1>0. s \in Seq(Candidates) /\ len = Len(s)
  BY <1>2
<1> HIDE DEF q, s, t, enqueue, dequeue, len, m
<1>6. /\ len \in 0 .. 2 /\ (s = <<>> <=> len = 0) /\ m \in 0 .. 2
      /\ t \in Seq(Candidates) /\ Len(t) = (IF enqueue THEN m + 1 ELSE m) /\ (t = <<>> <=> Len(t) = 0)
      /\ m = 0 /\ enqueue => t[1] = x
      /\ m = 1 /\ enqueue => t[2] = x
      /\ m >= 1 => t[1] = IF dequeue THEN s[2] ELSE s[1]
      /\ m = 2 => t[2] = s[2]
      /\ s # <<>> => Head(s) = s[1]
  <2> DEFINE kept == IF dequeue THEN Tail(s) ELSE s
             added == IF enqueue THEN <<x>> ELSE <<>>
             a == Len(added)
  <2>1. m = IF dequeue THEN len - 1 ELSE len
    BY DEF m
  <2>2. len \in Nat /\ (s = <<>> <=> len = 0) /\ (s # <<>> => Head(s) = s[1])
    BY <1>0
  <2>3. m \in 0 .. 2 /\ len \in 0 .. 2 /\ (dequeue => m < 2 /\ len >= 1)
    <3>1. len <= 2 /\ (dequeue => len # 0)
      BY <1>2, <1>4, <2>2
    <3> QED BY ONLY <2>1, <2>2, <3>1
  <2>4. /\ kept \in Seq(Candidates) /\ Len(kept) = m
        /\ m >= 1 => kept[1] = IF dequeue THEN s[2] ELSE s[1]
        /\ m = 2 => kept[2] = s[2]
    <3>1. CASE dequeue
      <4>1. s # <<>> /\ m = Len(s) - 1
        BY <1>0, <1>4, <2>1, <3>1
      <4>2. Tail(s) \in Seq(Candidates) /\ Len(Tail(s)) = m
        BY <1>0, <4>1
      <4>3. m >= 1 => Tail(s)[1] = s[2]
        BY <1>0, <4>1
      <4> QED BY <2>3, <3>1, <4>2, <4>3
    <3>2. CASE ~dequeue
      BY <1>0, <2>1, <2>3, <3>2
    <3> QED BY <3>1, <3>2
  <2>5. added \in Seq(Candidates) /\ a = (IF enqueue THEN 1 ELSE 0) /\ (enqueue => added[1] = x)
    BY <1>4
  <2>6. t = kept \o added
    BY <1>1
  <2> HIDE DEF kept, added
  <2>7. /\ t \in Seq(Candidates) /\ Len(t) = m + a /\ (t = <<>> <=> Len(t) = 0)
        /\ \A i \in 1 .. m : t[i] = kept[i]
        /\ \A i \in 1 .. a : t[m + i] = added[i]
    <3>1. kept \in Seq(Candidates) /\ added \in Seq(Candidates) /\ Len(kept) = m
      BY <2>4, <2>5
    <3>2. /\ kept \o added \in Seq(Candidates) /\ Len(kept \o added) = Len(kept) + Len(added)
          /\ \A i \in 1 .. Len(kept) : (kept \o added)[i] = kept[i]
          /\ \A i \in 1 .. Len(added) : (kept \o added)[Len(kept) + i] = added[i]
          /\ kept \o added = <<>> <=> Len(kept \o added) = 0
      BY <3>1, ConcatAt
    <3> QED BY ONLY <2>6, <3>1, <3>2
  <2> HIDE DEF a
  <2>8. \A i \in 1 .. m : t[i] = kept[i]
    BY <2>7
  <2>9. \A i \in 1 .. a : t[m + i] = added[i]
    BY <2>7
  <2>10. m >= 1 => t[1] = kept[1]
    BY ONLY <2>3, <2>8
  <2>11. m = 2 => t[2] = kept[2]
    BY ONLY <2>3, <2>8
  <2>12. CASE enqueue
    <3>1. a = 1 /\ added[1] = x
      BY <2>5, <2>12
    <3>2. t[m + 1] = x
      BY ONLY <2>3, <2>9, <3>1
    <3> QED BY <2>2, <2>3, <2>4, <2>7, <2>10, <2>11, <2>12, <3>1, <3>2
  <2>13. CASE ~enqueue
    <3>1. a = 0
      BY <2>5, <2>13
    <3> QED BY <2>2, <2>3, <2>4, <2>7, <2>10, <2>11, <2>13, <3>1
  <2> QED BY <2>12, <2>13
<1>7. m = IF dequeue THEN len - 1 ELSE len
  BY DEF m
<1>8. CutWell(q, cut)
  <2>1. Len(t) <= 2 /\ (~cut => t = <<>>)
    BY <1>2, <1>4, <1>6, <1>7
  <2>2. cut => q.cut_ready = (Len(t) < 2)
    <3>1. CASE enqueue /\ dequeue
      <4>1. Len(t) = len
        BY <1>6, <1>7, <3>1
      <4>2. q.cut_ready = (len < 2)
        BY <1>1, <3>1
      <4> QED BY <4>1, <4>2
    <3>2. CASE enqueue /\ ~dequeue
      <4>1. Len(t) = len + 1
        BY <1>6, <1>7, <3>2
      <4>2. q.cut_ready = (len < 1)
        BY <1>1, <3>2
      <4>3. (len < 1) = (len + 1 < 2)
        BY <1>6
      <4> QED BY <4>1, <4>2, <4>3
    <3>3. CASE ~enqueue /\ dequeue
      <4>1. Len(t) < 2
        BY <1>6, <1>7, <3>3
      <4>2. q.cut_ready = TRUE
        BY <1>1, <3>3
      <4> QED BY <4>1, <4>2
    <3>4. CASE ~enqueue /\ ~dequeue
      <4>1. Len(t) = len
        BY <1>6, <1>7, <3>4
      <4>2. q.cut_ready = (len < 2)
        BY <1>1, <3>4
      <4> QED BY <4>1, <4>2
    <3> QED BY <3>1, <3>2, <3>3, <3>4
  <2> QED BY <1>5, <1>6, <2>1, <2>2
<1>9. /\ Place(q, 4) = CASE dequeue /\ len = 2 -> Place(p, 3)
                          [] ~dequeue /\ s # <<>>  -> Place(p, 4)
                          [] enqueue /\ (s = <<>> \/ dequeue) -> x
                          [] OTHER -> None
      /\ Place(q, 3) = CASE ~dequeue /\ len = 2 -> Place(p, 3)
                          [] ~dequeue /\ enqueue /\ len = 1 -> x
                          [] OTHER -> None
  BY <1>3, <1>4, <1>6, <1>7
<1>10. dequeue => Head(s) = Place(p, 4)
  BY <1>3, <1>4, <1>6
<1>11. /\ s = <<>> => Place(p, 3) = None /\ Place(p, 4) = None
       /\ len = 1 => Place(p, 3) = None /\ s # <<>>
       /\ len = 2 => s # <<>>
       /\ len \in 0 .. 2 /\ (s = <<>> <=> len = 0)
  BY <1>3, <1>6
<1> QED BY <1>8, <1>9, <1>10, <1>11 DEF q, s, len, enqueue, dequeue

\* w[k] is what is made of the neuron in place k at each place, and word what the state
\* memory answers the neuron in N0.
PlacesHold(p, w, params, word) ==
    /\ \A k \in Places : Place(p, k) # None =>
          /\ Place(p, k) = w[k][k] /\ Worked(w[k], params) /\ w[k][3] \in Candidates
          /\ \A j \in Places : w[k][j] # None
    /\ Place(p, 0) # None => w[0][1] = Response(w[0][0], word)

\* Whoever is in a place of p arrives where it goes in q, as what has to be made of it there,
\* nobody else is anywhere except the issued neuron in N0, and nobody is overtaken.
Moved(p, q, issue, w, occupancy, cut) ==
    LET to(k) == MovesTo(p, k, occupancy, cut)
        ready == Ready(p, 0, occupancy, cut)
    IN  /\ CutWell(q, cut)
        /\ \A k \in Places : Place(p, k) # None =>
              /\ to(k) \in k .. 8
              /\ to(k) # 8 => Place(q, to(k)) = w[k][to(k)]
              /\ to(k) = 8 <=> k = 7 /\ Commits(p, occupancy)
              /\ to(k) = 0 <=> k = 0 /\ ~ready
        /\ \A k, l \in Places : k < l /\ Place(p, k) # None /\ Place(p, l) # None => to(k) < to(l)
        /\ \A j \in Places : Place(q, j) # None =>
              \/ j = 0 /\ ready
              \/ \E k \in Places : Place(p, k) # None /\ to(k) = j
        /\ ready => Place(q, 0) = issue
        /\ ~ready => Place(q, 0) = Place(p, 0) /\ Place(p, 0) # None

\* At a clock edge what is in the places moves on in order.
LEMMA PlacesMove ==
    ASSUME NEW p, NEW issue, NEW word, NEW params, NEW occupancy, NEW cut \in BOOLEAN,
           CutWell(p, cut), NEW w, PlacesHold(p, w, params, word)
    PROVE  Moved(p, Step(p, issue, word, params, occupancy, cut), issue, w, occupancy, cut)
<1>0. /\ \A k \in Places : Place(p, k) # None =>
            /\ Place(p, k) = w[k][k] /\ Worked(w[k], params) /\ w[k][3] \in Candidates
            /\ \A j \in Places : w[k][j] # None
      /\ Place(p, 0) # None => w[0][1] = Response(w[0][0], word)
  BY DEF PlacesHold
<1> DEFINE q == Step(p, issue, word, params, occupancy, cut)
           to(k) == MovesTo(p, k, occupancy, cut)
           P == [k \in Places |-> Place(p, k)]
           Q == [k \in Places |-> Place(q, k)]
           t == [k \in Places |-> to(k)]
           r0 == Ready(p, 0, occupancy, cut)
           r1 == Ready(p, 1, occupancy, cut)
           r2 == Ready(p, 2, occupancy, cut)
           r3 == Ready(p, 3, occupancy, cut)
           r4 == Ready(p, 4, occupancy, cut)
           r5 == Ready(p, 5, occupancy, cut)
           commits == Commits(p, occupancy)
           dequeue == cut /\ p.cut # <<>> /\ r3
           len == Len(p.cut)
           x == w[2][3]
<1>1. /\ P[0] = p.stage[0] /\ P[1] = p.stage[1] /\ P[2] = p.stage[2]
      /\ P[5] = p.stage[3] /\ P[6] = p.stage[4] /\ P[7] = p.stage[5]
      /\ P[3] = Place(p, 3) /\ P[4] = Place(p, 4)
      /\ Q[0] = q.stage[0] /\ Q[1] = q.stage[1] /\ Q[2] = q.stage[2]
      /\ Q[5] = q.stage[3] /\ Q[6] = q.stage[4] /\ Q[7] = q.stage[5]
      /\ Q[3] = Place(q, 3) /\ Q[4] = Place(q, 4)
  <2> HIDE DEF q
  <2> QED BY DEF Places, Place
<1>2. p.stage[2] # None => x = Candidate(p.stage[2]) /\ x \in Candidates
  <2>1. 2 \in Places /\ Place(p, 2) = p.stage[2]
    BY DEF Places, Place
  <2> QED BY <1>0, <2>1 DEF Worked
<1>3. /\ t[0] = (IF r0 THEN 1 ELSE 0) /\ t[1] = (IF r1 THEN 2 ELSE 1)
      /\ ~cut => t[2] = IF r2 THEN 5 ELSE 2
      /\ cut => t[2] = IF ~p.cut_ready THEN 2 ELSE IF p.cut = <<>> \/ dequeue THEN 4 ELSE 3
      /\ t[3] = (IF dequeue THEN 4 ELSE 3) /\ t[4] = (IF dequeue THEN 5 ELSE 4)
      /\ t[5] = (IF r3 THEN 6 ELSE 5) /\ t[6] = (IF r4 THEN 7 ELSE 6)
      /\ t[7] = IF commits THEN 8 ELSE 7
  <2> HIDE DEF commits
  <2> QED BY DEF Places, MovesTo, commits
<1>4. /\ P[0] = None => r0
      /\ P[1] = None => r1
      /\ P[2] = None => r2
      /\ P[5] = None => r3
      /\ P[6] = None => r4
      /\ P[7] = None => r5
      /\ P[0] # None => (r0 <=> r1)
      /\ P[1] # None => (r1 <=> r2)
      /\ P[2] # None => IF cut THEN r2 <=> p.cut_ready ELSE r2 <=> r3
      /\ P[5] # None => (r3 <=> r4)
      /\ P[6] # None => (r4 <=> r5)
      /\ P[7] # None => (r5 <=> commits)
  BY <1>1, ReadyChain DEF Stages
<1>5. P[7] = None => ~commits
  BY <1>1 DEF Commits
<1>6. /\ Q[0] = (IF r0 THEN issue ELSE P[0])
      /\ Q[1] = (IF r1 THEN IF P[0] = None THEN None ELSE Response(P[0], word) ELSE P[1])
      /\ Q[2] = (IF r2 THEN IF P[1] = None THEN None ELSE Product(P[1], params) ELSE P[2])
      /\ ~cut => Q[5] = IF r3 THEN IF P[2] = None THEN None ELSE Candidate(P[2]) ELSE P[5]
      /\ cut => Q[5] = IF r3 THEN IF p.cut = <<>> THEN None ELSE Head(p.cut) ELSE P[5]
      /\ Q[6] = (IF r4 THEN IF P[5] = None THEN None ELSE Decision(P[5], params) ELSE P[6])
      /\ Q[7] = (IF r5 THEN P[6] ELSE P[7])
  <2> HIDE DEF P, Q
  <2> QED BY <1>1, StageAfter
<1> DEFINE enqueue == cut /\ p.stage[2] # None /\ p.cut_ready
<1>7. /\ CutWell(q, cut)
      /\ Q[4] = CASE dequeue /\ len = 2 -> P[3]
                  [] ~dequeue /\ p.cut # <<>>  -> P[4]
                  [] enqueue /\ (p.cut = <<>> \/ dequeue) -> x
                  [] OTHER -> None
      /\ Q[3] = CASE ~dequeue /\ len = 2 -> P[3]
                  [] ~dequeue /\ enqueue /\ len = 1 -> x
                  [] OTHER -> None
      /\ dequeue => Head(p.cut) = P[4]
      /\ p.cut = <<>> => P[3] = None /\ P[4] = None
      /\ len = 1 => P[3] = None /\ p.cut # <<>>
      /\ len = 2 => p.cut # <<>>
      /\ len \in 0 .. 2 /\ (p.cut = <<>> <=> len = 0)
  <2> HIDE DEF P, Q, x
  <2>1. Q[3] = Place(q, 3) /\ Q[4] = Place(q, 4) /\ P[3] = Place(p, 3) /\ P[4] = Place(p, 4)
    BY <1>1
  <2>2. /\ CutWell(q, cut)
        /\ Place(q, 4) = CASE dequeue /\ len = 2 -> Place(p, 3)
                           [] ~dequeue /\ p.cut # <<>>  -> Place(p, 4)
                           [] enqueue /\ (p.cut = <<>> \/ dequeue) -> x
                           [] OTHER -> None
        /\ Place(q, 3) = CASE ~dequeue /\ len = 2 -> Place(p, 3)
                           [] ~dequeue /\ enqueue /\ len = 1 -> x
                           [] OTHER -> None
        /\ dequeue => Head(p.cut) = Place(p, 4)
        /\ p.cut = <<>> => Place(p, 3) = None /\ Place(p, 4) = None
        /\ len = 1 => Place(p, 3) = None /\ p.cut # <<>>
        /\ len = 2 => p.cut # <<>>
        /\ len \in 0 .. 2 /\ (p.cut = <<>> <=> len = 0)
    BY <1>2, CutAfterEdge
  <2> HIDE DEF q, dequeue, enqueue, len
  <2> QED BY ONLY <2>1, <2>2
<1>8. /\ cut => p.cut_ready = (len < 2)
      /\ ~cut => p.cut = <<>>
  BY DEF CutWell
<1>9. \A k \in Places : P[k] # None =>
         /\ P[k] = w[k][k] /\ Worked(w[k], params)
         /\ \A j \in Places : w[k][j] # None
  BY <1>0
<1>10. P[0] # None => w[0][1] = Response(w[0][0], word)
  <2>1. P[0] = Place(p, 0)
    BY DEF Places
  <2> QED BY <1>0, <2>1
<1>11. /\ dequeue <=> cut /\ len # 0 /\ r3
       /\ enqueue <=> cut /\ P[2] # None /\ len < 2
       /\ p.cut = <<>> <=> len = 0
  BY <1>1, <1>7, <1>8
<1>12. /\ len = 0 => P[3] = None /\ P[4] = None
       /\ len = 1 => P[3] = None
       /\ ~cut => len = 0
       /\ len \in 0 .. 2
       /\ cut => t[2] = IF len = 2 THEN 2 ELSE IF len = 0 \/ dequeue THEN 4 ELSE 3
  <2> HIDE DEF P, t, len, dequeue
  <2>1. ~cut => len = 0
    BY <1>7, <1>8
  <2>2. ASSUME cut
        PROVE  t[2] = IF len = 2 THEN 2 ELSE IF len = 0 \/ dequeue THEN 4 ELSE 3
    <3>1. p.cut_ready <=> len # 2
      <4>1. p.cut_ready = (len < 2)
        BY <1>8, <2>2
      <4>2. len < 2 <=> len # 2
        BY <1>7
      <4> QED BY <4>1, <4>2
    <3>2. t[2] = IF ~p.cut_ready THEN 2 ELSE IF len = 0 \/ dequeue THEN 4 ELSE 3
      BY <1>3, <1>7, <2>2
    <3> QED BY <3>1, <3>2
  <2> QED BY <1>7, <2>1, <2>2
<1>13. /\ Q[4] = CASE dequeue /\ len = 2 -> P[3]
                   [] ~dequeue /\ len # 0  -> P[4]
                   [] enqueue /\ (len = 0 \/ dequeue) -> w[2][3]
                   [] OTHER -> None
       /\ Q[3] = CASE ~dequeue /\ len = 2 -> P[3]
                   [] ~dequeue /\ enqueue /\ len = 1 -> w[2][3]
                   [] OTHER -> None
       /\ cut => Q[5] = IF r3 THEN IF len = 0 THEN None ELSE P[4] ELSE P[5]
  BY <1>6, <1>7, <1>8, <1>11
<1>14. P[2] # None => IF cut THEN r2 <=> len < 2 ELSE r2 <=> r3
  BY <1>4, <1>8
<1> HIDE DEF P, Q, t, r0, r1, r2, r3, r4, r5, commits, dequeue, enqueue, len, x
<1>15. \A k \in Places : P[k] # None =>
          /\ t[k] \in k .. 8
          /\ t[k] = 8 <=> k = 7 /\ commits
          /\ t[k] = 0 <=> k = 0 /\ ~r0
  BY <1>3, <1>12 DEF Places
<1>16. ASSUME NEW k \in Places, P[k] # None, t[k] # 8
       PROVE  Q[t[k]] = w[k][t[k]]
  <2>0. /\ P[k] = w[k][k] /\ w[k][2] = Product(w[k][1], params)
        /\ w[k][3] = Candidate(w[k][2]) /\ w[k][4] = w[k][3] /\ w[k][5] = w[k][3]
        /\ w[k][6] = Decision(w[k][5], params) /\ w[k][7] = w[k][6]
    BY <1>9, <1>16 DEF Worked
  <2>1. CASE k = 0
    BY <1>3, <1>4, <1>6, <1>10, <1>16, <2>0, <2>1
  <2>2. CASE k = 1
    BY <1>3, <1>4, <1>6, <1>16, <2>0, <2>2
  <2>3. CASE k = 2
    BY <1>3, <1>4, <1>6, <1>11, <1>12, <1>13, <1>14, <1>16, <2>0, <2>3
  <2>4. CASE k = 3
    BY <1>3, <1>11, <1>12, <1>13, <1>16, <2>0, <2>4
  <2>5. CASE k = 4
    BY <1>3, <1>11, <1>12, <1>13, <1>16, <2>0, <2>5
  <2>6. CASE k = 5
    BY <1>3, <1>4, <1>6, <1>11, <1>13, <1>16, <2>0, <2>6
  <2>7. CASE k = 6
    BY <1>3, <1>4, <1>6, <1>16, <2>0, <2>7
  <2>8. CASE k = 7
    BY <1>3, <1>4, <1>6, <1>16, <2>0, <2>8
  <2> QED BY <2>1, <2>2, <2>3, <2>4, <2>5, <2>6, <2>7, <2>8 DEF Places
<1>17. ASSUME NEW k \in Places, NEW l \in Places, k < l, P[k] # None, P[l] # None
       PROVE  t[k] < t[l]
  <2>0. t[l] \in l .. 8
    BY <1>15, <1>17
  <2>1. CASE k = 0
    BY <1>3, <1>4, <1>17, <2>0, <2>1 DEF Places
  <2>2. CASE k = 1
    BY <1>3, <1>4, <1>17, <2>0, <2>2 DEF Places
  <2>3. CASE k = 2
    BY <1>3, <1>4, <1>11, <1>12, <1>14, <1>17, <2>0, <2>3 DEF Places
  <2>4. CASE k = 3
    BY <1>3, <1>11, <1>17, <2>0, <2>4 DEF Places
  <2>5. CASE k = 4
    BY <1>3, <1>11, <1>17, <2>0, <2>5 DEF Places
  <2>6. CASE k = 5
    BY <1>3, <1>4, <1>17, <2>0, <2>6 DEF Places
  <2>7. CASE k = 6
    BY <1>3, <1>4, <1>17, <2>0, <2>7 DEF Places
  <2>8. CASE k = 7
    BY <1>17, <2>8 DEF Places
  <2> QED BY <2>1, <2>2, <2>3, <2>4, <2>5, <2>6, <2>7, <2>8 DEF Places
<1>18. ASSUME NEW j \in Places, Q[j] # None, ~(j = 0 /\ r0)
       PROVE  \E k \in Places : P[k] # None /\ t[k] = j
  <2>0. \A k \in 0 .. 7 : k \in Places
    BY DEF Places
  <2>1. CASE j = 0
    BY <1>3, <1>6, <1>18, <2>0, <2>1
  <2>2. CASE j = 1
    BY <1>3, <1>4, <1>6, <1>18, <2>0, <2>2
  <2>3. CASE j = 2
    BY <1>3, <1>4, <1>6, <1>11, <1>12, <1>14, <1>18, <2>0, <2>3
  <2>4. CASE j = 3
    BY <1>3, <1>11, <1>12, <1>13, <1>18, <2>0, <2>4
  <2>5. CASE j = 4
    BY <1>3, <1>11, <1>12, <1>13, <1>18, <2>0, <2>5
  <2>6. CASE j = 5
    BY <1>3, <1>4, <1>6, <1>11, <1>12, <1>13, <1>14, <1>18, <2>0, <2>6
  <2>7. CASE j = 6
    BY <1>3, <1>4, <1>6, <1>18, <2>0, <2>7
  <2>8. CASE j = 7
    BY <1>3, <1>4, <1>6, <1>18, <2>0, <2>8
  <2> QED BY <2>1, <2>2, <2>3, <2>4, <2>5, <2>6, <2>7, <2>8 DEF Places
<1>19. (r0 => Q[0] = issue) /\ (~r0 => Q[0] = P[0] /\ P[0] # None)
  BY <1>4, <1>6
<1>20. \A k \in Places : P[k] = Place(p, k) /\ Q[k] = Place(q, k) /\ t[k] = MovesTo(p, k, occupancy, cut)
  BY DEF P, Q, t
<1>21. 0 \in Places /\ \A k \in Places : \A m \in k .. 8 : m # 8 => m \in Places
  BY DEF Places
<1> HIDE DEF q, to
<1>22. \A k \in Places : Place(p, k) # None =>
          /\ to(k) \in k .. 8
          /\ to(k) # 8 => Place(q, to(k)) = w[k][to(k)]
          /\ to(k) = 8 <=> k = 7 /\ commits
          /\ to(k) = 0 <=> k = 0 /\ ~r0
  BY <1>15, <1>16, <1>20, <1>21 DEF to
<1>23. \A k, l \in Places : k < l /\ Place(p, k) # None /\ Place(p, l) # None => to(k) < to(l)
  BY <1>17, <1>20 DEF to
<1>24. \A j \in Places : Place(q, j) # None =>
          (j = 0 /\ r0) \/ \E k \in Places : Place(p, k) # None /\ to(k) = j
  BY <1>18, <1>20 DEF to
<1>25. (r0 => Place(q, 0) = issue) /\ (~r0 => Place(q, 0) = Place(p, 0) /\ Place(p, 0) # None)
  BY <1>19, <1>20, <1>21
<1> QED BY <1>7, <1>22, <1>23, <1>24, <1>25 DEF q, to, r0, commits, Moved
-----------------------------------------------------------------------------
(* Every step keeps the invariant: what does not touch a part of it, and the neurons that *)
(* retire. *)

\* An empty pipeline that stays as it is.
LEMMA PipelineRests ==
    ASSUME PipelineInv, IsEmpty(pipe), UNCHANGED <<setting, pipe>>,
           state' = "SCAN_PIPELINE" => cursor' = 1 /\ Len(fixture'.params) \in Nat,
           state' # "PIPELINE_DRAIN",
           touched' \subseteq Nat \ {0}
    PROVE  PipelineInv' /\ IsEmpty(pipe)'
<1>1. \A k \in Places : Place(pipe, k)' = None
  BY DEF IsEmpty, Places, Place, Stages
<1>2. pipe'.stage[0] = None
  BY DEF IsEmpty, Stages
<1>3. CutWell(pipe, Cut)'
  BY DEF PipelineInv, Cut, CutWell
<1>4. IsEmpty(pipe)'
  BY DEF IsEmpty
<1>5. ASSUME state' = "SCAN_PIPELINE"
      PROVE  /\ cursor' \in 1 .. Len(fixture'.params) + 1
             /\ \A n \in touched' : n < cursor' <=> InFlight(n)'
  <2>1. cursor' = 1 /\ Len(fixture'.params) \in Nat
    BY <1>5
  <2>2. \A n : ~InFlight(n)'
    BY <1>1 DEF InFlight
  <2>3. \A n \in touched' : ~(n < cursor')
    BY <2>1
  <2> QED BY <2>1, <2>2, <2>3
<1>6. state' = "SCAN_PIPELINE" =>
          /\ cursor' \in 1 .. Len(fixture'.params) + 1
          /\ \A n \in touched' : n < cursor' <=> InFlight(n)'
  BY <1>5
<1> QED BY <1>1, <1>2, <1>3, <1>4, <1>6 DEF PipelineInv

\* A neuron that retires: its word is written, its sum and its touched bit are cleared, its
\* spike is queued, and nothing else changes.
LEMMA RetireFacts ==
    ASSUME TypeInv, begun >= 1, NEW n \in touched, NEW d \in Decisions,
           Retire(n, d.voltage, d.spike)
    PROVE  /\ bank' \in [Neurons -> Int] /\ touched' = touched \ {n} /\ touched' \subseteq Neurons
           /\ ram' \in [Neurons -> [voltage : Int, last_update : Int]]
           /\ fifo' \in Seq(Spikes) /\ taken' \in Seq(Spikes)
           /\ bank'[n] = 0 /\ \A m \in Neurons : m # n => bank'[m] = bank[m] /\ ram'[m] = ram[m]
           /\ ram' = [ram EXCEPT ![n] = [voltage |-> d.voltage, last_update |-> current_tick]]
           /\ taken' \o fifo' = (taken \o fifo)
                  \o (IF d.spike THEN <<<<current_tick, n>>>> ELSE <<>>)
<1>1. /\ n \in Neurons /\ n \in Int /\ current_tick \in Int
      /\ bank \in [Neurons -> Int] /\ ram \in [Neurons -> [voltage : Int, last_update : Int]]
      /\ touched \subseteq Neurons
  <2>1. n \in Neurons /\ touched \subseteq Neurons
    BY DEF TypeInv
  <2>2. n \in Int
    BY <2>1, FixtureFacts
  <2>3. current_tick \in Int
    BY TickFacts
  <2> QED BY <2>1, <2>2, <2>3 DEF TypeInv
<1>2. d.voltage \in Int /\ d.spike \in BOOLEAN
  BY DEF Decisions
<1>3. /\ ram' = [ram EXCEPT ![n] = [voltage |-> d.voltage, last_update |-> current_tick]]
      /\ bank' = [bank EXCEPT ![n] = 0]
      /\ touched' = touched \ {n}
      /\ SpikeFifo(IF d.spike THEN <<<<current_tick, n>>>> ELSE <<>>)
  BY DEF Retire
<1>4. (IF d.spike THEN <<<<current_tick, n>>>> ELSE <<>>) \in Seq(Spikes)
  <2>1. <<current_tick, n>> \in Spikes
    BY <1>1 DEF Spikes
  <2> QED BY <2>1
<1>5. /\ fifo' \in Seq(Spikes) /\ taken' \in Seq(Spikes)
      /\ taken' \o fifo' = (taken \o fifo)
                  \o (IF d.spike THEN <<<<current_tick, n>>>> ELSE <<>>)
  BY <1>3, <1>4, SpikeFlow
<1>6. [voltage |-> d.voltage, last_update |-> current_tick] \in [voltage : Int, last_update : Int]
  BY <1>1, <1>2
<1>7. ram' \in [Neurons -> [voltage : Int, last_update : Int]]
  BY <1>1, <1>3, <1>6
<1>8. bank' \in [Neurons -> Int] /\ touched' \subseteq Neurons /\ bank'[n] = 0
  BY <1>1, <1>3
<1>9. \A m \in Neurons : m # n => bank'[m] = bank[m] /\ ram'[m] = ram[m]
  BY <1>1, <1>3
<1> QED BY <1>3, <1>5, <1>7, <1>8, <1>9

\* No neuron retires.
LEMMA NoRetireFacts ==
    ASSUME TypeInv, NoRetire
    PROVE  /\ bank' = bank /\ touched' = touched /\ ram' = ram
           /\ fifo' \in Seq(Spikes) /\ taken' \in Seq(Spikes)
           /\ taken' \o fifo' = taken \o fifo
           /\ fifo = <<>> => fifo' = <<>>
<1>1. UNCHANGED <<ram, bank, touched>> /\ SpikeFifo(<<>>)
  BY DEF NoRetire
<1>2. <<>> \in Seq(Spikes) /\ taken \o fifo \in Seq(Spikes)
  BY DEF TypeInv
<1>3. (taken \o fifo) \o <<>> = taken \o fifo
  BY <1>2
<1> QED BY <1>1, <1>2, <1>3, SpikeFlow

\* While neurons are updated: what the steps have in common.
LEMMA ScanKeeps ==
    ASSUME IInv, Scanning, UNCHANGED <<setting, begun, front>>,
           bank' \in [Neurons -> Int], touched' \subseteq touched,
           \A n \in Neurons : bank'[n] = IF n \in touched' THEN bank[n] ELSE 0,
           ram' \in [Neurons -> [voltage : Int, last_update : Int]],
           fifo' \in Seq(Spikes), taken' \in Seq(Spikes),
           ~Scanning' => state' = "TICK_DONE" /\ fifo' = <<>>,
           state' # "NEURON_COMMIT" => result' = None,
           state' \notin PipelineStates => IsEmpty(pipe)',
           state' \in {"TICK_DONE", "SPIKE_DRAIN"} => touched' = {}
    PROVE  TypeInv' /\ InitialiseInv' /\ QuietInv' /\ FrontInv' /\ SumsInv'
<1> USE DEF IInv
<1>1. /\ fixture' = fixture /\ Neurons' = Neurons /\ Contributed' = Contributed
      /\ \A X, n : Sum(X, n)' = Sum(X, n)
  BY SameTick
<1>2. begun >= 1 /\ state \notin FrontStates /\ Initialised /\ touched \subseteq Neurons
  BY DEF TypeInv, Scanning, FrontStates, Initialised
<1>3. state' \notin FrontStates /\ Initialised' /\ state' # "IDLE" /\ state' # "ACCUMULATE"
  BY DEF Scanning, FrontStates, Initialised
<1>4. TypeInv'
  BY <1>1, <1>2 DEF TypeInv
<1>5. InitialiseInv' /\ FrontInv'
  BY <1>3 DEF InitialiseInv, FrontInv, Initialised
<1>6. QuietInv'
  <2>1. front'.fifo = <<>> /\ front'.lanes = {}
    BY <1>2 DEF QuietInv, FrontStates
  <2>2. \A n \in Neurons' \ touched' : bank'[n] = 0
    BY <1>1
  <2> QED BY <1>3, <2>1, <2>2 DEF QuietInv, Scanning
<1>7. SumsInv'
  <2>1. \A n \in touched' : bank'[n] = Sum(Contributed, n)
    BY <1>2 DEF SumsInv
  <2> QED BY <1>1, <2>1 DEF SumsInv
<1> QED BY <1>4, <1>5, <1>6, <1>7

\* The scan starts at the first neuron.
LEMMA ScanStartKeeps ==
    ASSUME IInv, ScanStart
    PROVE  IInv'
<1> USE DEF IInv
<1>1. /\ state = "SCAN_START" /\ cursor' = 1 /\ state' \in {"SCAN", "SCAN_PIPELINE"}
      /\ UNCHANGED <<setting, begun, front, bank, touched, result, pipe, ram>> /\ SpikeFifo(<<>>)
  BY DEF ScanStart
<1>2. fifo' \in Seq(Spikes) /\ taken' \in Seq(Spikes)
  <2>1. <<>> \in Seq(Spikes)
    OBVIOUS
  <2> QED BY <1>1, <2>1, SpikeFlow
<1>3. result = None /\ IsEmpty(pipe) /\ \A n \in Neurons \ touched : bank[n] = 0
  BY <1>1 DEF QuietInv, PipelineStates, Initialised
<1>4. /\ Neurons = 1 .. Len(fixture.params) /\ Len(fixture.params) \in Nat \ {0}
      /\ touched \subseteq Neurons /\ bank \in [Neurons -> Int]
      /\ ram \in [Neurons -> [voltage : Int, last_update : Int]]
  BY FixtureFacts DEF TypeInv
<1>5. fixture' = fixture
  BY <1>1 DEF fixture
<1>6. PipelineInv' /\ IsEmpty(pipe)'
  <2>1. touched' \subseteq Nat \ {0}
    BY <1>1, <1>4
  <2> QED BY <1>1, <1>3, <1>4, <1>5, <2>1, PipelineRests
<1>7. TypeInv' /\ InitialiseInv' /\ QuietInv' /\ FrontInv' /\ SumsInv'
  <2>1. Scanning /\ Scanning'
    BY <1>1 DEF Scanning
  <2>2. \A n \in Neurons : bank'[n] = IF n \in touched' THEN bank[n] ELSE 0
    BY <1>1, <1>3
  <2> QED BY <1>1, <1>2, <1>3, <1>4, <1>6, <2>1, <2>2, ScanKeeps
<1>8. MempipeInv'
  <2>1. \A m \in touched' : m >= 1
    BY <1>1, <1>4
  <2>2. 1 \in 1 .. Len(fixture.params) + 1
    BY <1>4
  <2> QED BY <1>1, <1>5, <2>1, <2>2 DEF MempipeInv
<1> QED BY <1>6, <1>7, <1>8

\* The neuron under the cursor is skipped, or its state is requested.
LEMMA ScanStepKeeps ==
    ASSUME IInv, Scan
    PROVE  IInv'
<1> USE DEF IInv
<1>1. /\ state = "SCAN" /\ UNCHANGED <<setting, begun, front, pipe>> /\ NoRetire
      /\ \/ ScanDone /\ state' = "SPIKE_DRAIN" /\ UNCHANGED <<memory, result>>
         \/ /\ ~ScanDone /\ cursor \notin touched /\ cursor' = cursor + 1
            /\ UNCHANGED <<state, memory, result>>
         \/ /\ ~ScanDone /\ cursor \in touched /\ state' = "NEURON_WAIT" /\ memory' = ram[cursor]
            /\ UNCHANGED <<cursor, result>>
  BY DEF Scan
<1>2. /\ bank' = bank /\ touched' = touched /\ ram' = ram
      /\ fifo' \in Seq(Spikes) /\ taken' \in Seq(Spikes)
  BY <1>1, NoRetireFacts
<1>3. result = None /\ IsEmpty(pipe) /\ \A n \in Neurons \ touched : bank[n] = 0
  BY <1>1 DEF QuietInv, PipelineStates, Initialised
<1>4. /\ Neurons = 1 .. Len(fixture.params) /\ Len(fixture.params) \in Nat \ {0}
      /\ touched \subseteq Neurons /\ bank \in [Neurons -> Int]
      /\ ram \in [Neurons -> [voltage : Int, last_update : Int]]
  BY FixtureFacts DEF TypeInv
<1>5. fixture' = fixture
  BY <1>1 DEF fixture
<1>6. cursor \in 1 .. Len(fixture.params) + 1 /\ \A m \in touched : m >= cursor
  BY <1>1 DEF MempipeInv
<1>7. ScanDone <=> cursor > Len(fixture.params)
  BY DEF ScanDone
<1>8. PipelineInv' /\ IsEmpty(pipe)'
  <2>1. touched' \subseteq Nat \ {0}
    BY <1>2, <1>4
  <2> QED BY <1>1, <1>3, <2>1, PipelineRests
<1>9. TypeInv' /\ InitialiseInv' /\ QuietInv' /\ FrontInv' /\ SumsInv'
  <2>1. Scanning /\ Scanning'
    BY <1>1 DEF Scanning
  <2>2. \A n \in Neurons : bank'[n] = IF n \in touched' THEN bank[n] ELSE 0
    BY <1>2, <1>3
  <2>3. state' \in {"TICK_DONE", "SPIKE_DRAIN"} => touched' = {}
    <3> SUFFICES ASSUME ScanDone, NEW m \in touched PROVE FALSE
      BY <1>1, <1>2
    <3> QED BY <1>4, <1>6, <1>7
  <2>4. result' = None
    BY <1>1, <1>3
  <2> QED BY <1>1, <1>2, <1>4, <1>8, <2>1, <2>2, <2>3, <2>4, ScanKeeps
<1>10. MempipeInv'
  <2>1. CASE ScanDone
    BY <1>1, <2>1 DEF MempipeInv
  <2>2. CASE ~ScanDone /\ cursor \notin touched
    <3>1. cursor' = cursor + 1 /\ state' = "SCAN"
      BY <1>1, <2>2
    <3>2. cursor + 1 \in 1 .. Len(fixture.params) + 1
      BY <1>4, <1>6, <1>7, <2>2
    <3>3. \A m \in touched : m >= cursor + 1
      BY <1>4, <1>6, <2>2
    <3> QED BY <1>2, <1>5, <3>1, <3>2, <3>3 DEF MempipeInv
  <2>3. CASE ~ScanDone /\ cursor \in touched
    <3>1. state' = "NEURON_WAIT" /\ memory' = ram[cursor] /\ cursor' = cursor
      BY <1>1, <2>3
    <3> QED BY <1>2, <1>5, <1>6, <2>3, <3>1 DEF MempipeInv
  <2> QED BY <2>1, <2>2, <2>3
<1> QED BY <1>8, <1>9, <1>10

\* Its update is computed.
LEMMA NeuronWaitKeeps ==
    ASSUME IInv, NeuronWait
    PROVE  IInv'
<1> USE DEF IInv
<1>1. /\ state = "NEURON_WAIT" /\ state' = "NEURON_COMMIT" /\ NoRetire
      /\ UNCHANGED <<setting, begun, front, cursor, pipe>>
  BY DEF NeuronWait
<1>2. /\ bank' = bank /\ touched' = touched /\ ram' = ram
      /\ fifo' \in Seq(Spikes) /\ taken' \in Seq(Spikes)
  BY <1>1, NoRetireFacts
<1>3. IsEmpty(pipe) /\ \A n \in Neurons \ touched : bank[n] = 0
  BY <1>1 DEF QuietInv, PipelineStates, Initialised
<1>4. /\ Neurons = 1 .. Len(fixture.params) /\ Len(fixture.params) \in Nat \ {0}
      /\ touched \subseteq Neurons /\ bank \in [Neurons -> Int]
      /\ ram \in [Neurons -> [voltage : Int, last_update : Int]]
  BY FixtureFacts DEF TypeInv
<1>5. fixture' = fixture /\ current_tick' = current_tick
  BY <1>1, SameTick
<1>6. /\ cursor \in 1 .. Len(fixture.params) + 1 /\ \A m \in touched : m >= cursor
      /\ cursor \in touched /\ memory = ram[cursor]
  BY <1>1 DEF MempipeInv
<1>7. PipelineInv' /\ IsEmpty(pipe)'
  <2>1. touched' \subseteq Nat \ {0}
    BY <1>2, <1>4
  <2> QED BY <1>1, <1>3, <2>1, PipelineRests
<1>8. TypeInv' /\ InitialiseInv' /\ QuietInv' /\ FrontInv' /\ SumsInv'
  <2>1. Scanning /\ Scanning'
    BY <1>1 DEF Scanning
  <2>2. \A n \in Neurons : bank'[n] = IF n \in touched' THEN bank[n] ELSE 0
    BY <1>2, <1>3
  <2> QED BY <1>1, <1>2, <1>4, <1>7, <2>1, <2>2, ScanKeeps
<1>9. result' = Work(Issued(cursor), ram[cursor], fixture.params, 7)
  <2>1. result' = Decision(Candidate(Product(Response(Issued(cursor), memory), fixture.params)),
                           fixture.params)
    BY DEF NeuronWait, Issued
  <2> QED BY <1>6, <2>1 DEF Work
<1>10. Issued(cursor)' = Issued(cursor)
  BY <1>1, <1>2, <1>5 DEF Issued
<1>11. MempipeInv'
  BY <1>1, <1>2, <1>5, <1>6, <1>9, <1>10 DEF MempipeInv
<1> QED BY <1>7, <1>8, <1>11

\* It is committed, or waits for room in the spike FIFO.
LEMMA NeuronCommitKeeps ==
    ASSUME IInv, NeuronCommit
    PROVE  IInv'
<1> USE DEF IInv
<1>1. /\ state = "NEURON_COMMIT"
      /\ UNCHANGED <<setting, begun, front, pipe>>
      /\ \/ /\ Retire(result.neuron, result.voltage, result.spike)
            /\ cursor' = cursor + 1 /\ result' = None /\ state' = "SCAN"
         \/ NoRetire /\ UNCHANGED <<cursor, result, state>>
  BY DEF NeuronCommit
<1>2. IsEmpty(pipe) /\ \A n \in Neurons \ touched : bank[n] = 0
  BY <1>1 DEF QuietInv, PipelineStates, Initialised
<1>3. /\ Neurons = 1 .. Len(fixture.params) /\ Len(fixture.params) \in Nat \ {0}
      /\ touched \subseteq Neurons /\ bank \in [Neurons -> Int]
      /\ ram \in [Neurons -> [voltage : Int, last_update : Int]]
  BY FixtureFacts DEF TypeInv
<1>4. fixture' = fixture /\ current_tick' = current_tick
  BY <1>1, SameTick
<1>5. /\ cursor \in 1 .. Len(fixture.params) + 1 /\ \A m \in touched : m >= cursor
      /\ cursor \in touched /\ result = Work(Issued(cursor), ram[cursor], fixture.params, 7)
  BY <1>1 DEF MempipeInv
<1>6. Scanning /\ begun >= 1
  BY <1>1 DEF Scanning, TypeInv
<1>7. result \in Decisions /\ result.neuron = cursor
  <2>1. 7 \in Places /\ cursor \in Neurons /\ 7 \in 6 .. 7
    BY <1>3, <1>5 DEF Places
  <2> QED BY <1>5, <1>6, <2>1, WorkIs
<1>8. CASE /\ Retire(result.neuron, result.voltage, result.spike)
           /\ cursor' = cursor + 1 /\ result' = None /\ state' = "SCAN"
  <2>1. /\ bank' \in [Neurons -> Int] /\ touched' = touched \ {cursor} /\ touched' \subseteq Neurons
        /\ ram' \in [Neurons -> [voltage : Int, last_update : Int]]
        /\ fifo' \in Seq(Spikes) /\ taken' \in Seq(Spikes)
        /\ bank'[cursor] = 0 /\ \A m \in Neurons : m # cursor => bank'[m] = bank[m]
    <3>1. Retire(cursor, result.voltage, result.spike)
      BY <1>7, <1>8
    <3>2. TypeInv /\ begun >= 1 /\ cursor \in touched /\ result \in Decisions
      BY <1>5, <1>6, <1>7
    <3> QED BY ONLY <3>1, <3>2, RetireFacts
  <2>2. PipelineInv' /\ IsEmpty(pipe)'
    <3>1. touched' \subseteq Nat \ {0}
      BY <1>3, <2>1
    <3> QED BY <1>1, <1>2, <1>8, <3>1, PipelineRests
  <2>3. TypeInv' /\ InitialiseInv' /\ QuietInv' /\ FrontInv' /\ SumsInv'
    <3>1. Scanning'
      BY <1>8 DEF Scanning
    <3>2. \A n \in Neurons : bank'[n] = IF n \in touched' THEN bank[n] ELSE 0
      BY <1>2, <2>1
    <3> QED BY <1>1, <1>6, <1>8, <2>1, <2>2, <3>1, <3>2, ScanKeeps
  <2>4. MempipeInv'
    <3>1. cursor + 1 \in 1 .. Len(fixture.params) + 1
      BY <1>3, <1>5
    <3>2. \A m \in touched' : m >= cursor + 1
      BY <1>3, <1>5, <2>1
    <3> QED BY <1>4, <1>8, <3>1, <3>2 DEF MempipeInv
  <2> QED BY <2>2, <2>3, <2>4
<1>9. CASE NoRetire /\ UNCHANGED <<cursor, result, state>>
  <2>1. /\ bank' = bank /\ touched' = touched /\ ram' = ram
        /\ fifo' \in Seq(Spikes) /\ taken' \in Seq(Spikes)
    BY <1>9, NoRetireFacts
  <2>2. PipelineInv' /\ IsEmpty(pipe)'
    <3>1. touched' \subseteq Nat \ {0}
      BY <1>3, <2>1
    <3> QED BY <1>1, <1>2, <1>9, <3>1, PipelineRests
  <2>3. TypeInv' /\ InitialiseInv' /\ QuietInv' /\ FrontInv' /\ SumsInv'
    <3>1. Scanning'
      BY <1>1, <1>9 DEF Scanning
    <3>2. \A n \in Neurons : bank'[n] = IF n \in touched' THEN bank[n] ELSE 0
      BY <1>2, <2>1
    <3> QED BY <1>1, <1>3, <1>6, <1>9, <2>1, <2>2, <3>1, <3>2, ScanKeeps
  <2>4. Issued(cursor)' = Issued(cursor)
    BY <1>4, <1>9, <2>1 DEF Issued
  <2>5. MempipeInv'
    BY <1>1, <1>4, <1>5, <1>9, <2>1, <2>4 DEF MempipeInv
  <2> QED BY <2>2, <2>3, <2>5
<1> QED BY <1>1, <1>8, <1>9

\* The spikes of the tick leave.
LEMMA SpikeDrainKeeps ==
    ASSUME IInv, SpikeDrain
    PROVE  IInv'
<1> USE DEF IInv
<1>1. /\ state = "SPIKE_DRAIN" /\ state' = (IF fifo = <<>> THEN "TICK_DONE" ELSE state)
      /\ SpikeFifo(<<>>)
      /\ UNCHANGED <<setting, begun, front, bank, touched, cursor, result, pipe, memory, ram>>
  BY DEF SpikeDrain, NeuronIdle
<1>2. IsEmpty(pipe) /\ result = None /\ touched = {} /\ \A n \in Neurons \ touched : bank[n] = 0
  BY <1>1 DEF QuietInv, PipelineStates, Initialised
<1>3. bank \in [Neurons -> Int] /\ ram \in [Neurons -> [voltage : Int, last_update : Int]]
  BY DEF TypeInv
<1>4. /\ fifo' \in Seq(Spikes) /\ taken' \in Seq(Spikes)
      /\ fifo = <<>> => fifo' = <<>>
  <2>1. <<>> \in Seq(Spikes)
    OBVIOUS
  <2> QED BY <1>1, <2>1, SpikeFlow
<1>5. PipelineInv' /\ IsEmpty(pipe)'
  BY <1>1, <1>2, PipelineRests
<1>6. TypeInv' /\ InitialiseInv' /\ QuietInv' /\ FrontInv' /\ SumsInv'
  <2>1. Scanning /\ (~Scanning' => state' = "TICK_DONE" /\ fifo' = <<>>)
    BY <1>1, <1>4 DEF Scanning
  <2>2. \A n \in Neurons : bank'[n] = IF n \in touched' THEN bank[n] ELSE 0
    BY <1>1, <1>2
  <2> QED BY <1>1, <1>2, <1>3, <1>4, <1>5, <2>1, <2>2, ScanKeeps
<1>7. MempipeInv'
  BY <1>1 DEF MempipeInv
<1> QED BY <1>5, <1>6, <1>7

\* The tick is done.
LEMMA TickDoneKeeps ==
    ASSUME IInv, TickDone
    PROVE  IInv'
<1> USE DEF IInv
<1>1. /\ state = "TICK_DONE" /\ state' = "IDLE" /\ SpikeFifo(<<>>)
      /\ UNCHANGED <<setting, begun, front, bank, touched, cursor, result, pipe, memory, ram>>
  BY DEF TickDone, NeuronIdle
<1>2. /\ IsEmpty(pipe) /\ result = None /\ touched = {} /\ fifo = <<>>
      /\ front.fifo = <<>> /\ front.lanes = {} /\ \A n \in Neurons \ touched : bank[n] = 0
  BY <1>1 DEF QuietInv, PipelineStates, FrontStates, Initialised
<1>3. /\ fifo' \in Seq(Spikes) /\ taken' \in Seq(Spikes) /\ fifo' = <<>>
  <2>1. <<>> \in Seq(Spikes)
    OBVIOUS
  <2> QED BY <1>1, <1>2, <2>1, SpikeFlow
<1>4. fixture' = fixture /\ Neurons' = Neurons
  BY <1>1, SameTick
<1>5. PipelineInv' /\ IsEmpty(pipe)'
  BY <1>1, <1>2, PipelineRests
<1>6. TypeInv'
  <2>1. state' \notin FrontStates /\ ~Scanning'
    BY <1>1 DEF FrontStates, Scanning
  <2> QED BY <1>1, <1>3, <1>4, <2>1 DEF TypeInv
<1>7. InitialiseInv' /\ FrontInv' /\ SumsInv' /\ MempipeInv'
  BY <1>1 DEF InitialiseInv, FrontInv, FrontStates, SumsInv, Scanning, MempipeInv
<1>8. QuietInv'
  BY <1>1, <1>2, <1>3, <1>4, <1>5 DEF QuietInv
<1> QED BY <1>5, <1>6, <1>7, <1>8

\* A pipeline is empty when its places are.
LEMMA EmptyPlaces ==
    ASSUME NEW p, NEW cut, CutWell(p, cut)
    PROVE  IsEmpty(p) <=> \A k \in Places : Place(p, k) = None
<1>1. p.cut # <<>> => p.cut[1] # None
  <2>1. p.cut \in Seq(Candidates)
    BY DEF CutWell
  <2>2. p.cut # <<>> => p.cut[1] \in Candidates
    BY <2>1
  <2> QED BY <2>2, NoneAssumption
<1>2. ASSUME IsEmpty(p), NEW k \in Places
      PROVE  Place(p, k) = None
  BY <1>2 DEF IsEmpty, Place, Places, Stages
<1>3. ASSUME \A k \in Places : Place(p, k) = None
      PROVE  IsEmpty(p)
  <2>1. /\ Place(p, 0) = p.stage[0] /\ Place(p, 1) = p.stage[1] /\ Place(p, 2) = p.stage[2]
        /\ Place(p, 5) = p.stage[3] /\ Place(p, 6) = p.stage[4] /\ Place(p, 7) = p.stage[5]
        /\ Place(p, 4) = IF p.cut # <<>> THEN p.cut[1] ELSE None
    BY DEF Place
  <2>2. \A k \in 0 .. 7 : Place(p, k) = None
    BY <1>3 DEF Places
  <2> QED BY <1>1, <2>1, <2>2 DEF IsEmpty, Stages
<1> QED BY <1>2, <1>3

\* What the scanner does in a cycle, and the neuron that retires: the lowest touched one,
\* with what was made of it.
LEMMA PipelineFacts ==
    ASSUME IInv, RunPipeline
    PROVE  LET n == pipe.stage[5].neuron
           IN  /\ state \in PipelineStates /\ begun >= 1 /\ Scanning
               /\ UNCHANGED <<setting, begun, front, result>>
               /\ \A k \in Places : Place(pipe, k) # None =>
                     /\ Place(pipe, k).neuron \in touched
                     /\ state = "SCAN_PIPELINE" => Place(pipe, k).neuron < cursor
               /\ Commits(pipe, Len(fifo)) =>
                     /\ n \in touched /\ \A m \in touched : n <= m
                     /\ pipe.stage[5] \in Decisions
                     /\ pipe.stage[5] = Work(Issued(n), ram[n], fixture.params, 7)
                     /\ Retire(n, pipe.stage[5].voltage, pipe.stage[5].spike)
               /\ ~Commits(pipe, Len(fifo)) => NoRetire
<1> USE DEF IInv
<1> DEFINE n == pipe.stage[5].neuron
<1>1. /\ state \in PipelineStates
      /\ UNCHANGED <<setting, begun, front, result>>
      /\ IF Commits(pipe, Len(fifo)) THEN Retire(n, pipe.stage[5].voltage, pipe.stage[5].spike)
         ELSE NoRetire
  BY DEF RunPipeline, PipelineStates
<1>2. begun >= 1 /\ Scanning
  BY <1>1 DEF PipelineStates, Scanning, TypeInv
<1>3. ASSUME NEW k \in Places, Place(pipe, k) # None
      PROVE  /\ Place(pipe, k).neuron \in touched
             /\ state = "SCAN_PIPELINE" => Place(pipe, k).neuron < cursor
  <2>1. Place(pipe, k).neuron \in touched /\ InFlight(Place(pipe, k).neuron)
    BY <1>3 DEF PipelineInv, InFlight
  <2> QED BY <2>1 DEF PipelineInv
<1>4. ASSUME Commits(pipe, Len(fifo))
      PROVE  /\ n \in touched /\ pipe.stage[5] \in Decisions
             /\ pipe.stage[5] = Work(Issued(n), ram[n], fixture.params, 7)
             /\ \A m \in touched : n <= m
  <2>1. 7 \in Places /\ 7 \in 6 .. 7 /\ Place(pipe, 7) = pipe.stage[5]
    BY DEF Places, Place
  <2>2. pipe.stage[5] # None
    BY <1>4 DEF Commits
  <2>3. n \in touched /\ pipe.stage[5] = Work(Issued(n), ram[n], fixture.params, 7)
    BY <2>1, <2>2 DEF PipelineInv
  <2>4. n \in Neurons
    BY <2>3 DEF TypeInv
  <2>5. pipe.stage[5] \in Decisions
    BY <1>2, <2>1, <2>3, <2>4, WorkIs
  <2>6. ASSUME NEW m \in touched
        PROVE  n <= m
    <3>0. m \in Int /\ n \in Int
      <4>1. m \in Neurons
        BY DEF TypeInv
      <4> QED BY <2>4, <4>1, FixtureFacts
    <3>1. CASE InFlight(m)
      <4>1. PICK k \in Places : Place(pipe, k) # None /\ Place(pipe, k).neuron = m
        BY <3>1 DEF InFlight
      <4>2. k = 7 \/ k < 7
        BY DEF Places
      <4>3. CASE k = 7
        BY <2>1, <3>0, <4>1, <4>3
      <4>4. CASE k < 7
        <5>1. Place(pipe, 7).neuron < Place(pipe, k).neuron
          BY <2>1, <2>2, <4>1, <4>4 DEF PipelineInv
        <5> QED BY <2>1, <3>0, <4>1, <5>1
      <4> QED BY <4>2, <4>3, <4>4
    <3>2. CASE ~InFlight(m)
      <4>1. state = "SCAN_PIPELINE" /\ cursor \in 1 .. Len(fixture.params) + 1 /\ ~(m < cursor)
        BY <1>1, <3>2 DEF PipelineInv, PipelineStates
      <4>2. n < cursor
        BY <1>3, <2>1, <2>2, <4>1
      <4>3. cursor \in Int
        BY <4>1, FixtureFacts
      <4> QED BY <3>0, <4>1, <4>2, <4>3
    <3> QED BY <3>1, <3>2
  <2> QED BY <2>3, <2>5, <2>6
<1> QED BY <1>1, <1>2, <1>3, <1>4

\* A cycle of the pipeline, as the places see it.
LEMMA PipelineMoves ==
    ASSUME IInv, RunPipeline
    PROVE  LET retires(m) == Commits(pipe, Len(fifo)) /\ m = pipe.stage[5].neuron
               issuing == /\ state = "SCAN_PIPELINE" /\ cursor \in touched
                          /\ Ready(pipe, 0, Len(fifo), Cut)
               goes(k) == MovesTo(pipe, k, Len(fifo), Cut)
           IN  /\ CutWell(pipe', Cut)
               /\ \A k \in Places : Place(pipe, k) # None =>
                     /\ goes(k) \in k .. 8
                     /\ goes(k) = 8 <=> retires(Place(pipe, k).neuron)
                     /\ goes(k) # 8 =>
                           Place(pipe', goes(k)) = Work(Issued(Place(pipe, k).neuron),
                               ram[Place(pipe, k).neuron], fixture.params, goes(k))
               /\ \A k, l \in Places : k < l /\ Place(pipe, k) # None /\ Place(pipe, l) # None =>
                     goes(k) < goes(l)
               /\ \A j \in Places : Place(pipe', j) # None =>
                     \/ j = 0 /\ issuing /\ Place(pipe', 0) = Issued(cursor)
                     \/ \E k \in Places : Place(pipe, k) # None /\ goes(k) = j
               /\ issuing => /\ Place(pipe', 0) = Issued(cursor)
                             /\ \A k \in Places : Place(pipe, k) # None => goes(k) # 0
<1> USE DEF IInv
<1> DEFINE P(k) == Place(pipe, k)
           n(k) == P(k).neuron
           w == [k \in Places |-> [j \in Places |->
                   Work(Issued(n(k)), ram[n(k)], fixture.params, j)]]
           ready == Ready(pipe, 0, Len(fifo), Cut)
           issuing == state = "SCAN_PIPELINE" /\ cursor \in touched /\ ready
           issue == IF issuing THEN Issued(cursor) ELSE None
           goes(k) == MovesTo(pipe, k, Len(fifo), Cut)
           commits == Commits(pipe, Len(fifo))
<1>1. pipe' = Step(pipe, issue, memory, fixture.params, Len(fifo), Cut)
  BY DEF RunPipeline, Issued
<1>2. begun >= 1 /\ touched \subseteq Neurons /\ CutWell(pipe, Cut)
  BY PipelineFacts DEF TypeInv, PipelineInv
<1>0. \A k, j \in Places : w[k][j] = Work(Issued(n(k)), ram[n(k)], fixture.params, j)
  OBVIOUS
<1> HIDE DEF w
<1>3. ASSUME NEW k \in Places, P(k) # None
      PROVE  /\ n(k) \in Neurons /\ P(k) = w[k][k] /\ Worked(w[k], fixture.params)
             /\ w[k][3] \in Candidates /\ \A j \in Places : w[k][j] # None
  <2>1. n(k) \in touched /\ P(k) = Work(Issued(n(k)), ram[n(k)], fixture.params, k)
    BY <1>3 DEF PipelineInv
  <2>2. n(k) \in Neurons
    BY <1>2, <2>1
  <2>3. \A j \in Places : w[k][j] = Work(Issued(n(k)), ram[n(k)], fixture.params, j)
    BY <1>0
  <2>4. 0 \in Places /\ 1 \in Places /\ 2 \in Places /\ 3 \in Places /\ 4 \in Places /\ 5 \in Places
        /\ 6 \in Places /\ 7 \in Places
    BY DEF Places
  <2>5. Worked(w[k], fixture.params)
    BY <2>3, <2>4 DEF Worked, Work
  <2>6. w[k][3] \in Candidates
    BY <1>2, <2>2, <2>3, <2>4, WorkIs
  <2>7. \A j \in Places : w[k][j] # None
    BY <1>2, <2>2, <2>3, WorkIs
  <2> QED BY <2>1, <2>2, <2>3, <2>5, <2>6, <2>7
<1>4. P(0) # None => w[0][1] = Response(w[0][0], memory)
  <2>1. 0 \in Places /\ 1 \in Places /\ P(0) = pipe.stage[0]
    BY DEF Places, Place
  <2>2. /\ w[0][1] = Work(Issued(n(0)), ram[n(0)], fixture.params, 1)
        /\ w[0][0] = Work(Issued(n(0)), ram[n(0)], fixture.params, 0)
    BY <1>0, <2>1
  <2>3. /\ w[0][1] = Response(Issued(n(0)), ram[n(0)]) /\ w[0][0] = Issued(n(0))
    BY <2>2 DEF Work
  <2>4. P(0) # None => memory = ram[n(0)]
    BY <2>1 DEF PipelineInv
  <2> QED BY <2>3, <2>4
<1>5. Cut \in BOOLEAN
  BY DEF Cut
<1>6. /\ CutWell(pipe', Cut)
      /\ \A k \in Places : P(k) # None =>
            /\ goes(k) \in k .. 8
            /\ goes(k) # 8 => Place(pipe', goes(k)) = w[k][goes(k)]
            /\ goes(k) = 8 <=> k = 7 /\ commits
            /\ goes(k) = 0 <=> k = 0 /\ ~ready
      /\ \A k, l \in Places : k < l /\ P(k) # None /\ P(l) # None => goes(k) < goes(l)
      /\ \A j \in Places : Place(pipe', j) # None =>
            (j = 0 /\ ready) \/ \E k \in Places : P(k) # None /\ goes(k) = j
      /\ ready => Place(pipe', 0) = issue
  <2>1. PlacesHold(pipe, w, fixture.params, memory)
    BY <1>3, <1>4 DEF PlacesHold
  <2> HIDE DEF issue, w
  <2>2. Moved(pipe, pipe', issue, w, Len(fifo), Cut)
    BY <1>1, <1>2, <1>5, <2>1, PlacesMove
  <2> QED BY <2>2 DEF Moved
<1>7. ASSUME NEW k \in Places, P(k) # None
      PROVE  goes(k) = 8 <=> commits /\ n(k) = pipe.stage[5].neuron
  <2>1. 7 \in Places /\ P(7) = pipe.stage[5] /\ (commits => pipe.stage[5] # None)
    BY DEF Places, Place, Commits
  <2>2. k < 7 /\ commits => n(7) < n(k)
    BY <1>7, <2>1 DEF PipelineInv
  <2>3. k = 7 \/ k < 7
    BY DEF Places
  <2>4. n(k) \in Int
    <3>1. n(k) \in Neurons
      BY <1>3, <1>7
    <3> QED BY <3>1, FixtureFacts DEF TypeInv
  <2>5. goes(k) = 8 <=> k = 7 /\ commits
    BY <1>6, <1>7
  <2> HIDE DEF commits, goes
  <2>6. CASE k = 7
    BY <2>1, <2>5, <2>6
  <2>7. CASE k < 7
    <3>1. commits => n(7) # n(k)
      <4> SUFFICES ASSUME commits, n(7) = n(k) PROVE FALSE
        OBVIOUS
      <4>1. n(7) < n(k)
        BY <2>2, <2>7
      <4> HIDE DEF n
      <4> QED BY <2>4, <4>1
    <3>2. n(7) = pipe.stage[5].neuron
      BY <2>1
    <3> QED BY <2>5, <2>7, <3>1, <3>2
  <2> QED BY <2>3, <2>6, <2>7
<1>8. ASSUME NEW k \in Places, P(k) # None, goes(k) # 8
      PROVE  Place(pipe', goes(k)) = Work(Issued(n(k)), ram[n(k)], fixture.params, goes(k))
  <2>1. goes(k) \in Places
    BY <1>6, <1>8 DEF Places
  <2>2. w[k][goes(k)] = Work(Issued(n(k)), ram[n(k)], fixture.params, goes(k))
    <3> HIDE DEF goes, n
    <3> QED BY <1>0, <2>1
  <2> HIDE DEF goes
  <2> QED BY <1>6, <1>8, <2>2
<1>9. ASSUME NEW j \in Places, Place(pipe', j) # None
      PROVE  \/ j = 0 /\ issuing /\ Place(pipe', 0) = Issued(cursor)
             \/ \E k \in Places : P(k) # None /\ goes(k) = j
  <2>1. CASE j = 0 /\ ready
    <3>1. Place(pipe', 0) = issue
      BY <1>6, <2>1
    <3>2. issuing
      BY <1>9, <2>1, <3>1
    <3> QED BY <2>1, <3>1, <3>2
  <2>2. CASE ~(j = 0 /\ ready)
    <3> HIDE DEF goes, ready
    <3> QED BY <1>6, <1>9, <2>2
  <2> QED BY <2>1, <2>2
<1>10. ASSUME issuing
       PROVE  /\ Place(pipe', 0) = Issued(cursor)
              /\ \A k \in Places : P(k) # None => goes(k) # 0
  BY <1>6, <1>10
<1> HIDE DEF goes, issuing, commits
<1> QED BY <1>6, <1>7, <1>8, <1>9, <1>10 DEF goes, issuing, commits

\* A cycle of the pipeline.
LEMMA RunPipelineKeeps ==
    ASSUME IInv, RunPipeline
    PROVE  IInv'
<1> USE DEF IInv
<1> DEFINE P(k) == Place(pipe, k)
           n(k) == P(k).neuron
           goes(k) == MovesTo(pipe, k, Len(fifo), Cut)
           commits == Commits(pipe, Len(fifo))
           r == pipe.stage[5].neuron
           issuing == state = "SCAN_PIPELINE" /\ cursor \in touched /\ Ready(pipe, 0, Len(fifo), Cut)
           issue == IF issuing THEN Issued(cursor) ELSE None
<1>1. /\ state \in PipelineStates /\ begun >= 1 /\ Scanning
      /\ UNCHANGED <<setting, begun, front, result>>
      /\ \A k \in Places : P(k) # None =>
            n(k) \in touched /\ (state = "SCAN_PIPELINE" => n(k) < cursor)
  BY PipelineFacts
<1>2. /\ CutWell(pipe', Cut)
      /\ \A k \in Places : P(k) # None =>
            /\ goes(k) \in k .. 8
            /\ goes(k) = 8 <=> commits /\ n(k) = r
            /\ goes(k) # 8 =>
                  Place(pipe', goes(k)) = Work(Issued(n(k)), ram[n(k)], fixture.params, goes(k))
      /\ \A k, l \in Places : k < l /\ P(k) # None /\ P(l) # None => goes(k) < goes(l)
      /\ \A j \in Places : Place(pipe', j) # None =>
            \/ j = 0 /\ issuing /\ Place(pipe', 0) = Issued(cursor)
            \/ \E k \in Places : P(k) # None /\ goes(k) = j
      /\ issuing => /\ Place(pipe', 0) = Issued(cursor)
                    /\ \A k \in Places : P(k) # None => goes(k) # 0
  BY PipelineMoves
<1>3. /\ memory' = MemoryRead(issue)
      /\ \/ /\ state = "PIPELINE_DRAIN" /\ cursor' = cursor
            /\ state' = IF IsEmpty(pipe) THEN "SPIKE_DRAIN" ELSE state
         \/ state = "SCAN_PIPELINE" /\ ScanDone /\ state' = "PIPELINE_DRAIN"
         \/ /\ state = "SCAN_PIPELINE" /\ ~ScanDone /\ state' = state
            /\ cursor' = IF issuing \/ cursor \notin touched THEN cursor + 1 ELSE cursor
  <2>1. memory' = MemoryRead(issue)
    BY DEF RunPipeline, Issued
  <2>2. ScanPipeline(issuing)
    BY DEF RunPipeline
  <2> HIDE DEF issuing
  <2> QED BY <1>1, <2>1, <2>2 DEF ScanPipeline, PipelineStates
<1>4. /\ Neurons = 1 .. Len(fixture.params) /\ Len(fixture.params) \in Nat \ {0}
      /\ touched \subseteq Neurons /\ bank \in [Neurons -> Int]
      /\ ram \in [Neurons -> [voltage : Int, last_update : Int]]
      /\ \A m \in Neurons \ touched : bank[m] = 0
      /\ result = None
      /\ state = "SCAN_PIPELINE" => cursor \in 1 .. Len(fixture.params) + 1
  BY <1>1, FixtureFacts DEF TypeInv, QuietInv, PipelineInv, PipelineStates, Initialised
<1>5. fixture' = fixture /\ current_tick' = current_tick /\ Cut' = Cut
  BY <1>1, SameTick
<1>6. /\ touched' = IF commits THEN touched \ {r} ELSE touched
      /\ \A m \in touched' : bank'[m] = bank[m] /\ ram'[m] = ram[m]
      /\ \A m \in Neurons \ touched' : bank'[m] = 0
      /\ bank' \in [Neurons -> Int] /\ ram' \in [Neurons -> [voltage : Int, last_update : Int]]
      /\ fifo' \in Seq(Spikes) /\ taken' \in Seq(Spikes)
      /\ commits => r \in touched /\ \E k \in Places : P(k) # None /\ n(k) = r
  <2>1. CASE commits
    <3>1. /\ r \in touched /\ pipe.stage[5] \in Decisions
          /\ Retire(r, pipe.stage[5].voltage, pipe.stage[5].spike)
      BY <2>1, PipelineFacts
    <3>2. /\ bank' \in [Neurons -> Int] /\ touched' = touched \ {r}
          /\ ram' \in [Neurons -> [voltage : Int, last_update : Int]]
          /\ fifo' \in Seq(Spikes) /\ taken' \in Seq(Spikes)
          /\ bank'[r] = 0 /\ \A m \in Neurons : m # r => bank'[m] = bank[m] /\ ram'[m] = ram[m]
      <4>1. TypeInv /\ begun >= 1
        BY <1>1
      <4> QED BY ONLY <3>1, <4>1, RetireFacts
    <3>3. 7 \in Places /\ P(7) # None /\ n(7) = r
      BY <2>1 DEF Places, Place, Commits
    <3> HIDE DEF commits, r
    <3> QED BY <1>4, <2>1, <3>1, <3>2, <3>3
  <2>2. CASE ~commits
    <3>1. /\ bank' = bank /\ touched' = touched /\ ram' = ram
          /\ fifo' \in Seq(Spikes) /\ taken' \in Seq(Spikes)
      <4>1. NoRetire
        BY <2>2, PipelineFacts
      <4> QED BY <4>1, NoRetireFacts
    <3> HIDE DEF commits
    <3> QED BY <1>4, <2>2, <3>1
  <2> QED BY <2>1, <2>2
<1>7. ASSUME NEW k \in Places, P(k) # None, goes(k) # 8
      PROVE  /\ goes(k) \in Places /\ n(k) \in touched' /\ n(k) \in touched
             /\ Place(pipe', goes(k)) = Work(Issued(n(k)), ram[n(k)], fixture.params, goes(k))
             /\ Place(pipe', goes(k)) # None /\ Place(pipe', goes(k)).neuron = n(k)
  <2>1. goes(k) \in Places
    BY <1>2, <1>7 DEF Places
  <2>2. n(k) \in touched /\ ~(commits /\ n(k) = r)
    BY <1>1, <1>2, <1>7
  <2>3. n(k) \in touched'
    BY <1>6, <2>2
  <2>4. Place(pipe', goes(k)) = Work(Issued(n(k)), ram[n(k)], fixture.params, goes(k))
    BY <1>2, <1>7
  <2>5. n(k) \in Neurons /\ TypeInv
    BY <1>4, <2>2
  <2> HIDE DEF goes, n
  <2>6. Place(pipe', goes(k)) # None /\ Place(pipe', goes(k)).neuron = n(k)
    BY <1>1, <2>1, <2>4, <2>5, WorkIs
  <2> QED BY <2>1, <2>2, <2>3, <2>4, <2>6
<1>8. ASSUME issuing
      PROVE  /\ cursor \in touched' /\ cursor \in Neurons /\ issue = Issued(cursor) /\ issue # None
             /\ Place(pipe', 0) = issue /\ issue.neuron = cursor /\ 0 \in Places
             /\ Issued(cursor) = Work(Issued(cursor), ram[cursor], fixture.params, 0)
  <2>1. cursor \in touched /\ cursor \in Neurons /\ issue = Issued(cursor) /\ TypeInv /\ 0 \in Places
    BY <1>4, <1>8 DEF Places
  <2>2. Issued(cursor) = Work(Issued(cursor), ram[cursor], fixture.params, 0)
    BY DEF Work
  <2>3. Issued(cursor) # None /\ Issued(cursor).neuron = cursor
    BY <1>1, <2>1, <2>2, WorkIs
  <2>4. commits => r # cursor
    <3>1. commits => r < cursor
      BY <1>1, <1>6, <1>8
    <3>2. commits => r \in Int
      BY <1>4, <1>6
    <3>3. cursor \in Int
      BY <1>4, <2>1
    <3> HIDE DEF commits, r
    <3> QED BY ONLY <3>1, <3>2, <3>3
  <2>5. cursor \in touched'
    BY <1>6, <2>1, <2>4
  <2>6. Place(pipe', 0) = Issued(cursor)
    BY <1>2, <1>8
  <2> QED BY <2>1, <2>2, <2>3, <2>5, <2>6
<1> HIDE DEF commits, r, issuing, goes
<1>9. ASSUME NEW j \in Places, Place(pipe', j) # None
      PROVE  \/ j = 0 /\ issuing
             \/ \E k \in Places : P(k) # None /\ goes(k) = j /\ goes(k) # 8
  <2>1. j # 8
    BY DEF Places
  <2> QED BY <1>2, <1>9, <2>1
<1>10. ASSUME NEW j \in Places, Place(pipe', j) # None
       PROVE  LET m == Place(pipe', j).neuron
              IN  m \in touched' /\ Place(pipe', j) = Work(Issued(m), ram[m], fixture.params, j)
  <2>1. CASE j = 0 /\ issuing
    BY <1>8, <2>1
  <2>2. ASSUME NEW k \in Places, P(k) # None, goes(k) = j, goes(k) # 8
        PROVE  LET m == Place(pipe', j).neuron
               IN  m \in touched' /\ Place(pipe', j) = Work(Issued(m), ram[m], fixture.params, j)
    BY <1>7, <2>2
  <2> QED BY <1>9, <1>10, <2>1, <2>2
<1>11. ASSUME NEW i \in Places, NEW j \in Places, i < j,
              Place(pipe', i) # None, Place(pipe', j) # None
       PROVE  Place(pipe', j).neuron < Place(pipe', i).neuron
  <2>1. j # 0
    BY <1>11 DEF Places
  <2>2. PICK l \in Places : P(l) # None /\ goes(l) = j /\ goes(l) # 8
    BY <1>9, <1>11, <2>1
  <2>3. Place(pipe', j).neuron = n(l)
    BY <1>7, <2>2
  <2>4. CASE i = 0 /\ issuing
    <3>1. n(l) < cursor
      BY <1>1, <2>2, <2>4 DEF issuing
    <3> QED BY <1>8, <2>3, <2>4, <3>1
  <2>5. ASSUME NEW k \in Places, P(k) # None, goes(k) = i, goes(k) # 8
        PROVE  Place(pipe', j).neuron < Place(pipe', i).neuron
    <3>1. k < l
      <4>1. k \in Int /\ l \in Int /\ i \in Int /\ j \in Int
        BY DEF Places
      <4>2. l < k => j < i
        BY <1>2, <2>2, <2>5
      <4>3. l # k
        BY <1>11, <2>2, <2>5, <4>1
      <4> QED BY <1>11, <4>1, <4>2, <4>3
    <3>2. n(l) < n(k)
      BY <2>2, <2>5, <3>1 DEF PipelineInv
    <3> QED BY <1>7, <2>3, <2>5, <3>2
  <2> QED BY <1>9, <1>11, <2>4, <2>5
<1> DEFINE Flies(m) == \E j \in Places : Place(pipe', j) # None /\ Place(pipe', j).neuron = m
<1>12. ASSUME NEW m \in touched'
       PROVE  Flies(m) <=> InFlight(m) \/ (issuing /\ m = cursor)
  <2>1. ASSUME Flies(m)
        PROVE  InFlight(m) \/ (issuing /\ m = cursor)
    <3>1. PICK j \in Places : Place(pipe', j) # None /\ Place(pipe', j).neuron = m
      BY <2>1
    <3>2. CASE j = 0 /\ issuing
      BY <1>8, <3>1, <3>2
    <3>3. ASSUME NEW k \in Places, P(k) # None, goes(k) = j, goes(k) # 8
          PROVE  InFlight(m)
      BY <1>7, <3>1, <3>3 DEF InFlight
    <3> QED BY <1>9, <3>1, <3>2, <3>3
  <2>2. ASSUME InFlight(m)
        PROVE  Flies(m)
    <3>1. PICK k \in Places : P(k) # None /\ n(k) = m
      BY <2>2 DEF InFlight
    <3>2. ~(commits /\ m = r)
      BY <1>6, <1>12
    <3>3. goes(k) # 8
      BY <1>2, <3>1, <3>2
    <3> QED BY <1>7, <3>1, <3>3
  <2>3. ASSUME issuing, m = cursor
        PROVE  Flies(m)
    BY <1>8, <2>3
  <2> QED BY <2>1, <2>2, <2>3
<1>13. ASSUME Place(pipe', 0) # None
       PROVE  memory' = ram'[Place(pipe', 0).neuron]
  <2>0. 0 \in Places /\ Place(pipe, 0) = pipe.stage[0]
    BY DEF Places, Place
  <2>1. CASE issuing
    <3>1. memory' = ram[cursor]
      BY <1>3, <1>8, <2>1 DEF MemoryRead
    <3> QED BY <1>6, <1>8, <2>1, <3>1
  <2>2. CASE ~issuing
    <3>1. PICK k \in Places : P(k) # None /\ goes(k) = 0 /\ goes(k) # 8
      BY <1>9, <1>13, <2>0, <2>2
    <3>2. k = 0
      BY <1>2, <3>1 DEF Places
    <3>3. pipe.stage[0] # None /\ n(0) = pipe.stage[0].neuron
      BY <2>0, <3>1, <3>2
    <3>4. memory' = ram[n(0)]
      BY <1>3, <2>2, <3>3 DEF MemoryRead
    <3>5. Place(pipe', 0).neuron = n(0) /\ n(0) \in touched'
      BY <1>7, <3>1, <3>2
    <3> QED BY <1>6, <3>4, <3>5
  <2> QED BY <2>1, <2>2
<1>14. ASSUME state' = "SCAN_PIPELINE"
       PROVE  /\ cursor' \in 1 .. Len(fixture.params) + 1
              /\ \A m \in touched' : m < cursor' <=> Flies(m)
  <2>1. /\ state = "SCAN_PIPELINE" /\ cursor \in 1 .. Len(fixture.params)
        /\ cursor' = IF issuing \/ cursor \notin touched THEN cursor + 1 ELSE cursor
    BY <1>3, <1>4, <1>14 DEF ScanDone
  <2>2. ASSUME NEW m \in touched'
        PROVE  m < cursor' <=> Flies(m)
    <3>1. m \in touched /\ m \in Int /\ cursor \in Int
      BY <1>4, <1>6, <2>1
    <3>2. m < cursor <=> InFlight(m)
      BY <2>1, <3>1 DEF PipelineInv
    <3>3. Flies(m) <=> InFlight(m) \/ (issuing /\ m = cursor)
      BY <1>12
    <3> HIDE DEF Flies
    <3>4. CASE issuing
      BY <2>1, <3>1, <3>2, <3>3, <3>4
    <3>5. CASE ~issuing /\ cursor \notin touched
      <4>1. m # cursor
        BY <3>1, <3>5
      <4> QED BY <2>1, <3>1, <3>2, <3>3, <3>5, <4>1
    <3>6. CASE ~issuing /\ cursor \in touched
      BY <2>1, <3>1, <3>2, <3>3, <3>6
    <3> QED BY <3>4, <3>5, <3>6
  <2>3. cursor' \in 1 .. Len(fixture.params) + 1
    BY <1>4, <2>1
  <2> QED BY <2>2, <2>3
<1>15. ASSUME state' = "PIPELINE_DRAIN", NEW m \in touched'
       PROVE  Flies(m)
  <2>1. m \in touched /\ m \in 1 .. Len(fixture.params)
    BY <1>4, <1>6
  <2>2. CASE state = "SCAN_PIPELINE"
    <3>1. cursor > Len(fixture.params) /\ cursor \in Int
      BY <1>3, <1>4, <1>15, <2>2 DEF ScanDone
    <3>2. m < cursor
      BY <1>4, <2>1, <3>1
    <3>3. InFlight(m)
      BY <2>1, <2>2, <3>2 DEF PipelineInv
    <3> QED BY <1>12, <3>3
  <2>3. CASE state = "PIPELINE_DRAIN"
    <3>1. InFlight(m)
      BY <2>1, <2>3 DEF PipelineInv
    <3> QED BY <1>12, <3>1
  <2> QED BY <1>1, <2>2, <2>3 DEF PipelineStates
<1>16. ASSUME state' \notin PipelineStates
       PROVE  IsEmpty(pipe)' /\ touched' = {}
  <2>1. state = "PIPELINE_DRAIN" /\ IsEmpty(pipe)
    BY <1>3, <1>16 DEF PipelineStates
  <2>2. \A k \in Places : P(k) = None
    BY <2>1, EmptyPlaces DEF PipelineInv
  <2>3. touched = {}
    BY <2>1, <2>2 DEF PipelineInv, InFlight
  <2>4. ~issuing
    BY <2>1 DEF issuing
  <2>5. \A k \in Places : Place(pipe', k) = None
    BY <1>9, <2>2, <2>4
  <2>6. IsEmpty(pipe')
    BY <1>2, <2>5, EmptyPlaces
  <2>7. IsEmpty(pipe)'
    BY <2>6 DEF IsEmpty
  <2> QED BY <1>6, <2>3, <2>7
<1>17. /\ Scanning' /\ state' \in {"SCAN_PIPELINE", "PIPELINE_DRAIN", "SPIKE_DRAIN"}
  BY <1>3 DEF Scanning
<1>18. TypeInv' /\ InitialiseInv' /\ QuietInv' /\ FrontInv' /\ SumsInv'
  <2>1. \A m \in Neurons : bank'[m] = IF m \in touched' THEN bank[m] ELSE 0
    BY <1>6
  <2>2. touched' \subseteq touched
    BY <1>6
  <2>3. state' \in {"TICK_DONE", "SPIKE_DRAIN"} => touched' = {}
    BY <1>16 DEF PipelineStates
  <2>4. result' = None
    BY <1>1, <1>4
  <2>5. state' \notin PipelineStates => IsEmpty(pipe)'
    BY <1>16
  <2> QED BY <1>1, <1>6, <1>17, <2>1, <2>2, <2>3, <2>4, <2>5, ScanKeeps
<1>19. MempipeInv'
  BY <1>17 DEF MempipeInv
<1>20. PipelineInv'
  <2>1. CutWell(pipe, Cut)'
    BY <1>2, <1>5 DEF CutWell
  <2>2. pipe'.stage[0] # None => memory' = ram'[pipe'.stage[0].neuron]
    <3>1. Place(pipe', 0) = pipe'.stage[0]
      BY DEF Place
    <3> QED BY <1>13, <3>1
  <2>3. ASSUME NEW j \in Places, Place(pipe', j) # None
        PROVE  /\ Place(pipe', j).neuron \in touched'
               /\ Place(pipe', j) = Work([neuron |-> Place(pipe', j).neuron, tick |-> current_tick',
                                          accumulator |-> bank'[Place(pipe', j).neuron]],
                                         ram'[Place(pipe', j).neuron], fixture'.params, j)
    <3> DEFINE m == Place(pipe', j).neuron
    <3>1. m \in touched' /\ Place(pipe', j) = Work(Issued(m), ram[m], fixture.params, j)
      BY <1>10, <2>3
    <3> HIDE DEF m
    <3>2. ram'[m] = ram[m] /\ bank'[m] = bank[m]
      BY <1>6, <3>1
    <3>3. [neuron |-> m, tick |-> current_tick', accumulator |-> bank'[m]] = Issued(m)
      BY <1>5, <3>2 DEF Issued
    <3>4. Place(pipe', j) = Work([neuron |-> m, tick |-> current_tick', accumulator |-> bank'[m]],
                                 ram'[m], fixture'.params, j)
      BY <1>5, <3>1, <3>2, <3>3
    <3> QED BY <3>1, <3>4 DEF m
  <2> QED BY <1>5, <1>11, <1>14, <1>15, <2>1, <2>2, <2>3 DEF PipelineInv, InFlight, Issued
<1> QED BY <1>18, <1>19, <1>20

\* The front end: what its steps have in common.
LEMMA FrontKeeps ==
    ASSUME IInv, state \in FrontStates, UNCHANGED <<setting, begun>>, NeuronIdle, SpikeFifo(<<>>),
           state' \in FrontStates \cup {"SCAN_START"},
           bank' \in [Neurons -> Int], touched' \subseteq Neurons,
           \A n \in Neurons \ touched' : bank'[n] = 0,
           front' = [offered |-> front'.offered, complete |-> front'.complete,
                     fifo |-> front'.fifo, axon |-> front'.axon, next |-> front'.next,
                     payload |-> front'.payload, lanes |-> front'.lanes],
           front'.complete \in BOOLEAN,
           state' = "SCAN_START" => /\ front'.fifo = <<>>
                                    /\ \A n \in touched' : bank'[n] = Sum(Contributed, n),
           state' # "ACCUMULATE" => front'.lanes = {}
    PROVE  TypeInv' /\ InitialiseInv' /\ QuietInv' /\ SumsInv' /\ MempipeInv' /\ PipelineInv'
<1> USE DEF IInv
<1>1. UNCHANGED <<cursor, result, pipe, memory, ram>>
  BY DEF NeuronIdle
<1>2. begun >= 1
  BY DEF TypeInv
<1>3. /\ fixture' = fixture /\ Neurons' = Neurons /\ Contributed' = Contributed
      /\ \A X, n : Sum(X, n)' = Sum(X, n)
  BY SameTick
<1>4. IsEmpty(pipe) /\ result = None
  BY DEF QuietInv, FrontStates, PipelineStates
<1>5. fifo' \in Seq(Spikes) /\ taken' \in Seq(Spikes)
  <2>1. <<>> \in Seq(Spikes)
    OBVIOUS
  <2> QED BY <2>1, SpikeFlow
<1>6. PipelineInv' /\ IsEmpty(pipe)'
  <2>1. touched' \subseteq Nat \ {0}
    BY FixtureFacts
  <2> QED BY <1>1, <1>4, <2>1, PipelineRests DEF FrontStates
<1>7. TypeInv'
  BY <1>1, <1>2, <1>3, <1>5 DEF TypeInv
<1>8. InitialiseInv' /\ MempipeInv'
  BY DEF InitialiseInv, MempipeInv, FrontStates
<1>9. QuietInv'
  <2>1. \A n \in Neurons' \ touched' : bank'[n] = 0
    BY <1>3
  <2> QED BY <1>1, <1>4, <1>6, <2>1 DEF QuietInv, FrontStates
<1>10. SumsInv'
  <2>1. Scanning' => state' = "SCAN_START"
    BY DEF Scanning, FrontStates
  <2>2. Scanning' => \A n \in touched' : bank'[n] = Sum(Contributed, n)
    BY <2>1
  <2> QED BY <1>3, <2>2 DEF SumsInv
<1> QED BY <1>6, <1>7, <1>8, <1>9, <1>10

\* What is not done yet of the events taken into work: the contributions of the event in work
\* that were not added.
LEMMA RestIs ==
    ASSUME NEW x
    PROVE  /\ x \in Rest <=>
                 /\ state # "INGRESS"
                 /\ \E a \in DOMAIN Fanout :
                       (a >= front.next \/ \E lane \in front.lanes : lane.address = a)
                       /\ x = <<InWork, a>>
           /\ x \in Rest' <=>
                 /\ state' # "INGRESS"
                 /\ \E a \in DOMAIN Fanout' :
                       (a >= front'.next \/ \E lane \in front'.lanes : lane.address = a)
                       /\ x = <<InWork', a>>
<1>1. x \in Rest <=>
         /\ state # "INGRESS"
         /\ \E a \in DOMAIN Fanout :
               (a >= front.next \/ \E lane \in front.lanes : lane.address = a) /\ x = <<InWork, a>>
  BY DEF Rest
<1>2. x \in Rest' <=>
         /\ state' # "INGRESS"
         /\ \E a \in DOMAIN Fanout' :
               (a >= front'.next \/ \E lane \in front'.lanes : lane.address = a)
               /\ x = <<InWork', a>>
  BY DEF Rest
<1> QED BY <1>1, <1>2

\* The fanout of an axon is taken up two synapses at a time, and none is left out.
LEMMA FetchKeeps ==
    ASSUME IInv, Fetch
    PROVE  IInv'
<1> USE DEF IInv
<1> DEFINE requested == front.next .. Min({Len(Fanout), front.next + SynapseLanes - 1})
           lanes == {[target |-> Fanout[a].target, address |-> a,
                      value |-> Fanout[a].weight * front.payload] : a \in requested}
<1>1. /\ state \in {"AXON_WAIT", "SYNAPSE_REQUEST", "SYNAPSE_RESPONSE"}
      /\ \/ /\ state = "AXON_WAIT" /\ front' = front
            /\ state' = IF Fanout = <<>> THEN "INGRESS" ELSE "SYNAPSE_REQUEST"
         \/ state = "SYNAPSE_REQUEST" /\ state' = "SYNAPSE_RESPONSE" /\ front' = front
         \/ /\ state = "SYNAPSE_RESPONSE" /\ state' = "ACCUMULATE"
            /\ front' = [front EXCEPT !.next = @ + Cardinality(requested), !.lanes = lanes]
      /\ SpikeFifo(<<>>) /\ NeuronIdle /\ UNCHANGED <<setting, begun, bank, touched>>
  BY DEF Fetch
<1> HIDE DEF requested, lanes
<1>2. /\ begun >= 1 /\ state \in FrontStates /\ state' \in FrontStates
      /\ touched \subseteq Neurons /\ bank \in [Neurons -> Int]
      /\ \A n \in Neurons \ touched : bank[n] = 0
      /\ front = [offered |-> front.offered, complete |-> front.complete, fifo |-> front.fifo,
                  axon |-> front.axon, next |-> front.next, payload |-> front.payload,
                  lanes |-> front.lanes]
      /\ front.complete \in BOOLEAN /\ front.lanes = {}
  BY <1>1 DEF TypeInv, FrontStates, QuietInv, Initialised
<1>3. /\ fixture' = fixture /\ Neurons' = Neurons /\ Contributed' = Contributed
      /\ Events' = Events /\ EventRecords' = EventRecords
      /\ \A X, n : Sum(X, n)' = Sum(X, n)
      /\ \A x : Goes(x)' = Goes(x)
  BY <1>1, SameTick
<1>4. /\ front.offered \in 0 .. Len(Events)
      /\ front.complete => front.offered = Len(Events)
      /\ front.fifo \in Seq(EventRecords) /\ Len(front.fifo) <= front.offered
      /\ \A k \in 1 .. Len(front.fifo) : front.fifo[k] = Events[InWork + k]
      /\ touched = {Goes(x) : x \in Done}
      /\ \A n \in Neurons : bank[n] = Sum(Done, n)
      /\ InWork >= 1
      /\ front.axon = Events[InWork].axon /\ front.payload = Events[InWork].payload
      /\ front.next \in 1 .. Len(Fanout) + 1
      /\ state = "AXON_WAIT" => front.next = 1
      /\ state \in {"SYNAPSE_REQUEST", "SYNAPSE_RESPONSE"} => front.next <= Len(Fanout)
  BY <1>1, <1>2 DEF FrontInv
<1>5. Fanout \in Seq([target : Neurons, weight : Int]) /\ InWork \in 1 .. Len(Events)
  <2>1. InWork \in 1 .. Len(Events)
    BY <1>2, <1>4, TickFacts DEF InWork
  <2> QED BY <1>2, <1>4, <2>1, TickFacts DEF Fanout
<1>6. Len(Fanout) \in Nat /\ DOMAIN Fanout = 1 .. Len(Fanout) /\ (Fanout = <<>> <=> Len(Fanout) = 0)
  BY <1>5
<1>7. /\ front'.offered = front.offered /\ front'.complete = front.complete
      /\ front'.fifo = front.fifo /\ front'.axon = front.axon /\ front'.payload = front.payload
      /\ InWork' = InWork /\ Fanout' = Fanout
      /\ front' = [offered |-> front'.offered, complete |-> front'.complete,
                   fifo |-> front'.fifo, axon |-> front'.axon, next |-> front'.next,
                   payload |-> front'.payload, lanes |-> front'.lanes]
  <2>1. /\ front'.offered = front.offered /\ front'.complete = front.complete
        /\ front'.fifo = front.fifo /\ front'.axon = front.axon /\ front'.payload = front.payload
        /\ front' = [offered |-> front'.offered, complete |-> front'.complete,
                     fifo |-> front'.fifo, axon |-> front'.axon, next |-> front'.next,
                     payload |-> front'.payload, lanes |-> front'.lanes]
    <3>1. CASE front' = front
      BY <1>2, <3>1
    <3>2. CASE front' = [front EXCEPT !.next = @ + Cardinality(requested), !.lanes = lanes]
      BY <1>2, <3>2
    <3> QED BY <1>1, <3>1, <3>2
  <2> QED BY <1>3, <2>1 DEF InWork, Fanout
<1>8. ASSUME state = "SYNAPSE_RESPONSE"
      PROVE  /\ front'.next \in front.next .. Len(Fanout) + 1 /\ front'.lanes = lanes
             /\ requested = front.next .. front'.next - 1
  <2> DEFINE b == front.next + SynapseLanes - 1
             m == Min({Len(Fanout), b})
  <2>1. front.next \in Nat /\ front.next >= 1 /\ front.next <= Len(Fanout) /\ b \in Nat /\ b >= front.next
    BY <1>4, <1>6, <1>8, SettingsAssumption
  <2>2. m = IF Len(Fanout) <= b THEN Len(Fanout) ELSE b
    <3>1. Len(Fanout) \in Int /\ b \in Int
      BY <1>6, <2>1
    <3> HIDE DEF b
    <3> QED BY <3>1 DEF Min
  <2>3. m \in front.next .. Len(Fanout)
    BY <1>6, <2>1, <2>2
  <2>4. requested = front.next .. m
    BY DEF requested
  <2>5. Cardinality(requested) = m - front.next + 1
    <3> HIDE DEF m
    <3>1. front.next \in Int /\ m \in Int /\ ~(front.next > m)
      BY <1>6, <2>1, <2>3
    <3>2. Cardinality(front.next .. m) = m - front.next + 1
      BY ONLY <3>1, FS_Interval
    <3> QED BY <2>4, <3>2
  <2>6. front'.next = front.next + Cardinality(requested) /\ front'.lanes = lanes
    BY <1>1, <1>2, <1>8
  <2> HIDE DEF m
  <2>7. front'.next = m + 1
    BY <1>6, <2>1, <2>3, <2>5, <2>6
  <2> QED BY <1>6, <2>1, <2>3, <2>4, <2>6, <2>7
<1>9. ASSUME NEW x
      PROVE  x \in Rest' <=> x \in Rest
  <2>1. CASE state = "AXON_WAIT"
    <3>1. front'.next = front.next /\ front'.lanes = front.lanes /\ front.next = 1
      BY <1>1, <1>4, <2>1
    <3>2. CASE Fanout = <<>>
      BY <1>1, <1>6, <1>7, <2>1, <3>2, RestIs
    <3>3. CASE Fanout # <<>>
      <4>1. state' # "INGRESS" /\ state # "INGRESS"
        BY <1>1, <2>1, <3>3
      <4> QED BY <1>7, <3>1, <4>1, RestIs
    <3> QED BY <3>2, <3>3
  <2>2. CASE state = "SYNAPSE_REQUEST"
    <3>1. front'.next = front.next /\ front'.lanes = front.lanes
          /\ state' # "INGRESS" /\ state # "INGRESS"
      BY <1>1, <2>2
    <3> QED BY <1>7, <3>1, RestIs
  <2>3. CASE state = "SYNAPSE_RESPONSE"
    <3>1. state' # "INGRESS" /\ state # "INGRESS"
      BY <1>1, <2>3
    <3>2. ASSUME NEW a \in DOMAIN Fanout
          PROVE  (a >= front'.next \/ \E lane \in front'.lanes : lane.address = a)
                    <=> (a >= front.next \/ \E lane \in front.lanes : lane.address = a)
      <4> DEFINE one == [target |-> Fanout[a].target, address |-> a,
                         value |-> Fanout[a].weight * front.payload]
      <4>4. a \in requested => one \in lanes
        BY DEF lanes
      <4>5. one.address = a
        OBVIOUS
      <4>6. \A lane \in lanes : lane.address \in requested
        BY DEF lanes
      <4> HIDE DEF one
      <4>0. (\E lane \in lanes : lane.address = a) <=> a \in requested
        BY ONLY <4>4, <4>5, <4>6
      <4>1. (\E lane \in front'.lanes : lane.address = a) <=> a \in front.next .. front'.next - 1
        BY <1>8, <2>3, <4>0
      <4>2. a \in Int /\ front.next \in Int /\ front'.next \in Int /\ front'.next >= front.next
        BY <1>4, <1>6, <1>8, <2>3
      <4>3. a >= front'.next \/ a \in front.next .. front'.next - 1 <=> a >= front.next
        BY <4>2
      <4> QED BY <1>2, <4>1, <4>3
    <3> QED BY <1>7, <3>1, <3>2, RestIs
  <2> QED BY <1>1, <2>1, <2>2, <2>3
<1>10. Done' = Done
  <2>1. \A x : x \in Done' <=> x \in Done
    <3> HIDE DEF IInv
    <3> QED BY <1>3, <1>7, <1>9 DEF Done
  <2>2. Done' \subseteq Contributed /\ Done \subseteq Contributed
    BY <1>3 DEF Done
  <2> QED BY <2>1, <2>2
<1>11. ASSUME state' # "INGRESS"
       PROVE  /\ front'.next \in 1 .. Len(Fanout) + 1
              /\ state' # "AXON_WAIT"
              /\ state' \in {"SYNAPSE_REQUEST", "SYNAPSE_RESPONSE"} => front'.next <= Len(Fanout)
              /\ \A lane \in front'.lanes :
                    /\ lane.address \in 1 .. front'.next - 1
                    /\ lane = [target |-> Fanout[lane.address].target, address |-> lane.address,
                               value |-> Fanout[lane.address].weight * front.payload]
  <2>1. CASE state = "AXON_WAIT"
    <3>1. front' = front /\ Fanout # <<>> /\ state' = "SYNAPSE_REQUEST" /\ front.next = 1
      BY <1>1, <1>4, <1>11, <2>1
    <3> QED BY <1>2, <1>6, <3>1
  <2>2. CASE state = "SYNAPSE_REQUEST"
    BY <1>1, <1>2, <1>4, <2>2
  <2>3. CASE state = "SYNAPSE_RESPONSE"
    <3>1. /\ front'.next \in front.next .. Len(Fanout) + 1 /\ front'.lanes = lanes
          /\ requested = front.next .. front'.next - 1
      BY <1>8, <2>3
    <3>2. front.next \in Int /\ front.next >= 1 /\ Len(Fanout) \in Int /\ front'.next \in Int
      BY <1>4, <1>6, <3>1
    <3>3. front'.next \in 1 .. Len(Fanout) + 1 /\ requested \subseteq 1 .. front'.next - 1
      BY <3>1, <3>2
    <3>4. \A lane \in front'.lanes :
             /\ lane.address \in requested
             /\ lane = [target |-> Fanout[lane.address].target, address |-> lane.address,
                        value |-> Fanout[lane.address].weight * front.payload]
      BY <3>1 DEF lanes
    <3>5. state' = "ACCUMULATE"
      BY <1>1, <2>3
    <3> QED BY <3>3, <3>4, <3>5
  <2> QED BY <1>1, <2>1, <2>2, <2>3
<1>12. FrontInv'
  <2>1. touched' = {Goes(x)' : x \in Done'}
    BY <1>1, <1>3, <1>4, <1>10
  <2>2. \A n \in Neurons' : bank'[n] = Sum(Done, n)'
    BY <1>1, <1>3, <1>4, <1>10
  <2> HIDE DEF IInv
  <2> QED BY <1>3, <1>4, <1>7, <1>11, <2>1, <2>2 DEF FrontInv
<1>13. state' # "ACCUMULATE" => front'.lanes = {}
  BY <1>1, <1>2
<1>14. state' # "SCAN_START"
  BY <1>2 DEF FrontStates
<1> QED BY <1>1, <1>2, <1>7, <1>12, <1>13, <1>14, FrontKeeps

\* The contributions of an event are those of its axon's synapses.
LEMMA ContributionsOf ==
    ASSUME TypeInv, begun >= 1, NEW i \in 1 .. Len(Events), NEW x
    PROVE  x \in Contributed /\ x[1] = i <=>
               \E a \in DOMAIN fixture.fanout[Events[i].axon] : x = <<i, a>>
<1>1. ASSUME x \in Contributed, x[1] = i
      PROVE  \E a \in DOMAIN fixture.fanout[Events[i].axon] : x = <<i, a>>
  <2>1. PICK j \in 1 .. Len(Events) : \E a \in DOMAIN fixture.fanout[Events[j].axon] : x = <<j, a>>
    BY <1>1, ContributionsAre
  <2>2. j = i
    BY <1>1, <2>1
  <2> QED BY <2>1, <2>2
<1>2. ASSUME \E a \in DOMAIN fixture.fanout[Events[i].axon] : x = <<i, a>>
      PROVE  x \in Contributed /\ x[1] = i
  <2>1. x \in Contributed
    BY <1>2, ContributionsAre
  <2> QED BY <1>2, <2>1
<1> QED BY <1>1, <1>2

\* An event is accepted, one is taken into work, or ingress is over: then every event
\* was accumulated.
LEMMA IngressKeeps ==
    ASSUME IInv, Ingress
    PROVE  IInv'
<1> USE DEF IInv
<1> DEFINE accept == front.offered < Len(Events) /\ Len(front.fifo) < IngressDepth
           offered == front.offered + (IF accept THEN 1 ELSE 0)
           done == IF setting.early THEN offered = Len(Events) ELSE front.offered = Len(Events)
           accepted == IF accept THEN <<Events[offered]>> ELSE <<>>
           kept == IF front.fifo # <<>> THEN Tail(front.fifo) ELSE front.fifo
           l == Len(front.fifo)
           a == IF accept THEN 1 ELSE 0
           taken1 == IF front.fifo # <<>> THEN 1 ELSE 0
<1>1. /\ state = "INGRESS"
      /\ front' = IF front.fifo # <<>>
                  THEN [front EXCEPT !.offered = offered, !.complete = @ \/ done,
                          !.fifo = Tail(@) \o accepted, !.axon = Head(front.fifo).axon,
                          !.payload = Head(front.fifo).payload, !.next = 1]
                  ELSE [front EXCEPT !.offered = offered, !.complete = @ \/ done,
                          !.fifo = @ \o accepted]
      /\ front.fifo # <<>> => state' = "AXON_WAIT"
      /\ front.fifo = <<>> => state' = IF (front.complete \/ done) /\ ~accept THEN "SCAN_START"
                                       ELSE "INGRESS"
      /\ SpikeFifo(<<>>) /\ NeuronIdle /\ UNCHANGED <<setting, begun, bank, touched>>
  BY DEF Ingress, IngressOver
<1>2. /\ begun >= 1 /\ state \in FrontStates /\ TypeInv
      /\ touched \subseteq Neurons /\ bank \in [Neurons -> Int]
      /\ \A n \in Neurons \ touched : bank[n] = 0
      /\ front = [offered |-> front.offered, complete |-> front.complete, fifo |-> front.fifo,
                  axon |-> front.axon, next |-> front.next, payload |-> front.payload,
                  lanes |-> front.lanes]
      /\ front.complete \in BOOLEAN /\ front.lanes = {}
  BY <1>1 DEF TypeInv, FrontStates, QuietInv, Initialised
<1>3. /\ fixture' = fixture /\ Neurons' = Neurons /\ Contributed' = Contributed
      /\ Events' = Events /\ EventRecords' = EventRecords
      /\ \A X, n : Sum(X, n)' = Sum(X, n)
      /\ \A x : Goes(x)' = Goes(x)
  BY <1>1, SameTick
<1>4. /\ front.offered \in 0 .. Len(Events)
      /\ front.complete => front.offered = Len(Events)
      /\ front.fifo \in Seq(EventRecords) /\ l <= front.offered
      /\ \A k \in 1 .. l : front.fifo[k] = Events[InWork + k]
      /\ touched = {Goes(x) : x \in Done}
      /\ \A n \in Neurons : bank[n] = Sum(Done, n)
      /\ InWork = front.offered - l
  BY <1>1, <1>2 DEF FrontInv, InWork
<1>5. /\ Events \in Seq(EventRecords) /\ DOMAIN Events = 1 .. Len(Events) /\ Len(Events) \in Nat
      /\ \A i \in 1 .. Len(Events) :
            /\ Events[i] \in EventRecords
            /\ fixture.fanout[Events[i].axon] \in Seq([target : Neurons, weight : Int])
  BY <1>2, TickFacts
<1>6. l \in Nat /\ (front.fifo = <<>> <=> l = 0) /\ (front.fifo # <<>> => Head(front.fifo) = front.fifo[1])
  BY <1>4
<1>7. /\ front'.offered = offered /\ front'.complete = (front.complete \/ done)
      /\ front'.fifo = kept \o accepted /\ front'.lanes = {}
      /\ front.fifo # <<>> => front'.axon = front.fifo[1].axon /\ front'.payload = front.fifo[1].payload
                              /\ front'.next = 1
      /\ front' = [offered |-> front'.offered, complete |-> front'.complete,
                   fifo |-> front'.fifo, axon |-> front'.axon, next |-> front'.next,
                   payload |-> front'.payload, lanes |-> front'.lanes]
  <2> HIDE DEF offered, done, accepted, accept
  <2>1. CASE front.fifo # <<>>
    BY <1>1, <1>2, <1>6, <2>1
  <2>2. CASE front.fifo = <<>>
    BY <1>1, <1>2, <1>6, <2>2
  <2> QED BY <2>1, <2>2
<1>8. /\ offered \in 0 .. Len(Events) /\ offered = front.offered + a
      /\ accept => offered \in 1 .. Len(Events)
      /\ (front.complete \/ done) => offered = Len(Events)
      /\ done \in BOOLEAN
  <2>1. front.offered \in Int /\ Len(Events) \in Int /\ 0 <= front.offered
        /\ front.offered <= Len(Events) /\ (accept => front.offered < Len(Events))
    BY <1>4, <1>5
  <2>2. done = IF setting.early THEN offered = Len(Events) ELSE front.offered = Len(Events)
    OBVIOUS
  <2>3. offered = IF accept THEN front.offered + 1 ELSE front.offered
    BY <2>1
  <2>4. a = IF accept THEN 1 ELSE 0
    OBVIOUS
  <2> HIDE DEF accept, done, offered, a
  <2>5. offered \in 0 .. Len(Events) /\ offered = front.offered + a
        /\ (accept => offered \in 1 .. Len(Events))
    BY ONLY <2>1, <2>3, <2>4
  <2>6. done => offered = Len(Events)
    <3>1. (done <=> offered = Len(Events)) \/ (done <=> front.offered = Len(Events))
      BY <2>2
    <3>2. front.offered = Len(Events) => offered = Len(Events)
      BY ONLY <2>1, <2>3
    <3> QED BY ONLY <3>1, <3>2
  <2>7. front.complete => offered = Len(Events)
    <3>1. front.complete => front.offered = Len(Events)
      BY <1>4
    <3> QED BY ONLY <2>1, <2>3, <3>1
  <2>8. done \in BOOLEAN
    BY <2>2
  <2> QED BY <2>5, <2>6, <2>7, <2>8
<1>9. /\ accepted \in Seq(EventRecords) /\ Len(accepted) = a
      /\ \A k \in 1 .. a : accepted[k] = Events[offered]
  BY <1>5, <1>8
<1>10. /\ kept \in Seq(EventRecords) /\ Len(kept) = l - taken1
       /\ \A k \in 1 .. l - taken1 : kept[k] = front.fifo[taken1 + k]
  <2>1. front.fifo \in Seq(EventRecords) /\ l = Len(front.fifo)
    BY <1>4
  <2>2. CASE front.fifo # <<>>
    <3>1. taken1 = 1 /\ kept = Tail(front.fifo)
      BY <2>2
    <3>2. /\ Tail(front.fifo) \in Seq(EventRecords) /\ Len(Tail(front.fifo)) = Len(front.fifo) - 1
          /\ \A k \in 1 .. Len(front.fifo) - 1 : Tail(front.fifo)[k] = front.fifo[1 + k]
      BY ONLY <2>1, <2>2, TailAt
    <3> HIDE DEF kept, l, taken1
    <3> QED BY ONLY <2>1, <3>1, <3>2
  <2>3. CASE front.fifo = <<>>
    <3>1. taken1 = 0 /\ kept = <<>> /\ l = 0
      BY <2>1, <2>3
    <3> HIDE DEF kept, l, taken1
    <3> QED BY ONLY <3>1
  <2> QED BY <2>2, <2>3
<1>11. a \in 0 .. 1 /\ taken1 \in 0 .. 1 /\ l - taken1 \in Nat /\ (accept <=> a = 1)
       /\ (front.fifo # <<>> <=> taken1 = 1)
  BY <1>6
<1> HIDE DEF accept, offered, done, accepted, kept, l, a, taken1
<1>12. /\ front'.fifo \in Seq(EventRecords) /\ Len(front'.fifo) = l - taken1 + a
       /\ \A k \in 1 .. l - taken1 : front'.fifo[k] = kept[k]
       /\ \A k \in 1 .. a : front'.fifo[l - taken1 + k] = accepted[k]
       /\ front'.fifo = <<>> <=> Len(front'.fifo) = 0
  <2>1. /\ kept \o accepted \in Seq(EventRecords) /\ Len(kept \o accepted) = Len(kept) + Len(accepted)
        /\ \A k \in 1 .. Len(kept) : (kept \o accepted)[k] = kept[k]
        /\ \A k \in 1 .. Len(accepted) : (kept \o accepted)[Len(kept) + k] = accepted[k]
        /\ kept \o accepted = <<>> <=> Len(kept \o accepted) = 0
    BY <1>9, <1>10, ConcatAt
  <2> QED BY ONLY <1>7, <1>9, <1>10, <2>1
<1>13. /\ InWork' = InWork + taken1 /\ InWork \in Nat /\ front.offered \in Int
       /\ front.offered <= Len(Events)
  <2>1. InWork' = front'.offered - Len(front'.fifo)
    BY DEF InWork
  <2>2. front'.offered = front.offered + a /\ Len(front'.fifo) = l - taken1 + a
    BY <1>7, <1>8, <1>12
  <2>3. front.offered \in Int /\ front.offered <= Len(Events)
    BY <1>4, <1>5
  <2>4. InWork = front.offered - l /\ l <= front.offered
    BY <1>4
  <2> QED BY ONLY <1>6, <1>11, <2>1, <2>2, <2>3, <2>4
<1>14. ASSUME NEW k \in 1 .. Len(front'.fifo)
       PROVE  front'.fifo[k] = Events[InWork' + k]
  <2>1. CASE k \in 1 .. l - taken1
    <3>1. taken1 + k \in 1 .. l
      BY <1>6, <1>11, <2>1
    <3>2. front'.fifo[k] = front.fifo[taken1 + k]
      BY <1>10, <1>12, <2>1
    <3>3. front.fifo[taken1 + k] = Events[InWork + (taken1 + k)]
      BY <1>4, <3>1
    <3>4. InWork + (taken1 + k) = InWork' + k
      BY <1>11, <1>13
    <3> QED BY <3>2, <3>3, <3>4
  <2>2. CASE k \notin 1 .. l - taken1
    <3>1. a = 1 /\ k = l - taken1 + 1
      BY <1>6, <1>11, <1>12, <2>2
    <3>2. front'.fifo[k] = Events[offered]
      BY <1>9, <1>12, <3>1
    <3>3. InWork' + k = offered
      <4>1. InWork = front.offered - l /\ offered = front.offered + a
            /\ InWork' = InWork + taken1 /\ a = 1 /\ k = l - taken1 + 1
        BY <1>4, <1>8, <1>13, <3>1
      <4>2. l \in Int /\ taken1 \in Int /\ front.offered \in Int
        BY <1>6, <1>11, <1>13
      <4> HIDE DEF InWork
      <4> QED BY ONLY <4>1, <4>2
    <3> QED BY <3>2, <3>3
  <2> QED BY <2>1, <2>2
<1>15. Done = {x \in Contributed : x[1] <= InWork}
  BY <1>1 DEF Done, Rest
<1>16. CASE front.fifo # <<>>
  <2>1. taken1 = 1 /\ state' = "AXON_WAIT" /\ 1 \in 1 .. l /\ InWork' = InWork + 1
    BY <1>1, <1>6, <1>11, <1>13, <1>16
  <2>2. /\ InWork' \in 1 .. Len(Events) /\ front.fifo[1] = Events[InWork']
        /\ front'.axon = Events[InWork'].axon /\ front'.payload = Events[InWork'].payload
        /\ front'.next = 1
    <3>1. InWork = front.offered - l
      BY <1>4
    <3>2. InWork' \in 1 .. Len(Events)
      BY ONLY <1>5, <1>6, <1>13, <2>1, <3>1
    <3>3. front.fifo[1] = Events[InWork']
      BY <1>4, <2>1
    <3> QED BY <1>7, <1>16, <3>2, <3>3
  <2>3. Fanout' = fixture.fanout[Events[InWork'].axon]
    BY <1>3, <2>2 DEF Fanout
  <2>4. Len(Fanout') \in Nat /\ DOMAIN Fanout' = 1 .. Len(Fanout')
    BY <1>5, <2>2, <2>3
  <2>5. ASSUME NEW x
        PROVE  x \in Rest' <=> x \in Contributed /\ x[1] = InWork'
    <3>1. x \in Rest' <=> \E b \in DOMAIN Fanout' :
                 (b >= front'.next \/ \E lane \in front'.lanes : lane.address = b)
                 /\ x = <<InWork', b>>
      BY <2>1, RestIs
    <3>2. x \in Rest' <=> \E b \in DOMAIN Fanout' : x = <<InWork', b>>
      BY <2>2, <2>4, <3>1
    <3>3. \A i \in 1 .. Len(Events) : x \in Contributed /\ x[1] = i <=>
               \E b \in DOMAIN fixture.fanout[Events[i].axon] : x = <<i, b>>
      BY <1>2, ContributionsOf
    <3> QED BY <2>2, <2>3, <3>2, <3>3
  <2>6. Done' = Done
    <3>1. \A x \in Contributed : x[1] \in Int
      BY <1>2, <1>5, ContributionsAre
    <3>2. \A x : x \in Done' <=> x \in Contributed /\ x[1] <= InWork' /\ x \notin Rest'
      BY <1>3 DEF Done
    <3>3. \A x : x \in Done' <=> x \in Done
      BY <1>13, <1>15, <2>1, <2>5, <3>1, <3>2
    <3> QED BY <3>3 DEF Done
  <2>7. FrontInv'
    <3>1. touched' = {Goes(x)' : x \in Done'}
      BY <1>1, <1>3, <1>4, <2>6
    <3>2. \A n \in Neurons' : bank'[n] = Sum(Done, n)'
      BY <1>1, <1>3, <1>4, <2>6
    <3>3. front'.offered \in 0 .. Len(Events') /\ (front'.complete => front'.offered = Len(Events'))
          /\ front'.fifo \in Seq(EventRecords') /\ Len(front'.fifo) <= front'.offered
      BY <1>3, <1>4, <1>6, <1>7, <1>8, <1>11, <1>12
    <3>4. front'.next \in 1 .. Len(Fanout') + 1
      BY <2>2, <2>4
    <3> HIDE DEF IInv
    <3> QED BY <1>3, <1>7, <1>14, <2>1, <2>2, <3>1, <3>2, <3>3, <3>4 DEF FrontInv
  <2>8. state' \in FrontStates /\ state' # "SCAN_START"
    BY <2>1 DEF FrontStates
  <2>9. front'.complete \in BOOLEAN
    BY <1>2, <1>7, <1>8
  <2> QED BY <1>1, <1>2, <1>7, <2>7, <2>8, <2>9, FrontKeeps
<1>17. CASE front.fifo = <<>>
  <2>1. taken1 = 0 /\ InWork' = InWork /\ l = 0
    BY <1>6, <1>11, <1>13, <1>17
  <2>2. state' \in {"INGRESS", "SCAN_START"}
    BY <1>1, <1>17
  <2>3. state' = "INGRESS" => FrontInv'
    <3> SUFFICES ASSUME state' = "INGRESS" PROVE FrontInv'
      OBVIOUS
    <3>1. Done' = Done
      <4>1. Rest' = {}
        BY DEF Rest
      <4> QED BY <1>3, <1>15, <2>1, <4>1 DEF Done
    <3>2. touched' = {Goes(x)' : x \in Done'}
      BY <1>1, <1>3, <1>4, <3>1
    <3>3. \A n \in Neurons' : bank'[n] = Sum(Done, n)'
      BY <1>1, <1>3, <1>4, <3>1
    <3>4. front'.offered \in 0 .. Len(Events') /\ (front'.complete => front'.offered = Len(Events'))
          /\ front'.fifo \in Seq(EventRecords') /\ Len(front'.fifo) <= front'.offered
      BY <1>3, <1>4, <1>6, <1>7, <1>8, <1>11, <1>12
    <3> HIDE DEF IInv
    <3> QED BY <1>3, <1>7, <1>14, <3>2, <3>3, <3>4 DEF FrontInv
  <2>4. state' = "SCAN_START" => /\ front'.fifo = <<>>
                                 /\ \A n \in touched' : bank'[n] = Sum(Contributed, n)
    <3> SUFFICES ASSUME state' = "SCAN_START"
                 PROVE  /\ front'.fifo = <<>>
                        /\ \A n \in touched' : bank'[n] = Sum(Contributed, n)
      OBVIOUS
    <3>1. (front.complete \/ done) /\ ~accept
      BY <1>1, <1>17
    <3>2. a = 0 /\ offered = Len(Events) /\ InWork = Len(Events)
      BY <1>4, <1>5, <1>8, <1>11, <2>1, <3>1
    <3>3. front'.fifo = <<>>
      BY <1>12, <2>1, <3>2
    <3>4. Done = Contributed
      <4>1. \A x \in Contributed : x[1] <= Len(Events)
        BY <1>2, ContributionsAre
      <4> QED BY <1>15, <3>2, <4>1
    <3> QED BY <1>1, <1>2, <1>4, <3>3, <3>4
  <2>5. FrontInv'
    <3>1. state' = "SCAN_START" => FrontInv'
      BY DEF FrontInv, FrontStates
    <3> QED BY <2>2, <2>3, <3>1
  <2>6. state' \in FrontStates \cup {"SCAN_START"}
    BY <2>2 DEF FrontStates
  <2>7. front'.complete \in BOOLEAN
    BY <1>2, <1>7, <1>8
  <2> QED BY <1>1, <1>2, <1>7, <2>4, <2>5, <2>6, <2>7, FrontKeeps
<1> QED BY <1>16, <1>17

\* One contribution of the event in work is added to the sum of its target.
LEMMA AccumulateKeeps ==
    ASSUME IInv, Accumulate
    PROVE  IInv'
<1> USE DEF IInv
<1>1. PICK lane \in front.lanes :
          /\ state = "ACCUMULATE"
          /\ bank' = [bank EXCEPT ![lane.target] = @ + lane.value]
          /\ touched' = touched \cup {lane.target}
          /\ front' = [front EXCEPT !.lanes = @ \ {lane}]
          /\ state' = CASE front'.lanes # {} -> "ACCUMULATE"
                        [] front'.lanes = {} /\ front.next <= Len(Fanout) -> "SYNAPSE_REQUEST"
                        [] OTHER -> "INGRESS"
          /\ SpikeFifo(<<>>) /\ NeuronIdle /\ UNCHANGED <<setting, begun>>
  BY DEF Accumulate
<1>2. /\ begun >= 1 /\ state \in FrontStates /\ TypeInv
      /\ touched \subseteq Neurons /\ bank \in [Neurons -> Int]
      /\ \A n \in Neurons \ touched : bank[n] = 0
      /\ front = [offered |-> front.offered, complete |-> front.complete, fifo |-> front.fifo,
                  axon |-> front.axon, next |-> front.next, payload |-> front.payload,
                  lanes |-> front.lanes]
      /\ front.complete \in BOOLEAN
  BY <1>1 DEF TypeInv, FrontStates, QuietInv, Initialised
<1>3. /\ fixture' = fixture /\ Neurons' = Neurons /\ Contributed' = Contributed
      /\ Events' = Events /\ EventRecords' = EventRecords
      /\ \A X, n : Sum(X, n)' = Sum(X, n)
      /\ \A x : Goes(x)' = Goes(x)
  BY <1>1, SameTick
<1>4. /\ front.offered \in 0 .. Len(Events)
      /\ front.complete => front.offered = Len(Events)
      /\ front.fifo \in Seq(EventRecords) /\ Len(front.fifo) <= front.offered
      /\ \A k \in 1 .. Len(front.fifo) : front.fifo[k] = Events[InWork + k]
      /\ touched = {Goes(x) : x \in Done}
      /\ \A n \in Neurons : bank[n] = Sum(Done, n)
      /\ InWork >= 1
      /\ front.axon = Events[InWork].axon /\ front.payload = Events[InWork].payload
      /\ front.next \in 1 .. Len(Fanout) + 1
      /\ \A e \in front.lanes :
            /\ e.address \in 1 .. front.next - 1
            /\ e = [target |-> Fanout[e.address].target, address |-> e.address,
                    value |-> Fanout[e.address].weight * front.payload]
  BY <1>1, <1>2 DEF FrontInv
<1>5. InWork \in 1 .. Len(Events) /\ Fanout = fixture.fanout[Events[InWork].axon]
      /\ Fanout \in Seq([target : Neurons, weight : Int])
  <2>1. InWork \in 1 .. Len(Events)
    BY <1>2, <1>4, TickFacts DEF InWork
  <2> QED BY <1>2, <1>4, <2>1, TickFacts DEF Fanout
<1>6. Len(Fanout) \in Nat /\ DOMAIN Fanout = 1 .. Len(Fanout)
  BY <1>5
<1>7. /\ front'.offered = front.offered /\ front'.complete = front.complete
      /\ front'.fifo = front.fifo /\ front'.axon = front.axon /\ front'.payload = front.payload
      /\ front'.next = front.next /\ front'.lanes = front.lanes \ {lane}
      /\ InWork' = InWork /\ Fanout' = Fanout
      /\ front' = [offered |-> front'.offered, complete |-> front'.complete,
                   fifo |-> front'.fifo, axon |-> front'.axon, next |-> front'.next,
                   payload |-> front'.payload, lanes |-> front'.lanes]
  <2>1. /\ front'.offered = front.offered /\ front'.complete = front.complete
        /\ front'.fifo = front.fifo /\ front'.axon = front.axon /\ front'.payload = front.payload
        /\ front'.next = front.next /\ front'.lanes = front.lanes \ {lane}
        /\ front' = [offered |-> front'.offered, complete |-> front'.complete,
                     fifo |-> front'.fifo, axon |-> front'.axon, next |-> front'.next,
                     payload |-> front'.payload, lanes |-> front'.lanes]
    BY <1>1, <1>2
  <2> QED BY <1>3, <2>1 DEF InWork, Fanout
<1> DEFINE b == lane.address
           x == <<InWork, b>>
<1>8. b \in DOMAIN Fanout /\ b < front.next
  BY <1>4, <1>6
<1>9. x \in Contributed /\ x[1] = InWork
  <2>1. \E a \in DOMAIN fixture.fanout[Events[InWork].axon] : x = <<InWork, a>>
    BY <1>5, <1>8
  <2> QED BY <1>2, <1>5, <2>1, ContributionsOf
<1>10. Goes(x) = lane.target /\ Values[x] = lane.value /\ lane.target \in Neurons
  <2>1. lane.target = Fanout[b].target /\ lane.value = Fanout[b].weight * front.payload
    BY <1>4
  <2>2. Goes(x) = Fanout[b].target
    BY <1>5 DEF Goes, Abstract!Target
  <2>3. Values[x] = Fanout[b].weight * Events[InWork].payload
    BY <1>5, <1>9 DEF Values, Abstract!Value
  <2>4. Goes(x) \in Neurons
    BY <1>2, <1>9, ContributionsAre
  <2> QED BY <1>4, <2>1, <2>2, <2>3, <2>4
<1>11. x \in Rest
  BY <1>1, <1>8, RestIs
<1>12. ASSUME NEW y
       PROVE  y \in Rest' <=> y \in Rest /\ y # x
  <2>1. ASSUME NEW c \in DOMAIN Fanout
        PROVE  (\E e \in front'.lanes : e.address = c)
                   <=> (\E e \in front.lanes : e.address = c) /\ c # b
    <3>1. ASSUME NEW e \in front.lanes, e.address = b
          PROVE  e = lane
      BY <1>4, <3>1
    <3> QED BY <1>7, <3>1
  <2>2. y \in Rest <=> \E c \in DOMAIN Fanout :
               (c >= front.next \/ \E e \in front.lanes : e.address = c) /\ y = <<InWork, c>>
    BY <1>1, RestIs
  <2>3. \A c \in DOMAIN Fanout : c >= front.next => c # b
    BY <1>4, <1>6, <1>8
  <2>4. CASE state' # "INGRESS"
    <3>1. y \in Rest' <=> \E c \in DOMAIN Fanout :
               (c >= front.next \/ \E e \in front'.lanes : e.address = c) /\ y = <<InWork, c>>
      BY <1>7, <2>4, RestIs
    <3> HIDE DEF b
    <3>2. \A c : <<InWork, c>> = x <=> c = b
      OBVIOUS
    <3> HIDE DEF x
    <3> QED BY <2>1, <2>2, <2>3, <3>1, <3>2
  <2>5. CASE state' = "INGRESS"
    <3>1. front'.lanes = {} /\ ~(front.next <= Len(Fanout))
      BY <1>1, <2>5
    <3>2. \A c \in DOMAIN Fanout : ~(c >= front.next)
      BY <1>4, <1>6, <3>1
    <3>3. \A c \in DOMAIN Fanout : (\E e \in front.lanes : e.address = c) => c = b
      BY <2>1, <3>1
    <3>4. y \notin Rest'
      BY <2>5, RestIs
    <3> HIDE DEF b
    <3> QED BY <2>2, <3>2, <3>3, <3>4
  <2> QED BY <2>4, <2>5
<1> HIDE DEF x
<1>13. Done' = Done \cup {x} /\ x \notin Done /\ Done \subseteq Contributed
  <2>1. x[1] <= InWork
    BY <1>5, <1>9
  <2>2. \A y : y \in Done' <=> y \in Contributed /\ y[1] <= InWork /\ y \notin Rest'
    BY <1>3, <1>7 DEF Done
  <2>3. \A y : y \in Done <=> y \in Contributed /\ y[1] <= InWork /\ y \notin Rest
    BY DEF Done
  <2>4. \A y : y \in Done' <=> y \in Done \cup {x}
    BY <1>9, <1>12, <2>1, <2>2, <2>3
  <2>5. x \notin Done /\ Done \subseteq Contributed
    BY <1>11, <2>3
  <2> QED BY <2>4, <2>5
<1>14. ASSUME NEW n \in Neurons
       PROVE  bank'[n] = Sum(Done', n)
  <2>1. bank'[n] = bank[n] + IF n = lane.target THEN lane.value ELSE 0
    <3>1. bank[n] \in Int
      BY <1>2
    <3>2. CASE n = lane.target
      BY <1>1, <1>2, <3>2
    <3>3. CASE n # lane.target
      BY <1>1, <1>2, <3>1, <3>3
    <3> QED BY <3>2, <3>3
  <2>2. Sum(Done \cup {x}, n) = Sum(Done, n) + (IF Goes(x) = n THEN Values[x] ELSE 0)
    <3>1. x \in Contributed \ Done
      BY <1>9, <1>13
    <3>2. TypeInv /\ begun >= 1 /\ Done \subseteq Contributed
      BY <1>2, <1>13
    <3> QED BY ONLY <3>1, <3>2, SumGrows
  <2> QED BY <1>4, <1>10, <1>13, <2>1, <2>2
<1>15. bank' \in [Neurons -> Int] /\ touched' \subseteq Neurons
  <2>1. lane.value \in Int
    BY <1>2, <1>9, <1>10, ContributionsAre
  <2> QED BY <1>1, <1>2, <1>10, <2>1
<1>16. \A n \in Neurons \ touched' : bank'[n] = 0
  BY <1>1, <1>2, <1>10
<1>17. touched' = {Goes(y) : y \in Done'}
  BY <1>1, <1>4, <1>10, <1>13
<1>18. state' \in {"ACCUMULATE", "SYNAPSE_REQUEST", "INGRESS"}
       /\ (state' # "ACCUMULATE" => front'.lanes = {})
       /\ (state' = "SYNAPSE_REQUEST" => front.next <= Len(Fanout))
  BY <1>1
<1>19. FrontInv'
  <2>1. touched' = {Goes(y)' : y \in Done'}
    BY <1>3, <1>17
  <2>2. \A n \in Neurons' : bank'[n] = Sum(Done, n)'
    BY <1>3, <1>14
  <2>3. \A e \in front'.lanes :
            /\ e.address \in 1 .. front'.next - 1
            /\ e = [target |-> Fanout'[e.address].target, address |-> e.address,
                    value |-> Fanout'[e.address].weight * front'.payload]
    BY <1>4, <1>7
  <2>4. state' \notin {"AXON_WAIT", "SYNAPSE_RESPONSE"}
    BY <1>18
  <2> HIDE DEF IInv
  <2> QED BY <1>3, <1>4, <1>7, <1>18, <2>1, <2>2, <2>3, <2>4 DEF FrontInv
<1>20. state' \in FrontStates /\ state' # "SCAN_START"
  BY <1>18 DEF FrontStates
<1> QED BY <1>1, <1>2, <1>7, <1>15, <1>16, <1>18, <1>19, <1>20, FrontKeeps

\* Reset.
LEMMA InitHolds ==
    ASSUME Init
    PROVE  IInv
<1> USE DEF Init
<1>1. TypeInv
  <2>1. state \notin FrontStates /\ ~Scanning
    BY DEF FrontStates, Scanning
  <2>2. bank \in [Neurons -> Int] /\ ram \in [Neurons -> [voltage : Int, last_update : Int]]
        /\ touched \subseteq Neurons
    OBVIOUS
  <2>3. fifo \in Seq(Spikes) /\ taken \in Seq(Spikes)
    OBVIOUS
  <2>4. begun \in 0 .. Len(fixture.ticks)
    <3>1. IsFixture(fixture)
      BY SettingsAssumption DEF fixture
    <3>2. Len(fixture.ticks) \in Nat
      BY <3>1 DEF IsFixture
    <3> QED BY <3>2
  <2>5. front = [offered |-> front.offered, complete |-> front.complete, fifo |-> front.fifo,
                axon |-> front.axon, next |-> front.next, payload |-> front.payload,
                lanes |-> front.lanes] /\ front.complete \in BOOLEAN
    BY DEF EmptyFront
  <2> QED BY <2>1, <2>2, <2>3, <2>4, <2>5 DEF TypeInv
<1>2. 1 \in Neurons
  BY <1>1, FixtureFacts
<1>3. InitialiseInv
  BY <1>2 DEF InitialiseInv
<1>4. IsEmpty(pipe) /\ front.fifo = <<>> /\ front.lanes = {}
  BY DEF IsEmpty, EmptyPipeline, EmptyFront
<1>5. QuietInv
  BY <1>4 DEF QuietInv, Initialised
<1>6. FrontInv /\ SumsInv /\ MempipeInv
  BY DEF FrontInv, FrontStates, SumsInv, Scanning, MempipeInv
<1>7. PipelineInv
  <2>1. CutWell(pipe, Cut)
    <3>1. pipe.cut = <<>> /\ pipe.cut_ready = TRUE
      BY DEF EmptyPipeline
    <3>2. pipe.cut \in Seq(Candidates) /\ Len(pipe.cut) = 0
      BY <3>1
    <3>3. Len(pipe.cut) <= 2 /\ Len(pipe.cut) < 2
      BY <3>2
    <3>4. pipe.cut_ready = (Len(pipe.cut) < 2)
      BY <3>1, <3>3
    <3> HIDE DEF Init
    <3> QED BY <3>1, <3>2, <3>3, <3>4 DEF CutWell
  <2>2. \A k \in Places : Place(pipe, k) = None
    BY <1>4, <2>1, EmptyPlaces
  <2>3. pipe.stage[0] = None
    BY DEF EmptyPipeline, Stages
  <2> QED BY <2>1, <2>2, <2>3 DEF PipelineInv
<1> QED BY <1>1, <1>3, <1>5, <1>6, <1>7 DEF IInv

\* A step that changes nothing.
LEMMA StutterKeeps ==
    ASSUME IInv, UNCHANGED vars
    PROVE  IInv'
<1>1. UNCHANGED <<setting, begun>> /\ UNCHANGED <<state, index, front, bank, touched, cursor,
                                                  result, pipe, memory, ram, fifo, taken>>
  BY DEF vars
<1>2. /\ fixture' = fixture /\ Neurons' = Neurons /\ Contributed' = Contributed /\ Cut' = Cut
      /\ Events' = Events /\ EventRecords' = EventRecords /\ current_tick' = current_tick
      /\ \A X, n : Sum(X, n)' = Sum(X, n)
      /\ \A x : Goes(x)' = Goes(x)
  BY <1>1, SameTick
<1>3. (Scanning' <=> Scanning) /\ (Initialised' <=> Initialised)
  BY <1>1 DEF Scanning, Initialised
<1>4. TypeInv' /\ InitialiseInv' /\ QuietInv'
  BY <1>1, <1>2, <1>3 DEF IInv, TypeInv, InitialiseInv, QuietInv, IsEmpty
<1>5. SumsInv'
  BY <1>1, <1>2, <1>3 DEF IInv, SumsInv
<1>6. \A n : Issued(n)' = Issued(n)
  BY <1>1, <1>2 DEF Issued
<1>7. MempipeInv'
  BY <1>1, <1>2, <1>6 DEF IInv, MempipeInv
<1>8. InWork' = InWork /\ Fanout' = Fanout
  BY <1>1, <1>2 DEF InWork, Fanout
<1>9. Done' = Done
  BY <1>1, <1>2, <1>8 DEF Done, Rest
<1>10. FrontInv'
  <2>1. {Goes(x) : x \in Done}' = {Goes(x) : x \in Done}
    BY <1>2, <1>9
  <2>2. \A n \in Neurons : Sum(Done, n)' = Sum(Done, n)
    BY <1>2, <1>9
  <2> QED BY <1>1, <1>2, <1>8, <2>1, <2>2 DEF IInv, FrontInv
<1>11. PipelineInv'
  <2>1. \A n : InFlight(n)' <=> InFlight(n)
    BY <1>1 DEF InFlight
  <2> QED BY <1>1, <1>2, <1>6, <2>1 DEF IInv, PipelineInv, CutWell
<1> QED BY <1>4, <1>5, <1>7, <1>10, <1>11 DEF IInv

\* A neuron is initialised, whatever junk its memories held.
LEMMA InitialiseKeeps ==
    ASSUME IInv, Initialise
    PROVE  IInv'
<1> USE DEF IInv
<1>1. /\ state \in {"INIT_REQUEST", "INIT_WRITE"}
      /\ \/ /\ state = "INIT_REQUEST" /\ state' = "INIT_WRITE"
            /\ UNCHANGED <<index, bank, touched, ram>>
         \/ /\ state = "INIT_WRITE" /\ bank' = [bank EXCEPT ![index] = 0]
            /\ touched' = touched \ {index}
            /\ ram' = [ram EXCEPT ![index] = [voltage |-> fixture.voltage[index], last_update |-> 0]]
            /\ index' = index + 1
            /\ state' = IF index = Len(fixture.params) THEN "IDLE" ELSE "INIT_REQUEST"
      /\ UNCHANGED <<setting, begun, front, cursor, result, pipe, memory, fifo, taken>>
  BY DEF Initialise
<1>2. /\ index \in Neurons /\ fifo = <<>>
      /\ \A m \in 1 .. index - 1 :
            /\ ram[m] = [voltage |-> fixture.voltage[m], last_update |-> 0]
            /\ bank[m] = 0 /\ m \notin touched
  BY <1>1 DEF InitialiseInv
<1>3. /\ Neurons = 1 .. Len(fixture.params) /\ Len(fixture.params) \in Nat
      /\ fixture.voltage \in [Neurons -> Int]
      /\ bank \in [Neurons -> Int] /\ ram \in [Neurons -> [voltage : Int, last_update : Int]]
      /\ touched \subseteq Neurons
  BY FixtureFacts DEF TypeInv
<1>4. fixture' = fixture /\ Neurons' = Neurons
  BY <1>1, SameTick
<1>5. /\ front.fifo = <<>> /\ front.lanes = {} /\ result = None /\ IsEmpty(pipe)
  BY <1>1 DEF QuietInv, FrontStates, PipelineStates
<1>6. state' \in {"INIT_REQUEST", "INIT_WRITE", "IDLE"}
  BY <1>1
<1>7. bank' \in [Neurons -> Int] /\ touched' \subseteq Neurons
      /\ ram' \in [Neurons -> [voltage : Int, last_update : Int]]
  <2>1. [voltage |-> fixture.voltage[index], last_update |-> 0] \in [voltage : Int, last_update : Int]
    BY <1>2, <1>3
  <2> HIDE DEF IInv
  <2>2. CASE UNCHANGED <<bank, touched, ram>>
    BY <1>3, <2>2
  <2>3. CASE /\ bank' = [bank EXCEPT ![index] = 0] /\ touched' = touched \ {index}
             /\ ram' = [ram EXCEPT ![index] = [voltage |-> fixture.voltage[index],
                                               last_update |-> 0]]
    BY <1>3, <2>1, <2>3
  <2> QED BY <1>1, <2>2, <2>3
<1>8. PipelineInv' /\ IsEmpty(pipe)'
  <2>1. touched' \subseteq Nat \ {0}
    BY <1>3, <1>7
  <2> QED BY <1>1, <1>5, <1>6, <2>1, PipelineRests
<1>9. TypeInv'
  <2>1. state' \notin FrontStates /\ ~Scanning'
    BY <1>6 DEF FrontStates, Scanning
  <2> QED BY <1>1, <1>4, <1>7, <2>1 DEF TypeInv
<1>10. FrontInv' /\ SumsInv' /\ MempipeInv'
  BY <1>6 DEF FrontInv, FrontStates, SumsInv, Scanning, MempipeInv
<1>11. CASE state = "INIT_REQUEST"
  <2>1. state' = "INIT_WRITE" /\ UNCHANGED <<index, bank, touched, ram>>
    BY <1>1, <1>11
  <2>2. InitialiseInv'
    BY <1>1, <1>2, <1>4, <2>1 DEF InitialiseInv
  <2>3. QuietInv'
    BY <1>1, <1>5, <1>8, <2>1 DEF QuietInv, Initialised
  <2> QED BY <1>8, <1>9, <1>10, <2>2, <2>3
<1>12. CASE state = "INIT_WRITE"
  <2>1. /\ bank' = [bank EXCEPT ![index] = 0] /\ touched' = touched \ {index}
        /\ ram' = [ram EXCEPT ![index] = [voltage |-> fixture.voltage[index], last_update |-> 0]]
        /\ index' = index + 1
        /\ state' = IF index = Len(fixture.params) THEN "IDLE" ELSE "INIT_REQUEST"
    BY <1>1, <1>12
  <2>2. ASSUME NEW m \in 1 .. index
        PROVE  /\ ram'[m] = [voltage |-> fixture.voltage[m], last_update |-> 0]
               /\ bank'[m] = 0 /\ m \notin touched'
    <3>1. m \in Neurons
      BY <1>2, <1>3
    <3>2. CASE m = index
      BY <1>3, <2>1, <3>1, <3>2
    <3>3. CASE m # index
      <4>1. m \in 1 .. index - 1
        BY <1>2, <1>3, <3>3
      <4> QED BY <1>2, <1>3, <2>1, <3>1, <3>3, <4>1
    <3> QED BY <3>2, <3>3
  <2>3. InitialiseInv'
    <3>1. index' - 1 = index
      BY <1>2, <1>3, <2>1
    <3>2. index # Len(fixture.params) => index' \in Neurons
      BY <1>2, <1>3, <2>1
    <3> QED BY <1>1, <1>2, <1>4, <2>1, <2>2, <3>1, <3>2 DEF InitialiseInv
  <2>4. QuietInv'
    <3>1. state' = "IDLE" => touched' = {} /\ \A n \in Neurons : bank'[n] = 0
      BY <1>3, <1>7, <2>1, <2>2
    <3> QED BY <1>1, <1>2, <1>4, <1>5, <1>8, <2>1, <3>1 DEF QuietInv, Initialised
  <2> QED BY <1>8, <1>9, <1>10, <2>3, <2>4
<1> QED BY <1>1, <1>11, <1>12

\* A tick begins with clear sums.
LEMMA TickStartKeeps ==
    ASSUME IInv, TickStart
    PROVE  IInv'
<1> USE DEF IInv
<1>1. /\ state = "IDLE" /\ begun < Len(fixture.ticks) /\ begun' = begun + 1 /\ state' = "INGRESS"
      /\ front' = [front EXCEPT !.offered = 0, !.complete = FALSE] /\ SpikeFifo(<<>>)
      /\ UNCHANGED <<setting, index, bank, touched, cursor, result, pipe, memory, ram>>
  BY DEF TickStart
<1>2. /\ front.fifo = <<>> /\ front.lanes = {} /\ result = None /\ IsEmpty(pipe) /\ touched = {}
      /\ \A n \in Neurons : bank[n] = 0
  BY <1>1 DEF QuietInv, FrontStates, PipelineStates, Initialised
<1>3. fixture' = fixture /\ Neurons' = Neurons /\ EventRecords' = EventRecords
  BY <1>1 DEF fixture, Neurons, EventRecords
<1>4. /\ front'.offered = 0 /\ front'.complete = FALSE /\ front'.fifo = <<>> /\ front'.lanes = {}
      /\ front' = [offered |-> front'.offered, complete |-> front'.complete,
                   fifo |-> front'.fifo, axon |-> front'.axon, next |-> front'.next,
                   payload |-> front'.payload, lanes |-> front'.lanes]
  BY <1>1, <1>2 DEF TypeInv
<1>5. begun' \in 1 .. Len(fixture.ticks)
  BY <1>1, FixtureFacts DEF TypeInv
<1>6. Events' \in Seq(EventRecords) /\ Len(Events') \in Nat /\ DOMAIN Events' = 1 .. Len(Events')
  <2>1. fixture.ticks[begun'] \in [id : Int, events : Seq(EventRecords)]
    BY <1>5, FixtureFacts, MemberOf
  <2>2. Events' = fixture.ticks[begun'].events
    BY <1>3 DEF Events
  <2> QED BY <2>1, <2>2
<1>7. fifo' \in Seq(Spikes) /\ taken' \in Seq(Spikes)
  <2>1. <<>> \in Seq(Spikes)
    OBVIOUS
  <2> QED BY <1>1, <2>1, SpikeFlow
<1>8. PipelineInv' /\ IsEmpty(pipe)'
  BY <1>1, <1>2, PipelineRests
<1>9. TypeInv'
  BY <1>1, <1>3, <1>4, <1>5, <1>7 DEF TypeInv
<1>10. InitialiseInv' /\ SumsInv' /\ MempipeInv'
  BY <1>1 DEF InitialiseInv, SumsInv, Scanning, MempipeInv
<1>11. QuietInv'
  BY <1>1, <1>2, <1>3, <1>4, <1>8 DEF QuietInv, FrontStates
<1>12. InWork' = 0
  <2>1. Len(front'.fifo) = 0
    BY <1>4
  <2>2. front'.offered = 0 /\ InWork' = front'.offered - Len(front'.fifo)
    BY <1>4 DEF InWork
  <2> QED BY ONLY <2>1, <2>2
<1>13. Done' = {}
  <2>1. ASSUME NEW x \in Contributed'
        PROVE  ~(x[1] <= InWork')
    <3>1. Contributed' = UNION {{<<i, a>> : a \in DOMAIN fixture'.fanout[Events'[i].axon]} :
                                   i \in DOMAIN Events'}
      BY DEF Contributed, Abstract!Contributions
    <3>2. PICK i \in DOMAIN Events' : x \in {<<i, a>> : a \in DOMAIN fixture'.fanout[Events'[i].axon]}
      BY <3>1
    <3>3. x[1] = i
      BY <3>2
    <3> QED BY <1>6, <1>12, <3>3
  <2> QED BY <2>1 DEF Done
<1>14. ASSUME NEW n
       PROVE  Sum({}, n)' = 0
  <2>1. Sum({}, n)' = SumOf(Values', {})
    <3>1. {x \in {} : Goes(x)' = n} = {}
      OBVIOUS
    <3> QED BY <3>1 DEF Sum
  <2>2. SumOf(Values', {}) = 0
    BY FS_EmptySet, SumStep
  <2> QED BY <2>1, <2>2
<1>15. FrontInv'
  <2>1. touched' = {Goes(x)' : x \in Done'}
    BY <1>1, <1>2, <1>13
  <2>2. ASSUME NEW n \in Neurons'
        PROVE  bank'[n] = Sum(Done, n)'
    <3>1. Sum(Done, n)' = Sum({}, n)'
      BY <1>13 DEF Sum
    <3> QED BY <1>1, <1>2, <1>3, <1>14, <3>1
  <2>3. front'.fifo \in Seq(EventRecords') /\ Len(front'.fifo) = 0
    BY <1>4
  <2> HIDE DEF IInv
  <2> QED BY <1>1, <1>4, <1>6, <2>1, <2>2, <2>3 DEF FrontInv
<1> QED BY <1>8, <1>9, <1>10, <1>11, <1>15

-----------------------------------------------------------------------------
(* The theorems. *)

\* The invariant holds in every state.
LEMMA NextKeeps ==
    ASSUME IInv, [Next]_vars
    PROVE  IInv'
<1>1. CASE Idle
  BY <1>1, StutterKeeps DEF Idle
<1>2. CASE UNCHANGED vars
  BY <1>2, StutterKeeps
<1> QED BY <1>1, <1>2, InitialiseKeeps, TickStartKeeps, IngressKeeps, FetchKeeps, AccumulateKeeps,
           ScanStartKeeps, ScanStepKeeps, NeuronWaitKeeps, NeuronCommitKeeps, RunPipelineKeeps,
           SpikeDrainKeeps, TickDoneKeeps DEF Next

\* The invariant holds in every state.
THEOREM Invariant == Spec => []IInv
<1>1. Init => IInv
  BY InitHolds
<1>2. IInv /\ [Next]_vars => IInv'
  BY NextKeeps
<1> QED BY <1>1, <1>2, PTL DEF Spec

\* In every profile, whatever the program, the depths and the consumer of the spikes: when a
\* tick is done the queues, the pipeline and the cut are empty and every bank word and touched
\* bit is clear.
THEOREM TicksLeaveClean == Spec => []TickDoneIsClean
<1>1. IInv => TickDoneIsClean
  <2> SUFFICES ASSUME IInv, state \in {"TICK_DONE", "IDLE"}
               PROVE  /\ fifo = <<>> /\ front.fifo = <<>> /\ front.lanes = {}
                      /\ IsEmpty(pipe) /\ result = None
                      /\ touched = {} /\ \A n \in Neurons : bank[n] = 0
    BY DEF TickDoneIsClean
  <2> QED BY DEF IInv, QuietInv, FrontStates, PipelineStates, Initialised
<1> QED BY <1>1, Invariant, PTL

-----------------------------------------------------------------------------
(* The refinement. *)

\* The core as the abstract scan sees it.
Completed == IF state \in {"INIT_REQUEST", "INIT_WRITE", "IDLE", "TICK_DONE"} THEN begun
             ELSE begun - 1
Pending == IF Scanning THEN touched ELSE {}
States == [n \in Neurons |->
    [membrane |-> IF Initialised THEN ram[n].voltage ELSE fixture.voltage[n],
     adaptation |-> 0,
     last_update_tick |-> IF Initialised THEN ram[n].last_update ELSE 0]]

\* A step the abstract scan does not see.
LEMMA Stutters ==
    ASSUME setting' = setting, Completed' = Completed, Scanning' <=> Scanning, Pending' = Pending,
           States' = States, taken' \o fifo' = taken \o fifo
    PROVE  UNCHANGED Abstract!scan
<1>1. fixture' = fixture
  BY DEF fixture
<1>2. Scanning' = Scanning
  BY DEF Scanning
<1>3. Abstract!scan = <<fixture, Completed, Scanning, Pending, States, taken \o fifo>>
  BY DEF Abstract!scan, Completed, Pending, States
<1>4. Abstract!scan' = <<fixture', Completed', Scanning', Pending', States', taken' \o fifo'>>
  BY DEF Abstract!scan, Completed, Pending, States
<1> QED BY <1>1, <1>2, <1>3, <1>4

\* Nothing is fired.
LEMMA NothingFired ==
    ASSUME TypeInv, SpikeFifo(<<>>)
    PROVE  taken' \o fifo' = taken \o fifo
<1>1. <<>> \in Seq(Spikes) /\ taken \o fifo \in Seq(Spikes)
  BY DEF TypeInv
<1>2. (taken \o fifo) \o <<>> = taken \o fifo
  BY <1>1
<1> QED BY <1>1, <1>2, SpikeFlow

\* The neurons stay what they are.
LEMMA StatesRest ==
    ASSUME setting' = setting, ram' = ram, Initialised, Initialised'
    PROVE  States' = States
<1>1. fixture' = fixture /\ Neurons' = Neurons
  BY DEF fixture, Neurons
<1> QED BY <1>1 DEF States

\* The arithmetic of the abstract scan is that of the model.
LEMMA AbstractUpdate ==
    ASSUME NEW par, NEW s, NEW acc, NEW tick
    PROVE  Abstract!update_neuron(par, s, acc, tick) = update_neuron(par, s, acc, tick)
BY DEF Abstract!update_neuron, update_neuron, Abstract!narrow_to_format, narrow_to_format,
       Abstract!move_toward_zero, move_toward_zero

\* A neuron that retires, the lowest one touched with what was made of it, is updated as the
\* abstract scan updates it.
LEMMA RetireUpdates ==
    ASSUME IInv, Scanning, Scanning', UNCHANGED <<setting, begun>>, NEW n \in touched,
           \A m \in touched : n <= m, NEW d, d = Work(Issued(n), ram[n], fixture.params, 7),
           Retire(n, d.voltage, d.spike)
    PROVE  Abstract!UpdateNeuron
<1> DEFINE u == update_neuron(fixture.params[n], States[n], Sum(Contributed, n), current_tick)
<1>1. TypeInv /\ begun >= 1 /\ n \in Neurons /\ touched \subseteq Neurons
  BY DEF IInv, TypeInv
<1>2. d \in Decisions
  <2>1. 7 \in Places /\ 7 \in 6 .. 7
    BY DEF Places
  <2> QED BY <1>1, <2>1, WorkIs
<1>3. /\ touched' = touched \ {n}
      /\ ram' = [ram EXCEPT ![n] = [voltage |-> d.voltage, last_update |-> current_tick]]
      /\ ram \in [Neurons -> [voltage : Int, last_update : Int]]
      /\ taken' \o fifo' = (taken \o fifo) \o (IF d.spike THEN <<<<current_tick, n>>>> ELSE <<>>)
  <2>1. ram \in [Neurons -> [voltage : Int, last_update : Int]]
    BY <1>1 DEF TypeInv
  <2> QED BY <1>1, <1>2, <2>1, RetireFacts
<1>4. fixture' = fixture /\ Neurons' = Neurons
  BY SameTick
<1>5. Initialised /\ Initialised'
  BY DEF Scanning, Initialised
<1>6. /\ Completed = begun - 1 /\ Completed' = begun - 1 /\ Completed + 1 = begun
      /\ Pending = touched /\ Pending' = touched \ {n}
  <2>1. begun \in Int
    BY <1>1 DEF TypeInv
  <2> QED BY <1>3, <2>1 DEF Completed, Pending, Scanning
<1>7. States[n] = [membrane |-> ram[n].voltage, adaptation |-> 0,
                   last_update_tick |-> ram[n].last_update]
  BY <1>1, <1>5 DEF States
<1>8. d.spike = u.spike /\ d.voltage = u.state.membrane
  <2>1. /\ ~fixture.params[n].alif /\ fixture.params[n].adaptation_decay = 0
        /\ fixture.params[n].threshold \in ThresholdFormat.min .. ThresholdFormat.max
    BY <1>1, FixtureFacts
  <2> DEFINE n0 == Issued(n)
  <2>2. n0.neuron = n /\ n0.tick = current_tick /\ n0.accumulator = Sum(Contributed, n)
    BY DEF Issued, IInv, SumsInv
  <2>3. fixture.params[n].adaptation_decay * (current_tick - ram[n].last_update) \in Nat
    <3>1. current_tick - ram[n].last_update \in Int
      BY <1>1, <1>3, TickFacts
    <3> QED BY <2>1, <3>1
  <2>4. d = Decision(Candidate(Product(Response(n0, ram[n]), fixture.params)), fixture.params)
    BY DEF Work
  <2> HIDE DEF n0
  <2> QED BY <1>7, <2>1, <2>2, <2>3, <2>4, StagesComputeUpdate
<1>9. u.state = [membrane |-> d.voltage, adaptation |-> 0, last_update_tick |-> current_tick]
  <2>1. /\ ~fixture.params[n].alif /\ fixture.params[n].adaptation_decay = 0
        /\ current_tick - ram[n].last_update \in Int
    <3>1. ram[n].last_update \in Int
      BY <1>1, <1>3
    <3>2. current_tick \in Int
      BY <1>1, TickFacts
    <3>3. ~fixture.params[n].alif /\ fixture.params[n].adaptation_decay = 0
      BY <1>1, FixtureFacts
    <3> QED BY <3>1, <3>2, <3>3
  <2>2. Abstract!move_toward_zero(0, 0) = 0 /\ move_toward_zero(0, 0) = 0
    BY DEF move_toward_zero, Abstract!move_toward_zero
  <2>3. fixture.params[n].adaptation_decay * (current_tick - States[n].last_update_tick) = 0
    BY <1>7, <2>1
  <2>4. u.state = [membrane |-> u.state.membrane, adaptation |-> 0, last_update_tick |-> current_tick]
    BY <1>7, <2>1, <2>2, <2>3 DEF update_neuron
  <2> QED BY <1>8, <2>4
<1> HIDE DEF u
<1>10. States' = [States EXCEPT ![n] = u.state]
  <2>1. ASSUME NEW m \in Neurons
        PROVE  States'[m] = [States EXCEPT ![n] = u.state][m]
    <3>1. States'[m] = [membrane |-> ram'[m].voltage, adaptation |-> 0,
                        last_update_tick |-> ram'[m].last_update]
      BY <1>4, <1>5 DEF States
    <3>2. States[m] = [membrane |-> ram[m].voltage, adaptation |-> 0,
                       last_update_tick |-> ram[m].last_update]
      BY <1>5 DEF States
    <3>3. States = [k \in Neurons |-> States[k]]
      BY DEF States
    <3>4. CASE m = n
      <4>1. ram'[m] = [voltage |-> d.voltage, last_update |-> current_tick]
        BY <1>1, <1>3, <3>4
      <4> QED BY <1>9, <3>1, <3>3, <3>4, <4>1
    <3>5. CASE m # n
      <4>1. ram'[m] = ram[m]
        BY <1>3, <3>5
      <4> QED BY <3>1, <3>2, <3>3, <3>5, <4>1
    <3> QED BY <3>4, <3>5
  <2>2. States = [k \in Neurons |-> States[k]] /\ States' = [k \in Neurons |-> States'[k]]
    BY <1>4 DEF States
  <2> QED BY <2>1, <2>2
<1>11. taken' \o fifo' = IF u.spike THEN Append(taken \o fifo, <<current_tick, n>>)
                         ELSE taken \o fifo
  <2>1. taken \o fifo \in Seq(Spikes) /\ current_tick \in Int /\ n \in Int
    <3>1. taken \o fifo \in Seq(Spikes)
      BY <1>1 DEF TypeInv
    <3>2. current_tick \in Int
      BY <1>1, TickFacts
    <3>3. n \in Int
      BY <1>1, FixtureFacts
    <3> QED BY <3>1, <3>2, <3>3
  <2>2. u.spike \in BOOLEAN
    BY <1>2, <1>8 DEF Decisions
  <2> DEFINE all == taken \o fifo
  <2>5. all \in Seq(Spikes) /\ <<current_tick, n>> \in Spikes
    BY <2>1 DEF Spikes
  <2>6. taken' \o fifo' = all \o (IF u.spike THEN <<<<current_tick, n>>>> ELSE <<>>)
    BY <1>3, <1>8
  <2> HIDE DEF all
  <2>3. CASE u.spike
    BY <2>3, <2>5, <2>6 DEF all
  <2>4. CASE ~u.spike
    <3>1. all \o <<>> = all
      BY <2>5
    <3> QED BY <2>4, <2>6, <3>1 DEF all
  <2> QED BY <2>3, <2>4
<1>12. Abstract!Min(Pending) = n
  <2>1. \A m \in touched : m \in Int
    BY <1>1, FixtureFacts
  <2>2. ASSUME NEW x \in touched, \A y \in touched : x <= y
        PROVE  x = n
    BY <2>1, <2>2
  <2>3. Abstract!Min(touched) = CHOOSE x \in touched : \A y \in touched : x <= y
    BY DEF Abstract!Min
  <2>4. Abstract!Min(touched) \in touched /\ \A y \in touched : Abstract!Min(touched) <= y
    BY <2>3
  <2> QED BY <1>6, <2>2, <2>4
<1>13. Abstract!Tick.events = Events /\ Abstract!Tick.id = current_tick
  <2>1. Abstract!Tick = fixture.ticks[Completed + 1]
    BY DEF Abstract!Tick, Completed
  <2> QED BY <1>6, <2>1 DEF Events, current_tick
<1>14. Abstract!update_neuron(fixture.params[n], States[n], Abstract!Accumulated(Events, n),
                              current_tick) = u
  <2>1. Abstract!Accumulated(Events, n) = Sum(Contributed, n)
    BY <1>1, AccumulatedIsSum
  <2> QED BY <2>1, AbstractUpdate DEF u
<1>15. Pending # {} /\ Scanning' = Scanning
  BY <1>6 DEF Scanning
<1>16. Abstract!UpdateNeuron <=>
          LET k == Abstract!Min(Pending)
              update == Abstract!update_neuron(fixture.params[k], States[k],
                            Abstract!Accumulated(Abstract!Tick.events, k), Abstract!Tick.id)
          IN  /\ Scanning /\ Pending # {}
              /\ Pending' = Pending \ {k}
              /\ States' = [States EXCEPT ![k] = update.state]
              /\ taken' \o fifo' = (IF update.spike THEN Append(taken \o fifo, <<Abstract!Tick.id, k>>)
                                    ELSE taken \o fifo)
              /\ UNCHANGED <<fixture, Completed, Scanning>>
  BY DEF Abstract!UpdateNeuron, Pending, States, Completed
<1> QED BY <1>4, <1>6, <1>10, <1>11, <1>12, <1>13, <1>14, <1>15, <1>16

\* The abstract scan starts when every event of the tick was accumulated.
LEMMA IngressStarts ==
    ASSUME IInv, Ingress, state' = "SCAN_START"
    PROVE  Abstract!StartTick
<1> DEFINE accept == front.offered < Len(Events) /\ Len(front.fifo) < IngressDepth
           offered == front.offered + (IF accept THEN 1 ELSE 0)
           done == IF setting.early THEN offered = Len(Events) ELSE front.offered = Len(Events)
<1>1. /\ state = "INGRESS" /\ front.fifo = <<>> /\ (front.complete \/ done) /\ ~accept
      /\ SpikeFifo(<<>>) /\ NeuronIdle /\ UNCHANGED <<setting, begun, bank, touched>>
  <2>1. /\ state = "INGRESS"
        /\ state' = CASE front.fifo # <<>> -> "AXON_WAIT"
                      [] front.fifo = <<>> /\ IngressOver(accept, done) -> "SCAN_START"
                      [] OTHER -> "INGRESS"
        /\ SpikeFifo(<<>>) /\ NeuronIdle /\ UNCHANGED <<setting, begun, bank, touched>>
    BY DEF Ingress
  <2> HIDE DEF accept, done
  <2> QED BY <2>1 DEF IngressOver
<1>2. TypeInv /\ begun >= 1 /\ UNCHANGED ram
  BY <1>1 DEF IInv, TypeInv, FrontStates, NeuronIdle
<1>3. Len(Events) \in Nat /\ begun \in 1 .. Len(fixture.ticks)
  BY <1>2, TickFacts
<1>4. /\ front.offered \in 0 .. Len(Events) /\ front.offered \in Int
      /\ front.complete => front.offered = Len(Events)
      /\ touched = {Goes(x) : x \in Done}
  BY <1>1, <1>3 DEF IInv, FrontInv, FrontStates
<1>5. front.offered = Len(Events)
  <2>1. offered = front.offered
    BY <1>1, <1>4
  <2>2. (done <=> offered = Len(Events)) \/ (done <=> front.offered = Len(Events))
    <3> HIDE DEF offered
    <3> QED OBVIOUS
  <2> HIDE DEF done, offered
  <2> QED BY <1>1, <1>4, <2>1, <2>2
<1>6. InWork = Len(Events)
  <2>1. Len(front.fifo) = 0
    BY <1>1
  <2> QED BY <1>4, <1>5, <2>1 DEF InWork
<1>7. Done = Contributed
  <2>1. \A x \in Contributed : x[1] <= Len(Events)
    BY <1>2, <1>3, ContributionsAre
  <2> QED BY <1>1, <1>6, <2>1 DEF Done, Rest
<1>8. ~Scanning /\ Scanning' /\ Initialised /\ Initialised'
  BY <1>1 DEF Scanning, Initialised
<1>9. /\ Completed = begun - 1 /\ Completed' = Completed /\ Completed + 1 = begun
      /\ Completed < Len(fixture.ticks) /\ Pending' = touched
  BY <1>1, <1>3, <1>8 DEF Completed, Pending
<1>10. Abstract!Tick.events = Events
  <2>1. Abstract!Tick = fixture.ticks[Completed + 1]
    BY DEF Abstract!Tick, Completed
  <2> QED BY <1>9, <2>1 DEF Events
<1>11. touched = Abstract!Touched(Abstract!Tick.events)
  BY <1>4, <1>7, <1>10 DEF Abstract!Touched, Contributed, Goes
<1>12. fixture' = fixture /\ States' = States /\ taken' \o fifo' = taken \o fifo
  <2>1. fixture' = fixture
    BY <1>1 DEF fixture
  <2> QED BY <1>1, <1>2, <1>8, <2>1, StatesRest, NothingFired
<1>13. Abstract!StartTick <=>
          /\ ~Scanning /\ Completed < Len(fixture.ticks)
          /\ Scanning' = TRUE
          /\ Pending' = Abstract!Touched(Abstract!Tick.events)
          /\ UNCHANGED <<fixture, Completed, States, taken \o fifo>>
  BY DEF Abstract!StartTick, Completed, Pending, States
<1>14. Scanning' = TRUE
  BY <1>8 DEF Scanning
<1> QED BY <1>8, <1>9, <1>11, <1>12, <1>13, <1>14

\* It finishes when the last spike of the tick left.
LEMMA DrainFinishes ==
    ASSUME IInv, SpikeDrain
    PROVE  Abstract!FinishTick \/ UNCHANGED Abstract!scan
<1>1. /\ state = "SPIKE_DRAIN" /\ state' = (IF fifo = <<>> THEN "TICK_DONE" ELSE state)
      /\ SpikeFifo(<<>>) /\ UNCHANGED <<setting, begun, touched, ram>>
  BY DEF SpikeDrain, NeuronIdle
<1>2. TypeInv /\ touched = {} /\ begun \in Int
  BY <1>1 DEF IInv, QuietInv, TypeInv
<1>3. Scanning /\ Initialised /\ Initialised' /\ Completed = begun - 1 /\ Pending = {} /\ Pending' = {}
  BY <1>1, <1>2 DEF Scanning, Initialised, Completed, Pending
<1>4. fixture' = fixture /\ States' = States /\ taken' \o fifo' = taken \o fifo
  <2>1. fixture' = fixture
    BY <1>1 DEF fixture
  <2> QED BY <1>1, <1>2, <1>3, <2>1, StatesRest, NothingFired
<1>5. CASE fifo = <<>>
  <2>1. Completed' = Completed + 1 /\ Scanning' = FALSE
    BY <1>1, <1>2, <1>3, <1>5 DEF Completed, Scanning
  <2>2. Abstract!FinishTick <=>
           /\ Scanning /\ Pending = {} /\ Scanning' = FALSE /\ Completed' = Completed + 1
           /\ UNCHANGED <<fixture, Pending, States, taken \o fifo>>
    BY DEF Abstract!FinishTick, Completed, Pending, States
  <2> QED BY <1>3, <1>4, <2>1, <2>2
<1>6. CASE fifo # <<>>
  <2>1. Completed' = Completed /\ Scanning'
    BY <1>1, <1>6 DEF Completed, Scanning
  <2> QED BY <1>1, <1>3, <1>4, <2>1, Stutters
<1> QED BY <1>5, <1>6

\* The reset values of the neurons are stored before the core is first idle.
LEMMA InitialiseRests ==
    ASSUME IInv, Initialise
    PROVE  UNCHANGED Abstract!scan
<1>1. /\ state \in {"INIT_REQUEST", "INIT_WRITE"}
      /\ \/ state' \in {"INIT_REQUEST", "INIT_WRITE"}
         \/ /\ state' = "IDLE" /\ index = Len(fixture.params)
            /\ ram' = [ram EXCEPT ![index] = [voltage |-> fixture.voltage[index], last_update |-> 0]]
      /\ UNCHANGED <<setting, begun, fifo, taken>>
  BY DEF Initialise
<1>2. /\ Neurons = 1 .. Len(fixture.params) /\ Len(fixture.params) \in Nat
      /\ ram \in [Neurons -> [voltage : Int, last_update : Int]] /\ index \in Neurons
      /\ \A m \in 1 .. index - 1 : ram[m] = [voltage |-> fixture.voltage[m], last_update |-> 0]
  BY <1>1, FixtureFacts DEF IInv, TypeInv, InitialiseInv
<1>3. fixture' = fixture /\ Neurons' = Neurons
  BY <1>1, SameTick
<1>4. ~Initialised /\ (Initialised' <=> state' = "IDLE") /\ ~Scanning /\ ~Scanning'
  BY <1>1 DEF Initialised, Scanning
<1>5. Completed' = Completed /\ Pending' = Pending
  BY <1>1, <1>4 DEF Completed, Pending
<1>6. States' = States
  <2>1. CASE state' # "IDLE"
    BY <1>3, <1>4, <2>1 DEF States
  <2>2. CASE state' = "IDLE"
    <3>1. ASSUME NEW m \in Neurons
          PROVE  ram'[m] = [voltage |-> fixture.voltage[m], last_update |-> 0]
      <4>1. CASE m = index
        BY <1>1, <1>2, <2>2, <4>1
      <4>2. CASE m # index
        BY <1>1, <1>2, <2>2, <4>2
      <4> QED BY <4>1, <4>2
    <3> DEFINE first == [n \in Neurons |-> [membrane |-> fixture.voltage[n], adaptation |-> 0,
                                            last_update_tick |-> 0]]
    <3>2. States = first
      BY <1>4 DEF States
    <3>3. States' = [n \in Neurons |-> [membrane |-> ram'[n].voltage, adaptation |-> 0,
                                        last_update_tick |-> ram'[n].last_update]]
      BY <1>3, <1>4, <2>2 DEF States
    <3>4. \A n \in Neurons : ram'[n].voltage = fixture.voltage[n] /\ ram'[n].last_update = 0
      <4> SUFFICES ASSUME NEW n \in Neurons
                   PROVE  ram'[n].voltage = fixture.voltage[n] /\ ram'[n].last_update = 0
        OBVIOUS
      <4>1. ram'[n] = [voltage |-> fixture.voltage[n], last_update |-> 0]
        BY <3>1
      <4> QED BY ONLY <4>1
    <3>5. States' = first
      BY <3>3, <3>4
    <3> QED BY <3>2, <3>5
  <2> QED BY <2>1, <2>2
<1> QED BY <1>1, <1>4, <1>5, <1>6, Stutters

\* Every step of a core is one of the abstract scan, or none.
LEMMA StepImplements ==
    ASSUME IInv, [Next]_vars
    PROVE  Abstract!StartTick \/ Abstract!UpdateNeuron \/ Abstract!FinishTick
           \/ UNCHANGED Abstract!scan
<1>1. TypeInv
  BY DEF IInv
<1>2. ASSUME UNCHANGED vars
      PROVE  UNCHANGED Abstract!scan
  <2>1. UNCHANGED <<setting, state, begun, touched, ram, fifo, taken>>
    BY <1>2 DEF vars
  <2>2. fixture' = fixture /\ Neurons' = Neurons
    BY <2>1 DEF fixture, Neurons
  <2>3. (Scanning' <=> Scanning) /\ (Initialised' <=> Initialised)
    BY <2>1 DEF Scanning, Initialised
  <2>4. Completed' = Completed /\ Pending' = Pending /\ States' = States
    BY <2>1, <2>2, <2>3 DEF Completed, Pending, States
  <2> QED BY <2>1, <2>3, <2>4, Stutters
<1>3. ASSUME TickStart
      PROVE  UNCHANGED Abstract!scan
  <2>1. /\ state = "IDLE" /\ begun' = begun + 1 /\ state' = "INGRESS" /\ SpikeFifo(<<>>)
        /\ UNCHANGED <<setting, ram>>
    BY <1>3 DEF TickStart
  <2>2. Initialised /\ Initialised' /\ ~Scanning /\ ~Scanning'
    BY <2>1 DEF Initialised, Scanning
  <2>3. Completed' = Completed
    BY <1>1, <2>1 DEF Completed, TypeInv
  <2>4. Pending' = Pending
    BY <2>2 DEF Pending
  <2> QED BY <1>1, <2>1, <2>2, <2>3, <2>4, StatesRest, NothingFired, Stutters
<1>4. ASSUME state \in FrontStates, state' \in FrontStates, SpikeFifo(<<>>),
             UNCHANGED <<setting, begun, ram>>
      PROVE  UNCHANGED Abstract!scan
  <2>1. /\ Initialised /\ Initialised' /\ ~Scanning /\ ~Scanning'
        /\ Completed = begun - 1 /\ Completed' = begun' - 1
    BY <1>4 DEF Initialised, Scanning, FrontStates, Completed
  <2>2. Pending' = Pending /\ Completed' = Completed
    BY <1>4, <2>1 DEF Pending
  <2> QED BY <1>1, <1>4, <2>1, <2>2, StatesRest, NothingFired, Stutters
<1>5. ASSUME Scanning \/ state = "TICK_DONE", Scanning' <=> Scanning, Scanning' \/ state' = "IDLE",
             SpikeFifo(<<>>), UNCHANGED <<setting, begun, touched, ram>>
      PROVE  UNCHANGED Abstract!scan
  <2>1. Initialised /\ Initialised' /\ Completed' = Completed
    BY <1>5 DEF Initialised, Scanning, Completed
  <2>2. Pending' = Pending
    BY <1>5 DEF Pending
  <2> QED BY <1>1, <1>5, <2>1, <2>2, StatesRest, NothingFired, Stutters
<1>6. ASSUME Idle
      PROVE  UNCHANGED Abstract!scan
  BY <1>2, <1>6 DEF Idle
<1>7. ASSUME Ingress
      PROVE  Abstract!StartTick \/ UNCHANGED Abstract!scan
  <2>1. /\ state = "INGRESS" /\ state' \in {"AXON_WAIT", "INGRESS", "SCAN_START"}
        /\ SpikeFifo(<<>>) /\ UNCHANGED <<setting, begun, ram>>
    BY <1>7 DEF Ingress, NeuronIdle
  <2>2. CASE state' = "SCAN_START"
    BY <1>7, <2>2, IngressStarts
  <2>3. CASE state' # "SCAN_START"
    BY <1>4, <2>1, <2>3 DEF FrontStates
  <2> QED BY <2>2, <2>3
<1>8. ASSUME Fetch
      PROVE  UNCHANGED Abstract!scan
  <2>1. /\ state \in FrontStates /\ state' \in FrontStates
        /\ SpikeFifo(<<>>) /\ UNCHANGED <<setting, begun, ram>>
    BY <1>8 DEF Fetch, NeuronIdle, FrontStates
  <2> QED BY <1>4, <2>1
<1>9. ASSUME Accumulate
      PROVE  UNCHANGED Abstract!scan
  <2>1. /\ state = "ACCUMULATE" /\ state' \in {"ACCUMULATE", "SYNAPSE_REQUEST", "INGRESS"}
        /\ SpikeFifo(<<>>) /\ UNCHANGED <<setting, begun, ram>>
    BY <1>9 DEF Accumulate, NeuronIdle
  <2> QED BY <1>4, <2>1 DEF FrontStates
<1>10. ASSUME ScanStart
       PROVE  UNCHANGED Abstract!scan
  <2>1. /\ Scanning /\ Scanning' /\ SpikeFifo(<<>>) /\ UNCHANGED <<setting, begun, touched, ram>>
    BY <1>10 DEF ScanStart, Scanning
  <2> QED BY <1>5, <2>1
<1>11. ASSUME Scan \/ NeuronWait
       PROVE  UNCHANGED Abstract!scan
  <2>1. /\ Scanning /\ Scanning' /\ SpikeFifo(<<>>) /\ UNCHANGED <<setting, begun, touched, ram>>
    BY <1>11 DEF Scan, NeuronWait, NoRetire, Scanning
  <2> QED BY <1>5, <2>1
<1>12. ASSUME NeuronCommit
       PROVE  Abstract!UpdateNeuron \/ UNCHANGED Abstract!scan
  <2>1. /\ state = "NEURON_COMMIT" /\ UNCHANGED <<setting, begun>>
        /\ \/ Retire(result.neuron, result.voltage, result.spike) /\ state' = "SCAN"
           \/ NoRetire /\ state' = state
    BY <1>12 DEF NeuronCommit
  <2>2. Scanning /\ Scanning'
    BY <2>1 DEF Scanning
  <2>3. CASE Retire(result.neuron, result.voltage, result.spike)
    <3>1. /\ cursor \in touched /\ \A m \in touched : cursor <= m
          /\ result = Work(Issued(cursor), ram[cursor], fixture.params, 7)
      <4>1. /\ cursor \in touched /\ \A m \in touched : m >= cursor
            /\ result = Work(Issued(cursor), ram[cursor], fixture.params, 7)
        BY <2>1 DEF IInv, MempipeInv
      <4> QED BY <4>1
    <3>2. result.neuron = cursor
      <4>1. 7 \in Places /\ cursor \in Neurons /\ begun >= 1
        BY <2>2, <3>1 DEF Places, IInv, TypeInv
      <4> QED BY <1>1, <3>1, <4>1, WorkIs
    <3>3. Retire(cursor, result.voltage, result.spike)
      BY <2>3, <3>2
    <3>4. IInv /\ UNCHANGED <<setting, begun>>
      BY <2>1
    <3> QED BY ONLY <2>2, <3>1, <3>3, <3>4, RetireUpdates
  <2>4. CASE NoRetire
    BY <1>5, <2>1, <2>2, <2>4 DEF NoRetire
  <2> QED BY <2>1, <2>3, <2>4
<1>13. ASSUME RunPipeline
       PROVE  Abstract!UpdateNeuron \/ UNCHANGED Abstract!scan
  <2>1. Scanning /\ UNCHANGED <<setting, begun>>
    BY <1>13, PipelineFacts
  <2>2. Scanning'
    BY <1>13 DEF RunPipeline, ScanPipeline, Scanning
  <2>3. CASE Commits(pipe, Len(fifo))
    <3> DEFINE r == pipe.stage[5].neuron
               d == pipe.stage[5]
    <3>1. /\ r \in touched /\ \A m \in touched : r <= m
          /\ d = Work(Issued(r), ram[r], fixture.params, 7)
          /\ Retire(r, d.voltage, d.spike)
      BY <1>13, <2>3, PipelineFacts
    <3>2. IInv
      OBVIOUS
    <3> HIDE DEF r, d
    <3> QED BY ONLY <2>1, <2>2, <3>1, <3>2, RetireUpdates
  <2>4. CASE ~Commits(pipe, Len(fifo))
    <3>1. NoRetire
      BY <1>13, <2>4, PipelineFacts
    <3> QED BY <1>5, <2>1, <2>2, <3>1 DEF NoRetire
  <2> QED BY <2>3, <2>4
<1>14. ASSUME TickDone
       PROVE  UNCHANGED Abstract!scan
  <2>1. /\ state = "TICK_DONE" /\ state' = "IDLE" /\ SpikeFifo(<<>>)
        /\ UNCHANGED <<setting, begun, touched, ram>>
    BY <1>14 DEF TickDone, NeuronIdle
  <2>2. ~Scanning /\ ~Scanning'
    BY <2>1 DEF Scanning
  <2> QED BY <1>5, <2>1, <2>2
<1> QED BY <1>2, <1>3, <1>6, <1>7, <1>8, <1>9, <1>10, <1>11, <1>12, <1>13, <1>14,
           InitialiseRests, DrainFinishes DEF Next

\* Every profile of the core, with any program, any depths and any consumer of the spikes,
\* implements the abstract scan: a tick updates exactly the touched neurons, once each, in
\* ascending order, with the whole sums of the tick and the arithmetic of the reference
\* machine, and no spike is lost, repeated or overtaken.
THEOREM CoreImplementsScan == Spec => ImplementsScan
<1>1. Init => Abstract!Init
  <2> SUFFICES ASSUME Init PROVE Abstract!Init
    OBVIOUS
  <2>1. state = "INIT_REQUEST" /\ begun = 0 /\ taken = <<>> /\ fifo = <<>> /\ setting \in Settings
    BY DEF Init
  <2>2. ~Scanning /\ ~Initialised /\ taken \o fifo = <<>>
    BY <2>1 DEF Scanning, Initialised
  <2>3. fixture \in {s.fixture : s \in Settings}
    BY <2>1 DEF fixture
  <2>4. [n \in Neurons |->
            [membrane |-> IF Initialised THEN ram[n].voltage ELSE fixture.voltage[n],
             adaptation |-> 0,
             last_update_tick |-> IF Initialised THEN ram[n].last_update ELSE 0]]
        = [n \in DOMAIN fixture.params |->
            [membrane |-> fixture.voltage[n], adaptation |-> 0, last_update_tick |-> 0]]
    BY <2>2 DEF Neurons
  <2> QED BY <2>1, <2>2, <2>3, <2>4 DEF Abstract!Init
<1>2. IInv /\ [Next]_vars =>
         [Abstract!StartTick \/ Abstract!UpdateNeuron \/ Abstract!FinishTick]_(Abstract!scan)
  BY StepImplements
<1> QED BY <1>1, <1>2, Invariant, PTL DEF Spec, ImplementsScan, Abstract!Spec
=============================================================================
