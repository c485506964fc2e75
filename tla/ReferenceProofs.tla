--------------------------- MODULE ReferenceProofs ---------------------------
(***************************************************************************)
(* What holds of ReferenceMachine for every program, every list of         *)
(* injected events and every choice of ticks: logical time never runs      *)
(* backwards (whatever is queued is due after the last processed tick),    *)
(* the packets emitted are exactly those the recorded spikes send, and a   *)
(* machine that gets its events between ticks computes what one that gets  *)
(* them all at the start does (ReferenceReplay).                           *)
(***************************************************************************)
EXTENDS ReferenceReplay, OrderingProofs

\* The entries of a queue belong to ticks after t.
DueAfter(B, t) == \A x \in DOMAIN B : x.timestamp \in Nat /\ x.timestamp > t

\* Every queue and every neuron agrees with the last processed tick.
TimeInv ==
    /\ last_processed_tick \in Nat \cup {-1}
    /\ DueAfter(input_events, last_processed_tick)
    /\ DueAfter(routed_packets, last_processed_tick)
    /\ DueAfter(delayed_contributions, last_processed_tick)
    /\ \A c \in Cores : \A n \in DOMAIN Params[c] :
          neuron[c][n].last_update_tick \in 0 .. last_processed_tick \cup {0}

-----------------------------------------------------------------------------
(* Bags. *)

\* The sum of two bags holds what either holds.
LEMMA SumDueAfter ==
    ASSUME NEW A, NEW B, NEW t, DueAfter(A, t), DueAfter(B, t)
    PROVE  DueAfter(A (+) B, t)
BY DEF DueAfter, (+)

\* What is left of a queue without its entries of tick t, when none is earlier,
\* is due after t.
LEMMA RestDueAfter ==
    ASSUME NEW B, NEW u, NEW t \in Nat, DueAfter(B, u), \A x \in DOMAIN B : x.timestamp >= t
    PROVE  DueAfter(NotAt(B, t), t)
<1>1. DOMAIN NotAt(B, t) = {y \in DOMAIN B : y.timestamp # t}
  BY DEF NotAt
<1> QED BY <1>1 DEF DueAfter

-----------------------------------------------------------------------------
(* Counting the values of a function.                                      *)

\* The bag of the values of the function f on S: BagOf of an operator that agrees with f.
ValuesOf(f, S) == [v \in {f[x] : x \in S} |-> Cardinality({x \in S : f[x] = v})]

\* The values on two disjoint sets are those on the one and those on the other.
LEMMA ValuesOfUnion ==
    ASSUME NEW f, NEW A, NEW B, IsFiniteSet(A), IsFiniteSet(B), A \cap B = {}
    PROVE  ValuesOf(f, A \cup B) = ValuesOf(f, A) (+) ValuesOf(f, B)
<1> DEFINE all == ValuesOf(f, A \cup B)
           a == ValuesOf(f, A)
           b == ValuesOf(f, B)
           sum == a (+) b
           at(S, v) == {x \in S : f[x] = v}
<1>1. /\ DOMAIN a = {f[x] : x \in A} /\ \A v \in DOMAIN a : a[v] = Cardinality(at(A, v))
      /\ DOMAIN b = {f[x] : x \in B} /\ \A v \in DOMAIN b : b[v] = Cardinality(at(B, v))
  BY DEF ValuesOf
<1>2. /\ DOMAIN all = {f[x] : x \in A \cup B}
      /\ \A v \in DOMAIN all : all[v] = Cardinality(at(A \cup B, v))
      /\ all = [v \in {f[x] : x \in A \cup B} |-> Cardinality(at(A \cup B, v))]
  BY DEF ValuesOf
<1> HIDE DEF a, b, all
<1>3. sum = [v \in DOMAIN a \cup DOMAIN b |->
               (IF v \in DOMAIN a THEN a[v] ELSE 0) + (IF v \in DOMAIN b THEN b[v] ELSE 0)]
  BY DEF (+)
<1>4. DOMAIN all = DOMAIN a \cup DOMAIN b
  BY <1>1, <1>2
<1>5. ASSUME NEW v \in DOMAIN all
      PROVE  all[v] = (IF v \in DOMAIN a THEN a[v] ELSE 0) + (IF v \in DOMAIN b THEN b[v] ELSE 0)
  <2>1. /\ IsFiniteSet(at(A, v)) /\ IsFiniteSet(at(B, v))
        /\ Cardinality(at(A, v)) \in Nat /\ Cardinality(at(B, v)) \in Nat
    BY FS_Subset, FS_CardinalityType
  <2>2. at(A \cup B, v) = at(A, v) \cup at(B, v) /\ at(A, v) \cap at(B, v) = {}
    OBVIOUS
  <2>3. Cardinality(at(A \cup B, v)) = Cardinality(at(A, v)) + Cardinality(at(B, v))
    <3> DEFINE p == at(A, v)
               q == at(B, v)
    <3>1. IsFiniteSet(p) /\ IsFiniteSet(q) /\ p \cap q = {}
      BY <2>1, <2>2
    <3> HIDE DEF p, q
    <3>2. Cardinality(p \cup q) = Cardinality(p) + Cardinality(q) - Cardinality(p \cap q)
      BY <3>1, FS_Union
    <3>3. Cardinality(p \cap q) = 0
      BY <3>1, FS_EmptySet
    <3>4. Cardinality(p) \in Nat /\ Cardinality(q) \in Nat
      BY <2>1 DEF p, q
    <3>5. Cardinality(p \cup q) = Cardinality(p) + Cardinality(q)
      BY <3>2, <3>3, <3>4
    <3> QED BY <2>2, <3>5 DEF p, q
  <2>4. v \notin DOMAIN a => at(A, v) = {}
    BY <1>1
  <2>5. v \notin DOMAIN b => at(B, v) = {}
    BY <1>1
  <2>6. (IF v \in DOMAIN a THEN a[v] ELSE 0) = Cardinality(at(A, v))
    BY <1>1, <2>4, FS_EmptySet
  <2>7. (IF v \in DOMAIN b THEN b[v] ELSE 0) = Cardinality(at(B, v))
    BY <1>1, <2>5, FS_EmptySet
  <2>8. all[v] = Cardinality(at(A \cup B, v))
    BY <1>2
  <2> QED BY <2>3, <2>6, <2>7, <2>8
<1>6. all = [v \in DOMAIN all |-> all[v]]
  BY <1>2
<1>7. all = sum
  <2> HIDE DEF sum
  <2> QED BY <1>3, <1>4, <1>5, <1>6
<1> QED BY <1>7 DEF all, a, b

\* The values are counted alike under other names for the arguments.
LEMMA ValuesOfRenamed ==
    ASSUME NEW f, NEW A, NEW g, NEW B, NEW name \in Bijection(A, B), IsFiniteSet(A),
           \A x \in A : f[x] = g[name[x]]
    PROVE  ValuesOf(f, A) = ValuesOf(g, B)
<1> DEFINE a == ValuesOf(f, A)
           b == ValuesOf(g, B)
           inA(v) == {x \in A : f[x] = v}
           inB(v) == {y \in B : g[y] = v}
<1>1. /\ name \in [A -> B]
      /\ \A x, y \in A : name[x] = name[y] => x = y
      /\ \A y \in B : \E x \in A : name[x] = y
  BY DEF Bijection, Injection, Surjection, IsInjective
<1>2. {f[x] : x \in A} = {g[y] : y \in B}
  BY <1>1
<1>3. ASSUME NEW v
      PROVE  Cardinality(inA(v)) = Cardinality(inB(v))
  <2> DEFINE P == inA(v)
             Q == inB(v)
             to == [x \in P |-> name[x]]
  <2>1. P \subseteq A /\ \A x \in P : name[x] \in Q
    BY <1>1
  <2>2. \A y \in Q : \E x \in P : name[x] = y
    BY <1>1
  <2>3. IsFiniteSet(P)
    BY <2>1, FS_Subset
  <2> HIDE DEF P, Q
  <2>4. to \in Bijection(P, Q)
    BY <1>1, <2>1, <2>2 DEF Bijection, Injection, Surjection, IsInjective
  <2> HIDE DEF to
  <2>5. Cardinality(Q) = Cardinality(P)
    BY <2>3, <2>4, FS_Bijection DEF ExistsBijection
  <2> QED BY <2>5 DEF P, Q
<1> QED BY <1>2, <1>3 DEF ValuesOf

-----------------------------------------------------------------------------
(* What a tick generates is due after it. *)

\* A packet is due one tick after its spike.
LEMMA NewPacketsDueAfter ==
    ASSUME NEW t \in Nat
    PROVE  DueAfter(NewPackets(t), t)
<1>1. \A x \in DOMAIN NewPackets(t) : x.timestamp = t + 1
  BY DEF NewPackets, BagOf
<1> QED BY <1>1 DEF DueAfter

\* What is delayed is due after the tick it was delayed in.
LEMMA NewlyDelayedDueAfter ==
    ASSUME NEW t \in Nat
    PROVE  DueAfter(NewlyDelayed(t), t)
<1>1. \A x \in Traversals(t) : SynapseAt(x).delay \in Nat
  BY ReferenceAssumption DEF Traversals, SynapseAt
<1>2. \A d \in DOMAIN NewlyDelayed(t) :
          \E x \in Traversals(t) : SynapseAt(x).delay > 0 /\ d.timestamp = t + SynapseAt(x).delay
  BY DEF NewlyDelayed, Delayed
<1> QED BY <1>1, <1>2 DEF DueAfter

\* An update stamps the neuron with the tick.
LEMMA UpdateStamps ==
    ASSUME NEW t, NEW c, NEW n
    PROVE  Update(t, c, n).state.last_update_tick = t
BY DEF Update, update_neuron

-----------------------------------------------------------------------------
(* The spikes of a tick.                                                   *)

\* The records of the neurons that fire at t, and those recorded before each.
SpikesOf(t) ==
    UNION {{[tick |-> t, core |-> c, neuron |-> n] : n \in Fired(t, c)} : c \in Cores}
EarlierIn(S) == [x \in S |-> {y \in S : SpikeBefore(y, x)}]

\* Finitely many neurons fire, each of them once.
LEMMA SpikesOfTick ==
    ASSUME NEW t
    PROVE  /\ IsFiniteSet(SpikesOf(t))
           /\ \A x \in SpikesOf(t) :
                /\ x.core \in Cores /\ x.neuron \in DOMAIN Params[x.core]
                /\ x.core \in Int /\ x.neuron \in Int /\ x.tick = t
                /\ x.neuron \in Fired(t, x.core)
                /\ x = [tick |-> t, core |-> x.core, neuron |-> x.neuron]
           /\ \A c \in Cores : \A n \in Fired(t, c) :
                [tick |-> t, core |-> c, neuron |-> n] \in SpikesOf(t)
<1> DEFINE of(c) == {[tick |-> t, core |-> c, neuron |-> n] : n \in Fired(t, c)}
           cores == {of(c) : c \in Cores}
<1>1. IsFiniteSet(Cores) /\ Cores \subseteq Int
  <2>1. NumCores \in Nat
    BY ReferenceAssumption
  <2>2. NumCores - 1 \in Int
    BY <2>1
  <2>3. IsFiniteSet(0 .. NumCores - 1)
    BY <2>2, FS_Interval
  <2> QED BY <2>3 DEF Cores
<1>2. ASSUME NEW c \in Cores
      PROVE  /\ Fired(t, c) \subseteq DOMAIN Params[c] /\ DOMAIN Params[c] \subseteq Int
             /\ IsFiniteSet(Fired(t, c))
  <2>1. Fired(t, c) \subseteq DOMAIN Params[c]
    BY DEF Fired, Affected
  <2>2. DOMAIN Params[c] \subseteq Nat /\ IsFiniteSet(DOMAIN Params[c])
    BY ReferenceAssumption
  <2> QED BY <2>1, <2>2, FS_Subset
<1>3. ASSUME NEW c \in Cores
      PROVE  IsFiniteSet(of(c))
  <2> DEFINE record == [n \in Fired(t, c) |-> [tick |-> t, core |-> c, neuron |-> n]]
  <2>1. \A y \in of(c) : \E n \in Fired(t, c) : y = record[n]
    OBVIOUS
  <2> HIDE DEF record, of
  <2> QED BY <1>2, <2>1, ImageBound
<1>4. IsFiniteSet(cores)
  <2> DEFINE f == [c \in Cores |-> of(c)]
  <2>1. \A y \in cores : \E c \in Cores : y = f[c]
    OBVIOUS
  <2> HIDE DEF f, cores
  <2> QED BY <1>1, <2>1, ImageBound
<1>5. IsFiniteSet(UNION cores)
  <2>1. \A T \in cores : IsFiniteSet(T)
    BY <1>3
  <2> HIDE DEF cores
  <2> QED BY <1>4, <2>1, FS_UNION
<1>6. SpikesOf(t) = UNION cores
  BY DEF SpikesOf
<1>7. ASSUME NEW x \in SpikesOf(t)
      PROVE  /\ x.core \in Cores /\ x.neuron \in DOMAIN Params[x.core]
             /\ x.core \in Int /\ x.neuron \in Int /\ x.tick = t
             /\ x.neuron \in Fired(t, x.core)
             /\ x = [tick |-> t, core |-> x.core, neuron |-> x.neuron]
  <2>1. PICK c \in Cores : x \in of(c)
    BY <1>6
  <2>2. PICK n \in Fired(t, c) : x = [tick |-> t, core |-> c, neuron |-> n]
    BY <2>1
  <2> QED BY <1>1, <1>2, <2>2
<1>8. ASSUME NEW c \in Cores, NEW n \in Fired(t, c)
      PROVE  [tick |-> t, core |-> c, neuron |-> n] \in SpikesOf(t)
  BY DEF SpikesOf
<1> QED BY <1>5, <1>6, <1>7, <1>8

\* The order of cores and neurons is total on them.
LEMMA SpikesOrdered ==
    ASSUME NEW t
    PROVE  IsOrder(SpikesOf(t), EarlierIn(SpikesOf(t)))
<1> DEFINE S == SpikesOf(t)
           b == EarlierIn(SpikesOf(t))
<1>1. \A x \in S : b[x] = {y \in S : SpikeBefore(y, x)}
  BY DEF EarlierIn
<1>2. \A x \in S : x.core \in Int /\ x.neuron \in Int
  BY SpikesOfTick
<1>3. \A x, y \in S : x.core = y.core /\ x.neuron = y.neuron => x = y
  BY SpikesOfTick
<1> HIDE DEF S, b
<1>4. \A x \in S : b[x] \subseteq S /\ x \notin b[x]
  BY <1>1, <1>2 DEF SpikeBefore
<1>5. \A x, y \in S : x = y \/ x \in b[y] \/ y \in b[x]
  BY <1>1, <1>2, <1>3 DEF SpikeBefore
<1>6. ASSUME NEW x \in S, NEW y \in S, x \in b[y]
      PROVE  b[x] \subseteq b[y]
  <2>1. SpikeBefore(x, y)
    BY <1>1, <1>6
  <2>2. \A z \in S : SpikeBefore(z, x) => SpikeBefore(z, y)
    BY <1>2, <2>1 DEF SpikeBefore
  <2> QED BY <1>1, <2>2
<1>7. IsOrder(S, b)
  BY <1>4, <1>5, <1>6 DEF IsOrder
<1> QED BY <1>7 DEF S, b

\* A tick records each of its spikes exactly once.
LEMMA NewSpikesOnce ==
    ASSUME NEW t
    PROVE  LET new == NewSpikes(t)
           IN  /\ new \in Seq(SpikesOf(t))
               /\ \A k, l \in 1 .. Len(new) : new[k] = new[l] => k = l
               /\ \A x \in SpikesOf(t) : \E k \in 1 .. Len(new) : new[k] = x
<1> DEFINE S == SpikesOf(t)
           b == EarlierIn(SpikesOf(t))
           n == Cardinality(S)
           new == NewSpikes(t)
<1>1. IsFiniteSet(S) /\ n \in Nat
  BY SpikesOfTick, FS_CardinalityType
<1>2. IsOrder(S, b)
  BY SpikesOrdered
<1>3. new = [k \in 1 .. n |-> CHOOSE x \in S : Cardinality({y \in S : SpikeBefore(y, x)}) = k - 1]
  BY DEF NewSpikes, SpikesOf, InOrder, Rank
<1>4. \A x \in S : b[x] = {y \in S : SpikeBefore(y, x)}
  BY DEF EarlierIn
<1> HIDE DEF S, b, new
<1>5. ASSUME NEW k \in 1 .. n
      PROVE  new[k] \in S /\ Cardinality(b[new[k]]) = k - 1
  <2>1. k - 1 \in 0 .. n - 1
    BY <1>1
  <2>2. \E x \in S : Cardinality(b[x]) = k - 1
    BY ONLY <1>1, <1>2, <2>1, RankTaken
  <2>3. \E x \in S : Cardinality({y \in S : SpikeBefore(y, x)}) = k - 1
    BY <1>4, <2>2
  <2>4. new[k] = CHOOSE x \in S : Cardinality({y \in S : SpikeBefore(y, x)}) = k - 1
    BY <1>3
  <2>5. new[k] \in S /\ Cardinality({y \in S : SpikeBefore(y, new[k])}) = k - 1
    BY <2>3, <2>4
  <2> QED BY <1>4, <2>5
<1> HIDE DEF n
<1>6. new \in [1 .. n -> S]
  BY <1>3, <1>5
<1>7. new \in Seq(S) /\ Len(new) = n
  BY <1>1, <1>6, FunctionIsSequence
<1>8. ASSUME NEW k \in 1 .. n, NEW l \in 1 .. n, new[k] = new[l]
      PROVE  k = l
  <2>1. k - 1 = l - 1
    BY <1>5, <1>8
  <2> QED BY <1>1, <2>1
<1>9. ASSUME NEW x \in S
      PROVE  \E k \in 1 .. n : new[k] = x
  <2> DEFINE k == Cardinality(b[x]) + 1
  <2>1. Cardinality(b[x]) \in 0 .. n - 1
    BY <1>1, <1>2, RankGrows DEF n
  <2>2. k \in 1 .. n /\ k - 1 = Cardinality(b[x])
    BY <1>1, <2>1
  <2> HIDE DEF k
  <2>3. new[k] \in S /\ Cardinality(b[new[k]]) = Cardinality(b[x])
    BY <1>5, <2>2
  <2>4. new[k] = x
    BY <1>1, <1>2, <2>3, RankGrows
  <2> QED BY <2>2, <2>4
<1> QED BY <1>7, <1>8, <1>9 DEF S, new

-----------------------------------------------------------------------------
(* The steps. *)

\* Nothing is held at the start.
LEMMA InitTime == Init => TimeInv
BY ReferenceAssumption DEF Init, TimeInv, DueAfter, EmptyBag, SetToBag

\* inject refuses an event of a processed tick.
LEMMA InjectKeepsTime ==
    ASSUME TimeInv, NEW events \in EventLists, Inject(events)
    PROVE  TimeInv'
<1>1. DueAfter(InputBag(events), last_processed_tick)
  <2>1. \A x \in DOMAIN InputBag(events) :
            \E i \in DOMAIN events : x.timestamp = events[i].timestamp
    BY DEF InputBag, BagOf
  <2>2. \A i \in DOMAIN events :
            events[i].timestamp \in Nat /\ events[i].timestamp > last_processed_tick
    BY ReferenceAssumption DEF Inject
  <2> QED BY <2>1, <2>2 DEF DueAfter
<1>2. DueAfter(input_events (+) InputBag(events), last_processed_tick)
  BY <1>1, SumDueAfter DEF TimeInv
<1> QED BY <1>2 DEF Inject, TimeInv

\* A tick takes what is due in it, and its results are due later.
LEMMA ProcessTickKeepsTime ==
    ASSUME TimeInv, NEW t \in Nat, ProcessTick(t)
    PROVE  TimeInv'
<1>1. /\ DueAfter(NotAt(input_events, t), t)
      /\ DueAfter(NotAt(routed_packets, t), t)
      /\ DueAfter(NotAt(delayed_contributions, t), t)
  BY RestDueAfter DEF TimeInv, ProcessTick, Pending
<1>2. DueAfter(NotAt(routed_packets, t) (+) NewPackets(t), t)
  BY <1>1, NewPacketsDueAfter, SumDueAfter
<1>3. DueAfter(NotAt(delayed_contributions, t) (+) NewlyDelayed(t), t)
  BY <1>1, NewlyDelayedDueAfter, SumDueAfter
<1>4. ASSUME NEW c \in Cores, NEW n \in DOMAIN Params[c]
      PROVE  neuron'[c][n].last_update_tick \in 0 .. t \cup {0}
  <2>1. neuron'[c][n] = IF n \in Affected(t, c) THEN Update(t, c, n).state ELSE neuron[c][n]
    BY DEF ProcessTick
  <2>2. neuron[c][n].last_update_tick \in 0 .. last_processed_tick \cup {0}
    BY DEF TimeInv
  <2>3. last_processed_tick \in Nat \cup {-1} /\ t > last_processed_tick
    BY DEF TimeInv, ProcessTick
  <2> QED BY <2>1, <2>2, <2>3, UpdateStamps
<1> QED BY <1>1, <1>2, <1>3, <1>4 DEF ProcessTick, TimeInv

\* Nothing pending is ever late, and no neuron is stamped with a later tick.
THEOREM NeverOverdue == Spec => []NothingOverdue
<1>1. TimeInv /\ [Next]_vars => TimeInv'
  <2> SUFFICES ASSUME TimeInv, [Next]_vars
               PROVE  TimeInv'
    OBVIOUS
  <2>1. ASSUME NEW events \in EventLists, Inject(events)
        PROVE  TimeInv'
    BY <2>1, InjectKeepsTime
  <2>2. ASSUME NEW t \in 0 .. TickLimit - 1, ProcessTick(t)
        PROVE  TimeInv'
    BY <2>2, ProcessTickKeepsTime
  <2>3. CASE UNCHANGED vars
    BY <2>3 DEF vars, TimeInv, DueAfter
  <2> QED BY <2>1, <2>2, <2>3 DEF Next
<1>2. TimeInv => NothingOverdue
  BY DEF TimeInv, NothingOverdue, Pending, DueAfter
<1> QED BY <1>1, <1>2, InitTime, PTL DEF Spec
-----------------------------------------------------------------------------
(* What the spikes send. *)

\* A recorded spike is one of a neuron of the program.
SpikeRecord ==
    {x \in [tick : Nat, core : Cores, neuron : Nat] : x.neuron \in DOMAIN Params[x.core]}

\* The routes the spikes of s use, and the packet each use sends.
UsesOf(s) ==
    UNION {{<<i, r>> : r \in DOMAIN Routes[s[i].core][s[i].neuron]} : i \in DOMAIN s}
SentOf(s) ==
    [u \in UsesOf(s) |->
        [timestamp |-> s[u[1]].tick + 1,
         core |-> Routes[s[u[1]].core][s[u[1]].neuron][u[2]].core,
         axon |-> Routes[s[u[1]].core][s[u[1]].neuron][u[2]].axon,
         source |-> s[u[1]].core, neuron |-> s[u[1]].neuron]]

\* The packets emitted so far are those the recorded spikes send.
PacketInv ==
    /\ spikes \in Seq(SpikeRecord)
    /\ packets = ValuesOf(SentOf(spikes), UsesOf(spikes))

\* PacketInv is PacketsMatchSpikes for records of the program's neurons.
LEMMA PacketInvMatches == PacketInv => PacketsMatchSpikes
<1> SUFFICES ASSUME PacketInv PROVE PacketsMatchSpikes
  OBVIOUS
<1> DEFINE uses == UsesOf(spikes)
           sent(u) == [timestamp |-> spikes[u[1]].tick + 1,
                       core |-> Routes[spikes[u[1]].core][spikes[u[1]].neuron][u[2]].core,
                       axon |-> Routes[spikes[u[1]].core][spikes[u[1]].neuron][u[2]].axon,
                       source |-> spikes[u[1]].core, neuron |-> spikes[u[1]].neuron]
<1>1. \A u \in uses : SentOf(spikes)[u] = sent(u)
  BY DEF SentOf
<1>2. packets = [v \in {sent(u) : u \in uses} |-> Cardinality({u \in uses : sent(u) = v})]
  <2>1. packets = ValuesOf(SentOf(spikes), uses)
    BY DEF PacketInv
  <2>2. {SentOf(spikes)[u] : u \in uses} = {sent(u) : u \in uses}
    <3> HIDE DEF uses, sent
    <3>1. ASSUME NEW v
          PROVE  v \in {SentOf(spikes)[u] : u \in uses} <=> v \in {sent(u) : u \in uses}
      BY <1>1
    <3> QED BY <3>1
  <2>3. ASSUME NEW v
        PROVE  {u \in uses : SentOf(spikes)[u] = v} = {u \in uses : sent(u) = v}
    BY <1>1
  <2> HIDE DEF uses, sent
  <2> QED BY <2>1, <2>2, <2>3 DEF ValuesOf
<1> QED BY <1>2 DEF PacketsMatchSpikes, UsesOf, BagOf

\* Finitely many spikes use finitely many routes.
LEMMA UsesFinite ==
    ASSUME NEW s \in Seq(SpikeRecord)
    PROVE  IsFiniteSet(UsesOf(s))
<1> DEFINE of(i) == {<<i, r>> : r \in DOMAIN Routes[s[i].core][s[i].neuron]}
           parts == {of(i) : i \in DOMAIN s}
<1>1. IsFiniteSet(DOMAIN s)
  <2>1. DOMAIN s = 1 .. Len(s) /\ Len(s) \in Nat
    OBVIOUS
  <2>2. IsFiniteSet(1 .. Len(s))
    BY <2>1, FS_Interval
  <2> QED BY <2>1, <2>2
<1>2. ASSUME NEW i \in DOMAIN s
      PROVE  IsFiniteSet(of(i))
  <2> DEFINE R == DOMAIN Routes[s[i].core][s[i].neuron]
             use == [r \in R |-> <<i, r>>]
  <2>1. s[i] \in SpikeRecord
    OBVIOUS
  <2>2. IsFiniteSet(R)
    BY <2>1, ReferenceAssumption DEF SpikeRecord
  <2>3. \A y \in of(i) : \E r \in R : y = use[r]
    OBVIOUS
  <2> HIDE DEF R, use, of
  <2> QED BY <2>2, <2>3, ImageBound
<1>3. IsFiniteSet(parts)
  <2> DEFINE f == [i \in DOMAIN s |-> of(i)]
  <2>1. \A y \in parts : \E i \in DOMAIN s : y = f[i]
    OBVIOUS
  <2> HIDE DEF f, parts
  <2> QED BY <1>1, <2>1, ImageBound
<1>4. IsFiniteSet(UNION parts)
  <2>1. \A T \in parts : IsFiniteSet(T)
    BY <1>2
  <2> HIDE DEF parts
  <2> QED BY <1>3, <2>1, FS_UNION
<1> QED BY <1>4 DEF UsesOf

\* The spikes recorded at t send the packets the tick emits, on top of what the spikes
\* before them sent.
LEMMA SentByTick ==
    ASSUME NEW t \in Nat, NEW old \in Seq(SpikeRecord)
    PROVE  LET all == old \o NewSpikes(t)
           IN  /\ all \in Seq(SpikeRecord)
               /\ ValuesOf(SentOf(all), UsesOf(all))
                    = ValuesOf(SentOf(old), UsesOf(old)) (+) NewPackets(t)
<1> DEFINE new == NewSpikes(t)
           all == old \o new
           m == Len(old)
           n == Len(new)
           before == UsesOf(old)
           later == {u \in UsesOf(all) : u[1] > m}
           emitted == UNION {UNION {{<<c, k, r>> : r \in DOMAIN Routes[c][k]} :
                                       k \in Fired(t, c)} : c \in Cores}
           packet == [e \in emitted |->
                        [timestamp |-> t + 1, core |-> Routes[e[1]][e[2]][e[3]].core,
                         axon |-> Routes[e[1]][e[2]][e[3]].axon,
                         source |-> e[1], neuron |-> e[2]]]
<1>1. /\ new \in Seq(SpikesOf(t))
      /\ \A k, l \in 1 .. n : new[k] = new[l] => k = l
      /\ \A x \in SpikesOf(t) : \E k \in 1 .. n : new[k] = x
  BY NewSpikesOnce
<1>2. SpikesOf(t) \subseteq SpikeRecord
  <2> SUFFICES ASSUME NEW x \in SpikesOf(t) PROVE x \in SpikeRecord
    OBVIOUS
  <2>1. /\ x.core \in Cores /\ x.neuron \in DOMAIN Params[x.core]
        /\ x = [tick |-> t, core |-> x.core, neuron |-> x.neuron]
    BY SpikesOfTick
  <2>2. x.neuron \in Nat
    BY <2>1, ReferenceAssumption
  <2> QED BY <2>1, <2>2 DEF SpikeRecord
<1> HIDE DEF new
<1>3. /\ m \in Nat /\ n \in Nat
      /\ all \in Seq(SpikeRecord) /\ Len(all) = m + n
      /\ DOMAIN old = 1 .. m /\ DOMAIN all = 1 .. m + n
      /\ \A i \in 1 .. m : all[i] = old[i]
      /\ \A k \in 1 .. n : all[m + k] = new[k]
  <2>1. new \in Seq(SpikeRecord)
    BY <1>1, <1>2
  <2> QED BY <2>1
<1> HIDE DEF all, m, n
<1>4. ASSUME NEW s, NEW u
      PROVE  u \in UsesOf(s) <=>
               /\ u = <<u[1], u[2]>> /\ u[1] \in DOMAIN s
               /\ u[2] \in DOMAIN Routes[s[u[1]].core][s[u[1]].neuron]
  BY DEF UsesOf
<1>5. UsesOf(all) = before \cup later
  <2>1. ASSUME NEW u \in before
        PROVE  u \in UsesOf(all)
    <3>1. u = <<u[1], u[2]>> /\ u[1] \in 1 .. m
          /\ u[2] \in DOMAIN Routes[old[u[1]].core][old[u[1]].neuron]
      BY <1>3, <1>4
    <3>2. u[1] \in 1 .. m + n /\ all[u[1]] = old[u[1]]
      BY <1>3, <3>1
    <3> QED BY <1>3, <1>4, <3>1, <3>2
  <2>2. ASSUME NEW u \in UsesOf(all), ~(u[1] > m)
        PROVE  u \in before
    <3>1. u = <<u[1], u[2]>> /\ u[1] \in 1 .. m + n
          /\ u[2] \in DOMAIN Routes[all[u[1]].core][all[u[1]].neuron]
      BY <1>3, <1>4
    <3>2. u[1] \in 1 .. m /\ all[u[1]] = old[u[1]]
      BY <1>3, <2>2, <3>1
    <3> QED BY <1>3, <1>4, <3>1, <3>2
  <2> HIDE DEF before
  <2> QED BY <2>1, <2>2
<1>6. before \cap later = {}
  <2> SUFFICES ASSUME NEW u \in before PROVE ~(u[1] > m)
    OBVIOUS
  <2>1. u[1] \in 1 .. m
    BY <1>3, <1>4
  <2> QED BY <1>3, <2>1
<1>7. IsFiniteSet(before) /\ IsFiniteSet(later)
  <2>1. IsFiniteSet(UsesOf(all)) /\ IsFiniteSet(before)
    BY <1>3, UsesFinite
  <2> QED BY <2>1, FS_Subset
<1>8. ValuesOf(SentOf(all), before) = ValuesOf(SentOf(old), before)
  <2>1. ASSUME NEW u \in before
        PROVE  SentOf(all)[u] = SentOf(old)[u]
    <3>1. u \in UsesOf(all)
      BY <1>5
    <3>2. all[u[1]] = old[u[1]]
      BY <1>3, <1>4
    <3> QED BY <3>1, <3>2 DEF SentOf
  <2> HIDE DEF before
  <2> QED BY <2>1 DEF ValuesOf
<1>9. ValuesOf(SentOf(all), later) = ValuesOf(packet, emitted)
  <2> DEFINE name == [u \in later |-> <<all[u[1]].core, all[u[1]].neuron, u[2]>>]
  <2>1. ASSUME NEW u \in later
        PROVE  \E k \in 1 .. n :
                 /\ u = <<m + k, u[2]>> /\ all[u[1]] = new[k] /\ new[k] \in SpikesOf(t)
                 /\ u[2] \in DOMAIN Routes[new[k].core][new[k].neuron]
    <3>1. u = <<u[1], u[2]>> /\ u[1] \in 1 .. m + n /\ u[1] > m
          /\ u[2] \in DOMAIN Routes[all[u[1]].core][all[u[1]].neuron]
      BY <1>3, <1>4
    <3>2. u[1] - m \in 1 .. n /\ u[1] = m + (u[1] - m)
      BY <1>3, <3>1
    <3>3. all[u[1]] = new[u[1] - m] /\ new[u[1] - m] \in SpikesOf(t)
      <4>1. all[m + (u[1] - m)] = new[u[1] - m]
        BY <1>3, <3>2
      <4>2. new[u[1] - m] \in SpikesOf(t)
        BY <1>1, <3>2 DEF n
      <4> QED BY <3>2, <4>1, <4>2
    <3> QED BY <3>1, <3>2, <3>3
  <2>2. ASSUME NEW u \in later
        PROVE  /\ name[u] \in emitted /\ SentOf(all)[u] = packet[name[u]]
    <3>1. PICK k \in 1 .. n :
                 /\ u = <<m + k, u[2]>> /\ all[u[1]] = new[k] /\ new[k] \in SpikesOf(t)
                 /\ u[2] \in DOMAIN Routes[new[k].core][new[k].neuron]
      BY <2>1
    <3> DEFINE c == new[k].core
               j == new[k].neuron
    <3>2. c \in Cores /\ j \in Fired(t, c) /\ new[k].tick = t
      BY <3>1, SpikesOfTick
    <3>3. name[u] = <<c, j, u[2]>>
      BY <3>1
    <3>4. <<c, j, u[2]>> \in emitted
      BY <3>1, <3>2
    <3>5. packet[name[u]] = [timestamp |-> t + 1, core |-> Routes[c][j][u[2]].core,
                             axon |-> Routes[c][j][u[2]].axon, source |-> c, neuron |-> j]
      <4> HIDE DEF emitted, c, j
      <4> QED BY <3>3, <3>4
    <3>6. SentOf(all)[u] = [timestamp |-> t + 1, core |-> Routes[c][j][u[2]].core,
                            axon |-> Routes[c][j][u[2]].axon, source |-> c, neuron |-> j]
      BY <3>1, <3>2 DEF SentOf
    <3> QED BY <3>3, <3>4, <3>5, <3>6
  <2>3. ASSUME NEW u \in later, NEW v \in later, name[u] = name[v]
        PROVE  u = v
    <3>1. PICK k \in 1 .. n : u = <<m + k, u[2]>> /\ all[u[1]] = new[k] /\ new[k] \in SpikesOf(t)
      BY <2>1
    <3>2. PICK l \in 1 .. n : v = <<m + l, v[2]>> /\ all[v[1]] = new[l] /\ new[l] \in SpikesOf(t)
      BY <2>1
    <3>3. new[k].core = new[l].core /\ new[k].neuron = new[l].neuron /\ u[2] = v[2]
      BY <2>3, <3>1, <3>2
    <3>4. new[k] = new[l]
      BY <3>1, <3>2, <3>3, SpikesOfTick
    <3>5. k = l
      BY <1>1, <3>4
    <3> QED BY <3>1, <3>2, <3>3, <3>5
  <2>4. ASSUME NEW e \in emitted
        PROVE  \E u \in later : name[u] = e
    <3>1. PICK c \in Cores : \E j \in Fired(t, c) : \E r \in DOMAIN Routes[c][j] : e = <<c, j, r>>
      OBVIOUS
    <3>2. PICK j \in Fired(t, c) : \E r \in DOMAIN Routes[c][j] : e = <<c, j, r>>
      BY <3>1
    <3>3. PICK r \in DOMAIN Routes[c][j] : e = <<c, j, r>>
      BY <3>2
    <3>4. PICK k \in 1 .. n : new[k] = [tick |-> t, core |-> c, neuron |-> j]
      BY <1>1, SpikesOfTick
    <3> DEFINE i == m + k
               u == <<i, r>>
    <3>5. i \in 1 .. m + n /\ i > m /\ all[i] = new[k]
      BY <1>3
    <3> HIDE DEF i
    <3>6. u \in UsesOf(all)
      BY <1>3, <3>3, <3>4, <3>5 DEF UsesOf
    <3>7. u \in later /\ name[u] = e
      BY <3>3, <3>4, <3>5, <3>6
    <3> QED BY <3>7
  <2> HIDE DEF later, emitted, packet
  <2>5. /\ name \in [later -> emitted]
        /\ \A u, v \in later : name[u] = name[v] => u = v
        /\ \A e \in emitted : \E u \in later : name[u] = e
        /\ \A u \in later : SentOf(all)[u] = packet[name[u]]
    BY <2>2, <2>3, <2>4
  <2> HIDE DEF name
  <2>6. name \in Bijection(later, emitted)
    BY <2>5 DEF Bijection, Injection, Surjection, IsInjective
  <2> QED BY <1>7, <2>5, <2>6, ValuesOfRenamed
<1>10. NewPackets(t) = ValuesOf(packet, emitted)
  <2> DEFINE sent(e) == [timestamp |-> t + 1, core |-> Routes[e[1]][e[2]][e[3]].core,
                         axon |-> Routes[e[1]][e[2]][e[3]].axon,
                         source |-> e[1], neuron |-> e[2]]
  <2>1. NewPackets(t)
          = [v \in {sent(e) : e \in emitted} |-> Cardinality({e \in emitted : sent(e) = v})]
    BY DEF NewPackets, BagOf
  <2>2. \A e \in emitted : packet[e] = sent(e)
    OBVIOUS
  <2> HIDE DEF emitted, packet, sent
  <2>3. {packet[e] : e \in emitted} = {sent(e) : e \in emitted}
    <3>1. ASSUME NEW v
          PROVE  v \in {packet[e] : e \in emitted} <=> v \in {sent(e) : e \in emitted}
      BY <2>2
    <3> QED BY <3>1
  <2>4. ASSUME NEW v
        PROVE  {e \in emitted : packet[e] = v} = {e \in emitted : sent(e) = v}
    BY <2>2
  <2> QED BY <2>1, <2>3, <2>4 DEF ValuesOf
<1>11. ValuesOf(SentOf(all), UsesOf(all))
         = ValuesOf(SentOf(all), before) (+) ValuesOf(SentOf(all), later)
  <2> HIDE DEF before, later
  <2> QED BY <1>5, <1>6, <1>7, ValuesOfUnion
<1>12. ValuesOf(SentOf(all), UsesOf(all)) = ValuesOf(SentOf(old), UsesOf(old)) (+) NewPackets(t)
  BY <1>8, <1>9, <1>10, <1>11
<1> QED BY <1>3, <1>12 DEF all, new
\* No spike, no packet.
LEMMA InitPackets == Init => PacketInv
<1> SUFFICES ASSUME Init PROVE PacketInv
  OBVIOUS
<1>1. spikes = <<>> /\ packets = [e \in {} |-> 1]
  BY DEF Init, EmptyBag, SetToBag
<1>2. UsesOf(spikes) = {}
  BY <1>1 DEF UsesOf
<1>3. DOMAIN ValuesOf(SentOf(spikes), UsesOf(spikes)) = {}
  BY <1>2 DEF ValuesOf
<1>4. ValuesOf(SentOf(spikes), UsesOf(spikes)) = [e \in {} |-> 1]
  BY <1>2 DEF ValuesOf
<1> QED BY <1>1, <1>4 DEF PacketInv

\* The packets of the oracle are those its spikes send: routing neither loses a packet nor
\* makes one of its own, whatever the ticks, the fan-outs and the routes are.
THEOREM PacketsFollowSpikes == Spec => []PacketsMatchSpikes
<1>1. PacketInv /\ [Next]_vars => PacketInv'
  <2> SUFFICES ASSUME PacketInv, [Next]_vars
               PROVE  PacketInv'
    OBVIOUS
  <2>1. ASSUME NEW events \in EventLists, Inject(events)
        PROVE  PacketInv'
    BY <2>1 DEF Inject, PacketInv
  <2>2. ASSUME NEW t \in 0 .. TickLimit - 1, ProcessTick(t)
        PROVE  PacketInv'
    <3>1. t \in Nat /\ spikes \in Seq(SpikeRecord)
      BY DEF PacketInv
    <3>2. /\ spikes' = spikes \o NewSpikes(t)
          /\ packets' = packets (+) NewPackets(t)
      BY <2>2 DEF ProcessTick
    <3>3. /\ spikes' \in Seq(SpikeRecord)
          /\ ValuesOf(SentOf(spikes'), UsesOf(spikes'))
               = ValuesOf(SentOf(spikes), UsesOf(spikes)) (+) NewPackets(t)
      BY <3>1, <3>2, SentByTick
    <3> QED BY <3>2, <3>3 DEF PacketInv
  <2>3. CASE UNCHANGED vars
    BY <2>3 DEF vars, PacketInv
  <2> QED BY <2>1, <2>2, <2>3 DEF Next
<1> QED BY <1>1, InitPackets, PacketInvMatches, PTL DEF Spec
-----------------------------------------------------------------------------
(* One tick as a function of what is due in it: i, r and d are the parts   *)
(* of the three queues that belong to the tick, N the neurons.             *)

ArrivalsOf(i, r, c, a) ==
    MapThenSumSet(LAMBDA x : i[x], {x \in DOMAIN i : x.core = c /\ x.axon = a})
    + MapThenSumSet(LAMBDA x : r[x], {x \in DOMAIN r : x.core = c /\ x.axon = a})
TraversalsOf(i, r) ==
    UNION {UNION {{<<c, a, k>> : k \in DOMAIN Fanout[c][a]} :
                     a \in {b \in DOMAIN Fanout[c] : ArrivalsOf(i, r, c, b) > 0}} : c \in Cores}
DelayedAt(d, c, n) == {x \in DOMAIN d : x.core = c /\ x.target = n}
TraversedAt(i, r, c, n) ==
    {x \in TraversalsOf(i, r) : x[1] = c /\ SynapseAt(x).target = n /\ SynapseAt(x).delay = 0}
AffectedOf(i, r, d, c) ==
    {n \in DOMAIN Params[c] : DelayedAt(d, c, n) # {} \/ TraversedAt(i, r, c, n) # {}}
WideSumOf(i, r, d, c, n) ==
    MapThenSumSet(LAMBDA x : x.weight * d[x], DelayedAt(d, c, n))
    + MapThenSumSet(LAMBDA x : SynapseAt(x).weight * ArrivalsOf(i, r, x[1], x[2]),
                    TraversedAt(i, r, c, n))
LateOf(i, r) == {x \in TraversalsOf(i, r) : SynapseAt(x).delay > 0}
NewlyDelayedOf(i, r, t) ==
    [e \in {Delayed(t, x) : x \in LateOf(i, r)} |->
        MapThenSumSet(LAMBDA x : ArrivalsOf(i, r, x[1], x[2]),
                      {x \in LateOf(i, r) : Delayed(t, x) = e})]
UpdateOf(i, r, d, N, t, c, n) ==
    update_neuron(Params[c][n], N[c][n], WideSumOf(i, r, d, c, n), t)
FiredOf(i, r, d, N, t, c) ==
    {n \in AffectedOf(i, r, d, c) : UpdateOf(i, r, d, N, t, c, n).spike}
NewSpikesOf(i, r, d, N, t) ==
    InOrder(UNION {{[tick |-> t, core |-> c, neuron |-> n] : n \in FiredOf(i, r, d, N, t, c)} :
                      c \in Cores},
            SpikeBefore)
EmittedOf(i, r, d, N, t) ==
    UNION {UNION {{<<c, n, k>> : k \in DOMAIN Routes[c][n]} : n \in FiredOf(i, r, d, N, t, c)} :
              c \in Cores}
PacketOf(t, x) ==
    [timestamp |-> t + 1, core |-> Routes[x[1]][x[2]][x[3]].core,
     axon |-> Routes[x[1]][x[2]][x[3]].axon, source |-> x[1], neuron |-> x[2]]
NewPacketsOf(i, r, d, N, t) == BagOf(LAMBDA x : PacketOf(t, x), EmittedOf(i, r, d, N, t))
NeuronsOf(i, r, d, N, t) ==
    [c \in Cores |-> [n \in DOMAIN Params[c] |->
        IF n \in AffectedOf(i, r, d, c) THEN UpdateOf(i, r, d, N, t, c, n).state ELSE N[c][n]]]

\* The phases of the machine are these functions.
LEMMA PhasesAre ==
    ASSUME NEW t
    PROVE  LET i == At(input_events, t)
               r == At(routed_packets, t)
               d == At(delayed_contributions, t)
           IN  /\ Traversals(t) = TraversalsOf(i, r)
               /\ NewlyDelayed(t) = NewlyDelayedOf(i, r, t)
               /\ \A c : Affected(t, c) = AffectedOf(i, r, d, c)
               /\ \A c, n : Update(t, c, n) = UpdateOf(i, r, d, neuron, t, c, n)
               /\ \A c : Fired(t, c) = FiredOf(i, r, d, neuron, t, c)
               /\ NewSpikes(t) = NewSpikesOf(i, r, d, neuron, t)
               /\ NewPackets(t) = NewPacketsOf(i, r, d, neuron, t)
<1> DEFINE i == At(input_events, t)
           r == At(routed_packets, t)
           d == At(delayed_contributions, t)
<1>1. \A c, a : Arrivals(t, c, a) = ArrivalsOf(i, r, c, a)
  BY DEF Arrivals, ArrivalsOf, MapThenSumSet, MapThenFoldSet
<1>2. Traversals(t) = TraversalsOf(i, r)
  BY DEF Traversals, TraversalsOf, Arrivals, ArrivalsOf, MapThenSumSet, MapThenFoldSet
<1>3. NewlyDelayed(t) = NewlyDelayedOf(i, r, t)
  BY DEF NewlyDelayed, NewlyDelayedOf, LateOf, Traversals, TraversalsOf, Arrivals, ArrivalsOf,
         MapThenSumSet, MapThenFoldSet
<1>4. ASSUME NEW c, NEW n
      PROVE  /\ DueDelayed(t, c, n) = DelayedAt(d, c, n)
             /\ DueTraversed(t, c, n) = TraversedAt(i, r, c, n)
             /\ WideSum(t, c, n) = WideSumOf(i, r, d, c, n)
  <2>1. DueDelayed(t, c, n) = DelayedAt(d, c, n)
    BY DEF DueDelayed, DelayedAt
  <2>2. DueTraversed(t, c, n) = TraversedAt(i, r, c, n)
    BY <1>2 DEF DueTraversed, TraversedAt
  <2>3. WideSum(t, c, n) = WideSumOf(i, r, d, c, n)
    BY DEF WideSum, WideSumOf, DueDelayed, DelayedAt, DueTraversed, TraversedAt, Traversals,
           TraversalsOf, Arrivals, ArrivalsOf, MapThenSumSet, MapThenFoldSet
  <2> QED BY <2>1, <2>2, <2>3
<1>5. \A c : Affected(t, c) = AffectedOf(i, r, d, c)
  BY <1>4 DEF Affected, AffectedOf
<1>6. \A c, n : Update(t, c, n) = UpdateOf(i, r, d, neuron, t, c, n)
  BY <1>4 DEF Update, UpdateOf
<1>7. \A c : Fired(t, c) = FiredOf(i, r, d, neuron, t, c)
  BY <1>5, <1>6 DEF Fired, FiredOf
<1>8. NewSpikes(t) = NewSpikesOf(i, r, d, neuron, t)
  BY <1>7 DEF NewSpikes, NewSpikesOf
<1>9. NewPackets(t) = NewPacketsOf(i, r, d, neuron, t)
  <2> DEFINE E == UNION {UNION {{<<c, n, k>> : k \in DOMAIN Routes[c][n]} :
                                  n \in Fired(t, c)} : c \in Cores}
             F == EmittedOf(i, r, d, neuron, t)
             bag(S) == [v \in {PacketOf(t, x) : x \in S} |->
                          Cardinality({x \in S : PacketOf(t, x) = v})]
  <2>1. E = F
    BY <1>7 DEF EmittedOf
  <2>2. NewPackets(t) = bag(E) /\ NewPacketsOf(i, r, d, neuron, t) = bag(F)
    BY DEF NewPackets, NewPacketsOf, PacketOf, BagOf
  <2> HIDE DEF E, F, bag
  <2> QED BY <2>1, <2>2
<1> QED BY <1>2, <1>3, <1>5, <1>6, <1>7, <1>8, <1>9
\* So are those of the batch machine.
LEMMA BatchPhasesAre ==
    ASSUME NEW t
    PROVE  LET i == Batch!At(b_input_events, t)
               r == Batch!At(b_routed_packets, t)
               d == Batch!At(b_delayed_contributions, t)
           IN  /\ Batch!Traversals(t) = TraversalsOf(i, r)
               /\ Batch!NewlyDelayed(t) = NewlyDelayedOf(i, r, t)
               /\ \A c : Batch!Affected(t, c) = AffectedOf(i, r, d, c)
               /\ \A c, n : Batch!Update(t, c, n) = UpdateOf(i, r, d, b_neuron, t, c, n)
               /\ \A c : Batch!Fired(t, c) = FiredOf(i, r, d, b_neuron, t, c)
               /\ Batch!NewSpikes(t) = NewSpikesOf(i, r, d, b_neuron, t)
               /\ Batch!NewPackets(t) = NewPacketsOf(i, r, d, b_neuron, t)
<1> DEFINE i == Batch!At(b_input_events, t)
           r == Batch!At(b_routed_packets, t)
           d == Batch!At(b_delayed_contributions, t)
<1>1. \A c, a : Batch!Arrivals(t, c, a) = ArrivalsOf(i, r, c, a)
  BY DEF Batch!Arrivals, ArrivalsOf, MapThenSumSet, MapThenFoldSet, Batch!MapThenSumSet,
         Batch!MapThenFoldSet, Cores, Batch!Cores, SynapseAt, Batch!SynapseAt, Delayed, Batch!Delayed
<1>2. Batch!Traversals(t) = TraversalsOf(i, r)
  BY DEF Batch!Traversals, TraversalsOf, Batch!Arrivals, ArrivalsOf, MapThenSumSet, MapThenFoldSet, Batch!MapThenSumSet,
         Batch!MapThenFoldSet, Cores, Batch!Cores, SynapseAt, Batch!SynapseAt, Delayed, Batch!Delayed
<1>3. Batch!NewlyDelayed(t) = NewlyDelayedOf(i, r, t)
  BY DEF Batch!NewlyDelayed, NewlyDelayedOf, LateOf, Batch!Traversals, TraversalsOf, Batch!Arrivals, ArrivalsOf,
         MapThenSumSet, MapThenFoldSet, Batch!MapThenSumSet,
         Batch!MapThenFoldSet, Cores, Batch!Cores, SynapseAt, Batch!SynapseAt, Delayed, Batch!Delayed
<1>4. ASSUME NEW c, NEW n
      PROVE  /\ Batch!DueDelayed(t, c, n) = DelayedAt(d, c, n)
             /\ Batch!DueTraversed(t, c, n) = TraversedAt(i, r, c, n)
             /\ Batch!WideSum(t, c, n) = WideSumOf(i, r, d, c, n)
  <2>1. Batch!DueDelayed(t, c, n) = DelayedAt(d, c, n)
    BY DEF Batch!DueDelayed, DelayedAt
  <2>2. Batch!DueTraversed(t, c, n) = TraversedAt(i, r, c, n)
    BY <1>2 DEF Batch!DueTraversed, TraversedAt, SynapseAt, Batch!SynapseAt
  <2>3. Batch!WideSum(t, c, n) = WideSumOf(i, r, d, c, n)
    BY DEF Batch!WideSum, WideSumOf, Batch!DueDelayed, DelayedAt, Batch!DueTraversed, TraversedAt, Batch!Traversals,
           TraversalsOf, Batch!Arrivals, ArrivalsOf, MapThenSumSet, MapThenFoldSet, Batch!MapThenSumSet,
         Batch!MapThenFoldSet, Cores, Batch!Cores, SynapseAt, Batch!SynapseAt, Delayed, Batch!Delayed
  <2> QED BY <2>1, <2>2, <2>3
<1>5. \A c : Batch!Affected(t, c) = AffectedOf(i, r, d, c)
  BY <1>4 DEF Batch!Affected, AffectedOf
<1>6. \A c, n : Batch!Update(t, c, n) = UpdateOf(i, r, d, b_neuron, t, c, n)
  <2>1. \A p, s, acc, u : Batch!update_neuron(p, s, acc, u) = update_neuron(p, s, acc, u)
    BY DEF update_neuron, Batch!update_neuron, narrow_to_format, Batch!narrow_to_format,
           move_toward_zero, Batch!move_toward_zero
  <2> QED BY <1>4, <2>1 DEF Batch!Update, UpdateOf
<1>7. \A c : Batch!Fired(t, c) = FiredOf(i, r, d, b_neuron, t, c)
  BY <1>5, <1>6 DEF Batch!Fired, FiredOf
<1>8. Batch!NewSpikes(t) = NewSpikesOf(i, r, d, b_neuron, t)
  <2> DEFINE S == UNION {{[tick |-> t, core |-> c, neuron |-> n] : n \in Batch!Fired(t, c)} :
                           c \in Cores}
             T == UNION {{[tick |-> t, core |-> c, neuron |-> n] :
                            n \in FiredOf(i, r, d, b_neuron, t, c)} : c \in Cores}
             list(X) == InOrder(X, SpikeBefore)
  <2>1. S = T
    BY <1>7
  <2>2. Batch!NewSpikes(t) = list(S) /\ NewSpikesOf(i, r, d, b_neuron, t) = list(T)
    BY DEF Batch!NewSpikes, NewSpikesOf, InOrder, Batch!InOrder, Rank, Batch!Rank, SpikeBefore,
           Batch!SpikeBefore, Cardinality, Batch!Cardinality, Cores, Batch!Cores
  <2> HIDE DEF S, T, list
  <2> QED BY <2>1, <2>2
<1>9. Batch!NewPackets(t) = NewPacketsOf(i, r, d, b_neuron, t)
  <2> DEFINE E == UNION {UNION {{<<c, n, k>> : k \in DOMAIN Routes[c][n]} :
                                  n \in Batch!Fired(t, c)} : c \in Cores}
             F == EmittedOf(i, r, d, b_neuron, t)
             bag(S) == [v \in {PacketOf(t, x) : x \in S} |->
                          Cardinality({x \in S : PacketOf(t, x) = v})]
  <2>1. E = F
    BY <1>7 DEF EmittedOf
  <2>2. Batch!NewPackets(t) = bag(E) /\ NewPacketsOf(i, r, d, b_neuron, t) = bag(F)
    BY DEF Batch!NewPackets, NewPacketsOf, PacketOf, BagOf, Batch!BagOf, Cardinality,
           Batch!Cardinality, Cores, Batch!Cores
  <2> HIDE DEF E, F, bag
  <2> QED BY <2>1, <2>2
<1> QED BY <1>2, <1>3, <1>5, <1>6, <1>7, <1>8, <1>9
-----------------------------------------------------------------------------
(* Queues: finite bags. *)

IsQueue(B) == IsFiniteSet(DOMAIN B) /\ B \in [DOMAIN B -> Int]

\* A sum of queues is a queue, and one with an empty queue changes nothing.
LEMMA QueueSum ==
    ASSUME NEW A, NEW B, IsQueue(A), IsQueue(B)
    PROVE  /\ IsQueue(A (+) B) /\ DOMAIN (A (+) B) = DOMAIN A \cup DOMAIN B
           /\ DOMAIN B = {} => A (+) B = A
           /\ DOMAIN A = {} => A (+) B = B
<1>1. DOMAIN (A (+) B) = DOMAIN A \cup DOMAIN B
  BY DEF (+)
<1>2. IsFiniteSet(DOMAIN A \cup DOMAIN B)
  BY FS_Union DEF IsQueue
<1>3. A (+) B \in [DOMAIN A \cup DOMAIN B -> Int]
  BY DEF IsQueue, (+)
<1>4. DOMAIN B = {} => A (+) B = A
  BY DEF IsQueue, (+)
<1>5. DOMAIN A = {} => A (+) B = B
  BY DEF IsQueue, (+)
<1> QED BY <1>1, <1>2, <1>3, <1>4, <1>5 DEF IsQueue

\* So is a part of a queue, and what a later event adds does not touch the part of a tick.
LEMMA QueueParts ==
    ASSUME NEW B, IsQueue(B), NEW t
    PROVE  /\ IsQueue(At(B, t)) /\ IsQueue(NotAt(B, t))
           /\ DOMAIN At(B, t) = {x \in DOMAIN B : x.timestamp = t}
           /\ DOMAIN NotAt(B, t) = {x \in DOMAIN B : x.timestamp # t}
           /\ DOMAIN At(B, t) = {} => NotAt(B, t) = B
<1>1. /\ At(B, t) \in [DOMAIN At(B, t) -> Int] /\ NotAt(B, t) \in [DOMAIN NotAt(B, t) -> Int]
      /\ DOMAIN At(B, t) = {x \in DOMAIN B : x.timestamp = t}
      /\ DOMAIN NotAt(B, t) = {x \in DOMAIN B : x.timestamp # t}
  BY DEF IsQueue, At, NotAt
<1>2. IsFiniteSet(DOMAIN At(B, t)) /\ IsFiniteSet(DOMAIN NotAt(B, t))
  BY <1>1, FS_Subset DEF IsQueue
<1>3. ASSUME DOMAIN At(B, t) = {}
      PROVE  NotAt(B, t) = B
  <2>1. DOMAIN NotAt(B, t) = DOMAIN B
    BY <1>1, <1>3
  <2>2. \A x \in DOMAIN NotAt(B, t) : NotAt(B, t)[x] = B[x]
    BY <1>1 DEF NotAt
  <2> QED BY <1>1, <2>1, <2>2 DEF IsQueue
<1> QED BY <1>1, <1>2, <1>3 DEF IsQueue

\* What is added for later ticks leaves the part of a tick alone.
LEMMA LaterApart ==
    ASSUME NEW B, IsQueue(B), NEW E, IsQueue(E), NEW t, \A x \in DOMAIN E : x.timestamp # t
    PROVE  /\ At(B (+) E, t) = At(B, t)
           /\ NotAt(B (+) E, t) = NotAt(B, t) (+) E
<1> DEFINE S == B (+) E
<1>1. /\ DOMAIN S = DOMAIN B \cup DOMAIN E
      /\ \A x \in DOMAIN S : S[x] = (IF x \in DOMAIN B THEN B[x] ELSE 0)
                                     + (IF x \in DOMAIN E THEN E[x] ELSE 0)
  BY DEF (+)
<1> HIDE DEF S
<1>2. {x \in DOMAIN S : x.timestamp = t} = {x \in DOMAIN B : x.timestamp = t}
  BY <1>1
<1>3. \A x \in {x \in DOMAIN B : x.timestamp = t} : S[x] = B[x]
  BY <1>1 DEF IsQueue
<1>4. At(S, t) = At(B, t)
  BY <1>2, <1>3 DEF At
<1> DEFINE R == NotAt(B, t)
<1>5. DOMAIN R = {x \in DOMAIN B : x.timestamp # t} /\ \A x \in DOMAIN R : R[x] = B[x]
  BY DEF NotAt
<1>6. {x \in DOMAIN S : x.timestamp # t} = DOMAIN R \cup DOMAIN E
  BY <1>1, <1>5
<1>7. NotAt(S, t) = [x \in DOMAIN R \cup DOMAIN E |-> S[x]]
  BY <1>6 DEF NotAt
<1>8. R (+) E = [x \in DOMAIN R \cup DOMAIN E |->
                   (IF x \in DOMAIN R THEN R[x] ELSE 0) + (IF x \in DOMAIN E THEN E[x] ELSE 0)]
  BY DEF (+)
<1>9. ASSUME NEW x \in DOMAIN R \cup DOMAIN E
      PROVE  S[x] = (IF x \in DOMAIN R THEN R[x] ELSE 0) + (IF x \in DOMAIN E THEN E[x] ELSE 0)
  <2>1. x \in DOMAIN R <=> x \in DOMAIN B
    BY <1>5
  <2> QED BY <1>1, <1>5, <2>1
<1> HIDE DEF R
<1>10. NotAt(S, t) = R (+) E
  BY <1>7, <1>8, <1>9
<1> QED BY <1>4, <1>10 DEF S, R

EventRecord == [timestamp : Nat, core : Nat, axon : Nat, priority : Nat]

\* A list of events is a queue, and a longer list is the sum of its two parts.
LEMMA InputsAdd ==
    ASSUME NEW s \in Seq(EventRecord), NEW u \in Seq(EventRecord)
    PROVE  /\ IsQueue(InputBag(s)) /\ InputBag(s \o u) = InputBag(s) (+) InputBag(u)
           /\ s = <<>> => DOMAIN InputBag(s) = {}
           /\ \A x \in DOMAIN InputBag(s) : \E k \in DOMAIN s : x.timestamp = s[k].timestamp
<1> DEFINE event(l) == [k \in DOMAIN l |-> [timestamp |-> l[k].timestamp, core |-> l[k].core,
                                            axon |-> l[k].axon]]
<1>1. ASSUME NEW l
      PROVE  InputBag(l) = ValuesOf(event(l), DOMAIN l)
  <2> DEFINE of(k) == [timestamp |-> l[k].timestamp, core |-> l[k].core, axon |-> l[k].axon]
             D == DOMAIN l
             e == event(l)
  <2>1. InputBag(l) = [v \in {of(k) : k \in D} |-> Cardinality({k \in D : of(k) = v})]
    BY DEF InputBag, BagOf
  <2>2. \A k \in D : e[k] = of(k)
    OBVIOUS
  <2> HIDE DEF D, e, of
  <2>3. {of(k) : k \in D} = {e[k] : k \in D}
    <3>1. ASSUME NEW v
          PROVE  v \in {of(k) : k \in D} <=> v \in {e[k] : k \in D}
      BY <2>2
    <3> QED BY <3>1
  <2>4. \A v : {k \in D : of(k) = v} = {k \in D : e[k] = v}
    BY <2>2
  <2>5. InputBag(l) = ValuesOf(e, D)
    BY <2>1, <2>3, <2>4 DEF ValuesOf
  <2> QED BY <2>5 DEF D, e
<1> DEFINE m == Len(s)
           n == Len(u)
           all == s \o u
           f == event(all)
           A == 1 .. m
           B == m + 1 .. m + n
           shift == [k \in B |-> k - m]
<1>2. /\ m \in Nat /\ n \in Nat /\ DOMAIN s = A /\ DOMAIN u = 1 .. n /\ DOMAIN all = 1 .. m + n
      /\ \A k \in A : all[k] = s[k]
      /\ \A k \in B : k - m \in 1 .. n /\ all[k] = u[k - m]
  OBVIOUS
<1> HIDE DEF m, n, all
<1>3. A \cup B = DOMAIN all /\ A \cap B = {} /\ IsFiniteSet(A) /\ IsFiniteSet(B)
  <2>1. IsFiniteSet(1 .. m) /\ IsFiniteSet(m + 1 .. m + n)
    BY <1>2, FS_Interval
  <2>2. DOMAIN all = 1 .. m + n /\ m \in Nat /\ n \in Nat
    BY <1>2
  <2> QED BY <2>1, <2>2
<1>4. /\ \A k \in A : f[k] = event(s)[k]
      /\ \A k \in B : f[k] = event(u)[shift[k]]
  BY <1>2, <1>3
<1>5. shift \in Bijection(B, 1 .. n)
  <2>1. shift \in [B -> 1 .. n] /\ \A k, l \in B : shift[k] = shift[l] => k = l
    BY <1>2
  <2>2. \A y \in 1 .. n : \E k \in B : shift[k] = y
    <3> SUFFICES ASSUME NEW y \in 1 .. n PROVE \E k \in B : shift[k] = y
      OBVIOUS
    <3>1. m + y \in B /\ shift[m + y] = y
      BY <1>2
    <3> QED BY <3>1
  <2> HIDE DEF shift, B
  <2> QED BY <2>1, <2>2 DEF Bijection, Injection, Surjection, IsInjective
<1> HIDE DEF A, B, shift
<1>6. ValuesOf(f, DOMAIN all) = ValuesOf(f, A) (+) ValuesOf(f, B)
  <2> HIDE DEF f
  <2> QED BY <1>3, ValuesOfUnion
<1>7. ValuesOf(f, A) = ValuesOf(event(s), A)
  <2> DEFINE g == event(s)
  <2>1. \A k \in A : f[k] = g[k]
    BY <1>4
  <2> HIDE DEF f, g
  <2>2. ValuesOf(f, A) = ValuesOf(g, A)
    BY <2>1 DEF ValuesOf
  <2> QED BY <2>2 DEF g
<1>8. ValuesOf(f, B) = ValuesOf(event(u), 1 .. n)
  <2> DEFINE g == event(u)
  <2>1. \A k \in B : f[k] = g[shift[k]]
    BY <1>4
  <2> HIDE DEF f, g
  <2>2. ValuesOf(f, B) = ValuesOf(g, 1 .. n)
    BY <1>3, <1>5, <2>1, ValuesOfRenamed
  <2> QED BY <2>2 DEF g
<1>9. InputBag(s \o u) = InputBag(s) (+) InputBag(u)
  BY <1>1, <1>2, <1>6, <1>7, <1>8 DEF all
<1>10. /\ IsQueue(InputBag(s))
       /\ s = <<>> => DOMAIN InputBag(s) = {}
       /\ \A x \in DOMAIN InputBag(s) : \E k \in DOMAIN s : x.timestamp = s[k].timestamp
  <2> DEFINE e == event(s)
  <2>1. InputBag(s) = [v \in {e[k] : k \in A} |-> Cardinality({k \in A : e[k] = v})]
    BY <1>1, <1>2 DEF ValuesOf
  <2>2. \A k \in A : e[k].timestamp = s[k].timestamp
    BY <1>2
  <2> HIDE DEF e
  <2>3. IsFiniteSet({e[k] : k \in A})
    <3> DEFINE T == {e[k] : k \in A}
    <3>1. \A y \in T : \E k \in A : y = e[k]
      OBVIOUS
    <3> HIDE DEF T
    <3>2. IsFiniteSet(T)
      BY <1>3, <3>1, ImageBound
    <3> QED BY <3>2 DEF T
  <2>4. \A v : Cardinality({k \in A : e[k] = v}) \in Int
    <3> SUFFICES ASSUME NEW v PROVE Cardinality({k \in A : e[k] = v}) \in Int
      OBVIOUS
    <3>1. IsFiniteSet({k \in A : e[k] = v})
      BY <1>3, FS_Subset
    <3> QED BY <3>1, FS_CardinalityType
  <2>5. s = <<>> => A = {}
    BY <1>2 DEF A, m
  <2>6. DOMAIN InputBag(s) = {e[k] : k \in A}
    BY <2>1
  <2>7. InputBag(s) \in [DOMAIN InputBag(s) -> Int]
    BY <2>1, <2>4
  <2>8. s = <<>> => DOMAIN InputBag(s) = {}
    BY <2>5, <2>6
  <2>9. \A x \in DOMAIN InputBag(s) : \E k \in DOMAIN s : x.timestamp = s[k].timestamp
    BY <1>2, <2>2, <2>6
  <2> QED BY <2>3, <2>6, <2>7, <2>8, <2>9 DEF IsQueue
<1> QED BY <1>9, <1>10
-----------------------------------------------------------------------------
(* What a tick generates is finite. *)

\* The images of a program are.
LEMMA ImagesFinite ==
    /\ IsFiniteSet(Cores)
    /\ \A c \in Cores : IsFiniteSet(DOMAIN Params[c]) /\ IsFiniteSet(DOMAIN Fanout[c])
    /\ \A c \in Cores : \A a \in DOMAIN Fanout[c] : IsFiniteSet(DOMAIN Fanout[c][a])
    /\ \A c \in Cores : \A n \in DOMAIN Params[c] : IsFiniteSet(DOMAIN Routes[c][n])
<1>1. IsFiniteSet(Cores)
  <2>1. NumCores \in Nat
    BY ReferenceAssumption
  <2> QED BY <2>1, FS_Interval DEF Cores
<1> QED BY <1>1, ReferenceAssumption, ImageAssumption

\* A family of finite sets, of triples of a core, something of the core, and something of that.
LEMMA TriplesFinite ==
    ASSUME NEW C, IsFiniteSet(C), NEW S, \A c \in C : IsFiniteSet(S[c]),
           NEW T, \A c \in C : \A n \in S[c] : IsFiniteSet(T[c][n])
    PROVE  IsFiniteSet(UNION {UNION {{<<c, n, k>> : k \in T[c][n]} : n \in S[c]} : c \in C})
<1> DEFINE inner(c, n) == {<<c, n, k>> : k \in T[c][n]}
           middle(c) == {inner(c, n) : n \in S[c]}
           outer == {UNION middle(c) : c \in C}
<1>1. ASSUME NEW c \in C
      PROVE  IsFiniteSet(UNION middle(c))
  <2>1. ASSUME NEW n \in S[c]
        PROVE  IsFiniteSet(inner(c, n))
    <3> DEFINE I == inner(c, n)
               K == T[c][n]
               f == [k \in K |-> <<c, n, k>>]
    <3>1. \A y \in I : \E k \in K : y = f[k]
      OBVIOUS
    <3>2. IsFiniteSet(K)
      OBVIOUS
    <3> HIDE DEF I, K, f
    <3>3. IsFiniteSet(I)
      BY <3>1, <3>2, ImageBound
    <3> QED BY <3>3 DEF I
  <2> DEFINE M == middle(c)
             N == S[c]
             g == [n \in N |-> inner(c, n)]
  <2>2. \A y \in M : \E n \in N : y = g[n]
    OBVIOUS
  <2>3. \A y \in M : IsFiniteSet(y)
    BY <2>1
  <2>4. IsFiniteSet(N)
    OBVIOUS
  <2> HIDE DEF M, N, g
  <2>5. IsFiniteSet(M)
    BY <2>2, <2>4, ImageBound
  <2>6. IsFiniteSet(UNION M)
    BY <2>3, <2>5, FS_UNION
  <2> QED BY <2>6 DEF M
<1> DEFINE h == [c \in C |-> UNION middle(c)]
<1>2. \A y \in outer : \E c \in C : y = h[c]
  OBVIOUS
<1>3. \A y \in outer : IsFiniteSet(y)
  BY <1>1
<1> DEFINE O == outer
<1> HIDE DEF h, O
<1>4. IsFiniteSet(O)
  BY <1>2, ImageBound DEF O
<1>5. IsFiniteSet(UNION O)
  BY <1>3, <1>4, FS_UNION DEF O
<1> QED BY <1>5 DEF O

\* The packets of a tick.
LEMMA NewPacketsQueue ==
    ASSUME NEW i, NEW r, NEW d, NEW N, NEW t
    PROVE  /\ IsQueue(NewPacketsOf(i, r, d, N, t))
           /\ (\A c : AffectedOf(i, r, d, c) = {}) => DOMAIN NewPacketsOf(i, r, d, N, t) = {}
<1> DEFINE E == EmittedOf(i, r, d, N, t)
           P == NewPacketsOf(i, r, d, N, t)
           p == [x \in E |-> PacketOf(t, x)]
<1>1. IsFiniteSet(E)
  <2> DEFINE S == [c \in Cores |-> FiredOf(i, r, d, N, t, c)]
             T == [c \in Cores |-> [n \in DOMAIN Params[c] |-> DOMAIN Routes[c][n]]]
  <2>1. \A c \in Cores : S[c] \subseteq DOMAIN Params[c]
    BY DEF FiredOf, AffectedOf
  <2>2. \A c \in Cores : IsFiniteSet(S[c])
    BY <2>1, ImagesFinite, FS_Subset
  <2>3. \A c \in Cores : \A n \in S[c] : IsFiniteSet(T[c][n])
    BY <2>1, ImagesFinite
  <2>4. E = UNION {UNION {{<<c, n, k>> : k \in T[c][n]} : n \in S[c]} : c \in Cores}
    <3>1. \A c \in Cores : S[c] = FiredOf(i, r, d, N, t, c)
      OBVIOUS
    <3>2. \A c \in Cores : \A n \in S[c] : T[c][n] = DOMAIN Routes[c][n]
      BY <2>1
    <3> HIDE DEF S, T
    <3> QED BY <3>1, <3>2 DEF EmittedOf
  <2> HIDE DEF S, T
  <2>5. IsFiniteSet(UNION {UNION {{<<c, n, k>> : k \in T[c][n]} : n \in S[c]} : c \in Cores})
    <3> DEFINE C == Cores
    <3>1. IsFiniteSet(C)
      BY ImagesFinite
    <3>2. (\A c \in C : IsFiniteSet(S[c])) /\ \A c \in C : \A n \in S[c] : IsFiniteSet(T[c][n])
      BY <2>2, <2>3
    <3> HIDE DEF C
    <3>3. IsFiniteSet(UNION {UNION {{<<c, n, k>> : k \in T[c][n]} : n \in S[c]} : c \in C})
      BY ONLY <3>1, <3>2, TriplesFinite
    <3> QED BY <3>3 DEF C
  <2> QED BY <2>4, <2>5
<1>2. P = [v \in {PacketOf(t, x) : x \in E} |-> Cardinality({x \in E : PacketOf(t, x) = v})]
  BY DEF NewPacketsOf, BagOf
<1>3. (\A c : AffectedOf(i, r, d, c) = {}) => E = {}
  BY DEF EmittedOf, FiredOf
<1>4. \A y \in {PacketOf(t, x) : x \in E} : \E x \in E : y = p[x]
  OBVIOUS
<1> HIDE DEF E, P, p
<1>5. IsFiniteSet({PacketOf(t, x) : x \in E})
  <2> DEFINE T == {PacketOf(t, x) : x \in E}
  <2>1. \A y \in T : \E x \in E : y = p[x]
    BY <1>4
  <2> HIDE DEF T
  <2>2. IsFiniteSet(T)
    BY <1>1, <2>1, ImageBound
  <2> QED BY <2>2 DEF T
<1>6. \A v : Cardinality({x \in E : PacketOf(t, x) = v}) \in Int
  <2> SUFFICES ASSUME NEW v PROVE Cardinality({x \in E : PacketOf(t, x) = v}) \in Int
    OBVIOUS
  <2>1. IsFiniteSet({x \in E : PacketOf(t, x) = v})
    BY <1>1, FS_Subset
  <2> QED BY <2>1, FS_CardinalityType
<1>7. DOMAIN P = {PacketOf(t, x) : x \in E}
  BY <1>2
<1>8. P \in [DOMAIN P -> Int]
  BY <1>2, <1>6
<1>9. (\A c : AffectedOf(i, r, d, c) = {}) => DOMAIN P = {}
  BY <1>3, <1>7
<1> QED BY <1>5, <1>7, <1>8, <1>9 DEF IsQueue, P

\* The number of arrivals at an axon is an integer, and zero when nothing is due.
LEMMA ArrivalsAre ==
    ASSUME NEW i, IsQueue(i), NEW r, IsQueue(r), NEW c, NEW a
    PROVE  /\ ArrivalsOf(i, r, c, a) \in Int
           /\ DOMAIN i = {} /\ DOMAIN r = {} => ArrivalsOf(i, r, c, a) = 0
<1> DEFINE S(B) == {x \in DOMAIN B : x.core = c /\ x.axon = a}
<1>1. ASSUME NEW B, IsQueue(B)
      PROVE  SumOf(B, S(B)) \in Int /\ (DOMAIN B = {} => SumOf(B, S(B)) = 0)
  <2> DEFINE X == S(B)
  <2>1. IsFiniteSet(X) /\ \A x \in X : B[x] \in Int
    BY <1>1, FS_Subset DEF IsQueue
  <2>2. DOMAIN B = {} => X = {}
    OBVIOUS
  <2> HIDE DEF X
  <2>3. SumOf(B, X) \in Int
    BY <2>1, SumRemove
  <2>4. X = {} => SumOf(B, X) = 0
    BY <2>1, SumStep
  <2> QED BY <2>2, <2>3, <2>4 DEF X
<1>2. ArrivalsOf(i, r, c, a) = SumOf(i, S(i)) + SumOf(r, S(r))
  BY DEF ArrivalsOf, SumOf
<1>3. /\ SumOf(i, S(i)) \in Int /\ (DOMAIN i = {} => SumOf(i, S(i)) = 0)
      /\ SumOf(r, S(r)) \in Int /\ (DOMAIN r = {} => SumOf(r, S(r)) = 0)
  BY <1>1
<1> DEFINE e == SumOf(i, S(i))
           f == SumOf(r, S(r))
<1> HIDE DEF e, f
<1>4. e \in Int /\ f \in Int /\ (DOMAIN i = {} => e = 0) /\ (DOMAIN r = {} => f = 0)
  BY <1>3 DEF e, f
<1>5. ArrivalsOf(i, r, c, a) = e + f
  BY <1>2 DEF e, f
<1> QED BY <1>4, <1>5

\* The contributions of a tick that are delayed.
LEMMA NewlyDelayedQueue ==
    ASSUME NEW i, IsQueue(i), NEW r, IsQueue(r), NEW t
    PROVE  /\ IsQueue(NewlyDelayedOf(i, r, t))
           /\ DOMAIN i = {} /\ DOMAIN r = {} => TraversalsOf(i, r) = {}
           /\ TraversalsOf(i, r) = {} => DOMAIN NewlyDelayedOf(i, r, t) = {}
<1> DEFINE L == LateOf(i, r)
           Q == NewlyDelayedOf(i, r, t)
           A == [x \in L |-> ArrivalsOf(i, r, x[1], x[2])]
<1>1. IsFiniteSet(TraversalsOf(i, r))
  <2> DEFINE S == [c \in Cores |-> {b \in DOMAIN Fanout[c] : ArrivalsOf(i, r, c, b) > 0}]
             T == [c \in Cores |-> [a \in DOMAIN Fanout[c] |-> DOMAIN Fanout[c][a]]]
  <2>1. \A c \in Cores : S[c] \subseteq DOMAIN Fanout[c]
    OBVIOUS
  <2>2. \A c \in Cores : IsFiniteSet(S[c])
    BY <2>1, ImagesFinite, FS_Subset
  <2>3. \A c \in Cores : \A n \in S[c] : IsFiniteSet(T[c][n])
    BY <2>1, ImagesFinite
  <2>4. TraversalsOf(i, r) = UNION {UNION {{<<c, n, k>> : k \in T[c][n]} : n \in S[c]} : c \in Cores}
    <3>1. \A c \in Cores : S[c] = {b \in DOMAIN Fanout[c] : ArrivalsOf(i, r, c, b) > 0}
      OBVIOUS
    <3>2. \A c \in Cores : \A n \in S[c] : T[c][n] = DOMAIN Fanout[c][n]
      BY <2>1
    <3> HIDE DEF S, T
    <3> QED BY <3>1, <3>2 DEF TraversalsOf
  <2> HIDE DEF S, T
  <2>5. IsFiniteSet(UNION {UNION {{<<c, n, k>> : k \in T[c][n]} : n \in S[c]} : c \in Cores})
    <3> DEFINE C == Cores
    <3>1. IsFiniteSet(C)
      BY ImagesFinite
    <3>2. (\A c \in C : IsFiniteSet(S[c])) /\ \A c \in C : \A n \in S[c] : IsFiniteSet(T[c][n])
      BY <2>2, <2>3
    <3> HIDE DEF C
    <3>3. IsFiniteSet(UNION {UNION {{<<c, n, k>> : k \in T[c][n]} : n \in S[c]} : c \in C})
      BY ONLY <3>1, <3>2, TriplesFinite
    <3> QED BY <3>3 DEF C
  <2> QED BY <2>4, <2>5
<1>2. IsFiniteSet(L)
  BY <1>1, FS_Subset DEF LateOf
<1>3. DOMAIN Q = {Delayed(t, x) : x \in L}
  BY DEF NewlyDelayedOf
<1>4. IsFiniteSet(DOMAIN Q)
  <2> DEFINE f == [x \in L |-> Delayed(t, x)]
  <2>1. \A y \in DOMAIN Q : \E x \in L : y = f[x]
    BY <1>3
  <2> HIDE DEF L, Q, f
  <2> QED BY <1>2, <2>1, ImageBound
<1>5. ASSUME NEW e \in DOMAIN Q
      PROVE  Q[e] \in Int
  <2> DEFINE X == {x \in L : Delayed(t, x) = e}
             Solves(g) == g = [s \in SUBSET X |-> IF s = {} THEN 0
                                ELSE LET x == CHOOSE x \in s : TRUE
                                     IN  ArrivalsOf(i, r, x[1], x[2]) + g[s \ {x}]]
             h == CHOOSE g : Solves(g)
  <2>1. Q[e] = h[X]
    BY <1>3 DEF NewlyDelayedOf, MapThenSumSet, MapThenFoldSet
  <2>2. IsFiniteSet(X) /\ \A x \in X : A[x] = ArrivalsOf(i, r, x[1], x[2]) /\ A[x] \in Int
    BY <1>2, FS_Subset, ArrivalsAre
  <2>3. ASSUME NEW g
        PROVE  Solves(g) <=> IsSum(A, X, g)
    <3>1. \A s \in SUBSET X :
             (IF s = {} THEN 0
              ELSE LET x == CHOOSE x \in s : TRUE
                   IN  ArrivalsOf(i, r, x[1], x[2]) + g[s \ {x}])
           = (IF s = {} THEN 0
              ELSE LET x == CHOOSE x \in s : TRUE IN A[x] + g[s \ {x}])
      BY <2>2
    <3> HIDE DEF X, A
    <3> QED BY <3>1 DEF IsSum
  <2> HIDE DEF X, A, Solves
  <2>4. IsSum(A, X, h)
    <3>1. PICK g : IsSum(A, X, g)
      BY <2>2, SumExists
    <3>2. Solves(h)
      BY <2>3, <3>1
    <3> QED BY <2>3, <3>2
  <2> HIDE DEF h
  <2>5. SumOf(A, X) = h[X]
    BY <2>2, <2>4, SumSolved
  <2>6. SumOf(A, X) \in Int
    BY <2>2, SumRemove
  <2> QED BY <2>1, <2>5, <2>6
<1>6. Q = [e \in DOMAIN Q |-> Q[e]]
  BY DEF NewlyDelayedOf
<1>7. ASSUME DOMAIN i = {}, DOMAIN r = {}
      PROVE  TraversalsOf(i, r) = {}
  <2>1. \A c, a : ~(ArrivalsOf(i, r, c, a) > 0)
    BY <1>7, ArrivalsAre
  <2> QED BY <2>1 DEF TraversalsOf
<1>8. TraversalsOf(i, r) = {} => DOMAIN Q = {}
  BY <1>3 DEF LateOf
<1>9. IsQueue(Q)
  <2> HIDE DEF Q
  <2> QED BY <1>4, <1>5, <1>6 DEF IsQueue
<1> QED BY <1>7, <1>8, <1>9
-----------------------------------------------------------------------------
(* Runs: the states a machine passes through, and what makes one of the    *)
(* one before.                                                             *)

Snapshot ==
    [inputs |-> input_events, routed |-> routed_packets, delayed |-> delayed_contributions,
     neurons |-> neuron, spikes |-> spikes, packets |-> packets, tick |-> last_processed_tick]
Held(s) == DOMAIN s.inputs \cup DOMAIN s.routed \cup DOMAIN s.delayed
Well(s) ==
    /\ IsQueue(s.inputs) /\ IsQueue(s.routed) /\ IsQueue(s.delayed) /\ IsQueue(s.packets)
    /\ \A x \in Held(s) : x.timestamp \in Nat
    /\ s.neurons = [c \in Cores |-> [n \in DOMAIN Params[c] |-> s.neurons[c][n]]]
    /\ s.spikes \in Seq(SpikeRecord)

\* q is what processing its tick makes of s.
Results(s, q, i, r, d, t) ==
    /\ q.inputs = NotAt(s.inputs, t)
    /\ q.routed = NotAt(s.routed, t) (+) NewPacketsOf(i, r, d, s.neurons, t)
    /\ q.delayed = NotAt(s.delayed, t) (+) NewlyDelayedOf(i, r, t)
    /\ q.neurons = NeuronsOf(i, r, d, s.neurons, t)
    /\ q.spikes = s.spikes \o NewSpikesOf(i, r, d, s.neurons, t)
    /\ q.packets = s.packets (+) NewPacketsOf(i, r, d, s.neurons, t)
StepsTo(s, q) ==
    /\ \A x \in Held(s) : x.timestamp >= q.tick
    /\ Results(s, q, At(s.inputs, q.tick), At(s.routed, q.tick), At(s.delayed, q.tick), q.tick)

\* s and q hold the same, but for the tick.
Same(s, q) ==
    /\ q.inputs = s.inputs /\ q.routed = s.routed /\ q.delayed = s.delayed
    /\ q.neurons = s.neurons /\ q.spikes = s.spikes /\ q.packets = s.packets

\* s with the events E injected as well.
Grown(s, E) ==
    [inputs |-> s.inputs (+) E, routed |-> s.routed, delayed |-> s.delayed,
     neurons |-> s.neurons, spikes |-> s.spikes, packets |-> s.packets, tick |-> s.tick]

\* An event injected after a tick could as well have been there before it.
LEMMA GrownSteps ==
    ASSUME NEW s, Well(s), NEW q, StepsTo(s, q), q.tick \in Int, NEW E, IsQueue(E),
           \A x \in DOMAIN E : x.timestamp \in Nat /\ x.timestamp > q.tick
    PROVE  StepsTo(Grown(s, E), Grown(q, E))
<1> DEFINE t == q.tick
           S == Grown(s, E)
           Q == Grown(q, E)
           i == At(s.inputs, t)
           r == At(s.routed, t)
           d == At(s.delayed, t)
<1>1. IsQueue(s.inputs)
  BY DEF Well
<1>2. /\ At(s.inputs (+) E, t) = i
      /\ NotAt(s.inputs (+) E, t) = NotAt(s.inputs, t) (+) E
      /\ DOMAIN (s.inputs (+) E) = DOMAIN s.inputs \cup DOMAIN E
  <2> DEFINE B == s.inputs
  <2>1. IsQueue(B) /\ IsQueue(E) /\ \A x \in DOMAIN E : x.timestamp # t
    BY <1>1
  <2> HIDE DEF B, t
  <2>2. At(B (+) E, t) = At(B, t) /\ NotAt(B (+) E, t) = NotAt(B, t) (+) E
    BY <2>1, LaterApart
  <2>3. DOMAIN (B (+) E) = DOMAIN B \cup DOMAIN E
    BY <2>1, QueueSum
  <2> QED BY <2>2, <2>3 DEF B
<1>3. /\ S.inputs = s.inputs (+) E /\ S.routed = s.routed /\ S.delayed = s.delayed
      /\ S.neurons = s.neurons /\ S.spikes = s.spikes /\ S.packets = s.packets
      /\ Q.inputs = q.inputs (+) E /\ Q.routed = q.routed /\ Q.delayed = q.delayed
      /\ Q.neurons = q.neurons /\ Q.spikes = q.spikes /\ Q.packets = q.packets /\ Q.tick = t
  BY DEF Grown
<1>4. Results(s, q, i, r, d, t) /\ \A x \in Held(s) : x.timestamp >= t
  BY DEF StepsTo
<1>5. \A x \in Held(S) : x.timestamp >= t
  <2>1. Held(S) = Held(s) \cup DOMAIN E
    BY <1>2, <1>3 DEF Held
  <2> QED BY <1>4, <2>1
<1> HIDE DEF S, Q, t
<1>6. Results(S, Q, i, r, d, t)
  BY <1>2, <1>3, <1>4 DEF Results
<1> HIDE DEF i, r, d
<1>7. StepsTo(S, Q)
  BY <1>2, <1>3, <1>5, <1>6 DEF StepsTo, i, r, d
<1> QED BY <1>7 DEF S, Q

\* A tick in which nothing is due changes nothing.
LEMMA IdleSteps ==
    ASSUME NEW s, Well(s), NEW q, StepsTo(s, q), \A x \in Held(s) : x.timestamp # q.tick
    PROVE  Same(s, q)
<1> DEFINE t == q.tick
           i == At(s.inputs, t)
           r == At(s.routed, t)
           d == At(s.delayed, t)
<1>1. IsQueue(s.inputs) /\ IsQueue(s.routed) /\ IsQueue(s.delayed) /\ IsQueue(s.packets)
  BY DEF Well
<1>2. /\ IsQueue(i) /\ IsQueue(r) /\ IsQueue(d)
      /\ DOMAIN i = {} /\ DOMAIN r = {} /\ DOMAIN d = {}
      /\ NotAt(s.inputs, t) = s.inputs /\ NotAt(s.routed, t) = s.routed
      /\ NotAt(s.delayed, t) = s.delayed
  <2>1. ASSUME NEW B, IsQueue(B), \A x \in DOMAIN B : x.timestamp # t
        PROVE  IsQueue(At(B, t)) /\ DOMAIN At(B, t) = {} /\ NotAt(B, t) = B
    <3> HIDE DEF t
    <3>1. DOMAIN At(B, t) = {}
      BY <2>1 DEF At
    <3> QED BY <2>1, <3>1, QueueParts
  <2>2. /\ \A x \in DOMAIN s.inputs : x.timestamp # t
        /\ \A x \in DOMAIN s.routed : x.timestamp # t
        /\ \A x \in DOMAIN s.delayed : x.timestamp # t
    BY DEF Held
  <2> HIDE DEF t
  <2> QED BY <1>1, <2>1, <2>2
<1>3. Results(s, q, i, r, d, t)
  BY DEF StepsTo
<1> HIDE DEF i, r, d, t
<1>4. TraversalsOf(i, r) = {} /\ IsQueue(NewlyDelayedOf(i, r, t)) /\ DOMAIN NewlyDelayedOf(i, r, t) = {}
  BY <1>2, NewlyDelayedQueue
<1>5. \A c : AffectedOf(i, r, d, c) = {}
  BY <1>2, <1>4 DEF AffectedOf, DelayedAt, TraversedAt
<1> DEFINE N == s.neurons
           P == NewPacketsOf(i, r, d, N, t)
<1>6. IsQueue(P) /\ DOMAIN P = {}
  BY <1>5, NewPacketsQueue
<1>7. s.routed (+) P = s.routed /\ s.packets (+) P = s.packets
  <2> HIDE DEF P
  <2> QED BY <1>1, <1>6, QueueSum
<1>8. s.delayed (+) NewlyDelayedOf(i, r, t) = s.delayed
  BY <1>1, <1>4, QueueSum
<1>9. NewSpikesOf(i, r, d, N, t) = <<>>
  <2> DEFINE X == UNION {{[tick |-> t, core |-> c, neuron |-> n] : n \in FiredOf(i, r, d, N, t, c)} :
                            c \in Cores}
  <2>1. X = {}
    BY <1>5 DEF FiredOf
  <2>2. NewSpikesOf(i, r, d, N, t) = InOrder(X, SpikeBefore)
    BY DEF NewSpikesOf
  <2> HIDE DEF X
  <2>3. Cardinality(X) = 0
    BY <2>1, FS_EmptySet
  <2> QED BY <2>2, <2>3 DEF InOrder
<1>10. NeuronsOf(i, r, d, N, t) = N
  <2>1. N = [c \in Cores |-> [n \in DOMAIN Params[c] |-> N[c][n]]]
    BY DEF Well
  <2>2. \A c \in Cores : \A n \in DOMAIN Params[c] :
           (IF n \in AffectedOf(i, r, d, c) THEN UpdateOf(i, r, d, N, t, c, n).state ELSE N[c][n])
             = N[c][n]
    BY <1>5
  <2> HIDE DEF N
  <2>3. NeuronsOf(i, r, d, N, t) = [c \in Cores |-> [n \in DOMAIN Params[c] |-> N[c][n]]]
    BY <2>2 DEF NeuronsOf
  <2> QED BY <2>1, <2>3
<1>11. s.spikes \o <<>> = s.spikes
  BY DEF Well
<1> HIDE DEF P
<1> QED BY <1>2, <1>3, <1>7, <1>8, <1>9, <1>10, <1>11 DEF Results, Same, P
-----------------------------------------------------------------------------
(* The online run and the batch run. *)

Start(h) ==
    [inputs |-> InputBag(h), routed |-> EmptyBag, delayed |-> EmptyBag, neurons |-> InitialState,
     spikes |-> <<>>, packets |-> EmptyBag, tick |-> -1]

\* run[1] to run[k] are the states of a machine that had the events of h from the start
\* and has come to the state now.
IsRun(run, k, h, now) ==
    /\ run[1] = Start(h) /\ run[k] = now
    /\ \A j \in 1 .. k : Well(run[j]) /\ run[j].tick \in Int /\ run[j].tick <= now.tick
    /\ \A j \in 1 .. k - 1 : StepsTo(run[j], run[j + 1])

\* The batch machine is in the state s, but for the tick.
Agrees(s) ==
    /\ b_input_events = s.inputs /\ b_routed_packets = s.routed
    /\ b_delayed_contributions = s.delayed /\ b_neuron = s.neurons
    /\ b_spikes = s.spikes /\ b_packets = s.packets

\* There is a run of a machine that had all the events from the start which leads to the
\* state of the online machine, and the batch machine is somewhere on it.
ReplayInv ==
    /\ TimeInv
    /\ history \in Seq(EventRecord)
    /\ stage = "online" => Agrees(Start(<<>>))
    /\ stage \in {"online", "batch"}
    /\ \E k \in Nat \ {0} : \E run :
          /\ IsRun(run, k, history, Snapshot)
          /\ stage = "batch" => \E j \in 1 .. k : Agrees(run[j])

\* Without events there is nothing to inject.
LEMMA NoInputs == InputBag(<<>>) = EmptyBag /\ IsQueue(EmptyBag) /\ DOMAIN EmptyBag = {}
<1> DEFINE none == <<>>
<1>1. IsQueue(InputBag(none)) /\ DOMAIN InputBag(none) = {}
  <2>1. none \in Seq(EventRecord) /\ none = <<>>
    OBVIOUS
  <2> HIDE DEF none
  <2> QED BY ONLY <2>1, InputsAdd
<1>2. EmptyBag = [e \in {} |-> 1]
  BY DEF EmptyBag, SetToBag
<1> QED BY <1>1, <1>2, FS_EmptySet DEF IsQueue

\* The states before the first tick.
LEMMA StartWell ==
    ASSUME NEW h \in Seq(EventRecord)
    PROVE  Well(Start(h))
<1>1. IsQueue(InputBag(h)) /\ \A x \in DOMAIN InputBag(h) : \E k \in DOMAIN h : x.timestamp = h[k].timestamp
  BY InputsAdd
<1>2. \A k \in DOMAIN h : h[k].timestamp \in Nat
  <2>1. \A k \in DOMAIN h : h[k] \in EventRecord
    OBVIOUS
  <2> QED BY <2>1 DEF EventRecord
<1>3. IsQueue(EmptyBag) /\ DOMAIN EmptyBag = {}
  BY NoInputs
<1>4. InitialState = [c \in Cores |-> [n \in DOMAIN Params[c] |-> InitialState[c][n]]]
  BY ImageAssumption
<1> DEFINE s == Start(h)
<1>5. /\ s.inputs = InputBag(h) /\ s.routed = EmptyBag /\ s.delayed = EmptyBag
      /\ s.neurons = InitialState /\ s.spikes = <<>> /\ s.packets = EmptyBag
  BY DEF Start
<1>6. <<>> \in Seq(SpikeRecord)
  OBVIOUS
<1> HIDE DEF s
<1>7. Held(s) = DOMAIN InputBag(h)
  BY <1>3, <1>5 DEF Held
<1>8. \A x \in Held(s) : x.timestamp \in Nat
  BY <1>1, <1>2, <1>7
<1>9. Well(s)
  BY <1>1, <1>3, <1>4, <1>5, <1>6, <1>8 DEF Well
<1> QED BY <1>9 DEF s

\* Neither machine has done anything.
LEMMA InitReplay == ReplayInit => ReplayInv
<1> SUFFICES ASSUME ReplayInit PROVE ReplayInv
  OBVIOUS
<1>1. TimeInv
  BY InitTime DEF ReplayInit
<1> DEFINE run == [j \in 1 .. 1 |-> Start(<<>>)]
<1>2. Snapshot = Start(<<>>) /\ history = <<>> /\ stage = "online"
  BY NoInputs DEF ReplayInit, Init, Snapshot, Start
<1>3. Agrees(Start(<<>>))
  BY NoInputs DEF ReplayInit, Batch!Init, Agrees, Start, EmptyBag, SetToBag, Batch!EmptyBag,
        Batch!SetToBag
<1>4. Start(<<>>).tick = -1
  BY DEF Start
<1>5. Well(Start(<<>>))
  <2> DEFINE none == <<>>
  <2>1. none \in Seq(EventRecord)
    OBVIOUS
  <2> HIDE DEF none
  <2>2. Well(Start(none))
    BY ONLY <2>1, StartWell
  <2> QED BY <2>2 DEF none
<1>6. IsRun(run, 1, <<>>, Start(<<>>))
  <2>1. run[1] = Start(<<>>)
    OBVIOUS
  <2> HIDE DEF run
  <2> QED BY <1>4, <1>5, <2>1 DEF IsRun
<1> HIDE DEF run
<1> QED BY <1>1, <1>2, <1>3, <1>6 DEF ReplayInv

\* An injection: the events could have been there from the start, since none of them is of
\* a tick that is over.
LEMMA InjectKeepsReplay ==
    ASSUME ReplayInv, stage = "online", NEW events \in EventLists, Inject(events),
           history' = history \o events, UNCHANGED <<stage, batchVars>>
    PROVE  ReplayInv'
<1>1. TimeInv'
  BY InjectKeepsTime DEF ReplayInv
<1> DEFINE E == InputBag(events)
<1>2. /\ events \in Seq(EventRecord) /\ history \in Seq(EventRecord)
      /\ history' \in Seq(EventRecord)
  BY ImageAssumption DEF ReplayInv, EventRecord
<1>3. /\ IsQueue(E) /\ InputBag(history') = InputBag(history) (+) E
      /\ \A x \in DOMAIN E : x.timestamp \in Nat /\ x.timestamp > last_processed_tick
  <2>1. \A i \in DOMAIN events : events[i].timestamp \in Nat
                                   /\ events[i].timestamp > last_processed_tick
    <3>1. \A i \in DOMAIN events : events[i] \in EventRecord
      BY <1>2
    <3> QED BY <3>1 DEF Inject, EventRecord
  <2>2. /\ IsQueue(E) /\ InputBag(history \o events) = InputBag(history) (+) E
        /\ \A x \in DOMAIN E : \E k \in DOMAIN events : x.timestamp = events[k].timestamp
    BY <1>2, InputsAdd
  <2> HIDE DEF E
  <2> QED BY <2>1, <2>2
<1>4. Snapshot' = Grown(Snapshot, E)
  BY DEF Inject, Snapshot, Grown
<1>5a. PICK k \in Nat \ {0} : \E run : IsRun(run, k, history, Snapshot)
  BY DEF ReplayInv
<1>5. PICK run : IsRun(run, k, history, Snapshot)
  BY <1>5a
<1> HIDE DEF E
<1> DEFINE longer == [j \in 1 .. k |-> Grown(run[j], E)]
<1>6. Snapshot.tick = last_processed_tick /\ last_processed_tick \in Int
  BY DEF Snapshot, ReplayInv, TimeInv
<1>7. ASSUME NEW j \in 1 .. k
      PROVE  /\ Well(longer[j]) /\ longer[j].tick = run[j].tick
             /\ run[j].tick \in Int /\ run[j].tick <= last_processed_tick
             /\ longer[j] = Grown(run[j], E)
  <2>1. Well(run[j]) /\ run[j].tick \in Int /\ run[j].tick <= last_processed_tick
    BY <1>5, <1>6 DEF IsRun
  <2> DEFINE s == run[j]
             g == Grown(s, E)
  <2>2. longer[j] = g
    OBVIOUS
  <2> HIDE DEF s, longer
  <2>3. IsQueue(s.inputs) /\ IsQueue(s.inputs (+) E)
        /\ DOMAIN (s.inputs (+) E) = DOMAIN s.inputs \cup DOMAIN E
    BY <1>3, <2>1, QueueSum DEF Well, s
  <2>4. Well(g)
    BY <1>3, <2>1, <2>3 DEF Well, Held, Grown, s
  <2> QED BY <2>1, <2>2, <2>4 DEF Grown, s
<1>8. ASSUME NEW j \in 1 .. k - 1
      PROVE  StepsTo(longer[j], longer[j + 1])
  <2>1. j \in 1 .. k /\ j + 1 \in 1 .. k
    OBVIOUS
  <2> DEFINE s == run[j]
             q == run[j + 1]
  <2>2. Well(s) /\ StepsTo(s, q) /\ q.tick \in Int /\ q.tick <= last_processed_tick
    BY <1>5, <1>7, <2>1 DEF IsRun
  <2>3. \A x \in DOMAIN E : x.timestamp \in Nat /\ x.timestamp > q.tick
    BY <1>3, <1>6, <2>2
  <2>4. longer[j] = Grown(s, E) /\ longer[j + 1] = Grown(q, E)
    BY <1>7, <2>1
  <2> HIDE DEF s, q, longer
  <2> QED BY <1>3, <2>2, <2>3, <2>4, GrownSteps
<1>9. longer[1] = Start(history') /\ longer[k] = Snapshot'
  <2>1. longer[1] = Grown(Start(history), E) /\ longer[k] = Grown(Snapshot, E)
    BY <1>5 DEF IsRun
  <2> QED BY <1>3, <1>4, <2>1 DEF Start, Grown
<1>10. Snapshot'.tick = last_processed_tick
  BY <1>4, <1>6 DEF Grown
<1> HIDE DEF longer
<1>11. IsRun(longer, k, history', Snapshot')
  BY <1>7, <1>8, <1>9, <1>10 DEF IsRun
<1>12. stage' = "online" /\ Agrees(Start(<<>>))'
  BY DEF ReplayInv, Agrees, batchVars, Start
<1> QED BY <1>1, <1>2, <1>11, <1>12 DEF ReplayInv
\* A tick of the online machine is the next state of the run.
LEMMA ProcessTickKeepsReplay ==
    ASSUME ReplayInv, stage = "online", NEW t \in 0 .. TickLimit - 1, ProcessTick(t),
           UNCHANGED <<history, stage, batchVars>>
    PROVE  ReplayInv'
<1>1. TimeInv'
  BY ProcessTickKeepsTime DEF ReplayInv
<1>2a. PICK k \in Nat \ {0} : \E run : IsRun(run, k, history, Snapshot)
  BY DEF ReplayInv
<1>2. PICK run : IsRun(run, k, history, Snapshot)
  BY <1>2a
<1>3. /\ Snapshot.tick = last_processed_tick /\ last_processed_tick \in Int
      /\ Snapshot'.tick = t /\ t \in Int /\ last_processed_tick < t
  BY DEF Snapshot, ReplayInv, TimeInv, ProcessTick
<1>4. Well(Snapshot)
  BY <1>2 DEF IsRun
<1> DEFINE s == Snapshot
           q == Snapshot'
           i == At(s.inputs, t)
           r == At(s.routed, t)
           d == At(s.delayed, t)
<1>5. /\ s.inputs = input_events /\ s.routed = routed_packets /\ s.delayed = delayed_contributions
      /\ s.neurons = neuron /\ s.spikes = spikes /\ s.packets = packets
      /\ q.inputs = input_events' /\ q.routed = routed_packets'
      /\ q.delayed = delayed_contributions' /\ q.neurons = neuron'
      /\ q.spikes = spikes' /\ q.packets = packets' /\ q.tick = t
  BY <1>3 DEF Snapshot
<1>6. /\ \A c \in Cores : Affected(t, c) = AffectedOf(i, r, d, c)
      /\ \A c \in Cores : \A n \in DOMAIN Params[c] :
            Update(t, c, n) = UpdateOf(i, r, d, s.neurons, t, c, n)
      /\ NewlyDelayed(t) = NewlyDelayedOf(i, r, t)
      /\ NewSpikes(t) = NewSpikesOf(i, r, d, s.neurons, t)
      /\ NewPackets(t) = NewPacketsOf(i, r, d, s.neurons, t)
  BY <1>5, PhasesAre
<1> HIDE DEF s, q, i, r, d
<1>7. /\ q.inputs = NotAt(s.inputs, t)
      /\ q.routed = NotAt(s.routed, t) (+) NewPacketsOf(i, r, d, s.neurons, t)
      /\ q.delayed = NotAt(s.delayed, t) (+) NewlyDelayedOf(i, r, t)
      /\ q.spikes = s.spikes \o NewSpikesOf(i, r, d, s.neurons, t)
      /\ q.packets = s.packets (+) NewPacketsOf(i, r, d, s.neurons, t)
  BY <1>5, <1>6 DEF ProcessTick
<1>8. /\ q.neurons = NeuronsOf(i, r, d, s.neurons, t)
      /\ q.neurons = [c \in Cores |-> [n \in DOMAIN Params[c] |-> q.neurons[c][n]]]
  <2>1. q.neurons = [c \in Cores |-> [n \in DOMAIN Params[c] |->
                       IF n \in Affected(t, c) THEN Update(t, c, n).state ELSE s.neurons[c][n]]]
    BY <1>5 DEF ProcessTick
  <2>2. \A c \in Cores : \A n \in DOMAIN Params[c] :
           (IF n \in Affected(t, c) THEN Update(t, c, n).state ELSE s.neurons[c][n])
             = (IF n \in AffectedOf(i, r, d, c) THEN UpdateOf(i, r, d, s.neurons, t, c, n).state
                ELSE s.neurons[c][n])
    BY <1>6
  <2>3. q.neurons = [c \in Cores |-> [n \in DOMAIN Params[c] |-> q.neurons[c][n]]]
    BY <2>1
  <2> QED BY <2>1, <2>2, <2>3 DEF NeuronsOf
<1>9. StepsTo(s, q)
  <2>1. \A x \in Held(s) : x.timestamp >= t
    BY <1>5 DEF Held, ProcessTick, Pending
  <2> QED BY <1>5, <1>7, <1>8, <2>1 DEF StepsTo, Results, i, r, d
<1>10. IsQueue(q.inputs) /\ IsQueue(q.routed) /\ IsQueue(q.delayed) /\ IsQueue(q.packets)
  <2> DEFINE P == NewPacketsOf(i, r, d, s.neurons, t)
             L == NewlyDelayedOf(i, r, t)
  <2>1. Well(s)
    BY <1>4 DEF s
  <2>2. IsQueue(i) /\ IsQueue(r)
    BY <2>1, QueueParts DEF Well, i, r
  <2>3. IsQueue(P) /\ IsQueue(L)
    BY <2>2, NewPacketsQueue, NewlyDelayedQueue
  <2>4. IsQueue(NotAt(s.inputs, t)) /\ IsQueue(NotAt(s.routed, t)) /\ IsQueue(NotAt(s.delayed, t))
    BY <2>1, QueueParts DEF Well
  <2> HIDE DEF P, L
  <2>5. /\ IsQueue(NotAt(s.routed, t) (+) P) /\ IsQueue(NotAt(s.delayed, t) (+) L)
        /\ IsQueue(s.packets (+) P)
    BY <2>1, <2>3, <2>4, QueueSum DEF Well
  <2> QED BY <1>7, <2>4, <2>5 DEF P, L
<1>11. \A x \in Held(q) : x.timestamp \in Nat
  BY <1>1, <1>5 DEF Held, TimeInv, DueAfter
<1>12. q.spikes \in Seq(SpikeRecord)
  <2>1. t \in Nat
    OBVIOUS
  <2>2. spikes \in Seq(SpikeRecord)
    BY <1>4, <1>5 DEF Well, s
  <2>3. spikes \o NewSpikes(t) \in Seq(SpikeRecord)
    BY <2>1, <2>2, SentByTick
  <2> QED BY <1>5, <2>3 DEF ProcessTick
<1>13. Well(q)
  BY <1>8, <1>10, <1>11, <1>12 DEF Well
<1> DEFINE longer == [j \in 1 .. k + 1 |-> IF j <= k THEN run[j] ELSE q]
<1>14. ASSUME NEW j \in 1 .. k + 1
       PROVE  Well(longer[j]) /\ longer[j].tick \in Int /\ longer[j].tick <= t
  <2>1. CASE j <= k
    <3>1. j \in 1 .. k
      BY <2>1
    <3>2. longer[j] = run[j]
      BY <2>1
    <3> HIDE DEF longer
    <3> QED BY <1>2, <1>3, <3>1, <3>2 DEF IsRun
  <2>2. CASE ~(j <= k)
    <3>1. longer[j] = q
      BY <2>2
    <3> HIDE DEF longer
    <3> QED BY <1>3, <1>5, <1>13, <3>1
  <2> QED BY <2>1, <2>2
<1>15. ASSUME NEW j \in 1 .. k
       PROVE  StepsTo(longer[j], longer[j + 1])
  <2>1. CASE j < k
    <3>1. j \in 1 .. k - 1 /\ longer[j] = run[j] /\ longer[j + 1] = run[j + 1]
      BY <2>1
    <3> HIDE DEF longer
    <3> QED BY <1>2, <3>1 DEF IsRun
  <2>2. CASE j = k
    <3>1. longer[j] = run[k] /\ longer[j + 1] = q
      BY <2>2
    <3>2. run[k] = s
      BY <1>2 DEF IsRun, s
    <3> HIDE DEF longer
    <3> QED BY <1>9, <3>1, <3>2
  <2> QED BY <2>1, <2>2
<1>16. longer[1] = Start(history) /\ longer[k + 1] = q
  BY <1>2 DEF IsRun
<1> HIDE DEF longer
<1>17. IsRun(longer, k + 1, history, q)
  <2>1. (k + 1) - 1 = k
    OBVIOUS
  <2> QED BY <1>5, <1>14, <1>15, <1>16, <2>1 DEF IsRun
<1>18. k + 1 \in Nat \ {0} /\ stage' = "online" /\ Agrees(Start(<<>>))' /\ history' = history
       /\ history \in Seq(EventRecord)
  BY DEF ReplayInv, Agrees, batchVars, Start
<1> QED BY <1>1, <1>17, <1>18 DEF ReplayInv, q
\* Loading: the batch machine is in the first state of the run.
LEMMA LoadKeepsReplay ==
    ASSUME ReplayInv, Load
    PROVE  ReplayInv'
<1>1. UNCHANGED vars /\ history' = history /\ stage = "online" /\ stage' = "batch"
  BY DEF Load
<1>2. TimeInv'
  BY <1>1 DEF vars, ReplayInv, TimeInv, DueAfter
<1>3. /\ b_input_events = InputBag(<<>>) /\ b_routed_packets = EmptyBag
      /\ b_delayed_contributions = EmptyBag /\ b_neuron = InitialState
      /\ b_spikes = <<>> /\ b_packets = EmptyBag
  BY <1>1 DEF ReplayInv, Agrees, Start
<1>4. history \in Seq(EventRecord)
  BY DEF ReplayInv
<1> DEFINE H == InputBag(history)
<1>5. b_input_events' = H
  <2>1. CASE history = <<>>
    BY <1>3, <2>1 DEF Load, batchVars
  <2>2. CASE history # <<>>
    <3> DEFINE none == InputBag(<<>>)
    <3>1. b_input_events' = Batch!(+)(b_input_events, Batch!InputBag(history))
      BY <2>2 DEF Load, Batch!Inject
    <3>2. Batch!InputBag(history) = H
      BY DEF Batch!InputBag, InputBag, BagOf, Batch!BagOf, Cardinality, Batch!Cardinality
    <3>3. \A A, B : Batch!(+)(A, B) = A (+) B
      BY DEF (+), Batch!(+)
    <3>4. IsQueue(none) /\ DOMAIN none = {}
      BY NoInputs
    <3>5. IsQueue(H)
      BY <1>4, InputsAdd
    <3>6. b_input_events = none
      BY <1>3
    <3> HIDE DEF none, H
    <3>7. none (+) H = H
      BY <3>4, <3>5, QueueSum
    <3> QED BY <3>1, <3>2, <3>3, <3>6, <3>7
  <2> QED BY <2>1, <2>2
<1>6. /\ b_routed_packets' = EmptyBag /\ b_delayed_contributions' = EmptyBag
      /\ b_neuron' = InitialState /\ b_spikes' = <<>> /\ b_packets' = EmptyBag
  <2>1. CASE history = <<>>
    BY <1>3, <2>1 DEF Load, batchVars
  <2>2. CASE history # <<>>
    BY <1>3, <2>2 DEF Load, Batch!Inject
  <2> QED BY <2>1, <2>2
<1>7. Agrees(Start(history))'
  BY <1>1, <1>5, <1>6 DEF Agrees, Start
<1>8a. PICK k \in Nat \ {0} : \E run : IsRun(run, k, history, Snapshot)
  BY DEF ReplayInv
<1>8. PICK run : IsRun(run, k, history, Snapshot)
  BY <1>8a
<1>9. Snapshot' = Snapshot
  BY <1>1 DEF vars, Snapshot
<1>10. 1 \in 1 .. k /\ run[1] = Start(history)
  BY <1>8 DEF IsRun
<1>11. Agrees(run[1])'
  BY <1>1, <1>7, <1>10 DEF Agrees
<1> QED BY <1>1, <1>2, <1>4, <1>8, <1>9, <1>10, <1>11 DEF ReplayInv

\* The batch machine is on the run, as far along it as it can be said to be: at its end,
\* or before a state that something it holds is due for.
LEMMA BatchPlace ==
    ASSUME ReplayInv, stage = "batch"
    PROVE  \E k \in Nat \ {0} : \E run : \E j \in 1 .. k :
              /\ IsRun(run, k, history, Snapshot)
              /\ Agrees(run[j])
              /\ j < k => \E x \in Held(run[j]) : x.timestamp = run[j + 1].tick
<1>1a. PICK k \in Nat \ {0} : \E run : /\ IsRun(run, k, history, Snapshot)
                                       /\ \E j \in 1 .. k : Agrees(run[j])
  BY DEF ReplayInv
<1>1. PICK run : /\ IsRun(run, k, history, Snapshot)
                 /\ \E j \in 1 .. k : Agrees(run[j])
  BY <1>1a
<1> DEFINE S == {j \in 1 .. k : Agrees(run[j])}
<1>2. PICK j \in S : \A l \in S : j >= l
  <2>1. S # {}
    BY <1>1
  <2>2. S \subseteq 0 .. k
    OBVIOUS
  <2> HIDE DEF S
  <2>3. Max(S) \in S /\ \A y \in S : y <= Max(S)
    BY <2>1, <2>2, MaxOfNaturals
  <2>4. \A y \in S : Max(S) >= y
    BY <2>2, <2>3
  <2> QED BY <2>3, <2>4
<1>3. ASSUME j < k, \A x \in Held(run[j]) : x.timestamp # run[j + 1].tick
      PROVE  FALSE
  <2> DEFINE s == run[j]
             q == run[j + 1]
  <2>1. j \in 1 .. k - 1 /\ j \in 1 .. k /\ j + 1 \in 1 .. k
    BY <1>3
  <2>2. Well(s) /\ StepsTo(s, q) /\ \A x \in Held(s) : x.timestamp # q.tick
    BY <1>1, <1>3, <2>1 DEF IsRun
  <2>3. Agrees(s)
    OBVIOUS
  <2> HIDE DEF s, q
  <2>4. Same(s, q)
    BY <2>2, IdleSteps
  <2>5. Agrees(q)
    BY <2>3, <2>4 DEF Same, Agrees
  <2>6. j + 1 \in S
    BY <2>1, <2>5 DEF q
  <2> QED BY <1>2, <2>1, <2>6
<1> QED BY <1>1, <1>2, <1>3
\* A tick of the batch machine takes it to the next state of the run that differs.
LEMMA BatchStepKeepsReplay ==
    ASSUME ReplayInv, BatchStep
    PROVE  ReplayInv'
<1>1. UNCHANGED vars /\ history' = history /\ stage = "batch" /\ stage' = "batch"
  BY DEF BatchStep
<1>2. TimeInv'
  BY <1>1 DEF vars, ReplayInv, TimeInv, DueAfter
<1>3a. PICK k \in Nat \ {0} : \E run : \E j \in 1 .. k :
          /\ IsRun(run, k, history, Snapshot)
          /\ Agrees(run[j])
          /\ j < k => \E x \in Held(run[j]) : x.timestamp = run[j + 1].tick
  BY <1>1, BatchPlace
<1>3b. PICK run : \E j \in 1 .. k :
          /\ IsRun(run, k, history, Snapshot)
          /\ Agrees(run[j])
          /\ j < k => \E x \in Held(run[j]) : x.timestamp = run[j + 1].tick
  BY <1>3a
<1>3. PICK j \in 1 .. k :
          /\ IsRun(run, k, history, Snapshot)
          /\ Agrees(run[j])
          /\ j < k => \E x \in Held(run[j]) : x.timestamp = run[j + 1].tick
  BY <1>3b
<1> DEFINE s == run[j]
           q == run[j + 1]
           T == {x.timestamp : x \in Batch!Pending}
           next == Min(T)
<1>4. next <= last_processed_tick /\ Batch!ProcessTick(next) /\ Batch!Pending # {}
  BY DEF BatchStep
<1>5. Well(s) /\ Agrees(s)
  BY <1>3 DEF IsRun
<1>6. Batch!Pending = Held(s)
  BY <1>5 DEF Agrees, Held, Batch!Pending
<1>7. T # {} /\ T \subseteq Nat /\ T = {x.timestamp : x \in Held(s)}
  BY <1>4, <1>5, <1>6 DEF Well
<1> HIDE DEF T
<1>8. next \in T /\ \A y \in T : next <= y
  BY <1>7, MinOfNaturals
<1>9. j < k
  <2>1. CASE j = k
    <3>1. s = Snapshot
      BY <1>3, <2>1 DEF IsRun
    <3> HIDE DEF s
    <3>2. Held(s) = Pending
      BY <3>1 DEF Held, Snapshot, Pending
    <3>3. \A x \in Pending : x.timestamp > last_processed_tick
      BY DEF ReplayInv, TimeInv, DueAfter, Pending
    <3>4. last_processed_tick \in Int
      BY DEF ReplayInv, TimeInv
    <3>5. PICK x \in Held(s) : x.timestamp = next
      BY <1>7, <1>8
    <3>6. next > last_processed_tick /\ next \in Nat
      BY <1>7, <1>8, <3>2, <3>3, <3>5
    <3> HIDE DEF next
    <3> QED BY <1>4, <3>4, <3>6
  <2> QED BY <2>1
<1>10. /\ j + 1 \in 1 .. k /\ StepsTo(s, q) /\ q.tick \in Int
       /\ \E x \in Held(s) : x.timestamp = q.tick
  BY <1>3, <1>9 DEF IsRun
<1> HIDE DEF s, q
<1>11. next = q.tick
  <2>1. q.tick \in T /\ \A y \in T : q.tick <= y
    BY <1>7, <1>10 DEF StepsTo
  <2>2. next <= q.tick /\ q.tick <= next /\ next \in Int
    BY <1>7, <1>8, <2>1
  <2> HIDE DEF next
  <2> QED BY <1>10, <2>2
<1> DEFINE t == q.tick
           i == At(s.inputs, t)
           r == At(s.routed, t)
           d == At(s.delayed, t)
<1>12. Results(s, q, i, r, d, t)
  BY <1>10 DEF StepsTo
<1>13. Batch!ProcessTick(t)
  BY <1>4, <1>11
<1> HIDE DEF t, next
<1>14. /\ \A B, u : Batch!At(B, u) = At(B, u) /\ Batch!NotAt(B, u) = NotAt(B, u)
       /\ \A A, B : Batch!(+)(A, B) = A (+) B
  BY DEF At, Batch!At, NotAt, Batch!NotAt, (+), Batch!(+)
<1>15. /\ b_input_events = s.inputs /\ b_routed_packets = s.routed
       /\ b_delayed_contributions = s.delayed /\ b_neuron = s.neurons
       /\ b_spikes = s.spikes /\ b_packets = s.packets
  BY <1>5 DEF Agrees
<1>16. /\ \A c \in Cores : Batch!Affected(t, c) = AffectedOf(i, r, d, c)
       /\ \A c \in Cores : \A n \in DOMAIN Params[c] :
             Batch!Update(t, c, n) = UpdateOf(i, r, d, s.neurons, t, c, n)
       /\ Batch!NewlyDelayed(t) = NewlyDelayedOf(i, r, t)
       /\ Batch!NewSpikes(t) = NewSpikesOf(i, r, d, s.neurons, t)
       /\ Batch!NewPackets(t) = NewPacketsOf(i, r, d, s.neurons, t)
  <2>1. /\ Batch!At(b_input_events, t) = i /\ Batch!At(b_routed_packets, t) = r
        /\ Batch!At(b_delayed_contributions, t) = d
    BY <1>14, <1>15
  <2> HIDE DEF i, r, d
  <2> QED BY <1>15, <2>1, BatchPhasesAre
<1> HIDE DEF i, r, d
<1>17. b_neuron' = q.neurons
  <2>1. b_neuron' = [c \in Cores |-> [n \in DOMAIN Params[c] |->
           IF n \in Batch!Affected(t, c) THEN Batch!Update(t, c, n).state ELSE s.neurons[c][n]]]
    BY <1>13, <1>15 DEF Batch!ProcessTick, Batch!Cores, Cores
  <2>2. q.neurons = [c \in Cores |-> [n \in DOMAIN Params[c] |->
           IF n \in AffectedOf(i, r, d, c) THEN UpdateOf(i, r, d, s.neurons, t, c, n).state
           ELSE s.neurons[c][n]]]
    BY <1>12 DEF Results, NeuronsOf
  <2>3. \A c \in Cores : \A n \in DOMAIN Params[c] :
           (IF n \in Batch!Affected(t, c) THEN Batch!Update(t, c, n).state ELSE s.neurons[c][n])
             = (IF n \in AffectedOf(i, r, d, c) THEN UpdateOf(i, r, d, s.neurons, t, c, n).state
                ELSE s.neurons[c][n])
    BY <1>16
  <2> QED BY <2>1, <2>2, <2>3
<1>18. /\ b_input_events' = q.inputs /\ b_routed_packets' = q.routed
       /\ b_delayed_contributions' = q.delayed
       /\ b_spikes' = q.spikes /\ b_packets' = q.packets
  BY <1>12, <1>13, <1>14, <1>15, <1>16 DEF Batch!ProcessTick, Results
<1>19. q = run[j + 1]
  BY DEF q
<1>20. Agrees(run[j + 1])'
  <2>1. b_input_events' = run[j + 1].inputs /\ b_routed_packets' = run[j + 1].routed
        /\ b_delayed_contributions' = run[j + 1].delayed /\ b_neuron' = run[j + 1].neurons
        /\ b_spikes' = run[j + 1].spikes /\ b_packets' = run[j + 1].packets
    BY <1>17, <1>18, <1>19
  <2> QED BY <2>1 DEF Agrees
<1>21. Snapshot' = Snapshot
  BY <1>1 DEF vars, Snapshot
<1>22. history \in Seq(EventRecord)
  BY DEF ReplayInv
<1> QED BY <1>1, <1>2, <1>3, <1>10, <1>20, <1>21, <1>22 DEF ReplayInv

\* What the machine computes does not depend on when its caller injected an event, how the
\* events were grouped, or which idle ticks it stepped through.
THEOREM OnlineIsBatch == ReplaySpec => []OnlineEqualsBatch
<1> DEFINE all == <<vars, stage, history, batchVars>>
<1>1. ReplayInv /\ [OnlineStep \/ Load \/ BatchStep]_all => ReplayInv'
  <2> SUFFICES ASSUME ReplayInv, [OnlineStep \/ Load \/ BatchStep]_all PROVE ReplayInv'
    OBVIOUS
  <2>1. ASSUME NEW events \in EventLists, Inject(events), history' = history \o events,
               stage = "online", UNCHANGED <<stage, batchVars>>
        PROVE  ReplayInv'
    BY <2>1, InjectKeepsReplay
  <2>2. ASSUME NEW t \in 0 .. TickLimit - 1, ProcessTick(t), UNCHANGED history,
               stage = "online", UNCHANGED <<stage, batchVars>>
        PROVE  ReplayInv'
    BY <2>2, ProcessTickKeepsReplay
  <2>3. CASE UNCHANGED all
    <3>1. Snapshot' = Snapshot /\ history' = history /\ stage' = stage
      BY <2>3 DEF vars, Snapshot
    <3>2. TimeInv'
      BY <2>3 DEF vars, ReplayInv, TimeInv, DueAfter
    <3>3. \A x : Agrees(x)' <=> Agrees(x)
      BY <2>3 DEF batchVars, Agrees
    <3> QED BY <3>1, <3>2, <3>3 DEF ReplayInv, Agrees
  <2> QED BY <2>1, <2>2, <2>3, LoadKeepsReplay, BatchStepKeepsReplay DEF OnlineStep
<1>2. ReplayInv => OnlineEqualsBatch
  <2> SUFFICES ASSUME ReplayInv, stage = "batch",
                      \A x \in Batch!Pending : x.timestamp > last_processed_tick
               PROVE  Agrees(Snapshot)
    BY DEF OnlineEqualsBatch, Agrees, Snapshot
  <2>1a. PICK k \in Nat \ {0} : \E run : \E j \in 1 .. k :
            /\ IsRun(run, k, history, Snapshot)
            /\ Agrees(run[j])
            /\ j < k => \E x \in Held(run[j]) : x.timestamp = run[j + 1].tick
    BY BatchPlace
  <2>1b. PICK run : \E j \in 1 .. k :
            /\ IsRun(run, k, history, Snapshot)
            /\ Agrees(run[j])
            /\ j < k => \E x \in Held(run[j]) : x.timestamp = run[j + 1].tick
    BY <2>1a
  <2>1. PICK j \in 1 .. k :
            /\ IsRun(run, k, history, Snapshot)
            /\ Agrees(run[j])
            /\ j < k => \E x \in Held(run[j]) : x.timestamp = run[j + 1].tick
    BY <2>1b
  <2>2. CASE j = k
    BY <2>1, <2>2 DEF IsRun
  <2>3. CASE j < k
    <3>1. /\ run[j + 1].tick \in Int /\ run[j + 1].tick <= last_processed_tick
          /\ last_processed_tick \in Int
      BY <2>1, <2>3 DEF IsRun, Snapshot, ReplayInv, TimeInv
    <3>2. Batch!Pending = Held(run[j])
      BY <2>1 DEF Agrees, Held, Batch!Pending
    <3>3. PICK x \in Held(run[j]) : x.timestamp = run[j + 1].tick
      BY <2>1, <2>3
    <3>4. x.timestamp > last_processed_tick
      BY <3>2
    <3> QED BY <3>1, <3>3, <3>4
  <2> QED BY <2>2, <2>3
<1>3. ReplayInit => ReplayInv
  BY InitReplay
<1> QED BY <1>1, <1>2, <1>3, PTL DEF ReplaySpec
=============================================================================
