--------------------------- MODULE CycleTimeProofs --------------------------
(***************************************************************************)
(* Logical time of the cycle machine, proved for every program,            *)
(* microarchitecture and input: with an orderly host nothing is ever late  *)
(* and every tick ends with all that is due in it done; a batch run leaves *)
(* nothing behind when it stops; and a deadlock is reported only when      *)
(* nothing can move.  What makes it inductive: packets on their way all    *)
(* arrive in one tick, the next one; the external FIFOs are in the order   *)
(* of their timestamps, so that their heads speak for them; and a phase    *)
(* that is over has left its pipelines empty.                              *)
(***************************************************************************)
EXTENDS CycleOnline, CycleProofs

\* An external FIFO is in the order of its timestamps and holds nothing before e.
EventsFrom(c, e) ==
    /\ \A i, j \in 1 .. Len(external_ingress_fifo[c]) :
        i <= j => external_ingress_fifo[c][i].timestamp <= external_ingress_fifo[c][j].timestamp
    /\ \A q \in ToSet(external_ingress_fifo[c]) : q.timestamp >= e

\* No contribution of a core is due before e.
ContributionsFrom(c, e) ==
    /\ \A i \in delayed_contribution_fifo[c] : i.due_tick >= e
    /\ \A i \in ToSet(contribution_pipeline[c]) : i.due_tick >= e

\* What is left of the source is in order and holds nothing before e.
SourceFrom(e) ==
    /\ \A i, j \in 1 .. Len(source_events) :
        i <= j => source_events[i].timestamp <= source_events[j].timestamp
    /\ \A i \in source_index + 1 .. Len(source_events) : source_events[i].timestamp >= e

\* Every packet on its way arrives in tick e itself: the transport takes one tick.
PacketsAt(e) ==
    /\ \A x \in packet_pipeline : x.packet.timestamp = e
    /\ \A c \in Cores :
        /\ \A p \in ToSet(router_input_fifos[c]) : p.timestamp = e
        /\ \A p \in ToSet(router_output_fifos[c]) : p.timestamp = e
        /\ \A p \in ToSet(routed_ingress_fifo[c]) : p.timestamp = e

WorkDrained(c) ==
    /\ axon_lookup_pipeline[c] = <<>> /\ synapse_work_fifo[c] = <<>>
    /\ contribution_pipeline[c] = <<>>

\* The spikes a core has not packetized are of tick t.
SpikesOfTick(c, t) ==
    /\ \A s \in ToSet(spike_fifo[c]) : s.tick = t
    /\ \A w \in ToSet(packetizer_work[c]) : w.tick = t

SpikesDrained(c) == spike_fifo[c] = <<>> /\ packetizer_work[c] = <<>>

\* Only an affected neuron has an accumulator that is not zero.
AccumulatorsClear(c) ==
    \A n \in Neurons(c) : accumulators[c][n] # 0 => n \in affected[c]

\* The explicit ticks not begun yet are later than every begun one, in order.
TicksFrom(e) ==
    /\ \A i, j \in 1 .. Len(explicit_tick_ids) :
        i < j => explicit_tick_ids[i] < explicit_tick_ids[j]
    /\ \A i \in 1 .. Len(explicit_tick_ids) : explicit_tick_ids[i] >= e
    /\ ~explicit_ticks => explicit_tick_ids = <<>>

NextTick == IF tick_active THEN logical_tick + 1 ELSE last_completed_tick + 1

\* What the machine holds may be due in tick e or later.
HeldFrom(e) ==
    /\ SourceFrom(e) /\ PacketsAt(e)
    /\ \A c \in Cores : EventsFrom(c, e) /\ ContributionsFrom(c, e)

TimeInv ==
    /\ HeldFrom(Earliest)
    /\ TicksFrom(NextTick)
    /\ \A c \in Cores : AccumulatorsClear(c)
    /\ ~(tick_active /\ phase = "work") => \A c \in Cores : WorkDrained(c)
    /\ IF tick_active /\ phase \in {"neuron", "packetize"}
       THEN \A c \in Cores : SpikesOfTick(c, logical_tick)
       ELSE \A c \in Cores : SpikesDrained(c)

\* Nothing but the source fed the external FIFOs: they hold events of one tick.
FedBySource(e) == \A c \in Cores : \A q \in ToSet(external_ingress_fifo[c]) : q.timestamp <= e

-----------------------------------------------------------------------------
(* The tick a cycle runs in. *)

\* The timestamps of events are natural numbers.
LEMMA EventTicks ==
    ASSUME StorageInv
    PROVE  /\ \A i \in 1 .. Len(source_events) : source_events[i].timestamp \in Nat
           /\ \A c \in Cores : \A q \in ToSet(external_ingress_fifo[c]) : q.timestamp \in Nat
           /\ source_index \in 0 .. Len(source_events) /\ Len(source_events) \in Nat
<1>1. /\ source_events \in Seq({x \in Event : x.axon \in Axons(x.core)})
      /\ source_index \in 0 .. Len(source_events)
  BY DEF StorageInv, SourceInv
<1>2. \A i \in 1 .. Len(source_events) : source_events[i] \in Event
  BY <1>1
<1>3. ASSUME NEW c \in Cores, NEW q \in ToSet(external_ingress_fifo[c])
      PROVE  q.timestamp \in Nat
  <2>1. external_ingress_fifo[c] \in Seq(HeldEvent(c))
    BY DEF StorageInv, IngressInv
  <2>2. q \in HeldEvent(c)
    BY <1>3, <2>1 DEF ToSet
  <2> QED BY <2>2 DEF HeldEvent, Event
<1> QED BY <1>1, <1>2, <1>3 DEF Event

\* Nothing the tick controller looks for is due before e.
LEMMA PendingFrom ==
    ASSUME StorageInv, NEW e \in Int, HeldFrom(e)
    PROVE  \A t \in PendingTicks : t >= e
<1>1. \A t \in SourceTicks : t >= e
  BY DEF HeldFrom, SourceFrom, SourceTicks, StorageInv, SourceInv
<1>2. \A p \in NetworkPackets : p.timestamp >= e
  BY NetworkMembers DEF HeldFrom, PacketsAt
<1>3. ASSUME NEW c \in Cores, NEW t \in IngressTicks(c) \cup DelayedTicks(c)
      PROVE  t >= e
  <2>1. /\ \A q \in ToSet(external_ingress_fifo[c]) : q.timestamp >= e
        /\ \A q \in ToSet(routed_ingress_fifo[c]) : q.timestamp >= e
        /\ \A i \in delayed_contribution_fifo[c] : i.due_tick >= e
    BY DEF HeldFrom, EventsFrom, PacketsAt, ContributionsFrom
  <2> QED BY <2>1, <1>3 DEF IngressTicks, DelayedTicks
<1> QED BY <1>1, <1>2, <1>3 DEF PendingTicks

\* And all the machine holds is due from a tick on that nothing pending precedes, when
\* its pipelines are empty.
LEMMA FromPending ==
    ASSUME StorageInv, NEW e \in Int, HeldFrom(e), NEW f \in Int, f >= e,
           \A t \in PendingTicks : t >= f, \A c \in Cores : WorkDrained(c)
    PROVE  HeldFrom(f)
<1>1. SourceFrom(f)
  <2>1. source_index \in 0 .. Len(source_events) /\ Len(source_events) \in Nat
    BY EventTicks
  <2>2. ASSUME NEW i \in source_index + 1 .. Len(source_events)
        PROVE  source_events[i].timestamp >= f
    <3>1. source_index + 1 \in 1 .. Len(source_events) /\ i \in 1 .. Len(source_events)
      BY <2>1
    <3>2. source_events[source_index + 1].timestamp \in PendingTicks
      BY <3>1 DEF PendingTicks, SourceTicks
    <3>3. source_events[source_index + 1].timestamp <= source_events[i].timestamp
      BY <3>1, <2>1 DEF HeldFrom, SourceFrom
    <3>4. source_events[source_index + 1].timestamp \in Nat /\ source_events[i].timestamp \in Nat
      BY <3>1, EventTicks
    <3>5. source_events[source_index + 1].timestamp >= f
      BY <3>2
    <3> QED BY <3>3, <3>4, <3>5
  <2> QED BY <2>2 DEF HeldFrom, SourceFrom
<1>2. \A p : p \in NetworkPackets \/ (\E c \in Cores : p \in ToSet(routed_ingress_fifo[c]))
             => p.timestamp = f
  <2> SUFFICES ASSUME NEW p, p \in NetworkPackets \/ \E c \in Cores : p \in ToSet(routed_ingress_fifo[c])
               PROVE  p.timestamp = f
    OBVIOUS
  <2>1. p.timestamp \in PendingTicks
    BY DEF PendingTicks, IngressTicks
  <2>2. p.timestamp = e
    BY NetworkMembers DEF HeldFrom, PacketsAt
  <2> QED BY <2>1, <2>2
<1>3. PacketsAt(f)
  BY <1>2, NetworkMembers DEF PacketsAt
<1>4. ASSUME NEW c \in Cores
      PROVE  EventsFrom(c, f) /\ ContributionsFrom(c, f)
  <2>1. \A t \in IngressTicks(c) \cup DelayedTicks(c) : t \in PendingTicks
    BY DEF PendingTicks
  <2>2. EventsFrom(c, f)
    BY <2>1 DEF HeldFrom, EventsFrom, IngressTicks
  <2>3. contribution_pipeline[c] = <<>>
    BY DEF WorkDrained
  <2>4. ContributionsFrom(c, f)
    BY <2>1, <2>3 DEF ContributionsFrom, DelayedTicks, ToSet
  <2> QED BY <2>2, <2>4
<1> QED BY <1>1, <1>3, <1>4 DEF HeldFrom

\* What holds of a cycle that has begun its tick: e is CurrentTick as long as the work
\* phase lasts.
CycleTime(e) ==
    /\ e = IF InWork THEN CurrentTick ELSE CurrentTick + 1
    /\ HeldFrom(e)
    /\ ~InWork => \A c \in Cores : WorkDrained(c)
    /\ IF CurrentPhase \in {"neuron", "packetize"}
       THEN \A c \in Cores : SpikesOfTick(c, CurrentTick)
       ELSE \A c \in Cores : SpikesDrained(c)
    /\ \A c \in Cores : AccumulatorsClear(c)

\* A cycle begins in time.
LEMMA CycleBegins ==
    ASSUME StorageInv, TimeInv, HasWork
    PROVE  \E e \in Nat : /\ CycleTime(e) /\ Earliest <= e
                          /\ FedBySource(Earliest) => FedBySource(e)
<1>1. CurrentTick \in Nat
  BY TickOfCycle
<1>2. logical_tick \in Nat /\ last_completed_tick \in Nat \cup {NoTick} /\ tick_active \in BOOLEAN
  BY DEF StorageInv, ControlInv
<1>3. CASE tick_active
  <2>1. CurrentTick = logical_tick /\ CurrentPhase = phase
    BY <1>3 DEF CurrentTick, CurrentPhase
  <2>2. Earliest = IF InWork THEN CurrentTick ELSE CurrentTick + 1
    BY <1>3, <2>1 DEF Earliest, InWork
  <2>3. Earliest \in Nat
    BY <2>2, <1>1
  <2>4. CycleTime(Earliest)
    BY <1>3, <2>1, <2>2 DEF CycleTime, TimeInv, InWork
  <2> QED BY <2>3, <2>4
<1>4. CASE ~tick_active
  <2>1. CurrentTick = NextPendingTick /\ CurrentPhase = "work" /\ ~OmittedTick
        /\ NextPendingTick # NoTick
    BY <1>4 DEF CurrentTick, CurrentPhase, HasWork
  <2>2. Earliest = last_completed_tick + 1 /\ NextTick = Earliest /\ Earliest \in Nat
    BY <1>2, <1>4 DEF Earliest, NextTick, NoTick
  <2>3. \A t \in PendingTicks : t \in Nat /\ t >= Earliest
    BY <2>2, PendingAreTicks, PendingFrom DEF TimeInv
  <2>4. Earliest <= CurrentTick /\ \A t \in PendingTicks : t >= CurrentTick
    <3>1. CASE PendingTicks = {}
      <4>1. explicit_ticks /\ explicit_tick_ids # <<>> /\ CurrentTick = Head(explicit_tick_ids)
        BY <3>1, <2>1 DEF NextPendingTick, NextWorkTick, NoTick
      <4>2. explicit_tick_ids \in Seq(Nat)
        BY DEF StorageInv, ControlInv
      <4>3. 1 \in 1 .. Len(explicit_tick_ids) /\ CurrentTick = explicit_tick_ids[1]
        BY <4>1, <4>2
      <4>4. explicit_tick_ids[1] >= NextTick
        BY <4>3 DEF TimeInv, TicksFrom
      <4> QED BY <3>1, <4>3, <4>4, <2>2, <1>1
    <3>2. CASE PendingTicks # {} /\ ~explicit_ticks
      <4>1. CurrentTick = Min(PendingTicks)
        BY <3>2, <2>1 DEF NextPendingTick, NextWorkTick
      <4>2. Min(PendingTicks) \in PendingTicks /\ \A t \in PendingTicks : Min(PendingTicks) <= t
        BY <3>2, MinOfNaturals, PendingAreTicks
      <4> QED BY <4>1, <4>2, <2>3, <1>1
    <3>3. CASE PendingTicks # {} /\ explicit_ticks
      <4>1. NextWorkTick = Min(PendingTicks)
        BY <3>3 DEF NextWorkTick
      <4>2. Min(PendingTicks) \in PendingTicks /\ \A t \in PendingTicks : Min(PendingTicks) <= t
        BY <3>3, MinOfNaturals, PendingAreTicks
      <4>3. Min(PendingTicks) \in Nat
        BY <4>2, <2>3
      <4>4. explicit_tick_ids # <<>> /\ CurrentTick = Head(explicit_tick_ids)
        BY <3>3, <2>1 DEF NextPendingTick
      <4>5. explicit_tick_ids \in Seq(Nat)
        BY DEF StorageInv, ControlInv
      <4>6. 1 \in 1 .. Len(explicit_tick_ids) /\ CurrentTick = explicit_tick_ids[1]
        BY <4>4, <4>5
      <4>7. explicit_tick_ids[1] >= NextTick
        BY <4>6 DEF TimeInv, TicksFrom
      <4>8. ~(NextWorkTick < CurrentTick)
        BY <2>1, <3>3, <4>1, <4>3, <4>4 DEF OmittedTick, NoTick
      <4> QED BY <4>1, <4>2, <4>3, <4>6, <4>7, <4>8, <2>2, <2>3, <1>1
    <3> QED BY <3>1, <3>2, <3>3
  <2>5. HeldFrom(CurrentTick)
    BY <1>1, <1>4, <2>2, <2>4, FromPending DEF TimeInv
  <2>6. CycleTime(CurrentTick)
    BY <1>4, <2>1, <2>5 DEF CycleTime, TimeInv, InWork
  <2>7. FedBySource(Earliest) => FedBySource(CurrentTick)
    <3>1. \A c \in Cores : \A q \in ToSet(external_ingress_fifo[c]) : q.timestamp \in Nat
      BY EventTicks
    <3> QED BY <3>1, <2>2, <2>4, <1>1 DEF FedBySource
  <2> QED BY <1>1, <2>4, <2>6, <2>7
<1> QED BY <1>3, <1>4
-----------------------------------------------------------------------------
(* What the moves of a cycle leave. *)

\* An external FIFO stays in order: either the source is its only producer, and all it
\* holds is of one tick, or there is no source.
LEMMA EventsMoved ==
    ASSUME StorageInv, NEW e \in Nat, CycleTime(e), MoveEvents,
           source_events = <<>> \/ FedBySource(e), NEW c \in Cores
    PROVE  /\ EventsFrom(c, e)'
           /\ FedBySource(e) => \A q \in ToSet(external_ingress_fifo'[c]) : q.timestamp <= e
<1> DEFINE old == external_ingress_fifo[c]
           kept == AfterIngress(c, 0)
           new == external_ingress_fifo'[c]
           Q == HeldEvent(c)
<1>1. new = kept \o SourcedTo(c) /\ IngressFifo(c, 0) = old
  BY DEF MoveEvents, IngressFifo
<1>2. old \in Seq(Q) /\ SourcedTo(c) \in Seq(Q)
  BY SourcedFits DEF StorageInv, IngressInv
<1>3. kept \in Seq(Q) /\ ToSet(kept) \subseteq ToSet(old)
  BY <1>1, <1>2, AfterIngressHolds
<1>4. \A q \in ToSet(old) : q.timestamp >= e /\ q.timestamp \in Nat
  BY EventTicks DEF CycleTime, HeldFrom, EventsFrom
<1>5. \A q \in ToSet(SourcedTo(c)) : q.timestamp = e
  <2>1. \A j \in 1 .. SourceCount : source_events[source_index + j].timestamp = CurrentTick
    BY SourcedFits
  <2>2. SourceCount \in Nat /\ source_index \in Nat /\ (SourceCount > 0 => InWork)
    BY SourcedFits, EventTicks
  <2>3. ASSUME NEW q \in ToSet(SourcedTo(c))
        PROVE  q.timestamp = e
    <3>1. PICK i \in source_index + 1 .. source_index + SourceCount : q = source_events[i]
      BY SourcedFits
    <3>2. i - source_index \in 1 .. SourceCount /\ source_index + (i - source_index) = i
      BY <2>2
    <3>3. source_events[i].timestamp = CurrentTick
      BY <2>1, <3>2
    <3>4. InWork
      BY <2>2, <3>2
    <3> QED BY <3>1, <3>3, <3>4 DEF CycleTime
  <2> QED BY <2>3
<1>6. ToSet(new) = ToSet(kept) \cup ToSet(SourcedTo(c)) /\ new \in Seq(Q)
  BY <1>1, <1>2, <1>3, ConcatHolds
<1>7. \A q \in ToSet(new) : q.timestamp >= e
  BY <1>3, <1>4, <1>5, <1>6
<1>8. FedBySource(e) => \A q \in ToSet(new) : q.timestamp <= e
  BY <1>3, <1>5, <1>6 DEF FedBySource
<1>9. \A i, j \in 1 .. Len(new) : i <= j => new[i].timestamp <= new[j].timestamp
  <2>1. CASE FedBySource(e)
    <3>1. \A q \in ToSet(new) : q.timestamp = e
      <4>1. \A q \in ToSet(new) : q.timestamp \in Nat
        BY <1>3, <1>4, <1>5, <1>6
      <4> QED BY <4>1, <1>7, <1>8, <2>1
    <3>2. \A i \in 1 .. Len(new) : new[i] \in ToSet(new)
      BY DEF ToSet
    <3> QED BY <3>1, <3>2
  <2>2. CASE source_events = <<>>
    <3>1. SourcedTo(c) = <<>>
      <4>1. SourceCount = 0 /\ source_index = 0
        BY <2>2, SourcedFits, EventTicks
      <4>2. ToSet(SourcedTo(c)) = {}
        BY <4>1, SourcedFits
      <4> DEFINE q == SourcedTo(c)
      <4>3. q \in Seq(Q) /\ ToSet(q) = {}
        BY <4>2, <1>2
      <4> HIDE DEF q
      <4>4. Len(q) = 0
        <5>1. Len(q) # 0 => 1 \in 1 .. Len(q)
          BY <4>3
        <5>2. \A i \in 1 .. Len(q) : q[i] \in ToSet(q)
          BY DEF ToSet
        <5> QED BY <5>1, <5>2, <4>3
      <4>5. q = <<>>
        BY <4>3, <4>4
      <4> QED BY <4>5 DEF q
    <3>2. new = kept
      BY <3>1, <1>1, <1>3
    <3>3. \A i, j \in 1 .. Len(old) : i <= j => old[i].timestamp <= old[j].timestamp
      BY DEF CycleTime, HeldFrom, EventsFrom
    <3>4. kept = old \/ (old # <<>> /\ kept = Tail(old))
      BY <1>1 DEF AfterIngress, IngressWins, IngressRequests, HeadDue
    <3> HIDE DEF old, kept, new
    <3>5. CASE kept = Tail(old) /\ old # <<>>
      <4>1. Len(Tail(old)) = Len(old) - 1 /\ \A i \in 1 .. Len(Tail(old)) : Tail(old)[i] = old[i + 1]
        BY <3>5, <1>2
      <4>2. Len(old) \in Nat
        BY <1>2
      <4> QED BY <3>2, <3>3, <3>5, <4>1, <4>2
    <3> QED BY <3>2, <3>3, <3>4, <3>5
  <2> QED BY <2>1, <2>2
<1> QED BY <1>7, <1>8, <1>9 DEF EventsFrom

\* The source that is left.
LEMMA SourceMoved ==
    ASSUME StorageInv, NEW e \in Nat, CycleTime(e), MoveEvents, source_events' = source_events
    PROVE  SourceFrom(e)'
<1>1. source_index' = source_index + SourceCount
  BY DEF MoveEvents
<1>2. SourceCount \in Nat /\ source_index \in Nat /\ Len(source_events) \in Nat
  BY SourcedFits, EventTicks, ProgramFinite
<1> DEFINE n == SourceCount
           k == source_index
<1>3. \A i : i \in k + n + 1 .. Len(source_events) => i \in k + 1 .. Len(source_events)
  BY <1>2
<1> QED BY <1>1, <1>3 DEF SourceFrom, CycleTime, HeldFrom

\* A packet on its way names an axon of its core.
LEMMA PacketsTyped ==
    ASSUME StorageInv
    PROVE  /\ \A x \in packet_pipeline : x.packet \in RoutedPacket
           /\ \A c \in Cores :
                /\ \A p \in ToSet(router_input_fifos[c]) : p \in RoutedPacket
                /\ \A p \in ToSet(router_output_fifos[c]) : p \in RoutedPacket
                /\ \A p \in ToSet(routed_ingress_fifo[c]) : p \in RoutedPacket
<1>1. \A x \in packet_pipeline : x.packet \in RoutedPacket
  BY DEF StorageInv, PacketInv
<1>2. ASSUME NEW c \in Cores
      PROVE  /\ \A p \in ToSet(router_input_fifos[c]) : p \in RoutedPacket
             /\ \A p \in ToSet(router_output_fifos[c]) : p \in RoutedPacket
             /\ \A p \in ToSet(routed_ingress_fifo[c]) : p \in RoutedPacket
  <2>1. /\ router_input_fifos[c] \in Seq(RoutedPacket)
        /\ router_output_fifos[c] \in Seq(HeldPacket(c))
        /\ routed_ingress_fifo[c] \in Seq(HeldPacket(c))
    BY DEF StorageInv, RouterInv, IngressInv
  <2>2. HeldPacket(c) \subseteq RoutedPacket
    BY DEF HeldPacket, RoutedPacket
  <2>3. \A p \in ToSet(router_input_fifos[c]) : p \in RoutedPacket
    BY <2>1 DEF ToSet
  <2>4. \A p \in ToSet(router_output_fifos[c]) : p \in RoutedPacket
    BY <2>1, <2>2 DEF ToSet
  <2>5. \A p \in ToSet(routed_ingress_fifo[c]) : p \in RoutedPacket
    BY <2>1, <2>2 DEF ToSet
  <2> QED BY <2>3, <2>4, <2>5
<1> QED BY <1>1, <1>2

\* Every packet on its way is in P.
PacketsIn(P) ==
    /\ \A x \in packet_pipeline : x.packet \in P
    /\ \A c \in Cores :
        /\ \A p \in ToSet(router_input_fifos[c]) : p \in P
        /\ \A p \in ToSet(router_output_fifos[c]) : p \in P
        /\ \A p \in ToSet(routed_ingress_fifo[c]) : p \in P

\* The network holds the packets it held before and those a packetizer makes.
LEMMA PacketsStay ==
    ASSUME StorageInv, CurrentTick \in Nat, NEW g \in GrantSeqs, IsArbitration(g),
           MoveNetwork(g), MoveEvents, NEW P, PacketsIn(P),
           \A i \in DOMAIN NewPackets : NewPackets[i] \in P
    PROVE  PacketsIn(P)'
<1>1. PacketsIn(P) /\ \A i \in DOMAIN NewPackets : NewPackets[i] \in P
  OBVIOUS
<1>3. \A y \in packet_pipeline' : y.packet \in P
  <2>1. ASSUME NEW y \in packet_pipeline'
        PROVE  (\E z \in packet_pipeline : y = Waited(z))
               \/ \E i \in DOMAIN NewPackets :
                    y = Waited([packet |-> NewPackets[i], wait |-> packetizer_latency])
    BY DEF MoveNetwork
  <2>2. ASSUME NEW z \in packet_pipeline
        PROVE  Waited(z).packet = z.packet
    BY DEF Waited, StorageInv, PacketInv
  <2>3. \A p : Waited([packet |-> p, wait |-> packetizer_latency]).packet = p
    BY DEF Waited
  <2>4. \A i \in DOMAIN NewPackets : NewPackets[i] \in P
    BY <1>1
  <2>5. ASSUME NEW y \in packet_pipeline'
        PROVE  y.packet \in P
    <3>1. CASE \E z \in packet_pipeline : y = Waited(z)
      BY <3>1, <2>2, <1>1 DEF PacketsIn
    <3>2. ASSUME NEW i \in DOMAIN NewPackets,
                 y = Waited([packet |-> NewPackets[i], wait |-> packetizer_latency])
          PROVE  y.packet \in P
      <4>1. y.packet = NewPackets[i]
        BY <3>2, <2>3
      <4> QED BY <4>1, <2>4
    <3> QED BY <3>1, <3>2, <2>1
  <2> QED BY <2>5
<1>4. \A p \in ReadyPackets : p \in P
  BY <1>1 DEF ReadyPackets, PacketsIn
<1>5. ASSUME NEW c \in Cores, NEW p \in ToSet(router_input_fifos'[c])
      PROVE  p \in P
  <2> DEFINE kept == IF c \in ToSet(g) THEN Tail(router_input_fifos[c]) ELSE router_input_fifos[c]
  <2>1. router_input_fifos'[c] = kept \o AcceptedFrom(c)
    BY DEF MoveNetwork
  <2>2. router_input_fifos[c] \in Seq(RoutedPacket)
    BY DEF StorageInv, RouterInv
  <2>3. kept \in Seq(RoutedPacket) /\ ToSet(kept) \subseteq ToSet(router_input_fifos[c])
    <3>1. c \in ToSet(g) => router_input_fifos[c] # <<>>
      BY GrantsAreRequests DEF ToSet
    <3> QED BY <2>2, <3>1, TailHolds
  <2>4. AcceptedFrom(c) \in Seq(RoutedPacket) /\ ToSet(AcceptedFrom(c)) \subseteq ReadyPackets
    BY AcceptedFits
  <2> HIDE DEF kept
  <2>5. p \in ToSet(kept) \cup ToSet(AcceptedFrom(c))
    BY <1>5, <2>1, <2>3, <2>4, ConcatHolds
  <2> QED BY <2>3, <2>4, <2>5, <1>1, <1>4 DEF PacketsIn
<1>6. ASSUME NEW d \in Cores
      PROVE  /\ \A p \in ToSet(router_output_fifos'[d]) : p \in P
             /\ \A p \in ToSet(routed_ingress_fifo'[d]) : p \in P
  <2> DEFINE out == router_output_fifos[d]
             n == Transmitted(d)
             rest == SubSeq(out, n + 1, Len(out))
             sent == SubSeq(out, 1, n)
             kept == AfterIngress(d, 1)
  <2>1. out \in Seq(HeldPacket(d)) /\ routed_ingress_fifo[d] \in Seq(HeldPacket(d))
    BY DEF StorageInv, RouterInv, IngressInv
  <2>2. n \in 0 .. Len(out)
    BY TransmittedFits
  <2>3. /\ rest \in Seq(HeldPacket(d)) /\ ToSet(rest) \subseteq ToSet(out)
        /\ sent \in Seq(HeldPacket(d)) /\ ToSet(sent) \subseteq ToSet(out)
    BY <2>1, <2>2, RestHolds, FrontHolds
  <2>4. /\ GrantedTo(g, d) \in Seq(HeldPacket(d))
        /\ ToSet(GrantedTo(g, d)) \subseteq {RequestOf(g[i]) : i \in 1 .. Len(g)}
    BY GrantedFits
  <2>5. \A i \in 1 .. Len(g) : RequestOf(g[i]) \in P
    BY <1>1, GrantsAreRequests DEF PacketsIn
  <2>6. IngressFifo(d, 1) = routed_ingress_fifo[d]
    BY DEF IngressFifo
  <2>7. kept \in Seq(HeldPacket(d)) /\ ToSet(kept) \subseteq ToSet(routed_ingress_fifo[d])
    BY <2>1, <2>6, AfterIngressHolds
  <2>8. router_output_fifos'[d] = rest \o GrantedTo(g, d) /\ routed_ingress_fifo'[d] = kept \o sent
    BY DEF MoveNetwork, MoveEvents
  <2> HIDE DEF rest, sent, kept
  <2>9. /\ ToSet(router_output_fifos'[d]) = ToSet(rest) \cup ToSet(GrantedTo(g, d))
        /\ ToSet(routed_ingress_fifo'[d]) = ToSet(kept) \cup ToSet(sent)
    BY <2>3, <2>4, <2>7, <2>8, ConcatHolds
  <2>10. \A p \in ToSet(GrantedTo(g, d)) : p \in P
    BY <2>4, <2>5
  <2> QED BY <2>3, <2>7, <2>9, <2>10, <1>1 DEF PacketsIn
<1> QED BY <1>3, <1>5, <1>6 DEF PacketsIn

\* Packets stay packets of the next tick: a new one takes one tick for its transport.
LEMMA PacketsMoved ==
    ASSUME StorageInv, CurrentTick \in Nat, NEW e \in Nat, CycleTime(e),
           NEW g \in GrantSeqs, IsArbitration(g), MoveNetwork(g), MoveEvents
    PROVE  PacketsAt(e)'
<1> DEFINE P == {p \in RoutedPacket : p.timestamp = e}
<1>1. PacketsIn(P)
  <2>1. PacketsAt(e)
    BY DEF CycleTime, HeldFrom
  <2>2. /\ \A x \in packet_pipeline : x.packet \in RoutedPacket
        /\ \A c \in Cores :
            /\ \A p \in ToSet(router_input_fifos[c]) : p \in RoutedPacket
            /\ \A p \in ToSet(router_output_fifos[c]) : p \in RoutedPacket
            /\ \A p \in ToSet(routed_ingress_fifo[c]) : p \in RoutedPacket
    BY PacketsTyped
  <2> QED BY <2>1, <2>2 DEF PacketsAt, PacketsIn
<1>2. ASSUME NEW x \in PacketizedRoutes
      PROVE  PacketFor(x).timestamp = e
  <2>1. x[1] \in Cores /\ packetizer_work[x[1]] # <<>>
    BY RoutesFit
  <2>2. CurrentPhase \in {"neuron", "packetize"} /\ SpikesOfTick(x[1], CurrentTick)
    BY <2>1 DEF CycleTime, SpikesDrained
  <2>3. Head(packetizer_work[x[1]]) \in ToSet(packetizer_work[x[1]])
    <3>1. packetizer_work[x[1]] \in Seq(PacketizerWork(x[1]))
      BY <2>1 DEF StorageInv, RouterInv
    <3> QED BY <2>1, <3>1, TailHolds
  <2>4. PacketFor(x).timestamp = Head(packetizer_work[x[1]]).tick + 1
    BY DEF PacketFor
  <2>5. e = CurrentTick + 1
    BY <2>2 DEF CycleTime, InWork
  <2> QED BY <2>2, <2>3, <2>4, <2>5 DEF SpikesOfTick
<1>3. \A i \in DOMAIN NewPackets : NewPackets[i] \in P
  BY <1>2, NewPacketsFit
<1> HIDE DEF P
<1>4. PacketsIn(P)'
  BY <1>1, <1>3, PacketsStay
<1> QED BY <1>4 DEF P, PacketsIn, PacketsAt

\* A synapse is not read before its tick, and a contribution that is early is delayed.
LEMMA ContributionsMoved ==
    ASSUME StorageInv, CurrentTick \in Nat, NEW e \in Nat, CycleTime(e), MoveContributions,
           NEW c \in Cores
    PROVE  ContributionsFrom(c, e)'
<1> DEFINE kept == Picked(contribution_pipeline[c], KeptContributions(c))
           next == kept \o IssuedContributions(c)
           T == PipedContribution(c)
<1>1. contribution_pipeline[c] \in Seq(T) /\ ContributionsFrom(c, e)
  BY DEF StorageInv, ContributionInv, CycleTime, HeldFrom
<1>2. KeptContributions(c) \subseteq 1 .. Len(contribution_pipeline[c])
  BY DEF KeptContributions
<1>3. kept \in Seq(T) /\ ToSet(kept) \subseteq {contribution_pipeline[c][k] : k \in KeptContributions(c)}
  BY <1>1, <1>2, PickedHolds
<1>4. \A i \in ToSet(kept) : i.due_tick >= e
  BY <1>1, <1>2, <1>3 DEF ContributionsFrom, ToSet
<1>5. \A i \in ToSet(IssuedContributions(c)) : i.due_tick >= e
  <2>1. /\ IssuedContributions(c) \in Seq(T) /\ Len(IssuedContributions(c)) = IssueCount(c)
        /\ \A k \in 1 .. IssueCount(c) : IssuedContributions(c)[k].due_tick >= CurrentTick
    BY IssuedHold
  <2>2. IssueCount(c) \in Nat /\ (IssueCount(c) > 0 => InWork)
    BY IssueFits
  <2>3. ASSUME NEW i \in ToSet(IssuedContributions(c))
        PROVE  i.due_tick >= e
    <3>1. PICK k \in 1 .. IssueCount(c) : i = IssuedContributions(c)[k]
      BY <2>1 DEF ToSet
    <3>2. InWork
      BY <2>2
    <3> QED BY <3>1, <3>2, <2>1 DEF CycleTime
  <2> QED BY <2>3
<1>6. IssuedContributions(c) \in Seq(T)
  BY IssuedHold
<1>7. contribution_pipeline'[c] = [k \in 1 .. Len(next) |-> Waited(next[k])]
  BY DEF MoveContributions
<1> HIDE DEF kept
<1>8. next \in Seq(T) /\ \A i \in ToSet(next) : i.due_tick >= e
  BY <1>3, <1>4, <1>5, <1>6, ConcatHolds
<1> HIDE DEF next
<1>9. \A i \in ToSet(contribution_pipeline'[c]) : i.due_tick >= e
  <2>1. \A i \in T : Waited(i).due_tick = i.due_tick
    BY DEF Waited, PipedContribution
  <2>2. \A k \in 1 .. Len(next) : next[k] \in T /\ next[k] \in ToSet(next)
    BY <1>8 DEF ToSet
  <2>3. \A k \in 1 .. Len(next) : Waited(next[k]).due_tick >= e
    BY <2>1, <2>2, <1>8
  <2>4. ASSUME NEW i \in ToSet(contribution_pipeline'[c])
        PROVE  \E k \in 1 .. Len(next) : i = Waited(next[k])
    BY <1>7 DEF ToSet
  <2> QED BY <2>3, <2>4
<1>10. \A i \in delayed_contribution_fifo'[c] : i.due_tick >= e
  <2>1. delayed_contribution_fifo'[c]
           = (delayed_contribution_fifo[c] \ AccumulatorWrites(c)) \cup Deferred(c)
    BY DEF MoveContributions
  <2>2. \A i \in Deferred(c) : i.due_tick >= e
    <3>1. CASE InWork
      <4>1. e = CurrentTick /\ \A i \in Deferred(c) : i.due_tick > CurrentTick
        BY <3>1, DeferredFits DEF CycleTime
      <4>2. \A i \in Deferred(c) : i.due_tick \in Nat
        BY DeferredFits, WritesHold DEF HeldContribution
      <4> QED BY <4>1, <4>2
    <3>2. CASE ~InWork
      BY <3>2 DEF Deferred
    <3> QED BY <3>1, <3>2
  <2> QED BY <2>1, <2>2, <1>1 DEF ContributionsFrom
<1> QED BY <1>9, <1>10 DEF ContributionsFrom

\* A written accumulator names its neuron affected; one that is read is cleared.
LEMMA AccumulatorsMoved ==
    ASSUME StorageInv, NEW c \in Cores, AccumulatorsClear(c), MoveContributions
    PROVE  AccumulatorsClear(c)'
<1> DEFINE W(n) == {i \in AccumulatorWrites(c) : i.target = n}
<1>1. ASSUME NEW n \in Neurons(c), accumulators'[c][n] # 0
      PROVE  n \in affected'[c]
  <2>1. accumulators'[c][n] = IF n \in WrittenNeurons(c) THEN 0
                              ELSE IF W(n) = {} THEN accumulators[c][n]
                                   ELSE accumulators[c][n] + (CHOOSE i \in W(n) : TRUE).weight
    BY DEF MoveContributions
  <2>2. affected'[c] = (affected[c] \ WrittenNeurons(c))
                          \cup {i.target : i \in AccumulatorWrites(c)}
    BY DEF MoveContributions
  <2>3. n \notin WrittenNeurons(c)
    BY <2>1, <1>1
  <2>4. W(n) # {} => n \in {i.target : i \in AccumulatorWrites(c)}
    OBVIOUS
  <2>5. W(n) = {} => accumulators[c][n] # 0
    BY <2>1, <2>3, <1>1
  <2> QED BY <2>2, <2>3, <2>4, <2>5 DEF AccumulatorsClear
<1> QED BY <1>1 DEF AccumulatorsClear

\* The pipelines of the work phase stay empty after it.
LEMMA DrainedMoved ==
    ASSUME StorageInv, ~InWork, MoveEvents, MoveContributions, NEW c \in Cores, WorkDrained(c)
    PROVE  WorkDrained(c)'
<1>1. IssueCount(c) = 0 /\ ~LookupDone(c) /\ IngressRequests(c) = {}
  BY DEF IssueCount, LookupDone, IngressRequests
<1>2. LookedUp(c) = <<>> /\ LookupStarted(c) = <<>> /\ SynapseWorkLeft(c) = synapse_work_fifo[c]
  BY <1>1 DEF LookedUp, LookupStarted, SynapseWorkLeft
<1>3. synapse_work_fifo'[c] = <<>>
  BY <1>2 DEF MoveEvents, WorkDrained
<1>4. axon_lookup_pipeline'[c] = <<>>
  <2> DEFINE next == axon_lookup_pipeline[c] \o LookupStarted(c)
  <2>1. axon_lookup_pipeline'[c] = [k \in 1 .. Len(next) |-> Waited(next[k])]
    BY <1>1 DEF MoveEvents
  <2>2. next = <<>>
    BY <1>2 DEF WorkDrained
  <2> HIDE DEF next
  <2>3. 1 .. Len(next) = {}
    BY <2>2
  <2> QED BY <2>1, <2>3
<1>5. contribution_pipeline'[c] = <<>>
  <2> DEFINE kept == Picked(contribution_pipeline[c], KeptContributions(c))
             next == kept \o IssuedContributions(c)
  <2>1. contribution_pipeline'[c] = [k \in 1 .. Len(next) |-> Waited(next[k])]
    BY DEF MoveContributions
  <2>2. contribution_pipeline[c] = <<>>
    BY DEF WorkDrained
  <2>3. KeptContributions(c) = {}
    BY <2>2 DEF KeptContributions
  <2>4. kept = <<>>
    <3>1. Cardinality({}) = 0
      BY FS_EmptySet
    <3> QED BY <2>3, <3>1 DEF Picked
  <2>5. IssuedContributions(c) = <<>>
    BY <1>1 DEF IssuedContributions
  <2>6. next = <<>>
    BY <2>4, <2>5
  <2> HIDE DEF next
  <2>7. 1 .. Len(next) = {}
    BY <2>6
  <2> QED BY <2>1, <2>7
<1> QED BY <1>3, <1>4, <1>5 DEF WorkDrained

\* Spikes are recorded and packetized in the tick of their neuron phase.
LEMMA SpikesMoved ==
    ASSUME StorageInv, NEW g, MoveNetwork(g), MoveNeurons, NEW c \in Cores
    PROVE  /\ CurrentPhase \in {"neuron", "packetize"} /\ SpikesOfTick(c, CurrentTick) =>
                \A t : t = CurrentTick => SpikesOfTick(c, t)'
           /\ ~InNeuron /\ SpikesDrained(c) => SpikesDrained(c)'
<1> DEFINE fired == SpikesOf(c)
           new == [i \in DOMAIN fired |-> [tick |-> CurrentTick, neuron |-> fired[i].neuron]]
           kept == IF SpikeTaken(c) THEN Tail(spike_fifo[c]) ELSE spike_fifo[c]
<1>1. spike_fifo'[c] = kept \o new /\ packetizer_work'[c] = PacketizerWorkAfter(c)
  BY DEF MoveNeurons, MoveNetwork
<1>2. spike_fifo[c] \in Seq(CycleSpike(c)) /\ packetizer_work[c] \in Seq(PacketizerWork(c))
  BY DEF StorageInv, NeuronInv, RouterInv
<1>3. /\ Len(fired) \in Nat /\ DOMAIN fired = 1 .. Len(fired)
      /\ Len(fired) > 0 => InNeuron
  BY SpikesFit
<1>4. kept \in Seq(CycleSpike(c)) /\ ToSet(kept) \subseteq ToSet(spike_fifo[c])
  <2>1. SpikeTaken(c) => spike_fifo[c] # <<>>
    BY DEF SpikeTaken
  <2> QED BY <1>2, <2>1, TailHolds
<1>5. ASSUME SpikesOfTick(c, CurrentTick), NEW t, t = CurrentTick
      PROVE  SpikesOfTick(c, t)'
  <2> DEFINE S == CycleSpike(c) \cup {[tick |-> CurrentTick, neuron |-> fired[i].neuron] :
                                          i \in DOMAIN fired}
  <2> HIDE DEF fired, kept
  <2>1. new \in [1 .. Len(fired) -> S]
    BY <1>3
  <2> DEFINE m == Len(fired)
  <2>2. new \in Seq(S) /\ ToSet(new) = {new[i] : i \in 1 .. m}
    <3>1. m \in Nat
      BY <1>3
    <3> HIDE DEF new, S, m
    <3>2. new \in [1 .. m -> S]
      BY <2>1 DEF m
    <3> QED BY <3>1, <3>2, FunctionIsSequence
  <2>3. \A s \in ToSet(new) : s.tick = t
    BY <2>2, <1>3, <1>5
  <2>4. kept \in Seq(S)
    <3>1. CycleSpike(c) \subseteq S
      OBVIOUS
    <3> QED BY <3>1, <1>4
  <2> HIDE DEF new, S
  <2>5. ToSet(spike_fifo'[c]) = ToSet(kept) \cup ToSet(new)
    BY <1>1, <2>2, <2>4, ConcatHolds
  <2>6. \A s \in ToSet(spike_fifo'[c]) : s.tick = t
    BY <2>3, <2>5, <1>4, <1>5 DEF SpikesOfTick
  <2>7. \A w \in ToSet(packetizer_work'[c]) : w.tick = t
    <3> DEFINE w == Head(packetizer_work[c])
               s == Head(spike_fifo[c])
               k == Cardinality(PacketizedFrom(c))
               left == [w EXCEPT !.next_route = @ + k]
               taken == [tick |-> s.tick, neuron |-> s.neuron, next_route |-> 1]
    <3>1. packetizer_work[c] # <<>> => w \in PacketizerWork(c) /\ w.tick = t
      BY <1>2, <1>5, TailHolds DEF SpikesOfTick
    <3>2. SpikeTaken(c) => s.tick = t /\ packetizer_work[c] = <<>>
      BY <1>2, <1>5, TailHolds DEF SpikesOfTick, SpikeTaken
    <3>3. \/ packetizer_work[c] # <<>> /\ PacketizerWorkAfter(c) = <<left>>
          \/ SpikeTaken(c) /\ PacketizerWorkAfter(c) = <<taken>>
          \/ PacketizerWorkAfter(c) = <<>>
      BY DEF PacketizerWorkAfter, SpikeTaken
    <3>4. \A x : ToSet(<<x>>) = {x}
      BY DEF ToSet
    <3>5. ToSet(<<>>) = {}
      BY DEF ToSet
    <3>6. packetizer_work[c] # <<>> => left.tick = t
      BY <3>1 DEF PacketizerWork
    <3>7. SpikeTaken(c) => taken.tick = t
      BY <3>2
    <3> HIDE DEF w, s, k, left, taken
    <3>8. \A v \in ToSet(PacketizerWorkAfter(c)) : v.tick = t
      BY <3>3, <3>4, <3>5, <3>6, <3>7
    <3> QED BY <1>1, <3>8
  <2> QED BY <2>6, <2>7 DEF SpikesOfTick
<1>6. ASSUME ~InNeuron, SpikesDrained(c)
      PROVE  SpikesDrained(c)'
  <2>1. spike_fifo[c] = <<>> /\ packetizer_work[c] = <<>>
    BY <1>6 DEF SpikesDrained
  <2>2. ~SpikeTaken(c)
    BY <2>1 DEF SpikeTaken
  <2>3. kept = <<>> /\ PacketizerWorkAfter(c) = <<>>
    BY <2>1, <2>2 DEF PacketizerWorkAfter
  <2>4. DOMAIN fired = {}
    BY <1>3, <1>6
  <2>5. new = <<>>
    BY <2>4
  <2> QED BY <1>1, <2>3, <2>5 DEF SpikesDrained
<1> QED BY <1>5, <1>6
-----------------------------------------------------------------------------
(* The tick controller. *)

\* When the work phase completes, nothing due in its tick is left: the heads of the FIFOs
\* speak for what is behind them.
LEMMA WorkDone ==
    ASSUME StorageInv', HeldFrom(logical_tick)', WorkComplete'
    PROVE  /\ HeldFrom(logical_tick + 1)'
           /\ \A c \in Cores : WorkDrained(c)'
<1> DEFINE e == logical_tick'
<1>1. e \in Nat
  BY DEF StorageInv, ControlInv
<1>2. ASSUME NEW c \in Cores
      PROVE  EventsFrom(c, logical_tick + 1)'
  <2> DEFINE fifo == external_ingress_fifo'[c]
  <2>1. fifo \in Seq(HeldEvent(c))
    BY DEF StorageInv, IngressInv, HeldEvent, Event
  <2>2. /\ \A i, j \in 1 .. Len(fifo) : i <= j => fifo[i].timestamp <= fifo[j].timestamp
        /\ \A q \in ToSet(fifo) : q.timestamp >= e
    BY DEF HeldFrom, EventsFrom
  <2>3. ~(fifo # <<>> /\ Head(fifo).timestamp = e)
    BY DEF WorkComplete, HeadDue
  <2>4. \A q \in HeldEvent(c) : q.timestamp \in Nat
    BY DEF HeldEvent, Event
  <2> HIDE DEF fifo, e
  <2>5. \A q \in ToSet(fifo) : q.timestamp >= e + 1
    <3> SUFFICES ASSUME NEW i \in 1 .. Len(fifo) PROVE fifo[i].timestamp >= e + 1
      BY DEF ToSet
    <3>1. fifo # <<>> /\ 1 \in 1 .. Len(fifo) /\ Head(fifo) = fifo[1] /\ i >= 1
      BY <2>1
    <3>2. fifo[1] \in HeldEvent(c) /\ fifo[i] \in HeldEvent(c) /\ fifo[1] \in ToSet(fifo)
      BY <3>1, <2>1 DEF ToSet
    <3>3. fifo[1].timestamp >= e /\ fifo[1].timestamp # e /\ fifo[1].timestamp <= fifo[i].timestamp
      BY <3>1, <3>2, <2>2, <2>3
    <3> QED BY <3>2, <3>3, <2>4, <1>1
  <2> QED BY <2>2, <2>5 DEF fifo, e, EventsFrom
<1>3. ASSUME NEW c \in Cores
      PROVE  ToSet(routed_ingress_fifo'[c]) = {}
  <2> DEFINE fifo == routed_ingress_fifo'[c]
  <2>1. fifo \in Seq(HeldPacket(c))
    BY DEF StorageInv, IngressInv, HeldPacket, Packet
  <2>2. \A p \in ToSet(fifo) : p.timestamp = e
    BY DEF HeldFrom, PacketsAt
  <2>3. ~(fifo # <<>> /\ Head(fifo).timestamp = e)
    BY DEF WorkComplete, HeadDue
  <2> HIDE DEF fifo, e
  <2>4. fifo # <<>> => Head(fifo) \in ToSet(fifo)
    BY <2>1, TailHolds
  <2>5. fifo = <<>>
    BY <2>2, <2>3, <2>4
  <2> QED BY <2>5 DEF fifo, ToSet
<1>4. PacketsAt(logical_tick + 1)'
  <2>1. \A p \in NetworkPackets' : p.timestamp > e
    BY DEF WorkComplete
  <2>2. \A p : p \in NetworkPackets' <=>
            \/ \E x \in packet_pipeline' : p = x.packet
            \/ \E c \in Cores : p \in ToSet(router_input_fifos'[c]) \cup ToSet(router_output_fifos'[c])
    BY DEF NetworkPackets
  <2>3. /\ \A x \in packet_pipeline' : x.packet.timestamp = e
        /\ \A c \in Cores : /\ \A p \in ToSet(router_input_fifos'[c]) : p.timestamp = e
                            /\ \A p \in ToSet(router_output_fifos'[c]) : p.timestamp = e
    BY DEF HeldFrom, PacketsAt
  <2>4. \A p \in NetworkPackets' : p.timestamp = e
    BY <2>2, <2>3
  <2>5. NetworkPackets' = {}
    BY <2>1, <2>4, <1>1
  <2>6. packet_pipeline' = {} /\ \A c \in Cores : ToSet(router_input_fifos'[c]) = {}
                                                  /\ ToSet(router_output_fifos'[c]) = {}
    BY <2>2, <2>5
  <2> QED BY <2>6, <1>3 DEF PacketsAt
<1>5. ASSUME NEW c \in Cores
      PROVE  WorkDrained(c)' /\ ContributionsFrom(c, logical_tick + 1)'
  <2>1. WorkDrained(c)'
    BY DEF WorkComplete, WorkDrained
  <2>2. \A i \in delayed_contribution_fifo'[c] : i.due_tick >= e /\ i.due_tick # e
    BY DEF WorkComplete, HeldFrom, ContributionsFrom
  <2>3. \A i \in delayed_contribution_fifo'[c] : i.due_tick \in Nat
    BY DEF StorageInv, ContributionInv, HeldContribution
  <2>4. ToSet(contribution_pipeline'[c]) = {}
    BY <2>1 DEF WorkDrained, ToSet
  <2>5. \A i \in delayed_contribution_fifo'[c] : i.due_tick >= e + 1
    BY <2>2, <2>3, <1>1
  <2> QED BY <2>1, <2>4, <2>5 DEF ContributionsFrom
<1>6. SourceFrom(logical_tick + 1)'
  <2> DEFINE k == source_index'
             at(i) == source_events'[i].timestamp
             n == Len(source_events')
  <2>1. source_events' \in Seq({x \in Event : x.axon \in Axons(x.core)}) /\ k \in 0 .. n
    BY DEF StorageInv, SourceInv, Event
  <2>2. n \in Nat /\ \A i \in 1 .. n : source_events'[i] \in Event
    BY <2>1
  <2>3. \A i \in 1 .. n : at(i) \in Nat
    BY <2>2 DEF Event
  <2>4. /\ \A i, j \in 1 .. n : i <= j => at(i) <= at(j)
        /\ \A i \in k + 1 .. n : at(i) >= e
    BY DEF HeldFrom, SourceFrom
  <2>5. k >= n \/ at(k + 1) # e
    BY DEF WorkComplete
  <2> HIDE DEF at, k, n, e
  <2>6. ASSUME NEW i \in k + 1 .. n
        PROVE  at(i) >= e + 1
    <3>1. k + 1 \in 1 .. n /\ i \in 1 .. n /\ k + 1 <= i /\ k + 1 \in k + 1 .. n /\ ~(k >= n)
      BY <2>1, <2>2
    <3>2. at(k + 1) >= e /\ at(k + 1) # e /\ at(k + 1) <= at(i)
      BY <3>1, <2>4, <2>5
    <3> QED BY <3>1, <3>2, <2>3, <1>1
  <2> QED BY <2>4, <2>6 DEF SourceFrom, at, k, n, e
<1> QED BY <1>2, <1>4, <1>5, <1>6 DEF HeldFrom

\* The explicit ticks that are left after a cycle.
LEMMA TicksMoved ==
    ASSUME StorageInv, TimeInv, StepCycle
    PROVE  \A t : t = CurrentTick + 1 => TicksFrom(t)'
<1> DEFINE ids == explicit_tick_ids
<1>1. ids \in Seq(Nat) /\ CurrentTick \in Nat
  BY TickOfCycle DEF StorageInv, ControlInv, StepCycle
<1>2. /\ \A i, j \in 1 .. Len(ids) : i < j => ids[i] < ids[j]
      /\ \A i \in 1 .. Len(ids) : ids[i] >= NextTick
      /\ ~explicit_ticks => ids = <<>>
  BY DEF TimeInv, TicksFrom
<1>3. explicit_ticks' = explicit_ticks
  BY DEF StepCycle
<1>4. CASE tick_active
  <2>1. explicit_tick_ids' = ids /\ NextTick = CurrentTick + 1
    BY <1>4 DEF StepCycle, NextTick, CurrentTick
  <2> QED BY <2>1, <1>2, <1>3 DEF TicksFrom
<1>5. CASE ~tick_active /\ explicit_ticks
  <2>1. explicit_tick_ids' = Tail(ids)
    BY <1>5 DEF StepCycle
  <2>2. ids # <<>> /\ CurrentTick = Head(ids)
    BY <1>5 DEF StepCycle, HasWork, CurrentTick, NextPendingTick
  <2> HIDE DEF ids
  <2>3. /\ Len(ids) \in Nat /\ Len(Tail(ids)) = Len(ids) - 1 /\ CurrentTick = ids[1]
        /\ \A i \in 1 .. Len(Tail(ids)) : Tail(ids)[i] = ids[i + 1] /\ i + 1 \in 1 .. Len(ids)
        /\ 1 \in 1 .. Len(ids) /\ \A i \in 1 .. Len(ids) : ids[i] \in Nat
    BY <1>1, <2>2
  <2>4. \A i, j \in 1 .. Len(Tail(ids)) : i < j => Tail(ids)[i] < Tail(ids)[j]
    BY <2>3, <1>2
  <2>5. ASSUME NEW i \in 1 .. Len(Tail(ids))
        PROVE  Tail(ids)[i] >= CurrentTick + 1
    <3>1. ids[1] < ids[i + 1] /\ ids[i + 1] \in Nat /\ ids[1] \in Nat
      BY <2>3, <1>2
    <3> QED BY <3>1, <2>3
  <2> QED BY <2>1, <2>4, <2>5, <1>3, <1>5 DEF TicksFrom
<1>6. CASE ~tick_active /\ ~explicit_ticks
  <2>1. explicit_tick_ids' = <<>>
    BY <1>6, <1>2 DEF StepCycle
  <2> QED BY <2>1, <1>3 DEF TicksFrom
<1> QED BY <1>4, <1>5, <1>6
\* What a completed phase has left, and the tick to which what is held belongs.
LEMMA PhaseAfterCycle ==
    ASSUME StorageInv', logical_tick' = CurrentTick, CurrentTick \in Nat,
           AdvanceControl \/ StayInPhase, NEW e \in Nat, HeldFrom(e)',
           e = IF InWork THEN CurrentTick ELSE CurrentTick + 1,
           ~InWork => \A c \in Cores : WorkDrained(c)',
           CurrentPhase \in {"neuron", "packetize"} =>
                \A c \in Cores : SpikesOfTick(c, logical_tick)',
           ~InNeuron /\ CurrentPhase # "packetize" => \A c \in Cores : SpikesDrained(c)',
           CurrentPhase \in {"work", "neuron", "packetize", "barrier"}
    PROVE  /\ Earliest' \in {e, e + 1} /\ NextTick' = CurrentTick + 1
           /\ HeldFrom(Earliest)'
           /\ ~(tick_active' /\ phase' = "work") => \A c \in Cores : WorkDrained(c)'
           /\ IF tick_active' /\ phase' \in {"neuron", "packetize"}
              THEN \A c \in Cores : SpikesOfTick(c, logical_tick)'
              ELSE \A c \in Cores : SpikesDrained(c)'
<1>1. InWork <=> CurrentPhase = "work"
  BY DEF InWork
<1>2. InNeuron <=> CurrentPhase = "neuron"
  BY DEF InNeuron
<1>3. Earliest' = CASE ~tick_active' -> last_completed_tick' + 1
                    [] tick_active' /\ phase' = "work" -> logical_tick'
                    [] OTHER -> logical_tick' + 1
  BY DEF Earliest
<1>4. NextTick' = IF tick_active' THEN logical_tick' + 1 ELSE last_completed_tick' + 1
  BY DEF NextTick
<1>5. CASE HoldEmptyTick
  <2>1. /\ CurrentPhase = "work" /\ phase' = "work" /\ tick_active'
    BY <1>5 DEF HoldEmptyTick, EmptyIngressWait, CurrentPhase
  <2>2. Earliest' = e
    BY <2>1, <1>1, <1>3
  <2>3. HeldFrom(Earliest)'
    BY <2>2 DEF HeldFrom, SourceFrom, PacketsAt, EventsFrom, ContributionsFrom
  <2> QED BY <2>1, <2>2, <2>3, <1>1, <1>2, <1>4
<1>6. CASE EnterNeuron
  <2>1. CurrentPhase = "work" /\ phase' = "neuron" /\ tick_active' /\ WorkComplete'
    BY <1>1, <1>6 DEF EnterNeuron
  <2>2. Earliest' = logical_tick' + 1 /\ e = logical_tick'
    BY <2>1, <1>1, <1>3
  <2>3. HeldFrom(logical_tick)'
    BY <2>2 DEF HeldFrom, SourceFrom, PacketsAt, EventsFrom, ContributionsFrom
  <2>4. HeldFrom(logical_tick + 1)' /\ \A c \in Cores : WorkDrained(c)'
    BY <2>1, <2>3, WorkDone
  <2>5. HeldFrom(Earliest)'
    BY <2>2, <2>4 DEF HeldFrom, SourceFrom, PacketsAt, EventsFrom, ContributionsFrom
  <2>6. \A c \in Cores : SpikesOfTick(c, logical_tick)'
    BY <2>1, <1>2 DEF SpikesOfTick, SpikesDrained, ToSet
  <2> QED BY <2>1, <2>2, <2>4, <2>5, <2>6, <1>4
<1>7. CASE EnterPacketize
  <2>1. CurrentPhase = "neuron" /\ phase' = "packetize" /\ tick_active'
    BY <1>2, <1>7 DEF EnterPacketize
  <2>2. Earliest' = e
    BY <2>1, <1>1, <1>3
  <2>3. HeldFrom(Earliest)'
    BY <2>2 DEF HeldFrom, SourceFrom, PacketsAt, EventsFrom, ContributionsFrom
  <2> QED BY <2>1, <2>2, <2>3, <1>1, <1>2, <1>4
<1>8. CASE EnterBarrier
  <2>1. /\ CurrentPhase = "packetize" /\ phase' = "barrier" /\ tick_active'
        /\ PacketizationComplete'
    BY <1>8 DEF EnterBarrier
  <2>2. Earliest' = e
    BY <2>1, <1>1, <1>3
  <2>3. HeldFrom(Earliest)'
    BY <2>2 DEF HeldFrom, SourceFrom, PacketsAt, EventsFrom, ContributionsFrom
  <2>4. \A c \in Cores : SpikesDrained(c)'
    BY <2>1 DEF PacketizationComplete, SpikesDrained
  <2> QED BY <2>1, <2>2, <2>3, <2>4, <1>1, <1>4
<1>9. CASE CompleteTick
  <2>1. CurrentPhase = "barrier" /\ ~tick_active' /\ last_completed_tick' = CurrentTick
    BY <1>9 DEF CompleteTick
  <2>2. Earliest' = e
    BY <2>1, <1>1, <1>3
  <2>3. HeldFrom(Earliest)'
    BY <2>2 DEF HeldFrom, SourceFrom, PacketsAt, EventsFrom, ContributionsFrom
  <2> QED BY <2>1, <2>2, <2>3, <1>1, <1>2, <1>4
<1>10. CASE StayInPhase
  <2>1. phase' = CurrentPhase /\ tick_active' /\ CurrentPhase \in {"work", "neuron", "packetize"}
    BY <1>10, <1>1, <1>2 DEF StayInPhase
  <2>2. Earliest' = e
    BY <2>1, <1>1, <1>3
  <2>3. HeldFrom(Earliest)'
    BY <2>2 DEF HeldFrom, SourceFrom, PacketsAt, EventsFrom, ContributionsFrom
  <2> QED BY <2>1, <2>2, <2>3, <1>1, <1>2, <1>4
<1> QED BY <1>5, <1>6, <1>7, <1>8, <1>9, <1>10 DEF AdvanceControl

\* A cycle keeps the invariant.
LEMMA CycleKeepsTime ==
    ASSUME StorageInv, TimeInv, StepCycle, source_events = <<>> \/ FedBySource(Earliest)
    PROVE  TimeInv' /\ (FedBySource(Earliest) => FedBySource(Earliest)')
<1>1. CurrentTick \in Nat /\ StorageInv'
  BY TickOfCycle, CycleKeepsStorage DEF StepCycle
<1>2. PICK e \in Nat : /\ CycleTime(e) /\ Earliest <= e
                       /\ FedBySource(Earliest) => FedBySource(e)
  BY CycleBegins DEF StepCycle
<1>3. PICK g \in GrantSeqs :
        /\ IsArbitration(g) /\ MoveNetwork(g) /\ MoveNeurons /\ MoveContributions /\ MoveEvents
        /\ AdvanceControl \/ StayInPhase
  BY DEF StepCycle
<1>4. source_events' = source_events /\ logical_tick' = CurrentTick
  BY DEF StepCycle, hostVars
<1>5. e = IF InWork THEN CurrentTick ELSE CurrentTick + 1
  BY <1>2 DEF CycleTime
<1>6. HeldFrom(e)'
  <2>1. SourceFrom(e)'
    BY <1>2, <1>3, <1>4, SourceMoved
  <2>2. PacketsAt(e)'
    BY <1>1, <1>2, <1>3, PacketsMoved
  <2>3. \A c \in Cores : EventsFrom(c, e)'
    BY <1>2, <1>3, EventsMoved
  <2>4. \A c \in Cores : ContributionsFrom(c, e)'
    BY <1>1, <1>2, <1>3, ContributionsMoved
  <2> QED BY <2>1, <2>2, <2>3, <2>4 DEF HeldFrom
<1>7. CurrentPhase \in {"work", "neuron", "packetize", "barrier"}
  BY PhaseOfCycle, ProgramFinite DEF StorageInv
<1>8. ~InWork => \A c \in Cores : WorkDrained(c)'
  BY <1>2, <1>3, DrainedMoved DEF CycleTime
<1>9. CurrentPhase \in {"neuron", "packetize"} =>
        \A c \in Cores : SpikesOfTick(c, logical_tick)'
  <2>1. ASSUME CurrentPhase \in {"neuron", "packetize"}, NEW c \in Cores
        PROVE  SpikesOfTick(c, logical_tick)'
    <3>1. SpikesOfTick(c, CurrentTick)
      BY <1>2, <2>1 DEF CycleTime
    <3>2. \A t : t = CurrentTick => SpikesOfTick(c, t)'
      BY <1>3, <2>1, <3>1, SpikesMoved
    <3>3. PICK t : t = CurrentTick
      OBVIOUS
    <3>4. SpikesOfTick(c, t)' /\ t = logical_tick'
      BY <3>2, <3>3, <1>4
    <3> QED BY <3>4 DEF SpikesOfTick
  <2> QED BY <2>1
<1>10. ~InNeuron /\ CurrentPhase # "packetize" => \A c \in Cores : SpikesDrained(c)'
  <2>1. ASSUME ~InNeuron, CurrentPhase # "packetize", NEW c \in Cores
        PROVE  SpikesDrained(c)'
    <3>1. SpikesDrained(c)
      BY <1>2, <2>1 DEF CycleTime, InNeuron
    <3> QED BY <1>3, <2>1, <3>1, SpikesMoved
  <2> QED BY <2>1
<1>11. /\ Earliest' \in {e, e + 1} /\ NextTick' = CurrentTick + 1
       /\ HeldFrom(Earliest)'
       /\ ~(tick_active' /\ phase' = "work") => \A c \in Cores : WorkDrained(c)'
       /\ IF tick_active' /\ phase' \in {"neuron", "packetize"}
          THEN \A c \in Cores : SpikesOfTick(c, logical_tick)'
          ELSE \A c \in Cores : SpikesDrained(c)'
  BY <1>1, <1>3, <1>4, <1>5, <1>6, <1>7, <1>8, <1>9, <1>10, PhaseAfterCycle
<1>12. TicksFrom(NextTick)'
  <2>1. PICK t : t = CurrentTick + 1
    OBVIOUS
  <2>2. TicksFrom(t)' /\ t = NextTick'
    BY <2>1, <1>11, TicksMoved
  <2> QED BY <2>2 DEF TicksFrom
<1>13. \A c \in Cores : AccumulatorsClear(c)'
  BY <1>2, <1>3, AccumulatorsMoved DEF CycleTime
<1>14. TimeInv'
  BY <1>11, <1>12, <1>13 DEF TimeInv
<1>15. ASSUME FedBySource(Earliest)
       PROVE  FedBySource(Earliest)'
  <2>1. \A c \in Cores : \A q \in ToSet(external_ingress_fifo'[c]) : q.timestamp <= e
    BY <1>2, <1>3, <1>15, EventsMoved
  <2>2. \A c \in Cores : \A q \in ToSet(external_ingress_fifo'[c]) : q.timestamp \in Nat
    <3>1. ASSUME NEW c \in Cores, NEW q \in ToSet(external_ingress_fifo'[c])
          PROVE  q.timestamp \in Nat
      <4>1. external_ingress_fifo'[c] \in Seq(HeldEvent(c))
        BY <1>1 DEF StorageInv, IngressInv, HeldEvent, Event
      <4>2. q \in HeldEvent(c)
        BY <3>1, <4>1 DEF ToSet
      <4> QED BY <4>2 DEF HeldEvent, Event
    <3> QED BY <3>1
  <2>3. Earliest' \in Nat /\ e <= Earliest'
    BY <1>11
  <2>4. \A c \in Cores : \A q \in ToSet(external_ingress_fifo'[c]) : q.timestamp <= Earliest'
    BY <2>1, <2>2, <2>3
  <2> QED BY <2>4 DEF FedBySource
<1> QED BY <1>14, <1>15
-----------------------------------------------------------------------------
(* The host and the specifications. *)

timeVars == <<tick_active, phase, logical_tick, last_completed_tick, explicit_ticks,
              explicit_tick_ids, source_events, source_index, external_ingress_fifo,
              routed_ingress_fifo, axon_lookup_pipeline, synapse_work_fifo,
              contribution_pipeline, delayed_contribution_fifo, accumulators, affected,
              spike_fifo, packetizer_work, packet_pipeline, router_input_fifos,
              router_output_fifos>>

\* What neither moves an entry nor the tick keeps the invariant.
LEMMA OthersKeepTime ==
    ASSUME TimeInv, UNCHANGED timeVars
    PROVE  TimeInv' /\ (FedBySource(Earliest) => FedBySource(Earliest)')
<1>1. Earliest' = Earliest /\ NextTick' = NextTick
  BY DEF timeVars, Earliest, NextTick
<1>2. HeldFrom(Earliest)'
  <2>1. SourceFrom(Earliest)'
    BY <1>1 DEF TimeInv, HeldFrom, SourceFrom, timeVars
  <2>2. PacketsAt(Earliest)'
    BY <1>1 DEF TimeInv, HeldFrom, PacketsAt, timeVars
  <2>3. \A c \in Cores : EventsFrom(c, Earliest)' /\ ContributionsFrom(c, Earliest)'
    BY <1>1 DEF TimeInv, HeldFrom, EventsFrom, ContributionsFrom, timeVars
  <2> QED BY <2>1, <2>2, <2>3 DEF HeldFrom
<1>3. TicksFrom(NextTick)'
  BY <1>1 DEF TimeInv, TicksFrom, timeVars
<1>4. \A c \in Cores : AccumulatorsClear(c)'
  BY DEF TimeInv, AccumulatorsClear, timeVars
<1>5. /\ ~(tick_active /\ phase = "work")' => \A c \in Cores : WorkDrained(c)'
      /\ IF tick_active' /\ phase' \in {"neuron", "packetize"}
         THEN \A c \in Cores : SpikesOfTick(c, logical_tick)'
         ELSE \A c \in Cores : SpikesDrained(c)'
  BY DEF TimeInv, WorkDrained, SpikesOfTick, SpikesDrained, timeVars
<1>6. FedBySource(Earliest) => FedBySource(Earliest)'
  BY <1>1 DEF FedBySource, timeVars
<1> QED BY <1>2, <1>3, <1>4, <1>5, <1>6 DEF TimeInv

\* load_input_source takes an ordered source before the first tick.
LEMMA LoadSourceKeepsTime ==
    ASSUME StorageInv, TimeInv, FedBySource(Earliest), Fresh,
           NEW events \in Sources, LoadInputSource(events)
    PROVE  TimeInv' /\ FedBySource(Earliest)'
<1> DEFINE n == Len(events)
           f == [i \in 1 .. n |-> events[i].timestamp]
<1>1. events \in Seq([timestamp : Int, core : Int, axon : Int, priority : Int])
  BY HostAssumption
<1>2. n \in Nat /\ DOMAIN events = 1 .. n
  BY <1>1
<1>3. \A i \in 1 .. n : events[i].timestamp \in Nat
  BY <1>2 DEF LoadInputSource, IsInputEvent
<1>4. f \in [1 .. n -> Int]
  BY <1>3
<1>5. \A i \in 2 .. n : f[i - 1] <= f[i]
  <2> SUFFICES ASSUME NEW i \in 2 .. n PROVE f[i - 1] <= f[i]
    OBVIOUS
  <2>1. i - 1 \in 1 .. n /\ i \in 1 .. n
    BY <1>2
  <2>2. events[i - 1].timestamp <= events[i].timestamp
    BY DEF LoadInputSource
  <2> QED BY <2>1, <2>2
<1> HIDE DEF f, n
<1>6. \A i, j \in 1 .. n : i <= j => f[i] <= f[j]
  BY <1>2, <1>4, <1>5, NeighboursOrdered
<1>7. /\ Len(source_events') = n
      /\ \A i \in 1 .. n : source_events'[i].timestamp = f[i]
  BY <1>2 DEF LoadInputSource, CycleInput, f, n
<1>8. source_index' = source_index /\ source_index \in Nat
  BY EventTicks DEF LoadInputSource
<1>9. Earliest = 0 /\ Earliest' = 0 /\ NextTick' = NextTick
  BY DEF Fresh, LoadInputSource, controlVars, Earliest, NextTick, NoTick
<1>10. SourceFrom(Earliest)'
  <2>1. \A i \in 1 .. n : f[i] >= 0
    BY <1>3 DEF f, n
  <2>2. \A i \in source_index' + 1 .. n : i \in 1 .. n
    BY <1>2, <1>8
  <2> QED BY <2>1, <2>2, <1>6, <1>7, <1>9 DEF SourceFrom
<1>11. HeldFrom(Earliest)'
  <2>1. PacketsAt(Earliest)'
    BY <1>9 DEF TimeInv, HeldFrom, PacketsAt, LoadInputSource, networkVars, coreVars
  <2>2. \A c \in Cores : EventsFrom(c, Earliest)' /\ ContributionsFrom(c, Earliest)'
    BY <1>9 DEF TimeInv, HeldFrom, EventsFrom, ContributionsFrom, LoadInputSource, coreVars
  <2> QED BY <2>1, <2>2, <1>10 DEF HeldFrom
<1>12. TicksFrom(NextTick)'
  BY <1>9 DEF TimeInv, TicksFrom, LoadInputSource, controlVars
<1>13. \A c \in Cores : AccumulatorsClear(c)'
  BY DEF TimeInv, AccumulatorsClear, LoadInputSource, coreVars
<1>14. /\ ~(tick_active /\ phase = "work")' => \A c \in Cores : WorkDrained(c)'
       /\ IF tick_active' /\ phase' \in {"neuron", "packetize"}
          THEN \A c \in Cores : SpikesOfTick(c, logical_tick)'
          ELSE \A c \in Cores : SpikesDrained(c)'
  BY DEF TimeInv, WorkDrained, SpikesOfTick, SpikesDrained, LoadInputSource, controlVars, coreVars
<1>15. FedBySource(Earliest)'
  BY <1>9 DEF FedBySource, LoadInputSource
<1> QED BY <1>11, <1>12, <1>13, <1>14, <1>15 DEF TimeInv

\* load_logical_ticks takes ascending ticks before the first one.
LEMMA LoadTicksKeepsTime ==
    ASSUME StorageInv, TimeInv, FedBySource(Earliest), Fresh,
           NEW ticks \in TickLists, LoadLogicalTicks(ticks)
    PROVE  TimeInv' /\ FedBySource(Earliest)'
<1>1. ticks \in Seq(Nat)
  BY HostAssumption
<1>2. Len(ticks) \in Nat /\ ticks \in [1 .. Len(ticks) -> Int]
  BY <1>1
<1>3. \A i \in 2 .. Len(ticks) : ticks[i - 1] < ticks[i]
  BY DEF LoadLogicalTicks
<1>4. \A i, j \in 1 .. Len(ticks) : i < j => ticks[i] < ticks[j]
  BY <1>2, <1>3, NeighboursOrdered
<1>5. Earliest' = Earliest /\ NextTick' = 0
  BY DEF Fresh, LoadLogicalTicks, Earliest, NextTick, NoTick
<1>6. TicksFrom(NextTick)'
  BY <1>1, <1>4, <1>5 DEF LoadLogicalTicks, TicksFrom
<1>7. HeldFrom(Earliest)'
  <2>1. PacketsAt(Earliest)'
    BY <1>5 DEF TimeInv, HeldFrom, PacketsAt, LoadLogicalTicks, networkVars, coreVars
  <2>2. \A c \in Cores : EventsFrom(c, Earliest)' /\ ContributionsFrom(c, Earliest)'
    BY <1>5 DEF TimeInv, HeldFrom, EventsFrom, ContributionsFrom, LoadLogicalTicks, coreVars
  <2>3. SourceFrom(Earliest)'
    BY <1>5 DEF TimeInv, HeldFrom, SourceFrom, LoadLogicalTicks, hostVars
  <2> QED BY <2>1, <2>2, <2>3 DEF HeldFrom
<1>8. \A c \in Cores : AccumulatorsClear(c)'
  BY DEF TimeInv, AccumulatorsClear, LoadLogicalTicks, coreVars
<1>9. /\ ~(tick_active /\ phase = "work")' => \A c \in Cores : WorkDrained(c)'
      /\ IF tick_active' /\ phase' \in {"neuron", "packetize"}
         THEN \A c \in Cores : SpikesOfTick(c, logical_tick)'
         ELSE \A c \in Cores : SpikesDrained(c)'
  BY DEF TimeInv, WorkDrained, SpikesOfTick, SpikesDrained, LoadLogicalTicks, coreVars
<1>10. FedBySource(Earliest)'
  BY <1>5 DEF FedBySource, LoadLogicalTicks
<1> QED BY <1>6, <1>7, <1>8, <1>9, <1>10 DEF TimeInv

\* present_input in time: the event is due later than what its FIFO holds, and not before
\* the work of its tick is over.
LEMMA PresentKeepsTime ==
    ASSUME StorageInv, TimeInv, NEW ev \in HostEvents, PresentInput(ev), InTime(ev)
    PROVE  TimeInv'
<1> DEFINE new == CycleInput(ev, next_event_id)
<1>1. Earliest' = Earliest /\ NextTick' = NextTick
  BY DEF PresentInput, controlVars, Earliest, NextTick
<1>2. ev.timestamp \in Nat /\ ev.core \in Cores /\ new.timestamp = ev.timestamp
  BY DEF PresentInput, IsInputEvent, CycleInput
<1>3. ev.timestamp >= Earliest
  <2>1. /\ logical_tick \in Nat /\ last_completed_tick \in Nat \cup {NoTick}
        /\ tick_active \in BOOLEAN
    BY DEF StorageInv, ControlInv
  <2>2. ev.timestamp > last_completed_tick /\ (tick_active => ev.timestamp >= logical_tick)
    BY DEF PresentInput
  <2>3. tick_active /\ phase # "work" => ev.timestamp > logical_tick
    BY DEF InTime
  <2>4. CASE ~tick_active
    BY <2>1, <2>2, <2>4, <1>2 DEF Earliest, NoTick
  <2>5. CASE tick_active /\ phase = "work"
    BY <2>2, <2>5 DEF Earliest
  <2>6. CASE tick_active /\ phase # "work"
    BY <2>1, <2>3, <2>6, <1>2 DEF Earliest
  <2> QED BY <2>4, <2>5, <2>6
<1>4. \A q \in ToSet(external_ingress_fifo[ev.core]) : q.timestamp <= ev.timestamp
  BY DEF InTime
<1> HIDE DEF new
<1>5. external_ingress_fifo' = [external_ingress_fifo EXCEPT ![ev.core] = Append(@, new)]
  BY DEF PresentInput, new
<1>6. ASSUME NEW c \in Cores
      PROVE  EventsFrom(c, Earliest)'
  <2> DEFINE old == external_ingress_fifo[c]
             e == Earliest
  <2>1. /\ \A i, j \in 1 .. Len(old) : i <= j => old[i].timestamp <= old[j].timestamp
        /\ \A q \in ToSet(old) : q.timestamp >= e
    BY DEF TimeInv, HeldFrom, EventsFrom
  <2>2. external_ingress_fifo'[c] = IF c = ev.core THEN Append(old, new) ELSE old
    BY <1>2, <1>5 DEF StorageInv, PortsInv
  <2>3. old \in Seq(HeldEvent(c))
    BY DEF StorageInv, IngressInv
  <2>4. CASE c = ev.core
    <3> DEFINE fifo == Append(old, new)
    <3>1. \A q \in ToSet(old) : q.timestamp <= new.timestamp
      BY <2>4, <1>2, <1>4
    <3>2. new.timestamp >= e /\ new.timestamp \in Nat
      BY <1>2, <1>3
    <3> HIDE DEF old, e
    <3>3. /\ Len(old) \in Nat /\ Len(fifo) = Len(old) + 1
          /\ \A i \in 1 .. Len(old) : fifo[i] = old[i]
          /\ fifo[Len(old) + 1] = new
      BY <2>3
    <3>4. \A i \in 1 .. Len(old) : old[i] \in ToSet(old)
      BY DEF ToSet
    <3> HIDE DEF fifo
    <3>5. \A i \in 1 .. Len(fifo) : fifo[i].timestamp >= e
      <4> SUFFICES ASSUME NEW i \in 1 .. Len(fifo) PROVE fifo[i].timestamp >= e
        OBVIOUS
      <4>1. i \in 1 .. Len(old) \/ i = Len(old) + 1
        BY <3>3
      <4> QED BY <4>1, <3>2, <3>3, <3>4, <2>1
    <3>6. \A i, j \in 1 .. Len(fifo) : i <= j => fifo[i].timestamp <= fifo[j].timestamp
      <4> SUFFICES ASSUME NEW i \in 1 .. Len(fifo), NEW j \in 1 .. Len(fifo), i <= j
                   PROVE  fifo[i].timestamp <= fifo[j].timestamp
        OBVIOUS
      <4>1. CASE j \in 1 .. Len(old)
        <5>1. i \in 1 .. Len(old)
          BY <4>1, <3>3
        <5> QED BY <4>1, <5>1, <3>3, <2>1
      <4>2. CASE j = Len(old) + 1
        <5>1. i \in 1 .. Len(old) \/ i = Len(old) + 1
          BY <3>3
        <5> QED BY <5>1, <4>2, <3>1, <3>2, <3>3, <3>4
      <4> QED BY <4>1, <4>2, <3>3
    <3>7. \A q \in ToSet(fifo) : q.timestamp >= e
      <4>1. \A q \in ToSet(fifo) : \E i \in 1 .. Len(fifo) : q = fifo[i]
        BY <3>3, <2>3 DEF fifo, ToSet
      <4> QED BY <4>1, <3>5
    <3>8. external_ingress_fifo'[c] = fifo /\ Earliest' = e
      BY <2>2, <2>4, <1>1 DEF fifo, e
    <3> QED BY <3>6, <3>7, <3>8 DEF EventsFrom
  <2>5. CASE c # ev.core
    BY <2>1, <2>2, <2>5, <1>1 DEF EventsFrom
  <2> QED BY <2>4, <2>5
<1>7. HeldFrom(Earliest)'
  <2>1. PacketsAt(Earliest)'
    BY <1>1 DEF TimeInv, HeldFrom, PacketsAt, PresentInput, networkVars, coreVars
  <2>2. \A c \in Cores : ContributionsFrom(c, Earliest)'
    BY <1>1 DEF TimeInv, HeldFrom, ContributionsFrom, PresentInput, coreVars
  <2>3. SourceFrom(Earliest)'
    BY <1>1 DEF TimeInv, HeldFrom, SourceFrom, PresentInput, hostVars
  <2> QED BY <2>1, <2>2, <2>3, <1>6 DEF HeldFrom
<1>8. TicksFrom(NextTick)'
  BY <1>1 DEF TimeInv, TicksFrom, PresentInput, controlVars
<1>9. \A c \in Cores : AccumulatorsClear(c)'
  BY DEF TimeInv, AccumulatorsClear, PresentInput, coreVars
<1>10. /\ ~(tick_active /\ phase = "work")' => \A c \in Cores : WorkDrained(c)'
       /\ IF tick_active' /\ phase' \in {"neuron", "packetize"}
          THEN \A c \in Cores : SpikesOfTick(c, logical_tick)'
          ELSE \A c \in Cores : SpikesDrained(c)'
  BY DEF TimeInv, WorkDrained, SpikesOfTick, SpikesDrained, PresentInput, controlVars, coreVars
<1> QED BY <1>7, <1>8, <1>9, <1>10 DEF TimeInv
\* What is due is due in a tick, and so is the earliest of it.
LEMMA EarliestIsTick == ASSUME StorageInv PROVE Earliest \in Nat
<1>1. logical_tick \in Nat /\ tick_active \in BOOLEAN
  BY DEF StorageInv, ControlInv
<1>2. last_completed_tick + 1 \in Nat
  <2>1. last_completed_tick \in Nat \/ last_completed_tick = NoTick
    BY DEF StorageInv, ControlInv
  <2> QED BY <2>1 DEF NoTick
<1> QED BY <1>1, <1>2 DEF Earliest

\* Everything the machine may have to do falls on a tick.
LEMMA DueAreTicks ==
    ASSUME StorageInv, NEW c \in Cores
    PROVE  DueTicks(c) \subseteq Nat
<1>1. /\ external_ingress_fifo[c] \in Seq(HeldEvent(c))
      /\ routed_ingress_fifo[c] \in Seq(HeldPacket(c))
      /\ delayed_contribution_fifo[c] \subseteq HeldContribution(c)
      /\ contribution_pipeline[c] \in Seq(PipedContribution(c))
  BY DEF StorageInv, IngressInv, ContributionInv
<1>2. \A q \in ToSet(external_ingress_fifo[c]) : q.timestamp \in Nat
  BY EventTicks
<1>3. \A q \in ToSet(routed_ingress_fifo[c]) : q \in HeldPacket(c)
  BY <1>1 DEF ToSet
<1>4. \A q \in ToSet(routed_ingress_fifo[c]) : q.timestamp \in Nat
  BY <1>3 DEF HeldPacket, Packet
<1>5. \A i \in ToSet(contribution_pipeline[c]) : i \in PipedContribution(c)
  BY <1>1 DEF ToSet
<1>6. \A i \in ToSet(contribution_pipeline[c]) : i.due_tick \in Nat
  BY <1>5 DEF PipedContribution
<1>7. \A i \in delayed_contribution_fifo[c] : i.due_tick \in Nat
  BY <1>1 DEF HeldContribution
<1> QED BY <1>2, <1>4, <1>6, <1>7 DEF DueTicks

-----------------------------------------------------------------------------
(* What the invariant says. *)

\* Nothing is overdue.
LEMMA TimeIsNothingOverdue == ASSUME StorageInv, TimeInv PROVE NothingOverdue
<1>1. HeldFrom(Earliest)
  BY DEF TimeInv
<1>2. \A c \in Cores : \A t \in DueTicks(c) : t >= Earliest
  <2>1. ASSUME NEW c \in Cores, NEW t \in DueTicks(c)
        PROVE  t >= Earliest
    <3>1. /\ \A q \in ToSet(external_ingress_fifo[c]) : q.timestamp >= Earliest
          /\ \A i \in delayed_contribution_fifo[c] : i.due_tick >= Earliest
          /\ \A i \in ToSet(contribution_pipeline[c]) : i.due_tick >= Earliest
      BY <1>1 DEF HeldFrom, EventsFrom, ContributionsFrom
    <3>2. \A p \in ToSet(routed_ingress_fifo[c]) : p.timestamp = Earliest /\ Earliest \in Int
      BY <1>1, EarliestIsTick DEF HeldFrom, PacketsAt
    <3> QED BY <3>1, <3>2 DEF DueTicks
  <2> QED BY <2>1
<1>3. \A p \in NetworkPackets : p.timestamp >= Earliest
  BY <1>1, EarliestIsTick, NetworkMembers DEF HeldFrom, PacketsAt
<1>4. \A i \in source_index + 1 .. Len(source_events) : source_events[i].timestamp >= Earliest
  BY <1>1 DEF HeldFrom, SourceFrom
<1> QED BY <1>2, <1>3, <1>4 DEF NothingOverdue

\* The barrier phase has done what is due in its tick.
LEMMA TimeIsBarrier == ASSUME StorageInv, TimeInv PROVE BarrierContract
<1> SUFFICES ASSUME tick_active, phase = "barrier" PROVE BarrierContract
  BY DEF BarrierContract
<1>1. Earliest = logical_tick + 1 /\ logical_tick \in Nat
  BY DEF Earliest, StorageInv, ControlInv
<1>2. ASSUME NEW c \in Cores
      PROVE  /\ \A t \in DueTicks(c) : t > logical_tick
             /\ affected[c] = {} /\ neuron_pipeline[c] = {}
             /\ \A n \in Neurons(c) : accumulators[c][n] = 0
             /\ WorkDrained(c) /\ SpikesDrained(c)
  <2>1. \A t \in DueTicks(c) : t >= logical_tick + 1 /\ t \in Int
    <3>1. \A t \in DueTicks(c) : t >= logical_tick + 1
      BY <1>1, TimeIsNothingOverdue DEF NothingOverdue
    <3> QED BY <3>1, DueAreTicks
  <2>2. affected[c] = {} /\ WorkOf(c) = {}
    BY DEF StorageInv, WorkInv, NeuronWorkPartition
  <2>3. neuron_pipeline[c] = {}
    BY <2>2 DEF WorkOf, InPipeline
  <2>4. \A n \in Neurons(c) : accumulators[c][n] = 0
    BY <2>2 DEF TimeInv, AccumulatorsClear
  <2>5. WorkDrained(c) /\ SpikesDrained(c)
    BY DEF TimeInv
  <2> QED BY <1>1, <2>1, <2>2, <2>3, <2>4, <2>5
<1>3. \A p \in NetworkPackets : p.timestamp = logical_tick + 1
  BY <1>1, NetworkMembers DEF TimeInv, HeldFrom, PacketsAt
<1> QED BY <1>2, <1>3 DEF BarrierContract, WorkDrained, SpikesDrained

\* And what a machine that stops still holds is due beyond the limit of the run.
LEMMA TimeIsDrained == ASSUME StorageInv, TimeInv PROVE QuiescentIsDrained
<1> SUFFICES ASSUME Quiescent PROVE QuiescentIsDrained
  BY DEF QuiescentIsDrained
<1>1. ~tick_active /\ ~OmittedTick /\ ~HasWork
  BY DEF Quiescent
<1>2. \A t \in PendingTicks : t >= MaxTick /\ t \in Nat
  <2>1. PendingTicks \subseteq Nat /\ MaxTick \in Nat
    BY PendingAreTicks, ProgramAssumption
  <2>2. CASE PendingTicks = {}
    BY <2>2
  <2>3. CASE PendingTicks # {}
    <3>1. NextWorkTick \in Nat /\ \A t \in PendingTicks : NextWorkTick <= t
      BY <2>1, <2>3, MinOfNaturals DEF NextWorkTick
    <3>2. NextWorkTick # NoTick
      BY <3>1 DEF NoTick
    <3>3. NextWorkTick >= MaxTick
      <4>1. CASE ~explicit_ticks
        BY <1>1, <2>1, <3>1, <3>2, <4>1 DEF HasWork, NextPendingTick
      <4>2. CASE explicit_ticks
        <5>1. explicit_tick_ids # <<>> /\ ~(NextWorkTick < Head(explicit_tick_ids))
          BY <1>1, <3>2, <4>2 DEF OmittedTick
        <5>2. explicit_tick_ids \in Seq(Nat) /\ Head(explicit_tick_ids) \in Nat
          <6>1. explicit_tick_ids \in Seq(Nat)
            BY DEF StorageInv, ControlInv
          <6> QED BY <5>1, <6>1
        <5>3. NextPendingTick = Head(explicit_tick_ids) /\ NextPendingTick # NoTick
          BY <4>2, <5>1, <5>2 DEF NextPendingTick, NoTick
        <5>4. Head(explicit_tick_ids) >= MaxTick
          BY <1>1, <2>1, <5>2, <5>3 DEF HasWork
        <5> QED BY <2>1, <3>1, <5>1, <5>2, <5>4
      <4> QED BY <4>1, <4>2
    <3> QED BY <2>1, <3>1, <3>3
  <2> QED BY <2>2, <2>3
<1>3. ASSUME NEW c \in Cores
      PROVE  /\ \A t \in DueTicks(c) : t >= MaxTick
             /\ WorkDrained(c) /\ SpikesDrained(c)
  <2>1. WorkDrained(c) /\ SpikesDrained(c)
    BY <1>1 DEF TimeInv
  <2>2. \A t \in IngressTicks(c) \cup DelayedTicks(c) : t \in PendingTicks
    BY DEF PendingTicks
  <2>3. DueTicks(c) = IngressTicks(c) \cup DelayedTicks(c)
    BY <2>1 DEF DueTicks, IngressTicks, DelayedTicks, WorkDrained, ToSet
  <2> QED BY <1>2, <2>1, <2>2, <2>3
<1>4. \A p \in NetworkPackets : p.timestamp >= MaxTick
  BY <1>2 DEF PendingTicks
<1>5. \A i \in source_index + 1 .. Len(source_events) : source_events[i].timestamp >= MaxTick
  <2>1. ASSUME NEW i \in source_index + 1 .. Len(source_events)
        PROVE  source_events[i].timestamp >= MaxTick
    <3> DEFINE k == source_index + 1
    <3>1. k \in 1 .. Len(source_events) /\ i \in 1 .. Len(source_events) /\ k <= i
      BY EventTicks
    <3>2. source_events[k].timestamp \in PendingTicks
      BY <3>1 DEF PendingTicks, SourceTicks
    <3>3. source_events[k].timestamp <= source_events[i].timestamp
      BY <3>1 DEF TimeInv, HeldFrom, SourceFrom
    <3>4. source_events[k].timestamp \in Nat /\ source_events[i].timestamp \in Nat
      BY <3>1, EventTicks
    <3>5. source_events[k].timestamp >= MaxTick /\ MaxTick \in Nat
      BY <1>2, <3>2, ProgramAssumption
    <3> QED BY <3>3, <3>4, <3>5
  <2> QED BY <2>1
<1> QED BY <1>3, <1>4, <1>5 DEF QuiescentIsDrained, WorkDrained, SpikesDrained
-----------------------------------------------------------------------------
(* The specifications. *)

\* The machine starts at the first tick with nothing in it.
LEMMA InitTime == Init => TimeInv /\ FedBySource(Earliest)
<1> SUFFICES ASSUME Init PROVE TimeInv /\ FedBySource(Earliest)
  OBVIOUS
<1> USE DEF Init
<1>1. Earliest = 0 /\ NextTick = 0
  BY DEF Earliest, NextTick, NoTick
<1>2. SourceFrom(0) /\ PacketsAt(0) /\ TicksFrom(0)
  BY DEF SourceFrom, PacketsAt, TicksFrom, ToSet
<1>3. \A c \in Cores : /\ EventsFrom(c, 0) /\ ContributionsFrom(c, 0) /\ AccumulatorsClear(c)
                       /\ WorkDrained(c) /\ SpikesDrained(c)
  BY DEF EventsFrom, ContributionsFrom, AccumulatorsClear, WorkDrained, SpikesDrained, ToSet
<1>4. FedBySource(0)
  BY DEF FedBySource, ToSet
<1> QED BY <1>1, <1>2, <1>3, <1>4 DEF TimeInv, HeldFrom

BatchInv == StorageInv /\ TimeInv /\ FedBySource(Earliest)

\* One step of a batch run.
LEMMA BatchStep == ASSUME BatchInv, [BatchNext]_vars PROVE BatchInv'
<1>1. StorageInv'
  BY StepKeepsStorage DEF BatchInv
<1>2. CASE StepCycle
  BY <1>1, <1>2, CycleKeepsTime DEF BatchInv
<1>3. CASE RaiseOmittedTick
  BY <1>1, <1>3, OthersKeepTime DEF BatchInv, RaiseOmittedTick, timeVars, coreVars, networkVars,
                                    hostVars
<1>4. CASE StepIdle \/ UNCHANGED vars
  BY <1>1, <1>4, OthersKeepTime DEF BatchInv, StepIdle, vars, timeVars, controlVars, coreVars,
                                    networkVars, hostVars
<1>5. ASSUME Fresh, NEW events \in Sources, LoadInputSource(events)
      PROVE  BatchInv'
  BY <1>1, <1>5, LoadSourceKeepsTime DEF BatchInv
<1>6. ASSUME Fresh, NEW ticks \in TickLists, LoadLogicalTicks(ticks)
      PROVE  BatchInv'
  BY <1>1, <1>6, LoadTicksKeepsTime DEF BatchInv
<1> QED BY <1>2, <1>3, <1>4, <1>5, <1>6 DEF BatchNext, Run

\* An online machine has no loaded source: its host presents every event.
OnlineInv == StorageInv /\ (orderly => TimeInv /\ source_events = <<>>)

\* One step of an online run: what the host does out of order makes it not orderly.
LEMMA OnlineStep == ASSUME OnlineInv, [OnlineNext]_<<vars, orderly>> PROVE OnlineInv'
<1>1. StorageInv'
  <2>1. OnlineNext => HarnessNext
    BY DEF OnlineNext, HarnessNext, LiveNext
  <2>2. [HarnessNext]_vars
    BY <2>1
  <2> QED BY <2>2, StepKeepsStorage DEF OnlineInv
<1>2. ASSUME NEW e \in HostEvents, PresentInput(e), orderly' = (orderly /\ InTime(e)), orderly'
      PROVE  TimeInv' /\ source_events' = <<>>
  <2>1. orderly /\ InTime(e)
    BY <1>2
  <2> QED BY <1>2, <2>1, PresentKeepsTime DEF OnlineInv, PresentInput, hostVars
<1>3. ASSUME CloseInputs, orderly' = orderly, orderly'
      PROVE  TimeInv' /\ source_events' = <<>>
  BY <1>3, OthersKeepTime DEF OnlineInv, CloseInputs, timeVars, controlVars, coreVars, networkVars
<1>4. ASSUME StepCycle, orderly' = orderly, orderly'
      PROVE  TimeInv' /\ source_events' = <<>>
  BY <1>4, CycleKeepsTime DEF OnlineInv, StepCycle, hostVars
<1>5. ASSUME RaiseOmittedTick, orderly' = orderly, orderly'
      PROVE  TimeInv' /\ source_events' = <<>>
  BY <1>5, OthersKeepTime DEF OnlineInv, RaiseOmittedTick, timeVars, coreVars, networkVars, hostVars
<1>6. ASSUME UNCHANGED vars, orderly' = orderly, orderly'
      PROVE  TimeInv' /\ source_events' = <<>>
  BY <1>6, OthersKeepTime DEF OnlineInv, vars, timeVars, controlVars, coreVars, networkVars, hostVars
<1>7. orderly' => TimeInv' /\ source_events' = <<>>
  <2>1. ASSUME orderly' PROVE TimeInv' /\ source_events' = <<>>
    <3>1. CASE UNCHANGED <<vars, orderly>>
      BY <2>1, <3>1, <1>6
    <3>2. CASE OnlineNext
      <4>1. \/ \E e \in HostEvents : PresentInput(e) /\ orderly' = (orderly /\ InTime(e))
            \/ (CloseInputs \/ Run) /\ orderly' = orderly
        BY <2>1, <3>2 DEF OnlineNext
      <4>2. StepIdle => UNCHANGED vars
        BY DEF StepIdle
      <4> QED BY <2>1, <4>1, <4>2, <1>2, <1>3, <1>4, <1>5, <1>6 DEF Run
    <3> QED BY <3>1, <3>2
  <2> QED BY <2>1
<1> QED BY <1>1, <1>7 DEF OnlineInv

\* An online run starts orderly.
LEMMA OnlineStarts == OnlineInit => OnlineInv
BY InitStorage, InitTime DEF OnlineInit, OnlineInv, Init

\* Nothing a batch run still holds is ever late: whatever the stalls, each event,
\* packet and contribution is processed in the tick it is due in.
THEOREM BatchNothingOverdue == BatchSpec => []NothingOverdue
<1>1. Init => BatchInv
  BY InitStorage, InitTime DEF BatchInv
<1>2. BatchInv /\ [BatchNext]_vars => BatchInv'
  BY BatchStep
<1>3. BatchInv => NothingOverdue
  BY TimeIsNothingOverdue DEF BatchInv
<1> QED BY <1>1, <1>2, <1>3, PTL DEF BatchSpec

\* A tick of a batch run reaches its barrier only when all that is due in it was
\* admitted, applied, updated and packetized.
THEOREM BatchBarrier == BatchSpec => []BarrierContract
<1>1. Init => BatchInv
  BY InitStorage, InitTime DEF BatchInv
<1>2. BatchInv /\ [BatchNext]_vars => BatchInv'
  BY BatchStep
<1>3. BatchInv => BarrierContract
  BY TimeIsBarrier DEF BatchInv
<1> QED BY <1>1, <1>2, <1>3, PTL DEF BatchSpec

\* A batch run that stops has processed all it was given below its tick limit, also
\* under an explicit list of ticks.
THEOREM BatchDrained == BatchSpec => []QuiescentIsDrained
<1>1. Init => BatchInv
  BY InitStorage, InitTime DEF BatchInv
<1>2. BatchInv /\ [BatchNext]_vars => BatchInv'
  BY BatchStep
<1>3. BatchInv => QuiescentIsDrained
  BY TimeIsDrained DEF BatchInv
<1> QED BY <1>1, <1>2, <1>3, PTL DEF BatchSpec

\* With an orderly host nothing an online run holds is ever late, at whatever cycle of a
\* tick an event is presented.
THEOREM OnlineNothingOverdue == OnlineSpec => []NothingOverdueInTime
<1>1. OnlineInv => NothingOverdueInTime
  BY TimeIsNothingOverdue DEF OnlineInv, NothingOverdueInTime
<1> QED BY <1>1, OnlineStep, OnlineStarts, PTL DEF OnlineSpec

\* And a tick completes only when all that is due in it was done.
THEOREM OnlineBarrier == OnlineSpec => []BarrierContractInTime
<1>1. OnlineInv => BarrierContractInTime
  BY TimeIsBarrier DEF OnlineInv, BarrierContractInTime
<1> QED BY <1>1, OnlineStep, OnlineStarts, PTL DEF OnlineSpec
-----------------------------------------------------------------------------
(* The report of a deadlock.  A cycle that moves nothing while no pipeline *)
(* counts down leaves every register the next cycle reads as it was, so    *)
(* that cycle moves nothing either.                                        *)

\* The registers of the cores are functions.
RegistersInv ==
    /\ routed_ingress_fifo = [c \in Cores |-> routed_ingress_fifo[c]]
    /\ axon_lookup_pipeline = [c \in Cores |-> axon_lookup_pipeline[c]]
    /\ synapse_work_fifo = [c \in Cores |-> synapse_work_fifo[c]]
    /\ contribution_pipeline = [c \in Cores |-> contribution_pipeline[c]]
    /\ delayed_contribution_fifo = [c \in Cores |-> delayed_contribution_fifo[c]]
    /\ neuron_pending = [c \in Cores |-> neuron_pending[c]]
    /\ neuron_work_fifo = [c \in Cores |-> neuron_work_fifo[c]]
    /\ neuron_pipeline = [c \in Cores |-> neuron_pipeline[c]]
    /\ spike_fifo = [c \in Cores |-> spike_fifo[c]]
    /\ packetizer_work = [c \in Cores |-> packetizer_work[c]]
    /\ router_output_fifos = [c \in Cores |-> router_output_fifos[c]]

\* A spike being packetized has a route left.
RoutesToGo(c) ==
    packetizer_work[c] # <<>> =>
        LET w == Head(packetizer_work[c]) IN w.next_route <= Len(Routes[c][w.neuron])

\* No stage has anything to move and no pipeline counts down.
Stuck ==
    /\ tick_active /\ ~FutureTransition
    /\ IsArbitration(<<>>) /\ ~Transfers(<<>>)
    /\ \/ phase = "work" /\ ~WorkComplete
       \/ phase = "neuron" /\ ~NeuronComplete
       \/ phase = "packetize" /\ ~PacketizationComplete

\* The first cycle without progress may be the last of a pipeline's wait.
StuckInv ==
    /\ StorageInv /\ RegistersInv
    /\ \A c \in Cores : RoutesToGo(c)
    /\ no_progress_cycles >= 1 => tick_active /\ ~FutureTransition
    /\ no_progress_cycles >= 2 => Stuck

\* What the stages read.
stillVars == <<tick_active, phase, logical_tick, source_events, source_index,
               external_ingress_fifo, routed_ingress_fifo, axon_lookup_pipeline,
               synapse_work_fifo, contribution_pipeline, delayed_contribution_fifo,
               neuron_pending, neuron_work_fifo, neuron_pipeline, spike_fifo,
               packetizer_work, packet_pipeline, router_input_fifos, router_output_fifos>>

\* A list to which nothing is added, and of which nothing is taken.
LEMMA ListStill ==
    ASSUME NEW S, NEW s \in Seq(S)
    PROVE  /\ s \o <<>> = s /\ SubSeq(s, 1, Len(s)) = s
           /\ [k \in 1 .. Len(s) |-> s[k]] = s
OBVIOUS

\* No index picks no entry.
LEMMA PickedNone == ASSUME NEW s PROVE Picked(s, {}) = <<>>
<1>1. Cardinality({}) = 0
  BY FS_EmptySet
<1>2. Picked(s, {}) = [k \in 1 .. 0 |-> s[InOrder({}, Below)[k]]]
  BY <1>1 DEF Picked
<1> QED BY <1>2

\* The network of a cycle that moves nothing.
LEMMA NetworkStill ==
    ASSUME StorageInv, RegistersInv, \A c \in Cores : RoutesToGo(c), tick_active,
           ~FutureTransition, ~Transfers(<<>>), MoveNetwork(<<>>)
    PROVE  /\ router_output_fifos' = router_output_fifos
           /\ router_input_fifos' = router_input_fifos
           /\ packet_pipeline' = packet_pipeline
           /\ packetizer_work' = packetizer_work
<1>1. /\ AcceptedPackets = {} /\ PacketizedRoutes = {}
      /\ \A c \in Cores : ~(Transmitted(c) > 0) /\ ~SpikeTaken(c)
  BY DEF Transfers
<1>2. Cardinality({}) = 0
  BY FS_EmptySet
<1>3. ASSUME NEW d \in Cores
      PROVE  router_output_fifos'[d] = router_output_fifos[d]
  <2>1. Transmitted(d) = 0
    BY <1>1, TransmittedFits
  <2>2. router_output_fifos[d] \in Seq(HeldPacket(d))
    BY DEF StorageInv, RouterInv
  <2>3. GrantedTo(<<>>, d) = <<>>
    <3>1. {i \in 1 .. Len(<<>>) : RequestOf(<<>>[i]).core = d} = {}
      OBVIOUS
    <3> QED BY <3>1, PickedNone DEF GrantedTo
  <2>4. router_output_fifos'[d] = SubSeq(router_output_fifos[d], Transmitted(d) + 1,
                                         Len(router_output_fifos[d])) \o GrantedTo(<<>>, d)
    BY DEF MoveNetwork
  <2>5. router_output_fifos'[d] = SubSeq(router_output_fifos[d], 1, Len(router_output_fifos[d])) \o <<>>
    BY <2>1, <2>3, <2>4
  <2> QED BY <2>2, <2>5, ListStill
<1>4. ASSUME NEW s \in Cores
      PROVE  router_input_fifos'[s] = router_input_fifos[s]
  <2>1. AcceptedFrom(s) = <<>>
    <3>1. {p \in AcceptedPackets : p.source = s} = {}
      BY <1>1
    <3>2. AcceptedFrom(s) = InOrder({}, PacketBefore)
      BY <3>1 DEF AcceptedFrom
    <3> QED BY <1>2, <3>2 DEF InOrder
  <2>2. s \notin ToSet(<<>>)
    BY DEF ToSet
  <2>3. router_input_fifos'[s] = router_input_fifos[s] \o <<>>
    BY <2>1, <2>2 DEF MoveNetwork
  <2>4. router_input_fifos[s] \in Seq(RoutedPacket)
    BY DEF StorageInv, RouterInv
  <2> QED BY <2>3, <2>4, ListStill
<1>5. packet_pipeline' = packet_pipeline
  <2>1. DOMAIN NewPackets = {}
    BY <1>1, <1>2 DEF NewPackets
  <2>2. packet_pipeline' = {Waited(e) : e \in packet_pipeline}
    BY <1>1, <2>1 DEF MoveNetwork
  <2>3. \A e \in packet_pipeline : Waited(e) = e
    <3>1. ASSUME NEW e \in packet_pipeline
          PROVE  Waited(e) = e
      <4>1. e \in [packet : RoutedPacket, wait : 0 .. packetizer_latency - 1]
        BY DEF StorageInv, PacketInv
      <4>2. e.wait = 0
        BY DEF FutureTransition, IsReady
      <4> QED BY <4>1, <4>2 DEF Waited
    <3> QED BY <3>1
  <2> QED BY <2>2, <2>3
<1>6. ASSUME NEW c \in Cores
      PROVE  packetizer_work'[c] = packetizer_work[c]
  <2>1. packetizer_work'[c] = PacketizerWorkAfter(c)
    BY DEF MoveNetwork
  <2>2. packetizer_work[c] \in Seq(PacketizerWork(c)) /\ Len(packetizer_work[c]) <= 1
    BY DEF StorageInv, RouterInv
  <2>3. CASE packetizer_work[c] = <<>>
    BY <1>1, <2>1, <2>3 DEF PacketizerWorkAfter
  <2>4. CASE packetizer_work[c] # <<>>
    <3> DEFINE w == Head(packetizer_work[c])
    <3>1. w \in PacketizerWork(c) /\ packetizer_work[c] = <<w>>
      BY <2>2, <2>4
    <3>2. PacketizedFrom(c) = {}
      BY <1>1 DEF PacketizedFrom
    <3>3. w.next_route \in Nat /\ w.next_route + 0 = w.next_route
      BY <3>1 DEF PacketizerWork
    <3>4. w.next_route + Cardinality(PacketizedFrom(c)) <= Len(Routes[c][w.neuron])
      BY <1>2, <2>4, <3>2, <3>3 DEF RoutesToGo
    <3>5. PacketizerWorkAfter(c) = <<[w EXCEPT !.next_route = @ + Cardinality(PacketizedFrom(c))]>>
      BY <2>4, <3>4 DEF PacketizerWorkAfter, SpikeTaken
    <3>6. [w EXCEPT !.next_route = @ + 0] = w
      BY <3>1, <3>3 DEF PacketizerWork
    <3> QED BY <1>2, <2>1, <3>1, <3>2, <3>5, <3>6
  <2> QED BY <2>3, <2>4
<1>7. /\ router_output_fifos' = [c \in Cores |-> router_output_fifos'[c]]
      /\ router_input_fifos' = [c \in Cores |-> router_input_fifos'[c]]
      /\ packetizer_work' = [c \in Cores |-> packetizer_work'[c]]
  BY DEF MoveNetwork
<1> QED BY <1>3, <1>4, <1>5, <1>6, <1>7 DEF RegistersInv, StorageInv, PortsInv
\* The neuron stages of such a cycle.
LEMMA NeuronsStill ==
    ASSUME StorageInv, RegistersInv, ~FutureTransition, ~Transfers(<<>>), MoveNeurons,
           neuron_pending' = IF InNeuron THEN PendingAfterFeed ELSE neuron_pending
    PROVE  /\ neuron_pipeline' = neuron_pipeline /\ neuron_work_fifo' = neuron_work_fifo
           /\ neuron_pending' = neuron_pending /\ spike_fifo' = spike_fifo
<1>1. \A c \in Cores : /\ Written(c) = {} /\ IssuedNeurons(c) = {} /\ FedNeurons(c) = {}
                       /\ ~SpikeTaken(c)
  BY DEF Transfers
<1>2. ASSUME NEW c \in Cores
      PROVE  neuron_pipeline'[c] = neuron_pipeline[c]
  <2>1. neuron_pipeline'[c] = {Waited(e) : e \in neuron_pipeline[c]}
    BY <1>1 DEF MoveNeurons
  <2>2. ASSUME NEW e \in neuron_pipeline[c]
        PROVE  Waited(e) = e
    <3>1. e \in NeuronWork(c)
      BY DEF StorageInv, NeuronInv
    <3>2. e.wait = 0
      BY DEF FutureTransition, IsReady
    <3> QED BY <3>1, <3>2 DEF Waited, NeuronWork
  <2> QED BY <2>1, <2>2
<1>3. \A c \in Cores : neuron_work_fifo'[c] = neuron_work_fifo[c]
  BY <1>1 DEF MoveNeurons
<1>4. neuron_pending' = neuron_pending
  <2>1. PendingAfterFeed = [c \in Cores |-> neuron_pending[c]]
    BY <1>1 DEF PendingAfterFeed
  <2> QED BY <2>1 DEF RegistersInv
<1>5. ASSUME NEW c \in Cores
      PROVE  spike_fifo'[c] = spike_fifo[c]
  <2>1. WrittenNeurons(c) = {}
    BY <1>1 DEF WrittenNeurons
  <2>2. DOMAIN SpikesOf(c) = {}
    BY <2>1, SpikesFit
  <2>3. [i \in DOMAIN SpikesOf(c) |-> [tick |-> CurrentTick, neuron |-> SpikesOf(c)[i].neuron]]
          = <<>>
    BY <2>2
  <2>4. spike_fifo'[c] = spike_fifo[c] \o <<>>
    BY <1>1, <2>3 DEF MoveNeurons
  <2>5. spike_fifo[c] \in Seq(CycleSpike(c))
    BY DEF StorageInv, NeuronInv
  <2> QED BY <2>4, <2>5, ListStill
<1>6. /\ neuron_pipeline' = [c \in Cores |-> neuron_pipeline'[c]]
      /\ neuron_work_fifo' = [c \in Cores |-> neuron_work_fifo'[c]]
      /\ spike_fifo' = [c \in Cores |-> spike_fifo'[c]]
  BY DEF MoveNeurons
<1> QED BY <1>2, <1>3, <1>4, <1>5, <1>6 DEF RegistersInv

\* Its contributions.
LEMMA ContributionsStill ==
    ASSUME StorageInv, RegistersInv, ~FutureTransition, ~Transfers(<<>>), MoveContributions
    PROVE  /\ contribution_pipeline' = contribution_pipeline
           /\ delayed_contribution_fifo' = delayed_contribution_fifo
<1>1. \A c \in Cores : AccumulatorWrites(c) = {} /\ Deferred(c) = {} /\ ~(IssueCount(c) > 0)
  BY DEF Transfers
<1>2. ASSUME NEW c \in Cores
      PROVE  contribution_pipeline'[c] = contribution_pipeline[c]
  <2> DEFINE s == contribution_pipeline[c]
             next == Picked(s, KeptContributions(c)) \o IssuedContributions(c)
  <2>1. s \in Seq(PipedContribution(c))
    BY DEF StorageInv, ContributionInv
  <2>2. KeptContributions(c) = 1 .. Len(s)
    BY <1>1 DEF KeptContributions
  <2>3. IssueCount(c) = 0
    BY <1>1, IssueFits
  <2>4. IssuedContributions(c) = <<>>
    BY <2>3 DEF IssuedContributions
  <2>5. next = s
    BY <2>1, <2>2, <2>4, PickedAll, ListStill
  <2>6. contribution_pipeline'[c] = [k \in 1 .. Len(next) |-> Waited(next[k])]
    BY DEF MoveContributions
  <2>7. contribution_pipeline'[c] = [k \in 1 .. Len(s) |-> Waited(s[k])]
    BY <2>5, <2>6
  <2>8. ASSUME NEW k \in 1 .. Len(s)
        PROVE  Waited(s[k]) = s[k]
    <3>1. s[k] \in PipedContribution(c)
      BY <2>1
    <3>2. s[k] \in ToSet(s)
      BY <2>1 DEF ToSet
    <3>3. s[k].wait = 0
      BY <3>2 DEF FutureTransition, IsReady
    <3> QED BY <3>1, <3>3 DEF Waited, PipedContribution
  <2>9. contribution_pipeline'[c] = [k \in 1 .. Len(s) |-> s[k]]
    BY <2>7, <2>8
  <2> QED BY <2>1, <2>9, ListStill
<1>3. \A c \in Cores : delayed_contribution_fifo'[c] = delayed_contribution_fifo[c]
  BY <1>1 DEF MoveContributions
<1>4. /\ contribution_pipeline' = [c \in Cores |-> contribution_pipeline'[c]]
      /\ delayed_contribution_fifo' = [c \in Cores |-> delayed_contribution_fifo'[c]]
  BY DEF MoveContributions
<1> QED BY <1>2, <1>3, <1>4 DEF RegistersInv

\* Its events, lookups and synapse work.
LEMMA EventsStill ==
    ASSUME StorageInv, RegistersInv, ~FutureTransition, ~Transfers(<<>>), MoveEvents
    PROVE  /\ synapse_work_fifo' = synapse_work_fifo
           /\ axon_lookup_pipeline' = axon_lookup_pipeline
           /\ routed_ingress_fifo' = routed_ingress_fifo
           /\ external_ingress_fifo' = external_ingress_fifo
           /\ source_index' = source_index
<1>1. /\ ~(SourceCount > 0)
      /\ \A c \in Cores : /\ ~(IssueCount(c) > 0) /\ ~LookupDone(c) /\ IngressRequests(c) = {}
                          /\ ~(Transmitted(c) > 0)
  BY DEF Transfers
<1>2. SourceCount = 0 /\ source_index \in Nat
  BY <1>1, SourcedFits, EventTicks, ProgramFinite
<1>3. source_index' = source_index
  BY <1>2 DEF MoveEvents
<1>4. ASSUME NEW c \in Cores
      PROVE  synapse_work_fifo'[c] = synapse_work_fifo[c]
  <2>1. IssueCount(c) = 0
    BY <1>1, IssueFits
  <2>2. SynapseWorkLeft(c) = synapse_work_fifo[c] /\ LookedUp(c) = <<>>
    BY <1>1, <2>1 DEF SynapseWorkLeft, LookedUp
  <2>3. synapse_work_fifo'[c] = synapse_work_fifo[c] \o <<>>
    BY <2>2 DEF MoveEvents
  <2>4. synapse_work_fifo[c] \in Seq(HeldWork(c))
    BY DEF StorageInv, LookupInv
  <2> QED BY <2>3, <2>4, ListStill
<1>5. ASSUME NEW c \in Cores
      PROVE  axon_lookup_pipeline'[c] = axon_lookup_pipeline[c]
  <2> DEFINE s == axon_lookup_pipeline[c]
             next == s \o LookupStarted(c)
  <2>1. s \in Seq(HeldLookup(c))
    BY DEF StorageInv, LookupInv
  <2>2. LookupStarted(c) = <<>>
    BY <1>1 DEF LookupStarted
  <2>3. next = s
    BY <2>1, <2>2, ListStill
  <2>4. axon_lookup_pipeline'[c] = [k \in 1 .. Len(next) |-> Waited(next[k])]
    BY <1>1 DEF MoveEvents
  <2>5. axon_lookup_pipeline'[c] = [k \in 1 .. Len(s) |-> Waited(s[k])]
    BY <2>3, <2>4
  <2>6. ASSUME NEW k \in 1 .. Len(s)
        PROVE  Waited(s[k]) = s[k]
    <3>1. s[k] \in HeldLookup(c)
      BY <2>1
    <3>2. s[k] \in ToSet(s)
      BY <2>1 DEF ToSet
    <3>3. s[k].wait = 0
      BY <3>2 DEF FutureTransition, IsReady
    <3> QED BY <3>1, <3>3 DEF Waited, HeldLookup, AxonLookup
  <2>7. axon_lookup_pipeline'[c] = [k \in 1 .. Len(s) |-> s[k]]
    BY <2>5, <2>6
  <2> QED BY <2>1, <2>7, ListStill
<1>6. ASSUME NEW c \in Cores
      PROVE  /\ routed_ingress_fifo'[c] = routed_ingress_fifo[c]
             /\ external_ingress_fifo'[c] = external_ingress_fifo[c]
  <2>1. /\ AfterIngress(c, 1) = routed_ingress_fifo[c]
        /\ AfterIngress(c, 0) = external_ingress_fifo[c]
    BY <1>1 DEF AfterIngress, IngressWins, IngressFifo
  <2>2. Transmitted(c) = 0
    BY <1>1, TransmittedFits
  <2>3. SubSeq(router_output_fifos[c], 1, 0) = <<>>
    OBVIOUS
  <2>4. SourcedTo(c) = <<>>
    <3>1. {i \in source_index + 1 .. source_index + SourceCount : source_events[i].core = c} = {}
      BY <1>2
    <3> QED BY <3>1, PickedNone DEF SourcedTo
  <2>5. /\ routed_ingress_fifo'[c] = routed_ingress_fifo[c] \o <<>>
        /\ external_ingress_fifo'[c] = external_ingress_fifo[c] \o <<>>
    BY <2>1, <2>2, <2>3, <2>4 DEF MoveEvents
  <2>6. /\ routed_ingress_fifo[c] \in Seq(HeldPacket(c))
        /\ external_ingress_fifo[c] \in Seq(HeldEvent(c))
    BY DEF StorageInv, IngressInv
  <2> QED BY <2>5, <2>6, ListStill
<1>7. /\ synapse_work_fifo' = [c \in Cores |-> synapse_work_fifo'[c]]
      /\ axon_lookup_pipeline' = [c \in Cores |-> axon_lookup_pipeline'[c]]
      /\ routed_ingress_fifo' = [c \in Cores |-> routed_ingress_fifo'[c]]
      /\ external_ingress_fifo' = [c \in Cores |-> external_ingress_fifo'[c]]
  BY DEF MoveEvents
<1> QED BY <1>3, <1>4, <1>5, <1>6, <1>7 DEF RegistersInv, StorageInv, PortsInv
\* When none of what the stages read changes, a stuck machine stays stuck.
LEMMA StuckStays == ASSUME Stuck, UNCHANGED stillVars PROVE Stuck'
<1> USE DEF stillVars
<1>1. /\ tick_active /\ tick_active' /\ CurrentTick' = CurrentTick /\ CurrentPhase' = CurrentPhase
      /\ InWork' = InWork /\ InNeuron' = InNeuron
  BY DEF Stuck, CurrentTick, CurrentPhase, InWork, InNeuron
<1>2. ~FutureTransition'
  BY DEF Stuck, FutureTransition, IsReady
<1>3. IsArbitration(<<>>)'
  <2>1. Grantable(<<>>, 0)' = Grantable(<<>>, 0)
    BY DEF Grantable, Requesters, RequestOf
  <2>2. Grantable(<<>>, 0) = {} \/ 0 = router_packets_accepted_per_cycle
    BY DEF Stuck, IsArbitration
  <2> QED BY <2>1, <2>2 DEF IsArbitration
<1>4. AcceptedPackets' = AcceptedPackets
  BY DEF AcceptedPackets, RoomyPackets, ReadyPackets, IsReady, FirstOf, Rank, PacketBefore
<1>5. PacketizedRoutes' = PacketizedRoutes
  BY DEF PacketizedRoutes, RoutesLeft, FirstOf, Rank, RouteBefore
<1>6. SourceCount' = SourceCount
  BY <1>1 DEF SourceCount, SourceAdmissible
<1>7. ASSUME NEW c \in Cores
      PROVE  /\ Transmitted(c)' = Transmitted(c) /\ SpikeTaken(c)' = SpikeTaken(c)
             /\ Written(c)' = Written(c) /\ IssuedNeurons(c)' = IssuedNeurons(c)
             /\ FedNeurons(c)' = FedNeurons(c)
  <2>1. Transmitted(c)' = Transmitted(c) /\ SpikeTaken(c)' = SpikeTaken(c)
    BY DEF Transmitted, SpikeTaken
  <2>2. WritebackWindow(c)' = WritebackWindow(c)
    BY DEF WritebackWindow, FirstOf, Rank, IsReady, NeuronBefore
  <2>3. Written(c)' = Written(c)
    BY <1>1, <2>2 DEF Written, NeuronBefore
  <2>4. IssuedNeurons(c)' = IssuedNeurons(c)
    BY <1>1 DEF IssuedNeurons, LowestIndices, FirstOf, Rank, Below
  <2>5. FedNeurons(c)' = FedNeurons(c)
    BY <1>1 DEF FedNeurons, LowestIndices, FirstOf, Rank, Below
  <2> QED BY <2>1, <2>3, <2>4, <2>5
<1>8. ASSUME NEW c \in Cores
      PROVE  AccumulatorWrites(c)' = AccumulatorWrites(c) /\ Deferred(c)' = Deferred(c)
  <2>1. DueContributions(c)' = DueContributions(c)
    BY <1>1 DEF DueContributions, Contributions, IsReady, Bare
  <2>2. ConflictWinners(c)' = ConflictWinners(c)
    BY <2>1 DEF ConflictWinners, ContributionBefore
  <2>3. AccumulatorWrites(c)' = AccumulatorWrites(c)
    BY <1>1, <2>2 DEF AccumulatorWrites, FirstOf, Rank, TargetBefore
  <2>4. ReadyFuture(c)' = ReadyFuture(c)
    BY <1>1 DEF ReadyFuture, Picked, IsReady, InOrder, Rank, Below
  <2>5. DelayedRoom(c)' = DelayedRoom(c)
    BY <2>3 DEF DelayedRoom
  <2> QED BY <1>1, <2>3, <2>4, <2>5 DEF Deferred
<1>9. ASSUME NEW c \in Cores
      PROVE  /\ IssueCount(c)' = IssueCount(c) /\ LookupDone(c)' = LookupDone(c)
             /\ IngressRequests(c)' = IngressRequests(c)
  <2>1. IssueCount(c)' = IssueCount(c)
    BY <1>1 DEF IssueCount
  <2>2. LookupDone(c)' = LookupDone(c)
    BY <1>1 DEF LookupDone, IsReady
  <2>3. IngressRequests(c)' = IngressRequests(c)
    BY <1>1 DEF IngressRequests, HeadDue, IngressFifo
  <2> QED BY <2>1, <2>2, <2>3
<1>10. ~Transfers(<<>>)'
  BY <1>4, <1>5, <1>6, <1>7, <1>8, <1>9 DEF Stuck, Transfers
<1>11. WorkComplete' = WorkComplete
  BY DEF WorkComplete, HeadDue, NetworkPackets
<1>12. NeuronComplete' = NeuronComplete /\ PacketizationComplete' = PacketizationComplete
  BY DEF NeuronComplete, PacketizationComplete
<1> QED BY <1>1, <1>2, <1>3, <1>10, <1>11, <1>12 DEF Stuck
\* A cycle that moves nothing, in a phase that does not end, changes nothing the stages
\* read, and finds the machine stuck.
LEMMA StillCycle ==
    ASSUME StorageInv, RegistersInv, \A c \in Cores : RoutesToGo(c), tick_active,
           ~FutureTransition, logical_tick' = CurrentTick, source_events' = source_events,
           MoveNetwork(<<>>), MoveNeurons, MoveContributions, MoveEvents, StayInPhase,
           IsArbitration(<<>>), ~Transfers(<<>>)
    PROVE  Stuck /\ UNCHANGED stillVars
<1>1. /\ neuron_pending' = IF InNeuron THEN PendingAfterFeed ELSE neuron_pending
      /\ phase' = phase /\ tick_active' = tick_active /\ logical_tick' = logical_tick
  BY DEF StayInPhase, CurrentPhase, CurrentTick, StorageInv, ControlInv
<1>2. /\ router_output_fifos' = router_output_fifos
      /\ router_input_fifos' = router_input_fifos
      /\ packet_pipeline' = packet_pipeline
      /\ packetizer_work' = packetizer_work
  BY NetworkStill
<1>3. /\ neuron_pipeline' = neuron_pipeline /\ neuron_work_fifo' = neuron_work_fifo
      /\ neuron_pending' = neuron_pending /\ spike_fifo' = spike_fifo
  BY <1>1, NeuronsStill
<1>4. /\ contribution_pipeline' = contribution_pipeline
      /\ delayed_contribution_fifo' = delayed_contribution_fifo
  BY ContributionsStill
<1>5. /\ synapse_work_fifo' = synapse_work_fifo
      /\ axon_lookup_pipeline' = axon_lookup_pipeline
      /\ routed_ingress_fifo' = routed_ingress_fifo
      /\ external_ingress_fifo' = external_ingress_fifo
      /\ source_index' = source_index
  BY EventsStill
<1>6. UNCHANGED stillVars
  BY <1>1, <1>2, <1>3, <1>4, <1>5 DEF stillVars
<1>7. /\ WorkComplete' = WorkComplete /\ NeuronComplete' = NeuronComplete
      /\ PacketizationComplete' = PacketizationComplete
  BY <1>6 DEF stillVars, WorkComplete, HeadDue, NetworkPackets, NeuronComplete,
              PacketizationComplete
<1>8. \/ phase = "work" /\ ~WorkComplete
      \/ phase = "neuron" /\ ~NeuronComplete
      \/ phase = "packetize" /\ ~PacketizationComplete
  BY <1>7 DEF StayInPhase, InWork, InNeuron, CurrentPhase
<1> QED BY <1>6, <1>8 DEF Stuck

\* A stuck machine grants nothing.
LEMMA StuckGrantsNothing ==
    ASSUME IsArbitration(<<>>), NEW g \in GrantSeqs, IsArbitration(g), StorageInv
    PROVE  g = <<>>
<1>1. g \in Seq(Requesters)
  BY GrantsAreRequests
<1>2. Grantable(<<>>, 0) = {}
  <2>1. router_packets_accepted_per_cycle # 0
    BY Positive DEF Rates
  <2> QED BY <2>1 DEF IsArbitration
<1>3. Grantable(g, 0) = {}
  <2>1. {g[i] : i \in 1 .. 0} = {<<>>[i] : i \in 1 .. 0}
    OBVIOUS
  <2>2. \A d : {i \in 1 .. 0 : RequestOf(g[i]).core = d} = {i \in 1 .. 0 : RequestOf(<<>>[i]).core = d}
    OBVIOUS
  <2> QED BY <1>2, <2>1, <2>2 DEF Grantable
<1>4. ASSUME g # <<>> PROVE FALSE
  <2>1. 1 \in 1 .. Len(g)
    BY <1>1, <1>4
  <2>2. g[1] \in Grantable(g, 1 - 1)
    BY <2>1 DEF IsArbitration
  <2> QED BY <1>3, <2>2
<1> QED BY <1>4

\* One cycle of a stuck machine: the counter goes up and the machine stays stuck.
LEMMA StuckCycle ==
    ASSUME StorageInv, RegistersInv, \A c \in Cores : RoutesToGo(c), Stuck, StepCycle
    PROVE  /\ no_progress_cycles' = no_progress_cycles + 1
           /\ Stuck' /\ UNCHANGED stillVars
<1>1. PICK g \in GrantSeqs :
        /\ IsArbitration(g) /\ MoveNetwork(g) /\ MoveNeurons /\ MoveContributions /\ MoveEvents
        /\ \/ AdvanceControl /\ CheckDeadlock(TRUE)
           \/ StayInPhase /\ CheckDeadlock(Transfers(g))
  BY DEF StepCycle
<1>2. g = <<>>
  BY <1>1, StuckGrantsNothing DEF Stuck
<1>3. /\ tick_active /\ ~FutureTransition /\ IsArbitration(<<>>) /\ ~Transfers(<<>>)
      /\ logical_tick' = logical_tick /\ source_events' = source_events
      /\ CurrentPhase = phase /\ ~EmptyIngressWait /\ logical_tick' = CurrentTick
  BY DEF Stuck, StepCycle, hostVars, CurrentTick, CurrentPhase, EmptyIngressWait, StorageInv,
         ControlInv
<1>4. ~AdvanceControl
  <2>1. /\ router_output_fifos' = router_output_fifos
        /\ router_input_fifos' = router_input_fifos
        /\ packet_pipeline' = packet_pipeline
        /\ packetizer_work' = packetizer_work
    BY <1>1, <1>2, <1>3, NetworkStill
  <2>2. /\ contribution_pipeline' = contribution_pipeline
        /\ delayed_contribution_fifo' = delayed_contribution_fifo
        /\ synapse_work_fifo' = synapse_work_fifo
        /\ axon_lookup_pipeline' = axon_lookup_pipeline
        /\ routed_ingress_fifo' = routed_ingress_fifo
        /\ external_ingress_fifo' = external_ingress_fifo
        /\ source_index' = source_index
    BY <1>1, <1>3, ContributionsStill, EventsStill
  <2>3. ~EnterNeuron
    <3>1. WorkComplete' = WorkComplete
      BY <1>3, <2>1, <2>2 DEF WorkComplete, HeadDue, NetworkPackets
    <3> QED BY <1>3, <3>1 DEF EnterNeuron, InWork, Stuck
  <2>4. ~EnterPacketize
    <3>1. ASSUME EnterPacketize PROVE FALSE
      <4>1. /\ neuron_pipeline' = neuron_pipeline /\ neuron_work_fifo' = neuron_work_fifo
            /\ neuron_pending' = neuron_pending
        BY <1>1, <1>3, <3>1, NeuronsStill DEF EnterPacketize
      <4>2. NeuronComplete
        BY <3>1, <4>1 DEF EnterPacketize, NeuronComplete
      <4> QED BY <1>3, <3>1, <4>2 DEF EnterPacketize, InNeuron, Stuck
    <3> QED BY <3>1
  <2>5. ~EnterBarrier
    <3>1. ASSUME EnterBarrier PROVE FALSE
      <4>1. neuron_pending' = IF InNeuron THEN PendingAfterFeed ELSE neuron_pending
        BY <3>1 DEF EnterBarrier, InNeuron
      <4>2. spike_fifo' = spike_fifo
        BY <1>1, <1>3, <4>1, NeuronsStill
      <4>3. PacketizationComplete
        BY <2>1, <3>1, <4>2 DEF EnterBarrier, PacketizationComplete
      <4> QED BY <1>3, <3>1, <4>3 DEF EnterBarrier, Stuck
    <3> QED BY <3>1
  <2>6. ~HoldEmptyTick /\ ~CompleteTick
    BY <1>3 DEF HoldEmptyTick, CompleteTick, Stuck
  <2> QED BY <2>3, <2>4, <2>5, <2>6 DEF AdvanceControl
<1>5. StayInPhase /\ CheckDeadlock(Transfers(<<>>))
  BY <1>1, <1>2, <1>4
<1>6. UNCHANGED stillVars
  BY <1>1, <1>2, <1>3, <1>5, StillCycle
<1>7. Stuck'
  BY <1>6, StuckStays
<1>8. no_progress_cycles' = no_progress_cycles + 1
  BY <1>3, <1>5, <1>7 DEF CheckDeadlock, Stuck
<1> QED BY <1>6, <1>7, <1>8

\* The registers stay functions.
LEMMA RegistersKept == ASSUME StepCycle, RegistersInv PROVE RegistersInv'
<1>1. PICK g \in GrantSeqs :
        /\ MoveNetwork(g) /\ MoveNeurons /\ MoveContributions /\ MoveEvents
        /\ AdvanceControl \/ StayInPhase
  BY DEF StepCycle
<1>2. /\ router_output_fifos' = [c \in Cores |-> router_output_fifos'[c]]
      /\ packetizer_work' = [c \in Cores |-> packetizer_work'[c]]
  BY <1>1 DEF MoveNetwork
<1>3. /\ neuron_pipeline' = [c \in Cores |-> neuron_pipeline'[c]]
      /\ neuron_work_fifo' = [c \in Cores |-> neuron_work_fifo'[c]]
      /\ spike_fifo' = [c \in Cores |-> spike_fifo'[c]]
  BY <1>1 DEF MoveNeurons
<1>4. /\ contribution_pipeline' = [c \in Cores |-> contribution_pipeline'[c]]
      /\ delayed_contribution_fifo' = [c \in Cores |-> delayed_contribution_fifo'[c]]
      /\ affected' = [c \in Cores |-> affected'[c]]
  BY <1>1 DEF MoveContributions
<1>5. /\ synapse_work_fifo' = [c \in Cores |-> synapse_work_fifo'[c]]
      /\ axon_lookup_pipeline' = [c \in Cores |-> axon_lookup_pipeline'[c]]
      /\ routed_ingress_fifo' = [c \in Cores |-> routed_ingress_fifo'[c]]
  BY <1>1 DEF MoveEvents
<1>6. neuron_pending' = [c \in Cores |-> neuron_pending'[c]]
  <2>1. PendingAfterFeed = [c \in Cores |-> PendingAfterFeed[c]]
    BY DEF PendingAfterFeed
  <2>2. neuron_pending' \in {affected', PendingAfterFeed, neuron_pending}
    BY <1>1 DEF AdvanceControl, HoldEmptyTick, EnterNeuron, EnterPacketize, EnterBarrier,
                CompleteTick, StayInPhase
  <2> QED BY <1>4, <2>1, <2>2 DEF RegistersInv
<1> QED BY <1>2, <1>3, <1>4, <1>5, <1>6 DEF RegistersInv

\* A packetizer drops its spike with the last route.
LEMMA RoutesKept ==
    ASSUME StorageInv, NEW c \in Cores, RoutesToGo(c), StepCycle
    PROVE  RoutesToGo(c)'
<1>1. packetizer_work'[c] = PacketizerWorkAfter(c)
  BY DEF StepCycle, MoveNetwork
<1> DEFINE w == Head(packetizer_work[c])
           s == Head(spike_fifo[c])
           n == Cardinality(PacketizedFrom(c))
<1>2. CASE packetizer_work[c] # <<>> /\ w.next_route + n <= Len(Routes[c][w.neuron])
  <2>1. w \in PacketizerWork(c)
    BY <1>2 DEF StorageInv, RouterInv
  <2>2. packetizer_work'[c] = <<[w EXCEPT !.next_route = w.next_route + n]>>
    BY <1>1, <1>2 DEF PacketizerWorkAfter, SpikeTaken
  <2> DEFINE v == [w EXCEPT !.next_route = w.next_route + n]
  <2>3. v.next_route = w.next_route + n /\ v.neuron = w.neuron
    BY <2>1 DEF PacketizerWork
  <2>4. Head(packetizer_work'[c]) = v
    BY <2>2
  <2> QED BY <1>2, <2>3, <2>4 DEF RoutesToGo
<1>3. CASE SpikeTaken(c) /\ Routes[c][s.neuron] # <<>>
  <2>1. packetizer_work'[c] = <<[tick |-> s.tick, neuron |-> s.neuron, next_route |-> 1]>>
    BY <1>1, <1>3 DEF PacketizerWorkAfter, SpikeTaken
  <2>2. s \in CycleSpike(c)
    BY <1>3 DEF SpikeTaken, StorageInv, NeuronInv
  <2>3. Routes[c][s.neuron] \in Seq(Route)
    BY <2>2, ProgramAssumption DEF CycleSpike
  <2>4. 1 <= Len(Routes[c][s.neuron])
    BY <1>3, <2>3
  <2> QED BY <2>1, <2>4 DEF RoutesToGo
<1>4. CASE /\ ~(packetizer_work[c] # <<>> /\ w.next_route + n <= Len(Routes[c][w.neuron]))
           /\ ~(SpikeTaken(c) /\ Routes[c][s.neuron] # <<>>)
  <2>1. packetizer_work'[c] = <<>>
    BY <1>1, <1>4 DEF PacketizerWorkAfter
  <2> QED BY <2>1 DEF RoutesToGo
<1> QED BY <1>2, <1>3, <1>4
\* The counter counts.
LEMMA CountIsNatural == ASSUME StorageInv PROVE no_progress_cycles \in Nat
<1>1. no_progress_cycles \in 0 .. deadlock_detection_threshold + 1
  BY DEF StorageInv, ControlInv
<1>2. deadlock_detection_threshold \in Nat
  BY Positive
<1> QED BY <1>1, <1>2

\* A cycle after which the counter is not zero has moved nothing.
LEMMA CycleKeepsStuck ==
    ASSUME StuckInv, StepCycle
    PROVE  /\ StuckInv'
           /\ no_progress_cycles >= 2 => no_progress_cycles' > no_progress_cycles
<1>0. StorageInv /\ RegistersInv /\ \A c \in Cores : RoutesToGo(c)
  BY DEF StuckInv
<1>1. /\ StorageInv' /\ RegistersInv' /\ (\A c \in Cores : RoutesToGo(c)')
      /\ StorageInv /\ RegistersInv /\ (\A c \in Cores : RoutesToGo(c))
      /\ no_progress_cycles \in Nat
  <2>1. \A c \in Cores : RoutesToGo(c)'
    BY <1>0, RoutesKept
  <2> QED BY <1>0, <2>1, CycleKeepsStorage, RegistersKept, CountIsNatural
<1>2. CASE no_progress_cycles >= 2
  <2>1. Stuck
    BY <1>2 DEF StuckInv
  <2>2. no_progress_cycles' = no_progress_cycles + 1 /\ Stuck'
    BY <1>1, <2>1, StuckCycle
  <2> QED BY <1>1, <2>2 DEF StuckInv, Stuck
<1>3. CASE ~(no_progress_cycles >= 2)
  <2>1. PICK g \in GrantSeqs :
          /\ IsArbitration(g) /\ MoveNetwork(g) /\ MoveNeurons /\ MoveContributions /\ MoveEvents
          /\ \/ AdvanceControl /\ CheckDeadlock(TRUE)
             \/ StayInPhase /\ CheckDeadlock(Transfers(g))
    BY DEF StepCycle
  <2>2. \/ no_progress_cycles' = 0
        \/ /\ StayInPhase /\ ~Transfers(g) /\ ~FutureTransition'
           /\ no_progress_cycles' = no_progress_cycles + 1
    BY <2>1 DEF CheckDeadlock
  <2>3. CASE no_progress_cycles' = 0
    BY <1>1, <1>3, <2>3 DEF StuckInv
  <2>4. CASE /\ StayInPhase /\ ~Transfers(g) /\ ~FutureTransition'
             /\ no_progress_cycles' = no_progress_cycles + 1
    <3>1. tick_active' /\ ~FutureTransition'
      BY <2>4 DEF StayInPhase
    <3>2. CASE no_progress_cycles = 0
      BY <1>1, <1>3, <2>4, <3>1, <3>2 DEF StuckInv
    <3>3. CASE no_progress_cycles = 1
      <4>1. g = <<>> /\ tick_active /\ ~FutureTransition
        BY <2>4, <3>3 DEF Transfers, StuckInv
      <4>2. logical_tick' = CurrentTick /\ source_events' = source_events
        BY DEF StepCycle, hostVars
      <4>3. Stuck /\ UNCHANGED stillVars
        BY <1>1, <2>1, <2>4, <4>1, <4>2, StillCycle
      <4>4. Stuck'
        BY <4>3, StuckStays
      <4> QED BY <1>1, <1>3, <3>1, <4>4 DEF StuckInv
    <3> QED BY <1>1, <1>3, <3>2, <3>3
  <2> QED BY <2>2, <2>3, <2>4
<1> QED BY <1>2, <1>3

\* What leaves the registers of the cores and the counter alone keeps the invariant, as
\* long as it leaves alone what an active machine reads.
LEMMA OthersKeepStuck ==
    ASSUME StuckInv, StorageInv', UNCHANGED <<coreVars, networkVars, no_progress_cycles>>,
           ~tick_active \/ UNCHANGED stillVars
    PROVE  StuckInv'
<1>1. RegistersInv' /\ \A c \in Cores : RoutesToGo(c)'
  BY DEF StuckInv, RegistersInv, RoutesToGo, coreVars, networkVars
<1>2. CASE ~tick_active
  <2>1. no_progress_cycles \in Nat /\ ~(no_progress_cycles >= 1)
    BY <1>2, CountIsNatural DEF StuckInv
  <2> QED BY <1>1, <2>1 DEF StuckInv
<1>3. CASE UNCHANGED stillVars
  <2>1. FutureTransition' = FutureTransition /\ tick_active' = tick_active
    BY <1>3 DEF FutureTransition, IsReady, stillVars
  <2>2. Stuck => Stuck'
    BY <1>3, StuckStays
  <2> QED BY <1>1, <2>1, <2>2 DEF StuckInv
<1> QED BY <1>2, <1>3

\* One step of a batch run.
LEMMA BatchStepStuck == ASSUME StuckInv, [BatchNext]_vars PROVE StuckInv'
<1>1. StorageInv'
  BY StepKeepsStorage DEF StuckInv
<1>2. CASE StepCycle
  BY <1>2, CycleKeepsStuck
<1>3. CASE RaiseOmittedTick
  BY <1>1, <1>3, OthersKeepStuck DEF RaiseOmittedTick
<1>4. CASE StepIdle \/ UNCHANGED vars
  <2>1. UNCHANGED vars
    BY <1>4 DEF StepIdle
  <2> QED BY <1>1, <2>1, OthersKeepStuck
          DEF vars, controlVars, hostVars, coreVars, networkVars, stillVars
<1>5. ASSUME Fresh, NEW events \in Sources, LoadInputSource(events)
      PROVE  StuckInv'
  BY <1>1, <1>5, OthersKeepStuck DEF Fresh, LoadInputSource, controlVars
<1>6. ASSUME Fresh, NEW ticks \in TickLists, LoadLogicalTicks(ticks)
      PROVE  StuckInv'
  BY <1>1, <1>6, OthersKeepStuck DEF Fresh, LoadLogicalTicks
<1> QED BY <1>2, <1>3, <1>4, <1>5, <1>6 DEF BatchNext, Run

\* A batch run starts with the counter at zero.
LEMMA InitStuck == Init => StuckInv
BY InitStorage DEF Init, StuckInv, RegistersInv, RoutesToGo

\* The report of a deadlock is sound in every batch run: once two cycles in a row were
\* counted, no later cycle of the machine as it is moves anything.
THEOREM BatchDetectorSound == BatchSpec => DetectorSound
<1> DEFINE A == no_progress_cycles >= 2 /\ StepCycle => no_progress_cycles' > no_progress_cycles
<1>1. StuckInv /\ [BatchNext]_vars => StuckInv'
  BY BatchStepStuck
<1>2. StuckInv => [A]_vars
  BY CycleKeepsStuck
<1> HIDE DEF A
<1>3. BatchSpec => [][A]_vars
  BY <1>1, <1>2, InitStuck, PTL DEF BatchSpec
<1> QED BY <1>3 DEF DetectorSound, A
-----------------------------------------------------------------------------
(* The order of the spikes.  A quiet neuron may pass a spike that waits    *)
(* for room, so the pipeline is not emptied in order; but a neuron is fed, *)
(* issued and ready no earlier than the neurons before it, and so a spike  *)
(* that is recorded leaves no spike before it behind.                      *)

\* The stages of the neuron phase hold the neurons of a core in their order.
QueueOrdered(c) ==
    /\ \A e, f \in neuron_pipeline[c] : e.neuron < f.neuron => e.wait <= f.wait
    /\ \A n \in InPipeline(c) : \A m \in neuron_work_fifo[c] \cup neuron_pending[c] : n < m
    /\ \A n \in neuron_work_fifo[c] : \A m \in neuron_pending[c] : n < m

\* The spikes a core can still record in this tick come after spike s.
OnlyLater(s) ==
    /\ \A e \in neuron_pipeline[s.core] : e.spike => s.neuron < e.neuron
    /\ \A m \in neuron_work_fifo[s.core] \cup neuron_pending[s.core] : s.neuron < m

RecordedSpike == [tick : Nat, core : Cores, neuron : Nat]

SpikeInv ==
    /\ logical_spikes \in Seq(RecordedSpike)
    /\ \A s \in ToSet(logical_spikes) : s.tick < Earliest
    /\ \A c \in Cores : QueueOrdered(c)
    /\ tick_active /\ phase = "neuron" =>
          \A s \in ToSet(logical_spikes) : s.tick = logical_tick => OnlyLater(s)
    /\ CoreSpikesInOrder

\* What a cycle of the neuron phase leaves in its stages is still in order.
LEMMA QueueAfterCycle ==
    ASSUME StorageInv, MoveNeurons, NEW c \in Cores, QueueOrdered(c)
    PROVE  /\ \A e, f \in neuron_pipeline'[c] : e.neuron < f.neuron => e.wait <= f.wait
           /\ \A n \in InPipeline(c)' :
                \A m \in neuron_work_fifo'[c] \cup PendingAfterFeed[c] : n < m
           /\ \A n \in neuron_work_fifo'[c] : \A m \in PendingAfterFeed[c] : n < m
           /\ \A e \in neuron_pipeline'[c] :
                \/ e.neuron \in IssuedNeurons(c)
                \/ \E f \in neuron_pipeline[c] \ Written(c) :
                        e.neuron = f.neuron /\ e.spike = f.spike
<1> DEFINE kept == neuron_pipeline[c] \ Written(c)
           entry(n) == PipelineEntry(c, n)
<1>1. neuron_pipeline'[c] = {Waited(e) : e \in kept} \cup {Waited(entry(n)) : n \in IssuedNeurons(c)}
  BY DEF MoveNeurons
<1>2. neuron_work_fifo'[c] = (neuron_work_fifo[c] \ IssuedNeurons(c)) \cup FedNeurons(c)
  BY DEF MoveNeurons
<1>3. InPipeline(c)' = (InPipeline(c) \ WrittenNeurons(c)) \cup IssuedNeurons(c)
  BY PipelineAfterCycle DEF StorageInv
<1>4. PendingAfterFeed[c] = neuron_pending[c] \ FedNeurons(c)
  BY DEF PendingAfterFeed
<1>5. neuron_latency \in Nat /\ neuron_latency >= 1
  BY Positive DEF Latencies
<1>6. neuron_pipeline[c] \subseteq NeuronWork(c) /\ kept \subseteq NeuronWork(c)
  BY DEF StorageInv, NeuronInv
<1>7. \A e \in kept : /\ Waited(e).neuron = e.neuron /\ Waited(e).spike = e.spike
                      /\ Waited(e).wait = IF e.wait > 0 THEN e.wait - 1 ELSE 0
                      /\ e.wait \in 0 .. neuron_latency
  <2> HIDE DEF kept
  <2> QED BY <1>6 DEF NeuronWork, Waited
<1>8. \A n \in IssuedNeurons(c) : /\ Waited(entry(n)).neuron = n
                                  /\ Waited(entry(n)).wait = neuron_latency - 1
  BY <1>5 DEF PipelineEntry, Waited
<1>9. /\ IssuedNeurons(c) \subseteq neuron_work_fifo[c] /\ FedNeurons(c) \subseteq neuron_pending[c]
  BY NeuronStages
<1>10. /\ \A n \in IssuedNeurons(c) : \A m \in neuron_work_fifo[c] \ IssuedNeurons(c) : n < m
       /\ \A n \in FedNeurons(c) : \A m \in neuron_pending[c] \ FedNeurons(c) : n < m
  BY NeuronRoom
<1>11. \A e \in kept : e \in neuron_pipeline[c] /\ e.neuron \in InPipeline(c)
  BY DEF InPipeline
<1>12. neuron_work_fifo[c] \subseteq Int /\ InPipeline(c) \subseteq Int
  BY ProgramFinite DEF StorageInv, NeuronInv, NeuronWork, InPipeline
<1> HIDE DEF kept, entry
<1>13. ASSUME NEW e \in neuron_pipeline'[c], NEW f \in neuron_pipeline'[c], e.neuron < f.neuron
       PROVE  e.wait <= f.wait
  <2>1. CASE \E x \in kept : e = Waited(x)
    <3>1. PICK x \in kept : e = Waited(x)
      BY <2>1
    <3>2. CASE \E y \in kept : f = Waited(y)
      <4>1. PICK y \in kept : f = Waited(y)
        BY <3>2
      <4>2. x.neuron < y.neuron
        BY <1>7, <1>13, <3>1, <4>1
      <4>3. x.wait <= y.wait
        BY <4>2, <1>11 DEF QueueOrdered
      <4> QED BY <3>1, <4>1, <4>3, <1>5, <1>7
    <3>3. CASE \E n \in IssuedNeurons(c) : f = Waited(entry(n))
      <4>1. f.wait = neuron_latency - 1
        BY <3>3, <1>8
      <4> QED BY <3>1, <4>1, <1>5, <1>7
    <3> QED BY <3>2, <3>3, <1>1
  <2>2. CASE \E n \in IssuedNeurons(c) : e = Waited(entry(n))
    <3>1. PICK n \in IssuedNeurons(c) : e = Waited(entry(n))
      BY <2>2
    <3>2. e.neuron = n /\ e.wait = neuron_latency - 1
      BY <3>1, <1>8
    <3>3. CASE \E y \in kept : f = Waited(y)
      <4>1. PICK y \in kept : f = Waited(y)
        BY <3>3
      <4>2. y.neuron < n
        BY <4>1, <1>9, <1>11 DEF QueueOrdered
      <4>3. n < y.neuron /\ n \in Int /\ y.neuron \in Int
        BY <4>1, <3>2, <1>7, <1>9, <1>11, <1>12, <1>13
      <4> QED BY <4>2, <4>3
    <3>4. CASE \E m \in IssuedNeurons(c) : f = Waited(entry(m))
      BY <3>2, <3>4, <1>5, <1>8
    <3> QED BY <3>3, <3>4, <1>1
  <2> QED BY <2>1, <2>2, <1>1
<1>14. \A n \in InPipeline(c)' :
         \A m \in neuron_work_fifo'[c] \cup PendingAfterFeed[c] : n < m
  BY <1>2, <1>3, <1>4, <1>9, <1>10 DEF QueueOrdered
<1>15. \A n \in neuron_work_fifo'[c] : \A m \in PendingAfterFeed[c] : n < m
  BY <1>2, <1>4, <1>9, <1>10 DEF QueueOrdered
<1>16. ASSUME NEW e \in neuron_pipeline'[c]
       PROVE  \/ e.neuron \in IssuedNeurons(c)
              \/ \E f \in kept : e.neuron = f.neuron /\ e.spike = f.spike
  BY <1>1, <1>7, <1>8
<1> QED BY <1>13, <1>14, <1>15, <1>16 DEF kept

\* A spike that is written back comes before every spike that is not: one with a lower
\* neuron would be ready too, in the window and before it in the room of the FIFO.
LEMMA SpikesFirst ==
    ASSUME StorageInv, NEW c \in Cores, QueueOrdered(c), NEW e \in Written(c), e.spike,
           NEW f \in neuron_pipeline[c] \ Written(c), f.spike
    PROVE  e.neuron < f.neuron
<1> DEFINE R == {x \in neuron_pipeline[c] : IsReady(x)}
           F == {x \in WritebackWindow(c) : x.spike}
           room == spike_fifo_depth - Len(spike_fifo[c])
<1>1. /\ InNeuron /\ e \in F
      /\ Cardinality(EarlierNeurons(F)[e]) < room
      /\ f \in F => ~(Cardinality(EarlierNeurons(F)[f]) < room)
  <2>1. InNeuron /\ e \in F
    BY DEF Written
  <2>2. \A x \in F : EarlierNeurons(F)[x] = {y \in WritebackWindow(c) : y.spike /\ NeuronBefore(y, x)}
    BY DEF EarlierNeurons
  <2>3. Cardinality({y \in WritebackWindow(c) : y.spike /\ NeuronBefore(y, e)}) < room
    BY <2>1 DEF Written
  <2>4. f \in F => ~(Cardinality({y \in WritebackWindow(c) : y.spike /\ NeuronBefore(y, f)}) < room)
    BY <2>1 DEF Written
  <2> HIDE DEF F, room
  <2> QED BY <2>1, <2>2, <2>3, <2>4
<1>2. /\ e \in R /\ Cardinality(EarlierNeurons(R)[e]) < neuron_lanes
      /\ f \in R /\ Cardinality(EarlierNeurons(R)[f]) < neuron_lanes => f \in F
  <2>1. e \in WritebackWindow(c)
    BY <1>1
  <2>2. \A x \in R : EarlierNeurons(R)[x] = {y \in R : NeuronBefore(y, x)}
    BY DEF EarlierNeurons
  <2>3. WritebackWindow(c) = {x \in R : Cardinality({y \in R : NeuronBefore(y, x)}) < neuron_lanes}
    BY DEF WritebackWindow, FirstOf, Rank
  <2>4. f \in WritebackWindow(c) => f \in F
    OBVIOUS
  <2> HIDE DEF R, F
  <2> QED BY <2>1, <2>2, <2>3, <2>4
<1>3. /\ e \in neuron_pipeline[c] /\ f \in neuron_pipeline[c] /\ e # f
      /\ e.neuron \in Nat /\ f.neuron \in Nat /\ e.wait \in Nat /\ f.wait \in Nat
  <2>1. e \in neuron_pipeline[c] /\ neuron_latency \in Nat
    BY NeuronStages, Positive DEF Latencies
  <2>2. e \in NeuronWork(c) /\ f \in NeuronWork(c)
    BY <2>1 DEF StorageInv, NeuronInv
  <2> QED BY <2>1, <2>2, ProgramFinite DEF NeuronWork
<1>4. e.neuron # f.neuron
  BY <1>3 DEF StorageInv, WorkInv, NeuronWorkPartition
<1>5. ASSUME f.neuron < e.neuron
      PROVE  FALSE
  <2>1. f \in R
    <3>1. f.wait <= e.wait /\ e.wait = 0
      BY <1>2, <1>3, <1>5 DEF QueueOrdered, IsReady
    <3> QED BY <3>1, <1>3 DEF IsReady
  <2>2. f \in EarlierNeurons(R)[e]
    BY <1>2, <1>5, <2>1 DEF EarlierNeurons, NeuronBefore
  <2>3. IsOrder(R, EarlierNeurons(R)) /\ IsFiniteSet(R)
    BY NeuronsOrdered
  <2>4. F \subseteq neuron_pipeline[c]
    BY DEF WritebackWindow, FirstOf
  <2>5. IsOrder(F, EarlierNeurons(F)) /\ IsFiniteSet(F)
    BY <2>4, NeuronsOrdered
  <2>6. room \in Int /\ neuron_lanes \in Int
    <3>1. spike_fifo[c] \in Seq(CycleSpike(c)) /\ spike_fifo_depth \in Nat /\ neuron_lanes \in Nat
      BY Positive DEF StorageInv, NeuronInv, Depths, Rates
    <3> QED BY <3>1
  <2>7. e \in F => (f \in F => (f \in EarlierNeurons(F)[e]))
    BY <1>5 DEF EarlierNeurons, NeuronBefore
  <2> DEFINE b == EarlierNeurons(R)
             d == EarlierNeurons(F)
  <2>8. /\ e \in R /\ Cardinality(b[e]) < neuron_lanes
        /\ Cardinality(b[f]) < neuron_lanes => f \in F
        /\ e \in F /\ Cardinality(d[e]) < room
        /\ f \in F => ~(Cardinality(d[f]) < room)
        /\ f \in b[e] /\ (f \in F => f \in d[e])
    BY <1>1, <1>2, <2>1, <2>2, <2>7
  <2> HIDE DEF R, F, b, d, room
  <2>9. IsOrder(R, b) /\ IsOrder(F, d)
    BY <2>3, <2>5 DEF b, d
  <2>10. /\ Cardinality(b[f]) < Cardinality(b[e])
         /\ Cardinality(b[f]) \in 0 .. Cardinality(R) - 1
         /\ Cardinality(b[e]) \in 0 .. Cardinality(R) - 1
    BY <2>1, <2>3, <2>8, <2>9, RankGrows
  <2>11. f \in F
    BY <2>6, <2>8, <2>10
  <2>12. /\ Cardinality(d[f]) < Cardinality(d[e])
         /\ Cardinality(d[f]) \in 0 .. Cardinality(F) - 1
         /\ Cardinality(d[e]) \in 0 .. Cardinality(F) - 1
    BY <2>5, <2>8, <2>9, <2>11, RankGrows
  <2> QED BY <2>6, <2>8, <2>11, <2>12
<1> QED BY <1>3, <1>4, <1>5
EarlierSpikes(S) == [s \in S |-> {t \in S : RecordedBefore(t, s)}]

\* The spikes of one tick are ordered by core and neuron.
LEMMA SpikesOrdered ==
    ASSUME NEW T, NEW S, S \subseteq [tick : {T}, core : Cores, neuron : Nat]
    PROVE  IsOrder(S, EarlierSpikes(S))
<1> DEFINE b == EarlierSpikes(S)
<1>1. \A s \in S : s.core \in Nat /\ s.neuron \in Nat
  BY ProgramFinite
<1>2. \A s, t \in S : s.core = t.core /\ s.neuron = t.neuron => s = t
  OBVIOUS
<1>3. \A s \in S : b[s] = {t \in S : \/ t.core < s.core
                                     \/ t.core = s.core /\ t.neuron < s.neuron}
  BY DEF EarlierSpikes, RecordedBefore
<1> HIDE DEF b
<1>4. \A s \in S : b[s] \subseteq S /\ s \notin b[s]
  BY <1>1, <1>3
<1>5. \A s, t \in S : s = t \/ s \in b[t] \/ t \in b[s]
  BY <1>1, <1>2, <1>3
<1>6. ASSUME NEW s \in S, NEW t \in S, s \in b[t]
      PROVE  b[s] \subseteq b[t]
  <2>1. s.core < t.core \/ (s.core = t.core /\ s.neuron < t.neuron)
    BY <1>3, <1>6
  <2>2. \A r \in S : (r.core < s.core \/ (r.core = s.core /\ r.neuron < s.neuron)) =>
                      (r.core < t.core \/ (r.core = t.core /\ r.neuron < t.neuron))
    BY <2>1, <1>1
  <2> QED BY <2>2, <1>3
<1>7. IsOrder(S, b)
  BY <1>4, <1>5, <1>6 DEF IsOrder
<1> QED BY <1>7 DEF b

\* The spikes a cycle records: of the current tick, in order, each one written back.
LEMMA SpikesRecorded ==
    ASSUME StorageInv, CurrentTick \in Nat
    PROVE  /\ InOrder(NewSpikes, RecordedBefore) \in Seq(RecordedSpike)
           /\ \A k \in 1 .. Len(InOrder(NewSpikes, RecordedBefore)) :
                LET s == InOrder(NewSpikes, RecordedBefore)[k]
                IN  /\ s.tick = CurrentTick /\ InNeuron
                    /\ \E e \in Written(s.core) : e.spike /\ s.neuron = e.neuron
           /\ \A i, j \in 1 .. Len(InOrder(NewSpikes, RecordedBefore)) :
                i < j => RecordedBefore(InOrder(NewSpikes, RecordedBefore)[i],
                                        InOrder(NewSpikes, RecordedBefore)[j])
<1> DEFINE S == NewSpikes
           r == InOrder(S, RecordedBefore)
           n == Cardinality(S)
           b == EarlierSpikes(S)
<1>1. ASSUME NEW s \in S
      PROVE  /\ s \in [tick : {CurrentTick}, core : Cores, neuron : Nat] /\ InNeuron
             /\ \E e \in Written(s.core) : e.spike /\ s.neuron = e.neuron
  <2>1. PICK c \in Cores : s \in ToSet(SpikesOf(c))
    BY DEF NewSpikes
  <2>2. /\ Len(SpikesOf(c)) \in Nat /\ DOMAIN SpikesOf(c) = 1 .. Len(SpikesOf(c))
        /\ Len(SpikesOf(c)) > 0 => InNeuron
        /\ \A k \in 1 .. Len(SpikesOf(c)) :
             \E e \in Written(c) : /\ e.spike /\ e.neuron \in Neurons(c)
                                   /\ SpikesOf(c)[k] = [tick |-> CurrentTick, core |-> c,
                                                       neuron |-> e.neuron]
    BY SpikesFit
  <2>3. PICK k \in 1 .. Len(SpikesOf(c)) : s = SpikesOf(c)[k]
    BY <2>1, <2>2 DEF ToSet
  <2>4. PICK e \in Written(c) : /\ e.spike /\ e.neuron \in Neurons(c)
                                /\ s = [tick |-> CurrentTick, core |-> c, neuron |-> e.neuron]
    BY <2>2, <2>3
  <2>5. InNeuron
    BY <2>2, <2>3
  <2>6. e.neuron \in Nat
    BY <2>4, ProgramFinite
  <2> QED BY <2>4, <2>5, <2>6
<1>2. IsFiniteSet(S)
  <2> DEFINE part == [c \in Cores |-> ToSet(SpikesOf(c))]
             P == {part[c] : c \in Cores}
  <2>1. ASSUME NEW c \in Cores
        PROVE  IsFiniteSet(part[c])
    <3> DEFINE f == SpikesOf(c)
               m == Len(f)
    <3>1. m \in Nat /\ DOMAIN f = 1 .. m
      BY SpikesFit
    <3>2. \A y \in ToSet(f) : \E k \in 1 .. m : y = f[k]
      BY <3>1 DEF ToSet
    <3>3. part[c] = ToSet(f)
      OBVIOUS
    <3> HIDE DEF f, m, part
    <3>4. IsFiniteSet(1 .. m)
      BY <3>1, FS_Interval
    <3> DEFINE K == 1 .. m
               T == part[c]
    <3>5. IsFiniteSet(K) /\ \A y \in T : \E k \in K : y = f[k]
      BY <3>2, <3>3, <3>4
    <3> HIDE DEF K, T
    <3>6. IsFiniteSet(T)
      BY <3>5, ImageBound
    <3> QED BY <3>6 DEF T
  <2>2. S = UNION P
    BY DEF NewSpikes
  <2>3. \A y \in P : \E c \in Cores : y = part[c]
    OBVIOUS
  <2> HIDE DEF part, P, S
  <2>4. IsFiniteSet(P)
    BY <2>3, ProgramFinite, ImageBound
  <2>5. \A T \in P : IsFiniteSet(T)
    BY <2>1, <2>3
  <2> QED BY <2>2, <2>4, <2>5, FS_UNION
<1>3. n \in Nat
  BY <1>2, FS_CardinalityType
<1>4. IsOrder(S, b)
  <2>1. S \subseteq [tick : {CurrentTick}, core : Cores, neuron : Nat]
    BY <1>1
  <2> HIDE DEF S
  <2> QED BY <2>1, SpikesOrdered
<1>5. \A x \in S : Cardinality(b[x]) = Rank(x, S, RecordedBefore)
  BY DEF EarlierSpikes, Rank
<1>6. \A x, y \in S : x \in b[y] => RecordedBefore(x, y)
  BY DEF EarlierSpikes
<1>7. r = [k \in 1 .. n |-> CHOOSE x \in S : Rank(x, S, RecordedBefore) = k - 1]
  BY DEF InOrder
<1> HIDE DEF S, b, r, n
<1>8. ASSUME NEW k \in 1 .. n
      PROVE  r[k] \in S /\ Cardinality(b[r[k]]) = k - 1
  <2> DEFINE j == k - 1
  <2>1. j \in 0 .. n - 1
    BY <1>3
  <2>2. r[k] = CHOOSE x \in S : Rank(x, S, RecordedBefore) = j
    BY <1>7
  <2> HIDE DEF j
  <2>3. \E x \in S : Cardinality(b[x]) = j
    BY <2>1, <1>2, <1>4, RankTaken DEF n
  <2>4. r[k] \in S /\ Rank(r[k], S, RecordedBefore) = j
    BY <2>2, <2>3, <1>5
  <2> QED BY <2>4, <1>5 DEF j
<1>9. r \in [1 .. n -> RecordedSpike]
  <2>1. \A k \in 1 .. n : r[k] \in RecordedSpike
    BY <1>1, <1>8 DEF RecordedSpike
  <2>2. r = [k \in 1 .. n |-> r[k]]
    BY <1>7
  <2> QED BY <2>1, <2>2
<1>10. r \in Seq(RecordedSpike) /\ Len(r) = n
  BY <1>3, <1>9, FunctionIsSequence
<1>11. \A k \in 1 .. n : /\ r[k].tick = CurrentTick /\ InNeuron
                         /\ \E e \in Written(r[k].core) : e.spike /\ r[k].neuron = e.neuron
  BY <1>1, <1>8
<1>12. \A i, j \in 1 .. n : i < j => RecordedBefore(r[i], r[j])
  <2> SUFFICES ASSUME NEW i \in 1 .. n, NEW j \in 1 .. n, i < j
               PROVE  RecordedBefore(r[i], r[j])
    OBVIOUS
  <2>1. /\ r[i] \in S /\ Cardinality(b[r[i]]) = i - 1
        /\ r[j] \in S /\ Cardinality(b[r[j]]) = j - 1
    BY <1>8
  <2>2. i - 1 < j - 1
    BY <1>3
  <2> DEFINE x == r[i]
             y == r[j]
  <2> HIDE DEF x, y
  <2>3. x \in S /\ y \in S /\ Cardinality(b[x]) < Cardinality(b[y])
    BY <2>1, <2>2 DEF x, y
  <2>4. x \in b[y]
    BY <2>3, <1>2, <1>4, RankGrows
  <2> QED BY <2>3, <2>4, <1>6 DEF x, y
<1> QED BY <1>10, <1>11, <1>12 DEF r, S

\* The tick of the controller before and after a cycle.
LEMMA EarliestAfter ==
    ASSUME StorageInv, TimeInv, HasWork, logical_tick' = CurrentTick, CurrentTick \in Nat,
           AdvanceControl \/ StayInPhase
    PROVE  /\ Earliest \in Nat /\ Earliest' \in Nat
           /\ Earliest <= Earliest' /\ Earliest <= CurrentTick + 1
           /\ InWork => Earliest <= CurrentTick
           /\ InNeuron => Earliest' = CurrentTick + 1
<1>1. PICK e \in Nat : CycleTime(e) /\ Earliest <= e
  BY CycleBegins
<1>2. e = IF InWork THEN CurrentTick ELSE CurrentTick + 1
  BY <1>1 DEF CycleTime
<1>3. Earliest \in Nat
  BY EarliestIsTick
<1>4. Earliest' = CASE ~tick_active' -> last_completed_tick' + 1
                    [] tick_active' /\ phase' = "work" -> logical_tick'
                    [] OTHER -> logical_tick' + 1
  BY DEF Earliest
<1>5. Earliest' \in {CurrentTick, CurrentTick + 1} /\ (~InWork => Earliest' = CurrentTick + 1)
  BY <1>4 DEF AdvanceControl, StayInPhase, HoldEmptyTick, EnterNeuron, EnterPacketize,
              EnterBarrier, CompleteTick, InWork, InNeuron, EmptyIngressWait, CurrentPhase
<1>6. InNeuron => ~InWork
  BY DEF InNeuron, InWork
<1> QED BY <1>1, <1>2, <1>3, <1>5, <1>6
\* After a cycle the stages of every core are in order.
LEMMA QueueKept ==
    ASSUME StorageInv, MoveNeurons, MoveContributions, AdvanceControl \/ StayInPhase,
           NEW c \in Cores, QueueOrdered(c)
    PROVE  QueueOrdered(c)'
<1>1. CASE InNeuron
  <2>1. neuron_pending'[c] = PendingAfterFeed[c]
    BY <1>1 DEF AdvanceControl, StayInPhase, HoldEmptyTick, EnterNeuron, EnterPacketize,
                EnterBarrier, CompleteTick, InWork, InNeuron, EmptyIngressWait, CurrentPhase
  <2>2. /\ \A e, f \in neuron_pipeline'[c] : e.neuron < f.neuron => e.wait <= f.wait
        /\ \A n \in InPipeline(c)' :
             \A m \in neuron_work_fifo'[c] \cup PendingAfterFeed[c] : n < m
        /\ \A n \in neuron_work_fifo'[c] : \A m \in PendingAfterFeed[c] : n < m
    BY QueueAfterCycle
  <2> QED BY <2>1, <2>2 DEF QueueOrdered
<1>2. CASE ~InNeuron
  <2>1. neuron_work_fifo'[c] = {} /\ InPipeline(c)' = {}
    BY <1>2, PhaseOfCycle, WorkAfterCycle DEF StorageInv
  <2>2. neuron_pipeline'[c] = {}
    BY <2>1 DEF InPipeline
  <2> QED BY <2>1, <2>2 DEF QueueOrdered
<1> QED BY <1>1, <1>2

\* What a core can still record after a cycle of the neuron phase comes after a spike s
\* if all it held before did, or if s is one of the spikes the cycle records.
LEMMA LaterKept ==
    ASSUME StorageInv, MoveNeurons, MoveContributions, InNeuron,
           AdvanceControl \/ StayInPhase,
           NEW s, s.core \in Cores, QueueOrdered(s.core),
           \/ OnlyLater(s)
           \/ \E e \in Written(s.core) : e.spike /\ s.neuron = e.neuron
    PROVE  OnlyLater(s)'
<1> DEFINE c == s.core
<1>1. neuron_pending'[c] = PendingAfterFeed[c] /\ PendingAfterFeed[c] = neuron_pending[c] \ FedNeurons(c)
  BY DEF AdvanceControl, StayInPhase, HoldEmptyTick, EnterNeuron, EnterPacketize, PendingAfterFeed,
         EnterBarrier, CompleteTick, InWork, InNeuron, EmptyIngressWait, CurrentPhase
<1>2. \A e \in neuron_pipeline'[c] :
        \/ e.neuron \in IssuedNeurons(c)
        \/ \E f \in neuron_pipeline[c] \ Written(c) : e.neuron = f.neuron /\ e.spike = f.spike
  BY QueueAfterCycle
<1>3. /\ neuron_work_fifo'[c] = (neuron_work_fifo[c] \ IssuedNeurons(c)) \cup FedNeurons(c)
      /\ IssuedNeurons(c) \subseteq neuron_work_fifo[c] /\ FedNeurons(c) \subseteq neuron_pending[c]
      /\ Written(c) \subseteq neuron_pipeline[c]
  BY NeuronStages DEF MoveNeurons
<1>4. /\ \A f \in neuron_pipeline[c] \ Written(c) : f.spike => s.neuron < f.neuron
      /\ \A m \in neuron_work_fifo[c] \cup neuron_pending[c] : s.neuron < m
  <2>1. CASE OnlyLater(s)
    BY <2>1 DEF OnlyLater
  <2>2. CASE \E e \in Written(c) : e.spike /\ s.neuron = e.neuron
    <3>1. PICK e \in Written(c) : e.spike /\ s.neuron = e.neuron
      BY <2>2
    <3>2. e.neuron \in InPipeline(c)
      BY <1>3 DEF InPipeline
    <3> QED BY <3>1, <3>2, SpikesFirst DEF QueueOrdered
  <2> QED BY <2>1, <2>2
<1> QED BY <1>1, <1>2, <1>3, <1>4 DEF OnlyLater

\* A cycle keeps the record in order.
LEMMA CycleKeepsSpikes ==
    ASSUME StorageInv, TimeInv, SpikeInv, StepCycle
    PROVE  SpikeInv'
<1> DEFINE new == InOrder(NewSpikes, RecordedBefore)
           m == Len(logical_spikes)
<1>1. CurrentTick \in Nat
  BY TickOfCycle DEF StepCycle
<1>2. PICK g \in GrantSeqs :
        /\ MoveNeurons /\ MoveContributions
        /\ AdvanceControl \/ StayInPhase
  BY DEF StepCycle
<1>3. logical_tick' = CurrentTick /\ HasWork /\ logical_spikes' = logical_spikes \o new
  BY <1>2 DEF StepCycle, MoveNeurons
<1>4. /\ Earliest \in Nat /\ Earliest' \in Nat
      /\ Earliest <= Earliest' /\ Earliest <= CurrentTick + 1
      /\ InWork => Earliest <= CurrentTick
      /\ InNeuron => Earliest' = CurrentTick + 1
  BY <1>1, <1>2, <1>3, EarliestAfter
<1>5. /\ new \in Seq(RecordedSpike)
      /\ \A k \in 1 .. Len(new) :
            /\ new[k].tick = CurrentTick /\ InNeuron
            /\ \E e \in Written(new[k].core) : e.spike /\ new[k].neuron = e.neuron
      /\ \A i, j \in 1 .. Len(new) : i < j => RecordedBefore(new[i], new[j])
  BY <1>1, SpikesRecorded
<1>6. logical_spikes \in Seq(RecordedSpike)
  BY DEF SpikeInv
<1>7. \A s \in ToSet(logical_spikes) : s \in RecordedSpike /\ s.tick < Earliest
  BY <1>6 DEF SpikeInv, ToSet
<1>8. InNeuron => tick_active /\ phase = "neuron" /\ CurrentTick = logical_tick
  BY DEF InNeuron, CurrentPhase, CurrentTick
<1> HIDE DEF new
<1>9. /\ logical_spikes' \in Seq(RecordedSpike)
      /\ ToSet(logical_spikes') = ToSet(logical_spikes) \cup ToSet(new)
  BY <1>3, <1>5, <1>6, ConcatHolds
<1>10. \A s \in ToSet(new) : /\ s \in RecordedSpike /\ s.tick = CurrentTick /\ InNeuron
                             /\ \E e \in Written(s.core) : e.spike /\ s.neuron = e.neuron
  BY <1>5 DEF ToSet
<1>11. \A s \in ToSet(logical_spikes') : s.tick < Earliest'
  <2>1. \A s \in ToSet(logical_spikes) : s.tick < Earliest'
    BY <1>4, <1>7 DEF RecordedSpike
  <2>2. \A s \in ToSet(new) : s.tick < Earliest'
    BY <1>1, <1>4, <1>10
  <2> QED BY <1>9, <2>1, <2>2
<1>12. \A c \in Cores : QueueOrdered(c)'
  BY <1>2, QueueKept DEF SpikeInv
<1>13. ASSUME tick_active', phase' = "neuron", NEW s \in ToSet(logical_spikes'),
              s.tick = logical_tick'
       PROVE  OnlyLater(s)'
  <2>1. s \in RecordedSpike
    BY <1>7, <1>9, <1>10
  <2>2. CASE InWork
    <3>1. s \in ToSet(logical_spikes)
      BY <2>2, <1>9, <1>10 DEF InWork, InNeuron
    <3> QED BY <3>1, <2>1, <2>2, <1>1, <1>3, <1>4, <1>7, <1>13 DEF RecordedSpike
  <2>3. CASE ~InWork
    <3>1. InNeuron
      BY <2>3, <1>2, <1>13 DEF AdvanceControl, StayInPhase, HoldEmptyTick, EnterNeuron,
                EnterPacketize, EnterBarrier, CompleteTick, InWork, InNeuron
    <3>2. \/ OnlyLater(s)
          \/ \E e \in Written(s.core) : e.spike /\ s.neuron = e.neuron
      BY <3>1, <1>3, <1>8, <1>9, <1>10, <1>13 DEF SpikeInv
    <3>3. s.core \in Cores /\ QueueOrdered(s.core)
      BY <2>1 DEF RecordedSpike, SpikeInv
    <3> QED BY <1>2, <3>1, <3>2, <3>3, LaterKept
  <2> QED BY <2>2, <2>3
<1>14. CoreSpikesInOrder'
  <2>1. m \in Nat /\ Len(new) \in Nat /\ Len(logical_spikes') = m + Len(new)
    BY <1>3, <1>5, <1>6, ConcatHolds
  <2>2. \A i \in 1 .. m : logical_spikes'[i] = logical_spikes[i]
    BY <1>3, <1>5, <1>6
  <2>3. \A i \in 1 .. m + Len(new) : i \notin 1 .. m =>
            i - m \in 1 .. Len(new) /\ logical_spikes'[i] = new[i - m]
    BY <1>3, <1>5, <1>6
  <2> SUFFICES ASSUME NEW i \in 1 .. m + Len(new), NEW j \in 1 .. m + Len(new), i < j,
                      logical_spikes'[i].core = logical_spikes'[j].core
               PROVE  \/ logical_spikes'[i].tick < logical_spikes'[j].tick
                      \/ /\ logical_spikes'[i].tick = logical_spikes'[j].tick
                         /\ logical_spikes'[i].neuron < logical_spikes'[j].neuron
    BY <2>1 DEF CoreSpikesInOrder
  <2>4. CASE j \in 1 .. m
    <3>1. i \in 1 .. m /\ logical_spikes'[i] = logical_spikes[i] /\ logical_spikes'[j] = logical_spikes[j]
      BY <2>1, <2>2, <2>4
    <3> QED BY <2>4, <3>1 DEF SpikeInv, CoreSpikesInOrder
  <2>5. CASE i \notin 1 .. m
    <3>1. j \notin 1 .. m
      BY <2>1, <2>5
    <3>2. /\ i - m \in 1 .. Len(new) /\ logical_spikes'[i] = new[i - m]
          /\ j - m \in 1 .. Len(new) /\ logical_spikes'[j] = new[j - m] /\ i - m < j - m
      BY <2>1, <2>3, <2>5, <3>1
    <3>3. /\ RecordedBefore(new[i - m], new[j - m])
          /\ new[i - m].tick = CurrentTick /\ new[j - m].tick = CurrentTick
      BY <3>2, <1>5
    <3>4. new[i - m] \in RecordedSpike /\ new[j - m] \in RecordedSpike
      BY <3>2, <1>5
    <3>5. new[i - m].core \in Nat /\ new[j - m].core \in Nat
      BY <3>4, ProgramFinite DEF RecordedSpike
    <3> QED BY <3>2, <3>3, <3>5 DEF RecordedBefore
  <2>6. CASE i \in 1 .. m /\ j \notin 1 .. m
    <3> DEFINE s == logical_spikes[i]
               t == new[j - m]
    <3>1. s = logical_spikes'[i] /\ t = logical_spikes'[j]
      BY <2>2, <2>3, <2>6
    <3>2. s \in ToSet(logical_spikes) /\ t \in ToSet(new)
      BY <2>3, <2>6, <1>6 DEF ToSet
    <3> HIDE DEF s, t
    <3>3. /\ t.tick = CurrentTick /\ InNeuron /\ s.core = t.core
          /\ s \in RecordedSpike /\ s.tick < Earliest
          /\ t.core \in Cores
      BY <3>1, <3>2, <1>7, <1>10 DEF RecordedSpike
    <3>4. CASE s.tick = CurrentTick
      <4>1. OnlyLater(s)
        BY <3>2, <3>3, <3>4, <1>8 DEF SpikeInv
      <4>2. PICK e \in Written(t.core) : e.spike /\ t.neuron = e.neuron
        BY <3>2, <1>10
      <4>3. e \in neuron_pipeline[s.core]
        BY <3>3, NeuronStages
      <4>4. s.neuron < t.neuron
        BY <4>1, <4>2, <4>3 DEF OnlyLater
      <4> QED BY <3>1, <3>3, <3>4, <4>4
    <3>5. CASE s.tick # CurrentTick
      BY <3>1, <3>3, <3>5, <1>1, <1>4 DEF RecordedSpike
    <3> QED BY <3>4, <3>5
  <2> QED BY <2>4, <2>5, <2>6
<1> QED BY <1>9, <1>11, <1>12, <1>13, <1>14 DEF SpikeInv

\* Every other step of a batch run leaves the record, the stages and the tick alone.
LEMMA OthersKeepSpikes ==
    ASSUME SpikeInv,
           UNCHANGED <<logical_spikes, neuron_pipeline, neuron_work_fifo, neuron_pending,
                       tick_active, phase, logical_tick, last_completed_tick>>
    PROVE  SpikeInv'
<1>1. Earliest' = Earliest
  BY DEF Earliest
<1>2. \A c \in Cores : QueueOrdered(c)'
  BY DEF SpikeInv, QueueOrdered, InPipeline
<1>3. CoreSpikesInOrder'
  BY DEF SpikeInv, CoreSpikesInOrder
<1> QED BY <1>1, <1>2, <1>3 DEF SpikeInv, OnlyLater

\* So a step of a batch run keeps it.
LEMMA BatchStepSpikes ==
    ASSUME BatchInv, SpikeInv, [BatchNext]_vars
    PROVE  SpikeInv'
<1>1. CASE StepCycle
  BY <1>1, CycleKeepsSpikes DEF BatchInv
<1>2. CASE RaiseOmittedTick
  BY <1>2, OthersKeepSpikes DEF RaiseOmittedTick, coreVars, resultVars
<1>3. CASE StepIdle \/ UNCHANGED vars
  BY <1>3, OthersKeepSpikes DEF StepIdle, vars, controlVars, coreVars, resultVars
<1>4. ASSUME NEW events \in Sources, LoadInputSource(events)
      PROVE  SpikeInv'
  BY <1>4, OthersKeepSpikes DEF LoadInputSource, controlVars, coreVars, resultVars
<1>5. ASSUME NEW ticks \in TickLists, LoadLogicalTicks(ticks)
      PROVE  SpikeInv'
  BY <1>5, OthersKeepSpikes DEF LoadLogicalTicks, coreVars, resultVars
<1> QED BY <1>1, <1>2, <1>3, <1>4, <1>5 DEF BatchNext, Run

\* The machine starts with an empty record.
LEMMA InitSpikes == Init => SpikeInv
BY DEF Init, SpikeInv, QueueOrdered, InPipeline, CoreSpikesInOrder, ToSet

\* The spikes of a core are recorded in the order of tick and neuron, whatever stalls the
\* writeback: for every program, every microarchitecture and every loaded source.
THEOREM BatchSpikesInOrder == BatchSpec => []CoreSpikesInOrder
<1>1. BatchInv /\ SpikeInv /\ [BatchNext]_vars => (BatchInv /\ SpikeInv)'
  BY BatchStep, BatchStepSpikes
<1>2. Init => BatchInv /\ SpikeInv
  BY InitStorage, InitTime, InitSpikes DEF BatchInv
<1>3. SpikeInv => CoreSpikesInOrder
  BY DEF SpikeInv
<1> QED BY <1>1, <1>2, <1>3, PTL DEF BatchSpec
-----------------------------------------------------------------------------
(* What a deadlock is made of.  In a stuck machine each stage waits for    *)
(* the next one to make room; followed to its end, the chain stops at      *)
(* storage that holds what belongs to a later tick.                        *)

\* The conditions under which a stuck machine moves nothing, one by one.
LEMMA NothingMoves ==
    ASSUME StorageInv, Stuck
    PROVE  /\ AcceptedPackets = {} /\ PacketizedRoutes = {} /\ SourceCount = 0
           /\ \A c \in Cores :
                /\ Transmitted(c) = 0 /\ ~SpikeTaken(c)
                /\ Written(c) = {} /\ IssuedNeurons(c) = {} /\ FedNeurons(c) = {}
                /\ AccumulatorWrites(c) = {} /\ Deferred(c) = {}
                /\ IssueCount(c) = 0 /\ ~LookupDone(c) /\ IngressRequests(c) = {}
           /\ \A e \in packet_pipeline : IsReady(e)
           /\ \A c \in Cores :
                /\ \A e \in ToSet(axon_lookup_pipeline[c]) : IsReady(e)
                /\ \A e \in ToSet(contribution_pipeline[c]) : IsReady(e)
                /\ \A e \in neuron_pipeline[c] : IsReady(e)
           /\ CurrentTick = logical_tick /\ CurrentPhase = phase /\ logical_tick \in Nat
           /\ Grantable(<<>>, 0) = {}
<1>1. /\ AcceptedPackets = {} /\ PacketizedRoutes = {} /\ ~(SourceCount > 0)
      /\ \A c \in Cores :
            /\ ~(Transmitted(c) > 0) /\ ~SpikeTaken(c)
            /\ Written(c) = {} /\ IssuedNeurons(c) = {} /\ FedNeurons(c) = {}
            /\ AccumulatorWrites(c) = {} /\ Deferred(c) = {}
            /\ ~(IssueCount(c) > 0) /\ ~LookupDone(c) /\ IngressRequests(c) = {}
  BY DEF Stuck, Transfers
<1>2. SourceCount = 0
  <2>1. 0 \in Cores /\ source_index \in 0 .. Len(source_events) /\ Len(source_events) \in Nat
    BY ProgramFinite, EventTicks
  <2>2. SourceCount \in 0 .. Len(source_events) - source_index
    BY <2>1, SourcedFits
  <2> QED BY <1>1, <2>1, <2>2
<1>3. ASSUME NEW c \in Cores
      PROVE  Transmitted(c) = 0 /\ IssueCount(c) = 0
  <2>1. Transmitted(c) \in 0 .. Len(router_output_fifos[c]) /\ IssueCount(c) \in Nat
    BY TransmittedFits, IssueFits
  <2>2. Len(router_output_fifos[c]) \in Nat
    BY DEF StorageInv, RouterInv
  <2> QED BY <1>1, <2>1, <2>2
<1>4. /\ \A e \in packet_pipeline : IsReady(e)
      /\ \A c \in Cores :
            /\ \A e \in ToSet(axon_lookup_pipeline[c]) : IsReady(e)
            /\ \A e \in ToSet(contribution_pipeline[c]) : IsReady(e)
            /\ \A e \in neuron_pipeline[c] : IsReady(e)
  BY DEF Stuck, FutureTransition
<1>5. CurrentTick = logical_tick /\ CurrentPhase = phase /\ logical_tick \in Nat
  BY DEF Stuck, CurrentTick, CurrentPhase, StorageInv, ControlInv
<1>6. Grantable(<<>>, 0) = {}
  <2>1. router_packets_accepted_per_cycle # 0
    BY Positive DEF Rates
  <2> QED BY <2>1 DEF Stuck, IsArbitration
<1> QED BY <1>1, <1>2, <1>3, <1>4, <1>5, <1>6

\* A packet that cannot reach its router input waits for a request there.
LEMMA PipelineBlocked ==
    ASSUME StorageInv, Stuck, packet_pipeline # {}
    PROVE  \E s \in Cores : router_input_fifos[s] # <<>>
<1>1. ReadyPackets = {e.packet : e \in packet_pipeline}
  BY NothingMoves DEF ReadyPackets
<1>2. ReadyPackets # {} /\ ReadyPackets \subseteq ReadyPackets
  BY <1>1
<1>3. /\ ReadyPackets \subseteq RoutedPacket /\ IsFiniteSet(ReadyPackets)
      /\ IsOrder(ReadyPackets, EarlierPackets(ReadyPackets))
  BY <1>2, ReadyOrdered
<1>4. Cardinality(ReadyPackets) \in Nat /\ Cardinality(ReadyPackets) # 0
  BY <1>2, <1>3, FS_CardinalityType, FS_EmptySet
<1>5. PICK p \in ReadyPackets : Cardinality(EarlierPackets(ReadyPackets)[p]) = 0
  BY <1>3, <1>4, RankTaken
<1>6. {q \in ReadyPackets : PacketBefore(q, p)} = {}
  <2>1. EarlierPackets(ReadyPackets)[p] = {q \in ReadyPackets : PacketBefore(q, p)}
    BY DEF EarlierPackets
  <2>2. IsFiniteSet({q \in ReadyPackets : PacketBefore(q, p)})
    BY <1>3, FS_Subset
  <2> QED BY <1>5, <2>1, <2>2, FS_EmptySet
<1>7. p \notin RoomyPackets
  <2>1. ASSUME p \in RoomyPackets PROVE FALSE
    <3>1. {q \in RoomyPackets : PacketBefore(q, p)} = {}
      BY <1>6 DEF RoomyPackets
    <3>2. Rank(p, RoomyPackets, PacketBefore) = 0
      BY <3>1, FS_EmptySet DEF Rank
    <3>3. 0 < router_packets_accepted_per_cycle
      <4>1. /\ router_packets_accepted_per_cycle \in Nat
            /\ router_packets_accepted_per_cycle >= 1
        BY Positive DEF Rates
      <4> QED BY <4>1
    <3>4. p \in AcceptedPackets
      BY <2>1, <3>2, <3>3 DEF AcceptedPackets, FirstOf
    <3> QED BY <3>4, NothingMoves
  <2> QED BY <2>1
<1>8. p.source \in Cores /\ router_input_fifos[p.source] \in Seq(RoutedPacket)
  BY <1>3, <1>5 DEF RoutedPacket, Packet, StorageInv, RouterInv
<1>9. {q \in ReadyPackets : q.source = p.source /\ PacketBefore(q, p)} = {}
  BY <1>6
<1>10. ~(0 < router_input_fifo_depth - Len(router_input_fifos[p.source]))
  BY <1>7, <1>9, FS_EmptySet DEF RoomyPackets
<1>11. router_input_fifo_depth \in Nat /\ router_input_fifo_depth >= 1
  BY Positive DEF Depths
<1> QED BY <1>8, <1>10, <1>11

\* A request that is not granted waits for a full output, and a full output for a full
\* routed ingress FIFO.
LEMMA NetworkBlocked ==
    ASSUME StorageInv, Stuck
    PROVE  /\ \A s \in Cores : router_input_fifos[s] # <<>> =>
                \E d \in Cores : Len(router_output_fifos[d]) = router_output_fifo_depth
           /\ \A d \in Cores : router_output_fifos[d] # <<>> =>
                Len(routed_ingress_fifo[d]) = routed_ingress_fifo_depth
<1>1. ASSUME NEW s \in Cores, router_input_fifos[s] # <<>>
      PROVE  \E d \in Cores : Len(router_output_fifos[d]) = router_output_fifo_depth
  <2> DEFINE d == RequestOf(s).core
  <2>1. router_input_fifos[s] \in Seq(RoutedPacket)
    BY DEF StorageInv, RouterInv
  <2>2. d \in Cores
    <3>1. Head(router_input_fifos[s]) \in RoutedPacket
      BY <1>1, <2>1, TailHolds
    <3> QED BY <3>1 DEF RequestOf, RoutedPacket, Packet
  <2>3. s \in Requesters \ {<<>>[i] : i \in 1 .. 0}
    BY <1>1 DEF Requesters
  <2>4. s \notin Grantable(<<>>, 0)
    BY NothingMoves
  <2>5. {i \in 1 .. 0 : RequestOf(<<>>[i]).core = d} = {}
    OBVIOUS
  <2>6. ~(Len(router_output_fifos[d]) + 0 < router_output_fifo_depth)
    BY <2>3, <2>4, <2>5, FS_EmptySet DEF Grantable
  <2>7. Len(router_output_fifos[d]) \in Nat /\ Len(router_output_fifos[d]) <= router_output_fifo_depth
    BY <2>2 DEF StorageInv, RouterInv
  <2>8. router_output_fifo_depth \in Nat
    BY Positive DEF Depths
  <2> QED BY <2>2, <2>6, <2>7, <2>8
<1>2. ASSUME NEW d \in Cores, router_output_fifos[d] # <<>>
      PROVE  Len(routed_ingress_fifo[d]) = routed_ingress_fifo_depth
  <2> DEFINE r == router_packets_transmitted_per_cycle_per_destination
             n == Len(router_output_fifos[d])
             k == routed_ingress_fifo_depth - Len(routed_ingress_fifo[d])
  <2>1. /\ router_output_fifos[d] \in Seq(HeldPacket(d))
        /\ routed_ingress_fifo[d] \in Seq(HeldPacket(d))
        /\ Len(routed_ingress_fifo[d]) <= routed_ingress_fifo_depth
    BY DEF StorageInv, RouterInv, IngressInv
  <2>2. n \in Nat /\ n >= 1 /\ Len(routed_ingress_fifo[d]) \in Nat
    BY <1>2, <2>1
  <2>3. routed_ingress_fifo_depth \in Nat /\ r \in Nat /\ r >= 1
    BY Positive DEF Depths, Rates
  <2>4. Min({r, n, k}) = 0
    BY NothingMoves DEF Transmitted
  <2>5. k \in Nat
    BY <2>1, <2>2, <2>3
  <2> HIDE DEF r, n, k
  <2>6. Min({r, n, k}) \in {r, n, k}
    <3>1. r \in Int /\ n \in Int /\ k \in Int
      BY <2>2, <2>3, <2>5
    <3> QED BY <3>1, LeastOfThree
  <2>7. k = 0
    BY <2>2, <2>3, <2>4, <2>6
  <2> QED BY <2>1, <2>2, <2>3, <2>7 DEF k
<1> QED BY <1>1, <1>2

\* So wherever a packet is on its way, a routed ingress FIFO is full.
LEMMA PacketsBlocked ==
    ASSUME StorageInv, Stuck, NetworkPackets # {}
    PROVE  \E d \in Cores : /\ Len(routed_ingress_fifo[d]) = routed_ingress_fifo_depth
                            /\ packet_pipeline # {} =>
                                 Len(router_output_fifos[d]) = router_output_fifo_depth
<1>1. router_output_fifo_depth \in Nat /\ router_output_fifo_depth >= 1
  BY Positive DEF Depths
<1>2. ASSUME NEW s \in Cores, router_input_fifos[s] # <<>>
      PROVE  \E d \in Cores : /\ Len(routed_ingress_fifo[d]) = routed_ingress_fifo_depth
                              /\ Len(router_output_fifos[d]) = router_output_fifo_depth
  <2>1. PICK d \in Cores : Len(router_output_fifos[d]) = router_output_fifo_depth
    BY <1>2, NetworkBlocked
  <2>2. router_output_fifos[d] # <<>>
    BY <1>1, <2>1
  <2> QED BY <2>1, <2>2, NetworkBlocked
<1>3. CASE packet_pipeline # {}
  BY <1>2, <1>3, PipelineBlocked
<1>4. CASE packet_pipeline = {}
  <2>1. PICK p : p \in NetworkPackets
    OBVIOUS
  <2>2. PICK c \in Cores : p \in ToSet(router_input_fifos[c]) \cup ToSet(router_output_fifos[c])
    BY <1>4, <2>1, NetworkMembers
  <2>3. router_input_fifos[c] # <<>> \/ router_output_fifos[c] # <<>>
    <3>1. ToSet(<<>>) = {}
      BY DEF ToSet
    <3> QED BY <2>2, <3>1
  <2> QED BY <1>2, <1>4, <2>3, NetworkBlocked
<1> QED BY <1>3, <1>4
\* The first k of a set of indices are some, if there are any.
LEMMA LowestSome ==
    ASSUME NEW S, S \subseteq Nat, S # {}, NEW k \in Int, LowestIndices(S, k) = {}
    PROVE  k <= 0
<1>1. PICK x \in S : \A y \in S : x <= y
  BY LeastNatural
<1>2. {y \in S : Below(y, x)} = {}
  <2>1. \A y \in S : ~(y < x)
    BY <1>1
  <2> QED BY <2>1, Zenon DEF Below
<1>3. Rank(x, S, Below) = 0
  BY <1>2, FS_EmptySet DEF Rank
<1>4. ~(Rank(x, S, Below) < k)
  BY DEF LowestIndices, FirstOf
<1> QED BY <1>3, <1>4

\* A neuron that is not updated waits, through the full stages before it, for a spike
\* that finds no room.
LEMMA NeuronsBlocked ==
    ASSUME StorageInv, Stuck, phase = "neuron"
    PROVE  \E c \in Cores : spike_fifo[c] # <<>>
<1>1. PICK c \in Cores :
        neuron_pending[c] # {} \/ neuron_work_fifo[c] # {} \/ neuron_pipeline[c] # {}
  BY DEF Stuck, NeuronComplete
<1>2. /\ neuron_pending[c] \subseteq Nat /\ neuron_work_fifo[c] \subseteq Nat
      /\ IsFiniteSet(neuron_pipeline[c]) /\ neuron_pipeline[c] \subseteq NeuronWork(c)
      /\ Cardinality(neuron_work_fifo[c]) \in Nat /\ Cardinality(neuron_pipeline[c]) \in Nat
      /\ InNeuron
  <2>1. /\ neuron_pending[c] \subseteq Neurons(c) /\ neuron_work_fifo[c] \subseteq Neurons(c)
        /\ IsFiniteSet(neuron_pipeline[c]) /\ neuron_pipeline[c] \subseteq NeuronWork(c)
    BY DEF StorageInv, NeuronInv
  <2>2. Neurons(c) \subseteq Nat /\ IsFiniteSet(Neurons(c))
    BY ProgramFinite
  <2>3. IsFiniteSet(neuron_work_fifo[c])
    BY <2>1, <2>2, FS_Subset
  <2>4. InNeuron
    BY NothingMoves DEF InNeuron
  <2> QED BY <2>1, <2>2, <2>3, <2>4, FS_CardinalityType
<1>3. /\ neuron_work_fifo_depth \in Nat /\ neuron_work_fifo_depth >= 1
      /\ accumulator_clear_bandwidth \in Nat /\ accumulator_clear_bandwidth >= 1
      /\ spike_fifo_depth \in Nat /\ spike_fifo_depth >= 1
      /\ neuron_lanes \in Nat /\ neuron_lanes >= 1
      /\ neuron_latency \in Nat /\ neuron_latency >= 1
  BY Positive DEF Depths, Rates, Latencies
<1>4. neuron_pending[c] # {} => neuron_work_fifo[c] # {}
  <2> DEFINE k == neuron_work_fifo_depth - Cardinality(neuron_work_fifo[c])
             b == accumulator_clear_bandwidth
  <2> SUFFICES ASSUME neuron_pending[c] # {} PROVE neuron_work_fifo[c] # {}
    OBVIOUS
  <2>1. LowestIndices(neuron_pending[c], Min({k, b})) = {}
    BY <1>2, NothingMoves DEF FedNeurons
  <2>2. k \in Int /\ b \in Int
    BY <1>2, <1>3
  <2> HIDE DEF k, b
  <2>3. Min({k, b}) \in {k, b}
    BY <2>2, LeastOfTwo
  <2>4. Min({k, b}) <= 0
    BY <2>1, <2>2, <2>3, <1>2, LowestSome
  <2>5. k <= 0
    BY <2>2, <2>3, <2>4, <1>3 DEF b
  <2>6. Cardinality(neuron_work_fifo[c]) # 0
    BY <2>5, <1>2, <1>3 DEF k
  <2> QED BY <2>6, FS_EmptySet
<1>5. neuron_work_fifo[c] # {} => neuron_pipeline[c] # {}
  <2> DEFINE m == neuron_lanes * neuron_latency
             k == m - Cardinality(neuron_pipeline[c])
  <2> SUFFICES ASSUME neuron_work_fifo[c] # {} PROVE neuron_pipeline[c] # {}
    OBVIOUS
  <2>1. LowestIndices(neuron_work_fifo[c], Min({neuron_lanes, k})) = {}
    BY <1>2, NothingMoves DEF IssuedNeurons
  <2>2. m \in Nat /\ m >= 1
    BY <1>3
  <2> HIDE DEF m
  <2>3. k \in Int
    BY <1>2, <2>2
  <2> HIDE DEF k
  <2>4. Min({neuron_lanes, k}) \in {neuron_lanes, k}
    BY <1>3, <2>3, LeastOfTwo
  <2>5. Min({neuron_lanes, k}) <= 0
    BY <2>1, <2>3, <2>4, <1>2, <1>3, LowestSome
  <2>6. k <= 0
    BY <2>3, <2>4, <2>5, <1>3
  <2>7. Cardinality(neuron_pipeline[c]) # 0
    BY <2>2, <2>6, <1>2 DEF k
  <2> QED BY <2>7, FS_EmptySet
<1>6. neuron_pipeline[c] # {}
  BY <1>1, <1>4, <1>5
<1>7. {e.neuron : e \in neuron_pipeline[c]} \subseteq Nat
  BY <1>2, ProgramFinite DEF NeuronWork
<1>8. PICK e \in neuron_pipeline[c] : \A f \in neuron_pipeline[c] : e.neuron <= f.neuron
  <2> DEFINE K == {e.neuron : e \in neuron_pipeline[c]}
  <2>1. K # {}
    BY <1>6
  <2>2. PICK n \in K : \A m \in K : n <= m
    BY <2>1, <1>7, LeastNatural
  <2> QED BY <2>2
<1>9. /\ {f \in neuron_pipeline[c] : IsReady(f)} = neuron_pipeline[c]
      /\ {f \in neuron_pipeline[c] : NeuronBefore(f, e)} = {}
  <2>1. \A f \in neuron_pipeline[c] : IsReady(f)
    BY NothingMoves
  <2>2. \A f \in neuron_pipeline[c] : e.neuron \in Nat /\ f.neuron \in Nat
    BY <1>7
  <2> QED BY <2>1, <2>2, <1>8 DEF NeuronBefore
<1>10. e \in WritebackWindow(c)
  <2> DEFINE R == {f \in neuron_pipeline[c] : IsReady(f)}
  <2>1. e \in R /\ {f \in R : NeuronBefore(f, e)} = {}
    BY <1>9
  <2>2. WritebackWindow(c) = {x \in R : Rank(x, R, NeuronBefore) < neuron_lanes}
    BY Zenon DEF WritebackWindow, FirstOf
  <2> HIDE DEF R
  <2>3. Rank(e, R, NeuronBefore) = 0
    BY <2>1, FS_EmptySet DEF Rank
  <2>4. Rank(e, R, NeuronBefore) < neuron_lanes
    BY <2>3, <1>3
  <2> QED BY <2>1, <2>2, <2>4
<1>11. {f \in WritebackWindow(c) : f.spike /\ NeuronBefore(f, e)} = {}
  BY <1>9 DEF WritebackWindow, FirstOf
<1>12. e \notin Written(c)
  BY NothingMoves
<1>13. ~(0 < spike_fifo_depth - Len(spike_fifo[c]))
  BY <1>2, <1>10, <1>11, <1>12, FS_EmptySet DEF Written
<1>14. spike_fifo[c] \in Seq(CycleSpike(c))
  BY DEF StorageInv, NeuronInv
<1> QED BY <1>3, <1>13, <1>14

\* A spike that is not packetized waits for a full packet pipeline.
LEMMA SpikesBlocked ==
    ASSUME StorageInv, \A c \in Cores : RoutesToGo(c), Stuck, phase \in {"neuron", "packetize"}
    PROVE  Cardinality(packet_pipeline) = router_input_fifo_depth * NumCores
<1>1. PICK c \in Cores : packetizer_work[c] # <<>>
  <2>1. \E c \in Cores : spike_fifo[c] # <<>> \/ packetizer_work[c] # <<>>
    <3>1. CASE phase = "neuron"
      BY <3>1, NeuronsBlocked
    <3>2. CASE phase = "packetize"
      BY <3>2 DEF Stuck, PacketizationComplete
    <3> QED BY <3>1, <3>2
  <2> QED BY <2>1, NothingMoves DEF SpikeTaken
<1> DEFINE U == UNION {RoutesLeft(d) : d \in Cores}
           m == router_input_fifo_depth * NumCores
           k == m - Cardinality(packet_pipeline)
<1>2. U \subseteq Nat \X Nat /\ U # {}
  <2>1. ASSUME NEW d \in Cores, packetizer_work[d] # <<>>
        PROVE  /\ Head(packetizer_work[d]) \in PacketizerWork(d)
               /\ Len(Routes[d][Head(packetizer_work[d]).neuron]) \in Nat
    <3>1. packetizer_work[d] \in Seq(PacketizerWork(d))
      BY DEF StorageInv, RouterInv
    <3>2. Head(packetizer_work[d]) \in PacketizerWork(d)
      BY <2>1, <3>1, TailHolds
    <3>3. Routes[d] \in [Neurons(d) -> Seq(Route)]
      BY ProgramAssumption
    <3> QED BY <3>2, <3>3 DEF PacketizerWork
  <2>2. ASSUME NEW d \in Cores
        PROVE  RoutesLeft(d) \subseteq Nat \X Nat
    <3>1. CASE packetizer_work[d] # <<>>
      <4>1. \A x \in RoutesLeft(d) : \E r \in Int :
                r >= Head(packetizer_work[d]).next_route /\ x = <<d, r>>
        <5> DEFINE w == Head(packetizer_work[d])
                   top == Min({w.next_route + packetizer_throughput - 1, Len(Routes[d][w.neuron])})
        <5>1. RoutesLeft(d) = {<<d, r>> : r \in w.next_route .. top}
          BY <3>1 DEF RoutesLeft
        <5> HIDE DEF top
        <5>2. \A r \in w.next_route .. top : r \in Int /\ r >= w.next_route
          OBVIOUS
        <5> QED BY <5>1, <5>2
      <4>2. Head(packetizer_work[d]).next_route \in Nat
        BY <3>1, <2>1 DEF PacketizerWork
      <4>3. d \in Nat
        BY ProgramFinite
      <4> QED BY <4>1, <4>2, <4>3
    <3>2. CASE packetizer_work[d] = <<>>
      BY <3>2 DEF RoutesLeft
    <3> QED BY <3>1, <3>2
  <2>3. RoutesLeft(c) # {}
    <3> DEFINE w == Head(packetizer_work[c])
               a == w.next_route + packetizer_throughput - 1
               n == Len(Routes[c][w.neuron])
    <3>1. w.next_route \in Nat /\ w.next_route <= n /\ n \in Nat
      BY <1>1, <2>1 DEF RoutesToGo, PacketizerWork
    <3>2. packetizer_throughput \in Nat /\ packetizer_throughput >= 1
      BY Positive DEF Rates
    <3>3. a \in Int /\ w.next_route <= a
      BY <3>1, <3>2
    <3>4. RoutesLeft(c) = {<<c, r>> : r \in w.next_route .. Min({a, n})}
      BY <1>1 DEF RoutesLeft
    <3> HIDE DEF a, n, w
    <3>5. Min({a, n}) \in {a, n}
      <4>1. a \in Int /\ n \in Int
        BY <3>1, <3>3
      <4> QED BY <4>1, LeastOfTwo
    <3>6. w.next_route \in w.next_route .. Min({a, n})
      BY <3>1, <3>3, <3>5
    <3> QED BY <3>4, <3>6
  <2> QED BY <2>2, <2>3
<1>3. PacketizedRoutes = FirstOf(U, k, RouteBefore) /\ PacketizedRoutes = {}
  BY NothingMoves DEF PacketizedRoutes
<1> HIDE DEF U
<1>4. PICK x \in U : {y \in U : RouteBefore(y, x)} = {}
  <2> DEFINE F == {y[1] : y \in U}
  <2>1. F # {} /\ F \subseteq Nat
    BY <1>2
  <2>2. PICK a \in F : \A b \in F : a <= b
    BY <2>1, LeastNatural
  <2> DEFINE S == {y[2] : y \in {z \in U : z[1] = a}}
  <2>3. S # {} /\ S \subseteq Nat
    BY <1>2, <2>2
  <2>4. PICK r \in S : \A s \in S : r <= s
    BY <2>3, LeastNatural
  <2>5. PICK x \in U : x[1] = a /\ x[2] = r
    BY <2>4
  <2>6. \A y \in U : y[1] \in F /\ y[1] \in Nat /\ y[2] \in Nat /\ (y[1] = a => y[2] \in S)
    BY <1>2
  <2> HIDE DEF F, S
  <2>7. ASSUME NEW y \in U
        PROVE  ~RouteBefore(y, x)
    <3>1. a \in Nat /\ r \in Nat /\ y[1] \in Nat /\ y[2] \in Nat /\ a <= y[1]
      BY <2>1, <2>2, <2>3, <2>4, <2>6
    <3>2. y[1] = a => r <= y[2]
      BY <2>4, <2>6
    <3> QED BY <2>5, <3>1, <3>2 DEF RouteBefore
  <2> QED BY <2>5, <2>7
<1>5. ~(0 < k)
  <2>1. Rank(x, U, RouteBefore) = 0
    BY <1>4, FS_EmptySet DEF Rank
  <2> QED BY <2>1, <1>3, <1>4 DEF FirstOf
<1>6. Cardinality(packet_pipeline) \in Nat /\ Cardinality(packet_pipeline) <= m /\ m \in Nat
  BY Positive, FS_CardinalityType DEF StorageInv, PacketInv
<1> HIDE DEF m
<1>7. Cardinality(packet_pipeline) = m
  BY <1>5, <1>6
<1> QED BY <1>7 DEF m

\* In the phases after the work phase, the network is full of packets of the next tick.
LEMMA StuckAfterWork ==
    ASSUME StorageInv, TimeInv, \A c \in Cores : RoutesToGo(c), Stuck,
           phase \in {"neuron", "packetize"}
    PROVE  /\ \A p \in NetworkPackets : p.timestamp = logical_tick + 1
           /\ Cardinality(packet_pipeline) = router_input_fifo_depth * NumCores
           /\ \E d \in Cores : /\ Len(routed_ingress_fifo[d]) = routed_ingress_fifo_depth
                               /\ Len(router_output_fifos[d]) = router_output_fifo_depth
<1>1. Cardinality(packet_pipeline) = router_input_fifo_depth * NumCores
  BY SpikesBlocked
<1>2. packet_pipeline # {}
  <2>1. /\ router_input_fifo_depth \in Nat /\ router_input_fifo_depth >= 1
        /\ NumCores \in Nat /\ NumCores >= 1
    BY Positive, ProgramAssumption DEF Depths
  <2>2. router_input_fifo_depth * NumCores # 0
    BY <2>1
  <2> QED BY <1>1, <2>2, FS_EmptySet
<1>3. NetworkPackets # {}
  BY <1>2, NetworkMembers
<1>4. Earliest = logical_tick + 1
  BY DEF Stuck, Earliest
<1>5. \A p \in NetworkPackets : p.timestamp = logical_tick + 1
  BY <1>4, NetworkMembers DEF TimeInv, HeldFrom, PacketsAt
<1> QED BY <1>1, <1>2, <1>3, <1>5, PacketsBlocked
\* origin[id] says from which axon, and for which tick, the event or the packet with that
\* identifier enters its core; n identifiers have been given away.
Origins == [Nat -> [axon : Nat, tick : Nat]]
Named(origin, n, q) ==
    /\ q.event_id < n
    /\ origin[q.event_id].axon = q.axon /\ origin[q.event_id].tick = q.timestamp
Read(origin, n, q, t) ==
    q.event_id < n /\ origin[q.event_id].axon = q.axon /\ origin[q.event_id].tick = t
Made(origin, n, c, i) ==
    LET o   == origin[i.event_id]
        row == Fanout[c][o.axon]
    IN  /\ i.event_id < n /\ o.axon \in Axons(c) /\ i.synapse \in 1 .. Len(row)
        /\ i.target = row[i.synapse].target /\ i.weight = row[i.synapse].weight
        /\ i.due_tick = o.tick + row[i.synapse].delay

\* Whatever an identifier names in the machine agrees with its origin.
Agree(origin, n) ==
    /\ \A i \in source_index + 1 .. Len(source_events) :
          Named(origin, n, source_events[i])
    /\ \A x \in packet_pipeline : Named(origin, n, x.packet)
    /\ \A c \in Cores :
        /\ \A q \in ToSet(external_ingress_fifo[c]) : Named(origin, n, q)
        /\ \A q \in ToSet(router_input_fifos[c]) : Named(origin, n, q)
        /\ \A q \in ToSet(router_output_fifos[c]) : Named(origin, n, q)
        /\ \A q \in ToSet(routed_ingress_fifo[c]) : Named(origin, n, q)
        /\ \A q \in ToSet(axon_lookup_pipeline[c]) : Read(origin, n, q, logical_tick)
        /\ \A q \in ToSet(synapse_work_fifo[c]) : Read(origin, n, q, logical_tick)
        /\ \A i \in ToSet(contribution_pipeline[c]) : Made(origin, n, c, i)
        /\ \A i \in delayed_contribution_fifo[c] : Made(origin, n, c, i)

\* So an event and a synapse determine a contribution: the accumulator arbiter, which
\* orders the contributions to a neuron by the two, finds no tie.
IdentityInv == \E origin \in Origins : Agree(origin, next_event_id)

\* A stuck machine has no contribution due: the first of them would be written.
LEMMA NoneIsDue ==
    ASSUME StorageInv, IdentityInv, Stuck, phase = "work", NEW c \in Cores
    PROVE  DueContributions(c) = {}
<1> DEFINE D == DueContributions(c)
<1>1. InWork
  BY NothingMoves DEF InWork
<1>2. D \subseteq HeldContribution(c)
  BY WritesHold DEF DueContributions, StorageInv, ContributionInv
<1>3. \A i, j \in D : i.event_id = j.event_id /\ i.synapse = j.synapse => i = j
  <2>1. PICK origin \in Origins : Agree(origin, next_event_id)
    BY DEF IdentityInv
  <2>2. \A i \in D : Made(origin, next_event_id, c, i)
    <3>1. \A i \in delayed_contribution_fifo[c] : Made(origin, next_event_id, c, i)
      BY <2>1 DEF Agree
    <3>2. \A i \in ToSet(contribution_pipeline[c]) : Made(origin, next_event_id, c, i)
      BY <2>1 DEF Agree
    <3>3. \A i : Made(origin, next_event_id, c, i) => Made(origin, next_event_id, c, Bare(i))
      BY DEF Made, Bare
    <3> QED BY <3>1, <3>2, <3>3 DEF DueContributions, Contributions
  <2>3. ASSUME NEW i \in D, NEW j \in D, i.event_id = j.event_id, i.synapse = j.synapse
        PROVE  i = j
    <3>1. i.target = j.target /\ i.weight = j.weight /\ i.due_tick = j.due_tick
      BY <2>2, <2>3 DEF Made
    <3>2. i \in HeldContribution(c) /\ j \in HeldContribution(c)
      BY <1>2
    <3> QED BY <2>3, <3>1, <3>2 DEF HeldContribution
  <2> QED BY <2>3
<1>4. AccumulatorWrites(c) = {}
  BY NothingMoves
<1>5. \A i \in D : i.event_id \in Nat /\ i.synapse \in Nat /\ i.target \in Nat
  BY <1>2, ProgramFinite DEF HeldContribution
<1> SUFFICES ASSUME D # {} PROVE FALSE
  OBVIOUS
<1>6. ConflictWinners(c) # {}
  <2> DEFINE E == {i.event_id : i \in D}
  <2>1. E # {} /\ E \subseteq Nat
    BY <1>5
  <2>2. PICK a \in E : \A b \in E : a <= b
    BY <2>1, LeastNatural
  <2> DEFINE S == {i.synapse : i \in {j \in D : j.event_id = a}}
  <2>3. S # {} /\ S \subseteq Nat
    BY <1>5, <2>2
  <2>4. PICK r \in S : \A s \in S : r <= s
    BY <2>3, LeastNatural
  <2>5. PICK i \in D : i.event_id = a /\ i.synapse = r
    BY <2>4
  <2>6. \A j \in D : j.event_id \in E /\ (j.event_id = a => j.synapse \in S)
    OBVIOUS
  <2> HIDE DEF D, E, S
  <2>7. ASSUME NEW j \in D
        PROVE  i = j \/ ContributionBefore(i, j)
    <3>1. a <= j.event_id /\ (j.event_id = a => r <= j.synapse)
      BY <2>2, <2>4, <2>6
    <3>2. i.event_id \in Nat /\ j.event_id \in Nat /\ i.synapse \in Nat /\ j.synapse \in Nat
      BY <1>5
    <3>3. i.event_id = j.event_id /\ i.synapse = j.synapse => i = j
      BY <1>3
    <3> QED BY <2>5, <3>1, <3>2, <3>3 DEF ContributionBefore
  <2>8. i \in ConflictWinners(c)
    BY <2>7 DEF ConflictWinners, D
  <2> QED BY <2>8
<1>7. \E i \in ConflictWinners(c) : \A j \in ConflictWinners(c) : i.target <= j.target
  <2> DEFINE F == {i.target : i \in ConflictWinners(c)}
  <2>1. F # {} /\ F \subseteq Nat
    BY <1>5, <1>6 DEF ConflictWinners
  <2>2. PICK a \in F : \A b \in F : a <= b
    BY <2>1, LeastNatural
  <2> QED BY <2>2
<1>8. PICK i \in ConflictWinners(c) : \A j \in ConflictWinners(c) : ~TargetBefore(j, i)
  <2>1. \A j \in ConflictWinners(c) : j.target \in Nat
    BY <1>5 DEF ConflictWinners
  <2> QED BY <1>7, <2>1 DEF TargetBefore
<1>9. {j \in ConflictWinners(c) : TargetBefore(j, i)} = {}
  BY <1>8
<1>10. Rank(i, ConflictWinners(c), TargetBefore) = 0
  BY <1>9, FS_EmptySet DEF Rank
<1>11. 0 < accumulator_write_ports
  <2>1. accumulator_write_ports \in Nat /\ accumulator_write_ports >= 1
    BY Positive DEF Rates
  <2> QED BY <2>1
<1>12. i \in AccumulatorWrites(c)
  BY <1>1, <1>10, <1>11 DEF AccumulatorWrites, FirstOf
<1> QED BY <1>4, <1>12

\* A contribution that stays in the pipeline waits for a full delayed FIFO.
LEMMA ContributionsBlocked ==
    ASSUME StorageInv, TimeInv, IdentityInv, Stuck, phase = "work",
           NEW c \in Cores, contribution_pipeline[c] # <<>>
    PROVE  Cardinality(delayed_contribution_fifo[c]) = delayed_contribution_fifo_depth
<1> DEFINE s == contribution_pipeline[c]
           late == {k \in 1 .. Len(s) : IsReady(s[k]) /\ s[k].due_tick > CurrentTick}
<1>1. s \in Seq(PipedContribution(c)) /\ InWork
  BY NothingMoves DEF StorageInv, ContributionInv, InWork
<1>2. Earliest = CurrentTick /\ CurrentTick \in Nat
  BY NothingMoves DEF Stuck, Earliest
<1>3. ASSUME NEW k \in 1 .. Len(s)
      PROVE  IsReady(s[k]) /\ s[k].due_tick > CurrentTick
  <2>1. s[k] \in ToSet(s) /\ s[k] \in PipedContribution(c)
    BY <1>1 DEF ToSet
  <2>2. IsReady(s[k])
    BY <2>1, NothingMoves
  <2>3. s[k].due_tick >= CurrentTick
    BY <1>2, <2>1 DEF TimeInv, HeldFrom, ContributionsFrom
  <2>4. s[k].due_tick # CurrentTick
    <3>1. Bare(s[k]) \in Contributions(c)
      BY <2>1, <2>2 DEF Contributions
    <3>2. Bare(s[k]).due_tick = s[k].due_tick
      BY DEF Bare
    <3> QED BY <3>1, <3>2, NoneIsDue DEF DueContributions
  <2>5. s[k].due_tick \in Nat
    BY <2>1 DEF PipedContribution
  <2> QED BY <1>2, <2>2, <2>3, <2>4, <2>5
<1>4. late = 1 .. Len(s)
  BY <1>3
<1>5. ReadyFuture(c) = s
  <2>1. ReadyFuture(c) = Picked(s, late)
    BY DEF ReadyFuture
  <2> HIDE DEF late
  <2> QED BY <1>1, <1>4, <2>1, PickedAll
<1> HIDE DEF late
<1>6. Deferred(c) = {} /\ AccumulatorWrites(c) = {}
  BY NothingMoves
<1>7. DelayedRoom(c) \in Nat
  BY DeferredFits
<1>8. DelayedRoom(c) = 0
  <2> DEFINE n == Len(s)
             k == Min({n, DelayedRoom(c)})
  <2>1. Deferred(c) = {Bare(s[j]) : j \in 1 .. k}
    BY <1>1, <1>5 DEF Deferred
  <2>2. n \in Nat /\ n >= 1
    BY <1>1
  <2>3. k \in {n, DelayedRoom(c)}
    <3> HIDE DEF n
    <3>1. n \in Int /\ DelayedRoom(c) \in Int
      BY <1>7, <2>2
    <3> QED BY <3>1, LeastOfTwo
  <2> HIDE DEF k, n
  <2>4. 1 .. k = {}
    BY <1>6, <2>1
  <2> QED BY <1>7, <2>2, <2>3, <2>4
<1>9. DelayedRoom(c) = delayed_contribution_fifo_depth - Cardinality(delayed_contribution_fifo[c])
  <2>1. delayed_contribution_fifo[c] \ AccumulatorWrites(c) = delayed_contribution_fifo[c]
    BY <1>6
  <2> QED BY <2>1 DEF DelayedRoom
<1>10. /\ delayed_contribution_fifo_depth \in Nat
       /\ Cardinality(delayed_contribution_fifo[c]) \in Nat
  BY Positive, FS_CardinalityType DEF Depths, StorageInv, ContributionInv
<1> QED BY <1>8, <1>9, <1>10

\* What is due at an ingress waits, through the full stages of the lookup, for a
\* contribution pipeline.
LEMMA IngressBlocked ==
    ASSUME StorageInv, Stuck, phase = "work", NEW c \in Cores,
           \/ HeadDue(external_ingress_fifo[c], logical_tick)
           \/ HeadDue(routed_ingress_fifo[c], logical_tick)
           \/ axon_lookup_pipeline[c] # <<>>
           \/ synapse_work_fifo[c] # <<>>
    PROVE  contribution_pipeline[c] # <<>>
<1>1. InWork /\ CurrentTick = logical_tick
  BY NothingMoves DEF InWork
<1>2. /\ axon_lookup_pipeline[c] \in Seq(HeldLookup(c))
      /\ synapse_work_fifo[c] \in Seq(HeldWork(c))
      /\ contribution_pipeline[c] \in Seq(PipedContribution(c))
  BY DEF StorageInv, LookupInv, ContributionInv
<1>3. /\ synapse_work_fifo_depth \in Nat /\ synapse_work_fifo_depth >= 1
      /\ synapse_lanes \in Nat /\ synapse_lanes >= 1
  BY Positive DEF Depths, Rates
<1>4. \/ HeadDue(external_ingress_fifo[c], logical_tick)
      \/ HeadDue(routed_ingress_fifo[c], logical_tick)
      => axon_lookup_pipeline[c] # <<>>
  <2> SUFFICES ASSUME \/ HeadDue(external_ingress_fifo[c], logical_tick)
                      \/ HeadDue(routed_ingress_fifo[c], logical_tick)
               PROVE  axon_lookup_pipeline[c] # <<>>
    OBVIOUS
  <2>1. HeadDue(IngressFifo(c, 0), CurrentTick) \/ HeadDue(IngressFifo(c, 1), CurrentTick)
    BY <1>1 DEF IngressFifo
  <2>2. {k \in {0, 1} : HeadDue(IngressFifo(c, k), CurrentTick)} # {}
    BY <2>1
  <2>3. Len(axon_lookup_pipeline[c]) >= synapse_work_fifo_depth
    BY <1>1, <2>2, NothingMoves DEF IngressRequests
  <2> QED BY <1>3, <2>3
<1>5. axon_lookup_pipeline[c] # <<>> => synapse_work_fifo[c] # <<>>
  <2> SUFFICES ASSUME axon_lookup_pipeline[c] # <<>> PROVE synapse_work_fifo[c] # <<>>
    OBVIOUS
  <2>1. IsReady(Head(axon_lookup_pipeline[c]))
    BY <1>2, TailHolds, NothingMoves
  <2>2. ~(Len(synapse_work_fifo[c]) < synapse_work_fifo_depth)
    BY <1>1, <2>1, NothingMoves DEF LookupDone
  <2> QED BY <1>3, <2>2
<1>6. synapse_work_fifo[c] # <<>> => contribution_pipeline[c] # <<>>
  <2> SUFFICES ASSUME synapse_work_fifo[c] # <<>> PROVE contribution_pipeline[c] # <<>>
    OBVIOUS
  <2> DEFINE w == Head(synapse_work_fifo[c])
             n == Len(contribution_pipeline[c])
             a == synapse_work_fifo_depth - n
             b == Len(Fanout[c][w.axon]) - w.next + 1
  <2>1. Min({synapse_lanes, a, b}) = 0
    BY <1>1, NothingMoves DEF IssueCount
  <2>2. w \in HeldWork(c)
    BY <1>2, TailHolds
  <2>3. b \in Int /\ b >= 1
    <3>1. Fanout[c] \in [Axons(c) -> Seq(Synapse(c))]
      BY ProgramAssumption
    <3>2. w.axon \in Axons(c) /\ w.next \in Nat /\ w.next <= Len(Fanout[c][w.axon])
      BY <2>2 DEF HeldWork, SynapseWork
    <3> HIDE DEF w
    <3>3. Len(Fanout[c][w.axon]) \in Nat
      BY <3>1, <3>2
    <3> QED BY <3>2, <3>3
  <2>4. n \in Nat
    BY <1>2
  <2>5. a \in Int
    BY <1>3, <2>4
  <2> HIDE DEF a, b
  <2>6. Min({synapse_lanes, a, b}) \in {synapse_lanes, a, b}
    <3>1. synapse_lanes \in Int /\ a \in Int /\ b \in Int
      BY <1>3, <2>3, <2>5
    <3> QED BY <3>1, LeastOfThree
  <2>7. a = 0
    BY <1>3, <2>1, <2>3, <2>6
  <2>8. n # 0
    BY <1>3, <2>4, <2>7 DEF a
  <2> QED BY <2>8
<1> QED BY <1>4, <1>5, <1>6
\* A source event that is due waits for a full external FIFO, whose head is due as well.
LEMMA SourceBlocked ==
    ASSUME StorageInv, TimeInv, FedBySource(Earliest), Stuck, phase = "work",
           source_index < Len(source_events),
           source_events[source_index + 1].timestamp = logical_tick
    PROVE  \E c \in Cores : HeadDue(external_ingress_fifo[c], logical_tick)
<1> DEFINE e == source_events[source_index + 1]
           m == ingress_events_accepted_per_cycle
           K == {k \in 0 .. m : SourceAdmissible(k)}
           old == external_ingress_fifo[e.core]
<1>1. InWork /\ CurrentTick = logical_tick /\ Earliest = logical_tick
  BY NothingMoves DEF InWork, Stuck, Earliest
<1>2. m \in Nat /\ m >= 1
  BY Positive DEF Rates
<1>3. /\ external_ingress_fifo_depth \in Nat /\ external_ingress_fifo_depth >= 1
  BY Positive DEF Depths
<1>4. /\ source_events \in Seq({x \in Event : x.axon \in Axons(x.core)})
      /\ source_index \in Nat /\ source_index + 1 \in 1 .. Len(source_events)
  BY EventTicks DEF StorageInv, SourceInv
<1>5. e.core \in Cores
  BY <1>4 DEF Event
<1>6. ~SourceAdmissible(1)
  <2>1. Max(K) = 0
    BY <1>1, NothingMoves DEF SourceCount
  <2>2. K \subseteq 0 .. m
    OBVIOUS
  <2>3. ASSUME SourceAdmissible(1) PROVE FALSE
    <3>1. 1 \in K
      BY <1>2, <2>3
    <3> HIDE DEF K
    <3>2. K # {}
      BY <3>1
    <3>3. \A y \in K : y <= Max(K)
      BY <1>2, <2>2, <3>2, MaxOfNaturals
    <3>4. 1 <= 0
      BY <2>1, <3>1, <3>3
    <3> QED BY <3>4
  <2> QED BY <2>3
<1>7. Len(old) >= external_ingress_fifo_depth
  <2>1. {i \in 1 .. 1 - 1 : source_events[source_index + i].core = e.core} = {}
    OBVIOUS
  <2>2. \A j \in 1 .. 1 : j = 1
    OBVIOUS
  <2>3. source_index + 1 <= Len(source_events)
    BY <1>4
  <2>4. ~(Len(old) + 0 < external_ingress_fifo_depth)
    BY <1>1, <1>6, <2>1, <2>2, <2>3, FS_EmptySet DEF SourceAdmissible
  <2>5. Len(old) \in Nat
    BY <1>5 DEF StorageInv, IngressInv
  <2> QED BY <1>3, <2>4, <2>5
<1>8. old # <<>>
  BY <1>3, <1>7
<1>9. Head(old) \in ToSet(old)
  <2>1. old \in Seq(HeldEvent(e.core))
    BY <1>5 DEF StorageInv, IngressInv
  <2> QED BY <1>8, <2>1, TailHolds
<1>10. Head(old).timestamp = logical_tick
  <2>1. Head(old).timestamp <= logical_tick
    BY <1>1, <1>5, <1>9 DEF FedBySource
  <2>2. Head(old).timestamp >= logical_tick
    BY <1>1, <1>5, <1>9 DEF TimeInv, HeldFrom, EventsFrom
  <2>3. Head(old).timestamp \in Nat /\ logical_tick \in Nat
    BY <1>5, <1>9, EventTicks, NothingMoves
  <2> QED BY <2>1, <2>2, <2>3
<1> QED BY <1>5, <1>8, <1>10 DEF HeadDue

\* In the work phase, a delayed FIFO is full and keeps a contribution in its pipeline.
LEMMA StuckInWork ==
    ASSUME StorageInv, TimeInv, FedBySource(Earliest), IdentityInv, Stuck, phase = "work"
    PROVE  \E c \in Cores :
            /\ Cardinality(delayed_contribution_fifo[c]) = delayed_contribution_fifo_depth
            /\ contribution_pipeline[c] # <<>>
<1>1. Earliest = logical_tick /\ CurrentTick = logical_tick /\ logical_tick \in Nat
  BY NothingMoves DEF Stuck, Earliest
<1>2. ~WorkComplete
  BY DEF Stuck
<1>3. ASSUME NetworkPackets # {}
      PROVE  \E d \in Cores : HeadDue(routed_ingress_fifo[d], logical_tick)
  <2>1. PICK d \in Cores : Len(routed_ingress_fifo[d]) = routed_ingress_fifo_depth
    BY <1>3, PacketsBlocked
  <2>2. routed_ingress_fifo_depth \in Nat /\ routed_ingress_fifo_depth >= 1
    BY Positive DEF Depths
  <2>3. routed_ingress_fifo[d] # <<>> /\ routed_ingress_fifo[d] \in Seq(HeldPacket(d))
    BY <2>1, <2>2 DEF StorageInv, IngressInv
  <2>4. Head(routed_ingress_fifo[d]) \in ToSet(routed_ingress_fifo[d])
    BY <2>3, TailHolds
  <2>5. Head(routed_ingress_fifo[d]).timestamp = logical_tick
    BY <1>1, <2>4 DEF TimeInv, HeldFrom, PacketsAt
  <2> QED BY <2>3, <2>5 DEF HeadDue
<1>4. ASSUME NEW c \in Cores
      PROVE  \A i \in delayed_contribution_fifo[c] : i.due_tick # logical_tick
  BY <1>1, NoneIsDue DEF DueContributions
<1>5. source_index \in Nat /\ Len(source_events) \in Nat
  BY EventTicks
<1>6. \E c \in Cores :
        \/ HeadDue(external_ingress_fifo[c], logical_tick)
        \/ HeadDue(routed_ingress_fifo[c], logical_tick)
        \/ axon_lookup_pipeline[c] # <<>> \/ synapse_work_fifo[c] # <<>>
        \/ contribution_pipeline[c] # <<>>
  BY <1>2, <1>3, <1>4, <1>5, SourceBlocked DEF WorkComplete
<1>7. PICK c \in Cores : contribution_pipeline[c] # <<>>
  BY <1>6, IngressBlocked
<1> QED BY <1>7, ContributionsBlocked

\* The invariant of a batch run that says when it stands still, and why.
CauseInv ==
    /\ BatchInv /\ StuckInv /\ IdentityInv
    /\ error = "deadlock" => no_progress_cycles > deadlock_detection_threshold

\* A reported deadlock is a stuck machine, and so the storage is full.
LEMMA CauseIsStorage == ASSUME CauseInv PROVE DeadlockIsStorage
<1> SUFFICES ASSUME error = "deadlock" PROVE DeadlockIsStorage
  BY DEF DeadlockIsStorage
<1>1. /\ StorageInv /\ TimeInv /\ FedBySource(Earliest) /\ IdentityInv
      /\ \A c \in Cores : RoutesToGo(c)
  BY DEF CauseInv, BatchInv, StuckInv
<1>2. Stuck
  <2>1. no_progress_cycles \in Nat /\ no_progress_cycles > deadlock_detection_threshold
    BY <1>1, CountIsNatural DEF CauseInv
  <2>2. deadlock_detection_threshold \in Nat /\ deadlock_detection_threshold >= 1
    BY Positive
  <2> QED BY <2>1, <2>2 DEF CauseInv, StuckInv
<1>3. phase = "work" \/ phase \in {"neuron", "packetize"}
  BY <1>2 DEF Stuck
<1>4. CASE phase = "work"
  BY <1>1, <1>2, <1>4, StuckInWork DEF DeadlockIsStorage
<1>5. CASE phase \in {"neuron", "packetize"}
  BY <1>1, <1>2, <1>5, StuckAfterWork DEF DeadlockIsStorage
<1> QED BY <1>3, <1>4, <1>5
\* An origin extended to new identifiers still says what it said of the old ones.
LEMMA OriginExtends ==
    ASSUME NEW origin \in Origins, NEW n \in Nat, NEW m \in Nat, n <= m, NEW new \in Origins,
           \A id \in Nat : id < n => new[id] = origin[id]
    PROVE  /\ \A q : q.event_id \in Nat /\ Named(origin, n, q) => Named(new, m, q)
           /\ \A q, t : q.event_id \in Nat /\ Read(origin, n, q, t) => Read(new, m, q, t)
           /\ \A c, i : i.event_id \in Nat /\ Made(origin, n, c, i) => Made(new, m, c, i)
<1>1. ASSUME NEW id \in Nat, id < n
      PROVE  id < m /\ new[id] = origin[id]
  BY <1>1
<1>2. ASSUME NEW q, q.event_id \in Nat, Named(origin, n, q)
      PROVE  Named(new, m, q)
  BY <1>1, <1>2 DEF Named
<1>3. ASSUME NEW q, NEW t, q.event_id \in Nat, Read(origin, n, q, t)
      PROVE  Read(new, m, q, t)
  BY <1>1, <1>3 DEF Read
<1>4. ASSUME NEW c, NEW i, i.event_id \in Nat, Made(origin, n, c, i)
      PROVE  Made(new, m, c, i)
  <2>1. i.event_id < m /\ new[i.event_id] = origin[i.event_id]
    BY <1>1, <1>4 DEF Made
  <2> QED BY <1>4, <2>1 DEF Made
<1> QED BY <1>2, <1>3, <1>4

\* So all the machine holds still agrees.
LEMMA AgreeExtends ==
    ASSUME StorageInv, NEW origin \in Origins, NEW n \in Nat, NEW m \in Nat, n <= m,
           NEW new \in Origins, \A id \in Nat : id < n => new[id] = origin[id],
           Agree(origin, n)
    PROVE  Agree(new, m)
<1>1. /\ \A q : q.event_id \in Nat /\ Named(origin, n, q) => Named(new, m, q)
      /\ \A q, t : q.event_id \in Nat /\ Read(origin, n, q, t) => Read(new, m, q, t)
      /\ \A c, i : i.event_id \in Nat /\ Made(origin, n, c, i) => Made(new, m, c, i)
  BY OriginExtends
<1>2. \A i \in source_index + 1 .. Len(source_events) : Named(new, m, source_events[i])
  <2>1. \A i \in 1 .. Len(source_events) : source_events[i].event_id \in Nat
    <3>1. source_events \in Seq({x \in Event : x.axon \in Axons(x.core)})
      BY DEF StorageInv, SourceInv
    <3> QED BY <3>1 DEF Event
  <2>2. \A i \in source_index + 1 .. Len(source_events) : i \in 1 .. Len(source_events)
    BY EventTicks
  <2> QED BY <1>1, <2>1, <2>2 DEF Agree
<1>3. \A p \in RoutedPacket : p.event_id \in Nat
  BY DEF RoutedPacket, Packet
<1>4. \A x \in packet_pipeline : Named(new, m, x.packet)
  BY <1>1, <1>3, PacketsTyped DEF Agree
<1>5. ASSUME NEW c \in Cores
      PROVE  /\ \A q \in ToSet(external_ingress_fifo[c]) : Named(new, m, q)
             /\ \A q \in ToSet(router_input_fifos[c]) : Named(new, m, q)
             /\ \A q \in ToSet(router_output_fifos[c]) : Named(new, m, q)
             /\ \A q \in ToSet(routed_ingress_fifo[c]) : Named(new, m, q)
             /\ \A q \in ToSet(axon_lookup_pipeline[c]) : Read(new, m, q, logical_tick)
             /\ \A q \in ToSet(synapse_work_fifo[c]) : Read(new, m, q, logical_tick)
             /\ \A i \in ToSet(contribution_pipeline[c]) : Made(new, m, c, i)
             /\ \A i \in delayed_contribution_fifo[c] : Made(new, m, c, i)
  <2>1. /\ external_ingress_fifo[c] \in Seq(HeldEvent(c))
        /\ axon_lookup_pipeline[c] \in Seq(HeldLookup(c))
        /\ synapse_work_fifo[c] \in Seq(HeldWork(c))
        /\ contribution_pipeline[c] \in Seq(PipedContribution(c))
        /\ delayed_contribution_fifo[c] \subseteq HeldContribution(c)
    BY DEF StorageInv, IngressInv, LookupInv, ContributionInv
  <2>2. \A q \in ToSet(external_ingress_fifo[c]) : q.event_id \in Nat
    BY <2>1 DEF ToSet, HeldEvent, Event
  <2>3. \A q \in ToSet(axon_lookup_pipeline[c]) : q.event_id \in Nat
    BY <2>1 DEF ToSet, HeldLookup, AxonLookup
  <2>4. \A q \in ToSet(synapse_work_fifo[c]) : q.event_id \in Nat
    BY <2>1 DEF ToSet, HeldWork, SynapseWork
  <2>5. \A i \in ToSet(contribution_pipeline[c]) : i.event_id \in Nat
    <3>1. \A i \in ToSet(contribution_pipeline[c]) : i \in PipedContribution(c)
      BY <2>1 DEF ToSet
    <3> QED BY <3>1 DEF PipedContribution
  <2>6. \A i \in delayed_contribution_fifo[c] : i.event_id \in Nat
    BY <2>1 DEF HeldContribution
  <2>7. /\ \A q \in ToSet(router_input_fifos[c]) : q.event_id \in Nat
        /\ \A q \in ToSet(router_output_fifos[c]) : q.event_id \in Nat
        /\ \A q \in ToSet(routed_ingress_fifo[c]) : q.event_id \in Nat
    BY <1>3, PacketsTyped
  <2> QED BY <1>1, <2>2, <2>3, <2>4, <2>5, <2>6, <2>7 DEF Agree
<1> QED BY <1>2, <1>4, <1>5 DEF Agree

\* A lookup of the next cycle was one before, or an ingress admitted its event.
LEMMA LookupsAfter ==
    ASSUME StorageInv, MoveEvents, NEW c \in Cores, NEW l \in ToSet(axon_lookup_pipeline'[c])
    PROVE  \/ \E q \in ToSet(axon_lookup_pipeline[c]) : l.event_id = q.event_id /\ l.axon = q.axon
           \/ \E q \in ToSet(external_ingress_fifo[c]) \cup ToSet(routed_ingress_fifo[c]) :
                q.timestamp = CurrentTick /\ l.event_id = q.event_id /\ l.axon = q.axon
<1> DEFINE kept == IF LookupDone(c) THEN Tail(axon_lookup_pipeline[c]) ELSE axon_lookup_pipeline[c]
           next == kept \o LookupStarted(c)
           T == HeldLookup(c)
<1>1. axon_lookup_pipeline'[c] = [k \in 1 .. Len(next) |-> Waited(next[k])]
  BY DEF MoveEvents
<1>2. kept \in Seq(T) /\ ToSet(kept) \subseteq ToSet(axon_lookup_pipeline[c])
  <2>1. axon_lookup_pipeline[c] \in Seq(T)
    BY DEF StorageInv, LookupInv
  <2>2. LookupDone(c) => axon_lookup_pipeline[c] # <<>>
    BY DEF LookupDone
  <2> QED BY <2>1, <2>2, TailHolds
<1>3. CASE IngressRequests(c) = {}
  <2>1. LookupStarted(c) = <<>>
    BY <1>3 DEF LookupStarted
  <2>2. next = kept
    BY <1>2, <2>1
  <2> HIDE DEF kept, next
  <2>3. PICK k \in 1 .. Len(kept) : l = Waited(kept[k])
    BY <1>1, <2>2 DEF ToSet
  <2>4. kept[k] \in T /\ kept[k] \in ToSet(kept)
    BY <1>2, <2>3 DEF ToSet
  <2>5. l.event_id = kept[k].event_id /\ l.axon = kept[k].axon
    BY <2>3, <2>4 DEF Waited, HeldLookup, AxonLookup
  <2> QED BY <1>2, <2>4, <2>5
<1>4. CASE IngressRequests(c) # {}
  <2> DEFINE kind == CHOOSE k \in {0, 1} : IngressWins(c, k)
             e == Head(IngressFifo(c, kind))
             a == [event_id |-> e.event_id, axon |-> e.axon, wait |-> axon_lookup_latency]
  <2>1. kind \in {0, 1} /\ IngressWins(c, kind)
    BY <1>4, IngressWinner
  <2> HIDE DEF kind
  <2>2. /\ IngressFifo(c, kind) # <<>> /\ e.timestamp = CurrentTick
        /\ e.axon \in Axons(c) /\ e.event_id \in Nat
    BY <1>4, <2>1, IngressWinner DEF HeadDue
  <2>3. e \in ToSet(external_ingress_fifo[c]) \cup ToSet(routed_ingress_fifo[c])
    <3>1. /\ external_ingress_fifo[c] \in Seq(HeldEvent(c))
          /\ routed_ingress_fifo[c] \in Seq(HeldPacket(c))
      BY DEF StorageInv, IngressInv
    <3>2. CASE kind = 0
      BY <2>2, <3>1, <3>2, TailHolds DEF IngressFifo
    <3>3. CASE kind = 1
      BY <2>2, <3>1, <3>3, TailHolds DEF IngressFifo
    <3> QED BY <2>1, <3>2, <3>3
  <2>4. LookupStarted(c) = <<a>>
    BY <1>4 DEF LookupStarted, kind
  <2> HIDE DEF kept
  <2>5. PICK k \in 1 .. Len(next) : l = Waited(next[k])
    BY <1>1 DEF ToSet
  <2> HIDE DEF a
  <2>6. (k \in 1 .. Len(kept) /\ next[k] = kept[k]) \/ next[k] = a
    BY <1>2, <2>4, <2>5
  <2> HIDE DEF next
  <2>7. CASE k \in 1 .. Len(kept) /\ next[k] = kept[k]
    <3>1. kept[k] \in T /\ kept[k] \in ToSet(kept)
      BY <1>2, <2>7 DEF ToSet
    <3>2. l.event_id = kept[k].event_id /\ l.axon = kept[k].axon
      BY <2>5, <2>7, <3>1 DEF Waited, HeldLookup, AxonLookup
    <3> QED BY <1>2, <3>1, <3>2
  <2>8. CASE next[k] = a
    <3>1. l.event_id = a.event_id /\ l.axon = a.axon
      BY <2>5, <2>8 DEF Waited, a
    <3>2. l.event_id = e.event_id /\ l.axon = e.axon
      BY <3>1 DEF a
    <3> QED BY <2>2, <2>3, <3>2
  <2> QED BY <2>6, <2>7, <2>8
<1> QED BY <1>3, <1>4

\* A row of the next cycle was looked up or read before.
LEMMA WorksAfter ==
    ASSUME StorageInv, MoveEvents, NEW c \in Cores, NEW w \in ToSet(synapse_work_fifo'[c])
    PROVE  \E q \in ToSet(axon_lookup_pipeline[c]) \cup ToSet(synapse_work_fifo[c]) :
             w.event_id = q.event_id /\ w.axon = q.axon
<1> DEFINE old == synapse_work_fifo[c]
           left == SynapseWorkLeft(c)
           h == Head(old)
           T == HeldWork(c)
<1>1. synapse_work_fifo'[c] = left \o LookedUp(c)
  BY DEF MoveEvents
<1>2. old \in Seq(T)
  BY DEF StorageInv, LookupInv
<1>3. \A k \in 1 .. Len(left) : \E q \in ToSet(old) :
        left[k].event_id = q.event_id /\ left[k].axon = q.axon
  <2>1. CASE left = old
    <3> HIDE DEF old, left
    <3> QED BY <2>1 DEF ToSet
  <2>2. CASE left = Tail(old) /\ old # <<>>
    <3>1. ToSet(Tail(old)) \subseteq ToSet(old)
      BY <1>2, <2>2, TailHolds
    <3> HIDE DEF old, left
    <3>2. \A k \in 1 .. Len(left) : left[k] \in ToSet(left)
      BY DEF ToSet
    <3> QED BY <2>2, <3>1, <3>2
  <2>3. CASE old # <<>> /\ left = <<[h EXCEPT !.next = h.next + IssueCount(c)]>> \o Tail(old)
    <3> DEFINE g == [h EXCEPT !.next = h.next + IssueCount(c)]
    <3>1. h \in T /\ h \in ToSet(old) /\ ToSet(Tail(old)) \subseteq ToSet(old) /\ Tail(old) \in Seq(T)
      BY <1>2, <2>3, TailHolds
    <3>2. g.event_id = h.event_id /\ g.axon = h.axon
      BY <3>1 DEF HeldWork, SynapseWork
    <3> HIDE DEF g
    <3>3. left = <<g>> \o Tail(old)
      BY <2>3 DEF g
    <3> HIDE DEF old, left, h
    <3>4. \A k \in 1 .. Len(left) : left[k] = g \/ left[k] \in ToSet(Tail(old))
      <4> DEFINE t == Tail(old)
      <4>1. t \in Seq(T) /\ left = <<g>> \o t
        BY <3>1, <3>3
      <4> HIDE DEF t
      <4>2. \A k \in 1 .. Len(left) : left[k] = g \/ \E j \in 1 .. Len(t) : left[k] = t[j]
        BY <4>1
      <4>3. \A j \in 1 .. Len(t) : t[j] \in ToSet(t)
        BY DEF ToSet
      <4> QED BY <4>2, <4>3 DEF t
    <3> QED BY <3>1, <3>2, <3>4
  <2>4. IssueCount(c) # 0 => old # <<>>
    BY DEF IssueCount
  <2>5. \/ left = old
        \/ old # <<>> /\ left = Tail(old)
        \/ old # <<>> /\ left = <<[h EXCEPT !.next = h.next + IssueCount(c)]>> \o Tail(old)
    BY <2>4 DEF SynapseWorkLeft
  <2> QED BY <2>1, <2>2, <2>3, <2>5
<1>4. \A k \in 1 .. Len(LookedUp(c)) : \E q \in ToSet(axon_lookup_pipeline[c]) :
        LookedUp(c)[k].event_id = q.event_id /\ LookedUp(c)[k].axon = q.axon
  <2> DEFINE e == Head(axon_lookup_pipeline[c])
  <2>1. CASE LookupDone(c) /\ Fanout[c][e.axon] # <<>>
    <3>1. e \in ToSet(axon_lookup_pipeline[c])
      <4>1. axon_lookup_pipeline[c] \in Seq(HeldLookup(c)) /\ axon_lookup_pipeline[c] # <<>>
        BY <2>1 DEF StorageInv, LookupInv, LookupDone
      <4> QED BY <4>1, TailHolds
    <3>2. LookedUp(c) = <<[event_id |-> e.event_id, axon |-> e.axon, next |-> 1]>>
      BY <2>1 DEF LookedUp
    <3> HIDE DEF e
    <3> QED BY <3>1, <3>2
  <2>2. CASE ~(LookupDone(c) /\ Fanout[c][e.axon] # <<>>)
    <3>1. LookedUp(c) = <<>>
      BY <2>2 DEF LookedUp
    <3> QED BY <3>1
  <2> QED BY <2>1, <2>2
<1>5. left \in Seq(T) /\ LookedUp(c) \in Seq(T)
  <2>1. LookedUp(c) \in Seq(T)
    BY LookedUpFits
  <2>2. IssueCount(c) # 0 /\ h.next + IssueCount(c) <= Len(Fanout[c][h.axon])
          => [h EXCEPT !.next = h.next + IssueCount(c)] \in T
    <3>1. IssueCount(c) \in Nat /\ (IssueCount(c) > 0 => h \in T)
      BY IssueFits
    <3>2. IssueCount(c) # 0 => h \in T
      BY <3>1
    <3> QED BY <3>1, <3>2 DEF HeldWork, SynapseWork
  <2>3. IssueCount(c) # 0 => old # <<>>
    BY DEF IssueCount
  <2>4. old # <<>> => Tail(old) \in Seq(T)
    BY <1>2
  <2>5. ASSUME IssueCount(c) # 0, h.next + IssueCount(c) <= Len(Fanout[c][h.axon])
        PROVE  <<[h EXCEPT !.next = h.next + IssueCount(c)]>> \o Tail(old) \in Seq(T)
    BY <2>2, <2>3, <2>4, <2>5
  <2> QED BY <1>2, <2>1, <2>3, <2>4, <2>5 DEF SynapseWorkLeft
<1>6. ToSet(synapse_work_fifo'[c]) = ToSet(left) \cup ToSet(LookedUp(c))
  <2> HIDE DEF left
  <2> QED BY <1>1, <1>5, ConcatHolds
<1> DEFINE up == LookedUp(c)
<1> HIDE DEF left, up, old
<1>7. CASE w \in ToSet(left)
  <2>1. PICK k \in 1 .. Len(left) : w = left[k]
    BY <1>5, <1>7 DEF ToSet
  <2> QED BY <1>3, <2>1 DEF old
<1>8. CASE w \in ToSet(up)
  <2>1. up \in Seq(T)
    BY <1>5 DEF up
  <2>2. PICK k \in 1 .. Len(up) : w = up[k]
    BY <2>1, <1>8 DEF ToSet
  <2> QED BY <1>4, <2>2 DEF up
<1> QED BY <1>6, <1>7, <1>8 DEF up
\* A contribution of the next cycle was one before, or comes from a synapse of a row that
\* is being read.
LEMMA ContributionsAfter ==
    ASSUME StorageInv, CurrentTick \in Nat, MoveContributions, NEW c \in Cores
    PROVE  /\ \A i \in ToSet(contribution_pipeline'[c]) :
                \/ \E j \in ToSet(contribution_pipeline[c]) : Bare(i) = Bare(j)
                \/ \E w \in ToSet(synapse_work_fifo[c]) : \E k \in 1 .. Len(Fanout[c][w.axon]) :
                     LET s == Fanout[c][w.axon][k]
                     IN  Bare(i) = [event_id |-> w.event_id, synapse |-> k, target |-> s.target,
                                    weight |-> s.weight, due_tick |-> CurrentTick + s.delay]
           /\ \A i \in delayed_contribution_fifo'[c] :
                \/ i \in delayed_contribution_fifo[c]
                \/ \E j \in ToSet(contribution_pipeline[c]) : i = Bare(j)
<1> DEFINE T == PipedContribution(c)
           kept == Picked(contribution_pipeline[c], KeptContributions(c))
           issued == IssuedContributions(c)
           next == kept \o issued
<1>1. contribution_pipeline'[c] = [k \in 1 .. Len(next) |-> Waited(next[k])]
  BY DEF MoveContributions
<1>2. kept \in Seq(T) /\ ToSet(kept) \subseteq ToSet(contribution_pipeline[c])
  <2>1. contribution_pipeline[c] \in Seq(T)
    BY DEF StorageInv, ContributionInv
  <2>2. KeptContributions(c) \subseteq 1 .. Len(contribution_pipeline[c])
    BY DEF KeptContributions
  <2>3. /\ kept \in Seq(T)
        /\ ToSet(kept) \subseteq {contribution_pipeline[c][i] : i \in KeptContributions(c)}
    BY <2>1, <2>2, PickedHolds
  <2>4. \A i \in KeptContributions(c) :
          contribution_pipeline[c][i] \in ToSet(contribution_pipeline[c])
    BY <2>1, <2>2 DEF ToSet
  <2> HIDE DEF kept
  <2> QED BY <2>3, <2>4
<1>3. issued \in Seq(T) /\ Len(issued) = IssueCount(c)
  BY IssuedHold
<1>4. \A n \in 1 .. IssueCount(c) :
        \E w \in ToSet(synapse_work_fifo[c]) : \E k \in 1 .. Len(Fanout[c][w.axon]) :
          LET s == Fanout[c][w.axon][k]
          IN  Bare(issued[n]) = [event_id |-> w.event_id, synapse |-> k, target |-> s.target,
                                 weight |-> s.weight, due_tick |-> CurrentTick + s.delay]
  <2> SUFFICES ASSUME NEW n \in 1 .. IssueCount(c)
               PROVE  \E w \in ToSet(synapse_work_fifo[c]) :
                      \E k \in 1 .. Len(Fanout[c][w.axon]) :
                        LET s == Fanout[c][w.axon][k]
                        IN  Bare(issued[n]) = [event_id |-> w.event_id, synapse |-> k,
                                               target |-> s.target, weight |-> s.weight,
                                               due_tick |-> CurrentTick + s.delay]
    OBVIOUS
  <2> DEFINE w == Head(synapse_work_fifo[c])
             k == w.next + n - 1
             s == Fanout[c][w.axon][k]
  <2>1. /\ IssueCount(c) \in Nat /\ IssueCount(c) > 0
    BY IssueFits
  <2>2. /\ synapse_work_fifo[c] # <<>> /\ w \in HeldWork(c)
        /\ w.next + IssueCount(c) - 1 <= Len(Fanout[c][w.axon])
        /\ Fanout[c][w.axon] \in Seq(Synapse(c))
    BY <2>1, IssueFits
  <2>3. w \in ToSet(synapse_work_fifo[c])
    <3>1. synapse_work_fifo[c] \in Seq(HeldWork(c))
      BY DEF StorageInv, LookupInv
    <3> QED BY <2>2, <3>1, TailHolds
  <2>4. k \in 1 .. Len(Fanout[c][w.axon])
    <3>1. w.next \in Nat /\ w.next >= 1
      BY <2>2 DEF HeldWork, SynapseWork
    <3> HIDE DEF w
    <3> DEFINE row == Fanout[c][w.axon]
               len == Len(row)
               first == w.next
               issues == IssueCount(c)
    <3>2. row \in Seq(Synapse(c))
      BY <2>2
    <3>3. len \in Nat
      <4> HIDE DEF row
      <4> QED BY ONLY <3>2
    <3>4. first \in Nat /\ first >= 1 /\ first + issues - 1 <= len
      BY <2>2, <3>1
    <3>5. issues \in Nat
      BY <2>1
    <3>6. k = first + n - 1 /\ n \in 1 .. issues
      BY DEF k
    <3> HIDE DEF row, len, first, issues, k
    <3>7. k \in 1 .. len
      BY ONLY <3>3, <3>4, <3>5, <3>6
    <3> QED BY <3>7 DEF len, row
  <2>5. issued[n] = [event_id |-> w.event_id, synapse |-> k, target |-> s.target,
                     weight |-> s.weight, due_tick |-> CurrentTick + s.delay,
                     wait |-> contribution_latency]
    BY DEF IssuedContributions
  <2>6. Bare(issued[n]) = [event_id |-> w.event_id, synapse |-> k, target |-> s.target,
                           weight |-> s.weight, due_tick |-> CurrentTick + s.delay]
    <3> HIDE DEF k, s, w, issued
    <3> QED BY <2>5 DEF Bare
  <2> HIDE DEF issued
  <2> QED BY <2>3, <2>4, <2>6
<1>5. \A i \in T : Bare(Waited(i)) = Bare(i)
  BY WaitedTypes
<1> HIDE DEF kept, issued
<1>6. ASSUME NEW i \in ToSet(contribution_pipeline'[c])
      PROVE  \/ \E j \in ToSet(contribution_pipeline[c]) : Bare(i) = Bare(j)
             \/ \E n \in 1 .. IssueCount(c) : Bare(i) = Bare(issued[n])
  <2>1. PICK k \in 1 .. Len(next) : i = Waited(next[k])
    BY <1>1, <1>6 DEF ToSet
  <2>2. \/ \E j \in 1 .. Len(kept) : next[k] = kept[j]
        \/ \E n \in 1 .. Len(issued) : next[k] = issued[n]
    BY <1>2, <1>3, <2>1
  <2> HIDE DEF next
  <2>3. ASSUME NEW j \in 1 .. Len(kept), next[k] = kept[j]
        PROVE  \E q \in ToSet(contribution_pipeline[c]) : Bare(i) = Bare(q)
    <3>1. kept[j] \in T /\ kept[j] \in ToSet(kept)
      BY <1>2 DEF ToSet
    <3> QED BY <1>2, <1>5, <2>1, <2>3, <3>1
  <2>4. ASSUME NEW n \in 1 .. Len(issued), next[k] = issued[n]
        PROVE  Bare(i) = Bare(issued[n])
    <3>1. issued[n] \in T
      BY <1>3
    <3> QED BY <1>5, <2>1, <2>4, <3>1
  <2> QED BY <1>3, <2>2, <2>3, <2>4
<1>7. \A i \in delayed_contribution_fifo'[c] :
        \/ i \in delayed_contribution_fifo[c]
        \/ \E j \in ToSet(contribution_pipeline[c]) : i = Bare(j)
  <2>1. delayed_contribution_fifo'[c]
           = (delayed_contribution_fifo[c] \ AccumulatorWrites(c)) \cup Deferred(c)
    BY DEF MoveContributions
  <2>2. Deferred(c) \subseteq Contributions(c)
    BY DeferredFits
  <2> QED BY <2>1, <2>2 DEF Contributions
<1>8. \A i \in ToSet(contribution_pipeline'[c]) :
        \/ \E j \in ToSet(contribution_pipeline[c]) : Bare(i) = Bare(j)
        \/ \E w \in ToSet(synapse_work_fifo[c]) : \E k \in 1 .. Len(Fanout[c][w.axon]) :
             LET s == Fanout[c][w.axon][k]
             IN  Bare(i) = [event_id |-> w.event_id, synapse |-> k, target |-> s.target,
                            weight |-> s.weight, due_tick |-> CurrentTick + s.delay]
  BY <1>4, <1>6
<1> QED BY <1>7, <1>8

\* An event in an external FIFO was there before, or comes from the source.
LEMMA ExternalAfter ==
    ASSUME StorageInv, MoveEvents, NEW c \in Cores, NEW q \in ToSet(external_ingress_fifo'[c])
    PROVE  \/ q \in ToSet(external_ingress_fifo[c])
           \/ \E i \in source_index + 1 .. Len(source_events) : q = source_events[i]
<1> DEFINE kept == AfterIngress(c, 0)
           new == SourcedTo(c)
<1>1. external_ingress_fifo'[c] = kept \o new /\ IngressFifo(c, 0) = external_ingress_fifo[c]
  BY DEF MoveEvents, IngressFifo
<1>2. external_ingress_fifo[c] \in Seq(HeldEvent(c)) /\ new \in Seq(HeldEvent(c))
  BY SourcedFits DEF StorageInv, IngressInv
<1>3. kept \in Seq(HeldEvent(c)) /\ ToSet(kept) \subseteq ToSet(external_ingress_fifo[c])
  BY <1>1, <1>2, AfterIngressHolds
<1>4. ToSet(new) \subseteq {source_events[i] : i \in source_index + 1 .. source_index + SourceCount}
  BY SourcedFits
<1>5. source_index + SourceCount <= Len(source_events)
  <2>1. SourceCount \in 0 .. Len(source_events) - source_index
    BY SourcedFits
  <2>2. source_index \in Nat /\ Len(source_events) \in Nat
    BY EventTicks
  <2> QED BY <2>1, <2>2
<1> HIDE DEF kept, new
<1>6. q \in ToSet(kept) \cup ToSet(new)
  BY <1>1, <1>2, <1>3, ConcatHolds
<1>7. CASE q \in ToSet(new)
  <2>1. PICK i \in source_index + 1 .. source_index + SourceCount : q = source_events[i]
    BY <1>4, <1>7
  <2>2. SourceCount \in Nat /\ source_index \in Nat /\ Len(source_events) \in Nat
    <3>1. SourceCount \in 0 .. Len(source_events) - source_index
      BY SourcedFits
    <3> QED BY <3>1, EventTicks
  <2>3. i \in source_index + 1 .. Len(source_events)
    BY <1>5, <2>1, <2>2
  <2> QED BY <2>1, <2>3
<1> QED BY <1>3, <1>6, <1>7
\* New identifiers are given origins of their own.
LEMMA OriginGrows ==
    ASSUME NEW origin \in Origins, NEW n \in Nat, NEW k \in Nat,
           NEW item \in [1 .. k -> [axon : Nat, tick : Nat]]
    PROVE  \E new \in Origins : /\ \A id \in Nat : id < n => new[id] = origin[id]
                                /\ \A i \in 1 .. k : new[n + i - 1] = item[i]
<1> DEFINE new == [id \in Nat |-> IF id - n + 1 \in 1 .. k THEN item[id - n + 1] ELSE origin[id]]
<1>1. new \in Origins
  BY DEF Origins
<1>2. ASSUME NEW id \in Nat, id < n
      PROVE  new[id] = origin[id]
  BY <1>2
<1>3. ASSUME NEW i \in 1 .. k
      PROVE  new[n + i - 1] = item[i]
  <2>1. n + i - 1 \in Nat /\ (n + i - 1) - n + 1 = i
    OBVIOUS
  <2> QED BY <2>1
<1> HIDE DEF new
<1> QED BY <1>1, <1>2, <1>3

\* A cycle agrees on identifiers: it gives one to each packet it makes, and reads the
\* synapses of an event in the tick of that event.
LEMMA CycleKeepsIds ==
    ASSUME StorageInv, TimeInv, IdentityInv, StepCycle
    PROVE  IdentityInv'
<1>1. PICK g \in GrantSeqs :
        IsArbitration(g) /\ MoveNetwork(g) /\ MoveNeurons /\ MoveContributions /\ MoveEvents
  BY DEF StepCycle
<1>2. CurrentTick \in Nat /\ logical_tick' = CurrentTick /\ source_events' = source_events
  BY TickOfCycle DEF StepCycle, hostVars
<1>3. PICK origin \in Origins : Agree(origin, next_event_id)
  BY DEF IdentityInv
<1>4. /\ Cardinality(PacketizedRoutes) \in Nat /\ next_event_id \in Nat
      /\ next_event_id' = next_event_id + Cardinality(PacketizedRoutes)
      /\ DOMAIN NewPackets = 1 .. Cardinality(PacketizedRoutes)
      /\ \A i \in DOMAIN NewPackets : NewPackets[i] \in RoutedPacket
                                      /\ NewPackets[i].event_id = next_event_id + i - 1
  BY <1>1, <1>2, NewPacketsFit DEF MoveNetwork, StorageInv, PacketInv
<1>5. PICK n \in Nat, m \in Nat : n = next_event_id /\ m = next_event_id'
  BY <1>4
<1>6. PICK new \in Origins :
        /\ \A id \in Nat : id < n => new[id] = origin[id]
        /\ \A i \in DOMAIN NewPackets : Named(new, m, NewPackets[i])
  <2> DEFINE k == Cardinality(PacketizedRoutes)
             item == [i \in 1 .. k |-> [axon |-> NewPackets[i].axon, tick |-> NewPackets[i].timestamp]]
  <2>1. item \in [1 .. k -> [axon : Nat, tick : Nat]]
    BY <1>4 DEF RoutedPacket, Packet
  <2> HIDE DEF item
  <2>2. PICK new \in Origins : /\ \A id \in Nat : id < n => new[id] = origin[id]
                               /\ \A i \in 1 .. k : new[n + i - 1] = item[i]
    <3> DEFINE N == Cardinality(PacketizedRoutes)
    <3>1. N \in Nat /\ item \in [1 .. N -> [axon : Nat, tick : Nat]]
      BY <1>4, <2>1
    <3> HIDE DEF N
    <3>2. \E h \in Origins : /\ \A id \in Nat : id < n => h[id] = origin[id]
                             /\ \A i \in 1 .. N : h[n + i - 1] = item[i]
      BY <3>1, OriginGrows
    <3> QED BY <3>2 DEF N
  <2>3. ASSUME NEW i \in DOMAIN NewPackets
        PROVE  Named(new, m, NewPackets[i])
    <3>1. NewPackets[i].event_id = n + i - 1 /\ i \in 1 .. k /\ m = n + k /\ k \in Nat
      BY <1>4, <1>5
    <3>2. n + i - 1 < m
      BY <3>1
    <3>3. new[n + i - 1] = item[i]
      BY <2>2, <3>1
    <3>4. item[i].axon = NewPackets[i].axon /\ item[i].tick = NewPackets[i].timestamp
      BY <3>1 DEF item
    <3> QED BY <3>1, <3>2, <3>3, <3>4 DEF Named
  <2> QED BY <2>2, <2>3
<1>7. n <= m
  BY <1>4, <1>5
<1>8. Agree(new, m)
  BY <1>3, <1>5, <1>6, <1>7, AgreeExtends
<1>9. PacketsIn({p \in RoutedPacket : Named(new, m, p)})
  BY <1>8, PacketsTyped DEF Agree, PacketsIn
<1>10. PacketsIn({p \in RoutedPacket : Named(new, m, p)})'
  BY <1>1, <1>2, <1>4, <1>6, <1>9, PacketsStay
<1>11. \A i \in source_index + 1 .. Len(source_events) : Named(new, m, source_events[i])
  BY <1>8 DEF Agree
<1>12. \A i \in source_index' + 1 .. Len(source_events') : Named(new, m, source_events'[i])
  <2>1. source_index' = source_index + SourceCount
    BY <1>1 DEF MoveEvents
  <2>2. SourceCount \in Nat /\ source_index \in Nat /\ Len(source_events) \in Nat
    BY SourcedFits, EventTicks, ProgramFinite
  <2>3. \A i \in source_index' + 1 .. Len(source_events) : i \in source_index + 1 .. Len(source_events)
    BY <2>1, <2>2
  <2> QED BY <1>2, <1>11, <2>3
<1>13. ASSUME NEW c \in Cores
       PROVE  /\ \A q \in ToSet(external_ingress_fifo[c]) : Named(new, m, q)
              /\ \A q \in ToSet(routed_ingress_fifo[c]) : Named(new, m, q)
              /\ \A q \in ToSet(axon_lookup_pipeline[c]) : Read(new, m, q, CurrentTick)
              /\ \A q \in ToSet(synapse_work_fifo[c]) : Read(new, m, q, CurrentTick)
                                                         /\ q.axon \in Axons(c)
              /\ \A i \in ToSet(contribution_pipeline[c]) : Made(new, m, c, i)
              /\ \A i \in delayed_contribution_fifo[c] : Made(new, m, c, i)
  <2>1. \A q \in ToSet(synapse_work_fifo[c]) : q.axon \in Axons(c)
    <3>1. synapse_work_fifo[c] \in Seq(HeldWork(c))
      BY DEF StorageInv, LookupInv
    <3> QED BY <3>1 DEF ToSet, HeldWork
  <2>2. /\ \A q \in ToSet(axon_lookup_pipeline[c]) : Read(new, m, q, CurrentTick)
        /\ \A q \in ToSet(synapse_work_fifo[c]) : Read(new, m, q, CurrentTick)
    <3>1. CASE tick_active
      BY <1>8, <3>1 DEF Agree, CurrentTick
    <3>2. CASE ~tick_active
      <4>1. axon_lookup_pipeline[c] = <<>> /\ synapse_work_fifo[c] = <<>>
        BY <3>2 DEF TimeInv, WorkDrained
      <4>2. ToSet(<<>>) = {}
        BY DEF ToSet
      <4> QED BY <4>1, <4>2
    <3> QED BY <3>1, <3>2
  <2> QED BY <1>8, <2>1, <2>2 DEF Agree
<1>14. ASSUME NEW c \in Cores
       PROVE  /\ \A q \in ToSet(external_ingress_fifo'[c]) : Named(new, m, q)
              /\ \A q \in ToSet(axon_lookup_pipeline'[c]) : Read(new, m, q, CurrentTick)
              /\ \A q \in ToSet(synapse_work_fifo'[c]) : Read(new, m, q, CurrentTick)
              /\ \A i \in ToSet(contribution_pipeline'[c]) : Made(new, m, c, i)
              /\ \A i \in delayed_contribution_fifo'[c] : Made(new, m, c, i)
  <2>1. \A q \in ToSet(external_ingress_fifo'[c]) : Named(new, m, q)
    BY <1>1, <1>11, <1>13, ExternalAfter
  <2>2. ASSUME NEW l \in ToSet(axon_lookup_pipeline'[c])
        PROVE  Read(new, m, l, CurrentTick)
    <3>1. \/ \E q \in ToSet(axon_lookup_pipeline[c]) : l.event_id = q.event_id /\ l.axon = q.axon
          \/ \E q \in ToSet(external_ingress_fifo[c]) \cup ToSet(routed_ingress_fifo[c]) :
               q.timestamp = CurrentTick /\ l.event_id = q.event_id /\ l.axon = q.axon
      BY <1>1, LookupsAfter
    <3>2. ASSUME NEW q \in ToSet(axon_lookup_pipeline[c]), l.event_id = q.event_id, l.axon = q.axon
          PROVE  Read(new, m, l, CurrentTick)
      BY <1>13, <3>2 DEF Read
    <3>3. ASSUME NEW q \in ToSet(external_ingress_fifo[c]) \cup ToSet(routed_ingress_fifo[c]),
                 q.timestamp = CurrentTick, l.event_id = q.event_id, l.axon = q.axon
          PROVE  Read(new, m, l, CurrentTick)
      BY <1>13, <3>3 DEF Read, Named
    <3> QED BY <3>1, <3>2, <3>3
  <2>3. ASSUME NEW w \in ToSet(synapse_work_fifo'[c])
        PROVE  Read(new, m, w, CurrentTick)
    <3>1. PICK q \in ToSet(axon_lookup_pipeline[c]) \cup ToSet(synapse_work_fifo[c]) :
             w.event_id = q.event_id /\ w.axon = q.axon
      BY <1>1, WorksAfter
    <3> QED BY <1>13, <3>1 DEF Read
  <2>4. \A i, j : Bare(i) = Bare(j) /\ Made(new, m, c, j) => Made(new, m, c, i)
    <3> SUFFICES ASSUME NEW i, NEW j, Bare(i) = Bare(j), Made(new, m, c, j)
                 PROVE  Made(new, m, c, i)
      OBVIOUS
    <3>1. /\ i.event_id = j.event_id /\ i.synapse = j.synapse /\ i.target = j.target
          /\ i.weight = j.weight /\ i.due_tick = j.due_tick
      BY DEF Bare
    <3> QED BY <3>1 DEF Made
  <2>5. ASSUME NEW i \in ToSet(contribution_pipeline'[c])
        PROVE  Made(new, m, c, i)
    <3>1. \/ \E j \in ToSet(contribution_pipeline[c]) : Bare(i) = Bare(j)
          \/ \E w \in ToSet(synapse_work_fifo[c]) : \E k \in 1 .. Len(Fanout[c][w.axon]) :
               LET s == Fanout[c][w.axon][k]
               IN  Bare(i) = [event_id |-> w.event_id, synapse |-> k, target |-> s.target,
                              weight |-> s.weight, due_tick |-> CurrentTick + s.delay]
      BY <1>1, <1>2, ContributionsAfter
    <3>2. ASSUME NEW j \in ToSet(contribution_pipeline[c]), Bare(i) = Bare(j)
          PROVE  Made(new, m, c, i)
      BY <1>13, <2>4, <3>2
    <3>3. ASSUME NEW w \in ToSet(synapse_work_fifo[c]), NEW k \in 1 .. Len(Fanout[c][w.axon]),
                 Bare(i) = [event_id |-> w.event_id, synapse |-> k,
                            target |-> Fanout[c][w.axon][k].target,
                            weight |-> Fanout[c][w.axon][k].weight,
                            due_tick |-> CurrentTick + Fanout[c][w.axon][k].delay]
          PROVE  Made(new, m, c, i)
      <4>1. /\ w.event_id < m /\ new[w.event_id].axon = w.axon
            /\ new[w.event_id].tick = CurrentTick /\ w.axon \in Axons(c)
        BY <1>13 DEF Read
      <4>2. /\ i.event_id = w.event_id /\ i.synapse = k
            /\ i.target = Fanout[c][w.axon][k].target /\ i.weight = Fanout[c][w.axon][k].weight
            /\ i.due_tick = CurrentTick + Fanout[c][w.axon][k].delay
        BY <3>3 DEF Bare
      <4> QED BY <4>1, <4>2 DEF Made
    <3> QED BY <3>1, <3>2, <3>3
  <2>6. ASSUME NEW i \in delayed_contribution_fifo'[c]
        PROVE  Made(new, m, c, i)
    <3>1. \/ i \in delayed_contribution_fifo[c]
          \/ \E j \in ToSet(contribution_pipeline[c]) : i = Bare(j)
      BY <1>1, <1>2, ContributionsAfter
    <3>2. ASSUME NEW j \in ToSet(contribution_pipeline[c]), i = Bare(j)
          PROVE  Made(new, m, c, i)
      <4>1. Bare(i) = Bare(j)
        BY <3>2 DEF Bare
      <4> QED BY <1>13, <2>4, <4>1
    <3> QED BY <1>13, <3>1, <3>2
  <2> QED BY <2>1, <2>2, <2>3, <2>5, <2>6
<1>15. Agree(new, m)'
  <2>1. /\ \A x \in packet_pipeline' : Named(new, m, x.packet)
        /\ \A c \in Cores :
            /\ \A p \in ToSet(router_input_fifos'[c]) : Named(new, m, p)
            /\ \A p \in ToSet(router_output_fifos'[c]) : Named(new, m, p)
            /\ \A p \in ToSet(routed_ingress_fifo'[c]) : Named(new, m, p)
    BY <1>10 DEF PacketsIn
  <2> QED BY <1>2, <1>12, <1>14, <2>1 DEF Agree
<1> QED BY <1>5, <1>15 DEF IdentityInv
\* A loaded source gives an identifier to each of its events.
LEMMA LoadSourceKeepsIds ==
    ASSUME StorageInv, IdentityInv, NEW events \in Sources, LoadInputSource(events)
    PROVE  IdentityInv'
<1>1. PICK origin \in Origins : Agree(origin, next_event_id)
  BY DEF IdentityInv
<1>2. events \in Seq([timestamp : Int, core : Int, axon : Int, priority : Int])
  BY HostAssumption
<1>3. /\ Len(events) \in Nat /\ DOMAIN events = 1 .. Len(events)
      /\ next_event_id \in Nat /\ next_event_id' = next_event_id + Len(events)
      /\ source_events = <<>> /\ source_index = 0 /\ source_index' = 0
  BY <1>2, EventTicks DEF LoadInputSource, StorageInv, PacketInv
<1>4. PICK n \in Nat, m \in Nat : n = next_event_id /\ m = next_event_id'
  BY <1>3
<1> DEFINE k == Len(events)
           item == [i \in 1 .. k |-> [axon |-> events[i].axon, tick |-> events[i].timestamp]]
<1>5. item \in [1 .. k -> [axon : Nat, tick : Nat]]
  <2>1. ASSUME NEW i \in 1 .. k
        PROVE  events[i].axon \in Nat /\ events[i].timestamp \in Nat
    <3>1. IsInputEvent(events[i])
      BY <1>3 DEF LoadInputSource
    <3> QED BY <3>1, ProgramAssumption DEF IsInputEvent
  <2> QED BY <2>1
<1>6. k \in Nat /\ m = n + k
  BY <1>3, <1>4
<1>7. \A i \in 1 .. k : item[i].axon = events[i].axon /\ item[i].tick = events[i].timestamp
  OBVIOUS
<1>8. Len(source_events') = k /\ \A i \in 1 .. k : source_events'[i] = CycleInput(events[i], n + i - 1)
  BY <1>3, <1>4 DEF LoadInputSource
<1> HIDE DEF k, item
<1>9. PICK new \in Origins : /\ \A id \in Nat : id < n => new[id] = origin[id]
                             /\ \A i \in 1 .. k : new[n + i - 1] = item[i]
  <2>1. k \in Nat /\ item \in [1 .. k -> [axon : Nat, tick : Nat]]
    BY <1>5, <1>6
  <2> QED BY <2>1, OriginGrows
<1>10. Agree(new, m)
  <2>1. n <= m
    BY <1>6
  <2> QED BY <1>1, <1>4, <1>9, <2>1, AgreeExtends
<1>11. \A i \in 1 .. k : Named(new, m, source_events'[i])
  <2> SUFFICES ASSUME NEW i \in 1 .. k PROVE Named(new, m, source_events'[i])
    OBVIOUS
  <2>1. /\ source_events'[i].event_id = n + i - 1
        /\ source_events'[i].axon = events[i].axon
        /\ source_events'[i].timestamp = events[i].timestamp
    BY <1>8 DEF CycleInput
  <2>2. n + i - 1 < m
    BY <1>6
  <2> QED BY <1>7, <1>9, <2>1, <2>2 DEF Named
<1>12. \A i \in source_index' + 1 .. Len(source_events') : Named(new, m, source_events'[i])
  BY <1>3, <1>8, <1>11
<1>13. Agree(new, m)'
  BY <1>10, <1>12 DEF Agree, LoadInputSource, controlVars, coreVars, networkVars
<1> QED BY <1>4, <1>13 DEF IdentityInv

\* What leaves the registers alone leaves the identifiers alone.
LEMMA OthersKeepIds ==
    ASSUME IdentityInv,
           UNCHANGED <<logical_tick, source_events, source_index, next_event_id,
                       external_ingress_fifo, coreVars, router_input_fifos, networkVars>>
    PROVE  IdentityInv'
<1>1. PICK origin \in Origins : Agree(origin, next_event_id)
  BY DEF IdentityInv
<1>2. PICK n : n = next_event_id
  OBVIOUS
<1>3. Agree(origin, n)'
  BY <1>1, <1>2 DEF Agree, coreVars, networkVars
<1> QED BY <1>2, <1>3 DEF IdentityInv

\* One step of a batch run.
LEMMA BatchStepCause == ASSUME CauseInv, [BatchNext]_vars PROVE CauseInv'
<1>1. BatchInv' /\ StuckInv'
  BY BatchStep, BatchStepStuck DEF CauseInv
<1>2. IdentityInv /\ StorageInv /\ TimeInv
  BY DEF CauseInv, BatchInv
<1>3. CASE StepCycle
  <2>1. IdentityInv'
    BY <1>2, <1>3, CycleKeepsIds
  <2>2. error' = "deadlock" => no_progress_cycles' > deadlock_detection_threshold
    BY <1>3 DEF StepCycle, CheckDeadlock
  <2> QED BY <1>1, <2>1, <2>2 DEF CauseInv
<1>4. CASE RaiseOmittedTick
  <2>1. IdentityInv'
    BY <1>2, <1>4, OthersKeepIds DEF RaiseOmittedTick, hostVars
  <2> QED BY <1>1, <1>4, <2>1 DEF CauseInv, RaiseOmittedTick
<1>5. CASE StepIdle \/ UNCHANGED vars
  <2>1. UNCHANGED vars
    BY <1>5 DEF StepIdle
  <2>2. IdentityInv'
    BY <1>2, <2>1, OthersKeepIds DEF vars, controlVars, hostVars
  <2> QED BY <1>1, <2>1, <2>2 DEF CauseInv, vars, controlVars
<1>6. ASSUME Fresh, NEW events \in Sources, LoadInputSource(events)
      PROVE  CauseInv'
  <2>1. IdentityInv'
    BY <1>2, <1>6, LoadSourceKeepsIds
  <2> QED BY <1>1, <1>6, <2>1 DEF CauseInv, LoadInputSource, controlVars
<1>7. ASSUME Fresh, NEW ticks \in TickLists, LoadLogicalTicks(ticks)
      PROVE  CauseInv'
  <2>1. IdentityInv'
    BY <1>2, <1>7, OthersKeepIds DEF LoadLogicalTicks, hostVars
  <2> QED BY <1>1, <1>7, <2>1 DEF CauseInv, LoadLogicalTicks
<1> QED BY <1>3, <1>4, <1>5, <1>6, <1>7 DEF BatchNext, Run

\* A batch run starts with nothing that has an identifier.
LEMMA InitCause == Init => CauseInv
<1> SUFFICES ASSUME Init PROVE CauseInv
  OBVIOUS
<1>1. BatchInv /\ StuckInv
  BY InitStorage, InitTime, InitStuck DEF BatchInv
<1>2. [id \in Nat |-> [axon |-> 0, tick |-> 0]] \in Origins
  BY DEF Origins
<1>3. ToSet(<<>>) = {}
  BY DEF ToSet
<1>4. \A origin : Agree(origin, next_event_id)
  BY <1>3 DEF Init, Agree
<1> QED BY <1>1, <1>2, <1>4 DEF Init, CauseInv, IdentityInv

\* What blocks a deadlocked batch run is storage for later ticks: the network, full of
\* packets of the next tick, or a delayed FIFO.  No arbiter, no stall of a writeback and
\* no order in which the stages free their room can block it in another way.
THEOREM BatchDeadlockIsStorage == BatchSpec => []DeadlockIsStorage
<1>1. CauseInv /\ [BatchNext]_vars => CauseInv'
  BY BatchStepCause
<1>2. CauseInv => DeadlockIsStorage
  BY CauseIsStorage
<1> QED BY <1>1, <1>2, InitCause, PTL DEF BatchSpec
=============================================================================
