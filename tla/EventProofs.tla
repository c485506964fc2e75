----------------------------- MODULE EventProofs -----------------------------
(***************************************************************************)
(* The V5 multi-core system, proved for every network, every memory and    *)
(* every host: what an exception tells, that spikes are routed at once,    *)
(* that rewards reach every core, that no copy of a spike is lost, and     *)
(* that deliveries are sorted.  What makes it inductive: the system clock  *)
(* is never behind a core's queue nor ahead of the heap; the clock of a    *)
(* core and its synapses are behind the system's unless a reward was dated *)
(* after it; a spike waits in an output queue with the time of the event   *)
(* that made it; and no heap entry is due before the last delivery.        *)
(***************************************************************************)
EXTENDS EventProperties, FiniteSetTheorems, TLAPS

-----------------------------------------------------------------------------
(* The inductive invariant. *)

Synapse(n) ==
    [target : 1 .. n, weight : WMin .. WMax, plastic : BOOLEAN,
     eligibility : Nat, pre : Nat, post : Nat, last : Nat]
Spike(c) == [neuron : 1 .. network.neurons[c], time : Nat]
HeapEntry(c) ==
    [time : Nat, core : {c}, axon : 1 .. network.axons[c], number : Nat,
     packet : BOOLEAN]

\* The heap: its entries are told apart by their numbers.
HeapInv ==
    /\ \A e \in queue : e.core \in Cores /\ e \in HeapEntry(e.core) /\ e.number <= sequence
    /\ IsFiniteSet(queue) /\ sequence \in Nat
    /\ \A e, f \in queue : e.number = f.number => e = f

\* The memories stay in the widths of the hardware, whatever is learned.
MemoriesInRange ==
    /\ DOMAIN voltage = Cores /\ DOMAIN synapses = Cores
    /\ \A c \in Cores : voltage[c] \in [1 .. network.neurons[c] -> VMin .. VMax]
    /\ \A c \in Cores : synapses[c] \in [DOMAIN network.synapses[c] -> Synapse(network.neurons[c])]

FrameInv ==
    /\ pc \in {"host", "run", "event", "drain", "reward"}
    /\ frame \in [core : Cores, position : Nat, axon : Nat, time : Nat, left : Int,
                  raises : BOOLEAN, value : Int, final : Cores]
    /\ pc = "event" => frame.axon \in 1 .. network.axons[here] /\ position >= 1
    /\ pc = "reward" => here <= frame.final

CountsType == [processed : Nat, local : Nat, sent : Nat, received : Nat, multicast : Nat,
               unrouted : Nat]

TypeInv ==
    /\ settings \in [network : DOMAIN Networks, local : Nat, gap : Nat, strict : BOOLEAN]
    /\ HeapInv /\ MemoriesInRange /\ FrameInv
    /\ current \in Nat
    /\ counts \in CountsType
    /\ coreTime \in [Cores -> Nat] /\ lastIn \in [Cores -> Nat] /\ lastOut \in [Cores -> Nat]
    /\ DOMAIN output = Cores /\ \A c \in Cores : output[c] \in Seq(Spike(c))
    /\ behind \in BOOLEAN /\ ahead \in BOOLEAN /\ misdated \in BOOLEAN
    /\ lastKey \in Nat \X Nat \X Nat
    /\ emitted \in Nat /\ lost \in Nat /\ injections \in Nat /\ rewardCalls \in Nat
    /\ given \in [Cores -> Nat] /\ taken \in [Cores -> Nat]

\* No call has left spikes in an output queue.
Quiet == errors \cap {"elapsed", "route", "past"} = {}

\* The system clock is behind the heap, and level with the event worked on.
ClockInv ==
    /\ \A e \in queue : e.time >= current
    /\ \A c \in Cores : lastIn[c] <= current /\ lastOut[c] <= current
    /\ pc \in {"event", "drain"} => frame.time = current
    /\ pc = "event" => coreTime[here] = current

\* Core c is in the loop of apply_reward.
Rewarding(c) == pc = "reward" /\ here = c /\ position >= 1 /\ config.learning

\* The clocks of the cores and of the synapses, unless a reward was dated ahead.
RewardInv ==
    /\ ahead => misdated
    /\ \A c \in Cores : Rewarding(c) => coreTime[c] <= frame.time
    /\ ~ahead => /\ \A c \in Cores : coreTime[c] <= current
                 /\ pc = "reward" => frame.time <= current
                 /\ \A c \in Cores : \A i \in DOMAIN synapses[c] :
                       \/ synapses[c][i].last <= coreTime[c]
                       \/ Rewarding(c) /\ synapses[c][i].last <= frame.time
    /\ ~misdated => /\ pc = "reward" => frame.time = current
                    /\ \A c \in Cores :
                          given[c] = taken[c] + (IF pc = "reward" /\ here <= c /\ c <= frame.final
                                                 THEN 1 ELSE 0)

\* A spike waits for routing only in the call and at the time that made it.
SpikeInv ==
    Quiet => \A c \in Cores : \A i \in DOMAIN output[c] :
                pc \in {"event", "drain"} /\ here = c /\ output[c][i].time = current

EventKey(e) == <<e.time, e.core, e.axon>>

\* Nothing in the heap comes before the last delivery, nor before the running one.
OrderInv ==
    settings.local > 0 /\ ~behind /\ Quiet =>
        /\ pc # "event" => \A e \in queue : ~Precedes(EventKey(e), lastKey)
        /\ pc = "event" =>
              /\ ~Precedes(<<frame.time, here, frame.axon>>, lastKey)
              /\ \A e \in queue : ~Precedes(EventKey(e), <<frame.time, here, frame.axon>>)
        /\ pc = "drain" => lastKey[1] = current

\* The last delivery is not ahead of the system clock.
DeliveredInv == lastKey[1] <= current

EventInv == TypeInv /\ ClockInv /\ RewardInv /\ SpikeInv /\ ErrorsExplained
-----------------------------------------------------------------------------
(* Arithmetic. *)

\* The leak divides by a power of two.
LEMMA PowersPositive == \A k \in 0 .. 15 : 2 ^ k \in Nat \ {0}
<1> DEFINE power(k) == 2 ^ k
<1>1. /\ power(0) = 1 /\ power(1) = 2 /\ power(2) = 4 /\ power(3) = 8
      /\ power(4) = 16 /\ power(5) = 32 /\ power(6) = 64 /\ power(7) = 128
      /\ power(8) = 256 /\ power(9) = 512 /\ power(10) = 1024 /\ power(11) = 2048
      /\ power(12) = 4096 /\ power(13) = 8192 /\ power(14) = 16384 /\ power(15) = 32768
  OBVIOUS
<1> HIDE DEF power
<1>2. \A k \in 0 .. 15 : power(k) \in Nat \ {0}
  BY <1>1
<1> QED BY <1>2 DEF power

\* Saturation.
LEMMA ClampInRange ==
    ASSUME NEW low \in Int, NEW high \in Int, low <= high, NEW x \in Int
    PROVE  Clamp(low, high, x) \in low .. high
BY DEF Clamp

\* Whatever the weight, the updated voltage is in the voltage range.
LEMMA VoltageInRange ==
    ASSUME NEW k \in CoreConfig, NEW v \in VMin .. VMax, NEW threshold \in Int,
           NEW weight \in Int
    PROVE  /\ UpdateNeuron(k, v, threshold, weight).v \in VMin .. VMax
           /\ UpdateNeuron(k, v, threshold, weight).spike \in BOOLEAN
<1> DEFINE sum == Clamp(VMin, VMax, v + weight)
<1>1. VMin \in Int /\ VMax \in Int /\ VMin <= VMax
  BY NumberAssumption
<1>2. sum \in VMin .. VMax
  BY <1>1, ClampInRange
<1> HIDE DEF sum
<1>3. Leaked(k, sum) \in VMin .. VMax
  <2>1. CASE k.leak = NoLeak
    BY <1>2, <2>1 DEF Leaked
  <2>2. CASE k.leak # NoLeak
    <3>1. k.leak \in 0 .. 15
      BY <2>2 DEF CoreConfig
    <3>2. 2 ^ k.leak \in Nat \ {0}
      BY <3>1, PowersPositive
    <3>3. sum \div 2 ^ k.leak \in Int
      BY <1>1, <1>2, <3>2
    <3> DEFINE leak == sum \div 2 ^ k.leak
    <3>4. leak \in Int
      BY <3>3
    <3> HIDE DEF leak
    <3>5. sum - leak \in Int
      BY <1>1, <1>2, <3>4
    <3>6. Clamp(VMin, VMax, sum - leak) \in VMin .. VMax
      BY <1>1, <3>5, ClampInRange
    <3> QED BY <2>2, <3>6 DEF Leaked, leak
  <2> QED BY <2>1, <2>2
<1>4. k.reset \in VMin .. VMax
  BY DEF CoreConfig
<1> QED BY <1>1, <1>2, <1>3, <1>4 DEF UpdateNeuron, sum

\* A decay keeps a trace non-negative.
LEMMA DecayKeeps ==
    ASSUME NEW value \in Nat, NEW amount \in Nat
    PROVE  DecayTowardZero(value, amount) \in Nat
BY DEF DecayTowardZero

\* A synapse that is not stale is brought up to date.
LEMMA DecayedTyped ==
    ASSUME NEW k \in CoreConfig, NEW n \in Nat, NEW s \in Synapse(n), NEW time \in Nat,
           ~Stale(k, s, time)
    PROVE  /\ DecayedTo(k, s, time) \in Synapse(n)
           /\ DecayedTo(k, s, time).last = IF Learns(k, s) THEN time ELSE s.last
<1>1. CASE ~Learns(k, s)
  BY <1>1 DEF DecayedTo
<1>2. CASE Learns(k, s)
  <2> DEFINE age == time - s.last
  <2>1. age \in Nat
    BY <1>2 DEF Stale, Synapse
  <2> HIDE DEF age
  <2>2. k.eligibilityDecay \in Nat /\ k.traceDecay \in Nat
    BY DEF CoreConfig
  <2>3. k.eligibilityDecay * age \in Nat /\ k.traceDecay * age \in Nat
    BY <2>1, <2>2
  <2> DEFINE early == DecayTowardZero(s.eligibility, k.eligibilityDecay * age)
             pre == DecayTowardZero(s.pre, k.traceDecay * age)
             post == DecayTowardZero(s.post, k.traceDecay * age)
  <2>4. early \in Nat /\ pre \in Nat /\ post \in Nat
    BY <2>3, DecayKeeps DEF Synapse
  <2>5. DecayedTo(k, s, time) =
           [s EXCEPT !.eligibility = early, !.pre = pre, !.post = post, !.last = time]
    BY <1>2 DEF DecayedTo, age, Synapse
  <2> HIDE DEF early, pre, post
  <2> QED BY <1>2, <2>4, <2>5 DEF Synapse
<1> QED BY <1>1, <1>2

\* An event that crosses a synapse leaves its traces non-negative.
LEMMA TracedTyped ==
    ASSUME NEW k \in CoreConfig, NEW n \in Nat, NEW s \in Synapse(n), NEW time \in Nat,
           NEW spike \in BOOLEAN, ~Stale(k, s, time)
    PROVE  /\ Traced(k, s, spike, time) \in Synapse(n)
           /\ Traced(k, s, spike, time).last = IF Learns(k, s) THEN time ELSE s.last
<1> DEFINE d == DecayedTo(k, s, time)
           pre == d.pre + k.preIncrement
           post == d.post + (IF spike THEN k.postIncrement ELSE 0)
           gain == IF spike THEN pre * post ELSE 0
<1>1. d \in Synapse(n) /\ d.last = IF Learns(k, s) THEN time ELSE s.last
  BY DecayedTyped
<1> HIDE DEF d
<1>2. k.preIncrement \in Nat /\ k.postIncrement \in Nat
  BY DEF CoreConfig
<1>3. pre \in Nat /\ post \in Nat
  BY <1>1, <1>2 DEF Synapse
<1>4. gain \in Nat
  <2> HIDE DEF pre, post
  <2> QED BY <1>3
<1>5. CASE ~Learns(k, s)
  BY <1>5 DEF Traced
<1>6. CASE Learns(k, s)
  <2>1. Traced(k, s, spike, time) =
           [d EXCEPT !.pre = pre, !.post = post, !.eligibility = d.eligibility + gain]
    BY <1>1, <1>6 DEF Traced, d, Synapse
  <2>2. d.eligibility + gain \in Nat
    <3> HIDE DEF gain
    <3> QED BY <1>1, <1>4 DEF Synapse
  <2> DEFINE new == d.eligibility + gain
  <2> HIDE DEF pre, post, new
  <2>3. Traced(k, s, spike, time) = [d EXCEPT !.pre = pre, !.post = post, !.eligibility = new]
    BY <2>1 DEF new
  <2>4. new \in Nat
    BY <2>2 DEF new
  <2> QED BY <1>1, <1>3, <1>6, <2>3, <2>4 DEF Synapse
<1> QED BY <1>5, <1>6

\* A reward keeps the weight in its range.
LEMMA RewardedTyped ==
    ASSUME NEW k \in CoreConfig, NEW n \in Nat, NEW s \in Synapse(n), NEW time \in Nat,
           NEW reward \in Int, ~Stale(k, s, time)
    PROVE  /\ Rewarded(k, s, reward, time) \in Synapse(n)
           /\ Rewarded(k, s, reward, time).last = IF Learns(k, s) THEN time ELSE s.last
<1> DEFINE d == DecayedTo(k, s, time)
           moved == WeightMoved(k, d, reward)
           weight == Clamp(WMin, WMax, moved)
<1>1. d \in Synapse(n) /\ d.last = IF Learns(k, s) THEN time ELSE s.last
  BY DecayedTyped
<1> HIDE DEF d
<1>2. WMin \in Int /\ WMax \in Int /\ WMin <= WMax
  BY NumberAssumption
<1>3. moved \in Int
  <2>1. d.weight \in Int /\ d.eligibility \in Int /\ k.rate \in Int
    BY <1>1, <1>2 DEF CoreConfig, Synapse
  <2>2. k.rate * reward \in Int
    BY <2>1
  <2>3. k.rate * reward * d.eligibility \in Int
    BY <2>1, <2>2
  <2> QED BY <2>1, <2>3 DEF WeightMoved
<1> HIDE DEF moved
<1>4. weight \in WMin .. WMax
  BY <1>2, <1>3, ClampInRange
<1>5. CASE ~Learns(k, s)
  BY <1>5 DEF Rewarded
<1>6. CASE Learns(k, s)
  <2>1. Rewarded(k, s, reward, time) = [d EXCEPT !.weight = weight]
    BY <1>6 DEF Rewarded, d, moved
  <2> HIDE DEF weight
  <2> QED BY <1>1, <1>4, <1>6, <2>1 DEF Synapse
<1> QED BY <1>5, <1>6
-----------------------------------------------------------------------------
(* The network. *)

\* What the memories and the routes of a core are.
LEMMA NetworkShape ==
    ASSUME settings.network \in DOMAIN Networks
    PROVE  /\ Cores = 1 .. Len(network.neurons) /\ Len(network.neurons) \in Nat
           /\ 1 \in Cores /\ Len(network.neurons) \in Cores
           /\ \A c \in Cores :
                /\ network.neurons[c] \in Nat /\ network.axons[c] \in Nat
                /\ network.config[c] \in CoreConfig
                /\ network.threshold[c] \in [1 .. network.neurons[c] -> VMin .. VMax]
                /\ network.synapses[c] \in Seq([target : 1 .. network.neurons[c],
                                                weight : WMin .. WMax, plastic : BOOLEAN])
                /\ \A a \in 1 .. network.axons[c] :
                      network.fanout[c][a] \in Seq(DOMAIN network.synapses[c])
           /\ network.delays \subseteq Nat \X Nat
           /\ network.limits \subseteq Int
<1>1. IsNetwork(network)
  BY NetworkAssumption DEF network
<1>2. network.neurons \in Seq(Nat \ {0}) /\ network.neurons # <<>>
  BY <1>1 DEF IsNetwork
<1>3. Cores = 1 .. Len(network.neurons) /\ Len(network.neurons) \in Nat /\ Len(network.neurons) >= 1
  BY <1>2 DEF Cores
<1>4. \A c \in Cores : network.neurons[c] \in Nat
  BY <1>2, <1>3
<1>5. \A c \in Cores : IsCore(network, c)
  BY <1>1 DEF IsNetwork, Cores
<1>6. ASSUME NEW c \in Cores
      PROVE  /\ network.neurons[c] \in Nat /\ network.axons[c] \in Nat
             /\ network.config[c] \in CoreConfig
             /\ network.threshold[c] \in [1 .. network.neurons[c] -> VMin .. VMax]
             /\ network.synapses[c] \in Seq([target : 1 .. network.neurons[c],
                                             weight : WMin .. WMax, plastic : BOOLEAN])
             /\ \A a \in 1 .. network.axons[c] :
                   network.fanout[c][a] \in Seq(DOMAIN network.synapses[c])
  BY <1>4, <1>5 DEF IsCore, IsSynapseMemory, IsNeuronMemory
<1>7. network.delays \subseteq Nat \X Nat /\ network.limits \subseteq Int
  BY <1>1 DEF IsNetwork, NoLimit
<1>8. 1 \in Cores /\ Len(network.neurons) \in Cores
  BY <1>3
<1> QED BY <1>3, <1>6, <1>7, <1>8, Zenon

\* The destinations of a spike are axons of the network's cores.
LEMMA DestinationsTyped ==
    ASSUME settings.network \in DOMAIN Networks,
           NEW c \in Cores, NEW n \in 1 .. network.neurons[c]
    PROVE  /\ Len(network.local[c][n]) \in 0 .. Len(Destinations(c, n))
           /\ Len(Destinations(c, n)) \in Nat
           /\ \A i \in 1 .. Len(Destinations(c, n)) :
                 /\ Destinations(c, n)[i][1] \in Cores
                 /\ Destinations(c, n)[i][2] \in 1 .. network.axons[Destinations(c, n)[i][1]]
<1> DEFINE local == network.local[c][n]
           remote == network.remote[c][n]
           T == RoutingTargets(network)
<1>1. IsRoutingEntry(network, local, remote)
  BY NetworkAssumption DEF network, IsNetwork, Cores
<1>2. local \in Seq(T) /\ remote \in Seq(T)
  BY <1>1 DEF IsRoutingEntry
<1>3. \A t \in T : t[1] \in Cores /\ t[2] \in 1 .. network.axons[t[1]]
  BY DEF RoutingTargets, Cores
<1>4. Destinations(c, n) = local \o remote
  BY DEF Destinations
<1> HIDE DEF local, remote, T
<1>5. /\ local \o remote \in Seq(T) /\ Len(local) \in Nat /\ Len(remote) \in Nat
      /\ Len(local \o remote) = Len(local) + Len(remote)
  BY <1>2
<1>6. \A i \in 1 .. Len(local \o remote) : (local \o remote)[i] \in T
  BY <1>5
<1>7. Len(local) \in 0 .. Len(local \o remote)
  BY <1>5
<1>8. \A i \in 1 .. Len(Destinations(c, n)) : Destinations(c, n)[i] \in T
  BY <1>4, <1>6
<1>9. /\ Len(local) \in 0 .. Len(Destinations(c, n))
      /\ Len(Destinations(c, n)) \in Nat
  BY <1>4, <1>5, <1>7
<1>10. \A i \in 1 .. Len(Destinations(c, n)) :
          /\ Destinations(c, n)[i][1] \in Cores
          /\ Destinations(c, n)[i][2] \in 1 .. network.axons[Destinations(c, n)[i][1]]
  BY <1>3, <1>8, Zenon
<1> QED BY <1>9, <1>10 DEF local

\* The network does not change.
LEMMA NetworkStays ==
    ASSUME settings' = settings
    PROVE  /\ network' = network /\ Cores' = Cores
           /\ \A c, n : Destinations(c, n)' = Destinations(c, n)
BY DEF network, Cores, Destinations

\* No step changes the network.
LEMMA SettingsStay == ASSUME [Next]_vars PROVE settings' = settings
BY DEF Next, Working, HostCall, Deliver, UpdateSynapse, FinishEvent, RouteSpike,
       FinishDelivery, EndRun, BeginReward, RewardSynapse, FinishReward, Inject, StartRun,
       StartReward, vars
-----------------------------------------------------------------------------
(* The copies of a spike. *)

\* A spike makes one heap entry for each of its destinations, numbered from the next
\* sequence number on, none before its own time and the axonal delay.
LEMMA EntriesTyped ==
    ASSUME TypeInv, NEW c \in Cores, NEW n \in 1 .. network.neurons[c], NEW time \in Nat
    PROVE  /\ \A e \in Entries(c, n, time) :
                /\ e.core \in Cores /\ e.axon \in 1 .. network.axons[e.core]
                /\ e = [time |-> e.time, core |-> e.core, axon |-> e.axon, number |-> e.number,
                        packet |-> e.packet]
                /\ e.time \in Nat /\ e.time >= Arrival(c, n, 1, time)
                /\ e.time >= time + settings.local
                /\ e.number \in sequence + 1 .. sequence + Len(Destinations(c, n))
                /\ e.packet \in BOOLEAN
           /\ \A e, f \in Entries(c, n, time) : e.number = f.number => e = f
           /\ Arrival(c, n, 1, time) >= time
<1> DEFINE D == Destinations(c, n)
           m == Len(D)
           l == Len(network.local[c][n])
           entry(i) == [time |-> Arrival(c, n, i, time), core |-> D[i][1], axon |-> D[i][2],
                        number |-> sequence + i, packet |-> i > l]
<1>1. /\ m \in Nat /\ l \in 0 .. m
      /\ \A i \in 1 .. m : D[i][1] \in Cores /\ D[i][2] \in 1 .. network.axons[D[i][1]]
  BY DestinationsTyped DEF TypeInv
<1>2. settings.local \in Nat /\ settings.gap \in Nat /\ sequence \in Nat
  BY DEF TypeInv, HeapInv
<1>3. Entries(c, n, time) = {entry(i) : i \in 1 .. m}
  BY DEF Entries
<1>4. \A i \in 1 .. m : /\ Arrival(c, n, i, time) \in Nat
                        /\ Arrival(c, n, i, time) >= Arrival(c, n, 1, time)
                        /\ Arrival(c, n, i, time) >= time + settings.local
  <2> SUFFICES ASSUME NEW i \in 1 .. m
               PROVE  /\ Arrival(c, n, i, time) \in Nat
                      /\ Arrival(c, n, i, time) >= Arrival(c, n, 1, time)
                      /\ Arrival(c, n, i, time) >= time + settings.local
    OBVIOUS
  <2>1. i \in Nat /\ i >= 1 /\ l \in Nat
    BY <1>1
  <2>2. Arrival(c, n, i, time) = time + settings.local + (IF i > l THEN settings.gap ELSE 0)
    BY DEF Arrival
  <2>3. Arrival(c, n, 1, time) = time + settings.local + (IF 1 > l THEN settings.gap ELSE 0)
    BY DEF Arrival
  <2> HIDE DEF m, l
  <2> QED BY <1>2, <2>1, <2>2, <2>3
<1>5. Arrival(c, n, 1, time) >= time
  <2> HIDE DEF m
  <2> QED BY <1>1, <1>2 DEF Arrival
<1> HIDE DEF D, m, l
<1>6. ASSUME NEW i \in 1 .. m
      PROVE  /\ entry(i).core \in Cores /\ entry(i).axon \in 1 .. network.axons[entry(i).core]
             /\ entry(i).time \in Nat /\ entry(i).time >= Arrival(c, n, 1, time)
             /\ entry(i).time >= time + settings.local
             /\ entry(i).number \in sequence + 1 .. sequence + m
             /\ entry(i).packet \in BOOLEAN
             /\ entry(i) = [time |-> entry(i).time, core |-> entry(i).core, axon |-> entry(i).axon,
                            number |-> entry(i).number, packet |-> entry(i).packet]
  BY <1>1, <1>2, <1>4
<1>7. \A i, j \in 1 .. m : entry(i).number = entry(j).number => entry(i) = entry(j)
  BY <1>1, <1>2
<1> HIDE DEF entry
<1> QED BY <1>3, <1>5, <1>6, <1>7 DEF D, m

\* They are as many as the destinations, and those beyond the local ones are packets.
LEMMA EntriesCounted ==
    ASSUME TypeInv, NEW c \in Cores, NEW n \in 1 .. network.neurons[c], NEW time \in Nat
    PROVE  /\ IsFiniteSet(Entries(c, n, time))
           /\ Cardinality(Entries(c, n, time)) = Len(Destinations(c, n))
           /\ Cardinality({e \in Entries(c, n, time) : e.packet})
                = Len(Destinations(c, n)) - Len(network.local[c][n])
<1> DEFINE m == Len(Destinations(c, n))
           l == Len(network.local[c][n])
           entry == [i \in 1 .. m |->
                       [time |-> Arrival(c, n, i, time), core |-> Destinations(c, n)[i][1],
                        axon |-> Destinations(c, n)[i][2], number |-> sequence + i,
                        packet |-> i > l]]
           S == Entries(c, n, time)
           P == {e \in S : e.packet}
           last == [i \in l + 1 .. m |-> entry[i]]
<1>1. m \in Nat /\ l \in 0 .. m /\ sequence \in Nat
  BY DestinationsTyped DEF TypeInv, HeapInv
<1>2. S = {entry[i] : i \in 1 .. m}
  BY DEF Entries
<1>3. \A i \in 1 .. m : entry[i].number = sequence + i /\ entry[i].packet = (i > l)
  OBVIOUS
<1>4. DOMAIN entry = 1 .. m
  OBVIOUS
<1> HIDE DEF m, l, entry, S
<1>5. \A i, j \in 1 .. m : entry[i] = entry[j] => i = j
  BY <1>1, <1>3
<1>6. entry \in Bijection(1 .. m, S)
  <2>1. entry \in [1 .. m -> S]
    BY <1>2, <1>4 DEF entry
  <2> QED BY <1>2, <1>5, <2>1 DEF Bijection, Injection, Surjection, IsInjective
<1>7. IsFiniteSet(1 .. m) /\ Cardinality(1 .. m) = m
  BY <1>1, FS_Interval
<1>8. IsFiniteSet(S) /\ Cardinality(S) = m
  BY <1>6, <1>7, FS_Bijection DEF ExistsBijection
<1>9. P = {entry[i] : i \in l + 1 .. m}
  <2>1. \A i : i \in l + 1 .. m <=> i \in 1 .. m /\ i > l
    BY <1>1
  <2>2. \A i \in 1 .. m : entry[i] \in S /\ (entry[i].packet <=> i > l)
    BY <1>2, <1>3
  <2> QED BY <1>2, <2>1, <2>2
<1>10. \A i, j \in l + 1 .. m : last[i] = last[j] => i = j
  BY <1>1, <1>5
<1>11. last \in Bijection(l + 1 .. m, P)
  <2>1. last \in [l + 1 .. m -> P]
    BY <1>9
  <2>2. \A e \in P : \E i \in l + 1 .. m : last[i] = e
    BY <1>9
  <2> HIDE DEF last, P
  <2> QED BY <1>10, <2>1, <2>2 DEF Bijection, Injection, Surjection, IsInjective
<1>12. IsFiniteSet(l + 1 .. m) /\ Cardinality(l + 1 .. m) = m - l
  <2>1. l + 1 \in Int /\ m \in Int /\ l <= m
    BY <1>1
  <2> DEFINE a == l + 1
  <2>2. a \in Int
    BY <2>1
  <2> HIDE DEF a
  <2>3. IsFiniteSet(a .. m) /\ Cardinality(a .. m) = IF a > m THEN 0 ELSE m - a + 1
    BY <2>1, <2>2, FS_Interval
  <2> QED BY <1>1, <2>1, <2>3 DEF a
<1>13. Cardinality(P) = m - l
  BY <1>11, <1>12, FS_Bijection DEF ExistsBijection
<1> QED BY <1>8, <1>13 DEF m, l, S
-----------------------------------------------------------------------------
(* The types, by the part of the state. *)

\* The actions that change the heap.
LEMMA HeapStep == ASSUME TypeInv, [Next]_vars PROVE HeapInv'
<1>1. network' = network /\ Cores' = Cores /\ \A c : HeapEntry(c)' = HeapEntry(c)
  BY NetworkStays, SettingsStay DEF HeapEntry
<1> DEFINE Held(e) == e.core \in Cores /\ e \in HeapEntry(e.core)
<1>2. /\ \A e \in queue : Held(e) /\ e.number \in Nat /\ e.number <= sequence
      /\ IsFiniteSet(queue) /\ sequence \in Nat
      /\ \A e, f \in queue : e.number = f.number => e = f
  BY DEF TypeInv, HeapInv, HeapEntry
<1> HIDE DEF Held
<1>3. ASSUME queue' \subseteq queue, sequence' = sequence
      PROVE  HeapInv'
  <2>1. IsFiniteSet(queue')
    BY <1>3, <1>2, FS_Subset
  <2> QED BY <1>1, <1>3, <1>2, <2>1 DEF HeapInv, Held
<1>4. ASSUME NEW c \in Cores, NEW a, NEW time, Inject(c, a, time)
      PROVE  HeapInv'
  <2> DEFINE new == [time |-> time, core |-> c, axon |-> a, number |-> sequence + 1,
                     packet |-> FALSE]
  <2>1. queue' = queue \cup {new} /\ sequence' = sequence + 1
        /\ time \in Nat /\ a \in 1 .. network.axons[c]
    BY <1>4 DEF Inject, IsEvent
  <2>2. IsFiniteSet(queue')
    BY <1>2, <2>1, FS_AddElement
  <2>3. Held(new) /\ new.number = sequence + 1
    BY <1>2, <2>1 DEF Held, HeapEntry
  <2> HIDE DEF new
  <2>4. \A e, f \in queue' : e.number = f.number => e = f
    BY <1>2, <2>1, <2>3
  <2>5. \A e \in queue' : Held(e) /\ e.number <= sequence'
    BY <1>2, <2>1, <2>3
  <2>6. sequence' \in Nat
    BY <1>2, <2>1
  <2> QED BY <1>1, <2>2, <2>4, <2>5, <2>6 DEF HeapInv, Held
<1>5. ASSUME RouteSpike, ~UNCHANGED <<queue, sequence>>
      PROVE  HeapInv'
  <2> DEFINE n == Head(output[here]).neuron
             time == Head(output[here]).time
             m == Len(Destinations(here, n))
             new == Entries(here, n, time)
  <2>1. here \in Cores /\ output[here] # <<>> /\ output[here] \in Seq(Spike(here))
    BY <1>5 DEF RouteSpike, TypeInv, FrameInv, here
  <2>2. Head(output[here]) \in Spike(here)
    BY <2>1
  <2>3. n \in 1 .. network.neurons[here] /\ time \in Nat
    BY <2>2 DEF Spike
  <2>4. queue' = queue \cup new /\ sequence' = sequence + m
    BY <1>5 DEF RouteSpike
  <2> HIDE DEF n, time
  <2>5. /\ \A e \in new :
             /\ e.core \in Cores /\ e.axon \in 1 .. network.axons[e.core]
             /\ e = [time |-> e.time, core |-> e.core, axon |-> e.axon, number |-> e.number,
                     packet |-> e.packet]
             /\ e.time \in Nat
             /\ e.number \in sequence + 1 .. sequence + m
             /\ e.packet \in BOOLEAN
        /\ \A e, f \in new : e.number = f.number => e = f
    BY <2>1, <2>3, EntriesTyped
  <2>6. m \in Nat
    BY <2>1, <2>3, DestinationsTyped DEF TypeInv
  <2>7. IsFiniteSet(new)
    BY <2>1, <2>3, EntriesCounted
  <2> HIDE DEF m, new
  <2>8. IsFiniteSet(queue')
    BY <1>2, <2>4, <2>7, FS_Union
  <2>9. \A e \in new : Held(e)
    <3> SUFFICES ASSUME NEW e \in new PROVE Held(e)
      OBVIOUS
    <3>1. e.number \in Nat
      BY <1>2, <2>5, <2>6
    <3> QED BY <2>5, <3>1 DEF Held, HeapEntry
  <2>10. sequence' \in Nat
    BY <1>2, <2>4, <2>6
  <2>11. /\ \A e \in queue : e.number <= sequence'
         /\ \A e \in new : e.number <= sequence'
         /\ \A e \in queue, f \in new : e.number # f.number
    BY <1>2, <2>4, <2>5, <2>6
  <2>12. \A e, f \in queue' : e.number = f.number => e = f
    BY <1>2, <2>4, <2>5, <2>11
  <2>13. \A e \in queue' : Held(e) /\ e.number <= sequence'
    BY <1>2, <2>4, <2>9, <2>11
  <2> QED BY <1>1, <2>8, <2>10, <2>12, <2>13 DEF HeapInv, Held
<1>6. \/ queue' \subseteq queue /\ sequence' = sequence
      \/ \E c \in Cores : \E a, time : Inject(c, a, time)
      \/ RouteSpike /\ ~UNCHANGED <<queue, sequence>>
  <2>1. CASE RouteSpike
    BY <2>1
  <2>2. CASE UNCHANGED <<queue, sequence>>
    BY <2>2
  <2>3. CASE \E e \in queue : Deliver(e)
    BY <2>3 DEF Deliver
  <2>4. CASE \E c \in Cores : \E a \in 1 .. network.axons[c], t \in 0 .. network.time :
               Inject(c, a, t)
    BY <2>4
  <2>5. \/ RouteSpike \/ UNCHANGED <<queue, sequence>> \/ \E e \in queue : Deliver(e)
        \/ \E c \in Cores : \E a \in 1 .. network.axons[c], t \in 0 .. network.time :
              Inject(c, a, t)
    BY DEF Next, Working, HostCall, UpdateSynapse, FinishEvent, FinishDelivery, EndRun,
           BeginReward, RewardSynapse, FinishReward, StartRun, StartReward, vars
  <2> QED BY <2>1, <2>2, <2>3, <2>4, <2>5
<1> QED BY <1>3, <1>4, <1>5, <1>6

\* The synapse an event crosses next, and the update of the neuron it drives.
Address == network.fanout[here][frame.axon][position]
Driven == synapses[here][Address]
Updated == UpdateNeuron(config, voltage[here][Driven.target],
                        network.threshold[here][Driven.target], Driven.weight)

\* An event in progress stands at a synapse of its core, which drives a neuron of it.
LEMMA CrossedSynapse ==
    ASSUME TypeInv, UpdateSynapse
    PROVE  /\ here \in Cores /\ config \in CoreConfig /\ network.neurons[here] \in Nat
           /\ Address \in DOMAIN network.synapses[here]
           /\ Driven \in Synapse(network.neurons[here])
           /\ Updated.v \in VMin .. VMax /\ Updated.spike \in BOOLEAN
<1>1. settings.network \in DOMAIN Networks /\ here \in Cores
  BY DEF TypeInv, FrameInv, here
<1>2. config \in CoreConfig /\ network.neurons[here] \in Nat
  BY <1>1, NetworkShape DEF config
<1>3. /\ voltage[here] \in [1 .. network.neurons[here] -> VMin .. VMax]
      /\ synapses[here] \in [DOMAIN network.synapses[here] -> Synapse(network.neurons[here])]
  BY <1>1 DEF TypeInv, MemoriesInRange
<1>4. frame.axon \in 1 .. network.axons[here] /\ position \in Nat /\ position >= 1
      /\ position <= Len(network.fanout[here][frame.axon])
  BY DEF UpdateSynapse, TypeInv, FrameInv, position
<1>5. Address \in DOMAIN network.synapses[here]
  <2> DEFINE row == network.fanout[here][frame.axon]
  <2>1. row \in Seq(DOMAIN network.synapses[here]) /\ position <= Len(row)
    BY <1>1, <1>4, NetworkShape
  <2> HIDE DEF row
  <2>2. position \in 1 .. Len(row)
    BY <1>4, <2>1
  <2> QED BY <2>1, <2>2 DEF row, Address
<1>6. Driven \in Synapse(network.neurons[here])
  BY <1>3, <1>5 DEF Driven
<1>7. Driven.target \in 1 .. network.neurons[here] /\ Driven.weight \in Int
  BY <1>6, NumberAssumption DEF Synapse
<1>8. voltage[here][Driven.target] \in VMin .. VMax
  BY <1>3, <1>7
<1>9. network.threshold[here] \in [1 .. network.neurons[here] -> VMin .. VMax]
  BY <1>1, NetworkShape
<1>10. network.threshold[here][Driven.target] \in VMin .. VMax
  BY <1>7, <1>9
<1>11. network.threshold[here][Driven.target] \in Int
  BY <1>10, NumberAssumption
<1>12. Updated.v \in VMin .. VMax /\ Updated.spike \in BOOLEAN
  BY <1>2, <1>7, <1>8, <1>11, VoltageInRange DEF Updated
<1> QED BY <1>1, <1>2, <1>5, <1>6, <1>12

\* The actions that change the memories.
LEMMA MemoriesStep == ASSUME TypeInv, [Next]_vars PROVE MemoriesInRange'
<1>1. network' = network /\ Cores' = Cores
  BY NetworkStays, SettingsStay
<1>2. settings.network \in DOMAIN Networks /\ here \in Cores /\ frame.time \in Nat
      /\ frame.value \in Int
  BY DEF TypeInv, FrameInv, here
<1>3. /\ DOMAIN voltage = Cores /\ DOMAIN synapses = Cores
      /\ \A c \in Cores : /\ voltage[c] \in [1 .. network.neurons[c] -> VMin .. VMax]
                          /\ synapses[c] \in [DOMAIN network.synapses[c]
                                                -> Synapse(network.neurons[c])]
  BY DEF TypeInv, MemoriesInRange
<1>4. config \in CoreConfig /\ network.neurons[here] \in Nat
  BY <1>2, NetworkShape DEF config
<1>5. ASSUME UNCHANGED <<voltage, synapses>>
      PROVE  MemoriesInRange'
  BY <1>1, <1>3, <1>5 DEF MemoriesInRange
<1>6. ASSUME UpdateSynapse
      PROVE  MemoriesInRange'
  <2>1. /\ Address \in DOMAIN network.synapses[here]
        /\ Driven \in Synapse(network.neurons[here])
        /\ Updated.v \in VMin .. VMax /\ Updated.spike \in BOOLEAN
    BY <1>6, CrossedSynapse
  <2>2. Driven.target \in 1 .. network.neurons[here]
    BY <2>1 DEF Synapse
  <2>3. voltage' = [voltage EXCEPT ![here][Driven.target] = Updated.v]
    BY <1>6 DEF UpdateSynapse, Updated, Driven, Address
  <2> DEFINE new == Traced(config, Driven, Updated.spike, frame.time)
  <2>4. \/ synapses' = synapses
        \/ /\ ~Stale(config, Driven, frame.time)
           /\ synapses' = [synapses EXCEPT ![here][Address] = new]
    BY <1>6 DEF UpdateSynapse, Updated, Driven, Address
  <2>5. DOMAIN voltage' = Cores
        /\ \A c \in Cores : voltage'[c] \in [1 .. network.neurons[c] -> VMin .. VMax]
    BY <1>2, <1>3, <2>1, <2>2, <2>3
  <2>6. ~Stale(config, Driven, frame.time) => new \in Synapse(network.neurons[here])
    BY <1>2, <1>4, <2>1, TracedTyped
  <2> HIDE DEF new
  <2>7. DOMAIN synapses' = Cores
        /\ \A c \in Cores : synapses'[c] \in [DOMAIN network.synapses[c]
                                                -> Synapse(network.neurons[c])]
    BY <1>2, <1>3, <2>1, <2>4, <2>6
  <2> QED BY <1>1, <2>5, <2>7 DEF MemoriesInRange
<1>7. ASSUME RewardSynapse
      PROVE  MemoriesInRange'
  <2> DEFINE s == synapses[here][position]
  <2>1. position \in DOMAIN network.synapses[here]
    <3>1. DOMAIN synapses[here] = DOMAIN network.synapses[here]
      BY <1>2, <1>3
    <3>2. network.synapses[here] \in Seq([target : 1 .. network.neurons[here],
                                          weight : WMin .. WMax, plastic : BOOLEAN])
      BY <1>2, NetworkShape
    <3>3. position \in 1 .. Len(network.synapses[here])
      BY <1>7 DEF RewardSynapse
    <3> QED BY <3>2, <3>3
  <2>2. s \in Synapse(network.neurons[here])
    BY <1>2, <1>3, <2>1
  <2> DEFINE new == Rewarded(config, s, frame.value, frame.time)
  <2>3. \/ synapses' = synapses
        \/ /\ ~Stale(config, s, frame.time)
           /\ synapses' = [synapses EXCEPT ![here][position] = new]
    BY <1>7 DEF RewardSynapse
  <2>4. voltage' = voltage
    BY <1>7 DEF RewardSynapse
  <2> HIDE DEF s
  <2>5. ~Stale(config, s, frame.time) => new \in Synapse(network.neurons[here])
    BY <1>2, <1>4, <2>2, RewardedTyped
  <2> HIDE DEF new
  <2>6. DOMAIN synapses' = Cores
        /\ \A c \in Cores : synapses'[c] \in [DOMAIN network.synapses[c]
                                                -> Synapse(network.neurons[c])]
    BY <1>2, <1>3, <2>1, <2>3, <2>5
  <2> QED BY <1>1, <1>3, <2>4, <2>6 DEF MemoriesInRange
<1>8. UNCHANGED <<voltage, synapses>> \/ UpdateSynapse \/ RewardSynapse
  BY DEF Next, Working, HostCall, Deliver, FinishEvent, RouteSpike, FinishDelivery, EndRun,
         BeginReward, FinishReward, Inject, StartRun, StartReward, vars
<1> QED BY <1>5, <1>6, <1>7, <1>8

\* Every step leaves the locals of a call typed.
LEMMA FrameStep == ASSUME TypeInv, [Next]_vars PROVE FrameInv'
<1> DEFINE Locals == [core : Cores, position : Nat, axon : Nat, time : Nat, left : Int,
                      raises : BOOLEAN, value : Int, final : Cores]
<1>1. network' = network /\ Cores' = Cores
  BY NetworkStays, SettingsStay
<1>2. /\ Cores = 1 .. Len(network.neurons) /\ Len(network.neurons) \in Nat
      /\ 1 \in Cores /\ Len(network.neurons) \in Cores
      /\ \A c \in Cores : network.axons[c] \in Nat /\ Len(network.synapses[c]) \in Nat
      /\ network.limits \subseteq Int
  <2>1. settings.network \in DOMAIN Networks
    BY DEF TypeInv
  <2>2. \A c \in Cores : network.synapses[c] \in Seq([target : 1 .. network.neurons[c],
                                                    weight : WMin .. WMax, plastic : BOOLEAN])
    BY <2>1, NetworkShape
  <2>3. \A c \in Cores : Len(network.synapses[c]) \in Nat
    BY <2>2
  <2> QED BY <2>1, <2>3, NetworkShape, Zenon
<1>3. frame \in Locals /\ pc \in {"host", "run", "event", "drain", "reward"}
  BY DEF TypeInv, FrameInv
<1>4. Idle \in Locals
  BY <1>2 DEF Idle
<1>5. ASSUME UNCHANGED <<pc, frame>>
      PROVE  FrameInv'
  BY <1>1, <1>5 DEF TypeInv, FrameInv, here, position
<1>6. ASSUME pc' = "host", frame' = Idle
      PROVE  FrameInv'
  BY <1>1, <1>4, <1>6 DEF FrameInv
<1>7. ASSUME NEW e \in queue, Deliver(e)
      PROVE  FrameInv'
  <2>1. CASE pc' = "host" /\ frame' = Idle
    BY <1>6, <2>1
  <2>2. CASE /\ pc' = "event"
             /\ frame' = [frame EXCEPT !.core = e.core, !.axon = e.axon, !.time = e.time,
                                       !.position = 1]
    <3>1. e.core \in Cores /\ e.axon \in 1 .. network.axons[e.core] /\ e.time \in Nat
      BY DEF TypeInv, HeapInv, HeapEntry
    <3>2. e.axon \in Nat
      BY <1>2, <3>1
    <3>3. frame' \in Locals /\ frame'.core = e.core /\ frame'.axon = e.axon /\ frame'.position = 1
      BY <1>3, <2>2, <3>1, <3>2
    <3> QED BY <1>1, <2>2, <3>1, <3>3 DEF FrameInv, here, position
  <2> QED BY <1>7, <2>1, <2>2 DEF Deliver, Raise
<1>8. ASSUME UpdateSynapse
      PROVE  FrameInv'
  <2>1. CASE pc' = "host" /\ frame' = Idle
    BY <1>6, <2>1
  <2>2. CASE pc' = pc /\ frame' = [frame EXCEPT !.position = @ + 1]
    <3>1. pc = "event" /\ frame.axon \in 1 .. network.axons[here] /\ position >= 1
      BY <1>8 DEF UpdateSynapse, TypeInv, FrameInv
    <3> QED BY <1>1, <1>3, <2>2, <3>1 DEF FrameInv, here, position
  <2> QED BY <1>8, <2>1, <2>2 DEF UpdateSynapse, Raise
<1>9. ASSUME FinishEvent
      PROVE  FrameInv'
  BY <1>1, <1>3, <1>9 DEF FinishEvent, FrameInv
<1>10. ASSUME RouteSpike
       PROVE  FrameInv'
  BY <1>5, <1>6, <1>10 DEF RouteSpike, Raise
<1>11. ASSUME FinishDelivery
       PROVE  FrameInv'
  <2>1. frame' \in Locals /\ pc' = "run"
    <3>1. frame' = [Idle EXCEPT !.left = IF frame.left = NoLimit THEN NoLimit ELSE frame.left - 1,
                                !.raises = frame.raises]
      BY <1>11 DEF FinishDelivery
    <3>2. (IF frame.left = NoLimit THEN NoLimit ELSE frame.left - 1) \in Int
      BY <1>3 DEF NoLimit
    <3> QED BY <1>3, <1>4, <1>11, <3>1, <3>2 DEF FinishDelivery
  <2> QED BY <1>1, <2>1 DEF FrameInv
<1>12. ASSUME EndRun
       PROVE  FrameInv'
  BY <1>6, <1>12 DEF EndRun, Raise, Return
<1>13. ASSUME BeginReward
       PROVE  FrameInv'
  <2>1. CASE pc' = "host" /\ frame' = Idle
    BY <1>6, <2>1
  <2>2. CASE /\ pc' = pc
             /\ frame' = [frame EXCEPT !.position =
                            IF config.learning THEN 1 ELSE Len(network.synapses[here]) + 1]
    <3>1. pc = "reward" /\ here <= frame.final
      BY <1>13 DEF BeginReward, TypeInv, FrameInv
    <3>2. Len(network.synapses[here]) + 1 \in Nat
      BY <1>2, <1>3 DEF here
    <3>3. frame' \in Locals /\ frame'.core = frame.core /\ frame'.final = frame.final
      BY <1>3, <2>2, <3>2
    <3> QED BY <1>1, <2>2, <3>1, <3>3 DEF FrameInv, here
  <2> QED BY <1>13, <2>1, <2>2 DEF BeginReward, Raise
<1>14. ASSUME RewardSynapse
       PROVE  FrameInv'
  <2>1. CASE pc' = "host" /\ frame' = Idle
    BY <1>6, <2>1
  <2>2. CASE pc' = pc /\ frame' = [frame EXCEPT !.position = @ + 1]
    <3>1. pc = "reward" /\ here <= frame.final
      BY <1>14 DEF RewardSynapse, TypeInv, FrameInv
    <3> QED BY <1>1, <1>3, <2>2, <3>1 DEF FrameInv, here
  <2> QED BY <1>14, <2>1, <2>2 DEF RewardSynapse, Raise
<1>15. ASSUME FinishReward
       PROVE  FrameInv'
  <2>1. CASE pc' = "host" /\ frame' = Idle
    BY <1>6, <2>1
  <2>2. CASE pc' = pc /\ here # frame.final
             /\ frame' = [frame EXCEPT !.core = @ + 1, !.position = 0]
    <3>1. pc = "reward" /\ here <= frame.final /\ here \in Cores /\ frame.final \in Cores
      BY <1>3, <1>15 DEF FinishReward, TypeInv, FrameInv, here
    <3>2. here + 1 \in Cores /\ here + 1 <= frame.final
      BY <1>2, <2>2, <3>1
    <3>3. frame' \in Locals /\ frame'.core = here + 1 /\ frame'.final = frame.final
      BY <1>3, <2>2, <3>2 DEF here
    <3> QED BY <1>1, <2>2, <3>1, <3>2, <3>3 DEF FrameInv, here
  <2> QED BY <1>15, <2>1, <2>2 DEF FinishReward, Return
<1>16. ASSUME NEW limit \in network.limits, NEW raises \in BOOLEAN, StartRun(limit, raises)
       PROVE  FrameInv'
  <2>1. frame' \in Locals /\ pc' = "run"
    BY <1>2, <1>4, <1>16 DEF StartRun
  <2> QED BY <1>1, <2>1 DEF FrameInv
<1>17. ASSUME NEW first \in Cores, NEW last \in Cores, first <= last, NEW value \in Rewards,
              NEW time \in Nat, StartReward(first, last, value, time)
       PROVE  FrameInv'
  <2>1. value \in Int
    BY HostAssumption
  <2>2. frame' \in Locals /\ pc' = "reward" /\ frame'.core = first /\ frame'.final = last
    BY <1>4, <1>17, <2>1 DEF StartReward, Idle
  <2> QED BY <1>1, <1>17, <2>2 DEF FrameInv, here
<1>18. CASE Working
  BY <1>7, <1>8, <1>9, <1>10, <1>11, <1>12, <1>13, <1>14, <1>15, <1>18 DEF Working
<1>19. CASE HostCall
  <2>1. CASE \E c \in Cores : \E a \in 1 .. network.axons[c], t \in 0 .. network.time :
               Inject(c, a, t)
    BY <1>5, <2>1 DEF Inject
  <2>2. CASE \E limit \in network.limits, raises \in BOOLEAN : StartRun(limit, raises)
    BY <1>16, <2>2
  <2>3. CASE \E value \in Rewards, t \in {current} \cup 0 .. network.time :
               \/ StartReward(1, Len(network.neurons), value, t)
               \/ \E c \in Cores : StartReward(c, c, value, t)
    <3>1. PICK value \in Rewards, t \in {current} \cup 0 .. network.time :
              \/ StartReward(1, Len(network.neurons), value, t)
              \/ \E c \in Cores : StartReward(c, c, value, t)
      BY <2>3
    <3>2. t \in Nat
      BY DEF TypeInv
    <3>3. CASE StartReward(1, Len(network.neurons), value, t)
      <4>1. 1 <= Len(network.neurons)
        BY <1>2
      <4> QED BY <1>2, <1>17, <3>2, <3>3, <4>1
    <3>4. ASSUME NEW c \in Cores, StartReward(c, c, value, t)
          PROVE  FrameInv'
      <4>1. c <= c
        BY <1>2
      <4> QED BY <1>17, <3>2, <3>4, <4>1
    <3> QED BY <3>1, <3>3, <3>4
  <2> QED BY <1>19, <2>1, <2>2, <2>3 DEF HostCall
<1>20. CASE UNCHANGED vars
  BY <1>5, <1>20 DEF vars
<1> QED BY <1>18, <1>19, <1>20 DEF Next
\* Every step leaves the rest of the state typed.
LEMMA TypeStep == ASSUME TypeInv, [Next]_vars PROVE TypeInv'
<1>1. settings' = settings /\ network' = network /\ Cores' = Cores
      /\ \A c : Spike(c)' = Spike(c)
  BY NetworkStays, SettingsStay DEF Spike
<1>2. HeapInv' /\ MemoriesInRange' /\ FrameInv'
  BY HeapStep, MemoriesStep, FrameStep
<1>3. here \in Cores /\ frame \in [core : Cores, position : Nat, axon : Nat, time : Nat, left : Int,
                                   raises : BOOLEAN, value : Int, final : Cores]
  BY DEF TypeInv, FrameInv, here
<1> DEFINE
      Clocks == /\ current \in Nat /\ coreTime \in [Cores -> Nat]
                /\ lastIn \in [Cores -> Nat] /\ lastOut \in [Cores -> Nat]
      Counts == counts \in CountsType
      Outputs == DOMAIN output = Cores /\ \A c \in Cores : output[c] \in Seq(Spike(c))
      Totals == emitted \in Nat /\ lost \in Nat /\ lastKey \in Nat \X Nat \X Nat
      Calls == /\ injections \in Nat /\ rewardCalls \in Nat
               /\ behind \in BOOLEAN /\ ahead \in BOOLEAN /\ misdated \in BOOLEAN
               /\ given \in [Cores -> Nat]
      Taken == taken \in [Cores -> Nat]
<1>4. Clocks /\ Counts /\ Outputs /\ Totals /\ Calls /\ Taken
  BY DEF TypeInv
<1>5. ASSUME NEW e \in queue, Deliver(e)
      PROVE  Clocks' /\ Counts' /\ Outputs' /\ Totals' /\ Calls' /\ Taken'
  <2>1. e.core \in Cores /\ e.time \in Nat /\ e.packet \in BOOLEAN
    BY DEF TypeInv, HeapInv, HeapEntry
  <2>2. Clocks'
    BY <1>1, <1>4, <1>5, <2>1 DEF Deliver
  <2>3. Counts'
    <3> DEFINE processed == counts.processed + 1
               received == counts.received + (IF e.packet THEN 1 ELSE 0)
    <3>1. counts \in CountsType
      BY <1>4
    <3>2. processed \in Nat /\ received \in Nat
      BY <3>1 DEF CountsType
    <3>3. counts' = [counts EXCEPT !.processed = processed, !.received = received]
      BY <1>5 DEF Deliver
    <3> HIDE DEF processed, received
    <3>4. counts' \in CountsType
      BY <3>1, <3>2, <3>3 DEF CountsType
    <3> QED BY <3>4
  <2> QED BY <1>1, <1>4, <1>5, <2>2, <2>3 DEF Deliver, host
<1>6. ASSUME UpdateSynapse
      PROVE  Clocks' /\ Counts' /\ Outputs' /\ Totals' /\ Calls' /\ Taken'
  <2>1. Driven.target \in 1 .. network.neurons[here]
    BY <1>6, CrossedSynapse DEF Synapse
  <2>2. Len(Destinations(here, Driven.target)) \in Nat
    BY <1>3, <2>1, DestinationsTyped DEF TypeInv
  <2>3. \/ UNCHANGED <<output, lastOut, emitted>>
        \/ /\ output' = [output EXCEPT ![here] = Append(@, [neuron |-> Driven.target, time |-> frame.time])]
           /\ lastOut' = [lastOut EXCEPT ![here] = frame.time]
           /\ emitted' = emitted + Len(Destinations(here, Driven.target))
    BY <1>6 DEF UpdateSynapse, Updated, Driven, Address
  <2>4. UNCHANGED <<counts, lastKey, lost, taken, current, coreTime, lastIn, host>>
    BY <1>6 DEF UpdateSynapse
  <2>5. [neuron |-> Driven.target, time |-> frame.time] \in Spike(here)
    BY <1>3, <2>1 DEF Spike
  <2>6. Outputs'
    <3>1. ASSUME output' = [output EXCEPT ![here] = Append(@, [neuron |-> Driven.target,
                                                              time |-> frame.time])]
          PROVE  Outputs'
      <4> DEFINE new == [neuron |-> Driven.target, time |-> frame.time]
      <4>1. new \in Spike(here)
        BY <2>5
      <4> HIDE DEF new
      <4>2. output' = [output EXCEPT ![here] = Append(@, new)]
        BY <3>1 DEF new
      <4>3. Append(output[here], new) \in Seq(Spike(here))
        BY <1>3, <1>4, <4>1
      <4> QED BY <1>1, <1>3, <1>4, <4>2, <4>3
    <3> QED BY <1>1, <1>4, <2>3, <3>1
  <2>7. Clocks'
    BY <1>1, <1>3, <1>4, <2>3, <2>4
  <2>8. Totals'
    BY <1>4, <2>2, <2>3, <2>4
  <2> QED BY <1>1, <1>4, <2>4, <2>6, <2>7, <2>8 DEF host
<1>7. ASSUME FinishEvent
      PROVE  Clocks' /\ Counts' /\ Outputs' /\ Totals' /\ Calls' /\ Taken'
  <2>1. Totals'
    <3>1. settings.network \in DOMAIN Networks
      BY DEF TypeInv
    <3>2. Cores = 1 .. Len(network.neurons)
      BY <3>1, NetworkShape
    <3>3. here \in Nat
      BY <1>3, <3>2
    <3>4. lastKey' = <<frame.time, here, frame.axon>>
      BY <1>7 DEF FinishEvent
    <3>5. frame.time \in Nat /\ frame.axon \in Nat
      BY <1>3
    <3>6. emitted' = emitted /\ lost' = lost
      BY <1>7 DEF FinishEvent
    <3> QED BY <1>4, <3>3, <3>4, <3>5, <3>6
  <2> QED BY <1>1, <1>4, <1>7, <2>1 DEF FinishEvent, clocks, host
<1>8. ASSUME RouteSpike
      PROVE  Clocks' /\ Counts' /\ Outputs' /\ Totals' /\ Calls' /\ Taken'
  <2> DEFINE spike == Head(output[here])
             locals == Len(network.local[here][spike.neuron])
             total == Len(Destinations(here, spike.neuron))
  <2>1. output[here] \in Seq(Spike(here)) /\ output[here] # <<>>
    BY <1>3, <1>4, <1>8 DEF RouteSpike
  <2>2. spike \in Spike(here) /\ Tail(output[here]) \in Seq(Spike(here))
    BY <2>1
  <2>3. total \in Nat /\ locals \in 0 .. total
    BY <1>3, <2>2, DestinationsTyped DEF Spike, TypeInv
  <2> HIDE DEF total, locals
  <2>4. Outputs'
    BY <1>1, <1>3, <1>4, <1>8, <2>2 DEF RouteSpike
  <2>5. Counts'
    <3>1. \/ counts' = [counts EXCEPT !.unrouted = @ + 1]
          \/ counts' = [counts EXCEPT !.multicast = @ + total]
          \/ counts' = [counts EXCEPT !.multicast = @ + total, !.local = @ + locals,
                                      !.sent = @ + total - locals]
      BY <1>8 DEF RouteSpike, total, locals, spike
    <3> DEFINE unrouted == counts.unrouted + 1
               multicast == counts.multicast + total
               local == counts.local + locals
               sent == counts.sent + total - locals
    <3>2. counts \in CountsType
      BY <1>4
    <3>3. unrouted \in Nat /\ multicast \in Nat /\ local \in Nat
      BY <2>3, <3>2 DEF CountsType
    <3>4. sent \in Nat
      <4>1. counts.sent \in Nat
        BY <3>2 DEF CountsType
      <4> QED BY <2>3, <4>1
    <3>5. \/ counts' = [counts EXCEPT !.unrouted = unrouted]
          \/ counts' = [counts EXCEPT !.multicast = multicast]
          \/ counts' = [counts EXCEPT !.multicast = multicast, !.local = local, !.sent = sent]
      BY <3>1
    <3> HIDE DEF unrouted, multicast, local, sent
    <3>6. counts' \in CountsType
      BY <3>2, <3>3, <3>4, <3>5 DEF CountsType
    <3> QED BY <3>6
  <2>6. Totals'
    <3>1. lost' = lost \/ lost' = lost + total
      BY <1>8 DEF RouteSpike, total, spike
    <3>2. emitted' = emitted /\ lastKey' = lastKey
      BY <1>8 DEF RouteSpike
    <3> QED BY <1>4, <2>3, <3>1, <3>2
  <2> QED BY <1>1, <1>4, <1>8, <2>4, <2>5, <2>6 DEF RouteSpike, clocks, host
<1>9. ASSUME FinishReward
      PROVE  Clocks' /\ Counts' /\ Outputs' /\ Totals' /\ Calls' /\ Taken'
  <2>1. UNCHANGED <<counts, output, lastKey, emitted, lost, current, lastIn, lastOut, host>>
    BY <1>9 DEF FinishReward
  <2>2. Taken'
    <3>1. taken' = [taken EXCEPT ![here] = @ + 1]
      BY <1>9 DEF FinishReward
    <3>2. taken \in [Cores -> Nat]
      BY <1>4
    <3>3. taken[here] + 1 \in Nat
      BY <1>3, <3>2
    <3>4. taken' \in [Cores -> Nat]
      BY <1>3, <3>1, <3>2, <3>3
    <3> QED BY <1>1, <3>4
  <2>3. coreTime' = coreTime \/ coreTime' = [coreTime EXCEPT ![here] = frame.time]
    BY <1>9 DEF FinishReward
  <2>4. Clocks'
    BY <1>1, <1>3, <1>4, <2>1, <2>3
  <2> QED BY <1>1, <1>4, <2>1, <2>2, <2>4 DEF host
<1>10. ASSUME \/ FinishDelivery \/ EndRun \/ BeginReward \/ RewardSynapse
              \/ (\E limit, raises : StartRun(limit, raises)) \/ UNCHANGED vars
       PROVE  Clocks' /\ Counts' /\ Outputs' /\ Totals' /\ Calls' /\ Taken'
  <2>1. UNCHANGED <<counts, output, lastKey, emitted, lost, taken, clocks, host>>
    BY <1>10 DEF FinishDelivery, EndRun, BeginReward, RewardSynapse, StartRun, vars
  <2> QED BY <1>1, <1>4, <2>1 DEF clocks, host
<1>11. ASSUME NEW c \in Cores, NEW a, NEW time, Inject(c, a, time)
       PROVE  Clocks' /\ Counts' /\ Outputs' /\ Totals' /\ Calls' /\ Taken'
  <2>1. Calls'
    BY <1>1, <1>4, <1>11 DEF Inject, Precedes
  <2> QED BY <1>1, <1>4, <1>11, <2>1 DEF Inject, clocks
<1>12. ASSUME NEW first, NEW last, NEW value, NEW time,
              StartReward(first, last, value, time)
       PROVE  Clocks' /\ Counts' /\ Outputs' /\ Totals' /\ Calls' /\ Taken'
  <2> DEFINE n(c) == IF first <= c /\ c <= last THEN 1 ELSE 0
  <2>1. given' = [c \in Cores |-> given[c] + n(c)] /\ rewardCalls' = rewardCalls + 1
        /\ injections' = injections /\ behind' = behind
    BY <1>12 DEF StartReward
  <2>2. ahead' \in BOOLEAN /\ misdated' \in BOOLEAN
    BY <1>12, Zenon DEF StartReward
  <2>3. \A c : n(c) \in Nat
    OBVIOUS
  <2> HIDE DEF n
  <2>4. given' \in [Cores -> Nat] /\ rewardCalls' \in Nat /\ injections' \in Nat
        /\ behind' \in BOOLEAN
    BY <1>4, <2>1, <2>3
  <2>5. Calls'
    BY <1>1, <2>2, <2>4
  <2> QED BY <1>1, <1>4, <1>12, <2>5 DEF StartReward, clocks
<1>13. Clocks' /\ Counts' /\ Outputs' /\ Totals' /\ Calls' /\ Taken'
  BY <1>5, <1>6, <1>7, <1>8, <1>9, <1>10, <1>11, <1>12 DEF Next, Working, HostCall
<1> QED BY <1>1, <1>2, <1>13 DEF TypeInv
-----------------------------------------------------------------------------
(* The order of deliveries. *)

\* The lexicographic order of triples and quadruples.
LEMMA PrecedesOfThree ==
    ASSUME NEW a1 \in Int, NEW a2 \in Int, NEW a3 \in Int,
           NEW b1 \in Int, NEW b2 \in Int, NEW b3 \in Int
    PROVE  Precedes(<<a1, a2, a3>>, <<b1, b2, b3>>)
              <=> \/ a1 < b1
                  \/ a1 = b1 /\ a2 < b2
                  \/ a1 = b1 /\ a2 = b2 /\ a3 < b3
<1> DEFINE a == <<a1, a2, a3>>
           b == <<b1, b2, b3>>
<1>1. Len(a) = 3 /\ a[1] = a1 /\ a[2] = a2 /\ a[3] = a3
      /\ b[1] = b1 /\ b[2] = b2 /\ b[3] = b3
  OBVIOUS
<1> HIDE DEF a, b
<1>2. Precedes(a, b) <=> \E i \in 1 .. 3 : a[i] < b[i] /\ \A j \in 1 .. i - 1 : a[j] = b[j]
  BY <1>1 DEF Precedes
<1>3. (\A j \in 1 .. 0 : a[j] = b[j]) <=> TRUE
  OBVIOUS
<1>4. (\A j \in 1 .. 1 : a[j] = b[j]) <=> a1 = b1
  BY <1>1
<1>5. (\A j \in 1 .. 2 : a[j] = b[j]) <=> a1 = b1 /\ a2 = b2
  <2>1. \A j : j \in 1 .. 2 <=> j = 1 \/ j = 2
    OBVIOUS
  <2> QED BY <1>1, <2>1
<1>6. \A i : i \in 1 .. 3 <=> i = 1 \/ i = 2 \/ i = 3
  OBVIOUS
<1>7. 1 - 1 = 0 /\ 2 - 1 = 1 /\ 3 - 1 = 2
  OBVIOUS
<1>8. Precedes(a, b) <=> \/ a[1] < b[1] /\ \A j \in 1 .. 0 : a[j] = b[j]
                         \/ a[2] < b[2] /\ \A j \in 1 .. 1 : a[j] = b[j]
                         \/ a[3] < b[3] /\ \A j \in 1 .. 2 : a[j] = b[j]
  BY <1>2, <1>6, <1>7
<1>9. Precedes(a, b) <=> \/ a1 < b1
                         \/ a1 = b1 /\ a2 < b2
                         \/ a1 = b1 /\ a2 = b2 /\ a3 < b3
  BY <1>1, <1>3, <1>4, <1>5, <1>8
<1> QED BY <1>9 DEF a, b

\* Quadruples, as far as their first three elements.
LEMMA PrecedesOfFour ==
    ASSUME NEW a1 \in Int, NEW a2 \in Int, NEW a3 \in Int, NEW a4 \in Int,
           NEW b1 \in Int, NEW b2 \in Int, NEW b3 \in Int, NEW b4 \in Int,
           Precedes(<<a1, a2, a3, a4>>, <<b1, b2, b3, b4>>)
    PROVE  \/ a1 < b1
           \/ a1 = b1 /\ a2 < b2
           \/ a1 = b1 /\ a2 = b2 /\ a3 <= b3
<1> DEFINE a == <<a1, a2, a3, a4>>
           b == <<b1, b2, b3, b4>>
<1>1. Len(a) = 4 /\ a[1] = a1 /\ a[2] = a2 /\ a[3] = a3
      /\ b[1] = b1 /\ b[2] = b2 /\ b[3] = b3
  OBVIOUS
<1>2. PICK i \in 1 .. 4 : a[i] < b[i] /\ \A j \in 1 .. i - 1 : a[j] = b[j]
  <2>1. Precedes(a, b)
    OBVIOUS
  <2> HIDE DEF a, b
  <2> QED BY <1>1, <2>1 DEF Precedes
<1> HIDE DEF a, b
<1>3. CASE i = 1
  BY <1>1, <1>2, <1>3
<1>4. CASE i = 2
  <2>1. 1 \in 1 .. i - 1
    BY <1>4
  <2>2. a1 = b1 /\ a2 < b2
    BY <1>1, <1>2, <1>4, <2>1
  <2> QED BY <2>2
<1>5. CASE i = 3 \/ i = 4
  <2>1. 1 \in 1 .. i - 1 /\ 2 \in 1 .. i - 1 /\ (i = 4 => 3 \in 1 .. i - 1)
    BY <1>5
  <2>2. a[1] = b[1] /\ a[2] = b[2] /\ (i = 4 => a[3] = b[3]) /\ (i = 3 => a[3] < b[3])
    BY <1>2, <1>5, <2>1
  <2> QED BY <1>1, <1>5, <2>2
<1> QED BY <1>2, <1>3, <1>4, <1>5

\* An entry of the heap is an event for an axon of a core.
LEMMA EntryTyped ==
    ASSUME TypeInv, NEW e \in queue
    PROVE  /\ e.core \in Cores /\ e.axon \in 1 .. network.axons[e.core]
           /\ e.time \in Nat /\ e.core \in Nat /\ e.axon \in Nat /\ e.number \in Nat
           /\ e.packet \in BOOLEAN
<1>1. settings.network \in DOMAIN Networks
  BY DEF TypeInv
<1>2. Cores = 1 .. Len(network.neurons) /\ \A c \in Cores : network.axons[c] \in Nat
  BY <1>1, NetworkShape
<1>3. e.core \in Cores /\ e \in HeapEntry(e.core)
  BY DEF TypeInv, HeapInv
<1>4. /\ e.axon \in 1 .. network.axons[e.core] /\ e.time \in Nat /\ e.number \in Nat
      /\ e.packet \in BOOLEAN
  BY <1>3 DEF HeapEntry
<1>5. e.core \in Nat /\ e.axon \in Nat
  BY <1>2, <1>3, <1>4
<1> QED BY <1>3, <1>4, <1>5

\* The next event is due no later than the others, and its key is not after theirs.
LEMMA NextIsFirst ==
    ASSUME TypeInv, NEW e \in queue, IsNext(e), NEW f \in queue
    PROVE  /\ e.time <= f.time
           /\ ~Precedes(EventKey(f), EventKey(e))
<1>1. /\ e.time \in Int /\ e.core \in Int /\ e.axon \in Int /\ e.number \in Int
      /\ f.time \in Int /\ f.core \in Int /\ f.axon \in Int /\ f.number \in Int
  <2>1. /\ e.time \in Nat /\ e.core \in Nat /\ e.axon \in Nat /\ e.number \in Nat
        /\ f.time \in Nat /\ f.core \in Nat /\ f.axon \in Nat /\ f.number \in Nat
    BY EntryTyped
  <2> QED BY <2>1
<1>2. \/ f = e
      \/ e.time < f.time
      \/ e.time = f.time /\ e.core < f.core
      \/ e.time = f.time /\ e.core = f.core /\ e.axon <= f.axon
  <2>1. f = e \/ Precedes(<<e.time, e.core, e.axon, e.number>>, <<f.time, f.core, f.axon, f.number>>)
    BY DEF IsNext, Key
  <2> QED BY <1>1, <2>1, PrecedesOfFour
<1>3. Precedes(EventKey(f), EventKey(e))
         <=> \/ f.time < e.time
             \/ f.time = e.time /\ f.core < e.core
             \/ f.time = e.time /\ f.core = e.core /\ f.axon < e.axon
  <2> DEFINE a1 == f.time  a2 == f.core  a3 == f.axon
             b1 == e.time  b2 == e.core  b3 == e.axon
  <2>1. a1 \in Int /\ a2 \in Int /\ a3 \in Int /\ b1 \in Int /\ b2 \in Int /\ b3 \in Int
    BY <1>1
  <2> HIDE DEF a1, a2, a3, b1, b2, b3
  <2>2. Precedes(<<a1, a2, a3>>, <<b1, b2, b3>>)
           <=> \/ a1 < b1
               \/ a1 = b1 /\ a2 < b2
               \/ a1 = b1 /\ a2 = b2 /\ a3 < b3
    BY <2>1, PrecedesOfThree
  <2> QED BY <2>2 DEF EventKey, a1, a2, a3, b1, b2, b3
<1> QED BY <1>1, <1>2, <1>3
-----------------------------------------------------------------------------
(* No queue of a core refuses an event. *)

\* A delivered event is accepted: the core's queue holds no later one.
LEMMA DeliverAccepted ==
    ASSUME TypeInv, ClockInv, NEW e \in queue, Deliver(e)
    PROVE  /\ pc = "run" /\ pc' = "event" /\ errors' = errors
           /\ current' = e.time /\ queue' = queue \ {e}
           /\ lastIn' = [lastIn EXCEPT ![e.core] = e.time]
           /\ coreTime' = [coreTime EXCEPT ![e.core] = e.time]
           /\ frame' = [frame EXCEPT !.core = e.core, !.axon = e.axon, !.time = e.time,
                                     !.position = 1]
<1>1. e.time \in Nat /\ e.core \in Cores
  BY EntryTyped
<1>2. lastIn[e.core] \in Nat /\ lastIn[e.core] <= current /\ current <= e.time /\ current \in Nat
  BY <1>1 DEF TypeInv, ClockInv
<1>3. InOrder(lastIn[e.core], e.time)
  BY <1>1, <1>2 DEF InOrder
<1> QED BY <1>3 DEF Deliver

\* So is a spike: an event crosses a synapse and goes on, or finds it updated later.
LEMMA CrossedInOrder ==
    ASSUME TypeInv, ClockInv, UpdateSynapse
    PROVE  /\ pc = "event" /\ frame.time = current /\ coreTime[here] = current
           /\ IF Updated.spike
              THEN /\ output' = [output EXCEPT ![here] =
                                   Append(@, [neuron |-> Driven.target, time |-> current])]
                   /\ lastOut' = [lastOut EXCEPT ![here] = current]
                   /\ emitted' = emitted + Len(Destinations(here, Driven.target))
              ELSE UNCHANGED <<output, lastOut, emitted>>
           /\ \/ /\ Stale(config, Driven, current) /\ synapses' = synapses
                 /\ pc' = "host" /\ frame' = Idle /\ errors' = errors \cup {"elapsed"}
              \/ /\ ~Stale(config, Driven, current)
                 /\ synapses' = [synapses EXCEPT ![here][Address] =
                                   Traced(config, Driven, Updated.spike, current)]
                 /\ pc' = "event" /\ errors' = errors
                 /\ frame' = [frame EXCEPT !.position = @ + 1]
<1>1. pc = "event"
  BY DEF UpdateSynapse
<1>2. frame.time = current /\ coreTime[here] = current
  BY <1>1 DEF ClockInv
<1>3. here \in Cores /\ Updated.spike \in BOOLEAN
  BY CrossedSynapse
<1>4. lastOut[here] \in Nat /\ lastOut[here] <= current /\ current \in Nat
  BY <1>3 DEF TypeInv, ClockInv
<1>5. InOrder(lastOut[here], current)
  BY <1>4 DEF InOrder
<1>6. IF Updated.spike
      THEN /\ output' = [output EXCEPT ![here] =
                           Append(@, [neuron |-> Driven.target, time |-> current])]
           /\ lastOut' = [lastOut EXCEPT ![here] = current]
           /\ emitted' = emitted + Len(Destinations(here, Driven.target))
      ELSE UNCHANGED <<output, lastOut, emitted>>
  BY <1>2, <1>5 DEF UpdateSynapse, Updated, Driven, Address
<1>7. IF Stale(config, Driven, current)
      THEN Raise("elapsed") /\ UNCHANGED synapses
      ELSE /\ synapses' = [synapses EXCEPT ![here][Address] =
                             Traced(config, Driven, Updated.spike, current)]
           /\ frame' = [frame EXCEPT !.position = @ + 1]
           /\ UNCHANGED <<pc, errors>>
  BY <1>2, <1>5 DEF UpdateSynapse, Updated, Driven, Address
<1> QED BY <1>1, <1>2, <1>6, <1>7 DEF Raise

\* Routing a spike schedules its copies, or raises and schedules none.
LEMMA RouteOutcome ==
    ASSUME TypeInv, RouteSpike
    PROVE  LET spike == Head(output[here])
               total == Len(Destinations(here, spike.neuron))
               locals == Len(network.local[here][spike.neuron])
           IN  /\ pc = "drain" /\ here \in Cores /\ output[here] # <<>>
               /\ spike \in Spike(here) /\ total \in Nat /\ locals \in 0 .. total
               /\ output' = [output EXCEPT ![here] = Tail(@)]
               /\ \/ /\ total = 0 /\ settings.strict /\ UNCHANGED <<queue, sequence, lost>>
                     /\ counts' = [counts EXCEPT !.unrouted = @ + 1]
                     /\ pc' = "host" /\ frame' = Idle /\ errors' = errors \cup {"route"}
                  \/ /\ total = 0 /\ ~settings.strict /\ UNCHANGED <<queue, sequence, lost>>
                     /\ counts' = [counts EXCEPT !.unrouted = @ + 1]
                     /\ UNCHANGED <<pc, frame, errors>>
                  \/ /\ total > 0 /\ Arrival(here, spike.neuron, 1, spike.time) < current
                     /\ UNCHANGED <<queue, sequence>> /\ lost' = lost + total
                     /\ counts' = [counts EXCEPT !.multicast = @ + total]
                     /\ pc' = "host" /\ frame' = Idle /\ errors' = errors \cup {"past"}
                  \/ /\ total > 0 /\ ~(Arrival(here, spike.neuron, 1, spike.time) < current)
                     /\ queue' = queue \cup Entries(here, spike.neuron, spike.time)
                     /\ sequence' = sequence + total
                     /\ counts' = [counts EXCEPT !.multicast = @ + total, !.local = @ + locals,
                                                 !.sent = @ + total - locals]
                     /\ UNCHANGED <<pc, frame, errors, lost>>
<1> DEFINE spike == Head(output[here])
           total == Len(Destinations(here, spike.neuron))
           locals == Len(network.local[here][spike.neuron])
<1>1. pc = "drain" /\ here \in Cores /\ output[here] # <<>> /\ output[here] \in Seq(Spike(here))
  BY DEF TypeInv, FrameInv, here, RouteSpike
<1>2. spike \in Spike(here)
  BY <1>1
<1>3. total \in Nat /\ locals \in 0 .. total
  BY <1>1, <1>2, DestinationsTyped DEF Spike, TypeInv
<1>4. output' = [output EXCEPT ![here] = Tail(@)]
  BY DEF RouteSpike
<1>5. CASE total = 0
  BY <1>1, <1>2, <1>3, <1>4, <1>5 DEF RouteSpike, Raise
<1>6. CASE total > 0
  <2>1. total # 0
    BY <1>3, <1>6
  <2> QED BY <1>1, <1>2, <1>3, <1>4, <1>6, <2>1 DEF RouteSpike, Raise
<1> QED BY <1>3, <1>5, <1>6
-----------------------------------------------------------------------------
(* The clocks. *)

\* The system clock never passes the heap and never falls behind a queue of a core.
LEMMA ClockStep == ASSUME TypeInv, ClockInv, [Next]_vars PROVE ClockInv'
<1>1. Cores' = Cores /\ here \in Cores /\ current \in Nat
  BY NetworkStays, SettingsStay DEF TypeInv, FrameInv, here
<1>2. /\ \A e \in queue : e.time \in Nat /\ e.core \in Cores
      /\ lastIn \in [Cores -> Nat] /\ lastOut \in [Cores -> Nat] /\ coreTime \in [Cores -> Nat]
      /\ frame \in [core : Cores, position : Nat, axon : Nat, time : Nat, left : Int,
                    raises : BOOLEAN, value : Int, final : Cores]
  BY EntryTyped DEF TypeInv, FrameInv
<1>3. ASSUME NEW e \in queue, Deliver(e)
      PROVE  ClockInv'
  <2>1. /\ pc' = "event" /\ current' = e.time /\ queue' = queue \ {e}
        /\ lastIn' = [lastIn EXCEPT ![e.core] = e.time]
        /\ coreTime' = [coreTime EXCEPT ![e.core] = e.time]
        /\ frame' = [frame EXCEPT !.core = e.core, !.axon = e.axon, !.time = e.time,
                                  !.position = 1]
    BY <1>3, DeliverAccepted
  <2>2. e.time \in Nat /\ e.core \in Cores /\ current <= e.time
    BY <1>2 DEF ClockInv
  <2>3. \A f \in queue' : f.time >= e.time
    <3> SUFFICES ASSUME NEW f \in queue PROVE f.time >= e.time
      BY <2>1
    <3>1. IsNext(e)
      BY <1>3 DEF Deliver
    <3>2. e.time <= f.time
      BY <3>1, NextIsFirst
    <3> QED BY <1>2, <2>2, <3>2
  <2>4. \A c \in Cores : lastIn'[c] <= e.time /\ lastOut'[c] <= e.time
    <3>1. lastOut' = lastOut
      BY <1>3 DEF Deliver
    <3>2. \A c \in Cores : lastIn[c] <= e.time /\ lastOut[c] <= e.time
      BY <1>1, <1>2, <2>2 DEF ClockInv
    <3> QED BY <1>2, <2>1, <2>2, <3>1, <3>2
  <2>5. frame'.time = e.time /\ coreTime'[frame'.core] = e.time
    BY <1>2, <2>1, <2>2
  <2> QED BY <1>1, <2>1, <2>3, <2>4, <2>5 DEF ClockInv, here
<1>4. ASSUME UpdateSynapse
      PROVE  ClockInv'
  <2>1. /\ pc = "event" /\ frame.time = current /\ coreTime[here] = current
        /\ lastOut' = lastOut \/ lastOut' = [lastOut EXCEPT ![here] = current]
        /\ \/ pc' = "host"
           \/ pc' = "event" /\ frame' = [frame EXCEPT !.position = @ + 1]
    BY <1>4, CrossedInOrder
  <2>2. UNCHANGED <<queue, current, coreTime, lastIn>>
    BY <1>4 DEF UpdateSynapse
  <2>3. \A c \in Cores : lastOut'[c] <= current
    BY <1>1, <1>2, <2>1 DEF ClockInv
  <2>4. pc' = "event" => frame'.time = frame.time /\ frame'.core = frame.core
    BY <1>2, <2>1
  <2> QED BY <1>1, <2>1, <2>2, <2>3, <2>4 DEF ClockInv, here
<1>5. ASSUME RouteSpike
      PROVE  ClockInv'
  <2> DEFINE spike == Head(output[here])
             new == Entries(here, spike.neuron, spike.time)
  <2>1. /\ pc = "drain" /\ spike \in Spike(here)
        /\ \/ pc' = "host"
           \/ UNCHANGED <<pc, frame>>
        /\ \/ queue' = queue
           \/ /\ ~(Arrival(here, spike.neuron, 1, spike.time) < current)
              /\ queue' = queue \cup new
    BY <1>5, RouteOutcome
  <2>2. UNCHANGED <<current, coreTime, lastIn, lastOut>>
    BY <1>5 DEF RouteSpike, clocks
  <2>3. \A e \in queue' : e.time >= current
    <3>1. spike.neuron \in 1 .. network.neurons[here] /\ spike.time \in Nat
      BY <2>1 DEF Spike
    <3> DEFINE first == Arrival(here, spike.neuron, 1, spike.time)
    <3>2. /\ \A e \in new : e.time \in Nat /\ e.time >= first
          /\ first >= spike.time
      BY <1>1, <3>1, EntriesTyped
    <3>3. first \in Nat
      <4>1. settings.local \in Nat /\ settings.gap \in Nat
        BY DEF TypeInv
      <4> QED BY <3>1, <4>1 DEF Arrival
    <3> HIDE DEF first
    <3>4. ~(first < current) => \A e \in new : e.time >= current
      BY <1>1, <3>2, <3>3
    <3>5. \A e \in queue : e.time >= current
      BY DEF ClockInv
    <3> QED BY <2>1, <3>4, <3>5 DEF first
  <2> QED BY <1>1, <2>1, <2>2, <2>3 DEF ClockInv, here
<1>6. ASSUME FinishEvent
      PROVE  ClockInv'
  BY <1>1, <1>6 DEF ClockInv, FinishEvent, clocks, here
<1>7. ASSUME NEW c \in Cores, NEW a, NEW time, Inject(c, a, time)
      PROVE  ClockInv'
  <2>1. /\ queue' = queue \cup {[time |-> time, core |-> c, axon |-> a,
                                 number |-> sequence + 1, packet |-> FALSE]}
        /\ time >= current /\ pc = "host" /\ UNCHANGED <<pc, frame, clocks>>
    BY <1>7 DEF Inject
  <2> QED BY <1>1, <2>1 DEF ClockInv, clocks, here
<1>8. ASSUME \/ FinishDelivery \/ EndRun \/ BeginReward \/ RewardSynapse \/ FinishReward
             \/ (\E limit, raises : StartRun(limit, raises))
             \/ (\E first, last, value, time : StartReward(first, last, value, time))
      PROVE  ClockInv'
  <2>1. UNCHANGED <<queue, current, lastIn, lastOut>> /\ pc' \in {"host", "run", "reward"}
    BY <1>8 DEF FinishDelivery, EndRun, BeginReward, RewardSynapse, FinishReward, StartRun,
                StartReward, Return, Raise, clocks
  <2> QED BY <1>1, <2>1 DEF ClockInv
<1>9. CASE UNCHANGED vars
  BY <1>1, <1>9 DEF ClockInv, vars, clocks, here
<1> QED BY <1>3, <1>4, <1>5, <1>6, <1>7, <1>8, <1>9 DEF Next, Working, HostCall
-----------------------------------------------------------------------------
(* Rewards. *)

\* Unless some reward was dated ahead, no synapse was updated after the time of the
\* reward that is being applied.
LEMMA RewardNotStale ==
    ASSUME TypeInv, RewardInv, RewardSynapse, Stale(config, synapses[here][position], frame.time)
    PROVE  ahead
<1>1. here \in Cores /\ frame.time \in Nat /\ position \in Nat
  BY DEF TypeInv, FrameInv, here, position
<1>2. position \in DOMAIN synapses[here] /\ position >= 1
  <2>1. synapses[here] \in [DOMAIN network.synapses[here] -> Synapse(network.neurons[here])]
    BY <1>1 DEF TypeInv, MemoriesInRange
  <2>2. settings.network \in DOMAIN Networks
    BY DEF TypeInv
  <2>3. network.synapses[here] \in Seq([target : 1 .. network.neurons[here],
                                        weight : WMin .. WMax, plastic : BOOLEAN])
    BY <1>1, <2>2, NetworkShape
  <2>4. position \in 1 .. Len(network.synapses[here])
    BY DEF RewardSynapse
  <2>5. position \in DOMAIN network.synapses[here]
    BY <2>3, <2>4
  <2> QED BY <1>1, <2>1, <2>4, <2>5
<1>3. Rewarding(here)
  BY <1>2 DEF Rewarding, RewardSynapse, Stale, Learns
<1>4. coreTime[here] <= frame.time /\ coreTime[here] \in Nat
  BY <1>1, <1>3 DEF RewardInv, TypeInv
<1>5. synapses[here][position].last \in Nat
  BY <1>1, <1>2 DEF TypeInv, MemoriesInRange, Synapse
<1>6. frame.time < synapses[here][position].last
  BY DEF Stale
<1>7. CASE ~ahead
  <2>1. \/ synapses[here][position].last <= coreTime[here]
        \/ synapses[here][position].last <= frame.time
    BY <1>1, <1>2, <1>7 DEF RewardInv
  <2> DEFINE last == synapses[here][position].last
  <2> HIDE DEF last
  <2> QED BY <1>1, <1>4, <1>5, <1>6, <2>1 DEF last
<1> QED BY <1>7

\* A reward dated with the clock is never too early for a core.
LEMMA RewardNotEarly ==
    ASSUME TypeInv, RewardInv, BeginReward, TooEarly(here, frame.time)
    PROVE  misdated
<1>1. here \in Cores /\ frame.time \in Nat /\ coreTime[here] \in Nat /\ current \in Nat
  BY DEF TypeInv, FrameInv, here
<1>2. CASE ~misdated
  <2>1. frame.time = current /\ coreTime[here] <= current
    BY <1>1, <1>2 DEF RewardInv, BeginReward
  <2> QED BY <1>1, <2>1 DEF TooEarly
<1> QED BY <1>2

\* The clocks of the cores and of the synapses, and the rewards handed out, as the
\* actions keep them that neither deliver, cross a synapse nor reward.
LEMMA RewardUntouched ==
    ASSUME RewardInv, settings' = settings,
           UNCHANGED <<coreTime, synapses, current, given, taken, ahead, misdated>>,
           pc # "reward", pc' # "reward"
    PROVE  RewardInv'
<1>1. Cores' = Cores
  BY NetworkStays
<1>2. \A c : ~Rewarding(c) /\ ~Rewarding(c)'
  BY DEF Rewarding
<1> QED BY <1>1, <1>2 DEF RewardInv

\* A reward begins.
LEMMA StartRewardStep ==
    ASSUME TypeInv, RewardInv, NEW first, NEW last, NEW value, NEW time \in Nat,
           StartReward(first, last, value, time)
    PROVE  RewardInv'
<1>1. /\ settings' = settings /\ pc = "host" /\ pc' = "reward"
      /\ frame' = [Idle EXCEPT !.core = first, !.final = last, !.value = value, !.time = time]
      /\ given' = [c \in Cores |-> given[c] + (IF first <= c /\ c <= last THEN 1 ELSE 0)]
      /\ ahead' = (ahead \/ time > current)
      /\ misdated' = (misdated \/ time # current)
      /\ UNCHANGED <<coreTime, synapses, current, taken>>
  BY DEF StartReward, clocks
<1>2. Cores' = Cores /\ current \in Nat
  BY <1>1, NetworkStays DEF TypeInv
<1>3. frame'.core = first /\ frame'.final = last /\ frame'.time = time /\ frame'.position = 0
  BY <1>1 DEF Idle
<1>4. \A c : ~Rewarding(c) /\ ~Rewarding(c)'
  BY <1>1, <1>3 DEF Rewarding, position
<1>5. ahead' => misdated'
  <2>1. time > current => time # current
    BY <1>2
  <2> QED BY <1>1, <2>1, Zenon DEF RewardInv
<1>6. ASSUME ~ahead'
      PROVE  /\ \A c \in Cores' : coreTime'[c] <= current'
             /\ pc' = "reward" => frame'.time <= current'
             /\ \A c \in Cores' : \A i \in DOMAIN synapses'[c] :
                   synapses'[c][i].last <= coreTime'[c]
  <2>1. ~ahead /\ ~(time > current)
    BY <1>1, <1>6, Zenon
  <2>2. time <= current
    BY <1>2, <2>1
  <2> QED BY <1>1, <1>2, <1>3, <1>4, <2>1, <2>2 DEF RewardInv
<1>7. ASSUME ~misdated'
      PROVE  /\ pc' = "reward" => frame'.time = current'
             /\ \A c \in Cores' :
                   given'[c] = taken'[c] + (IF pc' = "reward" /\ frame'.core <= c /\ c <= frame'.final
                                            THEN 1 ELSE 0)
  <2>1. ~misdated /\ time = current
    BY <1>1, <1>7, Zenon
  <2>2. \A c \in Cores : given[c] = taken[c] /\ taken[c] \in Nat
    BY <1>1, <2>1 DEF RewardInv, TypeInv
  <2> QED BY <1>1, <1>2, <1>3, <2>1, <2>2
<1> QED BY <1>4, <1>5, <1>6, <1>7 DEF RewardInv, here
\* A delivery moves the clock of its core to the system clock.
LEMMA DeliverKeepsRewards ==
    ASSUME TypeInv, ClockInv, RewardInv, NEW e \in queue, Deliver(e)
    PROVE  RewardInv'
<1>1. /\ pc = "run" /\ pc' = "event" /\ current' = e.time
      /\ coreTime' = [coreTime EXCEPT ![e.core] = e.time]
      /\ UNCHANGED <<settings, synapses, given, taken, ahead, misdated>>
  BY DeliverAccepted DEF Deliver, host
<1>2. Cores' = Cores /\ coreTime \in [Cores -> Nat] /\ current \in Nat /\ e.time \in Nat
      /\ e.core \in Cores /\ current <= e.time
  BY <1>1, NetworkStays, EntryTyped DEF TypeInv, ClockInv
<1>3. \A c : ~Rewarding(c) /\ ~Rewarding(c)'
  BY <1>1 DEF Rewarding
<1>4. ASSUME ~ahead
      PROVE  /\ \A c \in Cores : coreTime'[c] <= e.time
             /\ \A c \in Cores : \A i \in DOMAIN synapses[c] :
                   synapses[c][i].last <= coreTime'[c]
  <2>1. \A c \in Cores : coreTime[c] <= current
    BY <1>4 DEF RewardInv
  <2>2. \A c \in Cores : coreTime[c] <= coreTime'[c] /\ coreTime'[c] <= e.time /\ coreTime'[c] \in Nat
    BY <1>1, <1>2, <2>1
  <2>3. ASSUME NEW c \in Cores, NEW i \in DOMAIN synapses[c]
        PROVE  synapses[c][i].last <= coreTime'[c]
    <3>1. synapses[c][i].last <= coreTime[c]
      BY <1>3, <1>4 DEF RewardInv
    <3>2. synapses[c][i].last \in Nat
      BY DEF TypeInv, MemoriesInRange, Synapse
    <3> DEFINE last == synapses[c][i].last
    <3> HIDE DEF last
    <3>3. last <= coreTime[c] /\ last \in Nat
      BY <3>1, <3>2 DEF last
    <3>4. last <= coreTime'[c]
      BY <1>2, <2>2, <3>3
    <3> QED BY <3>4 DEF last
  <2> QED BY <2>2, <2>3
<1> QED BY <1>1, <1>2, <1>3, <1>4 DEF RewardInv

\* A synapse that an event crosses is as old as its core.
LEMMA CrossingKeepsRewards ==
    ASSUME TypeInv, ClockInv, RewardInv, UpdateSynapse
    PROVE  RewardInv'
<1>1. /\ pc = "event" /\ pc' # "reward" /\ coreTime[here] = current /\ current \in Nat
      /\ UNCHANGED <<settings, current, coreTime, given, taken, ahead, misdated>>
  BY CrossedInOrder DEF UpdateSynapse, host, TypeInv
<1>2. Cores' = Cores /\ here \in Cores
  BY <1>1, NetworkStays DEF TypeInv, FrameInv, here
<1>3. \A c : ~Rewarding(c) /\ ~Rewarding(c)'
  BY <1>1 DEF Rewarding
<1> DEFINE new == Traced(config, Driven, Updated.spike, current)
<1>4. \/ synapses' = synapses
      \/ ~Stale(config, Driven, current) /\ synapses' = [synapses EXCEPT ![here][Address] = new]
  BY CrossedInOrder
<1>5. /\ config \in CoreConfig /\ network.neurons[here] \in Nat
      /\ Driven \in Synapse(network.neurons[here]) /\ Updated.spike \in BOOLEAN
      /\ Address \in DOMAIN network.synapses[here]
  BY CrossedSynapse
<1>6. ~Stale(config, Driven, current) => new.last = current \/ new.last = Driven.last
  BY <1>1, <1>5, TracedTyped
<1>7. DOMAIN synapses = Cores
      /\ \A c \in Cores : synapses[c] \in [DOMAIN network.synapses[c] -> Synapse(network.neurons[c])]
  BY DEF TypeInv, MemoriesInRange
<1> HIDE DEF new
<1>8. ASSUME ~ahead, NEW c \in Cores, NEW i \in DOMAIN synapses'[c]
      PROVE  synapses'[c][i].last <= coreTime[c]
  <2>1. \A d \in Cores : \A j \in DOMAIN synapses[d] : synapses[d][j].last <= coreTime[d]
    BY <1>3, <1>8 DEF RewardInv
  <2>2. CASE synapses' = synapses
    BY <1>8, <2>1, <2>2
  <2>3. CASE /\ ~Stale(config, Driven, current)
             /\ synapses' = [synapses EXCEPT ![here][Address] = new]
    <3>1. DOMAIN synapses'[c] = DOMAIN synapses[c]
      BY <1>2, <1>5, <1>7, <2>3
    <3>2. CASE c = here /\ i = Address
      <4>1. synapses'[c][i] = new
        BY <1>2, <1>5, <1>7, <2>3, <3>2
      <4>2. Driven.last <= coreTime[here]
        BY <1>2, <1>5, <1>7, <2>1 DEF Driven
      <4>3. current <= current
        BY <1>1
      <4> QED BY <1>1, <1>6, <2>3, <3>2, <4>1, <4>2, <4>3
    <3>3. CASE ~(c = here /\ i = Address)
      <4>1. synapses'[c][i] = synapses[c][i]
        BY <1>2, <1>5, <1>7, <1>8, <2>3, <3>1, <3>3
      <4> QED BY <1>8, <2>1, <3>1, <4>1
    <3> QED BY <3>2, <3>3
  <2> QED BY <1>4, <2>2, <2>3
<1> QED BY <1>1, <1>2, <1>3, <1>8 DEF RewardInv

\* A core is asked for a reward: it refuses one before its own time.
LEMMA BeginKeepsRewards ==
    ASSUME TypeInv, RewardInv, BeginReward
    PROVE  RewardInv'
<1>1. /\ pc = "reward" /\ position = 0
      /\ UNCHANGED <<settings, current, coreTime, synapses, given, taken, ahead, misdated>>
  BY DEF BeginReward, clocks, host
<1>2. Cores' = Cores /\ network' = network /\ here \in Cores /\ frame.time \in Nat
      /\ coreTime \in [Cores -> Nat]
  BY <1>1, NetworkStays DEF TypeInv, FrameInv, here
<1>3. \A c : ~Rewarding(c)
  BY <1>1 DEF Rewarding
<1>4. CASE config.learning /\ TooEarly(here, frame.time)
  <2>1. misdated
    BY <1>4, RewardNotEarly
  <2>2. pc' = "host"
    BY <1>4 DEF BeginReward, Raise
  <2>3. \A c : ~Rewarding(c)'
    BY <2>2 DEF Rewarding
  <2> QED BY <1>1, <1>2, <1>3, <2>1, <2>2, <2>3 DEF RewardInv
<1>5. CASE ~(config.learning /\ TooEarly(here, frame.time))
  <2>1. pc' = "reward" /\ \E n : frame' = [frame EXCEPT !.position = n]
    BY <1>1, <1>5 DEF BeginReward
  <2>2. frame'.core = frame.core /\ frame'.time = frame.time /\ frame'.final = frame.final
    BY <2>1 DEF TypeInv, FrameInv
  <2>3. \A c \in Cores : Rewarding(c)' => coreTime[c] <= frame.time
    <3> SUFFICES ASSUME NEW c \in Cores, Rewarding(c)' PROVE coreTime[c] <= frame.time
      OBVIOUS
    <3>1. c = here /\ config.learning
      BY <1>2, <2>2 DEF Rewarding, here, config
    <3>2. ~TooEarly(here, frame.time)
      BY <1>5, <3>1
    <3>3. coreTime[here] \in Nat
      BY <1>2
    <3> QED BY <1>2, <3>1, <3>2, <3>3 DEF TooEarly
  <2> QED BY <1>1, <1>2, <1>3, <2>1, <2>2, <2>3 DEF RewardInv, here
<1> QED BY <1>4, <1>5
\* A synapse that is rewarded is as old as the reward.
LEMMA LearningKeepsRewards ==
    ASSUME TypeInv, RewardInv, RewardSynapse
    PROVE  RewardInv'
<1> DEFINE s == synapses[here][position]
           new == Rewarded(config, s, frame.value, frame.time)
<1>1. /\ pc = "reward" /\ position \in 1 .. Len(network.synapses[here])
      /\ UNCHANGED <<settings, current, coreTime, given, taken, ahead, misdated>>
  BY DEF RewardSynapse, clocks, host
<1>2. Cores' = Cores /\ network' = network /\ here \in Cores /\ frame.time \in Nat
      /\ frame.value \in Int /\ position \in Nat /\ settings.network \in DOMAIN Networks
  BY <1>1, NetworkStays DEF TypeInv, FrameInv, here, position
<1>3. DOMAIN synapses = Cores
      /\ \A c \in Cores : synapses[c] \in [DOMAIN network.synapses[c] -> Synapse(network.neurons[c])]
  BY DEF TypeInv, MemoriesInRange
<1>4. position \in DOMAIN network.synapses[here] /\ config \in CoreConfig
      /\ network.neurons[here] \in Nat
  <2>1. network.synapses[here] \in Seq([target : 1 .. network.neurons[here],
                                        weight : WMin .. WMax, plastic : BOOLEAN])
    BY <1>2, NetworkShape
  <2>2. position \in DOMAIN network.synapses[here]
    BY <1>1, <2>1
  <2> QED BY <1>2, <2>2, NetworkShape DEF config
<1>5. s \in Synapse(network.neurons[here])
  BY <1>2, <1>3, <1>4
<1>6. CASE Stale(config, s, frame.time)
  <2>1. ahead /\ misdated
    BY <1>6, RewardNotStale DEF RewardInv
  <2>2. pc' = "host"
    BY <1>6 DEF RewardSynapse, Raise
  <2>3. \A c : ~Rewarding(c)'
    BY <2>2 DEF Rewarding
  <2> QED BY <1>1, <1>2, <2>1, <2>2, <2>3 DEF RewardInv
<1>7. CASE ~Stale(config, s, frame.time)
  <2>1. /\ pc' = "reward" /\ frame' = [frame EXCEPT !.position = @ + 1]
        /\ synapses' = [synapses EXCEPT ![here][position] = new]
    BY <1>1, <1>7 DEF RewardSynapse
  <2>2. frame'.core = frame.core /\ frame'.time = frame.time /\ frame'.final = frame.final
        /\ frame'.position = position + 1
    BY <2>1 DEF TypeInv, FrameInv, position
  <2>3. \A c : Rewarding(c)' <=> Rewarding(c)
    <3>1. position >= 1 /\ position + 1 >= 1
      BY <1>1
    <3> QED BY <1>1, <1>2, <2>1, <2>2, <3>1 DEF Rewarding, here, position, config
  <2>4. new.last = IF Learns(config, s) THEN frame.time ELSE s.last
    <3> HIDE DEF s
    <3> QED BY <1>2, <1>4, <1>5, <1>7, RewardedTyped
  <2> HIDE DEF new, s
  <2>5. Learns(config, s) => Rewarding(here)
    <3>1. position >= 1
      BY <1>1
    <3> QED BY <1>1, <3>1 DEF Rewarding, Learns
  <2>6. ASSUME ~ahead, NEW c \in Cores, NEW i \in DOMAIN synapses'[c]
        PROVE  \/ synapses'[c][i].last <= coreTime[c]
               \/ Rewarding(c) /\ synapses'[c][i].last <= frame.time
    <3>1. DOMAIN synapses'[c] = DOMAIN synapses[c]
      BY <1>2, <1>3, <1>4, <2>1
    <3>2. \/ synapses[c][i].last <= coreTime[c]
          \/ Rewarding(c) /\ synapses[c][i].last <= frame.time
      BY <2>6, <3>1 DEF RewardInv
    <3>3. CASE c = here /\ i = position
      <4>1. synapses'[c][i] = new /\ synapses[c][i] = s
        BY <1>2, <1>3, <1>4, <2>1, <3>3 DEF s
      <4>2. frame.time <= frame.time
        BY <1>2
      <4> QED BY <2>4, <2>5, <3>2, <3>3, <4>1, <4>2
    <3>4. CASE ~(c = here /\ i = position)
      <4>1. synapses'[c][i] = synapses[c][i]
        BY <1>2, <1>3, <1>4, <2>1, <2>6, <3>1, <3>4
      <4> QED BY <3>2, <4>1
    <3> QED BY <3>3, <3>4
  <2> QED BY <1>1, <1>2, <2>1, <2>2, <2>3, <2>6 DEF RewardInv, here
<1> QED BY <1>6, <1>7

\* A rewarded core is at the time of the reward, and the next one gets its turn.
LEMMA FinishKeepsRewards ==
    ASSUME TypeInv, RewardInv, FinishReward
    PROVE  RewardInv'
<1>1. /\ pc = "reward" /\ position > Len(network.synapses[here])
      /\ coreTime' = (IF config.learning THEN [coreTime EXCEPT ![here] = frame.time] ELSE coreTime)
      /\ taken' = [taken EXCEPT ![here] = @ + 1]
      /\ \/ here = frame.final /\ pc' = "host"
         \/ here # frame.final /\ pc' = "reward" /\ frame' = [frame EXCEPT !.core = @ + 1, !.position = 0]
      /\ UNCHANGED <<settings, current, synapses, given, ahead, misdated>>
  BY DEF FinishReward, Return, host
<1>2. /\ Cores' = Cores /\ here \in Cores /\ frame.time \in Nat /\ frame.final \in Cores
      /\ here <= frame.final /\ current \in Nat
      /\ coreTime \in [Cores -> Nat] /\ taken \in [Cores -> Nat] /\ given \in [Cores -> Nat]
      /\ settings.network \in DOMAIN Networks
  BY <1>1, NetworkStays DEF TypeInv, FrameInv, here
<1>3. Cores = 1 .. Len(network.neurons) /\ Len(network.neurons) \in Nat
  BY <1>2, NetworkShape
<1>4. position >= 1 /\ position \in Nat
  <2>1. network.synapses[here] \in Seq([target : 1 .. network.neurons[here],
                                        weight : WMin .. WMax, plastic : BOOLEAN])
    BY <1>2, NetworkShape
  <2>2. Len(network.synapses[here]) \in Nat
    BY <2>1
  <2>3. position \in Nat
    BY DEF TypeInv, FrameInv, position
  <2> QED BY <1>1, <2>2, <2>3
<1>5. \A c : ~Rewarding(c)'
  <2>1. CASE pc' = "host"
    BY <2>1 DEF Rewarding
  <2>2. CASE frame' = [frame EXCEPT !.core = @ + 1, !.position = 0]
    <3>1. frame'.position = 0
      BY <2>2 DEF TypeInv, FrameInv
    <3> QED BY <3>1 DEF Rewarding, position
  <2> QED BY <1>1, <2>1, <2>2
<1>6. config.learning => Rewarding(here)
  BY <1>1, <1>4 DEF Rewarding
<1>7. pc' = "reward" => frame'.core = here + 1 /\ frame'.time = frame.time /\ frame'.final = frame.final
  BY <1>1 DEF TypeInv, FrameInv, here
<1>8. ASSUME ~ahead
      PROVE  /\ \A c \in Cores : coreTime'[c] <= current
             /\ \A c \in Cores : \A i \in DOMAIN synapses[c] : synapses[c][i].last <= coreTime'[c]
  <2>1. frame.time <= current /\ \A c \in Cores : coreTime[c] <= current
    BY <1>1, <1>8 DEF RewardInv
  <2>2. \A c \in Cores : coreTime'[c] <= current
    BY <1>1, <1>2, <2>1
  <2>3. ASSUME NEW c \in Cores, NEW i \in DOMAIN synapses[c]
        PROVE  synapses[c][i].last <= coreTime'[c]
    <3>1. \/ synapses[c][i].last <= coreTime[c]
          \/ Rewarding(c) /\ synapses[c][i].last <= frame.time
      BY <1>8 DEF RewardInv
    <3> DEFINE last == synapses[c][i].last
    <3>2. last \in Nat
      BY DEF TypeInv, MemoriesInRange, Synapse
    <3> HIDE DEF last
    <3>3. CASE ~(config.learning /\ c = here)
      <4>1. coreTime'[c] = coreTime[c] /\ ~Rewarding(c)
        BY <1>1, <1>2, <3>3 DEF Rewarding
      <4> QED BY <3>1, <4>1 DEF last
    <3>4. CASE config.learning /\ c = here
      <4>1. coreTime'[c] = frame.time /\ coreTime[c] <= frame.time
        BY <1>1, <1>2, <1>6, <3>4 DEF RewardInv
      <4>2. last <= frame.time
        BY <1>2, <3>1, <3>2, <4>1 DEF last
      <4> QED BY <4>1, <4>2 DEF last
    <3> QED BY <3>3, <3>4
  <2> QED BY <2>2, <2>3
<1>9. ASSUME ~misdated, NEW c \in Cores
      PROVE  given[c] = taken'[c] + (IF pc' = "reward" /\ frame'.core <= c /\ c <= frame'.final
                                     THEN 1 ELSE 0)
  <2>1. given[c] = taken[c] + (IF here <= c /\ c <= frame.final THEN 1 ELSE 0)
    BY <1>1, <1>9 DEF RewardInv
  <2>2. c \in Nat /\ here \in Nat /\ frame.final \in Nat /\ taken[c] \in Nat
    <3>1. \A d \in Cores : d \in Nat
      BY <1>3
    <3> QED BY <1>2, <3>1
  <2>3. CASE c = here
    <3>1. taken'[c] = taken[c] + 1
      BY <1>1, <1>2, <2>3
    <3>2. given[c] = taken[c] + 1
      BY <1>2, <2>1, <2>2, <2>3
    <3>3. ~(pc' = "reward" /\ frame'.core <= c /\ c <= frame'.final)
      BY <1>7, <2>2, <2>3
    <3> QED BY <2>2, <3>1, <3>2, <3>3
  <2>4. CASE c # here
    <3>1. taken'[c] = taken[c]
      BY <1>1, <1>2, <2>4
    <3>2. (here <= c /\ c <= frame.final) <=> (pc' = "reward" /\ frame'.core <= c /\ c <= frame'.final)
      <4>1. CASE pc' = "reward"
        <5>1. frame'.core = here + 1 /\ frame'.final = frame.final
          BY <1>7, <4>1
        <5>2. here <= c <=> here + 1 <= c
          BY <2>2, <2>4
        <5> QED BY <4>1, <5>1, <5>2
      <4>2. CASE pc' = "host"
        <5>1. here = frame.final
          BY <1>1, <4>2
        <5>2. ~(here <= c /\ c <= frame.final)
          BY <2>2, <2>4, <5>1
        <5> QED BY <4>2, <5>2
      <4> QED BY <1>1, <4>1, <4>2
    <3> QED BY <2>1, <3>1, <3>2
  <2> QED BY <2>3, <2>4
<1>10. ~ahead /\ pc' = "reward" => frame'.time <= current
  BY <1>1, <1>7 DEF RewardInv
<1>11. ~misdated /\ pc' = "reward" => frame'.time = current
  BY <1>1, <1>7 DEF RewardInv
<1> QED BY <1>1, <1>2, <1>5, <1>8, <1>9, <1>10, <1>11 DEF RewardInv, here

\* Every step keeps what is known of the rewards.
LEMMA RewardStep == ASSUME TypeInv, ClockInv, RewardInv, [Next]_vars PROVE RewardInv'
<1>1. settings' = settings /\ Cores' = Cores /\ network' = network
  BY NetworkStays, SettingsStay
<1>2. CASE \/ FinishEvent \/ RouteSpike \/ FinishDelivery \/ EndRun
           \/ (\E c, a, time : Inject(c, a, time))
           \/ (\E limit, raises : StartRun(limit, raises))
  <2>1. /\ UNCHANGED <<coreTime, synapses, current, given, taken, ahead, misdated>>
        /\ pc # "reward" /\ pc' # "reward"
    BY <1>2 DEF FinishEvent, RouteSpike, FinishDelivery, EndRun, Inject, StartRun, Return, Raise,
                clocks, host
  <2> QED BY <1>1, <2>1, RewardUntouched
<1>3. CASE \E value \in Rewards, t \in {current} \cup 0 .. network.time :
             \/ StartReward(1, Len(network.neurons), value, t)
             \/ \E c \in Cores : StartReward(c, c, value, t)
  <2>1. PICK value \in Rewards, t \in {current} \cup 0 .. network.time :
              \/ StartReward(1, Len(network.neurons), value, t)
              \/ \E c \in Cores : StartReward(c, c, value, t)
    BY <1>3
  <2>2. t \in Nat
    BY DEF TypeInv
  <2> QED BY <2>1, <2>2, StartRewardStep
<1>4. CASE UNCHANGED vars
  BY <1>1, <1>4 DEF vars, clocks, host, RewardInv, Rewarding, here, position, config
<1> QED BY <1>2, <1>3, <1>4, DeliverKeepsRewards, CrossingKeepsRewards, BeginKeepsRewards,
           LearningKeepsRewards, FinishKeepsRewards DEF Next, Working, HostCall
-----------------------------------------------------------------------------
(* Spikes and exceptions. *)

\* A spike waits only in the call that made it, with the time of that call.
LEMMA SpikeStep == ASSUME TypeInv, ClockInv, SpikeInv, [Next]_vars PROVE SpikeInv'
<1>1. Cores' = Cores /\ here \in Cores
  BY NetworkStays, SettingsStay DEF TypeInv, FrameInv, here
<1>2. DOMAIN output = Cores /\ \A c \in Cores : output[c] \in Seq(Spike(c))
  BY DEF TypeInv
<1>3. frame \in [core : Cores, position : Nat, axon : Nat, time : Nat, left : Int,
                 raises : BOOLEAN, value : Int, final : Cores]
  BY DEF TypeInv, FrameInv
<1>4. errors \subseteq errors' => (Quiet' => Quiet)
  BY DEF Quiet
<1>5. ASSUME NEW e \in queue, Deliver(e)
      PROVE  SpikeInv'
  <2>1. pc = "run" /\ output' = output /\ errors' = errors
    BY <1>5, DeliverAccepted DEF Deliver
  <2>2. Quiet => \A c \in Cores : DOMAIN output[c] = {}
    BY <2>1 DEF SpikeInv
  <2> QED BY <1>1, <1>4, <2>1, <2>2 DEF SpikeInv
<1>6. ASSUME UpdateSynapse
      PROVE  SpikeInv'
  <2>1. /\ pc = "event" /\ current' = current
        /\ \/ output' = output
           \/ output' = [output EXCEPT ![here] =
                           Append(@, [neuron |-> Driven.target, time |-> current])]
        /\ \/ errors' = errors \cup {"elapsed"}
           \/ pc' = "event" /\ errors' = errors /\ frame' = [frame EXCEPT !.position = @ + 1]
    BY <1>6, CrossedInOrder DEF UpdateSynapse
  <2>2. CASE errors' = errors \cup {"elapsed"}
    BY <2>2 DEF SpikeInv, Quiet
  <2>3. CASE pc' = "event" /\ errors' = errors /\ frame' = [frame EXCEPT !.position = @ + 1]
    <3>1. frame'.core = frame.core
      BY <1>3, <2>3
    <3>2. ASSUME Quiet, NEW c \in Cores, NEW i \in DOMAIN output'[c]
          PROVE  here = c /\ output'[c][i].time = current
      <4>1. CASE i \in DOMAIN output[c] /\ output'[c][i] = output[c][i]
        BY <3>2, <4>1 DEF SpikeInv
      <4>2. CASE c = here /\ output'[c][i] = [neuron |-> Driven.target, time |-> current]
        BY <4>2
      <4>3. \/ i \in DOMAIN output[c] /\ output'[c][i] = output[c][i]
            \/ c = here /\ output'[c][i] = [neuron |-> Driven.target, time |-> current]
        <5> DEFINE new == [neuron |-> Driven.target, time |-> current]
        <5> HIDE DEF new
        <5>1. output' = output \/ output' = [output EXCEPT ![here] = Append(@, new)]
          BY <2>1 DEF new
        <5>2. CASE c = here /\ output' # output
          <6>1. output'[c] = Append(output[c], new) /\ output[c] \in Seq(Spike(c))
            BY <1>1, <1>2, <5>1, <5>2
          <6>2. i \in 1 .. Len(output[c]) + 1 /\ Len(output[c]) \in Nat
            BY <3>2, <6>1
          <6>3. CASE i \in 1 .. Len(output[c])
            BY <6>1, <6>3
          <6>4. CASE i = Len(output[c]) + 1
            BY <5>2, <6>1, <6>4 DEF new
          <6> QED BY <6>2, <6>3, <6>4
        <5>3. CASE ~(c = here /\ output' # output)
          <6>1. output'[c] = output[c]
            BY <1>1, <1>2, <5>1, <5>3
          <6> QED BY <3>2, <6>1
        <5> QED BY <5>2, <5>3
      <4> QED BY <4>1, <4>2, <4>3
    <3> QED BY <1>1, <1>4, <2>1, <2>3, <3>1, <3>2 DEF SpikeInv, here
  <2> QED BY <2>1, <2>2, <2>3
<1>7. ASSUME RouteSpike
      PROVE  SpikeInv'
  <2>1. /\ pc = "drain" /\ current' = current /\ output' = [output EXCEPT ![here] = Tail(@)]
        /\ output[here] # <<>>
        /\ \/ errors' \cap {"elapsed", "route", "past"} # {}
           \/ UNCHANGED <<pc, frame, errors>>
    BY <1>7, RouteOutcome DEF RouteSpike, clocks
  <2>2. CASE errors' \cap {"elapsed", "route", "past"} # {}
    BY <2>2 DEF SpikeInv, Quiet
  <2>3. CASE UNCHANGED <<pc, frame, errors>>
    <3>1. ASSUME NEW c \in Cores, NEW i \in DOMAIN output'[c]
          PROVE  \E j \in DOMAIN output[c] : output'[c][i] = output[c][j]
      <4>1. CASE c = here
        <5>1. output'[c] = Tail(output[c]) /\ output[c] \in Seq(Spike(c)) /\ output[c] # <<>>
          BY <1>1, <1>2, <2>1, <4>1
        <5>2. i + 1 \in DOMAIN output[c] /\ output'[c][i] = output[c][i + 1]
          BY <3>1, <5>1
        <5> QED BY <5>2
      <4>2. CASE c # here
        <5>1. output'[c] = output[c]
          BY <1>1, <1>2, <2>1, <4>2
        <5> QED BY <3>1, <5>1
      <4> QED BY <4>1, <4>2
    <3> QED BY <1>1, <1>4, <2>1, <2>3, <3>1 DEF SpikeInv, here
  <2> QED BY <2>1, <2>2, <2>3
<1>8. ASSUME FinishEvent
      PROVE  SpikeInv'
  BY <1>1, <1>4, <1>8 DEF FinishEvent, SpikeInv, clocks, here
<1>9. ASSUME FinishDelivery
      PROVE  SpikeInv'
  <2>1. output' = output /\ current' = current /\ errors' = errors /\ output[here] = <<>>
    BY <1>9 DEF FinishDelivery, clocks, Drained
  <2>2. Quiet => \A c \in Cores : DOMAIN output[c] = {}
    <3> SUFFICES ASSUME Quiet, NEW c \in Cores PROVE DOMAIN output[c] = {}
      OBVIOUS
    <3>1. CASE c = here
      BY <2>1, <3>1
    <3>2. CASE c # here
      BY <3>2 DEF SpikeInv
    <3> QED BY <3>1, <3>2
  <2> QED BY <1>1, <1>4, <2>1, <2>2 DEF SpikeInv
<1>10. ASSUME \/ EndRun \/ BeginReward \/ RewardSynapse \/ FinishReward
              \/ (\E c, a, time : Inject(c, a, time))
              \/ (\E limit, raises : StartRun(limit, raises))
              \/ (\E first, last, value, time : StartReward(first, last, value, time))
       PROVE  SpikeInv'
  <2>1. /\ output' = output /\ pc \notin {"event", "drain"} /\ errors \subseteq errors'
    BY <1>10 DEF EndRun, BeginReward, RewardSynapse, FinishReward, Inject, StartRun, StartReward,
                 Return, Raise
  <2>2. Quiet => \A c \in Cores : DOMAIN output[c] = {}
    BY <2>1 DEF SpikeInv
  <2> QED BY <1>1, <1>4, <2>1, <2>2 DEF SpikeInv
<1>11. CASE UNCHANGED vars
  BY <1>1, <1>4, <1>11 DEF SpikeInv, vars, clocks, here
<1> QED BY <1>5, <1>6, <1>7, <1>8, <1>9, <1>10, <1>11 DEF Next, Working, HostCall
\* Unless some reward was dated ahead, no synapse was updated after the system clock.
LEMMA CrossedNotStale ==
    ASSUME TypeInv, ClockInv, RewardInv, UpdateSynapse, Stale(config, Driven, current)
    PROVE  ahead
<1>1. here \in Cores /\ Address \in DOMAIN network.synapses[here]
      /\ Driven \in Synapse(network.neurons[here])
  BY CrossedSynapse
<1>2. pc = "event" /\ coreTime[here] = current /\ current \in Nat
  BY CrossedInOrder DEF TypeInv
<1>3. ~Rewarding(here)
  BY <1>2 DEF Rewarding
<1>4. Address \in DOMAIN synapses[here]
  BY <1>1 DEF TypeInv, MemoriesInRange
<1>5. ~ahead => Driven.last <= current
  BY <1>1, <1>2, <1>3, <1>4 DEF RewardInv, Driven
<1>6. current < Driven.last /\ Driven.last \in Nat
  BY <1>1 DEF Stale, Synapse
<1> QED BY <1>2, <1>5, <1>6

\* A spike that no exception has delayed is not routed into the past.
LEMMA RoutedNotLate ==
    ASSUME TypeInv, SpikeInv, RouteSpike,
           Arrival(here, Head(output[here]).neuron, 1, Head(output[here]).time) < current
    PROVE  ~Quiet
<1> DEFINE spike == Head(output[here])
<1>1. here \in Cores /\ spike \in Spike(here) /\ output[here] # <<>> /\ output[here] \in Seq(Spike(here))
  BY RouteOutcome DEF TypeInv
<1>2. spike = output[here][1] /\ 1 \in DOMAIN output[here]
  BY <1>1
<1>3. Quiet => spike.time = current
  BY <1>1, <1>2 DEF SpikeInv
<1>4. spike.neuron \in 1 .. network.neurons[here] /\ spike.time \in Nat
  BY <1>1 DEF Spike
<1>5. Arrival(here, spike.neuron, 1, spike.time) >= spike.time
  BY <1>1, <1>4, EntriesTyped
<1> DEFINE first == Arrival(here, spike.neuron, 1, spike.time)
<1>6. first \in Nat
  <2>1. settings.local \in Nat /\ settings.gap \in Nat
    BY DEF TypeInv
  <2> QED BY <1>4, <2>1 DEF Arrival
<1>7. first < current /\ first >= spike.time /\ current \in Nat
  BY <1>5 DEF TypeInv
<1> HIDE DEF first
<1> QED BY <1>3, <1>4, <1>6, <1>7

\* Every exception has its cause.
LEMMA ErrorsStep ==
    ASSUME TypeInv, ClockInv, RewardInv, SpikeInv, ErrorsExplained, [Next]_vars
    PROVE  ErrorsExplained'
<1>1. settings' = settings
  BY SettingsStay
<1>2. (ahead => ahead') /\ (misdated => misdated')
  <2>1. ASSUME NEW first, NEW last, NEW value, NEW time, StartReward(first, last, value, time)
        PROVE  (ahead => ahead') /\ (misdated => misdated')
    BY <2>1, Zenon DEF StartReward
  <2>2. CASE \E first, last, value, time : StartReward(first, last, value, time)
    BY <2>1, <2>2
  <2>3. CASE ~(\E first, last, value, time : StartReward(first, last, value, time))
    <3>1. Working \/ (\E c, a, t : Inject(c, a, t)) \/ (\E limit, raises : StartRun(limit, raises))
             \/ UNCHANGED vars
      BY <2>3, Zenon DEF Next, HostCall
    <3>2. UNCHANGED <<ahead, misdated>>
      BY <3>1 DEF Working, Deliver, UpdateSynapse, FinishEvent, RouteSpike, FinishDelivery, EndRun,
                  BeginReward, RewardSynapse, FinishReward, Inject, StartRun, vars, host
    <3> QED BY <3>2
  <2> QED BY <2>2, <2>3
<1>3. ASSUME errors' = errors
      PROVE  ErrorsExplained'
  BY <1>1, <1>2, <1>3 DEF ErrorsExplained
<1>4. ASSUME UpdateSynapse
      PROVE  ErrorsExplained'
  <2>1. \/ errors' = errors
        \/ Stale(config, Driven, current) /\ errors' = errors \cup {"elapsed"}
    BY <1>4, CrossedInOrder
  <2>2. CASE Stale(config, Driven, current) /\ errors' = errors \cup {"elapsed"}
    <3>1. ahead
      BY <1>4, <2>2, CrossedNotStale
    <3> QED BY <1>1, <1>2, <2>2, <3>1 DEF ErrorsExplained
  <2> QED BY <1>3, <2>1, <2>2
<1>5. ASSUME RouteSpike
      PROVE  ErrorsExplained'
  <2> DEFINE first == Arrival(here, Head(output[here]).neuron, 1, Head(output[here]).time)
  <2>1. \/ errors' = errors
        \/ settings.strict /\ errors' = errors \cup {"route"}
        \/ first < current /\ errors' = errors \cup {"past"}
    BY <1>5, RouteOutcome
  <2>2. CASE settings.strict /\ errors' = errors \cup {"route"}
    BY <1>1, <1>2, <2>2 DEF ErrorsExplained
  <2>3. CASE first < current /\ errors' = errors \cup {"past"}
    <3>1. ~Quiet
      BY <1>5, <2>3, RoutedNotLate
    <3>2. errors \cap {"elapsed", "route"} # {}
      BY <3>1 DEF Quiet, ErrorsExplained
    <3> QED BY <1>1, <1>2, <2>3, <3>2 DEF ErrorsExplained
  <2> QED BY <1>3, <2>1, <2>2, <2>3
<1>6. ASSUME EndRun
      PROVE  ErrorsExplained'
  <2>1. errors' = errors \/ errors' = errors \cup {"limit"}
    BY <1>6 DEF EndRun, Raise, Return
  <2> QED BY <1>1, <1>2, <2>1 DEF ErrorsExplained
<1>7. ASSUME BeginReward
      PROVE  ErrorsExplained'
  <2>1. \/ errors' = errors
        \/ TooEarly(here, frame.time) /\ errors' = errors \cup {"reward"}
    BY <1>7 DEF BeginReward, Raise
  <2>2. CASE TooEarly(here, frame.time) /\ errors' = errors \cup {"reward"}
    <3>1. misdated
      BY <1>7, <2>2, RewardNotEarly
    <3> QED BY <1>1, <1>2, <2>2, <3>1 DEF ErrorsExplained
  <2> QED BY <1>3, <2>1, <2>2
<1>8. ASSUME RewardSynapse
      PROVE  ErrorsExplained'
  <2>1. \/ errors' = errors
        \/ /\ Stale(config, synapses[here][position], frame.time)
           /\ errors' = errors \cup {"elapsed"}
    BY <1>8 DEF RewardSynapse, Raise
  <2>2. CASE /\ Stale(config, synapses[here][position], frame.time)
             /\ errors' = errors \cup {"elapsed"}
    <3>1. ahead
      BY <1>8, <2>2, RewardNotStale
    <3> QED BY <1>1, <1>2, <2>2, <3>1 DEF ErrorsExplained
  <2> QED BY <1>3, <2>1, <2>2
<1>9. ASSUME NEW e \in queue, Deliver(e)
      PROVE  ErrorsExplained'
  BY <1>3, <1>9, DeliverAccepted
<1>10. ASSUME \/ FinishEvent \/ FinishDelivery \/ FinishReward
              \/ (\E c, a, time : Inject(c, a, time))
              \/ (\E limit, raises : StartRun(limit, raises))
              \/ (\E first, last, value, time : StartReward(first, last, value, time))
              \/ UNCHANGED vars
       PROVE  ErrorsExplained'
  <2>1. errors' = errors
    BY <1>10 DEF FinishEvent, FinishDelivery, FinishReward, Inject, StartRun, StartReward,
                 Return, vars
  <2> QED BY <1>3, <2>1
<1> QED BY <1>4, <1>5, <1>6, <1>7, <1>8, <1>9, <1>10 DEF Next, Working, HostCall

-----------------------------------------------------------------------------
(* The specification. *)

\* The initial state satisfies the invariant.
LEMMA InitEvent == ASSUME Init PROVE EventInv
<1>0. PICK w \in DOMAIN Networks : \E d \in Networks[w].delays, strict \in Strict :
        settings = [network |-> w, local |-> d[1], gap |-> d[2], strict |-> strict]
  BY DEF Init
<1>1. PICK d \in Networks[w].delays, strict \in Strict :
        settings = [network |-> w, local |-> d[1], gap |-> d[2], strict |-> strict]
  BY <1>0
<1>2. settings.network = w /\ network = Networks[w] /\ settings.local = d[1] /\ settings.gap = d[2]
      /\ settings.strict = strict
  BY <1>1 DEF network
<1>3. /\ Cores = 1 .. Len(network.neurons) /\ Len(network.neurons) \in Nat /\ 1 \in Cores
      /\ \A c \in Cores :
            network.synapses[c] \in Seq([target : 1 .. network.neurons[c],
                                         weight : WMin .. WMax, plastic : BOOLEAN])
      /\ network.delays \subseteq Nat \X Nat
  BY <1>2, NetworkShape
<1>4. settings \in [network : DOMAIN Networks, local : Nat, gap : Nat, strict : BOOLEAN]
  <2>1. d[1] \in Nat /\ d[2] \in Nat
    BY <1>2, <1>3
  <2>2. strict \in BOOLEAN
    BY HostAssumption
  <2> QED BY <1>1, <2>1, <2>2
<1>5. HeapInv
  BY FS_EmptySet DEF Init, HeapInv
<1>6. MemoriesInRange
  <2>1. 0 \in VMin .. VMax
    BY NumberAssumption
  <2>2. DOMAIN voltage = Cores
        /\ \A c \in Cores : voltage[c] \in [1 .. network.neurons[c] -> VMin .. VMax]
    BY <2>1 DEF Init
  <2>3. DOMAIN synapses = Cores
    BY DEF Init
  <2>4. ASSUME NEW c \in Cores
        PROVE  synapses[c] \in [DOMAIN network.synapses[c] -> Synapse(network.neurons[c])]
    <3> DEFINE stored == network.synapses[c]
               start(i) == [target |-> stored[i].target, weight |-> stored[i].weight,
                            plastic |-> stored[i].plastic,
                            eligibility |-> 0, pre |-> 0, post |-> 0, last |-> 0]
    <3>1. synapses[c] = [i \in DOMAIN stored |-> start(i)]
      BY DEF Init
    <3>2. \A i \in DOMAIN stored : start(i) \in Synapse(network.neurons[c])
      <4>1. stored \in Seq([target : 1 .. network.neurons[c], weight : WMin .. WMax,
                            plastic : BOOLEAN])
        BY <1>3
      <4>2. ASSUME NEW i \in DOMAIN stored
            PROVE  /\ stored[i].target \in 1 .. network.neurons[c]
                   /\ stored[i].weight \in WMin .. WMax /\ stored[i].plastic \in BOOLEAN
        <5>1. stored[i] \in [target : 1 .. network.neurons[c], weight : WMin .. WMax,
                              plastic : BOOLEAN]
          <6> DEFINE Entry == [target : 1 .. network.neurons[c], weight : WMin .. WMax,
                               plastic : BOOLEAN]
          <6>1. stored \in Seq(Entry)
            BY <4>1
          <6> HIDE DEF stored, Entry
          <6>2. stored[i] \in Entry
            BY <6>1
          <6> QED BY <6>2 DEF Entry
        <5> QED BY <5>1
      <4> HIDE DEF stored
      <4> QED BY <4>2 DEF Synapse
    <3> HIDE DEF start
    <3> QED BY <3>1, <3>2
  <2> QED BY <2>2, <2>3, <2>4 DEF MemoriesInRange
<1>7. FrameInv
  BY <1>3 DEF Init, FrameInv, Idle
<1>8. TypeInv
  <2>1. counts \in CountsType
    BY DEF Init, CountsType
  <2>2. \A c \in Cores : output[c] \in Seq(Spike(c))
    BY DEF Init
  <2> QED BY <1>4, <1>5, <1>6, <1>7, <2>1, <2>2 DEF Init, TypeInv
<1>9. ClockInv
  BY DEF Init, ClockInv
<1>10. RewardInv
  <2>1. \A c \in Cores : ~Rewarding(c)
    BY DEF Init, Rewarding
  <2>2. \A c \in Cores : \A i \in DOMAIN synapses[c] : synapses[c][i].last = 0
    BY DEF Init
  <2>3. \A c \in Cores : coreTime[c] = 0 /\ given[c] = 0 /\ taken[c] = 0
    BY DEF Init
  <2> QED BY <2>1, <2>2, <2>3 DEF Init, RewardInv
<1>11. SpikeInv /\ ErrorsExplained
  BY DEF Init, SpikeInv, ErrorsExplained
<1> QED BY <1>8, <1>9, <1>10, <1>11 DEF EventInv

\* No step breaks the invariant.
LEMMA EventStep == ASSUME EventInv, [Next]_vars PROVE EventInv'
BY TypeStep, ClockStep, RewardStep, SpikeStep, ErrorsStep DEF EventInv

\* In every state of every run the invariant holds.
LEMMA EventInvariant == Spec => []EventInv
<1>1. Init => EventInv
  BY InitEvent
<1>2. EventInv /\ [Next]_vars => EventInv'
  BY EventStep
<1> QED BY <1>1, <1>2, PTL DEF Spec

\* Voltages and weights keep to the widths of the hardware, traces never become
\* negative, whatever the host and the learning rule do.
THEOREM MemoriesSaturate == Spec => []MemoriesInRange
<1>1. EventInv => MemoriesInRange
  BY DEF EventInv, TypeInv
<1> QED BY <1>1, EventInvariant, PTL

\* Every exception the system raises has its cause, for every network and every host.
THEOREM ExceptionsExplained == Spec => []ErrorsExplained
<1>1. EventInv => ErrorsExplained
  BY DEF EventInv
<1> QED BY <1>1, EventInvariant, PTL

\* A spike stays in an output queue only while its event is worked on, or after an
\* exception in the middle of it.
THEOREM SpikesRouted == Spec => []OutputsDrained
<1>1. ASSUME EventInv
      PROVE  OutputsDrained
  <2> SUFFICES ASSUME NEW c \in Cores, output[c] # <<>>, Quiet
               PROVE  pc \in {"event", "drain"} /\ here = c
    BY DEF OutputsDrained, Quiet
  <2>1. output[c] \in Seq(Spike(c))
    BY <1>1 DEF EventInv, TypeInv
  <2>2. 1 \in DOMAIN output[c]
    BY <2>1
  <2> QED BY <1>1, <2>2 DEF EventInv, SpikeInv
<1> QED BY <1>1, EventInvariant, PTL

\* A reward dated with the clock reaches each core it is addressed to, exactly once.
THEOREM RewardsDelivered == Spec => []RewardsReachAll
<1>1. ASSUME EventInv
      PROVE  RewardsReachAll
  <2> SUFFICES ASSUME pc = "host", ~misdated PROVE taken = given
    BY DEF RewardsReachAll
  <2>1. taken \in [Cores -> Nat] /\ given \in [Cores -> Nat]
    BY <1>1 DEF EventInv, TypeInv
  <2>2. \A c \in Cores : given[c] = taken[c] + 0
    BY <1>1 DEF EventInv, RewardInv
  <2>3. \A c \in Cores : given[c] = taken[c]
    BY <2>1, <2>2
  <2> QED BY <2>1, <2>3
<1> QED BY <1>1, EventInvariant, PTL
-----------------------------------------------------------------------------
(* The order of the deliveries. *)

Key3 == Nat \X Nat \X Nat

\* Keys compare totally, and first by their time.
LEMMA KeysCompare ==
    ASSUME NEW x \in Key3, NEW y \in Key3
    PROVE  /\ Precedes(x, y) \/ Precedes(y, x) \/ x = y
           /\ ~Precedes(x, x)
           /\ x[1] > y[1] => ~Precedes(x, y)
<1> DEFINE a1 == x[1]  a2 == x[2]  a3 == x[3]
           b1 == y[1]  b2 == y[2]  b3 == y[3]
<1>1. x = <<a1, a2, a3>> /\ y = <<b1, b2, b3>>
  BY DEF Key3
<1>2. a1 \in Int /\ a2 \in Int /\ a3 \in Int /\ b1 \in Int /\ b2 \in Int /\ b3 \in Int
  BY DEF Key3
<1>3. x[1] = a1 /\ y[1] = b1
  OBVIOUS
<1> HIDE DEF a1, a2, a3, b1, b2, b3
<1>4. Precedes(x, y) <=> \/ a1 < b1
                         \/ a1 = b1 /\ a2 < b2
                         \/ a1 = b1 /\ a2 = b2 /\ a3 < b3
  <2>1. Precedes(<<a1, a2, a3>>, <<b1, b2, b3>>) <=> \/ a1 < b1
                                                     \/ a1 = b1 /\ a2 < b2
                                                     \/ a1 = b1 /\ a2 = b2 /\ a3 < b3
    BY <1>2, PrecedesOfThree
  <2> QED BY <1>1, <2>1, Zenon
<1>5. Precedes(y, x) <=> \/ b1 < a1
                         \/ b1 = a1 /\ b2 < a2
                         \/ b1 = a1 /\ b2 = a2 /\ b3 < a3
  <2>1. Precedes(<<b1, b2, b3>>, <<a1, a2, a3>>) <=> \/ b1 < a1
                                                     \/ b1 = a1 /\ b2 < a2
                                                     \/ b1 = a1 /\ b2 = a2 /\ b3 < a3
    BY <1>2, PrecedesOfThree
  <2> QED BY <1>1, <2>1, Zenon
<1>6. ~Precedes(x, x)
  <2>1. Precedes(<<a1, a2, a3>>, <<a1, a2, a3>>) <=> \/ a1 < a1
                                                     \/ a1 = a1 /\ a2 < a2
                                                     \/ a1 = a1 /\ a2 = a2 /\ a3 < a3
    BY <1>2, PrecedesOfThree
  <2>2. ~(a1 < a1) /\ ~(a2 < a2) /\ ~(a3 < a3)
    BY <1>2
  <2> QED BY <1>1, <2>1, <2>2, Zenon
<1>7. a1 > b1 => ~Precedes(x, y)
  BY <1>2, <1>4
<1>8. a1 = b1 /\ a2 = b2 /\ a3 = b3 => x = y
  BY <1>1
<1>9. Precedes(x, y) \/ Precedes(y, x) \/ x = y
  BY <1>2, <1>4, <1>5, <1>8
<1> QED BY <1>3, <1>6, <1>7, <1>9

\* The keys of the events at hand are keys.
LEMMA KeysTyped ==
    ASSUME TypeInv
    PROVE  /\ \A e \in queue : EventKey(e) \in Key3
           /\ lastKey \in Key3
           /\ pc = "event" => <<frame.time, here, frame.axon>> \in Key3
<1>1. \A e \in queue : EventKey(e) \in Key3
  BY EntryTyped DEF EventKey, Key3
<1>2. lastKey \in Key3
  BY DEF TypeInv, Key3
<1>3. frame.time \in Nat /\ here \in Cores /\ frame.axon \in Nat
  BY DEF TypeInv, FrameInv, here
<1>4. here \in Nat
  BY <1>3, NetworkShape DEF TypeInv
<1> QED BY <1>1, <1>2, <1>3, <1>4 DEF Key3

\* What has gone wrong stays so.
LEMMA TroubleStays ==
    ASSUME [Next]_vars, ~behind', Quiet'
    PROVE  ~behind /\ Quiet
<1>1. errors \subseteq errors'
  BY DEF Next, Working, HostCall, Deliver, UpdateSynapse, FinishEvent, RouteSpike,
         FinishDelivery, EndRun, BeginReward, RewardSynapse, FinishReward, Inject, StartRun,
         StartReward, vars, Raise, Return
<1>2. ~behind
  <2>1. ASSUME NEW c, NEW a, NEW t, Inject(c, a, t)
        PROVE  ~behind
    BY <2>1, Zenon DEF Inject
  <2>2. CASE \E c, a, t : Inject(c, a, t)
    BY <2>1, <2>2
  <2>3. CASE ~(\E c, a, t : Inject(c, a, t))
    <3>1. \/ Working
          \/ \E limit, raises : StartRun(limit, raises)
          \/ \E first, last, value, t : StartReward(first, last, value, t)
          \/ UNCHANGED vars
      BY <2>3, Zenon DEF Next, HostCall
    <3>2. behind' = behind
      BY <3>1 DEF Working, Deliver, UpdateSynapse, FinishEvent, RouteSpike, FinishDelivery,
                  EndRun, BeginReward, RewardSynapse, FinishReward, StartRun, StartReward,
                  vars, host
    <3> QED BY <3>2
  <2> QED BY <2>2, <2>3
<1> QED BY <1>1, <1>2 DEF Quiet
\* The heap and the running event stay in order.
LEMMA OrderStep ==
    ASSUME TypeInv, ClockInv, SpikeInv, OrderInv, [Next]_vars
    PROVE  OrderInv'
<1> DEFINE running == <<frame.time, here, frame.axon>>
<1> SUFFICES ASSUME settings'.local > 0, ~behind', Quiet'
             PROVE  /\ pc' # "event" => \A e \in queue' : ~Precedes(EventKey(e), lastKey')
                    /\ pc' = "event" =>
                          /\ ~Precedes(running', lastKey')
                          /\ \A e \in queue' : ~Precedes(EventKey(e), running')
                    /\ pc' = "drain" => lastKey'[1] = current'
  BY DEF OrderInv, EventKey
<1>1. settings' = settings /\ Cores' = Cores /\ here \in Cores
  BY SettingsStay, NetworkStays DEF TypeInv, FrameInv, here
<1>2. settings.local > 0 /\ ~behind /\ Quiet
  BY <1>1, TroubleStays
<1>3. /\ pc # "event" => \A e \in queue : ~Precedes(EventKey(e), lastKey)
      /\ pc = "event" =>
            /\ ~Precedes(running, lastKey)
            /\ \A e \in queue : ~Precedes(EventKey(e), running)
      /\ pc = "drain" => lastKey[1] = current
  BY <1>2 DEF OrderInv
<1> DEFINE Ordered == /\ pc' # "event" => \A e \in queue' : ~Precedes(EventKey(e), lastKey')
                      /\ pc' = "event" =>
                            /\ ~Precedes(running', lastKey')
                            /\ \A e \in queue' : ~Precedes(EventKey(e), running')
                      /\ pc' = "drain" => lastKey'[1] = current'
<1>4. ASSUME queue' = queue, lastKey' = lastKey, pc # "event", pc' \notin {"event", "drain"}
      PROVE  Ordered
  BY <1>3, <1>4
<1>5. ASSUME NEW c \in Cores, NEW a, NEW t, Inject(c, a, t)
      PROVE  Ordered
  <2> DEFINE new == [time |-> t, core |-> c, axon |-> a, number |-> sequence + 1,
                     packet |-> FALSE]
  <2>1. pc = "host" /\ pc' = "host" /\ lastKey' = lastKey /\ queue' = queue \cup {new}
    BY <1>5 DEF Inject
  <2>2. EventKey(new) = <<t, c, a>>
    BY DEF EventKey
  <2>3. ~Precedes(<<t, c, a>>, lastKey)
    BY <1>5, Zenon DEF Inject
  <2> HIDE DEF new
  <2> QED BY <1>3, <2>1, <2>2, <2>3
<1>6. ASSUME NEW e \in queue, Deliver(e)
      PROVE  Ordered
  <2>1. /\ pc = "run" /\ pc' = "event" /\ queue' = queue \ {e}
        /\ frame' = [frame EXCEPT !.core = e.core, !.axon = e.axon, !.time = e.time,
                                  !.position = 1]
    BY <1>6, DeliverAccepted
  <2>2. lastKey' = lastKey /\ IsNext(e)
    BY <1>6 DEF Deliver
  <2>3. running' = EventKey(e)
    BY <2>1 DEF TypeInv, FrameInv, EventKey, here
  <2>4. \A f \in queue' : ~Precedes(EventKey(f), EventKey(e))
    BY <2>1, <2>2, NextIsFirst
  <2> HIDE DEF running
  <2> QED BY <1>3, <2>1, <2>2, <2>3, <2>4
<1>7. ASSUME UpdateSynapse
      PROVE  Ordered
  <2>1. pc = "event" /\ UNCHANGED <<queue, lastKey>>
    BY <1>7 DEF UpdateSynapse
  <2>2. pc' = "event" /\ frame' = [frame EXCEPT !.position = @ + 1]
    <3>1. "elapsed" \notin errors'
      BY DEF Quiet
    <3> QED BY <1>7, <3>1, CrossedInOrder
  <2>3. running' = running
    BY <2>2 DEF TypeInv, FrameInv, here
  <2> HIDE DEF running
  <2> QED BY <1>3, <2>1, <2>2, <2>3
<1>8. ASSUME FinishEvent
      PROVE  Ordered
  <2>1. /\ pc = "event" /\ pc' = "drain" /\ lastKey' = running
        /\ UNCHANGED <<queue, current>>
    BY <1>8 DEF FinishEvent, clocks
  <2>2. running[1] = current
    BY <2>1 DEF ClockInv
  <2> HIDE DEF running
  <2> QED BY <1>3, <2>1, <2>2
<1>9. ASSUME RouteSpike
      PROVE  Ordered
  <2> DEFINE spike == Head(output[here])
             new == Entries(here, spike.neuron, spike.time)
  <2>1. /\ pc = "drain" /\ spike \in Spike(here) /\ output[here] # <<>>
        /\ queue' = queue \/ queue' = queue \cup new
    BY <1>9, RouteOutcome
  <2>2. pc' = "drain"
    <3>1. "route" \notin errors' /\ "past" \notin errors'
      BY DEF Quiet
    <3> QED BY <1>9, <2>1, <3>1, RouteOutcome
  <2>3. UNCHANGED <<lastKey, current>>
    BY <1>9 DEF RouteSpike, clocks
  <2>4. spike.neuron \in 1 .. network.neurons[here] /\ spike.time \in Nat
    BY <2>1 DEF Spike
  <2>5. spike.time = current
    <3>1. output[here] \in Seq(Spike(here))
      BY <1>1 DEF TypeInv
    <3>2. spike = output[here][1] /\ 1 \in DOMAIN output[here]
      BY <2>1, <3>1
    <3> QED BY <1>1, <1>2, <3>2 DEF SpikeInv
  <2>6. \A e \in new : /\ e.core \in Cores /\ e.axon \in 1 .. network.axons[e.core]
                       /\ e.time \in Nat /\ e.time >= current + settings.local
    BY <1>1, <2>4, <2>5, EntriesTyped
  <2>7. lastKey[1] = current /\ lastKey \in Key3 /\ current \in Nat /\ settings.local \in Nat
    BY <1>3, <2>1, KeysTyped DEF TypeInv
  <2>8. \A e \in new : ~Precedes(EventKey(e), lastKey)
    <3> SUFFICES ASSUME NEW e \in new PROVE ~Precedes(EventKey(e), lastKey)
      OBVIOUS
    <3> HIDE DEF new
    <3>1. e.core \in Nat /\ e.axon \in Nat
      BY <2>6, NetworkShape DEF TypeInv
    <3>2. EventKey(e) \in Key3 /\ EventKey(e)[1] = e.time
      BY <2>6, <3>1 DEF EventKey, Key3
    <3>3. e.time > current
      BY <1>2, <2>6, <2>7
    <3> QED BY <2>7, <3>2, <3>3, KeysCompare
  <2> HIDE DEF new, spike
  <2> QED BY <1>3, <2>1, <2>2, <2>3, <2>7, <2>8
<1>10. ASSUME \/ FinishDelivery \/ EndRun \/ BeginReward \/ RewardSynapse \/ FinishReward
              \/ \E limit, raises : StartRun(limit, raises)
              \/ \E first, last, value, t : StartReward(first, last, value, t)
       PROVE  Ordered
  <2>1. /\ queue' = queue /\ lastKey' = lastKey /\ pc # "event"
        /\ pc' \notin {"event", "drain"}
    BY <1>10 DEF FinishDelivery, EndRun, BeginReward, RewardSynapse, FinishReward, StartRun,
                 StartReward, Raise, Return
  <2> QED BY <1>4, <2>1
<1>11. ASSUME UNCHANGED vars PROVE Ordered
  <2>1. UNCHANGED <<queue, lastKey, pc, frame, current>>
    BY <1>11 DEF vars, clocks
  <2>2. running' = running
    BY <2>1 DEF here
  <2> HIDE DEF running
  <2> QED BY <1>3, <2>1, <2>2
<1> HIDE DEF Ordered
<1>12. ASSUME Working PROVE Ordered
  BY <1>6, <1>7, <1>8, <1>9, <1>10, <1>12 DEF Working
<1>13. ASSUME HostCall PROVE Ordered
  BY <1>5, <1>10, <1>13, Zenon DEF HostCall
<1> QED BY <1>11, <1>12, <1>13 DEF Ordered, Next

\* Initially nothing is queued and nothing was delivered.
LEMMA InitOrder == ASSUME Init PROVE OrderInv
BY DEF Init, OrderInv

\* The deliveries stay in order in every run.
LEMMA OrderInvariant == Spec => []OrderInv
<1>1. Init => OrderInv
  BY InitOrder
<1>2. EventInv /\ OrderInv /\ [Next]_vars => OrderInv'
  BY OrderStep DEF EventInv
<1> QED BY <1>1, <1>2, EventInvariant, PTL DEF Spec

\* The last delivery is not ahead of the system clock.
LEMMA DeliveredStep ==
    ASSUME TypeInv, ClockInv, DeliveredInv, [Next]_vars
    PROVE  DeliveredInv'
<1>1. lastKey \in Key3 /\ current \in Nat /\ lastKey[1] <= current
  BY KeysTyped DEF TypeInv, DeliveredInv
<1>2. ASSUME NEW e \in queue, Deliver(e)
      PROVE  lastKey' = lastKey /\ current' >= current /\ current' \in Nat
  BY <1>2, EntryTyped DEF Deliver, ClockInv, TypeInv
<1>3. ASSUME FinishEvent
      PROVE  DeliveredInv'
  <2>1. pc = "event" /\ lastKey' = <<frame.time, here, frame.axon>> /\ current' = current
    BY <1>3 DEF FinishEvent, clocks
  <2>2. frame.time = current
    BY <2>1 DEF ClockInv
  <2> QED BY <1>1, <2>1, <2>2 DEF DeliveredInv
<1>4. ASSUME \/ UpdateSynapse \/ RouteSpike \/ FinishDelivery \/ EndRun
             \/ BeginReward \/ RewardSynapse \/ FinishReward \/ HostCall \/ UNCHANGED vars
      PROVE  UNCHANGED <<lastKey, current>>
  BY <1>4 DEF UpdateSynapse, RouteSpike, FinishDelivery, EndRun, BeginReward, RewardSynapse,
              FinishReward, HostCall, Inject, StartRun, StartReward, vars, clocks
<1>5. CASE \E e \in queue : Deliver(e)
  <2>1. lastKey' = lastKey /\ current' >= current /\ current' \in Nat
    BY <1>2, <1>5
  <2>2. lastKey[1] \in Nat
    BY <1>1 DEF Key3
  <2> QED BY <1>1, <2>1, <2>2 DEF DeliveredInv
<1>6. CASE UNCHANGED <<lastKey, current>>
  BY <1>6 DEF DeliveredInv
<1> QED BY <1>3, <1>4, <1>5, <1>6 DEF Next, Working

\* The last delivery is behind the clock in every run.
LEMMA DeliveredInvariant == Spec => []DeliveredInv
<1>1. Init => DeliveredInv
  BY DEF Init, DeliveredInv
<1>2. EventInv /\ DeliveredInv /\ [Next]_vars => DeliveredInv'
  BY DeliveredStep DEF EventInv
<1> QED BY <1>1, <1>2, EventInvariant, PTL DEF Spec

\* Whatever the network, the host and the delays, the system never delivers back in time;
\* with a positive axonal delay it delivers in the order of time, core and axon, while the
\* host injects nothing behind the last delivery and nothing raises in the middle of an
\* event.
THEOREM DeliveredInOrder == Spec => DeliveriesSorted
<1> DEFINE Sorted == lastKey' # lastKey =>
                       /\ lastKey[1] <= lastKey'[1]
                       /\ settings.local > 0 /\ ~behind /\ errors \cap {"elapsed", "route", "past"} = {}
                          => Precedes(lastKey, lastKey')
<1>1. ASSUME EventInv, OrderInv, DeliveredInv, [Next]_vars
      PROVE  Sorted
  <2> SUFFICES ASSUME lastKey' # lastKey
               PROVE  /\ lastKey[1] <= lastKey'[1]
                      /\ settings.local > 0 /\ ~behind /\ Quiet
                         => Precedes(lastKey, lastKey')
    BY DEF Quiet
  <2>1. FinishEvent
    BY <1>1 DEF Next, Working, HostCall, Deliver, UpdateSynapse, RouteSpike, FinishDelivery,
                EndRun, BeginReward, RewardSynapse, FinishReward, Inject, StartRun, StartReward,
                vars
  <2>2. pc = "event" /\ lastKey' = <<frame.time, here, frame.axon>>
    BY <2>1 DEF FinishEvent
  <2>3. lastKey \in Key3 /\ lastKey' \in Key3
    BY <1>1, <2>2, KeysTyped DEF EventInv
  <2>4. lastKey[1] <= lastKey'[1]
    BY <1>1, <2>2 DEF EventInv, ClockInv, DeliveredInv
  <2>5. ASSUME settings.local > 0, ~behind, Quiet
        PROVE  Precedes(lastKey, lastKey')
    <3>1. ~Precedes(lastKey', lastKey)
      BY <1>1, <2>2, <2>5 DEF OrderInv
    <3> QED BY <2>3, <3>1, KeysCompare
  <2> QED BY <2>4, <2>5
<1> HIDE DEF Sorted
<1>2. Spec => [][Sorted]_vars
  BY <1>1, EventInvariant, OrderInvariant, DeliveredInvariant, PTL DEF Spec
<1> QED BY <1>2, PTL DEF DeliveriesSorted, Sorted
-----------------------------------------------------------------------------
(* The traffic. *)

\* The copies owed by the spikes of all output queues.
Traffic == UNION {Owed(c) : c \in Cores}
Packets == {e \in queue : e.packet}

\* The copies of one spike.
CopiesOf(c, i, m) == {<<c, i, k>> : k \in 1 .. m}

ConservedInv == IsFiniteSet(Traffic) /\ TrafficConserved

\* Sets without a common element count together.
LEMMA CountedTogether ==
    ASSUME NEW S, NEW T, IsFiniteSet(S), IsFiniteSet(T), S \cap T = {}
    PROVE  /\ IsFiniteSet(S \cup T) /\ Cardinality(S \cup T) = Cardinality(S) + Cardinality(T)
           /\ Cardinality(S) \in Nat /\ Cardinality(T) \in Nat
<1>1. IsFiniteSet({}) /\ Cardinality({}) = 0
  BY FS_EmptySet
<1>2. Cardinality(S) \in Nat /\ Cardinality(T) \in Nat
  BY FS_CardinalityType
<1>3. IsFiniteSet(S \cup T)
      /\ Cardinality(S \cup T) = Cardinality(S) + Cardinality(T) - Cardinality(S \cap T)
  BY FS_Union
<1>4. Cardinality(S \cap T) = 0
  BY <1>1
<1> QED BY <1>2, <1>3, <1>4

\* A spike with m destinations owes m copies.
LEMMA CopiesCounted ==
    ASSUME NEW c, NEW i, NEW m \in Nat
    PROVE  IsFiniteSet(CopiesOf(c, i, m)) /\ Cardinality(CopiesOf(c, i, m)) = m
<1> DEFINE copy == [k \in 1 .. m |-> <<c, i, k>>]
<1>1. \A k \in 1 .. m : copy[k] = <<c, i, k>> /\ copy[k] \in CopiesOf(c, i, m)
  BY DEF CopiesOf
<1>2. \A t \in CopiesOf(c, i, m) : \E k \in 1 .. m : copy[k] = t
  BY DEF CopiesOf
<1>3. \A k, j \in 1 .. m : copy[k] = copy[j] => k = j
  <2>1. \A k, j : <<c, i, k>> = <<c, i, j>> => k = j
    OBVIOUS
  <2> QED BY <1>1, <2>1
<1>4. copy \in [1 .. m -> CopiesOf(c, i, m)]
  BY <1>1
<1> HIDE DEF copy
<1>5. copy \in Bijection(1 .. m, CopiesOf(c, i, m))
  BY <1>2, <1>3, <1>4 DEF Bijection, Injection, Surjection, IsInjective
<1>6. IsFiniteSet(1 .. m) /\ Cardinality(1 .. m) = m
  BY FS_Interval
<1> QED BY <1>5, <1>6, FS_Bijection DEF ExistsBijection

\* Which copies are owed.
LEMMA OwedCopies ==
    ASSUME NEW t
    PROVE  t \in Traffic <=>
              \E c \in Cores : \E i \in DOMAIN output[c] :
                 t \in CopiesOf(c, i, Len(Destinations(c, output[c][i].neuron)))
BY DEF Traffic, Owed, CopiesOf

\* A spike pushed to an output queue owes its copies besides those already owed.
LEMMA PushedOwes ==
    ASSUME NEW h \in Cores, NEW s, Cores' = Cores,
           \A c, n : Destinations(c, n)' = Destinations(c, n),
           \A c \in Cores : output[c] \in Seq(Spike(c)), s \in Spike(h),
           DOMAIN output = Cores, output' = [output EXCEPT ![h] = Append(@, s)]
    PROVE  LET new == CopiesOf(h, Len(output[h]) + 1, Len(Destinations(h, s.neuron)))
           IN  Traffic' = Traffic \cup new /\ Traffic \cap new = {}
<1> DEFINE l == Len(output[h])
           new == CopiesOf(h, l + 1, Len(Destinations(h, s.neuron)))
<1>1. /\ l \in Nat /\ DOMAIN output[h] = 1 .. l
      /\ DOMAIN output'[h] = 1 .. l + 1 /\ output'[h][l + 1] = s
      /\ \A i \in 1 .. l : output'[h][i] = output[h][i]
      /\ \A c \in Cores : c # h => output'[c] = output[c]
  <2>1. output[h] \in Seq(Spike(h))
    OBVIOUS
  <2>2. output'[h] = Append(output[h], s)
    OBVIOUS
  <2> QED BY <2>1, <2>2
<1> HIDE DEF l
<1>2. 1 .. l + 1 = 1 .. l \cup {l + 1} /\ l + 1 \notin 1 .. l
  BY <1>1
<1>3. ASSUME NEW t
      PROVE  t \in Traffic' <=> t \in Traffic \/ t \in new
  <2> DEFINE Has(c, i) == t \in CopiesOf(c, i, Len(Destinations(c, output[c][i].neuron)))
  <2>1. t \in Traffic <=> \E c \in Cores : \E i \in DOMAIN output[c] : Has(c, i)
    BY OwedCopies
  <2> DEFINE Gets(c, i) == t \in CopiesOf(c, i, Len(Destinations(c, output'[c][i].neuron)))
  <2>2. t \in Traffic' <=> \E c \in Cores : \E i \in DOMAIN output'[c] : Gets(c, i)
    BY DEF Traffic, Owed, CopiesOf
  <2>3. \A c \in Cores : c # h => DOMAIN output'[c] = DOMAIN output[c]
                                  /\ \A i : Gets(c, i) <=> Has(c, i)
    BY <1>1
  <2>4. (\A i \in 1 .. l : Gets(h, i) <=> Has(h, i)) /\ (Gets(h, l + 1) <=> t \in new)
    BY <1>1
  <2> HIDE DEF Has, Gets, new
  <2>5. (\E i \in DOMAIN output'[h] : Gets(h, i))
            <=> (\E i \in DOMAIN output[h] : Has(h, i)) \/ t \in new
    BY <1>1, <1>2, <2>4
  <2> QED BY <2>1, <2>2, <2>3, <2>5
<1>4. Traffic \cap new = {}
  <2> SUFFICES ASSUME NEW t \in Traffic, t \in new PROVE FALSE
    OBVIOUS
  <2>1. PICK c \in Cores : \E i \in DOMAIN output[c] :
           t \in CopiesOf(c, i, Len(Destinations(c, output[c][i].neuron)))
    BY OwedCopies
  <2>2. PICK i \in DOMAIN output[c] :
           t \in CopiesOf(c, i, Len(Destinations(c, output[c][i].neuron)))
    BY <2>1
  <2>3. t[1] = c /\ t[2] = i /\ t[1] = h /\ t[2] = l + 1
    BY <2>2 DEF CopiesOf
  <2> QED BY <1>1, <1>2, <2>2, <2>3
<1> HIDE DEF new
<1>5. Traffic' = Traffic \cup new
  BY <1>3
<1> QED BY <1>4, <1>5 DEF new, l
\* The oldest spike of an output queue takes its copies along: what the others owe stays,
\* each at one place less in its queue.
LEMMA RoutedOwes ==
    ASSUME NEW h \in Cores, Cores' = Cores,
           \A c, n : Destinations(c, n)' = Destinations(c, n),
           \A c \in Cores : output[c] \in Seq(Spike(c)), output[h] # <<>>,
           DOMAIN output = Cores, output' = [output EXCEPT ![h] = Tail(@)],
           IsFiniteSet(Traffic), Len(Destinations(h, Head(output[h]).neuron)) \in Nat
    PROVE  /\ IsFiniteSet(Traffic')
           /\ Cardinality(Traffic)
                = Cardinality(Traffic') + Len(Destinations(h, Head(output[h]).neuron))
           /\ Cardinality(Traffic') \in Nat
<1> DEFINE l == Len(output[h])
           m == Len(Destinations(h, Head(output[h]).neuron))
           first == CopiesOf(h, 1, m)
           rest == Traffic \ first
           Size(c, i) == Len(Destinations(c, output[c][i].neuron))
           moved(t) == IF t[1] = h THEN <<t[1], t[2] - 1, t[3]>> ELSE t
           move == [t \in rest |-> moved(t)]
<1>1. /\ l \in Nat /\ l >= 1 /\ DOMAIN output[h] = 1 .. l /\ Head(output[h]) = output[h][1]
      /\ DOMAIN output'[h] = 1 .. l - 1
      /\ \A i \in 1 .. l - 1 : output'[h][i] = output[h][i + 1]
      /\ \A c \in Cores : c # h => output'[c] = output[c]
  <2>1. output[h] \in Seq(Spike(h)) /\ output'[h] = Tail(output[h])
    OBVIOUS
  <2> QED BY <2>1
<1> HIDE DEF l
<1>2. \A t : t \in Traffic <=> \E c \in Cores : \E i \in DOMAIN output[c] : t \in CopiesOf(c, i, Size(c, i))
  BY OwedCopies
<1>3. \A t : t \in Traffic' <=>
                \E c \in Cores : \E i \in DOMAIN output'[c] :
                   t \in CopiesOf(c, i, Len(Destinations(c, output'[c][i].neuron)))
  BY DEF Traffic, Owed, CopiesOf
<1>4. m = Size(h, 1) /\ 1 \in 1 .. l
  BY <1>1
<1>5. \A i \in 1 .. l - 1 : Len(Destinations(h, output'[h][i].neuron)) = Size(h, i + 1)
                            /\ i + 1 \in 1 .. l /\ i + 1 # 1
  BY <1>1
<1>6. \A c \in Cores : c # h =>
         DOMAIN output'[c] = DOMAIN output[c]
         /\ \A i : Len(Destinations(c, output'[c][i].neuron)) = Size(c, i)
  BY <1>1
<1> HIDE DEF m, Size
<1>7. \A t : t \in rest <=>
         \/ \E c \in Cores : c # h /\ \E i \in DOMAIN output[c] : t \in CopiesOf(c, i, Size(c, i))
         \/ \E i \in 1 .. l : i # 1 /\ t \in CopiesOf(h, i, Size(h, i))
  <2> SUFFICES ASSUME NEW t
               PROVE  t \in rest <=>
         \/ \E c \in Cores : c # h /\ \E i \in DOMAIN output[c] : t \in CopiesOf(c, i, Size(c, i))
         \/ \E i \in 1 .. l : i # 1 /\ t \in CopiesOf(h, i, Size(h, i))
    OBVIOUS
  <2>1. \A c, i, n : t \in CopiesOf(c, i, n) => t[1] = c /\ t[2] = i
    BY DEF CopiesOf
  <2>2. t \in first <=> t \in CopiesOf(h, 1, Size(h, 1))
    BY <1>4
  <2> HIDE DEF first
  <2> QED BY <1>1, <1>2, <2>1, <2>2
<1>8. \A t : t \in Traffic' <=>
         \/ \E c \in Cores : c # h /\ \E i \in DOMAIN output[c] : t \in CopiesOf(c, i, Size(c, i))
         \/ \E i \in 1 .. l - 1 : t \in CopiesOf(h, i, Size(h, i + 1))
  <2> DEFINE After(c, i) == Len(Destinations(c, output'[c][i].neuron))
  <2>1. DOMAIN output'[h] = 1 .. l - 1 /\ \A i \in 1 .. l - 1 : After(h, i) = Size(h, i + 1)
    BY <1>1, <1>5
  <2>2. \A c \in Cores : c # h => DOMAIN output'[c] = DOMAIN output[c]
                                  /\ \A i : After(c, i) = Size(c, i)
    BY <1>6
  <2>3. \A t : t \in Traffic' <=>
            \E c \in Cores : \E i \in DOMAIN output'[c] : t \in CopiesOf(c, i, After(c, i))
    BY <1>3
  <2> HIDE DEF After
  <2> SUFFICES ASSUME NEW t
               PROVE  t \in Traffic' <=>
         \/ \E c \in Cores : c # h /\ \E i \in DOMAIN output[c] : t \in CopiesOf(c, i, Size(c, i))
         \/ \E i \in 1 .. l - 1 : t \in CopiesOf(h, i, Size(h, i + 1))
    OBVIOUS
  <2>4. (\E i \in DOMAIN output'[h] : t \in CopiesOf(h, i, After(h, i)))
           <=> \E i \in 1 .. l - 1 : t \in CopiesOf(h, i, Size(h, i + 1))
    BY <2>1
  <2>5. \A c \in Cores : c # h =>
           ((\E i \in DOMAIN output'[c] : t \in CopiesOf(c, i, After(c, i)))
               <=> \E i \in DOMAIN output[c] : t \in CopiesOf(c, i, Size(c, i)))
    BY <2>2
  <2>6. t \in Traffic' <=>
           \/ \E c \in Cores : c # h /\ \E i \in DOMAIN output'[c] : t \in CopiesOf(c, i, After(c, i))
           \/ \E i \in DOMAIN output'[h] : t \in CopiesOf(h, i, After(h, i))
    BY <2>3, Zenon
  <2> QED BY <2>4, <2>5, <2>6, Zenon
<1> HIDE DEF rest
<1>9. ASSUME NEW c \in Cores, NEW i \in Int, NEW n, NEW t \in CopiesOf(c, i, n)
      PROVE  /\ t = <<c, i, t[3]>> /\ t[3] \in 1 .. n
             /\ c # h => moved(t) = t
             /\ c = h => moved(t) = <<c, i - 1, t[3]>> /\ moved(t) \in CopiesOf(c, i - 1, n)
  BY DEF CopiesOf
<1> HIDE DEF moved
<1>10. \A c \in Cores : DOMAIN output[c] \subseteq Int
  <2> SUFFICES ASSUME NEW c \in Cores PROVE DOMAIN output[c] \subseteq Int
    OBVIOUS
  <2>1. output[c] \in Seq(Spike(c))
    OBVIOUS
  <2>2. DOMAIN output[c] = 1 .. Len(output[c]) /\ Len(output[c]) \in Nat
    BY <2>1
  <2> QED BY <2>2
<1>11. ASSUME NEW t \in rest
       PROVE  \E c \in Cores, i \in Int :
                 /\ t = <<c, i, t[3]>>
                 /\ moved(t) = IF c = h THEN <<c, i - 1, t[3]>> ELSE <<c, i, t[3]>>
                 /\ moved(t) \in Traffic'
  <2>1. CASE \E c \in Cores : c # h /\ \E i \in DOMAIN output[c] : t \in CopiesOf(c, i, Size(c, i))
    <3>1. PICK c \in Cores : c # h /\ \E i \in DOMAIN output[c] : t \in CopiesOf(c, i, Size(c, i))
      BY <2>1
    <3>2. PICK i \in DOMAIN output[c] : t \in CopiesOf(c, i, Size(c, i))
      BY <3>1
    <3>3. i \in Int
      BY <1>10
    <3>4. t = <<c, i, t[3]>> /\ moved(t) = t
      BY <1>9, <3>1, <3>2, <3>3
    <3>5. t \in Traffic'
      BY <1>8, <3>1, <3>2
    <3> QED BY <3>1, <3>3, <3>4, <3>5
  <2>2. CASE \E i \in 1 .. l : i # 1 /\ t \in CopiesOf(h, i, Size(h, i))
    <3>1. PICK i \in 1 .. l : i # 1 /\ t \in CopiesOf(h, i, Size(h, i))
      BY <2>2
    <3>2. i \in Int /\ i - 1 \in 1 .. l - 1 /\ (i - 1) + 1 = i
      BY <1>1, <3>1
    <3>3. t = <<h, i, t[3]>> /\ moved(t) = <<h, i - 1, t[3]>>
          /\ moved(t) \in CopiesOf(h, i - 1, Size(h, i))
      BY <1>9, <3>1, <3>2
    <3>4. moved(t) \in Traffic'
      BY <1>8, <3>2, <3>3
    <3> QED BY <3>2, <3>3, <3>4
  <2> QED BY <1>7, <2>1, <2>2
<1>12. \A t, u \in rest : moved(t) = moved(u) => t = u
  <2> SUFFICES ASSUME NEW t \in rest, NEW u \in rest, moved(t) = moved(u) PROVE t = u
    OBVIOUS
  <2>1. PICK c \in Cores, i \in Int :
           t = <<c, i, t[3]>> /\ moved(t) = IF c = h THEN <<c, i - 1, t[3]>> ELSE <<c, i, t[3]>>
    BY <1>11
  <2>2. PICK d \in Cores, j \in Int :
           u = <<d, j, u[3]>> /\ moved(u) = IF d = h THEN <<d, j - 1, u[3]>> ELSE <<d, j, u[3]>>
    BY <1>11
  <2>3. moved(t)[1] = c /\ moved(t)[2] = (IF c = h THEN i - 1 ELSE i) /\ moved(t)[3] = t[3]
    BY <2>1
  <2>4. moved(u)[1] = d /\ moved(u)[2] = (IF d = h THEN j - 1 ELSE j) /\ moved(u)[3] = u[3]
    BY <2>2
  <2>5. c = d /\ i = j /\ t[3] = u[3]
    BY <2>3, <2>4
  <2> QED BY <2>1, <2>2, <2>5
<1>13. \A u \in Traffic' : \E t \in rest : moved(t) = u
  <2> SUFFICES ASSUME NEW u \in Traffic' PROVE \E t \in rest : moved(t) = u
    OBVIOUS
  <2>1. CASE \E c \in Cores : c # h /\ \E i \in DOMAIN output[c] : u \in CopiesOf(c, i, Size(c, i))
    <3>1. u \in rest
      BY <1>7, <2>1
    <3>2. PICK c \in Cores : c # h /\ \E i \in DOMAIN output[c] : u \in CopiesOf(c, i, Size(c, i))
      BY <2>1
    <3>3. PICK i \in DOMAIN output[c] : u \in CopiesOf(c, i, Size(c, i))
      BY <3>2
    <3>4. moved(u) = u
      BY <1>9, <1>10, <3>2, <3>3
    <3> QED BY <3>1, <3>4
  <2>2. CASE \E i \in 1 .. l - 1 : u \in CopiesOf(h, i, Size(h, i + 1))
    <3>1. PICK i \in 1 .. l - 1 : u \in CopiesOf(h, i, Size(h, i + 1))
      BY <2>2
    <3>2. PICK k \in 1 .. Size(h, i + 1) : u = <<h, i, k>>
      BY <3>1 DEF CopiesOf
    <3> DEFINE t == <<h, i + 1, k>>
    <3>3. t \in CopiesOf(h, i + 1, Size(h, i + 1))
      BY <3>2 DEF CopiesOf
    <3>4. i + 1 \in 1 .. l /\ i + 1 # 1 /\ (i + 1) - 1 = i
      BY <1>1, <3>1
    <3>5. t \in rest
      BY <1>7, <3>3, <3>4
    <3>6. t[1] = h /\ t[2] = i + 1 /\ t[3] = k
      OBVIOUS
    <3> HIDE DEF t
    <3>7. moved(t) = u
      BY <3>2, <3>4, <3>6 DEF moved
    <3> QED BY <3>5, <3>7
  <2> QED BY <1>8, <2>1, <2>2
<1>14. move \in Bijection(rest, Traffic')
  <2>1. \A t \in rest : move[t] = moved(t)
    OBVIOUS
  <2>2. move \in [rest -> Traffic']
    BY <1>11
  <2> HIDE DEF move
  <2> QED BY <1>12, <1>13, <2>1, <2>2 DEF Bijection, Injection, Surjection, IsInjective
<1>15. IsFiniteSet(rest) /\ rest \cap first = {} /\ rest \cup first = Traffic
  <2>1. first \subseteq Traffic
    <3>1. \A t \in first : t \in CopiesOf(h, 1, Size(h, 1)) /\ 1 \in DOMAIN output[h]
      BY <1>1, <1>4
    <3> HIDE DEF first
    <3> QED BY <1>2, <3>1
  <2> QED BY <2>1, FS_Subset DEF rest
<1>16. IsFiniteSet(first) /\ Cardinality(first) = m
  BY CopiesCounted DEF m
<1>17. IsFiniteSet(Traffic') /\ Cardinality(Traffic') = Cardinality(rest)
  <2>1. ExistsBijection(rest, Traffic')
    BY <1>14 DEF ExistsBijection
  <2> QED BY <1>15, <2>1, FS_Bijection
<1> HIDE DEF first
<1>18. Cardinality(Traffic) = Cardinality(rest) + m /\ Cardinality(rest) \in Nat
  BY <1>15, <1>16, CountedTogether
<1> QED BY <1>17, <1>18 DEF m
\* The copies owed depend on the network and the output queues alone.
LEMMA TrafficStays ==
    ASSUME settings' = settings, output' = output
    PROVE  Traffic' = Traffic
BY NetworkStays DEF Traffic, Owed

\* A delivery takes one entry from the heap, an injection adds one, a routed spike one for
\* each of its destinations.
LEMMA HeapCounts ==
    ASSUME TypeInv, settings' = settings
    PROVE  /\ IsFiniteSet(queue) /\ Cardinality(queue) \in Nat /\ Cardinality(Packets) \in Nat
           /\ \A e \in queue : queue' = queue \ {e} =>
                 /\ Cardinality(queue') = Cardinality(queue) - 1
                 /\ Cardinality(Packets') = Cardinality(Packets) - (IF e.packet THEN 1 ELSE 0)
           /\ \A e : e.number = sequence + 1 /\ ~e.packet /\ queue' = queue \cup {e} =>
                 /\ Cardinality(queue') = Cardinality(queue) + 1
                 /\ Cardinality(Packets') = Cardinality(Packets)
           /\ \A c \in Cores : \A n \in 1 .. network.neurons[c], time \in Nat :
                 queue' = queue \cup Entries(c, n, time) =>
                    /\ Cardinality(queue') = Cardinality(queue) + Len(Destinations(c, n))
                    /\ Cardinality(Packets') = Cardinality(Packets) + Len(Destinations(c, n))
                                                 - Len(network.local[c][n])
<1>1. IsFiniteSet(queue) /\ sequence \in Nat /\ \A e \in queue : e.number <= sequence /\ e.number \in Nat
  BY EntryTyped DEF TypeInv, HeapInv
<1>2. IsFiniteSet(Packets) /\ Packets \subseteq queue
  <2>1. Packets \subseteq queue
    BY DEF Packets
  <2> QED BY <1>1, <2>1, FS_Subset
<1>3. Cardinality(queue) \in Nat /\ Cardinality(Packets) \in Nat
  BY <1>1, <1>2, FS_CardinalityType
<1>4. ASSUME NEW e \in queue, queue' = queue \ {e}
      PROVE  /\ Cardinality(queue') = Cardinality(queue) - 1
             /\ Cardinality(Packets') = Cardinality(Packets) - (IF e.packet THEN 1 ELSE 0)
  <2>1. Cardinality(queue') = Cardinality(queue) - 1
    BY <1>1, <1>4, FS_RemoveElement
  <2>2. CASE e.packet
    <3>1. Packets' = Packets \ {e} /\ e \in Packets
      BY <1>4, <2>2 DEF Packets
    <3>2. Cardinality(Packets') = Cardinality(Packets) - 1
      BY <1>2, <3>1, FS_RemoveElement
    <3> QED BY <2>1, <2>2, <3>2
  <2>3. CASE ~e.packet
    <3>1. Packets' = Packets
      BY <1>4, <2>3 DEF Packets
    <3> QED BY <1>3, <2>1, <2>3, <3>1
  <2> QED BY <2>2, <2>3
<1>5. ASSUME NEW e, e.number = sequence + 1, ~e.packet, queue' = queue \cup {e}
      PROVE  /\ Cardinality(queue') = Cardinality(queue) + 1
             /\ Cardinality(Packets') = Cardinality(Packets)
  <2>1. e \notin queue
    BY <1>1, <1>5
  <2>2. Cardinality(queue') = Cardinality(queue) + 1
    BY <1>1, <1>5, <2>1, FS_AddElement
  <2>3. Packets' = Packets
    BY <1>5 DEF Packets
  <2> QED BY <2>2, <2>3
<1>6. ASSUME NEW c \in Cores, NEW n \in 1 .. network.neurons[c], NEW time \in Nat,
             queue' = queue \cup Entries(c, n, time)
      PROVE  /\ Cardinality(queue') = Cardinality(queue) + Len(Destinations(c, n))
             /\ Cardinality(Packets') = Cardinality(Packets) + Len(Destinations(c, n))
                                          - Len(network.local[c][n])
  <2> DEFINE new == Entries(c, n, time)
             sent == {e \in new : e.packet}
             m == Len(Destinations(c, n))
             l == Len(network.local[c][n])
  <2>1. IsFiniteSet(new) /\ Cardinality(new) = m /\ Cardinality(sent) = m - l
    BY EntriesCounted
  <2>2. m \in Nat /\ l \in Nat
    <3>1. m \in Nat /\ l \in 0 .. m
      BY DestinationsTyped DEF TypeInv
    <3> HIDE DEF m, l
    <3> QED BY <3>1
  <2>3. \A e \in new : e.number \in sequence + 1 .. sequence + m
    BY EntriesTyped
  <2>4. queue' = queue \cup new
    BY <1>6
  <2> HIDE DEF new, m, l
  <2>5. queue \cap new = {}
    BY <1>1, <2>2, <2>3
  <2>6. Packets' = Packets \cup sent /\ Packets \cap sent = {} /\ IsFiniteSet(sent)
    <3>1. sent \subseteq new
      OBVIOUS
    <3>2. IsFiniteSet(sent)
      BY <2>1, <3>1, FS_Subset
    <3> QED BY <2>4, <2>5, <3>2 DEF Packets
  <2> HIDE DEF sent
  <2>7. Cardinality(queue \cup new) = Cardinality(queue) + m
    BY <1>1, <2>1, <2>5, CountedTogether
  <2>8. Cardinality(Packets \cup sent) = Cardinality(Packets) + (m - l)
    BY <1>2, <2>1, <2>6, CountedTogether
  <2>9. Cardinality(Packets) + (m - l) = Cardinality(Packets) + m - l
    BY <1>3, <2>2
  <2> QED BY <2>4, <2>6, <2>7, <2>8, <2>9 DEF m, l
<1> QED BY <1>1, <1>3, <1>4, <1>5, <1>6
\* No action but those of the traffic touches it.
LEMMA ConservedKept ==
    ASSUME ConservedInv, settings' = settings,
           UNCHANGED <<output, queue, counts, emitted, lost, injections>>, errors \subseteq errors'
    PROVE  ConservedInv'
<1>1. Traffic' = Traffic
  BY TrafficStays
<1> QED BY <1>1 DEF ConservedInv, TrafficConserved, Traffic

\* What the invariant says of the numbers.
LEMMA Balanced ==
    ConservedInv <=>
       /\ IsFiniteSet(Traffic)
       /\ emitted = counts.multicast + Cardinality(Traffic)
       /\ counts.multicast = counts.local + counts.sent + lost
       /\ counts.processed + Cardinality(queue) = injections + counts.local + counts.sent
       /\ counts.sent = counts.received + Cardinality(Packets)
       /\ lost > 0 => "past" \in errors
BY DEF ConservedInv, TrafficConserved, Traffic, Packets

\* The same of the next state.
LEMMA BalancedNext ==
    ASSUME IsFiniteSet(Traffic'),
           emitted' = counts'.multicast + Cardinality(Traffic'),
           counts'.multicast = counts'.local + counts'.sent + lost',
           counts'.processed + Cardinality(queue') = injections' + counts'.local + counts'.sent,
           counts'.sent = counts'.received + Cardinality(Packets'),
           lost' > 0 => "past" \in errors'
    PROVE  ConservedInv'
BY DEF ConservedInv, TrafficConserved, Traffic, Packets

\* The copies of every spike stay accounted for.
LEMMA ConservedStep ==
    ASSUME TypeInv, ClockInv, ConservedInv, [Next]_vars
    PROVE  ConservedInv'
<1> DEFINE q == Cardinality(queue)
           p == Cardinality(Packets)
           owed == Cardinality(Traffic)
           done == counts.processed
           near == counts.local
           far == counts.sent
           came == counts.received
           copies == counts.multicast
<1>1. settings' = settings /\ Cores' = Cores /\ here \in Cores
      /\ \A c, n : Destinations(c, n)' = Destinations(c, n)
  BY SettingsStay, NetworkStays DEF TypeInv, FrameInv, here
<1>2. /\ emitted = copies + owed
      /\ copies = near + far + lost
      /\ done + q = injections + near + far
      /\ far = came + p
      /\ lost > 0 => "past" \in errors
      /\ IsFiniteSet(Traffic)
  BY Balanced
<1>3. q \in Nat /\ p \in Nat /\ owed \in Nat
  BY <1>1, <1>2, HeapCounts, FS_CardinalityType
<1>4. /\ done \in Nat /\ near \in Nat /\ far \in Nat /\ came \in Nat /\ copies \in Nat
      /\ counts \in CountsType /\ emitted \in Nat /\ lost \in Nat /\ injections \in Nat
  BY DEF TypeInv, CountsType
<1>0. /\ counts.processed = done /\ counts.local = near /\ counts.sent = far
      /\ counts.received = came /\ counts.multicast = copies
  OBVIOUS
<1> HIDE DEF done, near, far, came, copies
<1>5. errors \subseteq errors'
  BY DEF Next, Working, HostCall, Deliver, UpdateSynapse, FinishEvent, RouteSpike,
         FinishDelivery, EndRun, BeginReward, RewardSynapse, FinishReward, Inject, StartRun,
         StartReward, vars, Raise, Return
<1>6. ASSUME NEW c \in Cores, NEW a, NEW t, Inject(c, a, t)
      PROVE  ConservedInv'
  <2> DEFINE new == [time |-> t, core |-> c, axon |-> a, number |-> sequence + 1,
                     packet |-> FALSE]
  <2>1. /\ queue' = queue \cup {new} /\ injections' = injections + 1
        /\ UNCHANGED <<counts, output, emitted, lost>>
    BY <1>6 DEF Inject
  <2>2. new.number = sequence + 1 /\ ~new.packet
    OBVIOUS
  <2> HIDE DEF new
  <2>3. Cardinality(queue') = q + 1 /\ Cardinality(Packets') = p
    BY <1>1, <2>1, <2>2, HeapCounts
  <2>4. Traffic' = Traffic
    BY <1>1, <2>1, TrafficStays
  <2>5. /\ emitted' = counts'.multicast + Cardinality(Traffic')
        /\ counts'.multicast = counts'.local + counts'.sent + lost'
        /\ counts'.processed + Cardinality(queue') = injections' + counts'.local + counts'.sent
        /\ counts'.sent = counts'.received + Cardinality(Packets')
        /\ lost' > 0 => "past" \in errors'
        /\ IsFiniteSet(Traffic')
    <3> HIDE DEF q, p
    <3>1. done + (q + 1) = (injections + 1) + near + far
      BY <1>2, <1>3, <1>4
    <3> QED BY <1>0, <1>2, <1>5, <2>1, <2>3, <2>4, <3>1
  <2> QED BY <2>5, BalancedNext
<1>7. ASSUME NEW e \in queue, Deliver(e)
      PROVE  ConservedInv'
  <2> DEFINE one == IF e.packet THEN 1 ELSE 0
  <2>1. /\ queue' = queue \ {e} /\ UNCHANGED <<output, emitted, lost, injections>>
        /\ counts' = [counts EXCEPT !.processed = @ + 1, !.received = @ + one]
    BY <1>7 DEF Deliver, host
  <2>2. Cardinality(queue') = q - 1 /\ Cardinality(Packets') = p - one
    BY <1>1, <2>1, HeapCounts
  <2>3. one \in 0 .. 1
    OBVIOUS
  <2> HIDE DEF one
  <2>4. Traffic' = Traffic
    BY <1>1, <2>1, TrafficStays
  <2>5. /\ counts'.processed = done + 1 /\ counts'.received = came + one
        /\ counts'.multicast = copies /\ counts'.local = near
        /\ counts'.sent = far
    BY <1>4, <2>1 DEF CountsType, done, near, far, came, copies
  <2>6. /\ emitted' = counts'.multicast + Cardinality(Traffic')
        /\ counts'.multicast = counts'.local + counts'.sent + lost'
        /\ counts'.processed + Cardinality(queue') = injections' + counts'.local + counts'.sent
        /\ counts'.sent = counts'.received + Cardinality(Packets')
        /\ lost' > 0 => "past" \in errors'
        /\ IsFiniteSet(Traffic')
    <3> HIDE DEF q, p
    <3>1. (done + 1) + (q - 1) = injections + near + far
      BY <1>2, <1>3, <1>4
    <3>2. far = (came + one) + (p - one)
      BY <1>2, <1>3, <1>4, <2>3
    <3> QED BY <1>2, <1>5, <2>1, <2>2, <2>4, <2>5, <3>1, <3>2
  <2> QED BY <2>6, BalancedNext
<1>8. ASSUME UpdateSynapse
      PROVE  ConservedInv'
  <2>1. UNCHANGED <<queue, counts, lost, injections>>
    BY <1>8 DEF UpdateSynapse, host
  <2>2. CASE UNCHANGED <<output, emitted>>
    BY <1>1, <1>5, <2>1, <2>2, ConservedKept
  <2>3. CASE ~UNCHANGED <<output, emitted>>
    <3> DEFINE s == [neuron |-> Driven.target, time |-> current]
               m == Len(Destinations(here, s.neuron))
               new == CopiesOf(here, Len(output[here]) + 1, m)
    <3>1. output' = [output EXCEPT ![here] = Append(@, s)] /\ emitted' = emitted + m
      BY <1>8, <2>3, CrossedInOrder
    <3>2. s \in Spike(here)
      BY <1>1, <1>8, CrossedSynapse DEF Synapse, Spike, TypeInv
    <3>3. s.neuron \in 1 .. network.neurons[here]
      BY <3>2 DEF Spike
    <3> HIDE DEF s
    <3>4. m \in Nat
      BY <1>1, <3>3, DestinationsTyped DEF TypeInv
    <3>5. Traffic' = Traffic \cup new /\ Traffic \cap new = {}
      BY <1>1, <3>1, <3>2, PushedOwes DEF TypeInv
    <3> HIDE DEF m
    <3>6. IsFiniteSet(new) /\ Cardinality(new) = m
      BY <3>4, CopiesCounted
    <3> HIDE DEF new
    <3>7. IsFiniteSet(Traffic') /\ Cardinality(Traffic') = owed + m
      BY <1>2, <3>5, <3>6, CountedTogether
    <3>8. Packets' = Packets
      BY <2>1 DEF Packets
    <3>9. emitted + m = copies + (owed + m)
      BY <1>2, <1>3, <1>4, <3>4
    <3>10. /\ emitted' = counts'.multicast + Cardinality(Traffic')
           /\ counts'.multicast = counts'.local + counts'.sent + lost'
           /\ counts'.processed + Cardinality(queue') = injections' + counts'.local + counts'.sent
           /\ counts'.sent = counts'.received + Cardinality(Packets')
           /\ lost' > 0 => "past" \in errors'
           /\ IsFiniteSet(Traffic')
      <4>1. Cardinality(queue') = q /\ Cardinality(Packets') = p
        BY <2>1, <3>8
      <4> HIDE DEF q, p, owed
      <4> QED BY <1>0, <1>2, <1>5, <2>1, <3>1, <3>7, <3>9, <4>1
    <3> QED BY <3>10, BalancedNext
  <2> QED BY <2>2, <2>3
<1>9. ASSUME RouteSpike
      PROVE  ConservedInv'
  <2> DEFINE spike == Head(output[here])
             m == Len(Destinations(here, spike.neuron))
             l == Len(network.local[here][spike.neuron])
             new == Entries(here, spike.neuron, spike.time)
  <2>1. /\ output[here] # <<>> /\ spike \in Spike(here) /\ m \in Nat /\ l \in 0 .. m
        /\ output' = [output EXCEPT ![here] = Tail(@)]
    BY <1>9, RouteOutcome
  <2>2. spike.neuron \in 1 .. network.neurons[here] /\ spike.time \in Nat
    BY <2>1 DEF Spike
  <2>3. /\ IsFiniteSet(Traffic') /\ owed = Cardinality(Traffic') + m
        /\ Cardinality(Traffic') \in Nat
    BY <1>1, <1>2, <2>1, RoutedOwes DEF TypeInv
  <2>4. UNCHANGED <<emitted, injections>>
    BY <1>9 DEF RouteSpike, host
  <2>5. \/ /\ m = 0 /\ counts' = [counts EXCEPT !.unrouted = @ + 1]
           /\ UNCHANGED <<queue, lost>>
        \/ /\ queue' = queue /\ lost' = lost + m /\ "past" \in errors'
           /\ counts' = [counts EXCEPT !.multicast = @ + m]
        \/ /\ queue' = queue \cup new /\ lost' = lost
           /\ counts' = [counts EXCEPT !.multicast = @ + m, !.local = @ + l, !.sent = @ + m - l]
    BY <1>9, RouteOutcome
  <2>6. queue' = queue \cup new =>
           Cardinality(queue') = q + m /\ Cardinality(Packets') = p + m - l
    BY <1>1, <2>2, HeapCounts
  <2>7. queue' = queue => Cardinality(queue') = q /\ Cardinality(Packets') = p
    BY DEF Packets
  <2> DEFINE rest == Cardinality(Traffic')
  <2> HIDE DEF q, p, owed, new, m, l, spike, rest
  <2>8. /\ rest \in Nat /\ owed = rest + m
    BY <2>3 DEF rest
  <2>9. l \in Nat /\ m \in Nat
    BY <2>1
  <2> DEFINE Balance == /\ emitted' = counts'.multicast + rest
                        /\ counts'.multicast = counts'.local + counts'.sent + lost'
                        /\ counts'.processed + Cardinality(queue')
                              = injections' + counts'.local + counts'.sent
                        /\ counts'.sent = counts'.received + Cardinality(Packets')
                        /\ lost' > 0 => "past" \in errors'
  <2>10. ASSUME m = 0, counts' = [counts EXCEPT !.unrouted = @ + 1], UNCHANGED <<queue, lost>>
        PROVE  Balance
    <3>1. /\ counts'.processed = done /\ counts'.received = came
          /\ counts'.multicast = copies /\ counts'.local = near
          /\ counts'.sent = far
      BY <1>4, <2>10 DEF CountsType, done, near, far, came, copies
    <3>2. owed = rest
      BY <2>8, <2>10
    <3> QED BY <1>2, <1>5, <2>4, <2>7, <2>10, <3>1, <3>2
  <2>11. ASSUME queue' = queue, lost' = lost + m, "past" \in errors',
                counts' = [counts EXCEPT !.multicast = @ + m]
         PROVE  Balance
    <3>1. /\ counts'.processed = done /\ counts'.received = came
          /\ counts'.multicast = copies + m /\ counts'.local = near
          /\ counts'.sent = far
      BY <1>4, <2>11 DEF CountsType, done, near, far, came, copies
    <3>2. emitted = (copies + m) + rest
      BY <1>2, <1>4, <2>1, <2>8
    <3>3. copies + m = near + far + (lost + m)
      BY <1>2, <1>4, <2>1
    <3> QED BY <1>2, <2>4, <2>7, <2>11, <3>1, <3>2, <3>3
  <2>12. ASSUME queue' = queue \cup new, lost' = lost,
                counts' = [counts EXCEPT !.multicast = @ + m, !.local = @ + l, !.sent = @ + m - l]
         PROVE  Balance
    <3>1. /\ counts'.processed = done /\ counts'.received = came
          /\ counts'.multicast = copies + m /\ counts'.local = near + l
          /\ counts'.sent = far + m - l
      BY <1>4, <2>12 DEF CountsType, done, near, far, came, copies
    <3>2. emitted = (copies + m) + rest
      BY <1>2, <1>4, <2>1, <2>8
    <3>3. (near + l) + (far + m - l) = near + far + m
      BY <1>4, <2>9
    <3>4. copies + m = (near + l) + (far + m - l) + lost
      BY <1>2, <1>4, <2>9, <3>3
    <3>5. done + (q + m) = injections + (near + l) + (far + m - l)
      BY <1>2, <1>3, <1>4, <2>9
    <3>6. far + m - l = came + (p + m - l)
      BY <1>2, <1>3, <1>4, <2>9
    <3> QED BY <1>2, <1>5, <2>4, <2>6, <2>12, <3>1, <3>2, <3>4, <3>5, <3>6
  <2> HIDE DEF Balance
  <2>13. Balance
    BY <2>5, <2>10, <2>11, <2>12
  <2> QED BY <2>3, <2>13, BalancedNext DEF Balance, rest
<1>10. ASSUME \/ FinishEvent \/ FinishDelivery \/ EndRun \/ BeginReward \/ RewardSynapse
              \/ FinishReward \/ UNCHANGED vars
              \/ \E limit, raises : StartRun(limit, raises)
              \/ \E first, last, value, t : StartReward(first, last, value, t)
       PROVE  ConservedInv'
  <2>1. UNCHANGED <<output, queue, counts, emitted, lost, injections>>
    BY <1>10 DEF FinishEvent, FinishDelivery, EndRun, BeginReward, RewardSynapse, FinishReward,
                 StartRun, StartReward, vars, host
  <2> QED BY <1>1, <1>5, <2>1, ConservedKept
<1>11. ASSUME Working PROVE ConservedInv'
  BY <1>7, <1>8, <1>9, <1>10, <1>11 DEF Working
<1>12. ASSUME HostCall PROVE ConservedInv'
  BY <1>6, <1>10, <1>12, Zenon DEF HostCall
<1> QED BY <1>10, <1>11, <1>12 DEF Next
\* Initially there is no traffic.
LEMMA InitConserved == ASSUME Init PROVE ConservedInv
<1>1. Traffic = {}
  <2>1. \A c \in Cores : output[c] = <<>>
    BY DEF Init
  <2>2. \A c \in Cores : Owed(c) = {}
    BY <2>1 DEF Owed
  <2> QED BY <2>2 DEF Traffic
<1>2. Packets = {}
  BY DEF Init, Packets
<1>3. IsFiniteSet({}) /\ Cardinality({}) = 0
  BY FS_EmptySet
<1> QED BY <1>1, <1>2, <1>3, Balanced DEF Init

\* The traffic is accounted for in every state of every run.
LEMMA ConservedInvariant == Spec => []ConservedInv
<1>1. Init => ConservedInv
  BY InitConserved
<1>2. EventInv /\ ConservedInv /\ [Next]_vars => ConservedInv'
  BY ConservedStep DEF EventInv
<1> QED BY <1>1, <1>2, EventInvariant, PTL DEF Spec

\* No copy of a spike is made up, delivered twice or lost, for every network, every
\* fan-out and every run, except those that an exception in the middle of routing loses.
THEOREM CopiesConserved == Spec => []TrafficConserved
<1>1. ConservedInv => TrafficConserved
  BY DEF ConservedInv
<1> QED BY <1>1, ConservedInvariant, PTL
=============================================================================
