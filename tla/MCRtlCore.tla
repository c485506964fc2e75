----------------------------- MODULE MCRtlCore ------------------------------
EXTENDS RtlProperties, RtlFixtures, Presets

\* The profile the RTL is generated for.
MCAccumulator == Signed(V70Rtl.accumulator_width)
MCMembrane == Signed(V70Rtl.state_width)
MCIngressDepth == V70Rtl.ingress_fifo_depth
MCSpikeDepth == V70Rtl.spike_fifo_depth
MCSynapseLanes == V70Rtl.synapse_lanes

Never == [kind |-> "window", start |-> 0, length |-> 0]
Windows == {[kind |-> "window", start |-> 0, length |-> n] : n \in {24, 60, 75}}
Others == {[kind |-> "window", start |-> s, length |-> n] : s \in {50, 58}, n \in {3, 30}}
          \cup {[kind |-> "alternating", start |-> s, length |-> 0] : s \in {0, 20}}
Free == [kind |-> "any", start |-> 0, length |-> 0]

Spiking == {Biased("spike_density"), SpikingReadycut(9), Mixed, Backlog(15)}
Dense == {DenseReadycut(9), Biased("touched_density")}
AllFixtures == {Demo, Mixed} \cup {Biased(c) : c \in SeedClasses} \cup Spiking \cup Dense

Setting(f, p, s, e) ==
    [fixture |-> f, profile |-> p, stall |-> s, early |-> e, dense |-> f \in Dense /\ s = Never]

Profiles == {"mempipe", "lifpipe", "readycut"}
MCSettings ==
    {Setting(f, p, Never, e) : f \in AllFixtures, p \in Profiles, e \in BOOLEAN}
    \cup {Setting(f, p, s, FALSE) : f \in Spiking, p \in Profiles, s \in Windows \cup {Free}}
    \cup {Setting(f, "readycut", s, FALSE) : f \in Spiking, s \in Others}
=============================================================================
