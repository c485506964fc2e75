---------------------------- MODULE ProgramChecks ----------------------------
(***************************************************************************)
(* What the machines demand of a compiled program before they run it:      *)
(* validate_reference_program of mini_loihi/reference_backend.py,          *)
(* validate_compiled_program of mini_loihi/artifacts.py and the checks of  *)
(* mini_loihi/hardware_ir.py; and of an input event before they queue it.  *)
(***************************************************************************)
EXTENDS Compiler

\* CompiledProgram.__post_init__.
CoresNumbered(program) ==
    \A c \in DOMAIN program.cores : program.cores[c].core_id = c

\* validate_compiled_program: the usage report and the fan-out ranges.
ReportMatches(image, usage) ==
    /\ usage.neurons = Len(image.neurons) /\ usage.axons = Len(image.axon_fanout_ptr)
    /\ usage.synapses = Len(image.synapses)
RangesInside(image) ==
    \A a \in DOMAIN image.axon_fanout_ptr :
        /\ image.axon_fanout_ptr[a] >= 1 /\ image.axon_fanout_len[a] >= 0
        /\ image.axon_fanout_ptr[a] + image.axon_fanout_len[a] - 1 <= Len(image.synapses)
AcceptedArtifact(program) ==
    \A c \in DOMAIN program.cores :
        ReportMatches(program.cores[c], program.usage[c]) /\ RangesInside(program.cores[c])

\* _validate_core_image.  The parameters of every neuron fit their formats.
NeuronValid(n, a) ==
    /\ Fits(n.threshold, a.threshold)
    /\ \A v \in {n.reset, n.leak, n.voltage} : Fits(v, a.state)
    /\ \A v \in {n.adaptation, n.adaptation_increment, n.adaptation_decay} : Fits(v, a.adaptation)
    /\ n.leak >= 0 /\ n.adaptation_increment >= 0 /\ n.adaptation_decay >= 0
    /\ n.alif \/ (n.adaptation = 0 /\ n.adaptation_increment = 0 /\ n.adaptation_decay = 0)

\* The fan-outs follow each other without gap or overlap and cover the synapses.
CsrExact(image) ==
    LET after(a) == image.axon_fanout_ptr[a] + image.axon_fanout_len[a]
        axons == Len(image.axon_fanout_ptr)
    IN  /\ \A a \in 1 .. axons : image.axon_fanout_len[a] >= 0
                                 /\ image.axon_fanout_ptr[a] = IF a = 1 THEN 1 ELSE after(a - 1)
        /\ Len(image.synapses) = IF axons = 0 THEN 0 ELSE after(axons) - 1

\* The baseline machines run no learning rule.
SynapseValid(s, image, a) ==
    /\ s.target \in DOMAIN image.neurons
    /\ Fits(s.weight, a.weight) /\ 0 <= s.delay /\ s.delay <= a.max_timestamp
    /\ s.rule = 0 /\ s.tag = 0

CoreImageValid(image, usage, a) ==
    /\ WithinCapacity(usage, a)
    /\ ReportMatches(image, usage)
    /\ \A n \in ToSet(image.neurons) : NeuronValid(n, a)
    /\ Len(image.axon_fanout_ptr) = Len(image.axon_fanout_len)
    /\ CsrExact(image)
    /\ \A s \in ToSet(image.synapses) : SynapseValid(s, image, a)

\* _validate_routes.
RouteValid(program, r, a) ==
    /\ r.source_core \in DOMAIN program.cores /\ r.core \in DOMAIN program.cores
    /\ r.source_core <= a.source_cores /\ r.core <= a.destination_cores
    /\ r.source_neuron <= a.source_neurons /\ r.axon <= a.destination_axons
    /\ r.source_neuron \in DOMAIN program.cores[r.source_core].neurons
    /\ r.axon \in DOMAIN program.cores[r.core].axon_fanout_ptr

RoutesValid(program, a) ==
    LET routes == program.global_routing_image
    IN  /\ \A i \in 2 .. Len(routes) : RouteBefore(routes[i - 1], routes[i])
        /\ \A r \in ToSet(routes) : RouteValid(program, r, a)
        /\ \A c \in DOMAIN program.cores :
             LET expected == SelectSeq(routes, LAMBDA r : r.source_core = c)
             IN  /\ program.cores[c].routing_entries = expected
                 /\ Len(expected) <= a.routes
                 /\ program.usage[c].routes = Len(expected)

\* validate_reference_program.
AcceptedProgram(program, a) ==
    /\ Len(program.cores) <= CoreCapacity(a)
    /\ \A c \in DOMAIN program.cores : CoreImageValid(program.cores[c], program.usage[c], a)
    /\ RoutesValid(program, a)

\* _validate_input_event: inject refuses any other event.
AcceptedEvent(program, a, e, current_tick) ==
    /\ 0 <= e.timestamp /\ e.timestamp <= a.max_timestamp
    /\ e.timestamp >= current_tick
    /\ e.core \in DOMAIN program.cores
    /\ e.axon \in DOMAIN program.cores[e.core].axon_fanout_ptr
    /\ Fits(e.payload, a.payload)

\* validate_logical_tick_ids.
LogicalTicks(ids, a) ==
    /\ \A i \in DOMAIN ids : 0 <= ids[i] /\ ids[i] <= a.max_timestamp
    /\ \A i \in 2 .. Len(ids) : ids[i - 1] < ids[i]
==============================================================================
