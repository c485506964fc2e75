----------------------------- MODULE CycleOnline -----------------------------
(***************************************************************************)
(* The cycle machine used online: events are presented between its cycles, *)
(* and a harness may place packets in the routers.  The history variable   *)
(* orderly says that nothing has come too late or out of order so far.     *)
(***************************************************************************)
EXTENDS CycleProperties

VARIABLE orderly

\* What the machine can still process in its tick: an event of the active tick only in
\* the work phase, and behind no later event of its core.
InTime(e) ==
    /\ tick_active /\ phase # "work" => e.timestamp > logical_tick
    /\ \A q \in ToSet(external_ingress_fifo[e.core]) : q.timestamp <= e.timestamp

OnlineInit == Init /\ orderly = TRUE

OnlineNext ==
    \/ /\ Presented < MaxEvents
       /\ \E e \in HostEvents : PresentInput(e) /\ orderly' = (orderly /\ InTime(e))
    \/ /\ \E p \in HostPackets : p.event_id >= next_event_id /\ InjectRouterPacket(p)
       /\ orderly' = FALSE
    \/ (CloseInputs \/ Run) /\ UNCHANGED orderly

OnlineSpec == OnlineInit /\ [][OnlineNext]_<<vars, orderly>>

\* With an orderly host nothing in the machine is ever late, whatever the cycle at which
\* an event arrives (present_input checks the tick alone, not the phase or the FIFO).
NothingOverdueInTime == orderly => NothingOverdue

\* With an orderly host a tick still completes only when all that is due in it was done.
BarrierContractInTime == orderly => BarrierContract
==============================================================================
