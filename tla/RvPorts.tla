------------------------------ MODULE RvPorts -------------------------------
(***************************************************************************)
(* The ready/valid ports of rtl/common: what a port carries in a cycle, a  *)
(* payload or nothing.                                                     *)
(***************************************************************************)
CONSTANTS
    Payload,   \* the words a port can carry
    None       \* no handshake at this edge

ASSUME PortAssumption == None \notin Payload
=============================================================================
