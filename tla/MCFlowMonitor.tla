---------------------------- MODULE MCFlowMonitor ----------------------------
(* FlowMonitor with a flow inside a leaf and one between leaves. *)
EXTENDS FlowMonitor, TLC

CONSTANTS local, fabric

MCHops == (local :> 1) @@ (fabric :> 3)
MCMaxPackets == (local :> 2) @@ (fabric :> 1)
=============================================================================
