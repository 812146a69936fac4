--------------------------- MODULE MCDropTailQueue ---------------------------
(* DropTailQueue with limits in packets and in bytes, and counters that     *)
(* wrap within a few operations.                                            *)
EXTENDS DropTailQueue

MCItemSizes == {1, 3}
MCInitialMax == QueueSize("PACKETS", 2)
MCMaxSizes == {QueueSize("PACKETS", 0), QueueSize("PACKETS", 1),
               QueueSize("BYTES", 4)}
=============================================================================
