------------------------- MODULE MCPointToPointLink -------------------------
(* Two devices; packets that take one or two units of time to transmit;     *)
(* queues limited in bytes, small enough to overflow.                       *)
EXTENDS PointToPointLink

CONSTANTS a, b

MCDev == {a, b}
MCSizes == {1, 2}
MCTxTime == [s \in MCSizes |-> s]
MCBytes3 == QueueSize("BYTES", 3)
=============================================================================
