---------------------------- MODULE MCSendQueue ----------------------------
(* Small instances of SendQueue.                                            *)
EXTENDS SendQueue, TLC

CONSTANTS c1, c2, short, other, long

MCSize == [m \in {short, long} |-> IF m = short THEN 1 ELSE 3]
MCSizeShort == [m \in {short, other} |-> 1]
=============================================================================
