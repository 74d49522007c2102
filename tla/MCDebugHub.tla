------------------------- MODULE MCDebugHub -------------------------
(* Values of the constants of DebugHub for TLC. *)
EXTENDS DebugHub

CONSTANTS w1, w2, h1, h2

MCWorkers == {w1, w2}
MCStreams == {h1, h2}
MCSizeOf == [w \in MCWorkers |-> IF w = w1 THEN 1 ELSE 2]
=============================================================================
