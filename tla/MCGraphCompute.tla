--------------------------- MODULE MCGraphCompute ---------------------------
(* Up to three threads: a node of a chunk each, a NOP, a node of many.      *)
EXTENDS GraphCompute

MCChunks == [n \in 0..2 |-> IF n = 0 THEN 1 ELSE IF n = 1 THEN 0 ELSE 12]
=============================================================================
