---------------------------- MODULE MCThreadPool ----------------------------
(* Two graphs of one node for two workers, with pauses and a free.          *)
EXTENDS ThreadPool

OneChunk == [n \in 0..0 |-> 1]
=============================================================================
