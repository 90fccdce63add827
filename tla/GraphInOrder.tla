---------------------------- MODULE GraphInOrder ----------------------------
(***************************************************************************)
(* What the threads that share a graph promise together: every chunk of    *)
(* every node is computed once, no node is begun before those it may read  *)
(* from are complete, and a graph that ends in success is complete.        *)
(***************************************************************************)
EXTENDS Naturals

CONSTANT Nodes    \* the indices of the graph's nodes, in their order

VARIABLES width,  \* width[n]: chunks of node n
          done,   \* done[n][c]: how often chunk c of node n was computed
          status  \* "computing", then what the graph ends in

vars == <<width, done, status>>

Init ==
  /\ width \in [Nodes -> Nat]
  /\ done = [n \in Nodes |-> [c \in DOMAIN done[n] |-> 0]]
  /\ status = "computing"

Complete(n) == \A c \in 0..(width[n] - 1) : done[n][c] = 1

Compute(n, c) ==
  /\ status = "computing"
  /\ done[n][c] = 0
  /\ \A m \in Nodes : m < n => Complete(m)
  /\ done' = [done EXCEPT ![n][c] = 1]
  /\ UNCHANGED <<width, status>>

End(s) ==
  /\ status = "computing"
  /\ s = "success" => \A n \in Nodes : Complete(n)
  /\ status' = s
  /\ UNCHANGED <<width, done>>

Next ==
  \/ \E n \in Nodes : \E c \in 0..(width[n] - 1) : Compute(n, c)
  \/ \E s \in {"success", "aborted"} : End(s)

Spec == Init /\ [][Next]_vars
=============================================================================
