-------------------------- MODULE MCGraphAllocator --------------------------
(* Every graph of two leafs and three nodes of one or two sources, the last *)
(* of which is of the larger size or a view.                               *)
EXTENDS GraphAllocator

MCSizes == {2, 3}

Leaf(size, external) ==
  [src |-> <<>>, view |-> 0, size |-> size, inplace |-> FALSE,
   external |-> external, output |-> FALSE]

\* The nodes that may come after the tensors of g: operations, of which the first may
\* be an output, and views.
MCNodes(g) ==
  LET all == 1..Len(g)
      sources == {<<p>> : p \in all} \cup {<<p, q>> : p \in all, q \in all}
      root(p) == IF g[p].view = 0 THEN p ELSE g[p].view
      operations == [src : {s \in sources : Len(s) = 2 => s[1] <= s[2]}, view : {0},
                     size : IF Len(g) = 4 THEN {3} ELSE MCSizes, inplace : BOOLEAN, external : {FALSE},
                     output : IF Len(g) = 2 /\ ~g[2].external THEN BOOLEAN ELSE {FALSE}]
      views == {[src |-> <<p>>, view |-> root(p), size |-> 2, inplace |-> FALSE,
                 external |-> FALSE, output |-> FALSE] : p \in all}
  IN  views \cup {n \in operations : n.inplace => \E p \in Range(n.src) : g[p].size = n.size}

MCLeafs == {<<Leaf(3, FALSE), Leaf(2, e)>> : e \in BOOLEAN}

\* The same graph again, for a larger or a smaller batch.
MCLater(g) == {[t \in DOMAIN g |-> [g[t] EXCEPT !.size = n]] : n \in MCSizes}
=============================================================================
