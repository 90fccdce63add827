------------------------ MODULE GraphAllocatorProofs ------------------------
(***************************************************************************)
(* The memory of graphs, for any leafs, nodes, sizes, alignment and chunks.*)
(*                                                                         *)
(* Three things are kept while memory is reserved.  The chunks are laid    *)
(* out with the regions in use: Lay, which an allocation and a free keep,  *)
(* whatever the regions are for.  The counts of a tensor are the reads and *)
(* views of it that are still to come: Counted, and so what is unread is   *)
(* needed no more.  And what was placed is apart from what was placed      *)
(* before it and is needed still: PlacedIntact, which no later step can    *)
(* change, as addresses are never moved.  Once the memory is found, the    *)
(* last of these is all that is left: Fitting, which a graph in other      *)
(* sizes keeps for as long as none of its tensors has outgrown its place.  *)
(***************************************************************************)
EXTENDS GraphAllocator, FiniteSetTheorems, WellFoundedInduction, TLAPS

-----------------------------------------------------------------------------
(* The memory of the chunks.                                               *)

Chunk == [free : SUBSET [offset : Nat, size : Nat \ {0}], max_size : Nat]

End(b) == b.offset + b.size

\* Regions of memory of different chunks, or one before the other.
Disjoint(r, s) == r.chunk # s.chunk \/ End(r) <= s.offset \/ End(s) <= r.offset

\* x is in a free block of chunk c, or in one of the regions.
Somewhere(cs, regions, c, x) ==
  \/ \E b \in cs[c].free : b.offset <= x /\ x < End(b)
  \/ \E r \in regions : r.chunk = c /\ r.offset <= x /\ x < End(r)

\* The free blocks of the chunks and the regions in use.  All memory up to the end of
\* a region or of a block is in one of them.
Lay(cs, regions) ==
  /\ cs \in Seq(Chunk)
  /\ \A r \in regions : /\ r \in [chunk : DOMAIN cs, offset : Nat, size : Nat \ {0}]
                         /\ End(r) <= cs[r.chunk].max_size
  /\ \A r, s \in regions : r # s => Disjoint(r, s)
  /\ \A c \in DOMAIN cs : \A b, d \in cs[c].free :
       b # d /\ b.offset <= d.offset => End(b) < d.offset
  /\ \A r \in regions : \A b \in cs[r.chunk].free : End(b) <= r.offset \/ End(r) <= b.offset
  /\ \A c \in DOMAIN cs :
       /\ \A x \in 0..(cs[c].max_size - 1) : Somewhere(cs, regions, c, x)
       /\ \A b \in cs[c].free : \A x \in 0..(End(b) - 1) : Somewhere(cs, regions, c, x)

-----------------------------------------------------------------------------
(* The invariant.                                                          *)

Tensor == [src : Seq(Nat), view : Nat, size : Sizes,
           inplace : BOOLEAN, external : BOOLEAN, output : BOOLEAN]

\* Tensors come after what they read and what they are views of.
WellFormed(g) ==
  /\ g \in Seq(Tensor) /\ Len(g) >= NLeafs
  /\ \A t \in DOMAIN g :
       /\ Len(g[t].src) <= GGML_MAX_SRC
       /\ \A k \in DOMAIN g[t].src : g[t].src[k] \in 1..(t - 1)
       /\ g[t].view < t /\ (g[t].view # 0 => g[g[t].view].view = 0)
  /\ \A t \in 1..NLeafs : g[t].src = <<>> /\ g[t].view = 0

\* Finished, and all leafs are read.
Whole(g) == WellFormed(g) /\ Len(g) = NLeafs + NNodes
            /\ \A l \in 1..NLeafs : ReadsOf(g, l) # {}

Hash == [n_children : Int, n_views : Int, addr : [chunk : Nat, offset : Nat], allocated : BOOLEAN]

TypeInv ==
  /\ phase \in {"build", "leafs", "nodes", "ready"}
  /\ IF phase = "build" THEN WellFormed(graph) /\ Len(graph) < NLeafs + NNodes ELSE Whole(graph)
  /\ hash \in [DOMAIN graph -> Hash]
  /\ phase \in {"build", "ready"} => at = 1 /\ j = 0 /\ chunks = <<>> /\ hash = NoHash(graph)
  /\ phase = "leafs" => at \in 1..(NLeafs + 1) /\ j = 0
  /\ phase = "nodes" => /\ at \in (NLeafs + 1)..(Len(graph) + 1) /\ j \in Nat
                        /\ j # 0 => at <= Len(graph) /\ j \in DOMAIN graph[at].src
  /\ DOMAIN buffer \subseteq Nat /\ \A c \in DOMAIN buffer : buffer[c] \in Nat

\* The tensors that were given memory.
Placed == {t \in Own : t < at \/ (t = at /\ j # 0)}
Allocated == {t \in DOMAIN graph : hash[t].allocated}

SizeOf(t) == Aligned(graph[t].size)
Region(t) == [chunk |-> hash[t].addr.chunk, offset |-> hash[t].addr.offset, size |-> SizeOf(t)]

\* The chunks are laid out with the memory of the tensors that have some, each its own.
Layout ==
  /\ Allocated \subseteq Placed
  /\ \A t, u \in Allocated : Region(t) = Region(u) => t = u
  /\ Lay(chunks, {Region(t) : t \in Allocated})

\* The reads and the views that are still to come.
Pending(t) ==
  {r \in ReadsOf(graph, t) : r.node > at \/ (r.node = at /\ r.k >= j)}
Waiting(t) ==
  {x \in ViewsOf(graph, t) : Pending(x) # {} \/ ReadsOf(graph, x) = {}}

Counted ==
  phase = "nodes" =>
    \A t \in DOMAIN graph : /\ hash[t].n_children = Cardinality(Pending(t))
                            /\ hash[t].n_views = Cardinality(Waiting(t))

\* A node that has no memory yet, or a later one, still reads t; or its caller does.
Needed(t) ==
  \E n \in Readers(t) : n > at \/ (n = at /\ j = 0)

\* What is needed is there.
Kept == \A t \in Placed : phase = "leafs" \/ Needed(t) => hash[t].allocated

\* Memory that was given away is where it was.
PlacedWithin ==
  \A t \in Placed : /\ hash[t].addr.chunk \in DOMAIN chunks
                     /\ hash[t].addr.offset + SizeOf(t) <= chunks[hash[t].addr.chunk].max_size

\* SourcesIntact of the tensors that were given memory.
PlacedIntact ==
  \A t, w \in Placed : t # w /\ Written(t) <= Written(w) =>
    \A n \in Readers(t) : w <= n =>
      \/ Disjoint(Region(t), Region(w))
      \/ w = n /\ InPlace(w, t) /\ hash[w].addr = hash[t].addr

Reserving == Layout /\ Counted /\ Kept /\ PlacedWithin /\ PlacedIntact

\* The graph is the one that the addresses were found for, in other sizes, and no tensor
\* is larger than then.
Fitting ==
  LET own == {t \in DOMAIN reserved : reserved[t].view = 0 /\ ~reserved[t].external}
  IN  /\ reserved \in Seq(Tensor) /\ SameGraph(reserved, graph)
      /\ \A t \in own : /\ graph[t].size <= reserved[t].size
                         /\ addr[t] \in [chunk : DOMAIN buffer, offset : Nat]
                         /\ addr[t].offset + reserved[t].size <= buffer[addr[t].chunk]
      /\ \A t, w \in own : t # w /\ Written(t) <= Written(w) =>
           \A n \in Readers(t) : w <= n =>
             \/ Apart(addr[t], reserved[t].size, addr[w], reserved[w].size)
             \/ w = n /\ InPlace(w, t) /\ addr[w] = addr[t]

IInv ==
  /\ TypeInv
  /\ phase \in {"leafs", "nodes"} => Reserving
  /\ phase = "ready" => Fitting

-----------------------------------------------------------------------------
(* Numbers, and what an allocation finds.                                  *)

\* Aligned rounds up: to a number that is no smaller, and positive for a positive one.
LEMMA AlignedSize ==
  ASSUME NEW n \in Nat \ {0}
  PROVE  Aligned(n) \in Nat /\ Aligned(n) >= n
<1>1. Alignment \in Nat \ {0}
  BY TallocrAssumption
<1>2. ASSUME NEW a \in Nat \ {0}, NEW x \in Nat
      PROVE  (x + a - 1) \div a \in Nat /\ ((x + a - 1) \div a) * a >= x
  OBVIOUS
<1> QED BY <1>1, <1>2 DEF Aligned

\* Max of two numbers is one of them, and no smaller than either.
LEMMA MaxOfTwo ==
  ASSUME NEW a \in Int, NEW b \in Int
  PROVE  Max({a, b}) \in {a, b} /\ Max({a, b}) >= a /\ Max({a, b}) >= b
<1> DEFINE P(m) == m \in {a, b} /\ \A y \in {a, b} : m >= y
<1>1. \E m : P(m)
  <2>1. CASE a >= b
    BY <2>1
  <2>2. CASE b >= a
    BY <2>2
  <2> QED BY <2>1, <2>2
<1>2. Max({a, b}) = CHOOSE m : P(m)
  BY Zenon DEF Max
<1> HIDE DEF P
<1>3. P(Max({a, b}))
  BY <1>1, <1>2, Zenon
<1> QED BY <1>3 DEF P

\* The number of a set that no other exceeds is its Max.
LEMMA MaxIs ==
  ASSUME NEW S \in SUBSET Int, NEW m \in S, \A y \in S : m >= y
  PROVE  Max(S) = m
<1>1. \E x \in S : \A y \in S : x >= y
  OBVIOUS
<1>2. PICK x : x = Max(S)
  OBVIOUS
<1>3. x \in S /\ \A y \in S : x >= y
  BY <1>1, <1>2 DEF Max
<1>4. x = m
  BY <1>3
<1> QED BY <1>2, <1>4

\* The number of a set that exceeds no other is its Min.
LEMMA MinIs ==
  ASSUME NEW S \in SUBSET Int, NEW m \in S, \A y \in S : m <= y
  PROVE  Min(S) = m
<1>1. \E x \in S : \A y \in S : x <= y
  OBVIOUS
<1>2. PICK x : x = Min(S)
  OBVIOUS
<1>3. x \in S /\ \A y \in S : x <= y
  BY <1>1, <1>2 DEF Min
<1>4. x = m
  BY <1>3
<1> QED BY <1>2, <1>4

\* What is found is a free block, large enough.
LEMMA FoundFits ==
  ASSUME NEW cs, NEW n, NEW a \in Found(cs, n)
  PROVE  /\ a.chunk \in DOMAIN cs /\ a.block \in cs[a.chunk].free
         /\ a.block.size >= n /\ a.offset = a.block.offset
<1>1. CASE a \in BestFit(cs, n)
  BY <1>1 DEF BestFit, Address
<1>2. CASE a \in BestLast(cs, n)
  BY <1>2 DEF BestLast, Address
<1> QED BY <1>1, <1>2 DEF Found

-----------------------------------------------------------------------------
(* The layout of the chunks, whatever the regions are for.                 *)

\* A region taken from the start of a free block is apart from the others.
LEMMA TakeLay ==
  ASSUME NEW cs, NEW regions, Lay(cs, regions), NEW c \in DOMAIN cs, NEW b \in cs[c].free,
         NEW n \in Nat \ {0}, b.size >= n
  PROVE  LET r == [chunk |-> c, offset |-> b.offset, size |-> n]
         IN  /\ Lay([cs EXCEPT ![c] = Take(@, b, n)], regions \cup {r})
             /\ \A s \in regions : Disjoint(s, r)
             /\ r \notin regions
<1> DEFINE r == [chunk |-> c, offset |-> b.offset, size |-> n]
           rest == IF b.size = n THEN {} ELSE {Block(b.offset + n, b.size - n)}
           free == (cs[c].free \ {b}) \cup rest
           top == Max({cs[c].max_size, b.offset + n})
           next == [cs EXCEPT ![c] = Take(@, b, n)]
<1>1. /\ DOMAIN cs = 1..Len(cs) /\ Len(cs) \in Nat /\ \A d \in DOMAIN cs : cs[d] \in Chunk
      /\ \A s \in regions : /\ s \in [chunk : DOMAIN cs, offset : Nat, size : Nat \ {0}]
                            /\ End(s) <= cs[s.chunk].max_size
  <2>1. DOMAIN cs = 1..Len(cs) /\ \A d \in DOMAIN cs : cs[d] \in Chunk
    BY DEF Lay
  <2>2. \A s \in regions : /\ s \in [chunk : DOMAIN cs, offset : Nat, size : Nat \ {0}]
                           /\ End(s) <= cs[s.chunk].max_size
    BY DEF Lay
  <2>3. Len(cs) \in Nat
    BY <2>1 DEF Lay
  <2> QED BY <2>1, <2>2, <2>3
<1>2. /\ b \in [offset : Nat, size : Nat \ {0}] /\ cs[c].max_size \in Nat
      /\ \A d \in cs[c].free : d \in [offset : Nat, size : Nat \ {0}]
  BY <1>1 DEF Chunk
<1>3. top \in Nat /\ top >= cs[c].max_size /\ top >= b.offset + n
      /\ top \in {cs[c].max_size, b.offset + n}
  <2>1. cs[c].max_size \in Int /\ b.offset + n \in Int /\ b.offset + n \in Nat
    BY <1>2
  <2>2. top \in {cs[c].max_size, b.offset + n} /\ top >= cs[c].max_size /\ top >= b.offset + n
    BY <2>1, MaxOfTwo
  <2> HIDE DEF top
  <2> QED BY <1>2, <2>1, <2>2
<1>4. \A d \in rest : /\ d \in [offset : Nat, size : Nat \ {0}]
                      /\ d.offset = b.offset + n /\ End(d) = End(b)
  BY <1>2 DEF Block, End
<1>5. /\ DOMAIN next = DOMAIN cs /\ Len(next) = Len(cs)
      /\ next[c] = [free |-> free, max_size |-> top]
      /\ \A d \in DOMAIN cs \ {c} : next[d] = cs[d]
  <2>1. DOMAIN next = DOMAIN cs /\ \A d \in DOMAIN cs \ {c} : next[d] = cs[d]
    BY <1>1
  <2>2. next[c] = [free |-> free, max_size |-> top]
    BY DEF Take
  <2>3. Len(next) = Len(cs)
    BY <1>1, <2>1
  <2> QED BY <2>1, <2>2, <2>3
<1>6. r \in [chunk : DOMAIN cs, offset : Nat, size : Nat \ {0}] /\ End(r) = b.offset + n
      /\ End(r) <= End(b) /\ r.chunk = c /\ r.offset = b.offset
  BY <1>2 DEF End
<1> HIDE DEF top, next, r
<1>7. \A d \in cs[c].free \ {b} : End(d) < b.offset \/ End(b) < d.offset
  <2> TAKE d \in cs[c].free \ {b}
  <2>1. d.offset <= b.offset \/ b.offset <= d.offset
    BY <1>2
  <2> QED BY <2>1 DEF Lay
<1>8. \A s \in regions : s.chunk = c => End(s) <= b.offset \/ End(b) <= s.offset
  BY DEF Lay
<1>9. \A s \in regions : Disjoint(s, r)
  <2> TAKE s \in regions
  <2>1. CASE s.chunk # c
    BY <1>6, <2>1 DEF Disjoint
  <2>2. CASE s.chunk = c
    <3>1. End(s) <= b.offset \/ End(b) <= s.offset
      BY <1>8, <2>2
    <3>2. s.offset \in Nat /\ End(r) \in Nat /\ End(b) \in Nat
      BY <1>1, <1>2, <1>6 DEF End
    <3> QED BY <1>6, <3>1, <3>2 DEF Disjoint
  <2> QED BY <2>1, <2>2
<1>10. ~ Disjoint(r, r)
  BY <1>6 DEF Disjoint, End
<1>11. \A d \in DOMAIN cs : next[d] \in Chunk
  <2>1. next[c] \in Chunk
    BY <1>2, <1>3, <1>4, <1>5 DEF Chunk
  <2> QED BY <1>1, <1>5, <2>1
<1>12. \A s \in regions \cup {r} :
         /\ s \in [chunk : DOMAIN next, offset : Nat, size : Nat \ {0}]
         /\ End(s) <= next[s.chunk].max_size
  <2>1. End(r) <= next[r.chunk].max_size
    BY <1>3, <1>5, <1>6
  <2>2. ASSUME NEW s \in regions PROVE End(s) <= next[s.chunk].max_size
    <3>1. CASE s.chunk = c
      BY <1>1, <1>2, <1>3, <1>5, <3>1 DEF End
    <3>2. CASE s.chunk # c
      BY <1>1, <1>5, <3>2
    <3> QED BY <3>1, <3>2
  <2> QED BY <1>1, <1>5, <1>6, <2>1, <2>2
<1>13. \A s, u \in regions \cup {r} : s # u => Disjoint(s, u)
  <2>1. \A s, u \in regions : s # u => Disjoint(s, u)
    BY DEF Lay
  <2>2. \A s \in regions : Disjoint(r, s)
    BY <1>9 DEF Disjoint
  <2> QED BY <1>9, <2>1, <2>2
<1>14. ASSUME NEW d \in DOMAIN cs, NEW e \in next[d].free, NEW f \in next[d].free,
              e # f, e.offset <= f.offset
       PROVE  End(e) < f.offset
  <2>1. CASE d # c
    BY <1>5, <1>14, <2>1 DEF Lay
  <2>2. CASE d = c
    <3>0. e \in free /\ f \in free
      BY <1>5, <2>2
    <3>1. CASE e \in cs[c].free \ {b} /\ f \in cs[c].free \ {b}
      BY <1>14, <3>1 DEF Lay
    <3>2. CASE e \in rest /\ f \in cs[c].free \ {b}
      <4>1. e.offset = b.offset + n /\ End(e) = End(b) /\ End(f) \in Nat /\ b.offset \in Nat
            /\ f.offset <= End(f) /\ f.offset \in Nat
        BY <1>2, <1>4, <3>2 DEF End
      <4>2. End(f) < b.offset \/ End(b) < f.offset
        BY <1>7, <3>2
      <4> QED BY <1>14, <4>1, <4>2
    <3>3. CASE e \in cs[c].free \ {b} /\ f \in rest
      <4>1. f.offset = b.offset + n /\ End(e) \in Nat /\ b.offset \in Nat /\ e.offset \in Nat
            /\ e.offset <= End(e) /\ End(b) = b.offset + b.size /\ b.size \in Nat
        BY <1>2, <1>4, <3>3 DEF End
      <4>2. End(e) < b.offset \/ End(b) < e.offset
        BY <1>7, <3>3
      <4> QED BY <1>14, <4>1, <4>2
    <3>4. CASE e \in rest /\ f \in rest
      BY <1>14, <3>4
    <3> QED BY <3>0, <3>1, <3>2, <3>3, <3>4
  <2> QED BY <2>1, <2>2
<1>15. ASSUME NEW s \in regions \cup {r}, NEW e \in next[s.chunk].free
       PROVE  End(e) <= s.offset \/ End(s) <= e.offset
  <2>1. CASE s.chunk # c
    <3>1. s \in regions /\ e \in cs[s.chunk].free
      BY <1>1, <1>5, <1>6, <2>1
    <3> QED BY <3>1 DEF Lay
  <2>2. CASE s.chunk = c /\ s \in regions
    <3>1. CASE e \in cs[c].free
      BY <2>2, <3>1 DEF Lay
    <3>2. CASE e \in rest
      <4>1. e.offset = b.offset + n /\ End(e) = End(b)
        BY <1>4, <3>2
      <4>0. b.offset \in Nat /\ End(s) \in Nat
        BY <1>1, <1>2, <2>2 DEF End
      <4>2. End(s) <= b.offset \/ End(b) <= s.offset
        BY <1>8, <2>2
      <4> QED BY <4>0, <4>1, <4>2
    <3> QED BY <1>5, <2>2, <3>1, <3>2
  <2>3. CASE s = r
    <3>1. CASE e \in cs[c].free \ {b}
      <4>1. End(e) < b.offset \/ End(b) < e.offset
        BY <1>7, <3>1
      <4>2. End(e) \in Nat /\ End(b) \in Nat /\ e.offset \in Nat
        BY <1>2, <3>1 DEF End
      <4> QED BY <1>2, <1>6, <2>3, <4>1, <4>2
    <3>2. CASE e \in rest
      BY <1>2, <1>4, <1>6, <2>3, <3>2
    <3> QED BY <1>5, <1>6, <2>3, <3>1, <3>2
  <2> QED BY <2>1, <2>2, <2>3
\* What was somewhere still is: what was in b is in r or in the rest of it.
<1>16. ASSUME NEW d \in DOMAIN cs, NEW x \in Nat, Somewhere(cs, regions, d, x)
       PROVE  Somewhere(next, regions \cup {r}, d, x)
  <2>1. CASE \E s \in regions : s.chunk = d /\ s.offset <= x /\ x < End(s)
    BY <2>1 DEF Somewhere
  <2>2. CASE d # c /\ \E e \in cs[d].free : e.offset <= x /\ x < End(e)
    BY <1>5, <2>2 DEF Somewhere
  <2>3. CASE d = c /\ \E e \in cs[c].free \ {b} : e.offset <= x /\ x < End(e)
    BY <1>5, <2>3 DEF Somewhere
  <2>4. CASE d = c /\ b.offset <= x /\ x < End(b)
    <3>1. CASE x < b.offset + n
      BY <1>6, <2>4, <3>1 DEF Somewhere
    <3>2. CASE ~(x < b.offset + n)
      <4>1. b.size # n
        BY <1>2, <2>4, <3>2 DEF End
      <4>2. PICK e \in rest : TRUE
        BY <4>1
      <4>3. e \in next[c].free /\ e.offset <= x /\ x < End(e)
        BY <1>2, <1>4, <1>5, <2>4, <3>2, <4>2
      <4> QED BY <2>4, <4>3 DEF Somewhere
    <3> QED BY <3>1, <3>2
  <2> QED BY <1>16, <2>1, <2>2, <2>3, <2>4 DEF Somewhere
<1>17. ASSUME NEW d \in DOMAIN cs
       PROVE  /\ \A x \in 0..(next[d].max_size - 1) : Somewhere(next, regions \cup {r}, d, x)
              /\ \A e \in next[d].free : \A x \in 0..(End(e) - 1) :
                   Somewhere(next, regions \cup {r}, d, x)
  <2>1. /\ \A x \in 0..(cs[d].max_size - 1) : Somewhere(cs, regions, d, x)
        /\ \A e \in cs[d].free : \A x \in 0..(End(e) - 1) : Somewhere(cs, regions, d, x)
    BY DEF Lay
  <2>2. ASSUME NEW x \in 0..(next[d].max_size - 1) PROVE Somewhere(cs, regions, d, x)
    <3>1. CASE x \in 0..(cs[d].max_size - 1)
      BY <2>1, <3>1
    <3>2. CASE d = c /\ x \in 0..(End(b) - 1)
      BY <2>1, <3>2
    <3>3. next[c].max_size \in {cs[c].max_size, b.offset + n} /\ End(b) \in Nat
          /\ b.offset + n <= End(b) /\ b.offset + n \in Nat
      BY <1>2, <1>3, <1>5 DEF End
    <3>4. d = c => x \in 0..(cs[d].max_size - 1) \/ x \in 0..(End(b) - 1)
      BY <3>3
    <3> QED BY <1>5, <3>1, <3>2, <3>4
  <2>3. ASSUME NEW e \in next[d].free, NEW x \in 0..(End(e) - 1) PROVE Somewhere(cs, regions, d, x)
    <3>1. CASE e \in cs[d].free
      BY <2>1, <3>1
    <3>2. CASE d = c /\ e \in rest
      <4>1. x \in 0..(End(b) - 1)
        BY <1>4, <3>2
      <4> QED BY <2>1, <3>2, <4>1
    <3> QED BY <1>5, <3>1, <3>2
  <2>4. \A x : x \in Nat /\ Somewhere(cs, regions, d, x) => Somewhere(next, regions \cup {r}, d, x)
    BY <1>16
  <2>5. \A x \in 0..(next[d].max_size - 1) : Somewhere(next, regions \cup {r}, d, x)
    <3> TAKE x \in 0..(next[d].max_size - 1)
    <3>1. x \in Nat /\ Somewhere(cs, regions, d, x)
      BY <2>2
    <3> QED BY <2>4, <3>1
  <2>6. ASSUME NEW e \in next[d].free, NEW x \in 0..(End(e) - 1)
        PROVE  Somewhere(next, regions \cup {r}, d, x)
    <3>1. x \in Nat /\ Somewhere(cs, regions, d, x)
      BY <2>3
    <3> QED BY <2>4, <3>1
  <2> QED BY <2>5, <2>6
<1>18. Lay(next, regions \cup {r})
  <2>1. next \in Seq(Chunk)
    <3>1. next = [d \in 1..Len(cs) |-> next[d]]
      BY <1>1, <1>5 DEF next
    <3> QED BY <1>1, <1>11, <3>1
  <2>2. \A d \in DOMAIN next : \A e, f \in next[d].free :
          e # f /\ e.offset <= f.offset => End(e) < f.offset
    BY <1>5, <1>14
  <2>3. \A d \in DOMAIN next :
          /\ \A x \in 0..(next[d].max_size - 1) : Somewhere(next, regions \cup {r}, d, x)
          /\ \A e \in next[d].free : \A x \in 0..(End(e) - 1) :
               Somewhere(next, regions \cup {r}, d, x)
    BY <1>5, <1>17
  <2> QED BY <2>1, <2>2, <2>3, <1>12, <1>13, <1>15 DEF Lay
<1>19. r \notin regions
  BY <1>9, <1>10
<1> QED BY <1>9, <1>18, <1>19 DEF r, next

\* A new chunk is one free block, large enough.
LEMMA NewChunkFree ==
  ASSUME NEW k \in Nat, NEW n \in Nat \ {0}, n <= Endless
  PROVE  \E size \in Nat \ {0} : /\ size >= n
                                 /\ NewChunk(k, n) = [free |-> {Block(0, size)}, max_size |-> 0]
<1>1. MaxChunkSize \in Nat /\ Endless \in Nat
  BY TallocrAssumption
<1>2. /\ Max({n, MaxChunkSize}) \in {n, MaxChunkSize} /\ Max({n, MaxChunkSize}) >= n
  BY <1>1, MaxOfTwo
<1> DEFINE size == IF k = MaxChunks - 1 THEN Endless ELSE Max({n, MaxChunkSize})
<1>3. size \in Nat \ {0} /\ size >= n
  <2>1. CASE k = MaxChunks - 1
    BY <1>1, <2>1
  <2>2. CASE k # MaxChunks - 1
    <3>1. size = Max({n, MaxChunkSize})
      BY <2>2
    <3> HIDE DEF size
    <3> QED BY <1>1, <1>2, <3>1
  <2> QED BY <2>1, <2>2
<1>4. NewChunk(k, n) = [free |-> {Block(0, size)}, max_size |-> 0]
  BY Zenon DEF NewChunk
<1> HIDE DEF size
<1> QED BY <1>3, <1>4

\* The layout of the chunks does not change when one is added.
LEMMA NewChunkLay ==
  ASSUME NEW cs, NEW regions, Lay(cs, regions), NEW n \in Nat \ {0}, n <= Endless
  PROVE  LET next == Append(cs, NewChunk(Len(cs), n))
         IN  /\ Lay(next, regions)
             /\ Len(next) = Len(cs) + 1 /\ \A d \in DOMAIN cs : next[d] = cs[d]
             /\ \E b : next[Len(next)].free = {b} /\ b.size >= n
<1> DEFINE next == Append(cs, NewChunk(Len(cs), n))
           last == Len(cs) + 1
<1>1. DOMAIN cs = 1..Len(cs) /\ \A d \in DOMAIN cs : cs[d] \in Chunk
  BY DEF Lay
<1>2. Len(cs) \in Nat /\ cs \in Seq(Chunk)
  BY DEF Lay
<1>3. PICK size \in Nat \ {0} : /\ size >= n
        /\ NewChunk(Len(cs), n) = [free |-> {Block(0, size)}, max_size |-> 0]
  BY <1>2, NewChunkFree
<1> DEFINE b == Block(0, size)
<1>4. NewChunk(Len(cs), n) \in Chunk
  BY <1>3 DEF Chunk, Block
<1>5. /\ next \in Seq(Chunk) /\ Len(next) = last /\ next[last] = NewChunk(Len(cs), n)
      /\ DOMAIN next = 1..last /\ \A d \in DOMAIN cs : next[d] = cs[d]
  BY <1>1, <1>2, <1>4
<1> HIDE DEF next
<1>6. next[last].free = {b} /\ next[last].max_size = 0 /\ b.offset = 0 /\ b.size = size
      /\ End(b) = size
  BY <1>3, <1>5 DEF Block, End
<1>7. DOMAIN cs \subseteq DOMAIN next /\ last \notin DOMAIN cs
      /\ \A d \in DOMAIN next : d \in DOMAIN cs \/ d = last
  BY <1>1, <1>2, <1>5
<1> HIDE DEF last, b
<1>8. \A r \in regions : /\ r \in [chunk : DOMAIN cs, offset : Nat, size : Nat \ {0}]
                         /\ End(r) <= cs[r.chunk].max_size
  BY DEF Lay
<1>9. \A r \in regions : /\ r \in [chunk : DOMAIN next, offset : Nat, size : Nat \ {0}]
                         /\ End(r) <= next[r.chunk].max_size
  <2> TAKE r \in regions
  <2>1. r.chunk \in DOMAIN cs
    BY <1>8
  <2> QED BY <1>5, <1>7, <1>8, <2>1
<1>10. \A r, s \in regions : r # s => Disjoint(r, s)
  BY DEF Lay
<1>11. ASSUME NEW c \in DOMAIN next, NEW e \in next[c].free, NEW d \in next[c].free,
              e # d, e.offset <= d.offset
       PROVE  End(e) < d.offset
  <2>1. CASE c \in DOMAIN cs
    BY <1>5, <1>11, <2>1 DEF Lay
  <2>2. CASE c = last
    BY <1>6, <1>11, <2>2
  <2> QED BY <1>7, <2>1, <2>2
<1>12. ASSUME NEW r \in regions, NEW e \in next[r.chunk].free
       PROVE  End(e) <= r.offset \/ End(r) <= e.offset
  <2>1. r.chunk \in DOMAIN cs
    BY <1>8
  <2>2. e \in cs[r.chunk].free
    BY <1>5, <2>1
  <2> QED BY <2>2 DEF Lay
<1>13. ASSUME NEW c \in DOMAIN next
       PROVE  /\ \A x \in 0..(next[c].max_size - 1) : Somewhere(next, regions, c, x)
              /\ \A e \in next[c].free : \A x \in 0..(End(e) - 1) : Somewhere(next, regions, c, x)
  <2>1. CASE c \in DOMAIN cs
    <3>1. \A x : Somewhere(cs, regions, c, x) => Somewhere(next, regions, c, x)
      BY <1>5, <2>1 DEF Somewhere
    <3>2. /\ \A x \in 0..(cs[c].max_size - 1) : Somewhere(cs, regions, c, x)
          /\ \A e \in cs[c].free : \A x \in 0..(End(e) - 1) : Somewhere(cs, regions, c, x)
      BY <2>1 DEF Lay
    <3> QED BY <1>5, <2>1, <3>1, <3>2
  <2>2. CASE c = last
    <3>1. 0..(next[c].max_size - 1) = {}
      BY <1>6, <2>2
    <3>2. ASSUME NEW e \in next[c].free, NEW x \in 0..(End(e) - 1)
          PROVE  Somewhere(next, regions, c, x)
      <4>1. b \in next[c].free /\ b.offset <= x /\ x < End(b)
        BY <1>6, <2>2, <3>2
      <4> QED BY <4>1 DEF Somewhere
    <3> QED BY <3>1, <3>2
  <2> QED BY <1>7, <2>1, <2>2
<1>15. Lay(next, regions)
  BY <1>5, <1>9, <1>10, <1>11, <1>12, <1>13 DEF Lay
<1>16. Len(next) = Len(cs) + 1 /\ \A d \in DOMAIN cs : next[d] = cs[d]
  BY <1>5 DEF last
<1>17. next[Len(next)].free = {b} /\ b.size >= n
  BY <1>3, <1>5, <1>6
<1> QED BY <1>15, <1>16, <1>17 DEF next

\* The memory that is given out is apart from the regions in use, and within its chunk.
LEMMA AllocLay ==
  ASSUME NEW cs, NEW regions, Lay(cs, regions), NEW size \in Sizes
  PROVE  LET new == ggml_dyn_tallocr_alloc(cs, size)
             r   == [chunk |-> new.addr.chunk, offset |-> new.addr.offset, size |-> Aligned(size)]
         IN  /\ Lay(new.chunks, regions \cup {r}) /\ r \notin regions
             /\ \A s \in regions : Disjoint(s, r)
             /\ new.addr \in [chunk : Nat, offset : Nat]
             /\ DOMAIN cs \subseteq DOMAIN new.chunks
             /\ \A c \in DOMAIN cs : new.chunks[c].max_size >= cs[c].max_size
<1> DEFINE n == Aligned(size)
           found == Found(cs, n)
           from == IF found # {} THEN cs ELSE Append(cs, NewChunk(Len(cs), n))
           a == IF found # {} THEN CHOOSE f \in found : TRUE
                ELSE Address(Len(from), CHOOSE b \in from[Len(from)].free : TRUE)
           chunks1 == [from EXCEPT ![a.chunk] = Take(@, a.block, n)]
           r == [chunk |-> a.chunk, offset |-> a.offset, size |-> n]
<1>1. n \in Nat \ {0} /\ n <= Endless
  <2>1. size \in Nat \ {0} /\ n <= Endless
    BY DEF Sizes
  <2>2. n \in Nat /\ n >= size
    BY <2>1, AlignedSize
  <2> HIDE DEF n
  <2> QED BY <2>1, <2>2
<1>2. ggml_dyn_tallocr_alloc(cs, size)
        = [chunks |-> chunks1, addr |-> [chunk |-> a.chunk, offset |-> a.offset]]
  BY Zenon DEF ggml_dyn_tallocr_alloc
<1> HIDE DEF n
<1>3. /\ Lay(from, regions) /\ DOMAIN cs \subseteq DOMAIN from
      /\ \A d \in DOMAIN cs : from[d] = cs[d]
      /\ a.chunk \in DOMAIN from /\ a.block \in from[a.chunk].free /\ a.block.size >= n
      /\ a.offset = a.block.offset
  <2>1. CASE found # {}
    <3>1. from = cs /\ a \in found
      BY <2>1
    <3> HIDE DEF from, a
    <3> QED BY <3>1, FoundFits
  <2>2. CASE found = {}
    <3> DEFINE next == Append(cs, NewChunk(Len(cs), n))
    <3>1. from = next /\ a = Address(Len(next), CHOOSE b \in next[Len(next)].free : TRUE)
      BY <2>2
    <3>2. /\ Lay(next, regions)
          /\ Len(next) = Len(cs) + 1 /\ \A d \in DOMAIN cs : next[d] = cs[d]
          /\ \E b : next[Len(next)].free = {b} /\ b.size >= n
      BY <1>1, NewChunkLay
    <3>3. /\ DOMAIN cs = 1..Len(cs) /\ DOMAIN next = 1..Len(next)
          /\ Len(cs) \in Nat
      BY <3>2 DEF Lay
    <3> HIDE DEF next, from, a
    <3>4. PICK b : next[Len(next)].free = {b} /\ b.size >= n
      BY <3>2
    <3>5. a = Address(Len(next), b)
      BY <3>1, <3>4
    <3>6. a.chunk = Len(next) /\ a.block = b /\ a.offset = b.offset
      BY <3>5 DEF Address
    <3>7. Len(next) \in DOMAIN next /\ DOMAIN cs \subseteq DOMAIN next
      BY <3>2, <3>3
    <3> QED BY <3>1, <3>2, <3>4, <3>6, <3>7
  <2> QED BY <2>1, <2>2
<1> HIDE DEF from, a
<1>4. /\ Lay(chunks1, regions \cup {r}) /\ \A s \in regions : Disjoint(s, r)
      /\ r \notin regions
  <2> DEFINE q == [chunk |-> a.chunk, offset |-> a.block.offset, size |-> n]
  <2>1. Lay(chunks1, regions \cup {q}) /\ \A s \in regions : Disjoint(s, q) /\ q \notin regions
    BY <1>1, <1>3, TakeLay, Zenon
  <2>2. q = r
    BY <1>3
  <2> QED BY <2>1, <2>2, Zenon
<1>5. \A d \in DOMAIN from : from[d] \in Chunk
  BY <1>3 DEF Lay
<1>6. DOMAIN chunks1 = DOMAIN from
  OBVIOUS
<1>7. ASSUME NEW c \in DOMAIN from PROVE chunks1[c].max_size >= from[c].max_size
  <2>1. CASE c # a.chunk
    BY <1>5, <2>1 DEF Chunk
  <2>2. CASE c = a.chunk
    <3>1. chunks1[c] = Take(from[c], a.block, n)
      BY <2>2
    <3>2. chunks1[c].max_size = Max({from[c].max_size, a.block.offset + n})
      BY <3>1 DEF Take
    <3>3. from[c].max_size \in Int /\ a.block.offset + n \in Int
      BY <1>1, <1>3, <1>5, <2>2 DEF Chunk
    <3> QED BY <3>2, <3>3, MaxOfTwo
  <2> QED BY <2>1, <2>2
<1>8. r \in [chunk : DOMAIN chunks1, offset : Nat, size : Nat \ {0}]
  <2> HIDE DEF r, chunks1
  <2> QED BY <1>4 DEF Lay
<1>9. a.offset \in Nat /\ a.chunk \in Nat
  <2>1. a.chunk \in DOMAIN chunks1 /\ a.offset \in Nat
    BY <1>8
  <2>2. DOMAIN from = 1..Len(from)
    BY <1>3 DEF Lay
  <2> QED BY <1>3, <2>1, <2>2
<1>10. \A c \in DOMAIN cs : chunks1[c].max_size >= cs[c].max_size
  <2> HIDE DEF chunks1
  <2> QED BY <1>3, <1>7
<1> HIDE DEF chunks1
<1> DEFINE new == ggml_dyn_tallocr_alloc(cs, size)
           q == [chunk |-> new.addr.chunk, offset |-> new.addr.offset, size |-> n]
<1>11. /\ new.chunks = chunks1 /\ new.addr = [chunk |-> a.chunk, offset |-> a.offset]
  BY <1>2
<1> HIDE DEF new
<1>12. q = r
  BY <1>11
<1>13. new.addr \in [chunk : Nat, offset : Nat]
  BY <1>9, <1>11
<1>14. /\ Lay(new.chunks, regions \cup {q}) /\ q \notin regions /\ \A s \in regions : Disjoint(s, q)
  BY <1>4, <1>11, <1>12, Zenon
<1>15. /\ DOMAIN cs \subseteq DOMAIN new.chunks
       /\ \A c \in DOMAIN cs : new.chunks[c].max_size >= cs[c].max_size
  BY <1>3, <1>6, <1>10, <1>11
<1> QED BY <1>13, <1>14, <1>15 DEF new, n

\* A region that is given back becomes part of one free block, with the blocks on either
\* side of it.
LEMMA FreeLay ==
  ASSUME NEW cs, NEW regions, Lay(cs, regions), NEW r \in regions,
         NEW address, NEW size, address.chunk = r.chunk, address.offset = r.offset,
         Aligned(size) = r.size
  PROVE  LET next == ggml_dyn_tallocr_free_tensor(cs, address, size)
         IN  /\ Lay(next, regions \ {r})
             /\ DOMAIN next = DOMAIN cs /\ \A c \in DOMAIN cs : next[c].max_size = cs[c].max_size
<1> DEFINE c == r.chunk
           free == cs[c].free
           before(b) == End(b) = r.offset
           after(b) == End(r) = b.offset
           near == {b \in free : before(b) \/ after(b)}
           lows == {r.offset} \cup {b.offset : b \in near}
           highs == {End(r)} \cup {End(b) : b \in near}
           low == Min(lows)
           high == Max(highs)
           merged == Block(low, high - low)
           next == [cs EXCEPT ![c].free = (free \ near) \cup {merged}]
           rest == regions \ {r}
<1>1. ggml_dyn_tallocr_free_tensor(cs, address, size) = next
  <2>1. address.offset + Aligned(size) = End(r)
    BY DEF End
  <2>2. {b \in free : b.offset + b.size = address.offset \/ address.offset + Aligned(size) = b.offset}
          = near
    BY <2>1 DEF End
  <2>3. {address.offset} \cup {b.offset : b \in near} = lows
    OBVIOUS
  <2>4. {address.offset + Aligned(size)} \cup {b.offset + b.size : b \in near} = highs
    BY <2>1 DEF End
  <2> HIDE DEF near, lows, highs
  <2>5. ggml_dyn_tallocr_free_tensor(cs, address, size) = 
          LET n == Aligned(size)
              near1 == near
          IN  [cs EXCEPT ![address.chunk].free = (free \ near1) \cup {Block(low, high - low)}]
    BY <2>2, <2>3, <2>4 DEF ggml_dyn_tallocr_free_tensor
  <2> QED BY <2>5
<1>2. cs \in Seq(Chunk) /\ DOMAIN cs = 1..Len(cs) /\ Len(cs) \in Nat
      /\ \A d \in DOMAIN cs : cs[d] \in Chunk
  BY DEF Lay
<1>3. \A s \in regions : /\ s \in [chunk : DOMAIN cs, offset : Nat, size : Nat \ {0}]
                         /\ End(s) \in Nat /\ s.offset < End(s) /\ End(s) <= cs[s.chunk].max_size
  BY DEF Lay, End
<1>4. \A d \in DOMAIN cs : \A b \in cs[d].free :
        b.offset \in Nat /\ b.size \in Nat \ {0} /\ End(b) \in Nat /\ b.offset < End(b)
        /\ End(b) = b.offset + b.size
  BY <1>2 DEF Chunk, End
<1>5. c \in DOMAIN cs /\ r.offset \in Nat /\ End(r) \in Nat /\ r.offset < End(r)
  BY <1>3
<1>6. \A b \in free : End(b) <= r.offset \/ End(r) <= b.offset
  BY DEF Lay
<1>7. \A b, d \in free : b # d => End(b) < d.offset \/ End(d) < b.offset
  <2> TAKE b \in free, d \in free
  <2>1. b.offset <= d.offset \/ d.offset <= b.offset
    BY <1>4, <1>5
  <2> QED BY <1>5, <2>1 DEF Lay
<1>8. \A s \in rest : s.chunk = c => \A b \in free : End(b) <= s.offset \/ End(s) <= b.offset
  BY DEF Lay
<1>9. \A s \in rest : s.chunk = c => End(s) <= r.offset \/ End(r) <= s.offset
  BY DEF Lay, Disjoint
\* The merged block begins with the region, or with the block before it ...
<1>10. /\ low \in Nat /\ low <= r.offset /\ \A b \in near : low <= b.offset
       /\ low = r.offset \/ \E b \in free : before(b) /\ low = b.offset
  <2>1. lows \in SUBSET Int
    BY <1>4, <1>5
  <2>2. CASE \E b \in free : before(b)
    <3>1. PICK b \in free : before(b)
      BY <2>2
    <3>2. ASSUME NEW d \in near PROVE b.offset <= d.offset
      <4>1. CASE d = b
        BY <1>4, <1>5, <4>1
      <4>2. CASE d # b
        <5>1. End(d) < b.offset \/ End(b) < d.offset
          BY <1>7, <3>1, <4>2
        <5>2. End(d) = r.offset \/ d.offset = End(r)
          OBVIOUS
        <5> QED BY <1>4, <1>5, <3>1, <5>1, <5>2
      <4> QED BY <4>1, <4>2
    <3>3. b.offset <= r.offset
      BY <1>4, <1>5, <3>1
    <3>4. b.offset \in lows /\ \A y \in lows : b.offset <= y
      BY <3>1, <3>2, <3>3
    <3>5. low = b.offset
      BY <2>1, <3>4, MinIs
    <3> QED BY <1>4, <1>5, <3>1, <3>2, <3>3, <3>5
  <2>3. CASE ~ \E b \in free : before(b)
    <3>1. \A b \in near : b.offset = End(r)
      BY <2>3
    <3>2. r.offset \in lows /\ \A y \in lows : r.offset <= y
      BY <1>5, <3>1
    <3>3. low = r.offset
      BY <2>1, <3>2, MinIs
    <3> QED BY <1>5, <3>1, <3>3
  <2> QED BY <2>2, <2>3
\* ... and ends likewise.
<1>11. /\ high \in Nat /\ End(r) <= high /\ \A b \in near : End(b) <= high
       /\ high = End(r) \/ \E b \in free : after(b) /\ high = End(b)
  <2>1. highs \in SUBSET Int
    BY <1>4, <1>5
  <2>2. CASE \E b \in free : after(b)
    <3>1. PICK b \in free : after(b)
      BY <2>2
    <3>2. ASSUME NEW d \in near PROVE End(b) >= End(d)
      <4>1. CASE d = b
        BY <1>4, <1>5, <4>1
      <4>2. CASE d # b
        <5>1. End(d) < b.offset \/ End(b) < d.offset
          BY <1>7, <3>1, <4>2
        <5>2. End(d) = r.offset \/ d.offset = End(r)
          OBVIOUS
        <5> QED BY <1>4, <1>5, <3>1, <5>1, <5>2
      <4> QED BY <4>1, <4>2
    <3>3. End(b) >= End(r)
      BY <1>4, <1>5, <3>1
    <3>4. End(b) \in highs /\ \A y \in highs : End(b) >= y
      BY <3>1, <3>2, <3>3
    <3>5. high = End(b)
      BY <2>1, <3>4, MaxIs
    <3> QED BY <1>4, <1>5, <3>1, <3>2, <3>3, <3>5
  <2>3. CASE ~ \E b \in free : after(b)
    <3>1. \A b \in near : End(b) = r.offset
      BY <2>3
    <3>2. End(r) \in highs /\ \A y \in highs : End(r) >= y
      BY <1>5, <3>1
    <3>3. high = End(r)
      BY <2>1, <3>2, MaxIs
    <3> QED BY <1>5, <3>1, <3>3
  <2> QED BY <2>2, <2>3
<1>12. ASSUME NEW d \in free \ near PROVE End(d) < low \/ high < d.offset
  <2>1. End(d) < r.offset \/ End(r) < d.offset
    BY <1>4, <1>5, <1>6
  <2>2. \A b \in free : before(b) \/ after(b) => End(d) < b.offset \/ End(b) < d.offset
    BY <1>7
  <2>3. d.offset \in Nat /\ End(d) \in Nat /\ d.offset < End(d)
    BY <1>4, <1>5
  <2>4. CASE End(d) < r.offset
    <3>1. CASE low = r.offset
      BY <2>4, <3>1
    <3>2. CASE \E b \in free : before(b) /\ low = b.offset
      BY <1>5, <2>2, <2>3, <2>4, <3>2
    <3> QED BY <1>10, <3>1, <3>2
  <2>5. CASE End(r) < d.offset
    <3>1. CASE high = End(r)
      BY <2>5, <3>1
    <3>2. CASE \E b \in free : after(b) /\ high = End(b)
      <4>1. PICK b \in free : after(b) /\ high = End(b)
        BY <3>2
      <4> QED BY <1>5, <2>2, <2>3, <2>5, <4>1
    <3> QED BY <1>11, <3>1, <3>2
  <2> QED BY <2>1, <2>4, <2>5
<1>13. ASSUME NEW s \in rest, s.chunk = c PROVE End(s) <= low \/ high <= s.offset
  <2>1. s.offset \in Nat /\ End(s) \in Nat /\ s.offset < End(s)
    BY <1>3
  <2>2. CASE End(s) <= r.offset
    <3>1. CASE low = r.offset
      BY <2>2, <3>1
    <3>2. CASE \E b \in free : before(b) /\ low = b.offset
      <4>1. PICK b \in free : before(b) /\ low = b.offset
        BY <3>2
      <4>2. End(b) <= s.offset \/ End(s) <= b.offset
        BY <1>8, <1>13
      <4> QED BY <1>5, <2>1, <2>2, <4>1, <4>2
    <3> QED BY <1>10, <3>1, <3>2
  <2>3. CASE End(r) <= s.offset
    <3>1. CASE high = End(r)
      BY <2>3, <3>1
    <3>2. CASE \E b \in free : after(b) /\ high = End(b)
      <4>1. PICK b \in free : after(b) /\ high = End(b)
        BY <3>2
      <4>2. End(b) <= s.offset \/ End(s) <= b.offset
        BY <1>8, <1>13
      <4> QED BY <1>5, <2>1, <2>3, <4>1, <4>2
    <3> QED BY <1>11, <3>1, <3>2
  <2> QED BY <1>9, <1>13, <2>2, <2>3
<1>14. merged \in [offset : Nat, size : Nat \ {0}] /\ merged.offset = low /\ End(merged) = high
  <2> HIDE DEF low, high
  <2> QED BY <1>5, <1>10, <1>11 DEF Block, End
<1>15. /\ DOMAIN next = DOMAIN cs
       /\ next[c] = [free |-> (free \ near) \cup {merged}, max_size |-> cs[c].max_size]
       /\ \A d \in DOMAIN cs \ {c} : next[d] = cs[d]
  <2> HIDE DEF near, merged
  <2> QED BY <1>2, <1>5 DEF Chunk
<1>16. next \in Seq(Chunk)
  <2>1. next[c] \in Chunk
    <3> HIDE DEF near, merged, next
    <3> QED BY <1>2, <1>5, <1>14, <1>15 DEF Chunk
  <2>2. \A d \in DOMAIN cs : next[d] \in Chunk
    <3> HIDE DEF next
    <3> QED BY <1>2, <1>15, <2>1
  <2> HIDE DEF near, merged
  <2>3. next = [d \in 1..Len(cs) |-> next[d]]
    BY <1>2, <1>15
  <2> HIDE DEF next
  <2> QED BY <1>2, <2>2, <2>3
<1>17. \A b \in near : low <= b.offset /\ End(b) <= high
  BY <1>10, <1>11
<1>18. \A b \in near : b \in free
  OBVIOUS
<1> HIDE DEF near, merged, next, low, high
<1>19. \A d \in DOMAIN cs : next[d].max_size = cs[d].max_size
  BY <1>15
<1>20. ASSUME NEW d \in DOMAIN cs, NEW e \in next[d].free, NEW f \in next[d].free,
              e # f, e.offset <= f.offset
       PROVE  End(e) < f.offset
  <2>1. CASE d # c
    BY <1>15, <1>20, <2>1 DEF Lay
  <2>2. CASE d = c
    <3>1. CASE e \in free \ near /\ f \in free \ near
      BY <1>5, <1>20, <3>1 DEF Lay
    <3>2. CASE e = merged /\ f \in free \ near
      BY <1>4, <1>5, <1>10, <1>12, <1>14, <1>20, <3>2
    <3>3. CASE e \in free \ near /\ f = merged
      <4>1. End(e) < low \/ high < e.offset
        BY <1>12, <3>3
      <4>2. low <= high /\ low \in Nat /\ high \in Nat /\ e.offset \in Nat /\ End(e) \in Nat
        BY <1>4, <1>5, <1>10, <1>11, <3>3
      <4> QED BY <1>14, <1>20, <3>3, <4>1, <4>2
    <3> QED BY <1>15, <1>20, <2>2, <3>1, <3>2, <3>3
  <2> QED BY <2>1, <2>2
<1>21. ASSUME NEW s \in rest, NEW e \in next[s.chunk].free
       PROVE  End(e) <= s.offset \/ End(s) <= e.offset
  <2>1. CASE e \in cs[s.chunk].free
    BY <2>1 DEF Lay
  <2>2. CASE s.chunk = c /\ e = merged
    BY <1>13, <1>14, <2>2
  <2> QED BY <1>3, <1>15, <2>1, <2>2
<1>22. ASSUME NEW d \in DOMAIN cs, NEW x \in Nat, Somewhere(cs, regions, d, x)
       PROVE  Somewhere(next, rest, d, x)
  <2>1. CASE \E s \in rest : s.chunk = d /\ s.offset <= x /\ x < End(s)
    BY <2>1 DEF Somewhere
  <2>2. CASE \E b \in cs[d].free : (d = c => b \notin near) /\ b.offset <= x /\ x < End(b)
    BY <1>15, <2>2 DEF Somewhere
  <2>3. CASE d = c /\ low <= x /\ x < high
    <3>1. merged \in next[d].free
      BY <1>15, <2>3
    <3> QED BY <1>14, <2>3, <3>1 DEF Somewhere
  <2>4. CASE d = c /\ r.offset <= x /\ x < End(r)
    BY <1>5, <1>10, <1>11, <2>3, <2>4
  <2>5. CASE d = c /\ \E b \in near : b.offset <= x /\ x < End(b)
    <3>1. PICK b \in near : b.offset <= x /\ x < End(b)
      BY <2>5
    <3>2. b.offset \in Nat /\ End(b) \in Nat /\ low <= b.offset /\ End(b) <= high
      BY <1>4, <1>5, <1>17, <1>18
    <3> QED BY <1>10, <1>11, <2>3, <2>5, <3>1, <3>2
  <2> QED BY <1>22, <2>1, <2>2, <2>4, <2>5 DEF Somewhere
<1>23. ASSUME NEW d \in DOMAIN cs
       PROVE  /\ \A x \in 0..(next[d].max_size - 1) : Somewhere(next, rest, d, x)
              /\ \A e \in next[d].free : \A x \in 0..(End(e) - 1) : Somewhere(next, rest, d, x)
  <2>1. /\ \A x \in 0..(cs[d].max_size - 1) : Somewhere(cs, regions, d, x)
        /\ \A e \in cs[d].free : \A x \in 0..(End(e) - 1) : Somewhere(cs, regions, d, x)
    BY DEF Lay
  <2>2. \A x \in 0..(next[d].max_size - 1) : Somewhere(next, rest, d, x)
    <3> TAKE x \in 0..(next[d].max_size - 1)
    <3>1. x \in Nat /\ Somewhere(cs, regions, d, x)
      BY <1>19, <2>1
    <3> QED BY <1>22, <3>1
  <2>3. ASSUME NEW e \in next[d].free, NEW x \in 0..(End(e) - 1)
        PROVE  Somewhere(next, rest, d, x)
    <3>1. CASE e \in cs[d].free
      <4>1. x \in Nat /\ Somewhere(cs, regions, d, x)
        BY <2>1, <3>1
      <4> QED BY <1>22, <4>1
    <3>2. CASE d = c /\ e = merged
      <4>1. x \in Nat /\ x < high
        BY <1>11, <1>14, <3>2
      <4>2. CASE high = End(r)
        <5>1. End(r) <= cs[d].max_size /\ cs[d].max_size \in Nat
          BY <1>2, <1>3, <3>2 DEF Chunk
        <5>2. x \in 0..(cs[d].max_size - 1)
          BY <1>5, <4>1, <4>2, <5>1
        <5> QED BY <1>22, <2>1, <4>1, <5>2
      <4>3. CASE \E b \in free : after(b) /\ high = End(b)
        <5>1. PICK b \in free : high = End(b)
          BY <4>3
        <5>2. x \in 0..(End(b) - 1)
          BY <1>11, <4>1, <5>1
        <5> QED BY <1>22, <2>1, <3>2, <4>1, <5>2
      <4> QED BY <1>11, <4>2, <4>3
    <3> QED BY <1>15, <3>1, <3>2
  <2> QED BY <2>2, <2>3
<1>24. \A s \in rest : /\ s \in [chunk : DOMAIN next, offset : Nat, size : Nat \ {0}]
                       /\ End(s) <= next[s.chunk].max_size
  <2> TAKE s \in rest
  <2>1. s \in [chunk : DOMAIN cs, offset : Nat, size : Nat \ {0}]
        /\ End(s) <= cs[s.chunk].max_size
    BY <1>3
  <2>2. next[s.chunk].max_size = cs[s.chunk].max_size
    BY <1>19, <2>1
  <2> QED BY <1>15, <2>1, <2>2
<1>25. \A s, u \in rest : s # u => Disjoint(s, u)
  BY DEF Lay
<1>26. Lay(next, rest)
  <2>1. \A d \in DOMAIN next : \A e, f \in next[d].free :
          e # f /\ e.offset <= f.offset => End(e) < f.offset
    BY <1>15, <1>20
  <2>2. \A d \in DOMAIN next :
          /\ \A x \in 0..(next[d].max_size - 1) : Somewhere(next, rest, d, x)
          /\ \A e \in next[d].free : \A x \in 0..(End(e) - 1) : Somewhere(next, rest, d, x)
    BY <1>15, <1>23
  <2> QED BY <1>16, <1>21, <1>24, <1>25, <2>1, <2>2 DEF Lay
<1> QED BY <1>1, <1>15, <1>19, <1>26

-----------------------------------------------------------------------------
(* Graphs: their reads, and what reads a tensor.                           *)

\* Min of a set of numbers is its least element.
LEMMA LeastElement ==
  ASSUME NEW S \in SUBSET Nat, S # {}
  PROVE  Min(S) \in S /\ \A x \in S : Min(S) <= x
<1> DEFINE R == StrictSubsetOrdering(Nat)
           Up == {0..n : n \in S}
<1>1. \A n \in Nat : 0..n \in FiniteSubsetsOf(Nat)
  BY FS_Interval DEF FiniteSubsetsOf
<1>2. IsWellFoundedOn(R, FiniteSubsetsOf(Nat))
  BY FS_StrictSubsetOrderingWellFounded
<1>3. Up \subseteq FiniteSubsetsOf(Nat) /\ Up # {}
  BY <1>1
<1> HIDE DEF R
<1>4. PICK u \in Up : \A v \in Up : ~(<<v, u>> \in R)
  BY <1>2, <1>3, WFMin
<1>5. PICK x \in S : u = 0..x
  OBVIOUS
<1>6. \A y \in S : x <= y
  <2> SUFFICES ASSUME NEW y \in S, y < x PROVE FALSE
    OBVIOUS
  <2>1. 0..y \in Up /\ 0..y \subseteq 0..x /\ x \in 0..x /\ x \notin 0..y
    OBVIOUS
  <2>2. 0..x \in SUBSET Nat /\ 0..y \in SUBSET Nat
    OBVIOUS
  <2>3. <<0..y, 0..x>> \in R
    BY <2>1, <2>2 DEF R, StrictSubsetOrdering
  <2> QED BY <1>4, <1>5, <2>1, <2>3
<1> QED BY <1>6 DEF Min

\* A graph has finitely many reads.
LEMMA ReadsFinite ==
  ASSUME NEW g, Len(g) \in Nat
  PROVE  IsFiniteSet(Reads(g)) /\ IsFiniteSet(Nodes(g))
<1> DEFINE f == [r \in Reads(g) |-> <<r.node, r.k>>]
<1>1. IsFiniteSet(Nodes(g)) /\ IsFiniteSet(1..GGML_MAX_SRC)
  <2>1. NLeafs + 1 \in Int /\ Len(g) \in Int /\ 1 \in Int /\ GGML_MAX_SRC \in Int
    BY GraphAssumption DEF GGML_MAX_SRC
  <2>2. IsFiniteSet((NLeafs + 1)..Len(g)) /\ IsFiniteSet(1..GGML_MAX_SRC)
    BY <2>1, FS_Interval
  <2> QED BY <2>2 DEF Nodes
<1>2. IsFiniteSet(Nodes(g) \X (1..GGML_MAX_SRC))
  BY <1>1, FS_Product
<1>3. f \in Injection(Reads(g), Nodes(g) \X (1..GGML_MAX_SRC))
  <2>1. f \in [Reads(g) -> Nodes(g) \X (1..GGML_MAX_SRC)]
    BY DEF Reads
  <2>2. \A r, s \in Reads(g) : f[r] = f[s] => r = s
    BY DEF Reads
  <2> QED BY <2>1, <2>2 DEF Injection, IsInjective
<1>4. IsFiniteSet(Reads(g))
  BY <1>2, <1>3, FS_Injection
<1> QED BY <1>1, <1>4

\* So are the parts of them that the counts are of.
LEMMA PartFinite ==
  ASSUME NEW g, Len(g) \in Nat, NEW t
  PROVE  /\ \A S \in SUBSET ReadsOf(g, t) : IsFiniteSet(S) /\ Cardinality(S) \in Nat
         /\ \A S \in SUBSET ViewsOf(g, t) : IsFiniteSet(S) /\ Cardinality(S) \in Nat
<1>1. IsFiniteSet(Reads(g)) /\ IsFiniteSet(Nodes(g))
  BY ReadsFinite
<1>2. ReadsOf(g, t) \subseteq Reads(g) /\ ViewsOf(g, t) \subseteq Nodes(g)
  BY DEF ReadsOf, ViewsOf
<1>3. ASSUME NEW S, S \subseteq Reads(g) \/ S \subseteq Nodes(g)
      PROVE  IsFiniteSet(S) /\ Cardinality(S) \in Nat
  BY <1>1, <1>3, FS_Subset, FS_CardinalityType
<1> QED BY <1>2, <1>3

\* What the tensors of a well-formed graph are.
LEMMA TensorFacts ==
  ASSUME WellFormed(graph)
  PROVE  /\ Len(graph) \in Nat /\ DOMAIN graph = 1..Len(graph) /\ NLeafs \in Nat
         /\ Len(graph) >= NLeafs
         /\ \A t \in DOMAIN graph :
              /\ graph[t] \in Tensor /\ DOMAIN graph[t].src = 1..Len(graph[t].src)
              /\ Len(graph[t].src) \in 0..GGML_MAX_SRC
              /\ \A k \in DOMAIN graph[t].src : graph[t].src[k] \in 1..(t - 1)
              /\ graph[t].view \in 0..(t - 1)
              /\ graph[t].view # 0 => graph[graph[t].view].view = 0 /\ t \in Nodes(graph)
              /\ DOMAIN graph[t].src # {} => t \in Nodes(graph)
<1>1. graph \in Seq(Tensor) /\ NLeafs \in Nat
  BY GraphAssumption DEF WellFormed
<1>2. Len(graph) \in Nat /\ DOMAIN graph = 1..Len(graph) /\ \A t \in DOMAIN graph : graph[t] \in Tensor
  BY <1>1
<1>3. ASSUME NEW t \in DOMAIN graph
      PROVE  /\ DOMAIN graph[t].src = 1..Len(graph[t].src) /\ Len(graph[t].src) \in 0..GGML_MAX_SRC
             /\ graph[t].view \in 0..(t - 1)
  <2>1. graph[t].src \in Seq(Nat) /\ graph[t].view \in Nat
    BY <1>2 DEF Tensor
  <2>2. Len(graph[t].src) <= GGML_MAX_SRC /\ graph[t].view < t /\ t \in Nat /\ GGML_MAX_SRC \in Nat
    BY <1>2 DEF WellFormed, GGML_MAX_SRC
  <2>3. DOMAIN graph[t].src = 1..Len(graph[t].src) /\ Len(graph[t].src) \in Nat
    BY <2>1
  <2> QED BY <2>1, <2>2, <2>3
<1>4. ASSUME NEW t \in DOMAIN graph, t \notin Nodes(graph)
      PROVE  graph[t].src = <<>> /\ graph[t].view = 0
  <2>1. t \in 1..NLeafs
    BY <1>1, <1>2, <1>4 DEF Nodes
  <2> QED BY <2>1 DEF WellFormed
<1>5. ASSUME NEW t \in DOMAIN graph
      PROVE  /\ \A k \in DOMAIN graph[t].src : graph[t].src[k] \in 1..(t - 1)
             /\ graph[t].view # 0 => graph[graph[t].view].view = 0
  BY DEF WellFormed
<1> QED BY <1>1, <1>2, <1>3, <1>4, <1>5 DEF WellFormed

\* A reader of a tensor reads it, or a view of it; or it is the caller.
LEMMA ReaderReads ==
  ASSUME WellFormed(graph), NEW t \in Own, NEW n \in Readers(t)
  PROVE  \/ n = Len(graph) + 1 /\ graph[t].output
         \/ \E v \in {t} \cup ViewsOf(graph, t) : \E k : [node |-> n, k |-> k] \in ReadsOf(graph, v)
<1>1. CASE n = Len(graph) + 1 /\ graph[t].output
  BY <1>1
<1>2. CASE n \in Nodes(graph) /\ \E k \in DOMAIN graph[n].src : Root(graph[n].src[k]) = t
  <2>1. PICK k \in DOMAIN graph[n].src : Root(graph[n].src[k]) = t
    BY <1>2
  <2> DEFINE v == graph[n].src[k]
  <2>2. n \in DOMAIN graph /\ k \in 1..GGML_MAX_SRC
    <3>1. n \in DOMAIN graph
      BY <1>2, TensorFacts DEF Nodes
    <3>2. DOMAIN graph[n].src = 1..Len(graph[n].src) /\ Len(graph[n].src) \in 0..GGML_MAX_SRC
      BY <3>1, TensorFacts
    <3> QED BY <2>1, <3>1, <3>2 DEF GGML_MAX_SRC
  <2>3. [node |-> n, k |-> k] \in ReadsOf(graph, v)
    BY <1>2, <2>2 DEF ReadsOf, Reads
  <2>4. v \in 1..(n - 1)
    BY <2>2, TensorFacts
  <2>5. v \in DOMAIN graph
    BY <2>2, <2>4, TensorFacts
  <2>6. v = t \/ v \in ViewsOf(graph, t)
    BY <2>1, <2>5, TensorFacts DEF Root, IsView, ViewsOf
  <2> QED BY <2>3, <2>6
<1> QED BY <1>1, <1>2 DEF Readers

-----------------------------------------------------------------------------
(* Memory for a tensor.                                                    *)

\* What ggml_gallocr_allocate_node does for a tensor that was not given memory.
LEMMA AllocateCases ==
  ASSUME WellFormed(graph), hash \in [DOMAIN graph -> Hash], NEW t \in DOMAIN graph,
         ~hash[t].allocated, ggml_gallocr_allocate_node(t)
  PROVE  \/ t \notin Own /\ UNCHANGED <<chunks, hash>>
         \/ /\ t \in Own
            /\ \E k \in DOMAIN graph[t].src :
                 /\ CanReuse(t, graph[t].src[k])
                 /\ hash' = [hash EXCEPT ![t].allocated = TRUE,
                               ![t].addr = hash[graph[t].src[k]].addr,
                               ![graph[t].src[k]].allocated = FALSE]
                 /\ UNCHANGED chunks
         \/ /\ t \in Own
            /\ \E new : /\ new = ggml_dyn_tallocr_alloc(chunks, graph[t].size)
                        /\ hash' = [hash EXCEPT ![t].allocated = TRUE, ![t].addr = new.addr]
                        /\ chunks' = new.chunks
<1> DEFINE reusable == {k \in DOMAIN graph[t].src : CanReuse(t, graph[t].src[k])}
<1>1. CASE HasMemory(t)
  <2>1. t \notin Own
    BY <1>1 DEF HasMemory, Own, IsView
  <2> QED BY <1>1, <2>1 DEF ggml_gallocr_allocate_node
<1>2. CASE ~HasMemory(t)
  <2>1. t \in Own
    BY <1>2 DEF HasMemory, Own, IsView
  <2>2. CASE reusable # {}
    <3>1. reusable \in SUBSET Nat
      BY TensorFacts
    <3>2. Min(reusable) \in reusable
      BY <2>2, <3>1, LeastElement
    <3>3. /\ hash' = [hash EXCEPT ![t].allocated = TRUE,
                        ![t].addr = hash[graph[t].src[Min(reusable)]].addr,
                        ![graph[t].src[Min(reusable)]].allocated = FALSE]
          /\ UNCHANGED chunks
      BY <1>2, <2>2, Zenon DEF ggml_gallocr_allocate_node
    <3> QED BY <2>1, <3>2, <3>3
  <2>3. CASE reusable = {}
    <3>1. /\ hash' = [hash EXCEPT ![t].allocated = TRUE,
                        ![t].addr = ggml_dyn_tallocr_alloc(chunks, graph[t].size).addr]
          /\ chunks' = ggml_dyn_tallocr_alloc(chunks, graph[t].size).chunks
      BY <1>2, <2>3 DEF ggml_gallocr_allocate_node
    <3> QED BY <2>1, <3>1
  <2> QED BY <2>2, <2>3
<1> QED BY <1>1, <1>2

\* Sizes and the memory for them are positive.
LEMMA SizeOfFacts ==
  ASSUME WellFormed(graph), NEW t \in DOMAIN graph
  PROVE  graph[t].size \in Nat \ {0} /\ SizeOf(t) \in Nat \ {0} /\ SizeOf(t) >= graph[t].size
<1>1. graph[t].size \in Nat \ {0}
  BY TensorFacts DEF Tensor, Sizes
<1>2. SizeOf(t) \in Nat /\ SizeOf(t) >= graph[t].size
  BY <1>1, AlignedSize DEF SizeOf
<1> QED BY <1>1, <1>2

\* A tensor is given new memory.
LEMMA NewMemory ==
  ASSUME WellFormed(graph), graph' = graph, hash \in [DOMAIN graph -> Hash], Layout,
         NEW t \in Own, t \notin Allocated,
         NEW new, new = ggml_dyn_tallocr_alloc(chunks, graph[t].size),
         hash' = [hash EXCEPT ![t].allocated = TRUE, ![t].addr = new.addr],
         chunks' = new.chunks
  PROVE  /\ hash' \in [DOMAIN graph -> Hash] /\ \A u \in DOMAIN graph \ {t} : hash'[u] = hash[u]
         /\ Allocated' = Allocated \cup {t}
         /\ \A u, w \in Allocated' : Region(u)' = Region(w)' => u = w
         /\ Lay(chunks', {Region(u)' : u \in Allocated'})
         /\ \A u \in Allocated : Disjoint(Region(u), Region(t)')
         /\ DOMAIN chunks \subseteq DOMAIN chunks'
         /\ \A c \in DOMAIN chunks : chunks'[c].max_size >= chunks[c].max_size
<1> DEFINE regions == {Region(u) : u \in Allocated}
           r == [chunk |-> new.addr.chunk, offset |-> new.addr.offset,
                 size |-> Aligned(graph[t].size)]
<1>1. Lay(chunks, regions) /\ \A u, w \in Allocated : Region(u) = Region(w) => u = w
  BY DEF Layout
<1>2. t \in DOMAIN graph /\ graph[t].size \in Sizes
  BY TensorFacts DEF Own, Tensor
<1>3. /\ Lay(new.chunks, regions \cup {r}) /\ r \notin regions
      /\ \A s \in regions : Disjoint(s, r)
      /\ new.addr \in [chunk : Nat, offset : Nat]
      /\ DOMAIN chunks \subseteq DOMAIN new.chunks
      /\ \A c \in DOMAIN chunks : new.chunks[c].max_size >= chunks[c].max_size
  <2> HIDE DEF regions
  <2> QED BY <1>1, <1>2, AllocLay, Zenon
<1>4. /\ hash' \in [DOMAIN graph -> Hash] /\ \A u \in DOMAIN graph \ {t} : hash'[u] = hash[u]
      /\ hash'[t].allocated /\ hash'[t].addr = new.addr
  <2>1. new.addr \in [chunk : Nat, offset : Nat] /\ hash[t] \in Hash
    BY <1>2, <1>3
  <2>2. hash' = [hash EXCEPT ![t] = [hash[t] EXCEPT !.allocated = TRUE, !.addr = new.addr]]
    OBVIOUS
  <2>3. [hash[t] EXCEPT !.allocated = TRUE, !.addr = new.addr] \in Hash
    BY <2>1 DEF Hash
  <2>4. /\ [hash[t] EXCEPT !.allocated = TRUE, !.addr = new.addr].allocated
        /\ [hash[t] EXCEPT !.allocated = TRUE, !.addr = new.addr].addr = new.addr
    BY <2>1 DEF Hash
  <2> QED BY <1>2, <2>2, <2>3, <2>4
<1>5. Allocated' = Allocated \cup {t}
  <2>1. \A u \in DOMAIN graph : hash'[u].allocated <=> (hash[u].allocated \/ u = t)
    BY <1>4
  <2> QED BY <1>2, <2>1 DEF Allocated
<1>6. \A u \in Allocated : Region(u)' = Region(u)
  <2> TAKE u \in Allocated
  <2>1. u \in DOMAIN graph \ {t}
    BY DEF Allocated
  <2>2. hash'[u] = hash[u]
    BY <1>4, <2>1
  <2> QED BY <2>2 DEF Region, SizeOf
<1>7. Region(t)' = r
  BY <1>4 DEF Region, SizeOf
<1> HIDE DEF r
<1>8. {Region(u)' : u \in Allocated'} = regions \cup {r}
  BY <1>5, <1>6, <1>7
<1>9. \A u, w \in Allocated' : Region(u)' = Region(w)' => u = w
  <2> TAKE u, w \in Allocated'
  <2>1. \A v \in Allocated : Region(v) # r
    BY <1>3
  <2> QED BY <1>1, <1>5, <1>6, <1>7, <2>1
<1>10. \A u \in Allocated : Disjoint(Region(u), Region(t)')
  BY <1>3, <1>7
<1> QED BY <1>3, <1>4, <1>5, <1>8, <1>9, <1>10

\* A tensor takes over the memory of its source.
LEMMA TakesOver ==
  ASSUME WellFormed(graph), graph' = graph, hash \in [DOMAIN graph -> Hash], Layout,
         NEW t \in Own, t \notin Allocated,
         NEW p \in Allocated, graph[p].size = graph[t].size,
         hash' = [hash EXCEPT ![t].allocated = TRUE, ![t].addr = hash[p].addr,
                              ![p].allocated = FALSE],
         chunks' = chunks
  PROVE  /\ hash' \in [DOMAIN graph -> Hash] /\ \A u \in DOMAIN graph \ {t, p} : hash'[u] = hash[u]
         /\ hash'[p] = [hash[p] EXCEPT !.allocated = FALSE]
         /\ hash'[t].n_children = hash[t].n_children /\ hash'[t].n_views = hash[t].n_views
         /\ Allocated' = (Allocated \cup {t}) \ {p}
         /\ \A u, w \in Allocated' : Region(u)' = Region(w)' => u = w
         /\ Lay(chunks', {Region(u)' : u \in Allocated'})
         /\ \A u \in Allocated : Region(u)' = Region(u)
         /\ Region(t)' = Region(p) /\ hash'[t].addr = hash[p].addr
<1>1. t \in DOMAIN graph /\ p \in DOMAIN graph /\ t # p
  BY DEF Own, Allocated
<1>2. /\ hash' \in [DOMAIN graph -> Hash] /\ \A u \in DOMAIN graph \ {t, p} : hash'[u] = hash[u]
      /\ hash'[p] = [hash[p] EXCEPT !.allocated = FALSE]
      /\ hash'[t].allocated /\ hash'[t].addr = hash[p].addr
      /\ hash'[t].n_children = hash[t].n_children /\ hash'[t].n_views = hash[t].n_views
  <2>1. hash[t] \in Hash /\ hash[p] \in Hash
    BY <1>1
  <2> QED BY <1>1, <2>1 DEF Hash
<1>3. hash'[p].addr = hash[p].addr /\ ~hash'[p].allocated
  <2>1. hash[p] \in Hash
    BY <1>1
  <2> QED BY <1>2, <2>1 DEF Hash
<1>4. Allocated' = (Allocated \cup {t}) \ {p}
  <2>1. \A u \in DOMAIN graph : hash'[u].allocated <=> ((hash[u].allocated \/ u = t) /\ u # p)
    BY <1>1, <1>2, <1>3
  <2> QED BY <1>1, <2>1 DEF Allocated
<1>5. \A u \in Allocated : Region(u)' = Region(u)
  <2> TAKE u \in Allocated
  <2>1. u \in DOMAIN graph /\ u # t
    BY DEF Allocated
  <2>2. hash'[u].addr = hash[u].addr
    BY <1>2, <1>3, <2>1
  <2> QED BY <2>2 DEF Region, SizeOf
<1>6. Region(t)' = Region(p)
  BY <1>2 DEF Region, SizeOf
<1>7. {Region(u)' : u \in Allocated'} = {Region(u) : u \in Allocated}
  BY <1>1, <1>4, <1>5, <1>6
<1>8. \A u, w \in Allocated' : Region(u)' = Region(w)' => u = w
  <2> TAKE u, w \in Allocated'
  <2>1. \A v, x \in Allocated : Region(v) = Region(x) => v = x
    BY DEF Layout
  <2> QED BY <1>4, <1>5, <1>6, <2>1
<1>9. Lay(chunks', {Region(u)' : u \in Allocated'})
  BY <1>7 DEF Layout
<1> QED BY <1>2, <1>4, <1>5, <1>6, <1>8, <1>9

\* Which of two regions comes first does not matter.
LEMMA DisjointSym ==
  ASSUME NEW r, NEW s, Disjoint(r, s)
  PROVE  Disjoint(s, r)
BY DEF Disjoint

\* One more tensor is given memory that no other tensor is read from, or only by it.
LEMMA IntactStep ==
  ASSUME WellFormed(graph), graph' = graph, PlacedIntact,
         NEW a \in Own, \A u \in Placed : u < a, Placed' = Placed \cup {a},
         \A u \in Placed : Region(u)' = Region(u) /\ hash'[u].addr = hash[u].addr,
         \A u \in Placed : \A n \in Readers(u) : a <= n =>
           \/ Disjoint(Region(u), Region(a)')
           \/ a = n /\ InPlace(a, u) /\ hash'[a].addr = hash[u].addr,
         a <= NLeafs => \A u \in Placed : Disjoint(Region(u), Region(a)')
  PROVE  PlacedIntact'
<1>1. \A u, n : Readers(u)' = Readers(u) /\ (InPlace(n, u)' <=> InPlace(n, u))
  BY DEF Readers, InPlace, Root, IsView
<1>3. ASSUME NEW t \in Placed', NEW w \in Placed', t # w, Written(t) <= Written(w),
             NEW n \in Readers(t), w <= n
      PROVE  \/ Disjoint(Region(t)', Region(w)')
             \/ w = n /\ InPlace(w, t) /\ hash'[w].addr = hash'[t].addr
  <2>1. CASE t \in Placed /\ w \in Placed
    <3>1. \/ Disjoint(Region(t), Region(w))
          \/ w = n /\ InPlace(w, t) /\ hash[w].addr = hash[t].addr
      BY <1>3, <2>1 DEF PlacedIntact
    <3> QED BY <2>1, <3>1
  <2>2. CASE t \in Placed /\ w = a
    BY <1>3, <2>2
  <2>3. CASE t = a /\ w \in Placed
    <3>1. w < a /\ a \in Nat /\ w \in Nat /\ NLeafs \in Nat
      BY <2>3, TensorFacts DEF Own, Placed
    <3>2. CASE a <= NLeafs
      <4>1. Disjoint(Region(w), Region(a)') /\ Region(w)' = Region(w)
        BY <2>3, <3>2
      <4> QED BY <2>3, <4>1, DisjointSym
    <3>3. CASE ~(a <= NLeafs)
      <4>1. Written(t) = a /\ Written(w) \in {0, w}
        BY <2>3, <3>3 DEF Written
      <4> QED BY <1>3, <3>1, <4>1
    <3> QED BY <3>2, <3>3
  <2> QED BY <1>3, <2>1, <2>2, <2>3
<1>4. ASSUME NEW t \in Placed', NEW w \in Placed', t # w, Written(t) <= Written(w),
             NEW n \in Readers(t)', w <= n
      PROVE  \/ Disjoint(Region(t)', Region(w)')
             \/ w = n /\ InPlace(w, t)' /\ hash'[w].addr = hash'[t].addr
  BY <1>1, <1>3, <1>4
<1> QED BY <1>4, Zenon DEF PlacedIntact, Written

\* What a tensor that takes over the memory of its source reads is read by no later node.
LEMMA LastReader ==
  ASSUME WellFormed(graph), Counted, phase = "nodes", j = 0, at \in Nodes(graph),
         NEW k \in DOMAIN graph[at].src, CanReuse(at, graph[at].src[k]),
         graph[at].src[k] \in Own,
         NEW n \in Readers(graph[at].src[k]), at <= n
  PROVE  n = at
<1> DEFINE p == graph[at].src[k]
           r == [node |-> at, k |-> k]
<1>1. p \in DOMAIN graph /\ Len(graph) \in Nat /\ at \in DOMAIN graph /\ at \in Nat
  BY TensorFacts DEF Nodes, Own
<1>2. /\ Cardinality(Pending(p)) = 1 /\ Cardinality(Waiting(p)) = 0 /\ ~graph[p].output
  BY <1>1 DEF CanReuse, Counted
<1>3. Pending(p) \subseteq ReadsOf(graph, p) /\ Waiting(p) \subseteq ViewsOf(graph, p)
  BY DEF Pending, Waiting
<1>4. IsFiniteSet(Pending(p)) /\ IsFiniteSet(Waiting(p))
  BY <1>1, <1>3, PartFinite
<1>5. PICK s : Pending(p) = {s}
  BY <1>2, <1>4, FS_Singleton
<1>6. Waiting(p) = {}
  BY <1>2, <1>4, FS_EmptySet
<1>7. \A v, x, i : x \in Nat /\ at <= x /\ [node |-> x, k |-> i] \in ReadsOf(graph, v)
        => [node |-> x, k |-> i] \in Pending(v)
  <2> TAKE v, x, i
  <2> HAVE x \in Nat /\ at <= x /\ [node |-> x, k |-> i] \in ReadsOf(graph, v)
  <2>1. i \in Nat
    BY DEF ReadsOf, Reads
  <2> QED BY <1>1, <2>1 DEF Pending
<1>8. r \in Pending(p)
  <2>1. k \in 1..GGML_MAX_SRC
    <3>1. DOMAIN graph[at].src = 1..Len(graph[at].src) /\ Len(graph[at].src) \in 0..GGML_MAX_SRC
      BY <1>1, TensorFacts
    <3> QED BY <3>1 DEF GGML_MAX_SRC
  <2>2. r \in ReadsOf(graph, p)
    BY <2>1 DEF ReadsOf, Reads
  <2> QED BY <1>1, <1>7, <2>2
<1> HIDE DEF p
<1>9. n \in Nat
  BY <1>1, GraphAssumption DEF Readers, Nodes, p
<1>10. p \in Own /\ n \in Readers(p)
  BY DEF p
<1>11. n # Len(graph) + 1 \/ ~graph[p].output
  BY <1>2
<1>12. PICK v, i : v \in {p} \cup ViewsOf(graph, p) /\ [node |-> n, k |-> i] \in ReadsOf(graph, v)
  BY <1>10, <1>11, <1>2, ReaderReads
<1>13. [node |-> n, k |-> i] \in Pending(v)
  BY <1>7, <1>9, <1>12
<1>14. v = p
  BY <1>6, <1>12, <1>13 DEF Waiting
<1>15. [node |-> n, k |-> i] = r
  BY <1>5, <1>8, <1>13, <1>14
<1> QED BY <1>15

\* PlacedWithin and PlacedIntact are about addresses only.
LEMMA SameAddresses ==
  ASSUME graph' = graph, Placed' = Placed, PlacedWithin, PlacedIntact,
         \A t \in Placed : hash'[t].addr = hash[t].addr,
         DOMAIN chunks' = DOMAIN chunks,
         \A c \in DOMAIN chunks : chunks'[c].max_size = chunks[c].max_size
  PROVE  PlacedWithin' /\ PlacedIntact'
<1>1. \A t \in Placed : Region(t)' = Region(t) /\ SizeOf(t)' = SizeOf(t)
  BY DEF Region, SizeOf
<1>2. \A u, n : Readers(u)' = Readers(u) /\ (InPlace(n, u)' <=> InPlace(n, u))
  BY DEF Readers, InPlace, Root, IsView
<1>3. ASSUME NEW t \in Placed, NEW w \in Placed, t # w, Written(t) <= Written(w),
             NEW n \in Readers(t), w <= n
      PROVE  \/ Disjoint(Region(t)', Region(w)')
             \/ w = n /\ InPlace(w, t)' /\ hash'[w].addr = hash'[t].addr
  BY <1>1, <1>2, <1>3 DEF PlacedIntact
<1>4. ASSUME NEW t \in Placed', NEW w \in Placed', t # w, Written(t) <= Written(w),
             NEW n \in Readers(t)', w <= n
      PROVE  \/ Disjoint(Region(t)', Region(w)')
             \/ w = n /\ InPlace(w, t)' /\ hash'[w].addr = hash'[t].addr
  BY <1>2, <1>3, <1>4
<1>5. PlacedIntact'
  BY <1>4, Zenon DEF PlacedIntact, Written
<1>6. PlacedWithin'
  BY <1>1 DEF PlacedWithin
<1> QED BY <1>5, <1>6

\* Layout is about addresses and about who is allocated.
LEMMA SameLayout ==
  ASSUME graph' = graph, Placed' = Placed, chunks' = chunks, Layout,
         \A t \in DOMAIN graph : /\ hash'[t].addr = hash[t].addr
                                 /\ hash'[t].allocated = hash[t].allocated
  PROVE  Layout'
<1>1. Allocated' = Allocated /\ Allocated \subseteq DOMAIN graph
  BY DEF Allocated
<1>2. \A t \in Allocated : Region(t)' = Region(t)
  BY <1>1 DEF Region, SizeOf
<1>3. {Region(t)' : t \in Allocated'} = {Region(t) : t \in Allocated}
  BY <1>1, <1>2
<1>4. Lay(chunks', {Region(t)' : t \in Allocated'})
  BY <1>3 DEF Layout
<1>5. \A t, u \in Allocated' : Region(t)' = Region(u)' => t = u
  BY <1>1, <1>2 DEF Layout
<1> QED BY <1>1, <1>4, <1>5 DEF Layout

\* The memory of the next tensor, as both loops of the reservation find it.
LEMMA GivenMemory ==
  ASSUME WellFormed(graph), graph' = graph, hash \in [DOMAIN graph -> Hash],
         Reserving, phase \in {"leafs", "nodes"}, at \in DOMAIN graph, j = 0,
         phase = "leafs" <=> at <= NLeafs,
         ggml_gallocr_allocate_node(at),
         Placed' = Placed \cup ({at} \cap Own)
  PROVE  /\ hash' \in [DOMAIN graph -> Hash]
         /\ \A t \in DOMAIN graph : /\ hash'[t].n_children = hash[t].n_children
                                    /\ hash'[t].n_views = hash[t].n_views
         /\ Layout' /\ PlacedWithin' /\ PlacedIntact'
         /\ \A t \in Placed' : phase = "leafs" \/ t = at \/ (\E n \in Readers(t) : n > at)
                                 => hash'[t].allocated
<1> PICK a : a = at
  OBVIOUS
<1>1. /\ Layout /\ Counted /\ Kept /\ PlacedWithin /\ PlacedIntact
      /\ Allocated \subseteq Placed
  BY DEF Reserving, Layout
<1>2. /\ a \in DOMAIN graph /\ a \in Nat /\ Len(graph) \in Nat /\ NLeafs \in Nat
      /\ DOMAIN graph = 1..Len(graph)
  BY TensorFacts
<1>3. a \notin Placed /\ Placed \subseteq Own /\ Own \subseteq DOMAIN graph
      /\ \A u \in Placed : u < a
  BY <1>2 DEF Placed, Own
<1>4. a \notin Allocated /\ ~hash[a].allocated
  BY <1>1, <1>2, <1>3 DEF Allocated
<1>5. \A u \in Placed : phase = "leafs" \/ (\E n \in Readers(u) : at <= n) => u \in Allocated
  <2> TAKE u \in Placed
  <2>0. \A n \in Readers(u) : n \in Nat
    BY <1>2 DEF Readers, Nodes
  <2>1. (\E n \in Readers(u) : at <= n) => Needed(u)
    BY <1>2, <2>0 DEF Needed
  <2> QED BY <1>1, <1>3, <2>1 DEF Kept, Allocated
<1>6. \A u \in DOMAIN graph : SizeOf(u)' = SizeOf(u) /\ SizeOf(u) \in Nat \ {0}
  BY SizeOfFacts DEF SizeOf
<1>7. \A u \in Placed : /\ hash[u] \in Hash /\ hash[u].addr.chunk \in DOMAIN chunks
                        /\ hash[u].addr.chunk \in Nat /\ hash[u].addr.offset \in Nat
                        /\ hash[u].addr.offset + SizeOf(u) <= chunks[hash[u].addr.chunk].max_size
  <2> TAKE u \in Placed
  <2>1. hash[u] \in Hash
    BY <1>3
  <2> QED BY <1>1, <2>1 DEF PlacedWithin, Hash
<1>8. \A c \in DOMAIN chunks : chunks[c].max_size \in Nat
  <2>1. chunks \in Seq(Chunk)
    BY <1>1 DEF Layout, Lay
  <2>2. \A c \in DOMAIN chunks : chunks[c] \in Chunk
    BY <2>1
  <2> QED BY <2>2 DEF Chunk
\* It needs none, ...
<1>9. ASSUME a \notin Own, UNCHANGED <<chunks, hash>>
      PROVE  /\ hash' \in [DOMAIN graph -> Hash] /\ hash' = hash
             /\ Layout' /\ PlacedWithin' /\ PlacedIntact'
             /\ \A t \in Placed' : phase = "leafs" \/ t = at \/ (\E n \in Readers(t) : n > at)
                                     => hash'[t].allocated
  <2>1. Placed' = Placed /\ Allocated' = Allocated /\ hash' = hash /\ chunks' = chunks
    BY <1>9 DEF Allocated
  <2>3. Layout'
    BY <1>1, <2>1, SameLayout
  <2>4. PlacedWithin' /\ PlacedIntact'
    BY <1>1, <2>1, SameAddresses
  <2>6. ASSUME NEW t \in Placed', phase = "leafs" \/ t = at \/ (\E n \in Readers(t) : n > at)
        PROVE  hash'[t].allocated
    <3>1. \A n \in Readers(t) : n \in Nat
      BY <1>2 DEF Readers, Nodes
    <3>2. phase = "leafs" \/ (\E n \in Readers(t) : at <= n)
      BY <1>2, <1>3, <2>1, <2>6, <3>1
    <3> QED BY <1>5, <2>1, <2>6, <3>2 DEF Allocated
  <2> QED BY <2>1, <2>3, <2>4, <2>6
\* ... or it gets new memory, ...
<1>10. ASSUME a \in Own, NEW new, new = ggml_dyn_tallocr_alloc(chunks, graph[a].size),
              hash' = [hash EXCEPT ![a].allocated = TRUE, ![a].addr = new.addr],
              chunks' = new.chunks
       PROVE  /\ hash' \in [DOMAIN graph -> Hash]
              /\ \A t \in DOMAIN graph : /\ hash'[t].n_children = hash[t].n_children
                                         /\ hash'[t].n_views = hash[t].n_views
              /\ Layout' /\ PlacedWithin' /\ PlacedIntact'
              /\ \A t \in Placed' : phase = "leafs" \/ t = at \/ (\E n \in Readers(t) : n > at)
                                      => hash'[t].allocated
  <2>1. /\ hash' \in [DOMAIN graph -> Hash] /\ \A u \in DOMAIN graph \ {a} : hash'[u] = hash[u]
        /\ Allocated' = Allocated \cup {a}
        /\ \A u, w \in Allocated' : Region(u)' = Region(w)' => u = w
        /\ Lay(chunks', {Region(u)' : u \in Allocated'})
        /\ \A u \in Allocated : Disjoint(Region(u), Region(a)')
        /\ DOMAIN chunks \subseteq DOMAIN chunks'
        /\ \A c \in DOMAIN chunks : chunks'[c].max_size >= chunks[c].max_size
    BY <1>1, <1>4, <1>10, NewMemory
  <2>2. Placed' = Placed \cup {a}
    BY <1>10
  <2>3. Layout'
    BY <1>1, <2>1, <2>2 DEF Layout
  <2>4. \A u \in Placed : hash'[u] = hash[u] /\ Region(u)' = Region(u)
    <3> TAKE u \in Placed
    <3>1. hash'[u] = hash[u]
      BY <1>3, <2>1
    <3> QED BY <3>1 DEF Region, SizeOf
  <2>5. PlacedWithin'
    <3>1. \A c \in DOMAIN chunks' : chunks'[c].max_size \in Nat
      <4>1. chunks' \in Seq(Chunk)
        BY <2>1 DEF Lay
      <4>2. \A c \in DOMAIN chunks' : chunks'[c] \in Chunk
        BY <4>1
      <4> QED BY <4>2 DEF Chunk
    <3>2. ASSUME NEW u \in Placed
          PROVE  /\ hash'[u].addr.chunk \in DOMAIN chunks'
                 /\ hash'[u].addr.offset + SizeOf(u)' <= chunks'[hash'[u].addr.chunk].max_size
      <4> DEFINE c == hash[u].addr.chunk
      <4>1. c \in DOMAIN chunks /\ hash[u].addr.offset + SizeOf(u) <= chunks[c].max_size
            /\ hash[u].addr.offset + SizeOf(u) \in Nat
        BY <1>3, <1>6, <1>7
      <4>2. chunks'[c].max_size >= chunks[c].max_size /\ c \in DOMAIN chunks'
            /\ chunks[c].max_size \in Nat /\ chunks'[c].max_size \in Nat
        BY <1>8, <2>1, <3>1, <4>1
      <4>3. hash'[u] = hash[u] /\ SizeOf(u)' = SizeOf(u)
        BY <1>3, <1>6, <2>4
      <4> HIDE DEF c
      <4>4. hash[u].addr.offset + SizeOf(u) <= chunks'[c].max_size
        BY <4>1, <4>2
      <4> QED BY <4>2, <4>3, <4>4 DEF c
    <3>3. /\ hash'[a].addr.chunk \in DOMAIN chunks'
          /\ hash'[a].addr.offset + SizeOf(a)' <= chunks'[hash'[a].addr.chunk].max_size
      <4>1. /\ Region(a)'.chunk \in DOMAIN chunks'
            /\ End(Region(a)') <= chunks'[Region(a)'.chunk].max_size
        <5>1. Region(a)' \in {Region(u)' : u \in Allocated'}
          BY <2>1
        <5> QED BY <2>1, <5>1 DEF Lay
      <4>2. /\ Region(a)'.chunk = hash'[a].addr.chunk
            /\ End(Region(a)') = hash'[a].addr.offset + SizeOf(a)'
        BY DEF Region, End
      <4> QED BY <4>1, <4>2
    <3> QED BY <2>2, <3>2, <3>3 DEF PlacedWithin
  <2>6. PlacedIntact'
    <3>1. \A u \in Placed : \A n \in Readers(u) : a <= n => Disjoint(Region(u), Region(a)')
      BY <1>5, <2>1
    <3>2. a <= NLeafs => \A u \in Placed : Disjoint(Region(u), Region(a)')
      BY <1>5, <2>1
    <3> QED BY <1>1, <1>3, <1>10, <2>2, <2>4, <3>1, <3>2, IntactStep
  <2>7. ASSUME NEW t \in Placed', phase = "leafs" \/ t = at \/ (\E n \in Readers(t) : n > at)
        PROVE  hash'[t].allocated
    <3>0. \A n \in Readers(t) : n \in Nat
      BY <1>2 DEF Readers, Nodes
    <3>1. (\E n \in Readers(t) : n > at) => \E n \in Readers(t) : at <= n
      BY <1>2, <3>0
    <3>2. t \in Allocated'
      BY <1>5, <2>1, <2>2, <2>7, <3>1
    <3> QED BY <3>2 DEF Allocated
  <2>8. \A t \in DOMAIN graph : /\ hash'[t].n_children = hash[t].n_children
                                /\ hash'[t].n_views = hash[t].n_views
    <3>1. hash[a] \in Hash
      BY <1>2
    <3>2. hash'[a].n_children = hash[a].n_children /\ hash'[a].n_views = hash[a].n_views
      BY <1>2, <1>10, <3>1 DEF Hash
    <3> QED BY <2>1, <3>2
  <2> QED BY <2>1, <2>3, <2>5, <2>6, <2>7, <2>8
\* ... or it takes over the memory of a source.
<1>11. ASSUME a \in Own, NEW k \in DOMAIN graph[a].src, CanReuse(a, graph[a].src[k]),
              hash' = [hash EXCEPT ![a].allocated = TRUE, ![a].addr = hash[graph[a].src[k]].addr,
                                   ![graph[a].src[k]].allocated = FALSE],
              UNCHANGED chunks
       PROVE  /\ hash' \in [DOMAIN graph -> Hash]
              /\ \A t \in DOMAIN graph : /\ hash'[t].n_children = hash[t].n_children
                                         /\ hash'[t].n_views = hash[t].n_views
              /\ Layout' /\ PlacedWithin' /\ PlacedIntact'
              /\ \A t \in Placed' : phase = "leafs" \/ t = at \/ (\E n \in Readers(t) : n > at)
                                      => hash'[t].allocated
  <2> DEFINE p == graph[a].src[k]
  <2>0. /\ a \in Nodes(graph) /\ p \in DOMAIN graph
    <3>1. DOMAIN graph[a].src # {}
      BY <1>11
    <3> QED BY <1>2, <1>11, <3>1, TensorFacts
  <2>1. p \in Allocated /\ graph[p].size = graph[a].size /\ p \in Placed /\ p \in Own
    BY <1>1, <1>3, <1>11, <2>0 DEF Allocated, CanReuse
  <2>2. /\ hash' \in [DOMAIN graph -> Hash] /\ \A u \in DOMAIN graph \ {a, p} : hash'[u] = hash[u]
        /\ hash'[p] = [hash[p] EXCEPT !.allocated = FALSE]
        /\ hash'[a].n_children = hash[a].n_children /\ hash'[a].n_views = hash[a].n_views
        /\ Allocated' = (Allocated \cup {a}) \ {p}
        /\ \A u, w \in Allocated' : Region(u)' = Region(w)' => u = w
        /\ Lay(chunks', {Region(u)' : u \in Allocated'})
        /\ \A u \in Allocated : Region(u)' = Region(u)
        /\ Region(a)' = Region(p) /\ hash'[a].addr = hash[p].addr
    <3> HIDE DEF p
    <3>1. /\ hash' = [hash EXCEPT ![a].allocated = TRUE, ![a].addr = hash[p].addr,
                                  ![p].allocated = FALSE]
          /\ chunks' = chunks
      BY <1>11 DEF p
    <3> QED BY <1>1, <1>4, <1>11, <2>1, <3>1, TakesOver, Zenon
  <2> HIDE DEF p
  <2>3. Placed' = Placed \cup {a} /\ chunks' = chunks
    BY <1>11
  <2>4. Layout'
    BY <1>1, <2>2, <2>3 DEF Layout
  <2>5. \A u \in Placed : hash'[u].addr = hash[u].addr /\ Region(u)' = Region(u)
    <3> TAKE u \in Placed
    <3>1. hash'[u].addr = hash[u].addr
      <4>1. u \in DOMAIN graph /\ u # a /\ hash[p] \in Hash
        BY <1>3, <2>0
      <4> QED BY <2>2, <4>1 DEF Hash
    <3> QED BY <3>1 DEF Region, SizeOf
  <2>6. PlacedWithin'
    <3>1. ASSUME NEW u \in Placed
          PROVE  /\ hash'[u].addr.chunk \in DOMAIN chunks'
                 /\ hash'[u].addr.offset + SizeOf(u)' <= chunks'[hash'[u].addr.chunk].max_size
      BY <1>3, <1>6, <1>7, <2>3, <2>5
    <3>2. SizeOf(a)' = SizeOf(p)
      BY <2>1 DEF SizeOf
    <3>3. /\ hash'[a].addr.chunk \in DOMAIN chunks'
          /\ hash'[a].addr.offset + SizeOf(a)' <= chunks'[hash'[a].addr.chunk].max_size
      BY <1>7, <2>1, <2>2, <2>3, <3>2
    <3> QED BY <2>3, <3>1, <3>3 DEF PlacedWithin
  <2>7. phase = "nodes" /\ ~(a <= NLeafs)
    BY <1>2, <2>0 DEF Nodes
  <2>8. \A n \in Readers(p) : a <= n => n = a
    BY <1>1, <1>11, <2>0, <2>1, <2>7, LastReader DEF p
  <2>9. InPlace(a, p)
    BY <1>11, <2>1 DEF InPlace, CanReuse, p
  <2>10. PlacedIntact'
    <3>1. ASSUME NEW u \in Placed, NEW n \in Readers(u), a <= n
          PROVE  \/ Disjoint(Region(u), Region(a)')
                 \/ a = n /\ InPlace(a, u) /\ hash'[a].addr = hash[u].addr
      <4>1. CASE u = p
        BY <2>2, <2>8, <2>9, <3>1, <4>1
      <4>2. CASE u # p
        <5>1. u \in Allocated
          BY <1>5, <3>1
        <5>2. Region(u) # Region(p)
          BY <1>1, <2>1, <4>2, <5>1 DEF Layout
        <5>3. Disjoint(Region(u), Region(p))
          BY <1>1, <2>1, <5>1, <5>2 DEF Layout, Lay
        <5> QED BY <2>2, <5>3
      <4> QED BY <4>1, <4>2
    <3>2. /\ PlacedIntact /\ a \in Own /\ Placed' = Placed \cup {a}
          /\ \A u \in Placed : Region(u)' = Region(u) /\ hash'[u].addr = hash[u].addr
      BY <1>1, <1>11, <2>3, <2>5
    <3>3. \A u \in Placed : u < a
      BY <1>3
    <3>4. a <= NLeafs => \A u \in Placed : Disjoint(Region(u), Region(a)')
      BY <2>7
    <3> QED BY <3>1, <3>2, <3>3, <3>4, IntactStep, Zenon
  <2>11. ASSUME NEW t \in Placed', phase = "leafs" \/ t = at \/ (\E n \in Readers(t) : n > at)
        PROVE  hash'[t].allocated
    <3>0. \A n \in Readers(t) : n \in Nat
      BY <1>2 DEF Readers, Nodes
    <3>1. (\E n \in Readers(t) : n > at) => \E n \in Readers(t) : at <= n /\ n # at
      BY <1>2, <3>0
    <3>2. t # p
      BY <1>3, <2>1, <2>7, <2>8, <2>11, <3>1
    <3>3. t \in Allocated'
      BY <1>5, <2>2, <2>3, <2>7, <2>11, <3>1, <3>2
    <3> QED BY <3>3 DEF Allocated
  <2>12. \A t \in DOMAIN graph : /\ hash'[t].n_children = hash[t].n_children
                                 /\ hash'[t].n_views = hash[t].n_views
    <3>1. hash[p] \in Hash
      BY <2>0
    <3>2. hash'[p].n_children = hash[p].n_children /\ hash'[p].n_views = hash[p].n_views
      BY <2>2, <3>1 DEF Hash
    <3> QED BY <2>2, <3>2
  <2> QED BY <2>2, <2>4, <2>6, <2>10, <2>11, <2>12
<1> QED
  <2>1. \/ a \notin Own /\ UNCHANGED <<chunks, hash>>
        \/ /\ a \in Own
           /\ \E k \in DOMAIN graph[a].src :
                /\ CanReuse(a, graph[a].src[k])
                /\ hash' = [hash EXCEPT ![a].allocated = TRUE,
                              ![a].addr = hash[graph[a].src[k]].addr,
                              ![graph[a].src[k]].allocated = FALSE]
                /\ UNCHANGED chunks
        \/ /\ a \in Own
           /\ \E new : /\ new = ggml_dyn_tallocr_alloc(chunks, graph[a].size)
                       /\ hash' = [hash EXCEPT ![a].allocated = TRUE, ![a].addr = new.addr]
                       /\ chunks' = new.chunks
    <3>1. ggml_gallocr_allocate_node(a)
      OBVIOUS
    <3> QED BY <1>2, <1>4, <3>1, AllocateCases, Zenon
  <2> QED BY <1>9, <1>10, <1>11, <2>1

-----------------------------------------------------------------------------
(* The loops of the reservation.                                           *)

\* The memory of a leaf.
LEMMA AllocateLeafKeeps ==
  ASSUME IInv, AllocateLeaf
  PROVE  IInv'
<1>1. /\ phase = "leafs" /\ phase' = "leafs" /\ at <= NLeafs /\ at' = at + 1 /\ j = 0 /\ j' = 0
      /\ ggml_gallocr_allocate_node(at)
      /\ UNCHANGED <<graph, graphs, allocs>>
  BY DEF AllocateLeaf, IInv, TypeInv
<1>2. Whole(graph) /\ WellFormed(graph) /\ hash \in [DOMAIN graph -> Hash] /\ Reserving
      /\ at \in 1..(NLeafs + 1) /\ DOMAIN buffer \subseteq Nat /\ \A c \in DOMAIN buffer : buffer[c] \in Nat
  BY <1>1 DEF IInv, TypeInv, Whole
<1>3. at \in DOMAIN graph /\ at \in Nat /\ NLeafs \in Nat /\ DOMAIN graph \subseteq Nat
  BY <1>1, <1>2, TensorFacts
<1>4. Placed' = Placed \cup ({at} \cap Own)
  <2>1. Own' = Own /\ Own \subseteq Nat
    BY <1>1, <1>3 DEF Own, allocs
  <2>2. \A t \in Own : t < at + 1 \/ (t = at + 1 /\ j # 0) <=> (t < at \/ (t = at /\ j # 0)) \/ t = at
    BY <1>1, <1>3, <2>1
  <2> QED BY <1>1, <2>1, <2>2 DEF Placed
<1>5. /\ hash' \in [DOMAIN graph -> Hash]
      /\ Layout' /\ PlacedWithin' /\ PlacedIntact'
      /\ \A t \in Placed' : hash'[t].allocated
  BY <1>1, <1>2, <1>3, <1>4, GivenMemory
<1>6. Reserving'
  BY <1>1, <1>5 DEF Reserving, Counted, Kept
<1>7. TypeInv'
  <2>1. at' \in 1..(NLeafs + 1)
    BY <1>1, <1>3
  <2>2. Whole(graph)' /\ DOMAIN graph' = DOMAIN graph /\ buffer' = buffer
    BY <1>1, <1>2 DEF allocs
  <2> QED BY <1>1, <1>2, <1>5, <2>1, <2>2 DEF TypeInv
<1> QED BY <1>1, <1>6, <1>7 DEF IInv

\* Before the first node, all reads and all views are still to come.
LEMMA CountReadersKeeps ==
  ASSUME IInv, CountReaders
  PROVE  IInv'
<1>1. /\ phase = "leafs" /\ phase' = "nodes" /\ at > NLeafs /\ at' = at /\ j = 0 /\ j' = 0
      /\ hash' = [t \in DOMAIN graph |->
                    [hash[t] EXCEPT !.n_children = Cardinality(ReadsOf(graph, t)),
                                    !.n_views = Cardinality(ViewsOf(graph, t))]]
      /\ UNCHANGED <<graph, graphs, chunks, allocs>>
  BY DEF CountReaders, IInv, TypeInv, loops
<1>2. Whole(graph) /\ WellFormed(graph) /\ hash \in [DOMAIN graph -> Hash] /\ Reserving
      /\ at \in 1..(NLeafs + 1) /\ DOMAIN buffer \subseteq Nat /\ \A c \in DOMAIN buffer : buffer[c] \in Nat
  BY <1>1 DEF IInv, TypeInv, Whole
<1>3. /\ at = NLeafs + 1 /\ NLeafs \in Nat /\ Len(graph) \in Nat /\ at <= Len(graph) + 1
  <2>1. NLeafs \in Nat /\ Len(graph) \in Nat /\ Len(graph) >= NLeafs
    BY <1>2, TensorFacts
  <2>2. at > NLeafs /\ at \in 1..(NLeafs + 1)
    BY <1>1, <1>2, Zenon
  <2> QED BY <2>1, <2>2
<1>4. \A t : /\ Cardinality(ReadsOf(graph, t)) \in Nat /\ Cardinality(ViewsOf(graph, t)) \in Nat
  BY <1>3, PartFinite
<1>5. \A t \in DOMAIN graph :
        /\ hash'[t] \in Hash
        /\ hash'[t].addr = hash[t].addr /\ hash'[t].allocated = hash[t].allocated
        /\ hash'[t].n_children = Cardinality(ReadsOf(graph, t))
        /\ hash'[t].n_views = Cardinality(ViewsOf(graph, t))
  <2> TAKE t \in DOMAIN graph
  <2>1. hash[t] \in Hash
    BY <1>2
  <2>2. hash'[t] = [hash[t] EXCEPT !.n_children = Cardinality(ReadsOf(graph, t)),
                                   !.n_views = Cardinality(ViewsOf(graph, t))]
    BY <1>1
  <2>3. Cardinality(ReadsOf(graph, t)) \in Int /\ Cardinality(ViewsOf(graph, t)) \in Int
    BY <1>4
  <2> QED BY <2>1, <2>2, <2>3 DEF Hash
<1>6. hash' \in [DOMAIN graph -> Hash]
  BY <1>1, <1>5, Zenon
<1>7. Placed' = Placed /\ Placed \subseteq DOMAIN graph
  BY <1>1 DEF Placed, Own
<1>8. Layout' /\ PlacedWithin' /\ PlacedIntact'
  BY <1>1, <1>2, <1>5, <1>7, SameLayout, SameAddresses DEF Reserving
<1>9. \A t : Pending(t)' = ReadsOf(graph, t) /\ Waiting(t)' = ViewsOf(graph, t)
  <2>1. \A t : \A r \in ReadsOf(graph, t) : r.node > at \/ (r.node = at /\ r.k >= 0)
    BY <1>3 DEF ReadsOf, Reads, Nodes
  <2>2. \A t : Pending(t)' = ReadsOf(graph, t)
    BY <1>1, <2>1 DEF Pending
  <2>3. \A t : ReadsOf(graph, t)' = ReadsOf(graph, t) /\ ViewsOf(graph, t)' = ViewsOf(graph, t)
    BY <1>1
  <2> QED BY <2>2, <2>3 DEF Waiting
<1>10. Counted'
  BY <1>1, <1>5, <1>9 DEF Counted
<1>11. Kept'
  <2>1. \A t \in Placed : hash[t].allocated
    BY <1>1, <1>2 DEF Reserving, Kept
  <2> QED BY <1>5, <1>7, <2>1 DEF Kept
<1>12. TypeInv'
  <2>1. at' \in (NLeafs + 1)..(Len(graph) + 1)
    <3>1. at' = at
      BY <1>1, Zenon
    <3> QED BY <1>3, <3>1
  <2>2. Whole(graph)' /\ Len(graph') = Len(graph) /\ DOMAIN graph' = DOMAIN graph /\ buffer' = buffer
    BY <1>1, <1>2 DEF allocs
  <2> QED BY <1>1, <1>2, <1>6, <2>1, <2>2 DEF TypeInv
<1> QED BY <1>1, <1>8, <1>10, <1>11, <1>12 DEF IInv, Reserving

\* After the k-th source of the node, the reads from that one on are still to come, and
\* the tensors up to the node have been placed.
LEMMA GoOnFacts ==
  ASSUME WellFormed(graph), graph' = graph, at \in Nodes(graph), at \in DOMAIN graph,
         NEW k \in Nat \ {0}, k - 1 <= Len(graph[at].src), GoOn(k)
  PROVE  /\ \A t : Pending(t)' = {r \in ReadsOf(graph, t) :
                                    r.node > at \/ (r.node = at /\ r.k >= k)}
         /\ Placed' = {t \in Own : t <= at}
         /\ \A n \in Nat : n > at' \/ (n = at' /\ j' = 0) <=> n > at
         /\ at' \in (NLeafs + 1)..(Len(graph) + 1) /\ j' \in Nat
         /\ j' # 0 => at' <= Len(graph) /\ j' \in DOMAIN graph[at'].src
<1>1. /\ NLeafs \in Nat /\ Len(graph) \in Nat /\ at \in (NLeafs + 1)..Len(graph) /\ at \in Nat
      /\ DOMAIN graph[at].src = 1..Len(graph[at].src) /\ Len(graph[at].src) \in Nat
      /\ DOMAIN graph \subseteq Nat
  BY TensorFacts DEF Nodes
<1>2. \A t : \A r \in ReadsOf(graph, t) :
        r.node \in Nat /\ r.k \in Nat /\ r.k \in DOMAIN graph[r.node].src
  BY <1>1 DEF ReadsOf, Reads, Nodes
<1>3. Own' = Own /\ Own \subseteq Nat
  BY <1>1 DEF Own
<1>4. CASE k \in DOMAIN graph[at].src
  <2>1. at' = at /\ j' = k
    BY <1>4 DEF GoOn
  <2>2. \A t : Pending(t)' = {r \in ReadsOf(graph, t) :
                                r.node > at \/ (r.node = at /\ r.k >= k)}
    BY <2>1 DEF Pending
  <2>3. \A t \in Own : t < at \/ (t = at /\ k # 0) <=> t <= at
    BY <1>1, <1>3
  <2>4. Placed' = {t \in Own : t <= at}
    BY <1>3, <2>1, <2>3 DEF Placed
  <2>5. \A n \in Nat : n > at' \/ (n = at' /\ j' = 0) <=> n > at
    BY <2>1
  <2> QED BY <1>1, <1>4, <2>1, <2>2, <2>4, <2>5
<1>5. CASE k \notin DOMAIN graph[at].src
  <2>1. at' = at + 1 /\ j' = 0 /\ k = Len(graph[at].src) + 1
    BY <1>1, <1>5 DEF GoOn
  <2>2. \A t : Pending(t)' = {r \in ReadsOf(graph, t) :
                                r.node > at \/ (r.node = at /\ r.k >= k)}
    <3>1. \A t : \A r \in ReadsOf(graph, t) :
            r.node > at + 1 \/ (r.node = at + 1 /\ r.k >= 0)
              <=> r.node > at \/ (r.node = at /\ r.k >= k)
      <4> TAKE t
      <4> TAKE r \in ReadsOf(graph, t)
      <4>1. r.node \in Nat /\ r.k \in Nat /\ (r.node = at => r.k <= Len(graph[at].src))
        BY <1>1, <1>2
      <4> QED BY <1>1, <2>1, <4>1
    <3> QED BY <2>1, <3>1 DEF Pending
  <2>3. \A t \in Nat : t < at + 1 <=> t <= at
    BY <1>1
  <2>4. Placed' = {t \in Own : t <= at}
    BY <1>3, <2>1, <2>3 DEF Placed
  <2>5. \A n \in Nat : n > at' \/ (n = at' /\ j' = 0) <=> n > at
    BY <1>1, <2>1
  <2> QED BY <1>1, <2>1, <2>2, <2>4, <2>5
<1> QED BY <1>4, <1>5

\* The memory of a node.
LEMMA AllocateNodeKeeps ==
  ASSUME IInv, AllocateNode
  PROVE  IInv'
<1>1. /\ phase = "nodes" /\ phase' = "nodes" /\ at <= Len(graph) /\ j = 0
      /\ ggml_gallocr_allocate_node(at) /\ GoOn(1)
      /\ UNCHANGED <<graph, graphs, allocs>>
  BY DEF AllocateNode
<1>2. Whole(graph) /\ WellFormed(graph) /\ hash \in [DOMAIN graph -> Hash] /\ Reserving
      /\ at \in (NLeafs + 1)..(Len(graph) + 1)
      /\ DOMAIN buffer \subseteq Nat /\ \A c \in DOMAIN buffer : buffer[c] \in Nat
  BY <1>1 DEF IInv, TypeInv, Whole
<1>3. /\ at \in DOMAIN graph /\ at \in Nodes(graph) /\ at \in Nat /\ NLeafs \in Nat
      /\ DOMAIN graph \subseteq Nat /\ Len(graph) \in Nat /\ Len(graph[at].src) \in Nat
      /\ ~(at <= NLeafs)
  <2>1. NLeafs \in Nat /\ Len(graph) \in Nat /\ DOMAIN graph = 1..Len(graph)
    BY <1>2, TensorFacts
  <2>2. at \in DOMAIN graph /\ at \in Nodes(graph) /\ at \in Nat /\ ~(at <= NLeafs)
    BY <1>1, <1>2, <2>1 DEF Nodes
  <2>3. Len(graph[at].src) \in Nat
    BY <1>2, <2>2, TensorFacts
  <2> QED BY <2>1, <2>2, <2>3
<1>4. /\ \A t : Pending(t)' = {r \in ReadsOf(graph, t) :
                                 r.node > at \/ (r.node = at /\ r.k >= 1)}
      /\ Placed' = {t \in Own : t <= at}
      /\ \A n \in Nat : n > at' \/ (n = at' /\ j' = 0) <=> n > at
      /\ at' \in (NLeafs + 1)..(Len(graph) + 1) /\ j' \in Nat
      /\ j' # 0 => at' <= Len(graph) /\ j' \in DOMAIN graph[at'].src
  <2>1. 1 \in Nat \ {0} /\ 1 - 1 <= Len(graph[at].src)
    BY <1>3
  <2>2. WellFormed(graph) /\ graph' = graph /\ GoOn(1)
    BY <1>1, <1>2
  <2> QED BY <1>3, <2>1, <2>2, GoOnFacts, Zenon
<1>5. Placed' = Placed \cup ({at} \cap Own)
  <2>1. Own \subseteq Nat
    BY <1>3 DEF Own
  <2>2. \A t \in Own : t <= at <=> (t < at \/ (t = at /\ j # 0)) \/ t = at
    BY <1>3, <2>1
  <2> QED BY <1>4, <2>2 DEF Placed
<1>6. /\ hash' \in [DOMAIN graph -> Hash]
      /\ \A t \in DOMAIN graph : /\ hash'[t].n_children = hash[t].n_children
                                 /\ hash'[t].n_views = hash[t].n_views
      /\ Layout' /\ PlacedWithin' /\ PlacedIntact'
      /\ \A t \in Placed' : t = at \/ (\E n \in Readers(t) : n > at) => hash'[t].allocated
  BY <1>1, <1>2, <1>3, <1>5, GivenMemory
<1>7. \A t : Pending(t)' = Pending(t) /\ Waiting(t)' = Waiting(t)
  <2>1. \A t : \A r \in ReadsOf(graph, t) :
          r.node > at \/ (r.node = at /\ r.k >= 1) <=> r.node > at \/ (r.node = at /\ r.k >= j)
    BY <1>1 DEF ReadsOf, Reads
  <2>2. \A t : Pending(t)' = Pending(t)
    BY <1>4, <2>1 DEF Pending
  <2>3. \A t : ReadsOf(graph, t)' = ReadsOf(graph, t) /\ ViewsOf(graph, t)' = ViewsOf(graph, t)
    BY <1>1
  <2> QED BY <2>2, <2>3 DEF Waiting
<1>8. Counted'
  BY <1>1, <1>2, <1>6, <1>7 DEF Counted, Reserving
<1>9. Kept'
  <2>1. ASSUME NEW t \in Placed', Needed(t)' PROVE hash'[t].allocated
    <3>1. Readers(t)' = Readers(t)
      BY <1>1 DEF Readers, Root, IsView
    <3>2. \A n \in Readers(t) : n \in Nat
      BY <1>3 DEF Readers, Nodes
    <3>3. \E n \in Readers(t) : n > at
      BY <1>4, <2>1, <3>1, <3>2 DEF Needed
    <3> QED BY <1>6, <3>3
  <2> QED BY <1>1, <2>1 DEF Kept
<1>10. TypeInv'
  <2>1. Whole(graph)' /\ Len(graph') = Len(graph) /\ DOMAIN graph' = DOMAIN graph /\ buffer' = buffer
        /\ graph' = graph
    BY <1>1, <1>2 DEF allocs
  <2> QED BY <1>1, <1>2, <1>4, <1>6, <2>1 DEF TypeInv
<1> QED BY <1>1, <1>6, <1>8, <1>9, <1>10 DEF IInv, Reserving

-----------------------------------------------------------------------------
(* A source has been read.                                                 *)

\* The memory of a tensor is given back.
LEMMA GivenBack ==
  ASSUME WellFormed(graph), graph' = graph, Placed' = Placed, Layout, NEW t \in Allocated,
         \A u \in DOMAIN graph : hash'[u].addr = hash[u].addr,
         \A u \in DOMAIN graph \ {t} : hash'[u].allocated = hash[u].allocated,
         ~hash'[t].allocated,
         chunks' = ggml_dyn_tallocr_free_tensor(chunks, hash[t].addr, graph[t].size)
  PROVE  /\ Layout' /\ DOMAIN chunks' = DOMAIN chunks
         /\ \A c \in DOMAIN chunks : chunks'[c].max_size = chunks[c].max_size
<1> DEFINE regions == {Region(u) : u \in Allocated}
           r == Region(t)
<1>1. Allocated' = Allocated \ {t} /\ Allocated \subseteq DOMAIN graph
  BY DEF Allocated
<1>2. \A u \in Allocated : Region(u)' = Region(u)
  BY <1>1 DEF Region, SizeOf
<1>3. Lay(chunks, regions) /\ \A u, w \in Allocated : Region(u) = Region(w) => u = w
  BY DEF Layout
<1>4. {Region(u)' : u \in Allocated'} = regions \ {r}
  BY <1>1, <1>2, <1>3
<1>5. /\ Lay(chunks', regions \ {r}) /\ DOMAIN chunks' = DOMAIN chunks
      /\ \A c \in DOMAIN chunks : chunks'[c].max_size = chunks[c].max_size
  <2>1. r \in regions /\ hash[t].addr.chunk = r.chunk /\ hash[t].addr.offset = r.offset
        /\ Aligned(graph[t].size) = r.size
    BY DEF Region, SizeOf
  <2> HIDE DEF regions, r
  <2> QED BY <1>3, <2>1, FreeLay
<1>6. \A u, w \in Allocated' : Region(u)' = Region(w)' => u = w
  BY <1>1, <1>2, <1>3
<1> HIDE DEF regions, r
<1>7. Layout'
  <2>1. Allocated' \subseteq Placed'
    BY <1>1 DEF Layout
  <2>2. Lay(chunks, {Region(u) : u \in Allocated})'
    BY <1>4, <1>5
  <2> QED BY <1>6, <2>1, <2>2 DEF Layout
<1> QED BY <1>5, <1>7

\* When a source has been read once more, ...
LEMMA ReadOnce ==
  ASSUME WellFormed(graph), graph' = graph, at \in Nodes(graph), at \in DOMAIN graph,
         j \in DOMAIN graph[at].src,
         \A t : Pending(t)' = {r \in ReadsOf(graph, t) :
                                 r.node > at \/ (r.node = at /\ r.k >= j + 1)},
         NEW p, p = graph[at].src[j], NEW q, q = Root(p)
  PROVE  /\ p \in DOMAIN graph /\ q \in DOMAIN graph /\ graph[q].view = 0
         /\ IsFiniteSet(Pending(p)') /\ Cardinality(Pending(p)') = Cardinality(Pending(p)) - 1
         /\ \A t : t # p => Pending(t)' = Pending(t)
         /\ IsView(p) => q # p /\ Waiting(p) = {}
         /\ IsView(p) /\ Pending(p)' = {} =>
              /\ Cardinality(Waiting(q)') = Cardinality(Waiting(q)) - 1
              /\ \A t \in DOMAIN graph : t # q => Waiting(t)' = Waiting(t)
         /\ ~IsView(p) \/ Pending(p)' # {} => \A t \in DOMAIN graph : Waiting(t)' = Waiting(t)
<1> DEFINE r == [node |-> at, k |-> j]
<1>1. /\ at \in Nat /\ Len(graph) \in Nat /\ DOMAIN graph = 1..Len(graph)
      /\ j \in 1..GGML_MAX_SRC /\ j \in Nat
      /\ p \in DOMAIN graph /\ Root(p) \in DOMAIN graph /\ graph[Root(p)].view = 0
  <2>0. /\ Len(graph) \in Nat /\ DOMAIN graph = 1..Len(graph)
        /\ DOMAIN graph[at].src = 1..Len(graph[at].src) /\ Len(graph[at].src) \in 0..GGML_MAX_SRC
        /\ \A i \in DOMAIN graph[at].src : graph[at].src[i] \in 1..(at - 1)
    BY TensorFacts
  <2>1. /\ Len(graph) \in Nat /\ DOMAIN graph = 1..Len(graph) /\ at \in 1..Len(graph)
        /\ DOMAIN graph[at].src = 1..Len(graph[at].src) /\ Len(graph[at].src) \in 0..GGML_MAX_SRC
        /\ p \in 1..(at - 1)
    <3>1. graph[at].src[j] \in 1..(at - 1)
      BY <2>0
    <3> QED BY <2>0, <3>1
  <2>2. p \in DOMAIN graph /\ j \in 1..GGML_MAX_SRC /\ j \in Nat
    <3>1. GGML_MAX_SRC \in Nat /\ j \in 1..Len(graph[at].src)
      BY <2>1 DEF GGML_MAX_SRC
    <3>2. j \in 1..GGML_MAX_SRC /\ j \in Nat
      BY <2>1, <3>1
    <3>3. p \in 1..Len(graph)
      BY <2>1
    <3> QED BY <2>1, <3>2, <3>3, Zenon
  <2>3. graph[p].view \in 0..(p - 1) /\ (graph[p].view # 0 => graph[graph[p].view].view = 0)
    BY <2>2, TensorFacts
  <2>4. CASE graph[p].view = 0
    BY <2>1, <2>2, <2>4 DEF Root, IsView
  <2>5. CASE graph[p].view # 0
    <3>1. Root(p) = graph[p].view
      BY <2>5 DEF Root, IsView
    <3>2. PICK v : v = graph[p].view
      OBVIOUS
    <3>3. v \in 0..(p - 1) /\ v # 0 /\ p \in 1..Len(graph)
      BY <2>2, <2>0, <2>3, <2>5, <3>2
    <3>4. v \in 1..Len(graph)
      BY <2>0, <3>3
    <3>5. Root(p) \in DOMAIN graph /\ graph[Root(p)].view = 0
      BY <2>0, <2>3, <2>5, <3>1, <3>2, <3>4
    <3> QED BY <2>1, <2>2, <3>5
  <2> QED BY <2>4, <2>5
\* The reads that are still to come are all but this one.
<1>2. \A s \in Reads(graph) : s.node \in Nat /\ s.k \in Nat /\ s = [node |-> s.node, k |-> s.k]
  BY <1>1, GraphAssumption DEF Reads, Nodes
<1>3. r \in Pending(p) /\ \A t : t # p => r \notin ReadsOf(graph, t)
  BY <1>1 DEF Pending, ReadsOf, Reads
<1>4. \A t : Pending(t)' = Pending(t) \ {r}
  <2> TAKE t
  <2>1. ASSUME NEW s \in ReadsOf(graph, t)
        PROVE  s.node > at \/ (s.node = at /\ s.k >= j + 1)
                 <=> (s.node > at \/ (s.node = at /\ s.k >= j)) /\ s # r
    <3>1. s.node \in Nat /\ s.k \in Nat /\ s = [node |-> s.node, k |-> s.k]
      BY <1>2 DEF ReadsOf
    <3>2. s = r <=> s.node = at /\ s.k = j
      BY <3>1
    <3> QED BY <1>1, <3>1, <3>2
  <2> QED BY <2>1 DEF Pending
<1>5. \A t : t # p => Pending(t)' = Pending(t)
  BY <1>3, <1>4 DEF Pending
<1>6. \A t : /\ Pending(t) \subseteq ReadsOf(graph, t) /\ Waiting(t) \subseteq ViewsOf(graph, t)
             /\ Waiting(t)' \subseteq ViewsOf(graph, t)
  BY DEF Pending, Waiting
<1>20. \A t : /\ IsFiniteSet(Pending(t)) /\ IsFiniteSet(Waiting(t))
              /\ Cardinality(Pending(t)) \in Nat /\ Cardinality(Waiting(t)) \in Nat
  BY <1>1, <1>6, PartFinite
<1> HIDE DEF r
<1>7. Cardinality(Pending(p)') = Cardinality(Pending(p)) - 1 /\ IsFiniteSet(Pending(p)')
  BY <1>3, <1>4, <1>20, FS_RemoveElement
\* A view that has been read by all is no longer waited for.
<1>11. \A t : Waiting(t)' = {x \in ViewsOf(graph, t) : Pending(x)' # {} \/ ReadsOf(graph, x) = {}}
  BY DEF Waiting
<1>12. ReadsOf(graph, p) # {}
  BY <1>3 DEF Pending
<1>13. \A t : \A x \in ViewsOf(graph, t) : x # p => (x \in Waiting(t)' <=> x \in Waiting(t))
  BY <1>5, <1>11 DEF Waiting
<1>14. \A t : p \in ViewsOf(graph, t) => p \in Waiting(t) /\ (p \in Waiting(t)' <=> Pending(p)' # {})
  BY <1>3, <1>11, <1>12 DEF Waiting
<1>16. IsView(p) => ViewsOf(graph, p) = {} /\ Root(p) = graph[p].view /\ Root(p) # p
                    /\ p \in ViewsOf(graph, Root(p))
  <2> HAVE IsView(p)
  <2>1. graph[p].view # 0 /\ Root(p) = graph[p].view
    BY DEF IsView, Root
  <2>2. p \in Nodes(graph) /\ graph[p].view \in 0..(p - 1) /\ p \in Nat
    <3>1. p \in Nodes(graph) /\ graph[p].view \in 0..(p - 1)
      BY <1>1, <2>1, TensorFacts
    <3> QED BY <1>1, <3>1
  <2>3. \A x \in Nodes(graph) : x \in DOMAIN graph
    BY <1>1, GraphAssumption DEF Nodes
  <2>4. ViewsOf(graph, p) = {}
    <3> SUFFICES ASSUME NEW x \in ViewsOf(graph, p) PROVE FALSE
      OBVIOUS
    <3>1. x \in DOMAIN graph /\ graph[x].view = p
      BY <2>3 DEF ViewsOf
    <3>2. graph[x].view # 0
      BY <1>1, <3>1
    <3>3. graph[graph[x].view].view = 0
      BY <3>1, <3>2, TensorFacts
    <3> QED BY <2>1, <3>1, <3>3
  <2>5. Root(p) # p
    BY <2>1, <2>2
  <2>6. p \in ViewsOf(graph, Root(p))
    BY <2>1, <2>2 DEF ViewsOf
  <2> QED BY <2>1, <2>4, <2>5, <2>6
<1>17. ASSUME ~IsView(p), NEW t \in DOMAIN graph
       PROVE  Waiting(t)' = Waiting(t)
  <2>1. p \notin ViewsOf(graph, t)
    BY <1>1, <1>17 DEF IsView, ViewsOf
  <2> QED BY <1>6, <1>11, <1>13, <2>1
<1>18. ASSUME Pending(p)' # {}, NEW t
       PROVE  Waiting(t)' = Waiting(t)
  <2>1. \A x \in ViewsOf(graph, t) : x \in Waiting(t)' <=> x \in Waiting(t)
    BY <1>13, <1>14, <1>18
  <2> QED BY <1>6, <2>1
<1>19. ASSUME IsView(p), Pending(p)' = {}
       PROVE  /\ Cardinality(Waiting(q)') = Cardinality(Waiting(q)) - 1
              /\ \A t \in DOMAIN graph : t # q => Waiting(t)' = Waiting(t)
  <2>1. p \in ViewsOf(graph, q)
    BY <1>16, <1>19
  <2>2. \A x \in ViewsOf(graph, q) : x \in Waiting(q)' <=> x \in Waiting(q) /\ x # p
    BY <1>13, <1>14, <1>19
  <2>3. p \in Waiting(q)
    BY <1>14, <2>1
  <2>4. Waiting(q)' = Waiting(q) \ {p}
    BY <1>6, <2>2
  <2>5. Cardinality(Waiting(q)') = Cardinality(Waiting(q)) - 1
    <3>1. IsFiniteSet(Waiting(q))
      BY <1>20
    <3>2. Cardinality(Waiting(q) \ {p}) = Cardinality(Waiting(q)) - 1
      BY <2>3, <3>1, FS_RemoveElement, Zenon
    <3> QED BY <2>4, <3>2
  <2>6. \A t \in DOMAIN graph : t # q => Waiting(t)' = Waiting(t)
    <3> TAKE t \in DOMAIN graph
    <3> HAVE t # q
    <3>1. p \notin ViewsOf(graph, t)
      BY <2>1 DEF ViewsOf
    <3> QED BY <1>6, <1>11, <1>13, <3>1
  <2> QED BY <2>5, <2>6
<1>21. IsView(p) => q # p /\ Waiting(p) = {}
  BY <1>6, <1>16
<1> QED BY <1>1, <1>5, <1>7, <1>17, <1>18, <1>19, <1>21

\* ... its count and that of what it is a view of follow.
LEMMA CountsFollow ==
  ASSUME hash \in [DOMAIN graph -> Hash],
         \A t \in DOMAIN graph : /\ hash[t].n_children = Cardinality(Pending(t))
                                 /\ hash[t].n_views = Cardinality(Waiting(t)),
         NEW p \in DOMAIN graph, NEW q \in DOMAIN graph, q = Root(p),
         IsFiniteSet(Pending(p)'), Cardinality(Pending(p)') = Cardinality(Pending(p)) - 1,
         \A t : t # p => Pending(t)' = Pending(t),
         IsView(p) => q # p /\ Waiting(p) = {},
         IsView(p) /\ Pending(p)' = {} =>
           /\ Cardinality(Waiting(q)') = Cardinality(Waiting(q)) - 1
           /\ \A t \in DOMAIN graph : t # q => Waiting(t)' = Waiting(t),
         ~IsView(p) \/ Pending(p)' # {} => \A t \in DOMAIN graph : Waiting(t)' = Waiting(t),
         NEW c, c = [hash EXCEPT ![p].n_children = @ - 1],
         NEW d, Unread(c[p]) /\ IsView(p) => d = [c EXCEPT ![q].n_views = @ - 1],
         ~(Unread(c[p]) /\ IsView(p)) => d = c
  PROVE  /\ d \in [DOMAIN graph -> Hash]
         /\ \A t \in DOMAIN graph : /\ d[t].addr = hash[t].addr /\ d[t].allocated = hash[t].allocated
                                    /\ d[t].n_children = Cardinality(Pending(t)')
                                    /\ d[t].n_views = Cardinality(Waiting(t)')
<1> DEFINE e == [c EXCEPT ![q].n_views = @ - 1]
<1>1. /\ c \in [DOMAIN graph -> Hash] /\ \A t \in DOMAIN graph \ {p} : c[t] = hash[t]
      /\ c[p].n_children = Cardinality(Pending(p)') /\ c[p].n_views = hash[p].n_views
      /\ c[p].addr = hash[p].addr /\ c[p].allocated = hash[p].allocated
  <2>1. hash[p] \in Hash /\ hash[p].n_children - 1 = Cardinality(Pending(p)')
    OBVIOUS
  <2>2. hash[p].n_children - 1 \in Int
    BY <2>1 DEF Hash
  <2>3. c[p] = [hash[p] EXCEPT !.n_children = hash[p].n_children - 1]
    OBVIOUS
  <2>4. c[p] \in Hash /\ c[p].n_children = hash[p].n_children - 1
        /\ c[p].n_views = hash[p].n_views
        /\ c[p].addr = hash[p].addr /\ c[p].allocated = hash[p].allocated
    BY <2>1, <2>2, <2>3 DEF Hash
  <2>5. c \in [DOMAIN graph -> Hash] /\ \A t \in DOMAIN graph \ {p} : c[t] = hash[t]
    BY <2>3, <2>4
  <2> QED BY <2>1, <2>4, <2>5
<1>2. \A t \in DOMAIN graph : /\ c[t] \in Hash /\ c[t].n_children = Cardinality(Pending(t)')
                              /\ c[t].n_views = Cardinality(Waiting(t))
                              /\ c[t].addr = hash[t].addr /\ c[t].allocated = hash[t].allocated
  BY <1>1
<1>3. Cardinality(Pending(p)') = 0 <=> Pending(p)' = {}
  BY FS_EmptySet
<1>4. Unread(c[p]) /\ IsView(p) <=> IsView(p) /\ Pending(p)' = {}
  <2>1. IsView(p) => c[p].n_views = 0
    BY <1>2, FS_EmptySet
  <2> QED BY <1>2, <1>3, <2>1 DEF Unread
<1>5. CASE ~(IsView(p) /\ Pending(p)' = {})
  <2>1. \A t \in DOMAIN graph : c[t].n_views = Cardinality(Waiting(t)')
    BY <1>2, <1>5
  <2>2. d = c
    BY <1>4, <1>5
  <2> QED BY <1>1, <1>2, <2>1, <2>2
<1>6. CASE IsView(p) /\ Pending(p)' = {}
  <2>1. d = e /\ q # p
    BY <1>4, <1>6
  <2>2. c[q].n_views \in Int /\ c[q].n_views - 1 = Cardinality(Waiting(q)')
    BY <1>2, <1>6 DEF Hash
  <2>3. e[q] = [c[q] EXCEPT !.n_views = c[q].n_views - 1]
    BY <1>1
  <2>4. /\ e[q] \in Hash /\ e[q].n_views = c[q].n_views - 1
        /\ e[q].addr = c[q].addr /\ e[q].allocated = c[q].allocated
        /\ e[q].n_children = c[q].n_children
    BY <1>2, <2>2, <2>3 DEF Hash
  <2>5. e \in [DOMAIN graph -> Hash] /\ \A t \in DOMAIN graph \ {q} : e[t] = c[t]
    BY <1>1, <2>3, <2>4
  <2> HIDE DEF e
  <2>6. \A t \in DOMAIN graph \ {q} : /\ e[t].n_views = Cardinality(Waiting(t)')
                                      /\ e[t].n_children = Cardinality(Pending(t)')
                                      /\ e[t].addr = hash[t].addr
                                      /\ e[t].allocated = hash[t].allocated
    BY <1>2, <1>6, <2>5
  <2>7. \A t \in DOMAIN graph : /\ e[t].addr = hash[t].addr /\ e[t].allocated = hash[t].allocated
                                /\ e[t].n_children = Cardinality(Pending(t)')
                                /\ e[t].n_views = Cardinality(Waiting(t)')
    BY <1>2, <2>2, <2>4, <2>6
  <2> QED BY <2>1, <2>5, <2>7
<1> QED BY <1>5, <1>6

\* What has no reads to come, itself or through views, and is no output has no readers.
LEMMA UnreadIsFree ==
  ASSUME WellFormed(graph), graph' = graph, at \in Nodes(graph), NEW i,
         \A t : Pending(t)' = {r \in ReadsOf(graph, t) : r.node > at \/ (r.node = at /\ r.k >= i)},
         NEW q \in Own, Cardinality(Pending(q)') = 0, Cardinality(Waiting(q)') = 0,
         ~graph[q].output,
         NEW n \in Readers(q), n > at
  PROVE  FALSE
<1>1. Len(graph) \in Nat /\ NLeafs \in Nat
  BY TensorFacts
<1>2. Pending(q)' \subseteq ReadsOf(graph, q) /\ Waiting(q)' \subseteq ViewsOf(graph, q)
  BY DEF Waiting
<1>3. IsFiniteSet(Pending(q)') /\ IsFiniteSet(Waiting(q)')
  BY <1>1, <1>2, PartFinite
<1>4. Pending(q)' = {} /\ Waiting(q)' = {}
  BY <1>3, FS_EmptySet
<1>5. PICK v, k : v \in {q} \cup ViewsOf(graph, q) /\ [node |-> n, k |-> k] \in ReadsOf(graph, v)
  BY ReaderReads
<1>6. [node |-> n, k |-> k] \in Pending(v)'
  BY <1>5
<1>7. v \in ViewsOf(graph, q)
  BY <1>4, <1>5, <1>6
<1>8. v \in Waiting(q)'
  BY <1>6, <1>7 DEF Waiting
<1> QED BY <1>4, <1>8

\* A source that has been read: what it gives back is needed by no tensor to come.
LEMMA UpdateParentKeeps ==
  ASSUME IInv, UpdateParent
  PROVE  IInv'
<1> PICK p, q : p = graph[at].src[j] /\ q = Root(p)
  OBVIOUS
<1> DEFINE c == [hash EXCEPT ![p].n_children = @ - 1]
           d == IF Unread(c[p]) /\ IsView(p) THEN [c EXCEPT ![q].n_views = @ - 1] ELSE c
           frees == Unread(c[p]) /\ Unread(d[q]) /\ d[q].allocated /\ ~graph[q].output
<1>1. /\ phase = "nodes" /\ phase' = "nodes" /\ at <= Len(graph) /\ j # 0 /\ GoOn(j + 1)
      /\ UNCHANGED <<graph, graphs, allocs>> /\ graph' = graph
  BY DEF UpdateParent
<1>9. IF frees
      THEN /\ chunks' = ggml_dyn_tallocr_free_tensor(chunks, d[q].addr, graph[q].size)
           /\ hash' = [d EXCEPT ![q].allocated = FALSE]
      ELSE hash' = d /\ UNCHANGED chunks
  BY Zenon DEF UpdateParent
<1> HIDE DEF frees, d, c
<1>2. /\ Whole(graph) /\ WellFormed(graph) /\ hash \in [DOMAIN graph -> Hash]
      /\ at \in (NLeafs + 1)..(Len(graph) + 1) /\ j \in Nat /\ j \in DOMAIN graph[at].src
      /\ DOMAIN buffer \subseteq Nat /\ \A x \in DOMAIN buffer : buffer[x] \in Nat
      /\ Layout /\ Counted /\ Kept /\ PlacedWithin /\ PlacedIntact
  BY <1>1 DEF IInv, TypeInv, Whole, Reserving
<1>3. /\ at \in DOMAIN graph /\ at \in Nodes(graph) /\ at \in Nat /\ NLeafs \in Nat
      /\ DOMAIN graph \subseteq Nat /\ Len(graph) \in Nat /\ Len(graph[at].src) \in Nat
      /\ j <= Len(graph[at].src)
  <2>1. NLeafs \in Nat /\ Len(graph) \in Nat /\ DOMAIN graph = 1..Len(graph)
    BY <1>2, TensorFacts
  <2>2. at \in DOMAIN graph /\ at \in Nodes(graph) /\ at \in Nat
    <3>1. at \in (NLeafs + 1)..Len(graph)
      BY <1>1, <1>2, <2>1
    <3> QED BY <2>1, <3>1 DEF Nodes
  <2>3. Len(graph[at].src) \in Nat /\ DOMAIN graph[at].src = 1..Len(graph[at].src)
    BY <1>2, <2>2, TensorFacts
  <2> QED BY <1>2, <2>1, <2>2, <2>3
<1>4. /\ \A t : Pending(t)' = {r \in ReadsOf(graph, t) :
                                 r.node > at \/ (r.node = at /\ r.k >= j + 1)}
      /\ Placed' = {t \in Own : t <= at}
      /\ \A n \in Nat : n > at' \/ (n = at' /\ j' = 0) <=> n > at
      /\ at' \in (NLeafs + 1)..(Len(graph) + 1) /\ j' \in Nat
      /\ j' # 0 => at' <= Len(graph) /\ j' \in DOMAIN graph[at'].src
  <2>1. j + 1 \in Nat \ {0} /\ (j + 1) - 1 <= Len(graph[at].src)
    BY <1>2, <1>3
  <2> QED BY <1>1, <1>2, <1>3, <2>1, GoOnFacts
<1>5. Placed' = Placed
  <2>1. Own \subseteq Nat
    BY <1>3 DEF Own
  <2>2. \A t \in Nat : t <= at <=> t < at \/ t = at
    BY <1>3
  <2> QED BY <1>1, <1>4, <2>1, <2>2 DEF Placed
<1>6. /\ p \in DOMAIN graph /\ q \in DOMAIN graph /\ graph[q].view = 0
      /\ IsFiniteSet(Pending(p)') /\ Cardinality(Pending(p)') = Cardinality(Pending(p)) - 1
      /\ \A t : t # p => Pending(t)' = Pending(t)
      /\ IsView(p) => q # p /\ Waiting(p) = {}
      /\ IsView(p) /\ Pending(p)' = {} =>
           /\ Cardinality(Waiting(q)') = Cardinality(Waiting(q)) - 1
           /\ \A t \in DOMAIN graph : t # q => Waiting(t)' = Waiting(t)
      /\ ~IsView(p) \/ Pending(p)' # {} => \A t \in DOMAIN graph : Waiting(t)' = Waiting(t)
  <2>1. graph' = graph
    BY <1>1
  <2> QED BY <1>2, <1>3, <1>4, <2>1, ReadOnce
<1>7. /\ d \in [DOMAIN graph -> Hash]
      /\ \A t \in DOMAIN graph : /\ d[t].addr = hash[t].addr /\ d[t].allocated = hash[t].allocated
                                 /\ d[t].n_children = Cardinality(Pending(t)')
                                 /\ d[t].n_views = Cardinality(Waiting(t)')
  <2>1. \A t \in DOMAIN graph : /\ hash[t].n_children = Cardinality(Pending(t))
                                /\ hash[t].n_views = Cardinality(Waiting(t))
    BY <1>1, <1>2, Zenon DEF Counted
  <2>2. q = Root(p) /\ hash \in [DOMAIN graph -> Hash]
    BY <1>2
  <2>3. /\ c = [hash EXCEPT ![p].n_children = @ - 1]
        /\ Unread(c[p]) /\ IsView(p) => d = [c EXCEPT ![q].n_views = @ - 1]
        /\ ~(Unread(c[p]) /\ IsView(p)) => d = c
    <3>1. c = [hash EXCEPT ![p].n_children = @ - 1]
      BY Zenon DEF c
    <3>2. d = IF Unread(c[p]) /\ IsView(p) THEN [c EXCEPT ![q].n_views = @ - 1] ELSE c
      BY SMT DEF d
    <3> QED BY <3>1, <3>2
  <2> QED BY <1>6, <2>1, <2>2, <2>3, CountsFollow, SMTT(30)
<1>8. /\ hash' \in [DOMAIN graph -> Hash]
      /\ \A t \in DOMAIN graph : /\ hash'[t].addr = hash[t].addr
                                 /\ hash'[t].n_children = Cardinality(Pending(t)')
                                 /\ hash'[t].n_views = Cardinality(Waiting(t)')
      /\ Layout' /\ DOMAIN chunks' = DOMAIN chunks
      /\ \A x \in DOMAIN chunks : chunks'[x].max_size = chunks[x].max_size
      /\ \A t \in Placed : hash[t].allocated /\ (\E n \in Readers(t) : n > at) => hash'[t].allocated
  <2>1. Placed \subseteq Own /\ Own \subseteq DOMAIN graph
    BY DEF Placed, Own
  <2>2. CASE ~frees
    <3>1. hash' = d /\ chunks' = chunks
      BY <1>9, <2>2
    <3>2. Layout'
      BY <1>1, <1>2, <1>5, <1>7, <3>1, SameLayout
    <3> QED BY <1>7, <2>1, <3>1, <3>2
  <2>3. CASE frees
    <3>1. /\ chunks' = ggml_dyn_tallocr_free_tensor(chunks, d[q].addr, graph[q].size)
          /\ hash' = [d EXCEPT ![q].allocated = FALSE]
      BY <1>9, <2>3
    <3>2. d[q] \in Hash /\ d[q].allocated /\ ~graph[q].output /\ Unread(d[q])
      BY <1>6, <1>7, <2>3 DEF frees
    <3>3. hash'[q] = [d[q] EXCEPT !.allocated = FALSE]
      BY <1>6, <1>7, <3>1
    <3>4. /\ hash'[q] \in Hash /\ ~hash'[q].allocated /\ hash'[q].addr = d[q].addr
          /\ hash'[q].n_children = d[q].n_children /\ hash'[q].n_views = d[q].n_views
      BY <3>2, <3>3 DEF Hash
    <3>5. hash' \in [DOMAIN graph -> Hash] /\ \A t \in DOMAIN graph \ {q} : hash'[t] = d[t]
      BY <1>7, <3>1, <3>3, <3>4
    <3>6. \A t \in DOMAIN graph : /\ hash'[t].addr = hash[t].addr
                                  /\ hash'[t].n_children = Cardinality(Pending(t)')
                                  /\ hash'[t].n_views = Cardinality(Waiting(t)')
      BY <1>7, <3>4, <3>5
    <3>7. \A t \in DOMAIN graph \ {q} : hash'[t].allocated = hash[t].allocated
      BY <1>7, <3>5
    <3>8. q \in Allocated /\ chunks' = ggml_dyn_tallocr_free_tensor(chunks, hash[q].addr, graph[q].size)
      <4>1. d[q].addr = hash[q].addr /\ hash[q].allocated
        BY <1>6, <1>7, <3>2
      <4> QED BY <1>6, <3>1, <4>1 DEF Allocated
    <3>9. /\ Layout' /\ DOMAIN chunks' = DOMAIN chunks
          /\ \A x \in DOMAIN chunks : chunks'[x].max_size = chunks[x].max_size
      BY <1>1, <1>2, <1>5, <3>4, <3>6, <3>7, <3>8, GivenBack
    <3>10. q \in Own
      <4>1. q \in Placed
        BY <1>2, <3>8 DEF Layout
      <4> QED BY <2>1, <4>1
    <3>11. Cardinality(Pending(q)') = 0 /\ Cardinality(Waiting(q)') = 0
      BY <1>6, <1>7, <3>2 DEF Unread
    <3>12. ~ \E n \in Readers(q) : n > at
      BY <1>1, <1>2, <1>3, <1>4, <3>2, <3>10, <3>11, UnreadIsFree
    <3>13. \A t \in Placed : hash[t].allocated /\ (\E n \in Readers(t) : n > at) => hash'[t].allocated
      BY <2>1, <3>7, <3>12
    <3> QED BY <3>5, <3>6, <3>9, <3>13
  <2> QED BY <2>2, <2>3
<1>10. PlacedWithin' /\ PlacedIntact'
  <2>1. \A t \in Placed : hash'[t].addr = hash[t].addr
    BY <1>8 DEF Placed, Own
  <2> QED BY <1>1, <1>2, <1>5, <1>8, <2>1, SameAddresses
<1>11. Kept'
  <2>1. ASSUME NEW t \in Placed', Needed(t)' PROVE hash'[t].allocated
    <3>1. Readers(t)' = Readers(t) /\ \A n \in Readers(t) : n \in Nat
      BY <1>1, <1>3 DEF Readers, Root, IsView, Nodes
    <3>2. \E n \in Readers(t) : n > at
      BY <1>4, <2>1, <3>1 DEF Needed
    <3>3. Needed(t)
      BY <3>2 DEF Needed
    <3>4. hash[t].allocated
      BY <1>2, <1>5, <3>3 DEF Kept
    <3> QED BY <1>5, <1>8, <3>2, <3>4
  <2> QED BY <1>1, <2>1 DEF Kept
<1>12. Counted'
  <2>1. DOMAIN graph' = DOMAIN graph
    BY <1>1
  <2> QED BY <1>8, <2>1, Zenon DEF Counted
<1>13. TypeInv'
  <2>1. Whole(graph)' /\ Len(graph') = Len(graph) /\ DOMAIN graph' = DOMAIN graph /\ buffer' = buffer
        /\ graph' = graph
    BY <1>1, <1>2 DEF allocs
  <2> QED BY <1>1, <1>2, <1>4, <1>8, <2>1 DEF TypeInv
<1> QED BY <1>1, <1>8, <1>10, <1>11, <1>12, <1>13 DEF IInv, Reserving

-----------------------------------------------------------------------------
(* The first graph.                                                        *)

\* The hash values of a new graph are of their type, and nothing is allocated.
LEMMA NoHashType ==
  ASSUME NEW g
  PROVE  /\ NoHash(g) \in [DOMAIN g -> Hash]
         /\ \A t \in DOMAIN g : ~NoHash(g)[t].allocated
BY DEF NoHash, Hash, Nowhere

\* A graph of leafs only.
LEMMA InitInv ==
  ASSUME Init
  PROVE  IInv
<1>1. /\ graph \in LeafsOf /\ graphs = 1 /\ phase = "build" /\ at = 1 /\ j = 0
      /\ chunks = <<>> /\ hash = NoHash(graph) /\ buffer = <<>>
  BY DEF Init
<1>2. graph \in [1..NLeafs -> Tensors(<<>>)] /\ NLeafs \in Nat /\ NNodes \in Nat \ {0}
  BY <1>1, GraphAssumption
<1>3. \A x \in Tensors(<<>>) : x \in Tensor /\ x.src = <<>> /\ x.view = 0
  <2> TAKE x \in Tensors(<<>>)
  <2>1. /\ x \in [src : Seq(DOMAIN <<>>), view : {0} \cup DOMAIN <<>>, size : Sizes,
                  inplace : BOOLEAN, external : BOOLEAN, output : BOOLEAN]
    BY DEF Tensors
  <2>2. DOMAIN <<>> = {}
    OBVIOUS
  <2>3. x.src = <<>> /\ x.view = 0
    BY <2>1, <2>2
  <2>4. x.src \in Seq(Nat) /\ x.view \in Nat
    BY <2>3
  <2> QED BY <2>1, <2>3, <2>4 DEF Tensor
<1>4. graph \in Seq(Tensor) /\ Len(graph) = NLeafs /\ DOMAIN graph = 1..NLeafs
      /\ \A t \in 1..NLeafs : graph[t].src = <<>> /\ graph[t].view = 0
  <2>1. graph \in [1..NLeafs -> Tensor]
    BY <1>2, <1>3
  <2> QED BY <1>2, <1>3, <2>1
<1>5. WellFormed(graph)
  <2>1. \A t \in DOMAIN graph :
          /\ Len(graph[t].src) <= GGML_MAX_SRC
          /\ \A k \in DOMAIN graph[t].src : graph[t].src[k] \in 1..(t - 1)
          /\ graph[t].view < t /\ (graph[t].view # 0 => graph[graph[t].view].view = 0)
    <3> TAKE t \in DOMAIN graph
    <3>1. graph[t].src = <<>> /\ graph[t].view = 0 /\ t \in Nat /\ t > 0
      BY <1>2, <1>4
    <3>2. Len(graph[t].src) = 0 /\ DOMAIN graph[t].src = {}
      BY <3>1
    <3> QED BY <3>1, <3>2 DEF GGML_MAX_SRC
  <2> QED BY <1>2, <1>4, <2>1 DEF WellFormed
<1>6. TypeInv
  <2>1. Len(graph) < NLeafs + NNodes
    BY <1>2, <1>4
  <2> QED BY <1>1, <1>5, <2>1, NoHashType DEF TypeInv
<1> QED BY <1>1, <1>6 DEF IInv

\* A graph with one more node is a graph.
LEMMA AppendWellFormed ==
  ASSUME WellFormed(graph), NEW n \in Tensors(graph)
  PROVE  /\ WellFormed(Append(graph, n)) /\ Len(Append(graph, n)) = Len(graph) + 1
<1> DEFINE g == Append(graph, n)
           new == Len(graph) + 1
<1>1. /\ Len(graph) \in Nat /\ DOMAIN graph = 1..Len(graph) /\ NLeafs \in Nat
      /\ Len(graph) >= NLeafs /\ graph \in Seq(Tensor)
  BY TensorFacts DEF WellFormed
<1>2. /\ n.src \in Seq(DOMAIN graph) /\ n.view \in {0} \cup DOMAIN graph /\ Len(n.src) <= GGML_MAX_SRC
      /\ n.view # 0 => graph[n.view].view = 0
      /\ n \in [src : Seq(DOMAIN graph), view : {0} \cup DOMAIN graph, size : Sizes,
                inplace : BOOLEAN, external : BOOLEAN, output : BOOLEAN]
  BY DEF Tensors
<1>3. n \in Tensor
  <2>1. DOMAIN graph \subseteq Nat
    BY <1>1
  <2>2. n.src \in Seq(Nat) /\ n.view \in Nat
    BY <1>2, <2>1
  <2> QED BY <1>2, <2>2 DEF Tensor
<1>4. /\ g \in Seq(Tensor) /\ Len(g) = new /\ DOMAIN g = 1..new /\ g[new] = n
      /\ \A t \in DOMAIN graph : g[t] = graph[t]
  BY <1>1, <1>3
<1> HIDE DEF g
<1>5. ASSUME NEW t \in DOMAIN graph
      PROVE  /\ Len(g[t].src) <= GGML_MAX_SRC
             /\ \A k \in DOMAIN g[t].src : g[t].src[k] \in 1..(t - 1)
             /\ g[t].view < t /\ (g[t].view # 0 => g[g[t].view].view = 0)
  <2>1. /\ Len(graph[t].src) <= GGML_MAX_SRC
        /\ \A k \in DOMAIN graph[t].src : graph[t].src[k] \in 1..(t - 1)
        /\ graph[t].view < t /\ (graph[t].view # 0 => graph[graph[t].view].view = 0)
    BY DEF WellFormed
  <2>2. graph[t].view \in 0..(t - 1) /\ t \in 1..Len(graph)
    BY <1>1, TensorFacts
  <2>3. graph[t].view # 0 => graph[t].view \in DOMAIN graph
    BY <1>1, <2>2
  <2> QED BY <1>4, <2>1, <2>3
<1>6. /\ Len(g[new].src) <= GGML_MAX_SRC
      /\ \A k \in DOMAIN g[new].src : g[new].src[k] \in 1..(new - 1)
      /\ g[new].view < new /\ (g[new].view # 0 => g[g[new].view].view = 0)
  <2>1. \A k \in DOMAIN n.src : n.src[k] \in DOMAIN graph
    BY <1>2
  <2>2. n.view < new
    BY <1>1, <1>2
  <2> QED BY <1>1, <1>2, <1>4, <2>1, <2>2
<1>7. \A t \in 1..NLeafs : g[t].src = <<>> /\ g[t].view = 0
  <2>1. \A t \in 1..NLeafs : t \in DOMAIN graph
    BY <1>1
  <2> QED BY <1>4, <2>1 DEF WellFormed
<1>8. \A t \in DOMAIN g : t \in DOMAIN graph \/ t = new
  BY <1>1, <1>4
<1> HIDE DEF new
<1>9. WellFormed(g)
  <2>1. Len(g) >= NLeafs
    BY <1>1, <1>4 DEF new
  <2> QED BY <1>4, <1>5, <1>6, <1>7, <1>8, <2>1 DEF WellFormed
<1> QED BY <1>4, <1>9 DEF g, new

\* Nothing has been placed before the first leaf.
LEMMA NothingPlaced ==
  ASSUME WellFormed(graph), at = 1, j = 0, hash = NoHash(graph), chunks = <<>>,
         phase = "leafs"
  PROVE  Reserving
<1>1. DOMAIN graph \subseteq Nat \ {0}
  BY TensorFacts
<1>2. Placed = {} /\ Allocated = {}
  BY <1>1, NoHashType DEF Placed, Allocated, Own
<1>3. Lay(<<>>, {})
  BY DEF Lay
<1>4. {Region(t) : t \in Allocated} = {}
  BY <1>2
<1>5. Layout
  BY <1>2, <1>3, <1>4 DEF Layout
<1> QED BY <1>2, <1>5 DEF Reserving, Counted, Kept, PlacedWithin, PlacedIntact

\* The caller builds the graph.
LEMMA AddNodeKeeps ==
  ASSUME IInv, NEW n, AddNode(n)
  PROVE  IInv'
<1> DEFINE whole == Len(graph) + 1 = NLeafs + NNodes
<1>1. /\ phase = "build" /\ n \in Tensors(graph) /\ graph' = Append(graph, n)
      /\ hash' = NoHash(graph')
      /\ whole => \A l \in 1..NLeafs : ReadsOf(graph', l) # {}
      /\ phase' = IF whole THEN "leafs" ELSE "build"
      /\ at' = at /\ j' = j /\ chunks' = chunks /\ buffer' = buffer
  BY DEF AddNode, loops, allocs
<1>2. /\ WellFormed(graph) /\ Len(graph) < NLeafs + NNodes
      /\ at = 1 /\ j = 0 /\ chunks = <<>>
      /\ DOMAIN buffer \subseteq Nat /\ \A c \in DOMAIN buffer : buffer[c] \in Nat
  BY <1>1 DEF IInv, TypeInv
<1>3. WellFormed(graph') /\ Len(graph') = Len(graph) + 1
  BY <1>1, <1>2, AppendWellFormed
<1>4. NLeafs \in Nat /\ NNodes \in Nat /\ Len(graph) \in Nat
  BY <1>2, TensorFacts, GraphAssumption
<1>5. hash' \in [DOMAIN graph' -> Hash]
  BY <1>1, NoHashType
<1>6. CASE whole
  <2>1. Whole(graph') /\ phase' = "leafs"
    BY <1>1, <1>3, <1>6 DEF Whole
  <2>2. TypeInv'
    <3>1. at' \in 1..(NLeafs + 1)
      BY <1>1, <1>2, <1>4
    <3> QED BY <1>1, <1>2, <1>5, <2>1, <3>1 DEF TypeInv
  <2>3. Reserving'
    <3>1. WellFormed(graph)' /\ (at = 1)' /\ (j = 0)' /\ (hash = NoHash(graph))' /\ (chunks = <<>>)'
          /\ (phase = "leafs")'
      BY <1>1, <1>2, <1>3, <2>1
    <3> QED BY <3>1, NothingPlaced, PTL
  <2> QED BY <2>1, <2>2, <2>3 DEF IInv
<1>7. CASE ~whole
  <2>1. phase' = "build" /\ Len(graph') < NLeafs + NNodes
    BY <1>1, <1>2, <1>3, <1>4, <1>7
  <2>2. TypeInv'
    BY <1>1, <1>2, <1>3, <1>5, <2>1 DEF TypeInv
  <2> QED BY <2>1, <2>2 DEF IInv
<1> QED BY <1>6, <1>7

-----------------------------------------------------------------------------
(* What was found is used for the graphs that follow.                      *)

\* A graph is itself in the same sizes.
LEMMA SameGraphRefl ==
  ASSUME WellFormed(graph)
  PROVE  SameGraph(graph, graph)
<1>1. /\ graph = [t \in DOMAIN graph |-> graph[t]]
      /\ \A t \in DOMAIN graph : graph[t] \in Tensor
  BY TensorFacts DEF WellFormed
<1>2. \A t \in DOMAIN graph : /\ graph[t].size \in Sizes
                              /\ [graph[t] EXCEPT !.size = graph[t].size] = graph[t]
  BY <1>1 DEF Tensor
<1>3. graph = [t \in DOMAIN graph |-> [graph[t] EXCEPT !.size = graph[t].size]]
  BY <1>1, <1>2
<1> QED BY <1>2, <1>3, Zenon DEF SameGraph

\* The same graph in other sizes has the same reads, and the same tensors are its own.
LEMMA SameGraphFacts ==
  ASSUME WellFormed(graph), NEW g, SameGraph(graph, g)
  PROVE  /\ WellFormed(g) /\ Len(g) = Len(graph) /\ DOMAIN g = DOMAIN graph
         /\ \A t \in DOMAIN graph :
              /\ g[t] \in Tensor
              /\ g[t].src = graph[t].src /\ g[t].view = graph[t].view
              /\ g[t].inplace = graph[t].inplace /\ g[t].external = graph[t].external
              /\ g[t].output = graph[t].output
         /\ \A t : ReadsOf(g, t) = ReadsOf(graph, t)
         /\ Nodes(g) = Nodes(graph)
<1>1. /\ g = [t \in DOMAIN graph |-> [graph[t] EXCEPT !.size = g[t].size]]
      /\ \A t \in DOMAIN graph : g[t].size \in Sizes
  BY DEF SameGraph
<1>2. /\ Len(graph) \in Nat /\ DOMAIN graph = 1..Len(graph) /\ NLeafs \in Nat
      /\ \A t \in DOMAIN graph : graph[t] \in Tensor
  BY TensorFacts
<1>3. DOMAIN g = DOMAIN graph
  BY <1>1
<1>4. \A t \in DOMAIN graph :
        /\ g[t] \in Tensor
        /\ g[t].src = graph[t].src /\ g[t].view = graph[t].view
        /\ g[t].inplace = graph[t].inplace /\ g[t].external = graph[t].external
        /\ g[t].output = graph[t].output
  <2> TAKE t \in DOMAIN graph
  <2>1. g[t] = [graph[t] EXCEPT !.size = g[t].size]
    BY <1>1
  <2>2. graph[t] \in Tensor /\ g[t].size \in Sizes
    BY <1>1, <1>2
  <2> QED BY <2>1, <2>2 DEF Tensor
<1>5. g \in Seq(Tensor) /\ Len(g) = Len(graph)
  <2>1. g \in [1..Len(graph) -> Tensor]
    BY <1>1, <1>2, <1>4
  <2> QED BY <1>2, <2>1
<1>6. Nodes(g) = Nodes(graph)
  BY <1>5 DEF Nodes
<1>7. \A n \in Nodes(graph) : n \in DOMAIN graph
  BY <1>2 DEF Nodes
<1>8. \A t : ReadsOf(g, t) = ReadsOf(graph, t)
  <2>1. Reads(g) = Reads(graph)
    BY <1>4, <1>6, <1>7 DEF Reads
  <2>2. \A r \in Reads(graph) : g[r.node].src = graph[r.node].src
    BY <1>4, <1>7 DEF Reads
  <2> QED BY <2>1, <2>2 DEF ReadsOf
<1>9. WellFormed(g)
  <2>1. \A t \in DOMAIN g :
          /\ Len(g[t].src) <= GGML_MAX_SRC
          /\ \A k \in DOMAIN g[t].src : g[t].src[k] \in 1..(t - 1)
          /\ g[t].view < t /\ (g[t].view # 0 => g[g[t].view].view = 0)
    <3> TAKE t \in DOMAIN g
    <3>1. /\ Len(graph[t].src) <= GGML_MAX_SRC
          /\ \A k \in DOMAIN graph[t].src : graph[t].src[k] \in 1..(t - 1)
          /\ graph[t].view < t /\ (graph[t].view # 0 => graph[graph[t].view].view = 0)
      BY <1>3 DEF WellFormed
    <3>2. graph[t].view \in 0..(t - 1) /\ t \in 1..Len(graph)
      BY <1>2, <1>3, TensorFacts
    <3>3. graph[t].view # 0 => graph[t].view \in DOMAIN graph
      BY <1>2, <3>2
    <3> QED BY <1>3, <1>4, <3>1, <3>3
  <2>2. \A t \in 1..NLeafs : t \in DOMAIN graph
    BY <1>2, TensorFacts
  <2>3. \A t \in 1..NLeafs : g[t].src = <<>> /\ g[t].view = 0
    BY <1>4, <2>2 DEF WellFormed
  <2>4. Len(g) >= NLeafs
    BY <1>5, TensorFacts
  <2> QED BY <1>5, <2>1, <2>3, <2>4 DEF WellFormed
<1> QED BY <1>3, <1>4, <1>5, <1>6, <1>8, <1>9

\* What was found is kept: the addresses of the tensors lie within their buffers and apart
\* while both are needed.
LEMMA SetAllocsKeeps ==
  ASSUME IInv, SetAllocs
  PROVE  IInv'
<1> DEFINE sizes == [c \in DOMAIN chunks |-> chunks[c].max_size]
<1>1. /\ phase = "nodes" /\ at > Len(graph) /\ phase' = "ready"
      /\ reserved' = graph /\ addr' = [t \in DOMAIN graph |-> hash[t].addr]
      /\ buffer' = IF TooSmall(buffer, sizes) THEN sizes ELSE buffer
      /\ chunks' = <<>> /\ hash' = NoHash(graph) /\ at' = 1 /\ j' = 0
      /\ graph' = graph
  BY DEF SetAllocs
<1>2. /\ Whole(graph) /\ WellFormed(graph) /\ hash \in [DOMAIN graph -> Hash]
      /\ DOMAIN buffer \subseteq Nat /\ \A c \in DOMAIN buffer : buffer[c] \in Nat
      /\ Layout /\ PlacedWithin /\ PlacedIntact /\ at \in Nat
  <2>1. /\ Whole(graph) /\ hash \in [DOMAIN graph -> Hash]
        /\ DOMAIN buffer \subseteq Nat /\ \A c \in DOMAIN buffer : buffer[c] \in Nat
        /\ at \in (NLeafs + 1)..(Len(graph) + 1)
    BY <1>1 DEF IInv, TypeInv
  <2>2. Layout /\ PlacedWithin /\ PlacedIntact
    BY <1>1 DEF IInv, Reserving
  <2>3. WellFormed(graph)
    BY <2>1 DEF Whole
  <2>4. at \in Nat
    BY <2>1, <2>3, TensorFacts
  <2> QED BY <2>1, <2>2, <2>3, <2>4
<1>3. /\ Len(graph) \in Nat /\ DOMAIN graph = 1..Len(graph)
      /\ Placed = Own /\ Own \subseteq DOMAIN graph
  <2>1. Len(graph) \in Nat /\ DOMAIN graph = 1..Len(graph)
    BY <1>2, TensorFacts
  <2>2. Own \subseteq DOMAIN graph
    BY DEF Own
  <2>3. \A t \in DOMAIN graph : t < at
    BY <1>1, <1>2, <2>1
  <2> QED BY <2>1, <2>2, <2>3 DEF Placed
<1>4. /\ DOMAIN chunks \subseteq Nat /\ \A c \in DOMAIN chunks : chunks[c].max_size \in Nat
  <2>1. chunks \in Seq(Chunk)
    BY <1>2 DEF Layout, Lay
  <2>2. \A c \in DOMAIN chunks : chunks[c] \in Chunk /\ c \in Nat
    BY <2>1
  <2> QED BY <2>2 DEF Chunk
<1>5. DOMAIN sizes = DOMAIN chunks /\ \A c \in DOMAIN chunks : sizes[c] = chunks[c].max_size
  OBVIOUS
<1> HIDE DEF sizes
<1>6. \A t \in Own : graph[t].size \in Nat \ {0} /\ SizeOf(t) \in Nat /\ SizeOf(t) >= graph[t].size
  BY <1>2, <1>3, SizeOfFacts
<1>7. \A t \in Own : /\ hash[t].addr \in [chunk : Nat, offset : Nat]
                     /\ addr'[t] = hash[t].addr
                     /\ hash[t].addr.chunk \in DOMAIN chunks
                     /\ hash[t].addr.offset + SizeOf(t) <= chunks[hash[t].addr.chunk].max_size
  <2> TAKE t \in Own
  <2>1. hash[t] \in Hash
    BY <1>2, <1>3
  <2> QED BY <1>1, <1>2, <1>3, <2>1 DEF PlacedWithin, Hash
\* The buffers are as large as the chunks.
<1>8. \A c \in DOMAIN chunks : chunks[c].max_size > 0 =>
        c \in DOMAIN buffer' /\ buffer'[c] \in Nat /\ chunks[c].max_size <= buffer'[c]
  <2>1. CASE TooSmall(buffer, sizes)
    BY <1>1, <1>4, <1>5, <2>1
  <2>2. CASE ~TooSmall(buffer, sizes)
    <3>1. buffer' = buffer
      BY <1>1, <2>2
    <3>2. \A c \in DOMAIN chunks :
            ~(chunks[c].max_size > (IF c \in DOMAIN buffer THEN buffer[c] ELSE 0))
      BY <1>5, <2>2 DEF TooSmall
    <3> QED BY <1>2, <1>4, <3>1, <3>2
  <2> QED BY <2>1, <2>2
<1>9. ASSUME NEW t \in Own
      PROVE  /\ addr'[t] \in [chunk : DOMAIN buffer', offset : Nat]
             /\ addr'[t].offset + graph[t].size <= buffer'[addr'[t].chunk]
  <2> DEFINE c == hash[t].addr.chunk
  <2>1. /\ c \in DOMAIN chunks /\ hash[t].addr.offset \in Nat
        /\ hash[t].addr.offset + SizeOf(t) <= chunks[c].max_size
        /\ hash[t].addr = [chunk |-> c, offset |-> hash[t].addr.offset]
    BY <1>7
  <2> HIDE DEF c
  <2>2. chunks[c].max_size \in Nat /\ chunks[c].max_size > 0
        /\ hash[t].addr.offset + graph[t].size <= chunks[c].max_size
    BY <1>4, <1>6, <2>1
  <2>3. c \in DOMAIN buffer' /\ buffer'[c] \in Nat /\ chunks[c].max_size <= buffer'[c]
    BY <1>8, <2>1, <2>2
  <2>4. hash[t].addr.offset + graph[t].size \in Nat
    BY <1>6, <2>1
  <2>5. hash[t].addr.offset + graph[t].size <= buffer'[c]
    BY <2>2, <2>3, <2>4
  <2>6. addr'[t] = hash[t].addr /\ hash[t].addr.chunk = c
    BY <1>7 DEF c
  <2> QED BY <2>1, <2>3, <2>5, <2>6
<1>10. \A t, w \in Own : t # w /\ Written(t) <= Written(w) =>
         \A n \in Readers(t) : w <= n =>
           \/ Apart(addr'[t], graph[t].size, addr'[w], graph[w].size)
           \/ w = n /\ InPlace(w, t) /\ addr'[w] = addr'[t]
  <2>1. SUFFICES ASSUME NEW t \in Own, NEW w \in Own, t # w, Written(t) <= Written(w),
                        NEW n \in Readers(t), w <= n
                 PROVE  \/ Apart(addr'[t], graph[t].size, addr'[w], graph[w].size)
                        \/ w = n /\ InPlace(w, t) /\ addr'[w] = addr'[t]
    OBVIOUS
  <2>2. \/ Disjoint(Region(t), Region(w))
        \/ w = n /\ InPlace(w, t) /\ hash[w].addr = hash[t].addr
    BY <1>2, <1>3, <2>1 DEF PlacedIntact
  <2>3. CASE Disjoint(Region(t), Region(w))
    <3>1. /\ hash[t].addr.offset \in Nat /\ hash[w].addr.offset \in Nat
          /\ graph[t].size <= SizeOf(t) /\ graph[w].size <= SizeOf(w)
          /\ graph[t].size \in Nat /\ graph[w].size \in Nat /\ SizeOf(t) \in Nat /\ SizeOf(w) \in Nat
      BY <1>6, <1>7
    <3>2. \/ hash[t].addr.chunk # hash[w].addr.chunk
          \/ hash[t].addr.offset + SizeOf(t) <= hash[w].addr.offset
          \/ hash[w].addr.offset + SizeOf(w) <= hash[t].addr.offset
      BY <2>3 DEF Disjoint, Region, End
    <3>3. Apart(hash[t].addr, graph[t].size, hash[w].addr, graph[w].size)
      BY <3>1, <3>2 DEF Apart
    <3> QED BY <1>7, <3>3
  <2>4. CASE w = n /\ InPlace(w, t) /\ hash[w].addr = hash[t].addr
    BY <1>7, <2>4
  <2> QED BY <2>2, <2>3, <2>4
<1>11. Fitting'
  <2>1. SameGraph(graph, graph)
    BY <1>2, SameGraphRefl
  <2>2. {t \in DOMAIN graph : graph[t].view = 0 /\ ~graph[t].external} = Own
    BY DEF Own
  <2>3. \A t, n : Readers(t)' = Readers(t) /\ (InPlace(n, t)' <=> InPlace(n, t))
    BY <1>1 DEF Readers, InPlace, Root, IsView
  <2>4. SameGraph(reserved, graph)'
    BY <1>1, <2>1
  <2>5. {t \in DOMAIN reserved' : reserved'[t].view = 0 /\ ~reserved'[t].external} = Own
    BY <1>1, <2>2
  <2>6. \A t \in Own : /\ graph'[t].size <= reserved'[t].size
                       /\ addr'[t] \in [chunk : DOMAIN buffer', offset : Nat]
                       /\ addr'[t].offset + reserved'[t].size <= buffer'[addr'[t].chunk]
    <3> TAKE t \in Own
    <3>1. graph' = graph /\ reserved' = graph
      BY <1>1
    <3>2. graph[t].size <= graph[t].size
      BY <1>6
    <3> QED BY <1>9, <3>1, <3>2
  <2>7. \A t, w \in Own : t # w /\ Written(t) <= Written(w) =>
          \A n \in Readers(t)' : w <= n =>
            \/ Apart(addr'[t], reserved'[t].size, addr'[w], reserved'[w].size)
            \/ w = n /\ InPlace(w, t)' /\ addr'[w] = addr'[t]
    BY <1>1, <1>10, <2>3
  <2>8. reserved' \in Seq(Tensor)
    BY <1>1, <1>2 DEF WellFormed
  <2> QED BY <2>4, <2>5, <2>6, <2>7, <2>8, Zenon DEF Fitting, Written
<1>12. TypeInv'
  <2>1. Whole(graph)' /\ hash' \in [DOMAIN graph' -> Hash] /\ (hash = NoHash(graph))'
    BY <1>1, <1>2, NoHashType
  <2>2. DOMAIN buffer' \subseteq Nat /\ \A c \in DOMAIN buffer' : buffer'[c] \in Nat
    <3>1. CASE buffer' = sizes
      BY <1>4, <1>5, <3>1
    <3>2. CASE buffer' = buffer
      BY <1>2, <3>2
    <3> QED BY <1>1, <3>1, <3>2
  <2> QED BY <1>1, <2>1, <2>2 DEF TypeInv
<1> QED BY <1>1, <1>11, <1>12 DEF IInv

\* In sizes that differ again it is still the same graph.
LEMMA SameGraphTrans ==
  ASSUME WellFormed(graph), reserved \in Seq(Tensor), SameGraph(reserved, graph),
         NEW g, SameGraph(graph, g)
  PROVE  /\ SameGraph(reserved, g) /\ DOMAIN reserved = DOMAIN graph
         /\ Len(reserved) = Len(graph)
         /\ \A t \in DOMAIN graph :
              /\ graph[t].src = reserved[t].src /\ graph[t].view = reserved[t].view
              /\ graph[t].external = reserved[t].external
<1>1. /\ graph = [t \in DOMAIN reserved |-> [reserved[t] EXCEPT !.size = graph[t].size]]
      /\ \A t, u \in DOMAIN reserved : reserved[t].size = reserved[u].size => graph[t].size = graph[u].size
  BY DEF SameGraph
<1>2. /\ g = [t \in DOMAIN graph |-> [graph[t] EXCEPT !.size = g[t].size]]
      /\ \A t \in DOMAIN graph : g[t].size \in Sizes
      /\ \A t, u \in DOMAIN graph : graph[t].size = graph[u].size => g[t].size = g[u].size
  BY DEF SameGraph
<1>3. DOMAIN graph = DOMAIN reserved /\ \A t \in DOMAIN reserved : reserved[t] \in Tensor
  BY <1>1
<1>4. Len(reserved) = Len(graph)
  <2>1. /\ Len(graph) \in Nat /\ DOMAIN graph = 1..Len(graph)
    BY TensorFacts
  <2>2. /\ Len(reserved) \in Nat /\ DOMAIN reserved = 1..Len(reserved)
    OBVIOUS
  <2>3. \A m, n \in Nat : 1..m = 1..n => m = n
    <3> SUFFICES ASSUME NEW m \in Nat, NEW n \in Nat, 1..m = 1..n
                 PROVE  m <= n /\ n <= m
      OBVIOUS
    <3>1. m \in 1..m => m \in 1..n
      OBVIOUS
    <3>2. n \in 1..n => n \in 1..m
      OBVIOUS
    <3> QED BY <3>1, <3>2
  <2> QED BY <1>3, <2>1, <2>2, <2>3, Zenon
<1>5. ASSUME NEW t \in DOMAIN graph
      PROVE  /\ graph[t].src = reserved[t].src /\ graph[t].view = reserved[t].view
             /\ graph[t].external = reserved[t].external
             /\ g[t] = [reserved[t] EXCEPT !.size = g[t].size]
  <2>1. /\ graph[t] = [reserved[t] EXCEPT !.size = graph[t].size]
        /\ g[t] = [graph[t] EXCEPT !.size = g[t].size]
    BY <1>1, <1>2, <1>3
  <2>2. reserved[t] \in Tensor /\ graph[t] \in Tensor /\ g[t].size \in Sizes
    BY <1>2, <1>3, TensorFacts
  <2> QED BY <2>1, <2>2 DEF Tensor
<1>6. g = [t \in DOMAIN reserved |-> [reserved[t] EXCEPT !.size = g[t].size]]
  <2>1. g = [t \in DOMAIN graph |-> g[t]]
    BY <1>2
  <2> QED BY <1>3, <1>5, <2>1
<1>7. SameGraph(reserved, g)
  <2>1. \A t \in DOMAIN reserved : g[t].size \in Sizes
    BY <1>2, <1>3
  <2>2. \A t, u \in DOMAIN reserved : reserved[t].size = reserved[u].size => g[t].size = g[u].size
    <3> SUFFICES ASSUME NEW t \in DOMAIN reserved, NEW u \in DOMAIN reserved,
                        reserved[t].size = reserved[u].size
                 PROVE  g[t].size = g[u].size
      OBVIOUS
    <3>1. t \in DOMAIN graph /\ u \in DOMAIN graph
      BY <1>3
    <3>2. graph[t].size = graph[u].size
      BY <1>1, Zenon
    <3> QED BY <1>2, <3>1, <3>2, Zenon
  <2> QED BY <1>6, <2>1, <2>2, Zenon DEF SameGraph
<1> QED BY <1>3, <1>4, <1>5, <1>7

\* A graph for which nothing is found anew fits what was found: each of its tensors has
\* been compared, the leafs where they are read.
LEMMA AllFit ==
  ASSUME WellFormed(graph), reserved \in Seq(Tensor), SameGraph(reserved, graph),
         NEW g, SameGraph(graph, g), Whole(g), ~NeedsRealloc(g),
         NEW t \in DOMAIN graph, g[t].view = 0, ~g[t].external
  PROVE  g[t].size <= reserved[t].size
<1>1. /\ DOMAIN reserved = DOMAIN graph /\ Len(reserved) = Len(graph)
      /\ \A u \in DOMAIN graph : graph[u].src = reserved[u].src
  BY SameGraphTrans
<1>2. /\ \A u \in DOMAIN graph : g[u].src = graph[u].src
      /\ \A u \in DOMAIN graph : g[u] \in Tensor
      /\ Nodes(g) = Nodes(graph) /\ Len(g) = Len(graph) /\ DOMAIN g = DOMAIN graph
  BY SameGraphFacts
<1>3. /\ Len(graph) \in Nat /\ DOMAIN graph = 1..Len(graph) /\ NLeafs \in Nat
  BY TensorFacts
<1>4. /\ \A n \in Nodes(g) : Fits(reserved[n], g[n])
      /\ \A n \in Nodes(g) : \A k \in DOMAIN g[n].src :
           k \in DOMAIN reserved[n].src => Fits(reserved[reserved[n].src[k]], g[g[n].src[k]])
  BY DEF NeedsRealloc
<1>5. Fits(reserved[t], g[t])
  <2>1. CASE t \in Nodes(g)
    BY <1>4, <2>1
  <2>2. CASE t \notin Nodes(g)
    <3>1. t \in 1..NLeafs
      BY <1>2, <1>3, <2>2 DEF Nodes
    <3>2. PICK r \in ReadsOf(g, t) : TRUE
      BY <3>1 DEF Whole
    <3>3. r.node \in Nodes(g) /\ r.k \in DOMAIN g[r.node].src /\ g[r.node].src[r.k] = t
      BY <3>2 DEF ReadsOf, Reads
    <3>4. r.node \in DOMAIN graph
      BY <1>2, <1>3, <3>3 DEF Nodes
    <3>5. reserved[r.node].src = g[r.node].src
      BY <1>1, <1>2, <3>4
    <3> QED BY <1>4, <3>3, <3>5
  <2> QED BY <2>1, <2>2
<1>6. reserved[t].size >= g[t].size
  BY <1>5 DEF Fits
<1>7. reserved[t] \in Tensor /\ g[t] \in Tensor
  BY <1>1, <1>2
<1>8. reserved[t].size \in Nat /\ g[t].size \in Nat
  BY <1>7 DEF Tensor, Sizes
<1> QED BY <1>6, <1>8

\* The next graph: either nothing is placed yet, or all of it fits.
LEMMA AllocGraphKeeps ==
  ASSUME IInv, NEW g, AllocGraph(g)
  PROVE  IInv'
<1>1. /\ phase = "ready" /\ SameGraph(graph, g) /\ graph' = g
      /\ phase' = IF NeedsRealloc(g) THEN "leafs" ELSE "ready"
      /\ hash' = NoHash(g) /\ at' = at /\ j' = j /\ chunks' = chunks
      /\ reserved' = reserved /\ addr' = addr /\ buffer' = buffer
  BY DEF AllocGraph, loops, allocs
<1>2. /\ Whole(graph) /\ at = 1 /\ j = 0 /\ chunks = <<>> /\ Fitting
      /\ DOMAIN buffer \subseteq Nat /\ \A c \in DOMAIN buffer : buffer[c] \in Nat
  BY <1>1 DEF IInv, TypeInv
<1>3. WellFormed(graph)
  BY <1>2 DEF Whole
<1>4. /\ WellFormed(g) /\ Len(g) = Len(graph) /\ DOMAIN g = DOMAIN graph
      /\ \A t \in DOMAIN graph :
           /\ g[t] \in Tensor
           /\ g[t].src = graph[t].src /\ g[t].view = graph[t].view
           /\ g[t].inplace = graph[t].inplace /\ g[t].external = graph[t].external
           /\ g[t].output = graph[t].output
      /\ \A t : ReadsOf(g, t) = ReadsOf(graph, t)
      /\ Nodes(g) = Nodes(graph)
  BY <1>1, <1>3, SameGraphFacts
<1>5. Whole(g)
  BY <1>2, <1>4 DEF Whole
<1>6. hash' \in [DOMAIN graph' -> Hash]
  BY <1>1, NoHashType
<1>7. /\ Len(graph) \in Nat /\ DOMAIN graph = 1..Len(graph) /\ NLeafs \in Nat
  BY <1>3, TensorFacts
<1>8. TypeInv'
  <2>1. at' \in 1..(NLeafs + 1)
    BY <1>1, <1>2, <1>7
  <2>2. phase' = "leafs" \/ phase' = "ready"
    BY <1>1
  <2>3. Whole(graph)' /\ (hash = NoHash(graph))'
    BY <1>1, <1>5
  <2> QED BY <1>1, <1>2, <1>6, <2>1, <2>2, <2>3 DEF TypeInv
<1>9. CASE NeedsRealloc(g)
  <2>1. phase' = "leafs"
    BY <1>1, <1>9
  <2>2. WellFormed(graph)' /\ (at = 1)' /\ (j = 0)' /\ (hash = NoHash(graph))' /\ (chunks = <<>>)'
        /\ (phase = "leafs")'
    BY <1>1, <1>2, <1>4, <2>1
  <2>3. Reserving'
    BY <2>2, NothingPlaced, PTL
  <2> QED BY <1>8, <2>1, <2>3 DEF IInv
<1>10. CASE ~NeedsRealloc(g)
  <2> DEFINE own == {t \in DOMAIN reserved : reserved[t].view = 0 /\ ~reserved[t].external}
  <2>1. phase' = "ready"
    BY <1>1, <1>10
  <2>2. /\ reserved \in Seq(Tensor) /\ SameGraph(reserved, graph)
        /\ \A t \in own : /\ addr[t] \in [chunk : DOMAIN buffer, offset : Nat]
                          /\ addr[t].offset + reserved[t].size <= buffer[addr[t].chunk]
        /\ \A t, w \in own : t # w /\ Written(t) <= Written(w) =>
             \A n \in Readers(t) : w <= n =>
               \/ Apart(addr[t], reserved[t].size, addr[w], reserved[w].size)
               \/ w = n /\ InPlace(w, t) /\ addr[w] = addr[t]
    BY <1>2, Zenon DEF Fitting
  <2>3. /\ SameGraph(reserved, g) /\ DOMAIN reserved = DOMAIN graph
        /\ \A t \in DOMAIN graph : /\ graph[t].view = reserved[t].view
                                   /\ graph[t].external = reserved[t].external
    BY <1>1, <1>3, <2>2, SameGraphTrans
  <2>4. \A t \in own : t \in DOMAIN graph /\ g[t].view = 0 /\ ~g[t].external
    BY <1>4, <2>3
  <2>5. \A t \in own : g[t].size <= reserved[t].size
    BY <1>1, <1>3, <1>5, <1>10, <2>2, <2>4, AllFit
  \* What reads t, and in place, reads it still.
  <2>6. \A t \in DOMAIN graph : Readers(t)' = Readers(t)
    <3> TAKE t \in DOMAIN graph
    <3>1. \A n \in Nodes(graph) : n \in DOMAIN graph
      BY <1>7 DEF Nodes
    <3>2. \A n \in Nodes(graph) : \A k \in DOMAIN graph[n].src :
            graph[n].src[k] \in DOMAIN graph
      <4> TAKE n \in Nodes(graph)
      <4> TAKE k \in DOMAIN graph[n].src
      <4>1. n \in 1..Len(graph) /\ graph[n].src[k] \in 1..(n - 1)
        BY <1>3, <1>7, <3>1, TensorFacts
      <4> QED BY <1>7, <4>1
    <3>3. \A u \in DOMAIN graph : Root(u)' = Root(u)
      BY <1>1, <1>4 DEF Root, IsView
    <3>4. \A n \in Nodes(graph) :
            (\E k \in DOMAIN g[n].src : Root(g[n].src[k])' = t)
            <=> (\E k \in DOMAIN graph[n].src : Root(graph[n].src[k]) = t)
      BY <1>4, <3>1, <3>2, <3>3
    <3>5. {n \in Nodes(graph) : \E k \in DOMAIN g[n].src : Root(g[n].src[k])' = t}
          = {n \in Nodes(graph) : \E k \in DOMAIN graph[n].src : Root(graph[n].src[k]) = t}
      BY <3>4
    <3>6. g[t].output = graph[t].output
      BY <1>4
    <3> QED BY <1>1, <1>4, <3>5, <3>6 DEF Readers
  <2>7. \A t, w \in DOMAIN graph : InPlace(w, t) => InPlace(w, t)'
    <3> SUFFICES ASSUME NEW t \in DOMAIN graph, NEW w \in DOMAIN graph, InPlace(w, t)
                 PROVE  InPlace(w, t)'
      OBVIOUS
    <3>1. /\ graph[w].inplace /\ graph[w].size = graph[t].size
          /\ \E k \in DOMAIN graph[w].src : graph[w].src[k] = t
      BY DEF InPlace
    <3>2. g[w].size = g[t].size
      BY <1>1, <3>1 DEF SameGraph
    <3>3. g[w].inplace = graph[w].inplace /\ g[w].src = graph[w].src
      BY <1>4
    <3> QED BY <1>1, <3>1, <3>2, <3>3 DEF InPlace
  <2>8. \A t, w \in own : t # w /\ Written(t) <= Written(w) =>
          \A n \in Readers(t)' : w <= n =>
            \/ Apart(addr[t], reserved[t].size, addr[w], reserved[w].size)
            \/ w = n /\ InPlace(w, t)' /\ addr[w] = addr[t]
    <3> SUFFICES ASSUME NEW t \in own, NEW w \in own, t # w, Written(t) <= Written(w),
                        NEW n \in Readers(t)', w <= n
                 PROVE  \/ Apart(addr[t], reserved[t].size, addr[w], reserved[w].size)
                        \/ w = n /\ InPlace(w, t)' /\ addr[w] = addr[t]
      OBVIOUS
    <3>1. t \in DOMAIN graph /\ w \in DOMAIN graph
      BY <2>4
    <3>2. n \in Readers(t)
      BY <2>6, <3>1
    <3>3. \/ Apart(addr[t], reserved[t].size, addr[w], reserved[w].size)
          \/ w = n /\ InPlace(w, t) /\ addr[w] = addr[t]
      BY <2>2, <3>2
    <3> QED BY <2>7, <3>1, <3>3
  <2>9. SameGraph(reserved, graph)'
    BY <1>1, <2>3
  <2>10. /\ reserved' = reserved /\ addr' = addr /\ buffer' = buffer /\ graph' = g
    BY <1>1
  <2> DEFINE own1 == {t \in DOMAIN reserved' : reserved'[t].view = 0 /\ ~reserved'[t].external}
  <2>11. own1 = own
    BY <2>10
  <2>12. \A t \in own1 : /\ graph'[t].size <= reserved'[t].size
                         /\ addr'[t] \in [chunk : DOMAIN buffer', offset : Nat]
                         /\ addr'[t].offset + reserved'[t].size <= buffer'[addr'[t].chunk]
    BY <2>2, <2>5, <2>10, <2>11, Zenon
  <2>13. \A t, w \in own1 : t # w /\ Written(t) <= Written(w) =>
          \A n \in Readers(t)' : w <= n =>
            \/ Apart(addr'[t], reserved'[t].size, addr'[w], reserved'[w].size)
            \/ w = n /\ InPlace(w, t)' /\ addr'[w] = addr'[t]
    <3> HIDE DEF own, own1
    <3>1. SUFFICES ASSUME NEW t \in own1, NEW w \in own1, t # w, Written(t) <= Written(w),
                          NEW n \in Readers(t)', w <= n
                   PROVE  \/ Apart(addr'[t], reserved'[t].size, addr'[w], reserved'[w].size)
                          \/ w = n /\ InPlace(w, t)' /\ addr'[w] = addr'[t]
      OBVIOUS
    <3>2. t \in own /\ w \in own
      BY <2>11
    <3> QED BY <2>8, <2>10, <3>1, <3>2, Zenon
  <2>14. Fitting'
    BY <2>2, <2>9, <2>10, <2>12, <2>13, Zenon DEF Fitting, Written
  <2> QED BY <1>8, <2>1, <2>14 DEF IInv
<1> QED BY <1>9, <1>10

-----------------------------------------------------------------------------
(* The theorems.                                                           *)

\* Every step keeps the invariant.
LEMMA NextKeeps ==
  ASSUME IInv, [Next]_vars
  PROVE  IInv'
<1>1. ASSUME NEW n, AddNode(n) PROVE IInv'
  BY <1>1, AddNodeKeeps
<1>2. ASSUME AllocateLeaf PROVE IInv'
  BY <1>2, AllocateLeafKeeps
<1>3. ASSUME CountReaders PROVE IInv'
  BY <1>3, CountReadersKeeps
<1>4. ASSUME AllocateNode PROVE IInv'
  BY <1>4, AllocateNodeKeeps
<1>5. ASSUME UpdateParent PROVE IInv'
  BY <1>5, UpdateParentKeeps
<1>6. ASSUME SetAllocs PROVE IInv'
  BY <1>6, SetAllocsKeeps
<1>7. ASSUME NEW g, AllocGraph(g) PROVE IInv'
  BY <1>7, AllocGraphKeeps
<1>8. ASSUME UNCHANGED vars PROVE IInv'
  <2>1. /\ graph' = graph /\ graphs' = graphs /\ phase' = phase /\ at' = at /\ j' = j
        /\ chunks' = chunks /\ hash' = hash /\ reserved' = reserved /\ addr' = addr
        /\ buffer' = buffer
    BY <1>8 DEF vars, loops, allocs
  <2>2. TypeInv' <=> TypeInv
    BY <2>1 DEF TypeInv, WellFormed, Whole, ReadsOf, Reads, Nodes, NoHash
  <2>3. Layout' <=> Layout
    BY <2>1 DEF Layout, Allocated, Placed, Own, Region, SizeOf
  <2>4. Counted' <=> Counted
    BY <2>1 DEF Counted, Pending, Waiting, ReadsOf, Reads, ViewsOf, Nodes
  <2>5. Kept' <=> Kept
    BY <2>1 DEF Kept, Placed, Own, Needed, Readers, Root, IsView, Nodes
  <2>6. (PlacedWithin' <=> PlacedWithin) /\ (PlacedIntact' <=> PlacedIntact)
    BY <2>1 DEF PlacedWithin, PlacedIntact, Placed, Own, SizeOf, Region, Readers, InPlace,
                Root, IsView, Nodes, Written
  <2>7. Fitting' <=> Fitting
    BY <2>1 DEF Fitting, Readers, InPlace, Root, IsView, Nodes, Written
  <2> QED BY <2>1, <2>2, <2>3, <2>4, <2>5, <2>6, <2>7 DEF IInv, Reserving
<1> QED BY <1>1, <1>2, <1>3, <1>4, <1>5, <1>6, <1>7, <1>8 DEF Next, NoMoreGraphs

\* The inductive invariant holds in every state (ggml_gallocr_reserve and
\* ggml_gallocr_alloc_graph of ggml-alloc.c).
THEOREM Invariant == Spec => []IInv
<1>1. Init => IInv
  BY InitInv
<1>2. IInv /\ [Next]_vars => IInv'
  BY NextKeeps
<1> QED BY <1>1, <1>2, PTL DEF Spec

\* Graphs are well formed, the loops of ggml_gallocr_alloc_graph_impl stay in their bounds,
\* and counts are counts.
THEOREM TypeCorrect == Spec => []TypeInv
<1>1. IInv => TypeInv
  BY DEF IInv
<1> QED BY <1>1, Invariant, PTL

\* The layout is what is free and the memory of the tensors that live.
LEMMA LayoutIsTheRest ==
  ASSUME WellFormed(graph), Layout, hash \in [DOMAIN graph -> Hash]
  PROVE  FreeIsTheRest
<1> DEFINE live == {t \in Own : hash[t].allocated}
           regions == {Region(t) : t \in Allocated}
<1>1. live = Allocated /\ Allocated \subseteq DOMAIN graph
  BY DEF Layout, Placed, Allocated, Own
<1>2. Lay(chunks, regions) /\ \A t, u \in Allocated : Region(t) = Region(u) => t = u
  BY DEF Layout
<1>3. \A t \in Allocated : /\ Region(t).chunk = hash[t].addr.chunk
                           /\ Region(t).offset = hash[t].addr.offset
                           /\ Region(t).size = SizeOf(t)
                           /\ SizeOf(t) \in Nat \ {0}
                           /\ Region(t) \in regions
  BY <1>1, SizeOfFacts DEF Region
<1>4. /\ \A r \in regions : /\ r \in [chunk : DOMAIN chunks, offset : Nat, size : Nat \ {0}]
                            /\ End(r) <= chunks[r.chunk].max_size
      /\ \A r, s \in regions : r # s => Disjoint(r, s)
      /\ \A c \in DOMAIN chunks : \A b, d \in chunks[c].free :
           b # d /\ b.offset <= d.offset => End(b) < d.offset
      /\ \A r \in regions : \A b \in chunks[r.chunk].free : End(b) <= r.offset \/ End(r) <= b.offset
      /\ \A c \in DOMAIN chunks : \A x \in 0..(chunks[c].max_size - 1) : Somewhere(chunks, regions, c, x)
  BY <1>2 DEF Lay
<1>5. \A c \in DOMAIN chunks : chunks[c].max_size \in Nat
        /\ \A b \in chunks[c].free : b.offset \in Nat /\ b.size \in Nat
  <2>1. chunks \in Seq(Chunk)
    BY <1>2 DEF Lay
  <2>2. \A c \in DOMAIN chunks : chunks[c] \in Chunk
    BY <2>1
  <2> QED BY <2>2 DEF Chunk
<1>6. \A r \in regions : \E t \in Allocated : r = Region(t)
  OBVIOUS
<1> HIDE DEF regions
<1>7. ASSUME NEW t \in Allocated, NEW u \in Allocated, t # u
      PROVE  Apart(hash[t].addr, SizeOf(t), hash[u].addr, SizeOf(u))
  <2>1. Disjoint(Region(t), Region(u))
    BY <1>2, <1>3, <1>4, <1>7
  <2> QED BY <1>3, <2>1 DEF Disjoint, Apart, End
<1>8. ASSUME NEW c \in DOMAIN chunks, NEW b \in chunks[c].free, NEW d \in chunks[c].free,
             b # d, b.offset <= d.offset
      PROVE  b.offset + b.size < d.offset
  BY <1>4, <1>8 DEF End
<1>9. ASSUME NEW c \in DOMAIN chunks, NEW t \in Allocated, hash[t].addr.chunk = c
      PROVE  hash[t].addr.offset + SizeOf(t) <= chunks[c].max_size
  BY <1>3, <1>4, <1>9 DEF End
<1>10. ASSUME NEW c \in DOMAIN chunks, NEW x \in 0..(chunks[c].max_size - 1)
       PROVE  (\E b \in chunks[c].free : b.offset <= x /\ x < b.offset + b.size)
              # (\E t \in Allocated : hash[t].addr.chunk = c
                   /\ hash[t].addr.offset <= x /\ x < hash[t].addr.offset + SizeOf(t))
  <2> DEFINE F == \E b \in chunks[c].free : b.offset <= x /\ x < b.offset + b.size
             G == \E t \in Allocated : hash[t].addr.chunk = c
                    /\ hash[t].addr.offset <= x /\ x < hash[t].addr.offset + SizeOf(t)
  <2>1. F \/ G
    <3>1. Somewhere(chunks, regions, c, x)
      BY <1>4
    <3>2. CASE \E b \in chunks[c].free : b.offset <= x /\ x < End(b)
      BY <3>2 DEF End
    <3>3. CASE \E r \in regions : r.chunk = c /\ r.offset <= x /\ x < End(r)
      BY <1>3, <1>6, <3>3 DEF End
    <3> QED BY <3>1, <3>2, <3>3 DEF Somewhere
  <2>2. ~(F /\ G)
    <3>1. SUFFICES ASSUME NEW b \in chunks[c].free, b.offset <= x, x < b.offset + b.size,
                          NEW t \in Allocated, hash[t].addr.chunk = c,
                          hash[t].addr.offset <= x, x < hash[t].addr.offset + SizeOf(t)
                   PROVE  FALSE
      OBVIOUS
    <3>2. End(b) <= Region(t).offset \/ End(Region(t)) <= b.offset
      BY <1>3, <1>4, <3>1
    <3>3. \/ b.offset + b.size <= hash[t].addr.offset
          \/ hash[t].addr.offset + SizeOf(t) <= b.offset
      BY <1>3, <3>2 DEF End
    <3>4. /\ hash[t].addr.offset \in Nat /\ SizeOf(t) \in Nat /\ b.offset \in Nat /\ b.size \in Nat
          /\ x \in Int
      BY <1>3, <1>4, <1>5
    <3> QED BY <3>1, <3>3, <3>4
  <2> QED BY <2>1, <2>2
<1>11. \A c \in DOMAIN chunks : \A x \in 0..(chunks[c].max_size - 1) :
         (\E b \in chunks[c].free : b.offset <= x /\ x < b.offset + b.size)
         # (\E t \in {u \in live : hash[u].addr.chunk = c} :
              hash[t].addr.offset <= x /\ x < hash[t].addr.offset + Aligned(graph[t].size))
  BY <1>1, <1>10, Zenon DEF SizeOf
<1> HIDE DEF live
<1>12. \A t, u \in live : t # u =>
         Apart(hash[t].addr, Aligned(graph[t].size), hash[u].addr, Aligned(graph[u].size))
  BY <1>1, <1>7, Zenon DEF SizeOf
<1>13. \A c \in DOMAIN chunks : \A t \in {u \in live : hash[u].addr.chunk = c} :
         hash[t].addr.offset + Aligned(graph[t].size) <= chunks[c].max_size
  BY <1>1, <1>9, Zenon DEF SizeOf
<1> QED BY <1>8, <1>11, <1>12, <1>13, Zenon DEF FreeIsTheRest, live

\* FreeIsTheRest: while ggml_gallocr_reserve runs, free blocks and the memory of live
\* tensors are all memory in use, each byte in one of them.  At other times there are no
\* chunks.
THEOREM MemoryAccounted == Spec => []FreeIsTheRest
<1>1. ASSUME IInv PROVE FreeIsTheRest
  <2>1. /\ phase \in {"build", "leafs", "nodes", "ready"} /\ hash \in [DOMAIN graph -> Hash]
        /\ phase \in {"build", "ready"} => chunks = <<>> /\ hash = NoHash(graph)
    BY <1>1 DEF IInv, TypeInv
  <2>2. WellFormed(graph)
    BY <1>1, Zenon DEF IInv, TypeInv, Whole
  <2>3. CASE phase \in {"leafs", "nodes"}
    <3>1. Layout
      BY <1>1, <2>3 DEF IInv, Reserving
    <3> QED BY <2>1, <2>2, <3>1, LayoutIsTheRest
  <2>4. CASE phase \in {"build", "ready"}
    <3>1. DOMAIN chunks = {}
      BY <2>1, <2>4
    <3>2. {t \in Own : hash[t].allocated} = {}
      BY <2>1, <2>4, NoHashType DEF Own
    <3> QED BY <3>1, <3>2, Zenon DEF FreeIsTheRest
  <2> QED BY <2>1, <2>3, <2>4
<1> QED BY <1>1, Invariant, PTL

\* The tensors of the graph whose memory was found are those of the graph that is used.
LEMMA OwnReserved ==
  ASSUME reserved \in Seq(Tensor), SameGraph(reserved, graph)
  PROVE  /\ Own = {t \in DOMAIN reserved : reserved[t].view = 0 /\ ~reserved[t].external}
         /\ \A t \in Own : reserved[t].size \in Nat
<1>1. /\ graph = [t \in DOMAIN reserved |-> [reserved[t] EXCEPT !.size = graph[t].size]]
      /\ \A t \in DOMAIN reserved : graph[t].size \in Sizes
  BY DEF SameGraph
<1>2. DOMAIN graph = DOMAIN reserved
  BY <1>1
<1>3. ASSUME NEW t \in DOMAIN reserved
      PROVE  /\ graph[t].view = reserved[t].view /\ graph[t].external = reserved[t].external
             /\ reserved[t].size \in Nat
  <2>1. graph[t] = [reserved[t] EXCEPT !.size = graph[t].size]
    BY <1>1
  <2>2. reserved[t] \in Tensor
    OBVIOUS
  <2> QED BY <2>1, <2>2 DEF Tensor, Sizes
<1> QED BY <1>2, <1>3 DEF Own

\* SourcesIntact: computed in their order, the nodes of a graph find what their sources
\* were computed to, and outputs stay.
THEOREM NothingOverwritten == Spec => []SourcesIntact
<1>1. ASSUME IInv PROVE SourcesIntact
  <2>1. SUFFICES ASSUME phase = "ready", NEW t \in Own, NEW n \in Readers(t), NEW w \in Own \ {t},
                        Written(t) <= Written(w), w <= n
                 PROVE  \/ Apart(addr[t], graph[t].size, addr[w], graph[w].size)
                        \/ w = n /\ InPlace(w, t) /\ addr[w] = addr[t]
    BY DEF SourcesIntact
  <2>2. Fitting /\ WellFormed(graph)
    BY <1>1, <2>1 DEF IInv, TypeInv, Whole
  <2>3. reserved \in Seq(Tensor) /\ SameGraph(reserved, graph)
    BY <2>2 DEF Fitting
  <2>4. /\ Own = {u \in DOMAIN reserved : reserved[u].view = 0 /\ ~reserved[u].external}
        /\ \A u \in Own : reserved[u].size \in Nat
    BY <2>3, OwnReserved
  <2>5. /\ \A u \in Own : /\ graph[u].size <= reserved[u].size
                          /\ addr[u] \in [chunk : DOMAIN buffer, offset : Nat]
        /\ \/ Apart(addr[t], reserved[t].size, addr[w], reserved[w].size)
           \/ w = n /\ InPlace(w, t) /\ addr[w] = addr[t]
    BY <2>1, <2>2, <2>4 DEF Fitting
  <2>6. CASE Apart(addr[t], reserved[t].size, addr[w], reserved[w].size)
    <3>1. /\ addr[t].offset \in Nat /\ addr[w].offset \in Nat
          /\ graph[t].size <= reserved[t].size /\ graph[w].size <= reserved[w].size
          /\ reserved[t].size \in Nat /\ reserved[w].size \in Nat
      BY <2>4, <2>5
    <3>2. graph[t].size \in Nat /\ graph[w].size \in Nat
      BY <2>2, SizeOfFacts DEF Own
    <3> QED BY <2>6, <3>1, <3>2 DEF Apart
  <2> QED BY <2>5, <2>6
<1> QED BY <1>1, Invariant, PTL

\* WithinBuffer: ggml_gallocr_alloc_graph gives no tensor an address that its buffer does
\* not hold, whether or not addresses were found anew.
THEOREM InsideTheBuffer == Spec => []WithinBuffer
<1>1. ASSUME IInv PROVE WithinBuffer
  <2>1. SUFFICES ASSUME phase = "ready", NEW t \in Own
                 PROVE  addr[t].chunk \in DOMAIN buffer
                        /\ addr[t].offset + graph[t].size <= buffer[addr[t].chunk]
    BY DEF WithinBuffer
  <2>2. Fitting /\ WellFormed(graph) /\ \A c \in DOMAIN buffer : buffer[c] \in Nat
    BY <1>1, <2>1 DEF IInv, TypeInv, Whole
  <2>3. reserved \in Seq(Tensor) /\ SameGraph(reserved, graph)
    BY <2>2 DEF Fitting
  <2>4. /\ Own = {u \in DOMAIN reserved : reserved[u].view = 0 /\ ~reserved[u].external}
        /\ \A u \in Own : reserved[u].size \in Nat
    BY <2>3, OwnReserved
  <2>5. /\ graph[t].size <= reserved[t].size
        /\ addr[t] \in [chunk : DOMAIN buffer, offset : Nat]
        /\ addr[t].offset + reserved[t].size <= buffer[addr[t].chunk]
    BY <2>2, <2>4 DEF Fitting
  <2>6. graph[t].size \in Nat /\ addr[t].offset \in Nat /\ buffer[addr[t].chunk] \in Nat
        /\ reserved[t].size \in Nat
    BY <2>2, <2>4, <2>5, SizeOfFacts DEF Own
  <2> QED BY <2>5, <2>6
<1> QED BY <1>1, Invariant, PTL
=============================================================================
