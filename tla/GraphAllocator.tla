--------------------------- MODULE GraphAllocator ---------------------------
(***************************************************************************)
(* struct ggml_gallocr of ggml-alloc.c, with one buffer: every tensor of a *)
(* graph is given memory for as long as a node still reads it, directly or *)
(* through a view; a node may take over the memory of its source.  The     *)
(* addresses are found in advance (ggml_gallocr_reserve) and used for the  *)
(* graphs that follow, as long as those fit.                               *)
(*                                                                         *)
(* A graph is a sequence of tensors: its leafs, then its nodes in order.   *)
(* A tensor is [src, view, size, inplace, external, output]: its sources,  *)
(* the tensor it is a view of or 0, its size, whether ggml_op_can_inplace, *)
(* whether its data is there already, and whether it is an output.         *)
(* Tensors of one size have one layout.  Views are never marked allocated, *)
(* so that no node takes over the memory of one.                           *)
(***************************************************************************)
EXTENDS DynTallocr

CONSTANTS
  LeafsOf,      \* the leafs a graph may have
  NodesAfter(_),\* the nodes that may come after the tensors of a graph
  Later(_),     \* the graphs that may follow a graph
  NLeafs,       \* n_leafs of every graph
  NNodes,       \* n_nodes of every graph
  MaxGraphs     \* bound: graphs allocated

GGML_MAX_SRC == 10

\* A size of zero is left out; SIZE_MAX / 2 is more than there is of anything.
Sizes == {n \in Nat \ {0} : Aligned(n) <= Endless}

\* The tensors that may come after those of g.  What a view of a view shows is found
\* when it is made: no tensor is a view of one.
Tensors(g) ==
  {x \in [src : Seq(DOMAIN g), view : {0} \cup DOMAIN g, size : Sizes,
          inplace : BOOLEAN, external : BOOLEAN, output : BOOLEAN] :
     Len(x.src) <= GGML_MAX_SRC /\ (x.view # 0 => g[x.view].view = 0)}

ASSUME GraphAssumption ==
  /\ NLeafs \in Nat /\ NNodes \in Nat \ {0} /\ MaxGraphs \in Nat
  /\ \A g \in LeafsOf : g \in [1..NLeafs -> Tensors(<<>>)]

VARIABLES
  graph,      \* the graph that is allocated
  graphs,     \* graphs so far
  phase,      \* "build", then "leafs" and "nodes" while it is reserved, then "ready"
  at,         \* the next leaf or node
  j,          \* 0, or the source of this node that is next
  chunks,     \* buf_tallocs[0]
  hash,       \* hash_values: [n_children, n_views, addr, allocated] of each tensor
  reserved,   \* node_allocs and leaf_allocs: the graph they were made for ...
  addr,       \* ... and the address of each tensor
  buffer      \* buffers[0]: the size of each chunk

loops == <<at, j>>
allocs == <<reserved, addr, buffer>>
vars == <<graph, graphs, phase, loops, chunks, hash, allocs>>

Nowhere == [chunk |-> 0, offset |-> 0]
NoHash(g) == [t \in DOMAIN g |->
  [n_children |-> 0, n_views |-> 0, addr |-> Nowhere, allocated |-> FALSE]]

Init ==
  /\ graph \in LeafsOf /\ graphs = 1 /\ phase = "build" /\ at = 1 /\ j = 0
  /\ chunks = <<>> /\ hash = NoHash(graph)
  /\ reserved = <<>> /\ addr = <<>> /\ buffer = <<>>

Nodes(g) == (NLeafs + 1)..Len(g)
IsView(t) == graph[t].view # 0

\* The reads of a graph: node n reads its k-th source.
Reads(g) == {r \in [node : Nodes(g), k : 1..GGML_MAX_SRC] : r.k \in DOMAIN g[r.node].src}
ReadsOf(g, t) == {r \in Reads(g) : g[r.node].src[r.k] = t}
ViewsOf(g, t) == {x \in Nodes(g) : g[x].view = t}

\* The caller builds the first graph; leafs are in it as some node reads them.
AddNode(n) ==
  LET whole == Len(graph) + 1 = NLeafs + NNodes
  IN
  /\ phase = "build" /\ n \in Tensors(graph)
  /\ graph' = Append(graph, n) /\ hash' = NoHash(graph')
  /\ whole => \A l \in 1..NLeafs : ReadsOf(graph', l) # {}
  /\ phase' = IF whole THEN "leafs" ELSE "build"
  /\ UNCHANGED <<graphs, loops, chunks, allocs>>

-----------------------------------------------------------------------------
(* Memory for a tensor.                                                    *)

HasMemory(t) == graph[t].external \/ hash[t].allocated \/ IsView(t)

\* A source of its own, of which nothing but the node is left to read.
CanReuse(t, p) ==
  /\ graph[t].inplace
  /\ hash[p].allocated /\ ~graph[p].output
  /\ graph[p].size = graph[t].size
  /\ hash[p].n_children = 1 /\ hash[p].n_views = 0

\* For a tensor that has none: the memory of its first source that can be reused,
\* or new memory.
ggml_gallocr_allocate_node(t) ==
  LET reusable == {k \in DOMAIN graph[t].src : CanReuse(t, graph[t].src[k])}
      parent   == graph[t].src[Min(reusable)]
      new      == ggml_dyn_tallocr_alloc(chunks, graph[t].size)
  IN  IF HasMemory(t) THEN UNCHANGED <<chunks, hash>>
      ELSE IF reusable # {}
      THEN /\ hash' = [hash EXCEPT ![t].allocated = TRUE, ![t].addr = hash[parent].addr,
                                   ![parent].allocated = FALSE]
           /\ UNCHANGED chunks
      ELSE /\ CanAlloc(chunks, graph[t].size)
           /\ hash' = [hash EXCEPT ![t].allocated = TRUE, ![t].addr = new.addr]
           /\ chunks' = new.chunks

-----------------------------------------------------------------------------
(* ggml_gallocr_reserve.                                                   *)

AllocateLeaf ==
  /\ phase = "leafs" /\ at <= NLeafs
  /\ ggml_gallocr_allocate_node(at)
  /\ at' = at + 1
  /\ UNCHANGED <<graph, graphs, phase, j, allocs>>

\* The readers and the views of each tensor.  The inputs are leafs and have been
\* allocated.
CountReaders ==
  /\ phase = "leafs" /\ at > NLeafs
  /\ phase' = "nodes"
  /\ hash' = [t \in DOMAIN graph |->
                [hash[t] EXCEPT !.n_children = Cardinality(ReadsOf(graph, t)),
                                !.n_views = Cardinality(ViewsOf(graph, t))]]
  /\ UNCHANGED <<graph, graphs, loops, chunks, allocs>>

\* To the k-th source of the node, or after the last to the next node.
GoOn(k) ==
  IF k \in DOMAIN graph[at].src THEN at' = at /\ j' = k ELSE at' = at + 1 /\ j' = 0

\* A node gets its memory before that of its sources is free.  "allocate parents" finds
\* nothing to do: were a source without memory, the node would not be allocated here.
AllocateNode ==
  /\ phase = "nodes" /\ at <= Len(graph) /\ j = 0
  /\ \A k \in DOMAIN graph[at].src : HasMemory(graph[at].src[k])
  /\ ggml_gallocr_allocate_node(at)
  /\ GoOn(1)
  /\ UNCHANGED <<graph, graphs, phase, allocs>>

\* Mutant of Unread: what is read through views only is free.
UnreadItself(h) == h.n_children = 0

Unread(h) == h.n_children = 0 /\ h.n_views = 0

\* What a tensor is a view of, or the tensor itself.
Root(t) == IF IsView(t) THEN graph[t].view ELSE t

\* A source has been read once: it, or what it is a view of, may be free.  Outputs never
\* are.
UpdateParent ==
  LET p == graph[at].src[j]
      c == [hash EXCEPT ![p].n_children = @ - 1]
      d == IF Unread(c[p]) /\ IsView(p) THEN [c EXCEPT ![Root(p)].n_views = @ - 1] ELSE c
  IN
  /\ phase = "nodes" /\ at <= Len(graph) /\ j # 0
  /\ GoOn(j + 1)
  /\ IF Unread(c[p]) /\ Unread(d[Root(p)]) /\ d[Root(p)].allocated /\ ~graph[Root(p)].output
     THEN /\ chunks' = ggml_dyn_tallocr_free_tensor(chunks, d[Root(p)].addr, graph[Root(p)].size)
          /\ hash' = [d EXCEPT ![Root(p)].allocated = FALSE]
     ELSE hash' = d /\ UNCHANGED chunks
  /\ UNCHANGED <<graph, graphs, phase, allocs>>

\* Mutant of TooSmall: the largest buffer is as large as the largest chunk.
TooSmallAtMost(old, new) ==
  Max({0} \cup {new[c] : c \in DOMAIN new}) > Max({0} \cup {old[c] : c \in DOMAIN old})

\* A chunk has outgrown its buffer.
TooSmall(old, new) == \E c \in DOMAIN new : new[c] > (IF c \in DOMAIN old THEN old[c] ELSE 0)

\* The addresses are kept, and the buffers made anew if one is too small.
SetAllocs ==
  LET sizes == [c \in DOMAIN chunks |-> chunks[c].max_size]
  IN
  /\ phase = "nodes" /\ at > Len(graph)
  /\ phase' = "ready"
  /\ reserved' = graph /\ addr' = [t \in DOMAIN graph |-> hash[t].addr]
  /\ buffer' = IF TooSmall(buffer, sizes) THEN sizes ELSE buffer
  \* chunks, hash and the indices are not read again
  /\ chunks' = <<>> /\ hash' = NoHash(graph) /\ at' = 1 /\ j' = 0
  /\ UNCHANGED <<graph, graphs>>

-----------------------------------------------------------------------------
(* ggml_gallocr_alloc_graph.                                               *)

\* ggml_gallocr_node_needs_realloc, negated: the memory of old is enough for new.
Fits(old, new) ==
  new.view # 0 \/ new.external \/ (old.view = 0 /\ ~old.external /\ old.size >= new.size)

NeedsRealloc(g) ==
  \/ Len(g) # Len(reserved)
  \/ \E n \in Nodes(g) :
       \/ ~Fits(reserved[n], g[n])
       \/ \E k \in DOMAIN g[n].src :
            IF k \in DOMAIN reserved[n].src
            THEN ~Fits(reserved[reserved[n].src[k]], g[g[n].src[k]])
            ELSE g[g[n].src[k]].view = 0 /\ ~g[g[n].src[k]].external

\* The caller's part: the same graph again, in other sizes.  Tensors that have one layout
\* keep having one.
SameGraph(old, new) ==
  /\ new = [t \in DOMAIN old |-> [old[t] EXCEPT !.size = new[t].size]]
  /\ \A t \in DOMAIN old : new[t].size \in Sizes
  /\ \A t, u \in DOMAIN old : old[t].size = old[u].size => new[t].size = new[u].size

\* The next graph uses the addresses it finds, or has them found anew.
AllocGraph(g) ==
  /\ phase = "ready" /\ graphs < MaxGraphs /\ SameGraph(graph, g)
  /\ graph' = g /\ graphs' = graphs + 1
  /\ phase' = IF NeedsRealloc(g) THEN "leafs" ELSE "ready"
  /\ hash' = NoHash(g)
  /\ UNCHANGED <<loops, chunks, allocs>>

NoMoreGraphs == phase = "ready" /\ graphs = MaxGraphs /\ UNCHANGED vars

Next ==
  \/ \E n \in NodesAfter(graph) : AddNode(n)
  \/ AllocateLeaf \/ CountReaders
  \/ AllocateNode \/ UpdateParent \/ SetAllocs
  \/ \E g \in Later(graph) : AllocGraph(g)
  \/ NoMoreGraphs

Spec == Init /\ [][Next]_vars

-----------------------------------------------------------------------------
Own == {t \in DOMAIN graph : graph[t].view = 0 /\ ~graph[t].external}

Apart(a, m, b, n) ==
  a.chunk # b.chunk \/ a.offset + m <= b.offset \/ b.offset + n <= a.offset

\* While a graph is reserved, the blocks that are free and the memory of the tensors
\* that are live make up all memory in use: nothing belongs to two, nothing is lost,
\* and free blocks side by side are one.
FreeIsTheRest ==
  LET live == {t \in Own : hash[t].allocated}
      size(t) == Aligned(graph[t].size)
  IN
  /\ \A t, u \in live : t # u => Apart(hash[t].addr, size(t), hash[u].addr, size(u))
  /\ \A c \in DOMAIN chunks :
       LET free == chunks[c].free
           here == {t \in live : hash[t].addr.chunk = c}
       IN  /\ \A b, d \in free : b # d /\ b.offset <= d.offset => b.offset + b.size < d.offset
           /\ \A t \in here : hash[t].addr.offset + size(t) <= chunks[c].max_size
           /\ \A x \in 0..(chunks[c].max_size - 1) :
                (\E b \in free : b.offset <= x /\ x < b.offset + b.size)
                # (\E t \in here : hash[t].addr.offset <= x /\ x < hash[t].addr.offset + size(t))

Written(t) == IF t <= NLeafs THEN 0 ELSE t

\* The nodes that read t, directly or through a view; after the last one its caller
\* does, if t is an output.
Readers(t) ==
  {n \in Nodes(graph) : \E k \in DOMAIN graph[n].src : Root(graph[n].src[k]) = t}
    \cup (IF graph[t].output THEN {Len(graph) + 1} ELSE {})

\* A node that computes in place, on a source of its own size.
InPlace(w, t) ==
  /\ graph[w].inplace /\ graph[w].size = graph[t].size
  /\ \E k \in DOMAIN graph[w].src : graph[w].src[k] = t

\* When the nodes are computed in their order, each finds what its sources were
\* computed to, and outputs are never overwritten: the memory of a tensor is written
\* by no other until its last reader, which may itself write in place.
SourcesIntact ==
  phase = "ready" =>
    \A t \in Own : \A n \in Readers(t) : \A w \in Own \ {t} :
      Written(t) <= Written(w) /\ w <= n =>
        \/ Apart(addr[t], graph[t].size, addr[w], graph[w].size)
        \/ w = n /\ InPlace(w, t) /\ addr[w] = addr[t]

\* Every tensor lies within its buffer.
WithinBuffer ==
  phase = "ready" =>
    \A t \in Own : addr[t].chunk \in DOMAIN buffer
                   /\ addr[t].offset + graph[t].size <= buffer[addr[t].chunk]
=============================================================================
