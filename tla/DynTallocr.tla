----------------------------- MODULE DynTallocr -----------------------------
(***************************************************************************)
(* struct ggml_dyn_tallocr of ggml-alloc.c: an allocator that gives out    *)
(* addresses and no memory, to find out how much of it a graph needs.  Its *)
(* chunks become the buffers.  chunks[c] is [free, max_size]: the blocks   *)
(* [offset, size] nobody has, which the code keeps sorted by their offset, *)
(* and the memory that was ever in use at once.                            *)
(***************************************************************************)
EXTENDS Integers, Sequences, FiniteSetsExt

CONSTANTS
  Alignment,     \* of the buffer type
  MaxChunkSize,  \* max_chunk_size of the buffer type
  MaxChunks,     \* GGML_VBUFFER_MAX_CHUNKS, 16
  Endless        \* SIZE_MAX / 2, the size of the last chunk

ASSUME TallocrAssumption ==
  /\ {Alignment, MaxChunkSize, MaxChunks} \subseteq Nat \ {0}
  /\ Endless \in Nat /\ Endless > MaxChunkSize

Block(offset, size) == [offset |-> offset, size |-> size]

Aligned(size) == ((size + Alignment - 1) \div Alignment) * Alignment

\* ggml_dyn_tallocr_new_chunk, after n_chunks others.
NewChunk(n_chunks, min_size) ==
  LET size == IF n_chunks = MaxChunks - 1 THEN Endless
              ELSE Max({min_size, MaxChunkSize})
  IN  [free |-> {Block(0, size)}, max_size |-> 0]

IsLast(block, chunk) == \A b \in chunk.free : b.offset <= block.offset

Address(c, block) == [chunk |-> c, offset |-> block.offset, block |-> block]

\* Blocks large enough that are not the last of their chunk: of the last chunk
\* that has any, the smallest, and of these the last.
BestFit(chunks, n) ==
  LET fits(c) == {b \in chunks[c].free : b.size >= n /\ ~IsLast(b, chunks[c])}
      within  == {c \in DOMAIN chunks : fits(c) # {}}
      best(c) == {b \in fits(c) : \A d \in fits(c) :
                    b.size < d.size \/ (b.size = d.size /\ b.offset >= d.offset)}
  IN  UNION {{Address(c, b) : b \in best(c)} : c \in {d \in within : \A e \in within : e <= d}}

\* Else a last block: the one that leaves the least of max_size unused, or that
\* makes its chunk grow the least; of these the first.
BestLast(chunks, n) ==
  LET ends == {a \in UNION {{Address(c, b) : b \in chunks[c].free} : c \in DOMAIN chunks} :
                 a.block.size >= n /\ IsLast(a.block, chunks[a.chunk])}
      reuse(a) == chunks[a.chunk].max_size - a.offset - n
      better(a, b) == IF reuse(a) >= 0 THEN reuse(b) < 0 \/ reuse(a) < reuse(b)
                                       ELSE reuse(a) > reuse(b)
      best == {a \in ends : \A b \in ends : ~better(b, a)}
  IN  {a \in best : \A b \in best : a.chunk <= b.chunk}

\* Takes n from the start of a block of chunk c; an empty block is removed.
Take(chunk, block, n) ==
  [free |-> (chunk.free \ {block})
              \cup (IF block.size = n THEN {} ELSE {Block(block.offset + n, block.size - n)}),
   max_size |-> Max({chunk.max_size, block.offset + n})]

Found(chunks, n) == IF BestFit(chunks, n) # {} THEN BestFit(chunks, n) ELSE BestLast(chunks, n)

\* The program aborts when nothing fits and there are as many chunks as there may be.
CanAlloc(chunks, size) == Len(chunks) < MaxChunks \/ Found(chunks, Aligned(size)) # {}

\* What is left and the address that was given.
ggml_dyn_tallocr_alloc(chunks, size) ==
  LET n     == Aligned(size)
      from  == IF Found(chunks, n) # {} THEN chunks ELSE Append(chunks, NewChunk(Len(chunks), n))
      a     == IF Found(chunks, n) # {} THEN CHOOSE f \in Found(chunks, n) : TRUE
               ELSE Address(Len(from), CHOOSE b \in from[Len(from)].free : TRUE)
  IN  [chunks |-> [from EXCEPT ![a.chunk] = Take(@, a.block, n)],
       addr   |-> [chunk |-> a.chunk, offset |-> a.offset]]

\* Mutant of ggml_dyn_tallocr_free_tensor: only the block before it is merged.
FreeBehind(chunks, addr, size) ==
  LET n    == Aligned(size)
      free == chunks[addr.chunk].free
      near == {b \in free : b.offset + b.size = addr.offset}
      low  == Min({addr.offset} \cup {b.offset : b \in near})
  IN  [chunks EXCEPT ![addr.chunk].free = (free \ near) \cup {Block(low, addr.offset + n - low)}]

\* A block that is free again is one with those on either side of it.
ggml_dyn_tallocr_free_tensor(chunks, addr, size) ==
  LET n    == Aligned(size)
      free == chunks[addr.chunk].free
      near == {b \in free : b.offset + b.size = addr.offset \/ addr.offset + n = b.offset}
      low  == Min({addr.offset} \cup {b.offset : b \in near})
      high == Max({addr.offset + n} \cup {b.offset + b.size : b \in near})
  IN  [chunks EXCEPT ![addr.chunk].free = (free \ near) \cup {Block(low, high - low)}]
=============================================================================
