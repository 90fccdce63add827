------------------------------- MODULE KVCache -------------------------------
(***************************************************************************)
(* whisper_kv_cache in whisper.cpp: the cells that hold the keys and the   *)
(* values of the tokens decoded so far.  The sequences of several decoders *)
(* share one cache, and a cell belongs to all the sequences in its seq_id. *)
(*                                                                         *)
(* A cache is a record.  Its cells are those in use (pos >= 0), at is the  *)
(* index of a cell.  kv stands for its keys and values: the tokens of the  *)
(* sequence they were computed from, up to the cell's own.  What is left   *)
(* in a free cell is masked, and is forgotten here.                        *)
(***************************************************************************)
EXTENDS Integers, Sequences, FiniteSetsExt

whisper_kv_cache_init(size) == [head |-> 0, size |-> size, cells |-> {}]

\* Where n adjacent cells are free.
Slots(cache, n) ==
  LET used == {c.at : c \in cache.cells}
  IN  {h \in 0..(cache.size - n) : h..(h + n - 1) \cap used = {}}

\* The first slot from head on, else the first of all: an occupied cell moves
\* head past it, the end of the cells to 0, until every cell has been tested.
SlotFor(cache, n) ==
  LET slots == Slots(cache, n)
      ahead == {h \in slots : h >= cache.head}
  IN  Min(IF ahead # {} THEN ahead ELSE slots)

\* batch is a sequence of [pos, seq, kv]: tokens of one sequence each.
whisper_kv_cache_find_slot(cache, batch) ==
  LET h == SlotFor(cache, Len(batch))
  IN  [cache EXCEPT !.head = h,
                    !.cells = @ \cup {[at |-> h + k - 1, pos |-> batch[k].pos,
                                       seq_id |-> {batch[k].seq}, kv |-> batch[k].kv]
                                      : k \in DOMAIN batch}]

whisper_kv_cache_clear(cache) == whisper_kv_cache_init(cache.size)

\* The cells of a sequence (p0 and p1 are -1 in every call).
CellsOf(cache, seq) == {c \in cache.cells : seq \in c.seq_id}

\* A cell that loses its last sequence is free, and head moves to the first one.
whisper_kv_cache_seq_rm(cache, seq) ==
  LET freed == {c.at : c \in {d \in cache.cells : d.seq_id = {seq}}}
      less  == {[c EXCEPT !.seq_id = @ \ {seq}] : c \in cache.cells}
  IN  [cache EXCEPT !.head = IF freed = {} THEN @ ELSE Min(freed),
                    !.cells = {c \in less : c.seq_id # {}}]

whisper_kv_cache_seq_cp(cache, src, dst) ==
  [cache EXCEPT !.head = 0,
                !.cells = {IF src \in c.seq_id THEN [c EXCEPT !.seq_id = @ \cup {dst}] ELSE c
                           : c \in cache.cells}]
=============================================================================
