-------------------------- MODULE WhisperFullProofs --------------------------
(***************************************************************************)
(* What holds of whisper_full for every model, audio, setting and number   *)
(* of calls: the cache holds each decoder's own sequence (CacheIsSequence),*)
(* has room for the next tokens (AlwaysASlot), none is decoded beyond the  *)
(* positions of the model (PositionsFit), every call returns, and the      *)
(* segments of a call are in order (SegmentsInOrder).                      *)
(*                                                                         *)
(* The loops over the decoders are solved first.  A loop of the code gives *)
(* the cache after its rounds as a recursive function; its value after j   *)
(* rounds is the first cache with every cell's sequences replaced as a     *)
(* function of them says (Image).  Sharing the prompt (Shares) and taking  *)
(* beams over (TakesOver) are such replacements, and what one leaves a     *)
(* decoder is read off the sequences it has (OwnsPrompt, OwnsTaken).  That *)
(* there is room is a count: the cells of one position lie in one slot of  *)
(* n_dec cells, which meets at most two windows of n_dec (Room).           *)
(* The order of the segments is that of the decoders' timestamps (Timed),  *)
(* carried through the loop that cuts them into segments (SegmentLoop).    *)
(***************************************************************************)
EXTENDS WhisperFull, FiniteSetTheorems, SequenceTheorems, TLAPS

\* Min of a set of numbers is its least element.
LEMMA LeastElement ==
  ASSUME NEW S \in SUBSET Nat, S # {}
  PROVE  Min(S) \in S /\ \A x \in S : Min(S) <= x
<1> DEFINE R == StrictSubsetOrdering(Nat)
           Up == {0..n : n \in S}
<1>1. \A n \in Nat : 0..n \in FiniteSubsetsOf(Nat)
  BY FS_Interval DEF FiniteSubsetsOf
<1>2. IsWellFoundedOn(R, FiniteSubsetsOf(Nat))
  BY FS_StrictSubsetOrderingWellFounded
<1>3. Up \subseteq FiniteSubsetsOf(Nat) /\ Up # {}
  BY <1>1
<1> HIDE DEF R
<1>4. PICK u \in Up : \A v \in Up : ~(<<v, u>> \in R)
  BY <1>2, <1>3, WFMin
<1>5. PICK x \in S : u = 0..x
  OBVIOUS
<1>6. \A y \in S : x <= y
  <2> SUFFICES ASSUME NEW y \in S, y < x PROVE FALSE
    OBVIOUS
  <2>1. 0..y \in Up /\ 0..y \subseteq 0..x /\ x \in 0..x /\ x \notin 0..y
    OBVIOUS
  <2>2. 0..x \in SUBSET Nat /\ 0..y \in SUBSET Nat
    OBVIOUS
  <2>3. <<0..y, 0..x>> \in R
    BY <2>1, <2>2 DEF R, StrictSubsetOrdering
  <2> QED BY <1>4, <1>5, <2>1, <2>3
<1> QED BY <1>6 DEF Min

\* find_slot ends at a slot, if there is one.
LEMMA SlotForIsSlot ==
  ASSUME NEW cache, NEW n \in Nat, cache.size \in Nat, Slots(cache, n) # {}
  PROVE  SlotFor(cache, n) \in Slots(cache, n) /\ SlotFor(cache, n) \in Nat
<1>1. Slots(cache, n) \subseteq Nat
  BY DEF Slots
<1> DEFINE ahead == {h \in Slots(cache, n) : h >= cache.head}
<1>2. CASE ahead # {}
  <2>1. Min(ahead) \in ahead
    BY <1>1, <1>2, LeastElement
  <2> QED BY <1>1, <1>2, <2>1 DEF SlotFor
<1>3. CASE ahead = {}
  <2>1. Min(Slots(cache, n)) \in Slots(cache, n)
    BY <1>1, LeastElement
  <2> QED BY <1>1, <1>3, <2>1 DEF SlotFor
<1> QED BY <1>2, <1>3

-----------------------------------------------------------------------------
(* The cache.                                                              *)

\* Sequences beyond those of the decoders are used while beams change places.
SeqIds == 0..(2 * WHISPER_MAX_DECODERS - 1)
\* The sequences of the decoders themselves.
Decoders == 0..(WHISPER_MAX_DECODERS - 1)

\* The cells, and the caches, with sequences among ids.
CellsIn(ids) == [at : Nat, pos : Nat, seq_id : (SUBSET ids) \ {{}}, kv : Seq(Tokens)]
CacheIn(ids) == [head : Nat, size : Nat, cells : SUBSET CellsIn(ids)]

\* The cell c with other sequences.
With(c, ids) == [c EXCEPT !.seq_id = ids]

\* Its sequences are all that changes.
LEMMA WithType ==
  ASSUME NEW J, NEW K, NEW c \in CellsIn(J), NEW ids \in SUBSET K, ids # {}
  PROVE  /\ With(c, ids) \in CellsIn(K)
         /\ With(c, ids).at = c.at /\ With(c, ids).pos = c.pos /\ With(c, ids).kv = c.kv
         /\ With(c, ids).seq_id = ids
         /\ \A l : With(With(c, ids), l) = With(c, l)
         /\ With(c, c.seq_id) = c
BY DEF With, CellsIn

\* Free cells are needed for a batch, and it gets them.
LEMMA FindSlotType ==
  ASSUME NEW cache \in CacheIn(Decoders), NEW batch,
         Len(batch) \in Nat, DOMAIN batch = 1..Len(batch),
         \A k \in DOMAIN batch : /\ batch[k].pos \in Nat /\ batch[k].seq \in Decoders
                                 /\ batch[k].kv \in Seq(Tokens),
         Slots(cache, Len(batch)) # {}
  PROVE  LET h == SlotFor(cache, Len(batch))
             new(k) == [at |-> h + k - 1, pos |-> batch[k].pos, seq_id |-> {batch[k].seq},
                        kv |-> batch[k].kv]
             next == whisper_kv_cache_find_slot(cache, batch)
         IN  /\ h \in Nat /\ h \in Slots(cache, Len(batch))
             /\ next \in CacheIn(Decoders) /\ next.size = cache.size
             /\ next.cells = cache.cells \cup {new(k) : k \in DOMAIN batch}
<1> DEFINE h == SlotFor(cache, Len(batch))
           new(k) == [at |-> h + k - 1, pos |-> batch[k].pos, seq_id |-> {batch[k].seq},
                      kv |-> batch[k].kv]
<1>1. h \in Nat /\ h \in Slots(cache, Len(batch))
  BY SlotForIsSlot DEF CacheIn
<1> HIDE DEF h
<1>2. \A k \in DOMAIN batch : new(k) \in CellsIn(Decoders)
  <2>1. \A k \in DOMAIN batch : {batch[k].seq} \in (SUBSET Decoders) \ {{}} /\ h + k - 1 \in Nat
    <3> TAKE k \in DOMAIN batch
    <3>1. k \in Nat /\ k > 0 /\ batch[k].seq \in Decoders
      OBVIOUS
    <3>2. h + k - 1 \in Nat
      BY <1>1, <3>1
    <3> QED BY <3>1, <3>2
  <2> QED BY <2>1 DEF CellsIn
<1> DEFINE cells == cache.cells \cup {new(k) : k \in DOMAIN batch}
<1>3. cells \in SUBSET CellsIn(Decoders)
  BY <1>2 DEF CacheIn
<1>4. whisper_kv_cache_find_slot(cache, batch) = [cache EXCEPT !.head = h, !.cells = cells]
  BY DEF whisper_kv_cache_find_slot, h
<1> HIDE DEF cells
<1>5. /\ whisper_kv_cache_find_slot(cache, batch) \in CacheIn(Decoders)
      /\ whisper_kv_cache_find_slot(cache, batch).size = cache.size
      /\ whisper_kv_cache_find_slot(cache, batch).cells = cells
  BY <1>1, <1>3, <1>4 DEF CacheIn
<1> QED BY <1>1, <1>5 DEF h, cells

\* The cells of which the sequences change as G says.
Image(cells, G) == {With(c, G[c.seq_id]) : c \in {d \in cells : G[d.seq_id] # {}}}

\* What may become of the sequences of a cell.
Changes == [SUBSET SeqIds -> SUBSET SeqIds]

\* The cells of an image are those that keep a sequence.
LEMMA InImage ==
  ASSUME NEW cells \in SUBSET CellsIn(SeqIds), NEW G \in Changes
  PROVE  /\ Image(cells, G) \in SUBSET CellsIn(SeqIds)
         /\ \A c \in cells : G[c.seq_id] # {} => With(c, G[c.seq_id]) \in Image(cells, G)
         /\ \A x \in Image(cells, G) : \E c \in cells :
              G[c.seq_id] # {} /\ x = With(c, G[c.seq_id])
<1>1. \A c \in cells : c.seq_id \in SUBSET SeqIds /\ G[c.seq_id] \in SUBSET SeqIds
  BY DEF CellsIn, Changes
<1>2. \A c \in cells : G[c.seq_id] # {} => With(c, G[c.seq_id]) \in CellsIn(SeqIds)
  BY <1>1, WithType
<1> QED BY <1>2, Zenon DEF Image

\* Changes that agree give the same cells.
LEMMA SameImage ==
  ASSUME NEW cells \in SUBSET CellsIn(SeqIds), NEW G \in Changes, NEW H \in Changes,
         \A S \in SUBSET SeqIds : G[S] = H[S]
  PROVE  Image(cells, G) = Image(cells, H)
<1>1. G = H
  BY DEF Changes
<1> QED BY <1>1

\* Where nothing changes the cells stay.
LEMMA NoChange ==
  ASSUME NEW cells \in SUBSET CellsIn(SeqIds), NEW G \in Changes,
         \A S \in SUBSET SeqIds : G[S] = S
  PROVE  Image(cells, G) = cells
<1>1. \A c \in cells : c.seq_id \in SUBSET SeqIds /\ c.seq_id # {} /\ G[c.seq_id] = c.seq_id
  BY DEF CellsIn
<1>2. \A c \in cells : With(c, G[c.seq_id]) = c
  BY <1>1 DEF With, CellsIn
<1> QED BY <1>1, <1>2 DEF Image

\* G, and then a sequence is removed, or one is copied to another.
Less(G, seq) == [S \in SUBSET SeqIds |-> G[S] \ {seq}]
More(G, src, dst) ==
  [S \in SUBSET SeqIds |-> G[S] \cup (IF src \in G[S] THEN {dst} ELSE {})]

\* whisper_kv_cache_seq_cp does to an image what More says.
LEMMA CopyImage ==
  ASSUME NEW cache, NEW cells \in SUBSET CellsIn(SeqIds), NEW G \in Changes,
         NEW size, NEW head, cache = [head |-> head, size |-> size, cells |-> Image(cells, G)],
         NEW src \in SeqIds, NEW dst \in SeqIds
  PROVE  whisper_kv_cache_seq_cp(cache, src, dst)
           = [head |-> 0, size |-> size, cells |-> Image(cells, More(G, src, dst))]
<1> SUFFICES ASSUME NEW H \in Changes,
                    \A S \in SUBSET SeqIds : H[S] = G[S] \cup (IF src \in G[S] THEN {dst} ELSE {})
             PROVE  whisper_kv_cache_seq_cp(cache, src, dst)
                      = [head |-> 0, size |-> size, cells |-> Image(cells, H)]
  BY DEF More, Changes
<1>0. \A x \in Image(cells, G) : \E c \in cells : G[c.seq_id] # {} /\ x = With(c, G[c.seq_id])
  BY InImage
<1> DEFINE cp(c) == IF src \in c.seq_id THEN [c EXCEPT !.seq_id = @ \cup {dst}] ELSE c
<1>1. \A c \in cells : /\ c \in CellsIn(SeqIds) /\ c.seq_id \in SUBSET SeqIds
                       /\ G[c.seq_id] \in SUBSET SeqIds /\ H[c.seq_id] \in SUBSET SeqIds
                       /\ G[c.seq_id] # {} <=> H[c.seq_id] # {}
  BY DEF CellsIn, Changes
<1>2. ASSUME NEW c \in cells, G[c.seq_id] # {}
      PROVE  cp(With(c, G[c.seq_id])) = With(c, H[c.seq_id])
  <2>1. With(c, G[c.seq_id]) \in CellsIn(SeqIds) /\ With(c, G[c.seq_id]).seq_id = G[c.seq_id]
    BY <1>1, <1>2, WithType
  <2>2. cp(With(c, G[c.seq_id])) = With(With(c, G[c.seq_id]), H[c.seq_id])
    BY <1>1, <2>1 DEF With, CellsIn
  <2> QED BY <1>1, <1>2, <2>2, WithType
<1>3. {cp(x) : x \in Image(cells, G)} = Image(cells, H)
  <2> HIDE DEF cp
  <2>1. ASSUME NEW x \in Image(cells, G) PROVE cp(x) \in Image(cells, H)
    <3>1. PICK c \in cells : G[c.seq_id] # {} /\ x = With(c, G[c.seq_id])
      BY <1>0
    <3>2. cp(x) = With(c, H[c.seq_id]) /\ H[c.seq_id] # {}
      BY <1>1, <1>2, <3>1
    <3> QED BY <3>2, InImage
  <2>2. ASSUME NEW y \in Image(cells, H) PROVE \E x \in Image(cells, G) : y = cp(x)
    BY <1>1, <1>2, InImage
  <2> QED BY <2>1, <2>2
<1>4. whisper_kv_cache_seq_cp(cache, src, dst)
        = [cache EXCEPT !.head = 0, !.cells = {cp(x) : x \in Image(cells, G)}]
  BY DEF whisper_kv_cache_seq_cp
<1> HIDE DEF cp
<1> QED BY <1>3, <1>4

\* whisper_kv_cache_seq_rm does to an image what Less says.
LEMMA RemoveImage ==
  ASSUME NEW cache, NEW cells \in SUBSET CellsIn(SeqIds), NEW G \in Changes,
         NEW size, NEW head, cache = [head |-> head, size |-> size, cells |-> Image(cells, G)],
         NEW seq \in SeqIds
  PROVE  LET next == whisper_kv_cache_seq_rm(cache, seq)
         IN  /\ next = [head |-> next.head, size |-> size, cells |-> Image(cells, Less(G, seq))]
             /\ (\A S \in SUBSET SeqIds : G[S] # {seq}) => next.head = head
<1>H. Less(G, seq) \in Changes /\ \A S \in SUBSET SeqIds : Less(G, seq)[S] = G[S] \ {seq}
  BY DEF Less, Changes
<1> SUFFICES ASSUME NEW H \in Changes, \A S \in SUBSET SeqIds : H[S] = G[S] \ {seq}
             PROVE  LET next == whisper_kv_cache_seq_rm(cache, seq)
                    IN  /\ next = [head |-> next.head, size |-> size, cells |-> Image(cells, H)]
                        /\ (\A S \in SUBSET SeqIds : G[S] # {seq}) => next.head = head
  BY <1>H
<1>0. \A x \in Image(cells, G) : \E c \in cells : G[c.seq_id] # {} /\ x = With(c, G[c.seq_id])
  BY InImage
<1> DEFINE rm(c) == [c EXCEPT !.seq_id = @ \ {seq}]
           freed == {c.at : c \in {d \in cache.cells : d.seq_id = {seq}}}
           less == {rm(c) : c \in Image(cells, G)}
<1>1. \A c \in cells : /\ c \in CellsIn(SeqIds) /\ c.seq_id \in SUBSET SeqIds
                       /\ G[c.seq_id] \in SUBSET SeqIds /\ H[c.seq_id] \in SUBSET SeqIds
                       /\ H[c.seq_id] # {} => G[c.seq_id] # {}
  BY DEF CellsIn, Changes
<1>2. ASSUME NEW c \in cells, G[c.seq_id] # {}
      PROVE  /\ rm(With(c, G[c.seq_id])).seq_id = H[c.seq_id]
             /\ rm(With(c, G[c.seq_id])) = With(c, H[c.seq_id])
             /\ With(c, G[c.seq_id]).seq_id = G[c.seq_id]
  <2>1. With(c, G[c.seq_id]) \in CellsIn(SeqIds) /\ With(c, G[c.seq_id]).seq_id = G[c.seq_id]
    BY <1>1, <1>2, WithType
  <2>2. rm(With(c, G[c.seq_id])) = With(With(c, G[c.seq_id]), H[c.seq_id])
    BY <1>1, <2>1 DEF With, CellsIn
  <2>3. With(With(c, G[c.seq_id]), H[c.seq_id]).seq_id = H[c.seq_id]
    BY <1>1, <2>1 DEF With, CellsIn
  <2>4. With(With(c, G[c.seq_id]), H[c.seq_id]) = With(c, H[c.seq_id])
    BY <1>1, <1>2, WithType
  <2> QED BY <2>1, <2>2, <2>3, <2>4
<1>3. {x \in less : x.seq_id # {}} = Image(cells, H)
  <2>1. ASSUME NEW x \in less, x.seq_id # {} PROVE x \in Image(cells, H)
    <3>1. PICK y \in Image(cells, G) : x = rm(y)
      BY <2>1
    <3>2. PICK c \in cells : G[c.seq_id] # {} /\ y = With(c, G[c.seq_id])
      BY <1>0
    <3> HIDE DEF rm
    <3>3. x.seq_id = H[c.seq_id] /\ x = With(c, H[c.seq_id])
      BY <1>2, <3>1, <3>2
    <3> QED BY <2>1, <3>3, InImage
  <2>2. ASSUME NEW x \in Image(cells, H) PROVE x \in less /\ x.seq_id # {}
    <3>1. PICK c \in cells : H[c.seq_id] # {} /\ x = With(c, H[c.seq_id])
      BY <2>2, InImage
    <3>2. G[c.seq_id] # {} /\ x = rm(With(c, G[c.seq_id]))
      BY <1>1, <1>2, <3>1
    <3>3. With(c, G[c.seq_id]) \in Image(cells, G)
      BY <3>2, InImage
    <3> HIDE DEF rm
    <3> QED BY <1>2, <3>1, <3>2, <3>3
  <2> HIDE DEF less
  <2> QED BY <2>1, <2>2
<1> DEFINE next == whisper_kv_cache_seq_rm(cache, seq)
           h == IF freed = {} THEN cache.head ELSE Min(freed)
           rest == {x \in less : x.seq_id # {}}
<1>4. next = [cache EXCEPT !.head = h, !.cells = rest]
  BY DEF whisper_kv_cache_seq_rm
<1>5. ASSUME \A S \in SUBSET SeqIds : G[S] # {seq} PROVE freed = {}
  <2> SUFFICES ASSUME NEW x \in Image(cells, G), x.seq_id = {seq} PROVE FALSE
    OBVIOUS
  <2>1. PICK c \in cells : G[c.seq_id] # {} /\ x = With(c, G[c.seq_id])
    BY InImage
  <2> QED BY <1>1, <1>2, <1>5, <2>1
<1> HIDE DEF h, rest
<1>6. next = [head |-> h, size |-> size, cells |-> rest]
  BY <1>4
<1>7. (\A S \in SUBSET SeqIds : G[S] # {seq}) => h = head
  BY <1>5 DEF h
<1>8. next.head = h
  BY <1>6
<1>9. rest = Image(cells, H)
  BY <1>3 DEF rest
<1> HIDE DEF next
<1>10. /\ next = [head |-> next.head, size |-> size, cells |-> Image(cells, H)]
       /\ (\A S \in SUBSET SeqIds : G[S] # {seq}) => next.head = head
  BY <1>6, <1>7, <1>8, <1>9
<1> QED BY <1>10 DEF next

\* The same, when no cell loses its last sequence.
LEMMA RemoveUnused ==
  ASSUME NEW cache, NEW cells \in SUBSET CellsIn(SeqIds), NEW G \in Changes,
         NEW size, NEW head, cache = [head |-> head, size |-> size, cells |-> Image(cells, G)],
         NEW seq \in SeqIds, \A S \in SUBSET SeqIds : G[S] # {seq}
  PROVE  whisper_kv_cache_seq_rm(cache, seq)
           = [head |-> head, size |-> size, cells |-> Image(cells, Less(G, seq))]
<1> DEFINE next == whisper_kv_cache_seq_rm(cache, seq)
<1>1. /\ next = [head |-> next.head, size |-> size, cells |-> Image(cells, Less(G, seq))]
      /\ (\A S \in SUBSET SeqIds : G[S] # {seq}) => next.head = head
  BY RemoveImage
<1> HIDE DEF next
<1>2. next = [head |-> head, size |-> size, cells |-> Image(cells, Less(G, seq))]
  BY <1>1
<1> QED BY <1>2 DEF next

\* After j rounds of copying s[k] to d + k.
Copying(js, s, d, j) ==
  [S \in SUBSET SeqIds |-> S \cup {d + k : k \in {l \in js : l < j /\ s[l] \in S}}]

\* The function that ForEach unrolls, for these copies.
CopyLoop(f, cache, js, s, d) ==
  f = [j \in 0..WHISPER_MAX_DECODERS |->
         IF j = 0 THEN cache
         ELSE IF j - 1 \in js
         THEN whisper_kv_cache_seq_cp(f[j - 1], s[j - 1], d + (j - 1))
         ELSE f[j - 1]]

\* A loop of copies ends with the image of all of them.
LEMMA Copies ==
  ASSUME NEW cache \in CacheIn(SeqIds), NEW js \in SUBSET Decoders, NEW s \in [js -> Decoders],
         NEW d \in {0, WHISPER_MAX_DECODERS}, \A k, l \in js : s[k] # d + l
  PROVE  /\ \E f : CopyLoop(f, cache, js, s, d)
         /\ \A f : CopyLoop(f, cache, js, s, d) =>
              /\ f[WHISPER_MAX_DECODERS].head \in {0, cache.head}
              /\ f[WHISPER_MAX_DECODERS]
                   = [head |-> f[WHISPER_MAX_DECODERS].head, size |-> cache.size,
                      cells |-> Image(cache.cells, Copying(js, s, d, WHISPER_MAX_DECODERS))]
<1> DEFINE G(j) == Copying(js, s, d, j)
           After(j) == [head |-> IF \E k \in js : k < j THEN 0 ELSE cache.head,
                        size |-> cache.size, cells |-> Image(cache.cells, G(j))]
           f0 == [j \in 0..WHISPER_MAX_DECODERS |-> After(j)]
           Loop(f) == CopyLoop(f, cache, js, s, d)
<1>1. cache.cells \in SUBSET CellsIn(SeqIds)
  BY DEF CacheIn
<1>2. \A j \in 0..WHISPER_MAX_DECODERS : G(j) \in Changes
  <2> SUFFICES ASSUME NEW j \in 0..WHISPER_MAX_DECODERS, NEW S \in SUBSET SeqIds
               PROVE  S \cup {d + k : k \in {l \in js : l < j /\ s[l] \in S}} \in SUBSET SeqIds
    BY DEF Copying, Changes
  <2>1. \A k \in js : d + k \in SeqIds
    BY DEF SeqIds, Decoders, WHISPER_MAX_DECODERS
  <2> QED BY <2>1
<1>3. After(0) = cache
  <2>1. \A k \in js : ~(k < 0)
    BY DEF Decoders
  <2>2. \A S \in SUBSET SeqIds : G(0)[S] = S
    BY <2>1 DEF Copying
  <2>3. G(0) \in Changes
    BY <1>2 DEF WHISPER_MAX_DECODERS
  <2>4. Image(cache.cells, G(0)) = cache.cells
    BY <1>1, <2>2, <2>3, NoChange
  <2> HIDE DEF G
  <2> QED BY <2>1, <2>4 DEF CacheIn
<1>4. ASSUME NEW j \in 1..WHISPER_MAX_DECODERS, j - 1 \in js
      PROVE  whisper_kv_cache_seq_cp(After(j - 1), s[j - 1], d + (j - 1)) = After(j)
  <2>1. s[j - 1] \in SeqIds /\ d + (j - 1) \in SeqIds
    BY <1>4 DEF SeqIds, Decoders, WHISPER_MAX_DECODERS
  <2>2. ASSUME NEW S \in SUBSET SeqIds
        PROVE  G(j)[S] = G(j - 1)[S] \cup (IF s[j - 1] \in G(j - 1)[S] THEN {d + (j - 1)} ELSE {})
    <3>1. s[j - 1] \in G(j - 1)[S] <=> s[j - 1] \in S
      BY <1>4 DEF Copying
    <3>2. \A l \in js : l < j <=> (l < j - 1 \/ l = j - 1)
      BY DEF Decoders
    <3>3. /\ G(j)[S] = S \cup {d + k : k \in {l \in js : l < j /\ s[l] \in S}}
          /\ G(j - 1)[S] = S \cup {d + k : k \in {l \in js : l < j - 1 /\ s[l] \in S}}
      BY DEF Copying
    <3> HIDE DEF G
    <3> QED BY <1>4, <3>1, <3>2, <3>3
  <2>3. G(j) \in Changes /\ G(j - 1) \in Changes
    BY <1>2 DEF WHISPER_MAX_DECODERS
  <2>4. \E k \in js : k < j
    BY <1>4
  <2>5. G(j) = More(G(j - 1), s[j - 1], d + (j - 1))
    BY <2>2, <2>3 DEF More, Changes
  <2> HIDE DEF G
  <2>7. /\ After(j - 1) = [head |-> After(j - 1).head, size |-> cache.size,
                           cells |-> Image(cache.cells, G(j - 1))]
        /\ After(j) = [head |-> 0, size |-> cache.size, cells |-> Image(cache.cells, G(j))]
    BY <2>4
  <2>8. PICK c, h, A, x, y :
          /\ c = After(j - 1) /\ A = G(j - 1) /\ x = s[j - 1] /\ y = d + (j - 1)
          /\ c = [head |-> h, size |-> cache.size, cells |-> Image(cache.cells, A)]
    BY <2>7
  <2> HIDE DEF After
  <2>9. /\ A \in Changes /\ x \in SeqIds /\ y \in SeqIds
        /\ c = [head |-> h, size |-> cache.size, cells |-> Image(cache.cells, A)]
    BY <2>1, <2>3, <2>8
  <2>10. whisper_kv_cache_seq_cp(c, x, y)
           = [head |-> 0, size |-> cache.size, cells |-> Image(cache.cells, More(A, x, y))]
    BY <1>1, <2>9, CopyImage
  <2> QED BY <2>5, <2>7, <2>8, <2>10
<1>5. ASSUME NEW j \in 1..WHISPER_MAX_DECODERS, j - 1 \notin js
      PROVE  After(j - 1) = After(j)
  <2>1. \A l \in js : l < j <=> l < j - 1
    BY <1>5 DEF Decoders
  <2>2. \A S \in SUBSET SeqIds : G(j)[S] = G(j - 1)[S]
    BY <2>1 DEF Copying
  <2>3. G(j) \in Changes /\ G(j - 1) \in Changes
    BY <1>2 DEF WHISPER_MAX_DECODERS
  <2>4. Image(cache.cells, G(j)) = Image(cache.cells, G(j - 1))
    BY <1>1, <2>2, <2>3, SameImage
  <2> HIDE DEF G
  <2> QED BY <2>1, <2>4
<1>6. Loop(f0)
  <2> HIDE DEF After
  <2>1. \A j \in 0..WHISPER_MAX_DECODERS : j # 0 => j \in 1..WHISPER_MAX_DECODERS /\ j - 1 \in 0..WHISPER_MAX_DECODERS
    BY DEF WHISPER_MAX_DECODERS
  <2> QED BY <1>3, <1>4, <1>5, <2>1 DEF CopyLoop
<1>7. ASSUME NEW f, Loop(f) PROVE f[WHISPER_MAX_DECODERS] = After(WHISPER_MAX_DECODERS)
  <2> HIDE DEF After
  <2>0. /\ f[0] = cache
        /\ \A j \in 1..8 : f[j] = IF j - 1 \in js
                                  THEN whisper_kv_cache_seq_cp(f[j - 1], s[j - 1], d + (j - 1))
                                  ELSE f[j - 1]
    BY <1>7 DEF CopyLoop, WHISPER_MAX_DECODERS
  <2>1. \A j \in 1..8 : f[j - 1] = After(j - 1) => f[j] = After(j)
    BY <1>4, <1>5, <2>0 DEF WHISPER_MAX_DECODERS
  <2>2. f[0] = After(0)
    BY <1>3, <2>0
  <2>3. f[1] = After(1) /\ f[2] = After(2) /\ f[3] = After(3) /\ f[4] = After(4)
    BY <2>1, <2>2
  <2>4. f[8] = After(8)
    BY <2>1, <2>3
  <2> QED BY <2>4 DEF WHISPER_MAX_DECODERS
<1>8. \E f : Loop(f)
  BY <1>6
<1> HIDE DEF Loop, G
<1>9. ASSUME NEW f, Loop(f)
      PROVE  /\ f[WHISPER_MAX_DECODERS].head \in {0, cache.head}
             /\ f[WHISPER_MAX_DECODERS]
                  = [head |-> f[WHISPER_MAX_DECODERS].head, size |-> cache.size,
                     cells |-> Image(cache.cells, G(WHISPER_MAX_DECODERS))]
  <2> DEFINE h == IF \E k \in js : k < WHISPER_MAX_DECODERS THEN 0 ELSE cache.head
  <2>1. f[WHISPER_MAX_DECODERS] = [head |-> h, size |-> cache.size,
                                   cells |-> Image(cache.cells, G(WHISPER_MAX_DECODERS))]
    BY <1>7, <1>9
  <2>2. h \in {0, cache.head}
    OBVIOUS
  <2> HIDE DEF h
  <2> QED BY <2>1, <2>2
<1> QED BY <1>8, <1>9 DEF Loop, G

\* After j rounds of bringing the sequences back from where they were put.
Returning(js, j, S) ==
  {x \in SeqIds :
     IF x < WHISPER_MAX_DECODERS
     THEN IF x \in js /\ x < j THEN WHISPER_MAX_DECODERS + x \in S ELSE x \in S
     ELSE x \in S /\ ~(x - WHISPER_MAX_DECODERS \in js /\ x - WHISPER_MAX_DECODERS < j)}

\* The same as a change, after the changes C.
Returned(js, j, C) == [S \in SUBSET SeqIds |-> Returning(js, j, C[S])]

\* The body of the loop that brings the sequences back.
BringBack(c, j) ==
  whisper_kv_cache_seq_rm(
    whisper_kv_cache_seq_cp(whisper_kv_cache_seq_rm(c, j), WHISPER_MAX_DECODERS + j, j),
    WHISPER_MAX_DECODERS + j)

\* One round.
LEMMA BringsOneBack ==
  ASSUME NEW cache, NEW cells \in SUBSET CellsIn(SeqIds), NEW C \in Changes,
         NEW size, NEW head, NEW js \in SUBSET Decoders, NEW j \in js,
         cache = [head |-> head, size |-> size, cells |-> Image(cells, Returned(js, j, C))]
  PROVE  BringBack(cache, j)
           = [head |-> 0, size |-> size, cells |-> Image(cells, Returned(js, j + 1, C))]
<1> DEFINE G == Returned(js, j, C)
           H == Returned(js, j + 1, C)
           m == WHISPER_MAX_DECODERS + j
           A == Less(G, j)
           B == More(A, m, j)
           c1 == whisper_kv_cache_seq_rm(cache, j)
           c2 == whisper_kv_cache_seq_cp(c1, m, j)
           c3 == whisper_kv_cache_seq_rm(c2, m)
<1>0. /\ G \in Changes /\ H \in Changes
      /\ \A S \in SUBSET SeqIds : /\ G[S] = Returning(js, j, C[S])
                                  /\ H[S] = Returning(js, j + 1, C[S])
  BY DEF Returned, Returning, Changes
<1> HIDE DEF G, H
<1>1. m \in SeqIds /\ j \in SeqIds /\ m # j /\ m - WHISPER_MAX_DECODERS = j
  BY DEF SeqIds, Decoders, WHISPER_MAX_DECODERS
<1>2. A \in Changes /\ B \in Changes
  BY <1>0, <1>1 DEF Changes, Less, More
<1>3. \A S \in SUBSET SeqIds : A[S] = G[S] \ {j}
  BY DEF Less
<1>4. \A S \in SUBSET SeqIds : B[S] = A[S] \cup (IF m \in A[S] THEN {j} ELSE {})
  BY DEF More
<1> HIDE DEF A, B
<1>5. ASSUME NEW S \in SUBSET SeqIds PROVE H[S] = B[S] \ {m} /\ B[S] # {m}
  <2>1. G[S] \in SUBSET SeqIds /\ H[S] \in SUBSET SeqIds /\ B[S] \in SUBSET SeqIds
    BY <1>0, <1>2 DEF Changes
  <2>2. \A x \in SeqIds \ {j, m} : x \in H[S] <=> x \in G[S]
    <3> SUFFICES ASSUME NEW x \in SeqIds \ {j, m} PROVE x \in H[S] <=> x \in G[S]
      OBVIOUS
    <3>1. x < j + 1 <=> x < j
      BY DEF SeqIds, Decoders
    <3>2. x - WHISPER_MAX_DECODERS < j + 1 <=> x - WHISPER_MAX_DECODERS < j
      BY DEF SeqIds, Decoders, WHISPER_MAX_DECODERS
    <3> QED BY <1>0, <3>1, <3>2 DEF Returning
  <2>3. j \in H[S] <=> m \in C[S]
    BY <1>0, <1>1 DEF Returning, Decoders, WHISPER_MAX_DECODERS
  <2>4. m \notin H[S] /\ (m \in G[S] <=> m \in C[S])
    BY <1>0, <1>1 DEF Returning, Decoders, WHISPER_MAX_DECODERS
  <2>5. m \in B[S] <=> m \in C[S]
    BY <1>1, <1>3, <1>4, <2>4
  <2>6. j \in B[S] <=> m \in C[S]
    BY <1>1, <1>3, <1>4, <2>4
  <2>7. \A x \in SeqIds \ {j, m} : x \in B[S] <=> x \in G[S]
    BY <1>1, <1>3, <1>4
  <2> QED BY <1>1, <2>1, <2>2, <2>3, <2>4, <2>5, <2>6, <2>7
<1>6. B[{}] = B[{}] /\ H = Less(B, m)
  BY <1>0, <1>5 DEF Less, Changes
<1>7. ASSUME NEW c, NEW h, NEW K \in Changes, NEW s \in SeqIds,
             c = [head |-> h, size |-> size, cells |-> Image(cells, K)]
      PROVE  LET next == whisper_kv_cache_seq_rm(c, s)
             IN  /\ next = [head |-> next.head, size |-> size, cells |-> Image(cells, Less(K, s))]
                 /\ (\A S \in SUBSET SeqIds : K[S] # {s}) =>
                      next = [head |-> h, size |-> size, cells |-> Image(cells, Less(K, s))]
  BY <1>7, RemoveImage, RemoveUnused
<1>8. ASSUME NEW c, NEW h, NEW K \in Changes, NEW s \in SeqIds, NEW d \in SeqIds,
             c = [head |-> h, size |-> size, cells |-> Image(cells, K)]
      PROVE  whisper_kv_cache_seq_cp(c, s, d)
               = [head |-> 0, size |-> size, cells |-> Image(cells, More(K, s, d))]
  BY <1>8, CopyImage
<1>9. cache = [head |-> head, size |-> size, cells |-> Image(cells, G)]
  BY DEF G
<1>10. c1 = [head |-> c1.head, size |-> size, cells |-> Image(cells, A)]
  BY <1>0, <1>1, <1>7, <1>9 DEF A
<1>11. PICK c, h : c = c1 /\ c = [head |-> h, size |-> size, cells |-> Image(cells, A)]
  BY <1>10
<1> HIDE DEF c1, m
<1>12. c2 = [head |-> 0, size |-> size, cells |-> Image(cells, More(A, m, j))]
  BY <1>1, <1>2, <1>8, <1>11
<1>13. c2 = [head |-> 0, size |-> size, cells |-> Image(cells, B)]
  BY <1>12 DEF B
<1> HIDE DEF c2
<1>14. c3 = [head |-> 0, size |-> size, cells |-> Image(cells, H)]
  <2>1. \A S \in SUBSET SeqIds : B[S] # {m}
    BY <1>5
  <2>2. whisper_kv_cache_seq_rm(c2, m) = [head |-> 0, size |-> size, cells |-> Image(cells, Less(B, m))]
    <3>1. PICK d : d = c2 /\ d = [head |-> 0, size |-> size, cells |-> Image(cells, B)]
      BY <1>13
    <3>2. whisper_kv_cache_seq_rm(d, m) = [head |-> 0, size |-> size, cells |-> Image(cells, Less(B, m))]
      BY <1>1, <1>2, <1>7, <2>1, <3>1
    <3> QED BY <3>1, <3>2
  <2> QED BY <1>6, <2>2
<1>15. BringBack(cache, j) = c3
  BY Zenon DEF BringBack, c1, c2, c3, m
<1> QED BY <1>14, <1>15 DEF H

\* All rounds.
BackLoop(f, cache, js) ==
  f = [j \in 0..WHISPER_MAX_DECODERS |->
         IF j = 0 THEN cache
         ELSE IF j - 1 \in js THEN BringBack(f[j - 1], j - 1) ELSE f[j - 1]]

\* The loop ends with every sequence brought back.
LEMMA BringsBack ==
  ASSUME NEW cache, NEW cells \in SUBSET CellsIn(SeqIds), NEW C \in Changes,
         NEW size, NEW head, cache = [head |-> head, size |-> size, cells |-> Image(cells, C)],
         NEW js \in SUBSET Decoders
  PROVE  /\ \E f : BackLoop(f, cache, js)
         /\ \A f : BackLoop(f, cache, js) =>
              /\ f[WHISPER_MAX_DECODERS].head \in {0, head}
              /\ f[WHISPER_MAX_DECODERS]
                   = [head |-> f[WHISPER_MAX_DECODERS].head, size |-> size,
                      cells |-> Image(cells, Returned(js, WHISPER_MAX_DECODERS, C))]
<1> DEFINE G(j) == Returned(js, j, C)
           Start(j) == IF \E k \in js : k < j THEN 0 ELSE head
           After(j) == [head |-> Start(j), size |-> size, cells |-> Image(cells, G(j))]
           f0 == [j \in 0..WHISPER_MAX_DECODERS |-> After(j)]
           Loop(f) == BackLoop(f, cache, js)
<1>2. \A j : G(j) \in Changes
  BY DEF Returned, Returning, Changes
<1>3. After(0) = cache
  <2>1. \A k \in js : ~(k < 0)
    BY DEF Decoders
  <2>2. ASSUME NEW S \in SUBSET SeqIds PROVE G(0)[S] = C[S]
    <3>1. C[S] \in SUBSET SeqIds
      BY DEF Changes
    <3>2. \A x \in SeqIds : x \in Returning(js, 0, C[S]) <=> x \in C[S]
      BY <2>1 DEF Returned, Returning
    <3> QED BY <3>1, <3>2 DEF Returned, Returning
  <2>3. Image(cells, G(0)) = Image(cells, C)
    BY <1>2, <2>2, SameImage
  <2>4. Start(0) = head
    BY <2>1
  <2> HIDE DEF G, Start
  <2> QED BY <2>3, <2>4
<1>4. ASSUME NEW j \in 1..WHISPER_MAX_DECODERS, j - 1 \in js
      PROVE  BringBack(After(j - 1), j - 1) = After(j)
  <2>1. Start(j) = 0
    BY <1>4
  <2>2. G(j) \in Changes /\ G(j - 1) \in Changes
    BY <1>2
  <2>3. \A l \in Int : l - 1 + 1 = l
    OBVIOUS
  <2>4. ASSUME NEW c, NEW h, NEW k \in js,
               c = [head |-> h, size |-> size, cells |-> Image(cells, G(k))]
        PROVE  BringBack(c, k) = [head |-> 0, size |-> size, cells |-> Image(cells, G(k + 1))]
    BY <2>4, BringsOneBack
  <2> HIDE DEF G, Start
  <2>5. /\ After(j - 1) = [head |-> Start(j - 1), size |-> size, cells |-> Image(cells, G(j - 1))]
        /\ After(j) = [head |-> 0, size |-> size, cells |-> Image(cells, G(j))]
    BY <2>1
  <2> HIDE DEF After
  <2> QED BY <1>4, <2>3, <2>4, <2>5
<1>5. ASSUME NEW j \in 1..WHISPER_MAX_DECODERS, j - 1 \notin js
      PROVE  After(j - 1) = After(j)
  <2>1. \A l \in js : l < j <=> l < j - 1
    BY <1>5 DEF Decoders
  <2>2. ASSUME NEW S \in SUBSET SeqIds PROVE G(j)[S] = G(j - 1)[S]
    <3>1. \A x \in SeqIds : x \in Returning(js, j, C[S]) <=> x \in Returning(js, j - 1, C[S])
      BY <2>1 DEF Returned, Returning
    <3> QED BY <3>1 DEF Returned, Returning
  <2>3. G(j) \in Changes /\ G(j - 1) \in Changes
    BY <1>2
  <2>4. Image(cells, G(j)) = Image(cells, G(j - 1))
    BY <2>2, <2>3, SameImage
  <2>5. Start(j) = Start(j - 1)
    BY <2>1
  <2> HIDE DEF G, Start
  <2> QED BY <2>4, <2>5
<1>6. Loop(f0)
  <2> HIDE DEF After
  <2>1. \A j \in 0..WHISPER_MAX_DECODERS : j # 0 => j \in 1..WHISPER_MAX_DECODERS /\ j - 1 \in 0..WHISPER_MAX_DECODERS
    BY DEF WHISPER_MAX_DECODERS
  <2> QED BY <1>3, <1>4, <1>5, <2>1 DEF BackLoop
<1>7. ASSUME NEW f, Loop(f) PROVE f[WHISPER_MAX_DECODERS] = After(WHISPER_MAX_DECODERS)
  <2> HIDE DEF After
  <2>0. /\ f[0] = cache
        /\ \A j \in 1..8 : f[j] = IF j - 1 \in js THEN BringBack(f[j - 1], j - 1) ELSE f[j - 1]
    BY <1>7 DEF BackLoop, WHISPER_MAX_DECODERS
  <2>1. \A j \in 1..8 : f[j - 1] = After(j - 1) => f[j] = After(j)
    BY <1>4, <1>5, <2>0 DEF WHISPER_MAX_DECODERS
  <2>2. f[0] = After(0)
    BY <1>3, <2>0
  <2>3. f[1] = After(1) /\ f[2] = After(2) /\ f[3] = After(3) /\ f[4] = After(4)
    BY <2>1, <2>2
  <2>4. f[8] = After(8)
    BY <2>1, <2>3
  <2> QED BY <2>4 DEF WHISPER_MAX_DECODERS
<1>8. \E f : Loop(f)
  BY <1>6
<1> HIDE DEF Loop, G
<1>9. ASSUME NEW f, Loop(f)
      PROVE  /\ f[WHISPER_MAX_DECODERS].head \in {0, head}
             /\ f[WHISPER_MAX_DECODERS]
                  = [head |-> f[WHISPER_MAX_DECODERS].head, size |-> size,
                     cells |-> Image(cells, G(WHISPER_MAX_DECODERS))]
  <2>1. Start(WHISPER_MAX_DECODERS) \in {0, head}
    OBVIOUS
  <2> HIDE DEF Start
  <2>2. f[WHISPER_MAX_DECODERS] = [head |-> Start(WHISPER_MAX_DECODERS), size |-> size,
                                   cells |-> Image(cells, G(WHISPER_MAX_DECODERS))]
    BY <1>7, <1>9
  <2> QED BY <2>1, <2>2
<1> QED BY <1>8, <1>9 DEF Loop, G

\* What TakeOver makes of the sequences of a cell: each decoder of js has those
\* cells its source had, and the others keep theirs.
Taken(js, src, S) == {x \in Decoders : IF x \in js THEN src[x] \in S ELSE x \in S}

\* The same as a change.
TakenBy(js, src) == [S \in SUBSET SeqIds |-> Taken(js, src, S)]

\* A cache of the decoders' sequences alone.
LEMMA DecodersOnly ==
  ASSUME NEW cache \in CacheIn(Decoders)
  PROVE  cache \in CacheIn(SeqIds) /\ cache.cells \in SUBSET CellsIn(Decoders)
<1>1. Decoders \subseteq SeqIds
  BY DEF Decoders, SeqIds, WHISPER_MAX_DECODERS
<1>2. (SUBSET Decoders) \ {{}} \subseteq (SUBSET SeqIds) \ {{}}
  BY <1>1
<1>3. CellsIn(Decoders) \subseteq CellsIn(SeqIds)
  BY <1>2 DEF CellsIn
<1>4. cache.cells \in SUBSET CellsIn(Decoders)
  BY DEF CacheIn
<1> QED BY <1>3, <1>4 DEF CacheIn

\* A decoder that takes over has the cells its source had; those of a circle of decoders
\* too, as all are copied out before any is brought back.
LEMMA TakesOver ==
  ASSUME NEW cache \in CacheIn(Decoders), NEW js \in SUBSET Decoders, NEW src \in [js -> Decoders]
  PROVE  LET next == TakeOver(cache, src)
         IN  /\ next.head \in Nat
             /\ next = [head |-> next.head, size |-> cache.size,
                        cells |-> Image(cache.cells, TakenBy(js, src))]
<1> DEFINE C == Copying(js, src, WHISPER_MAX_DECODERS, WHISPER_MAX_DECODERS)
           R == Returned(js, WHISPER_MAX_DECODERS, C)
<1>1. cache \in CacheIn(SeqIds) /\ cache.cells \in SUBSET CellsIn(Decoders)
  BY DecodersOnly
<1>2. \A k, l \in js : src[k] # WHISPER_MAX_DECODERS + l
  BY DEF Decoders, WHISPER_MAX_DECODERS
<1>3. C \in Changes
  <2>1. \A k \in js : WHISPER_MAX_DECODERS + k \in SeqIds
    BY DEF SeqIds, Decoders, WHISPER_MAX_DECODERS
  <2> QED BY <2>1 DEF Copying, Changes
<1>4. R \in Changes /\ TakenBy(js, src) \in Changes
  BY DEF Returned, Returning, TakenBy, Taken, Changes, SeqIds, Decoders, WHISPER_MAX_DECODERS
<1>5. ASSUME NEW c \in cache.cells PROVE R[c.seq_id] = TakenBy(js, src)[c.seq_id]
  <2>1. c.seq_id \in SUBSET Decoders
    BY <1>1 DEF CellsIn
  <2> SUFFICES ASSUME NEW S \in SUBSET Decoders PROVE R[S] = TakenBy(js, src)[S]
    BY <2>1
  <2>2. S \in SUBSET SeqIds
    BY DEF Decoders, SeqIds, WHISPER_MAX_DECODERS
  <2>3. C[S] = S \cup {WHISPER_MAX_DECODERS + k : k \in {l \in js : src[l] \in S}}
    BY <2>2 DEF Copying, Decoders, WHISPER_MAX_DECODERS
  <2>4. R[S] = Returning(js, WHISPER_MAX_DECODERS, C[S])
    BY <2>2 DEF Returned
  <2> HIDE DEF C, R
  <2>5. ASSUME NEW x \in SeqIds PROVE x \in R[S] <=> x \in Taken(js, src, S)
    <3>1. CASE x \in js
      <4>1. x \in Decoders /\ x < WHISPER_MAX_DECODERS
        BY <3>1 DEF Decoders, WHISPER_MAX_DECODERS
      <4>2. x \in R[S] <=> WHISPER_MAX_DECODERS + x \in C[S]
        BY <2>4, <3>1, <4>1 DEF Returning
      <4>3. WHISPER_MAX_DECODERS + x \notin S
        BY <4>1 DEF Decoders, WHISPER_MAX_DECODERS
      <4>4. \A k \in js : WHISPER_MAX_DECODERS + x = WHISPER_MAX_DECODERS + k => x = k
        BY DEF SeqIds, Decoders, WHISPER_MAX_DECODERS
      <4>5. WHISPER_MAX_DECODERS + x \in C[S] <=> src[x] \in S
        BY <2>3, <3>1, <4>3, <4>4
      <4> QED BY <3>1, <4>1, <4>2, <4>5 DEF Taken
    <3>2. CASE x \in Decoders \ js
      <4>1. x < WHISPER_MAX_DECODERS
        BY <3>2 DEF Decoders, WHISPER_MAX_DECODERS
      <4>2. x \in R[S] <=> x \in C[S]
        BY <2>4, <3>2, <4>1 DEF Returning
      <4>3. \A k \in js : x # WHISPER_MAX_DECODERS + k
        BY <4>1 DEF SeqIds, Decoders, WHISPER_MAX_DECODERS
      <4> QED BY <2>3, <3>2, <4>2, <4>3 DEF Taken
    <3>3. CASE x \notin Decoders
      <4>1. ~(x < WHISPER_MAX_DECODERS) /\ x - WHISPER_MAX_DECODERS < WHISPER_MAX_DECODERS /\ x \notin S
        BY <3>3 DEF SeqIds, Decoders, WHISPER_MAX_DECODERS
      <4>2. x \in R[S] <=> x \in C[S] /\ x - WHISPER_MAX_DECODERS \notin js
        BY <2>4, <4>1 DEF Returning
      <4>3. \A k \in js : x = WHISPER_MAX_DECODERS + k => x - WHISPER_MAX_DECODERS = k
        BY DEF SeqIds, Decoders, WHISPER_MAX_DECODERS
      <4>4. x \in C[S] => x - WHISPER_MAX_DECODERS \in js
        BY <2>3, <4>1, <4>3
      <4> QED BY <3>3, <4>2, <4>4 DEF Taken
    <3> QED BY <3>1, <3>2, <3>3
  <2>6. R[S] \in SUBSET SeqIds /\ Taken(js, src, S) \in SUBSET SeqIds
    BY <1>4, <2>2 DEF Changes, Taken, Decoders, SeqIds, WHISPER_MAX_DECODERS
  <2> QED BY <2>2, <2>5, <2>6 DEF TakenBy
<1> HIDE DEF R
<1>6. Image(cache.cells, R) = Image(cache.cells, TakenBy(js, src))
  BY <1>5 DEF Image
<1> DEFINE Out(f) == CopyLoop(f, cache, js, src, WHISPER_MAX_DECODERS)
           out == (CHOOSE f : Out(f))[WHISPER_MAX_DECODERS]
<1>7. out.head \in {0, cache.head}
      /\ out = [head |-> out.head, size |-> cache.size, cells |-> Image(cache.cells, C)]
  <2>1. (\E f : Out(f)) /\ \A f : Out(f) =>
          /\ f[WHISPER_MAX_DECODERS].head \in {0, cache.head}
          /\ f[WHISPER_MAX_DECODERS]
               = [head |-> f[WHISPER_MAX_DECODERS].head, size |-> cache.size,
                  cells |-> Image(cache.cells, C)]
    BY <1>1, <1>2, Copies
  <2> HIDE DEF Out
  <2>2. Out(CHOOSE f : Out(f))
    BY <2>1, Zenon
  <2> QED BY <2>1, <2>2
<1> HIDE DEF C
<1> DEFINE Back(f) == BackLoop(f, out, js)
           back == (CHOOSE f : Back(f))[WHISPER_MAX_DECODERS]
<1> HIDE DEF Out
<1>8. back.head \in {0, out.head}
      /\ back = [head |-> back.head, size |-> cache.size, cells |-> Image(cache.cells, R)]
  <2>0. cache.cells \in SUBSET CellsIn(SeqIds)
    BY <1>1 DEF CacheIn
  <2>1. ASSUME NEW o, NEW h, o = [head |-> h, size |-> cache.size, cells |-> Image(cache.cells, C)]
        PROVE  /\ \E f : BackLoop(f, o, js)
               /\ \A f : BackLoop(f, o, js) =>
                    /\ f[WHISPER_MAX_DECODERS].head \in {0, h}
                    /\ f[WHISPER_MAX_DECODERS]
                         = [head |-> f[WHISPER_MAX_DECODERS].head, size |-> cache.size,
                            cells |-> Image(cache.cells, R)]
    BY <1>3, <2>0, <2>1, BringsBack DEF R
  <2> HIDE DEF out
  <2>2. (\E f : Back(f)) /\ \A f : Back(f) =>
          /\ f[WHISPER_MAX_DECODERS].head \in {0, out.head}
          /\ f[WHISPER_MAX_DECODERS]
               = [head |-> f[WHISPER_MAX_DECODERS].head, size |-> cache.size,
                  cells |-> Image(cache.cells, R)]
    BY <1>7, <2>1
  <2> HIDE DEF Back
  <2>3. Back(CHOOSE f : Back(f))
    BY <2>2, Zenon
  <2> QED BY <2>2, <2>3
<1> HIDE DEF out, Back
<1>9. TakeOver(cache, src) = back
  BY DEF TakeOver, ForEach, BringBack, CopyLoop, BackLoop, back, Back, out, Out
<1>10. cache.head \in Nat
  BY <1>1 DEF CacheIn
<1> HIDE DEF back
<1> QED BY <1>6, <1>7, <1>8, <1>9, <1>10

\* The cells of which the sequences change as G says, taken one by one.
LEMMA ImageCells ==
  ASSUME NEW cells \in SUBSET CellsIn(Decoders), NEW G \in Changes,
         \A S \in SUBSET Decoders : G[S] \in SUBSET Decoders
  PROVE  /\ Image(cells, G) \in SUBSET CellsIn(Decoders)
         /\ \A x \in Image(cells, G) : \E c \in cells :
              x.at = c.at /\ x.pos = c.pos /\ x.kv = c.kv /\ x.seq_id = G[c.seq_id]
         /\ \A c \in cells : G[c.seq_id] # {} => \E x \in Image(cells, G) :
              x.at = c.at /\ x.pos = c.pos /\ x.kv = c.kv /\ x.seq_id = G[c.seq_id]
         /\ \A x, y \in Image(cells, G) : x.at = y.at /\ x.pos = y.pos /\ x.kv = y.kv
              /\ x.seq_id = y.seq_id => x = y
<1>1. \A c \in cells : c \in CellsIn(Decoders) /\ G[c.seq_id] \in SUBSET Decoders
  BY DEF CellsIn
<1>2. \A c \in cells : G[c.seq_id] # {} =>
        /\ With(c, G[c.seq_id]) \in CellsIn(Decoders)
        /\ With(c, G[c.seq_id]).at = c.at /\ With(c, G[c.seq_id]).pos = c.pos
        /\ With(c, G[c.seq_id]).kv = c.kv /\ With(c, G[c.seq_id]).seq_id = G[c.seq_id]
  BY <1>1, WithType
<1>3. Image(cells, G) \in SUBSET CellsIn(Decoders)
  BY <1>2 DEF Image
<1>4. \A x \in Image(cells, G) : \E c \in cells :
        x.at = c.at /\ x.pos = c.pos /\ x.kv = c.kv /\ x.seq_id = G[c.seq_id]
  <2> TAKE x \in Image(cells, G)
  <2>1. PICK c \in cells : G[c.seq_id] # {} /\ x = With(c, G[c.seq_id])
    BY Zenon DEF Image
  <2> QED BY <1>2, <2>1
<1>5. \A c \in cells : G[c.seq_id] # {} => \E x \in Image(cells, G) :
        x.at = c.at /\ x.pos = c.pos /\ x.kv = c.kv /\ x.seq_id = G[c.seq_id]
  <2> SUFFICES ASSUME NEW c \in cells, G[c.seq_id] # {}
               PROVE  With(c, G[c.seq_id]) \in Image(cells, G)
    BY <1>2
  <2> QED BY Zenon DEF Image
<1>6. \A x, y \in CellsIn(Decoders) : x.at = y.at /\ x.pos = y.pos /\ x.kv = y.kv
        /\ x.seq_id = y.seq_id => x = y
  BY DEF CellsIn
<1> QED BY <1>3, <1>4, <1>5, <1>6

\* The prompt's cells, decoded for the first decoder, are shared with the others.
LEMMA Shares ==
  ASSUME NEW cache \in CacheIn(Decoders), NEW n \in 1..WHISPER_MAX_DECODERS,
         \A c \in cache.cells : c.seq_id = {0}
  PROVE  LET next == Shared(cache, n)
         IN  /\ next \in CacheIn(Decoders) /\ next.size = cache.size
             /\ \A x \in next.cells : x.seq_id = 0..(n - 1) /\ \E c \in cache.cells :
                  x.at = c.at /\ x.pos = c.pos /\ x.kv = c.kv
             /\ \A c \in cache.cells : \E x \in next.cells :
                  x.at = c.at /\ x.pos = c.pos /\ x.kv = c.kv
<1> DEFINE js == 1..(n - 1)
           zero == [j \in js |-> 0]
           C == Copying(js, zero, 0, WHISPER_MAX_DECODERS)
           next == Shared(cache, n)
           Out(f) == CopyLoop(f, cache, js, zero, 0)
           Loop(f) == f = [j \in 0..WHISPER_MAX_DECODERS |->
                             IF j = 0 THEN cache
                             ELSE IF j - 1 \in js THEN whisper_kv_cache_seq_cp(f[j - 1], 0, j - 1) ELSE f[j - 1]]
<1>1. cache \in CacheIn(SeqIds) /\ cache.cells \in SUBSET CellsIn(Decoders)
  BY DecodersOnly
<1>2. /\ js \in SUBSET Decoders /\ zero \in [js -> Decoders]
      /\ \A k, l \in js : zero[k] # 0 + l
  BY DEF Decoders, WHISPER_MAX_DECODERS
<1>3. C \in Changes /\ \A S \in SUBSET SeqIds : S \in SUBSET Decoders => C[S] \in SUBSET Decoders
  <2>1. \A k \in js : 0 + k \in Decoders /\ 0 + k \in SeqIds
    BY DEF Decoders, SeqIds, WHISPER_MAX_DECODERS
  <2> QED BY <2>1 DEF Copying, Changes
<1>4. C[{0}] = 0..(n - 1)
  <2>1. {0} \in SUBSET SeqIds
    BY DEF SeqIds, WHISPER_MAX_DECODERS
  <2>2. C[{0}] = {0} \cup {0 + k : k \in {l \in js : l < WHISPER_MAX_DECODERS /\ zero[l] \in {0}}}
    BY <2>1 DEF Copying
  <2>3. \A l \in js : l < WHISPER_MAX_DECODERS /\ zero[l] \in {0} /\ 0 + l = l
    BY DEF WHISPER_MAX_DECODERS
  <2>4. C[{0}] = {0} \cup js
    BY <2>2, <2>3
  <2>5. 0..(n - 1) = {0} \cup 1..(n - 1)
    OBVIOUS
  <2> QED BY <2>4, <2>5
<1> HIDE DEF C, zero
<1>5. (\E f : Out(f)) /\ \A f : Out(f) =>
          /\ f[WHISPER_MAX_DECODERS].head \in {0, cache.head}
          /\ f[WHISPER_MAX_DECODERS]
               = [head |-> f[WHISPER_MAX_DECODERS].head, size |-> cache.size,
                  cells |-> Image(cache.cells, C)]
  BY <1>1, <1>2, Copies DEF C
<1>6. ASSUME NEW f PROVE Loop(f) <=> Out(f)
  <2>1. \A j \in 0..WHISPER_MAX_DECODERS : j - 1 \in js => zero[j - 1] = 0 /\ 0 + (j - 1) = j - 1
    BY DEF zero
  <2> QED BY <2>1 DEF CopyLoop
<1>7. next = (CHOOSE f : Loop(f))[WHISPER_MAX_DECODERS]
  BY DEF Shared, ForEach
<1> HIDE DEF next, Out, Loop, js
<1>8. Loop(CHOOSE f : Loop(f))
  BY <1>5, <1>6, Zenon
<1>9. next = [head |-> next.head, size |-> cache.size, cells |-> Image(cache.cells, C)]
      /\ next.head \in {0, cache.head}
  BY <1>5, <1>6, <1>7, <1>8
<1>10. \A S \in SUBSET Decoders : S \in SUBSET SeqIds
  BY DEF SeqIds, Decoders, WHISPER_MAX_DECODERS
<1>11. \A S \in SUBSET Decoders : C[S] \in SUBSET Decoders
  BY <1>3, <1>10
<1>12. /\ Image(cache.cells, C) \in SUBSET CellsIn(Decoders)
       /\ \A x \in Image(cache.cells, C) : \E c \in cache.cells :
            x.at = c.at /\ x.pos = c.pos /\ x.kv = c.kv /\ x.seq_id = C[c.seq_id]
       /\ \A c \in cache.cells : C[c.seq_id] # {} => \E x \in Image(cache.cells, C) :
            x.at = c.at /\ x.pos = c.pos /\ x.kv = c.kv /\ x.seq_id = C[c.seq_id]
  BY <1>1, <1>3, <1>11, ImageCells
<1>13. \A c \in cache.cells : C[c.seq_id] = 0..(n - 1) /\ C[c.seq_id] # {}
  <2>1. 0 \in 0..(n - 1)
    OBVIOUS
  <2> QED BY <1>4, <2>1
<1>14. next \in CacheIn(Decoders) /\ next.size = cache.size /\ next.cells = Image(cache.cells, C)
  <2>1. next.head \in Nat /\ cache.size \in Nat
    BY <1>9 DEF CacheIn
  <2> QED BY <1>9, <1>12, <2>1 DEF CacheIn
<1>15. /\ next \in CacheIn(Decoders) /\ next.size = cache.size
       /\ \A x \in next.cells : x.seq_id = 0..(n - 1) /\ \E c \in cache.cells :
            x.at = c.at /\ x.pos = c.pos /\ x.kv = c.kv
       /\ \A c \in cache.cells : \E x \in next.cells :
            x.at = c.at /\ x.pos = c.pos /\ x.kv = c.kv
  <2> HIDE DEF C
  <2>1. \A x \in next.cells : x.seq_id = 0..(n - 1) /\ \E c \in cache.cells :
            x.at = c.at /\ x.pos = c.pos /\ x.kv = c.kv
    <3> TAKE x \in next.cells
    <3>1. x \in Image(cache.cells, C)
      BY <1>14
    <3>2. PICK c \in cache.cells : /\ x.at = c.at /\ x.pos = c.pos /\ x.kv = c.kv
                                   /\ x.seq_id = C[c.seq_id]
      BY <1>12, <3>1
    <3> QED BY <1>13, <3>2
  <2>2. \A c \in cache.cells : \E x \in next.cells :
            x.at = c.at /\ x.pos = c.pos /\ x.kv = c.kv
    <3> TAKE c \in cache.cells
    <3>1. C[c.seq_id] # {}
      BY <1>13
    <3>2. PICK x \in Image(cache.cells, C) : x.at = c.at /\ x.pos = c.pos /\ x.kv = c.kv
      BY <1>12, <3>1
    <3> QED BY <1>14, <3>2
  <2> QED BY <1>14, <2>1, <2>2
<1> QED BY <1>15 DEF next

-----------------------------------------------------------------------------
(* The decoders that go on, and the sequences of tokens.                   *)

\* Place numbers them, and LiveSeq lists them.
LEMMA Places ==
  ASSUME n_dec \in 1..WHISPER_MAX_DECODERS
  PROVE  /\ Live \subseteq Decoders /\ Live \subseteq 0..(n_dec - 1)
         /\ IsFiniteSet(Live) /\ Cardinality(Live) \in Nat /\ Cardinality(Live) <= n_dec
         /\ \A j \in Live : Place(j) \in 1..Cardinality(Live)
         /\ \A j, k \in Live : Place(j) = Place(k) => j = k
         /\ Len(LiveSeq) = Cardinality(Live) /\ DOMAIN LiveSeq = 1..Cardinality(Live)
         /\ \A r \in DOMAIN LiveSeq : LiveSeq[r] \in Live
         /\ \A j \in Live : \E r \in DOMAIN LiveSeq : LiveSeq[r] = j
         /\ \A r, q \in DOMAIN LiveSeq : LiveSeq[r] = LiveSeq[q] => r = q
<1>1. Live \subseteq 0..(n_dec - 1) /\ Live \subseteq Decoders
  BY DEF Live, Decoders, WHISPER_MAX_DECODERS
<1>2. IsFiniteSet(0..(n_dec - 1)) /\ Cardinality(0..(n_dec - 1)) = n_dec
  BY FS_Interval
<1>3. IsFiniteSet(Live) /\ Cardinality(Live) \in Nat /\ Cardinality(Live) <= n_dec
  BY <1>1, <1>2, FS_Subset, FS_CardinalityType
<1> DEFINE Upto(j) == {k \in Live : k <= j}
<1>4. \A j \in Live : Upto(j) \in SUBSET Live /\ j \in Upto(j)
  BY <1>1
<1>5. \A j, k \in Live : k < j => j \notin Upto(k) /\ Upto(k) \in SUBSET Upto(j)
  <2> SUFFICES ASSUME NEW j \in Live, NEW k \in Live, k < j
               PROVE  ~(j <= k) /\ \A l \in Live : l <= k => l <= j
    OBVIOUS
  <2>1. \A l \in Live : l \in Int
    BY <1>1
  <2> QED BY <2>1
<1>6. \A j \in Live : Place(j) = Cardinality(Upto(j))
  BY Zenon DEF Place
<1> HIDE DEF Upto
<1>7. ASSUME NEW j \in Live
      PROVE  /\ IsFiniteSet(Upto(j)) /\ Place(j) \in 1..Cardinality(Live)
             /\ \A k \in Live : k < j => Place(k) # Place(j)
  <2>1. IsFiniteSet(Upto(j)) /\ Cardinality(Upto(j)) <= Cardinality(Live)
    BY <1>3, <1>4, FS_Subset
  <2>2. Cardinality(Upto(j)) \in Nat
    BY <2>1, FS_CardinalityType
  <2>3. Cardinality(Upto(j)) # 0
    BY <1>4, <2>1, FS_EmptySet
  <2>4. ASSUME NEW k \in Live, k < j PROVE Place(k) # Place(j)
    <3>1. Upto(k) \in SUBSET Upto(j) /\ Upto(k) # Upto(j)
      BY <1>4, <1>5, <2>4
    <3>2. Cardinality(Upto(k)) # Cardinality(Upto(j))
      BY <2>1, <3>1, FS_Subset
    <3> QED BY <1>6, <3>2
  <2>5. Place(j) \in 1..Cardinality(Live)
    BY <1>3, <1>6, <2>1, <2>2, <2>3
  <2> QED BY <2>1, <2>4, <2>5
<1>8. \A j, k \in Live : Place(j) = Place(k) => j = k
  <2> SUFFICES ASSUME NEW j \in Live, NEW k \in Live, j # k PROVE Place(j) # Place(k)
    OBVIOUS
  <2>1. j < k \/ k < j
    BY <1>1
  <2>2. CASE j < k
    BY <1>7, <2>2
  <2>3. CASE k < j
    BY <1>7, <2>3
  <2> QED BY <2>1, <2>2, <2>3
<1>9. \A r \in 1..Cardinality(Live) : \E j \in Live : Place(j) = r
  <2>1. PICK f : f = [j \in Live |-> Place(j)]
    OBVIOUS
  <2>2. f \in Injection(Live, 1..Cardinality(Live))
    BY <1>7, <1>8, <2>1 DEF Injection, IsInjective
  <2>3. IsFiniteSet(1..Cardinality(Live)) /\ Cardinality(1..Cardinality(Live)) = Cardinality(Live)
    <3>1. \A n \in Nat : IsFiniteSet(1..n) /\ Cardinality(1..n) = n
      BY FS_Interval
    <3> QED BY <1>3, <3>1
  <2>4. f \in Surjection(Live, 1..Cardinality(Live))
    BY <2>2, <2>3, FS_Injection
  <2> QED BY <2>1, <2>4 DEF Surjection
<1>10. \A r \in 1..Cardinality(Live) : LiveSeq[r] \in Live /\ Place(LiveSeq[r]) = r
  <2> TAKE r \in 1..Cardinality(Live)
  <2>1. LiveSeq[r] = CHOOSE j \in Live : Place(j) = r
    BY DEF LiveSeq
  <2>2. \E j \in Live : Place(j) = r
    BY <1>9
  <2> QED BY <2>1, <2>2, Zenon
<1>11. LiveSeq \in Seq(Live)
  BY <1>3, <1>10, IsASeq DEF LiveSeq
<1>12. Len(LiveSeq) = Cardinality(Live) /\ DOMAIN LiveSeq = 1..Cardinality(Live)
  <2>1. DOMAIN LiveSeq = 1..Cardinality(Live)
    BY DEF LiveSeq
  <2> QED BY <1>3, <1>11, <2>1, LenProperties
<1>13. \A j \in Live : \E r \in DOMAIN LiveSeq : LiveSeq[r] = j
  BY <1>7, <1>8, <1>10, <1>12
<1>14. \A r, q \in DOMAIN LiveSeq : LiveSeq[r] = LiveSeq[q] => r = q
  BY <1>10, <1>12
<1> QED BY <1>1, <1>3, <1>7, <1>8, <1>10, <1>12, <1>13, <1>14

\* What a cell was computed from does not change when a token is added.
LEMMA SameBeginning ==
  ASSUME NEW s \in Seq(Tokens), NEW t, NEW k \in Int, k <= Len(s)
  PROVE  SubSeq(Append(s, t), 1, k) = SubSeq(s, 1, k)
<1>1. CASE k < 1
  BY <1>1
<1>2. CASE k >= 1
  BY <1>2
<1> QED BY <1>1, <1>2

\* A sequence is its own beginning.
LEMMA WholeSequence ==
  ASSUME NEW s \in Seq(Tokens)
  PROVE  SubSeq(s, 1, Len(s)) = s
BY SubSeqFull

-----------------------------------------------------------------------------
(* There is always a slot for the next tokens.                             *)

\* What is needed of division by the number of decoders.
LEMMA Quotients ==
  ASSUME NEW n \in 1..WHISPER_MAX_DECODERS, NEW x \in Nat
  PROVE  /\ x \div n \in Nat /\ (x \div n) * n \in Nat /\ (x \div n) * n <= x
         /\ \A y \in Nat : y <= x => y \div n <= x \div n
         /\ \A h \in Nat : x \in h..(h + n - 1) => x \div n \in {h \div n, h \div n + 1}
         /\ \A w \in Nat : w * n \in Nat /\ (x \in (w * n)..(w * n + n - 1) => x \div n = w)
<1>1. n \in {1, 2, 3, 4, 5, 6, 7, 8}
  BY DEF WHISPER_MAX_DECODERS
<1>2. CASE n = 1
  BY <1>2
<1>3. CASE n = 2
  BY <1>3
<1>4. CASE n = 3
  BY <1>4
<1>5. CASE n = 4
  BY <1>5
<1>6. CASE n = 5
  BY <1>6
<1>7. CASE n = 6
  BY <1>7
<1>8. CASE n = 7
  BY <1>8
<1>9. CASE n = 8
  BY <1>9
<1> QED BY <1>1, <1>2, <1>3, <1>4, <1>5, <1>6, <1>7, <1>8, <1>9

\* The cells are looked at in windows of n of them: cell x is in window d[x].
IsWindow(d, n) ==
  /\ d \in [Nat -> Nat]
  /\ \A x, y \in Nat : y <= x => d[y] <= d[x]
  /\ \A x, h \in Nat : x \in h..(h + n - 1) => d[x] \in {d[h], d[h] + 1}
  /\ \A w \in Nat : w * n \in Nat /\ \A x \in (w * n)..(w * n + n - 1) : d[x] = w
  /\ \A x \in Nat : d[x] * n \in Nat /\ d[x] * n <= x

\* Division gives such windows.
LEMMA Windows ==
  ASSUME NEW n \in 1..WHISPER_MAX_DECODERS
  PROVE  \E d : IsWindow(d, n)
<1>1. PICK d : d = [x \in Nat |-> x \div n]
  OBVIOUS
<1>2. d \in [Nat -> Nat] /\ \A x \in Nat : d[x] = x \div n
  BY <1>1, Quotients
<1>3. \A x, y \in Nat : y <= x => d[y] <= d[x]
  BY <1>2, Quotients
<1>4. \A x, h \in Nat : x \in h..(h + n - 1) => d[x] \in {d[h], d[h] + 1}
  <2> SUFFICES ASSUME NEW x \in Nat, NEW h \in Nat, x \in h..(h + n - 1)
               PROVE  x \div n \in {h \div n, h \div n + 1}
    BY <1>2
  <2> QED BY Quotients
<1>5. ASSUME NEW w \in Nat
      PROVE  w * n \in Nat /\ \A x \in (w * n)..(w * n + n - 1) : d[x] = w
  <2>1. w * n \in Nat
    BY Quotients
  <2>2. \A x \in (w * n)..(w * n + n - 1) : x \in Nat
    BY <2>1
  <2> QED BY <1>2, <2>1, <2>2, Quotients
<1>6. \A x \in Nat : d[x] * n \in Nat /\ d[x] * n <= x
  BY <1>2, Quotients
<1> QED BY <1>2, <1>3, <1>4, <1>5, <1>6 DEF IsWindow

\* How many numbers there are.
LEMMA Counted ==
  ASSUME NEW M \in Nat
  PROVE  /\ IsFiniteSet(0..(M - 1)) /\ Cardinality(0..(M - 1)) = M
         /\ Cardinality(0..M) = M + 1
<1>1. \A a, b \in Int : IsFiniteSet(a..b) /\ Cardinality(a..b) = IF a > b THEN 0 ELSE b - a + 1
  BY FS_Interval
<1>2. IsFiniteSet(0..(M - 1)) /\ Cardinality(0..(M - 1)) = IF 0 > M - 1 THEN 0 ELSE M - 1 - 0 + 1
  BY <1>1
<1>3. Cardinality(0..M) = IF 0 > M THEN 0 ELSE M - 0 + 1
  BY <1>1
<1> QED BY <1>2, <1>3

\* M windows have all cells in use; a cache of that size has M + 1.
Covers(cells, d, g, M) ==
  g \in [0..(M - 1) -> Nat] /\ \A c \in cells : \E k \in 0..(M - 1) : g[k] = d[c.at]
HasWindows(size, n, M) == \A w \in 0..M : w * n + n <= size

\* If M numbers cover the windows in use, one of the first M + 1 is free.
LEMMA FreeWindow ==
  ASSUME NEW n \in 1..WHISPER_MAX_DECODERS, NEW M \in Nat, NEW d, IsWindow(d, n),
         NEW g, NEW cache, cache.size \in Nat, cache.cells \in SUBSET CellsIn(Decoders),
         HasWindows(cache.size, n, M), Covers(cache.cells, d, g, M),
         NEW len \in 0..n
  PROVE  Slots(cache, len) # {}
<1>1. PICK T : T = {g[k] : k \in 0..(M - 1)}
  OBVIOUS
<1>2. IsFiniteSet(0..(M - 1)) /\ Cardinality(0..(M - 1)) = M
  BY Counted
<1>3. g \in Surjection(0..(M - 1), T)
  BY <1>1 DEF Surjection, Covers
<1>4. IsFiniteSet(T) /\ Cardinality(T) <= M
  BY <1>2, <1>3, FS_Surjection
<1>5. Cardinality(0..M) = M + 1
  BY Counted
<1>6. PICK w \in 0..M : w \notin T
  <2> SUFFICES ASSUME 0..M \in SUBSET T PROVE FALSE
    OBVIOUS
  <2>1. M + 1 <= Cardinality(T) /\ Cardinality(T) \in Nat
    BY <1>4, <1>5, FS_Subset, FS_CardinalityType
  <2> QED BY <1>4, <2>1
<1>7. PICK x \in Nat : x = w * n
  BY <1>6 DEF IsWindow
<1>8. x + n <= cache.size /\ \A y \in x..(x + n - 1) : d[y] = w
  <2>1. w \in Nat /\ w * n + n <= cache.size
    BY <1>6 DEF HasWindows
  <2>2. \A y \in (w * n)..(w * n + n - 1) : d[y] = w
    BY <2>1 DEF IsWindow
  <2> QED BY <1>7, <2>1, <2>2
<1>9. \A c \in cache.cells : c.at \notin x..(x + n - 1)
  BY <1>1, <1>6, <1>8 DEF Covers
<1>10. x \in 0..(cache.size - len) /\ x..(x + len - 1) \subseteq x..(x + n - 1)
  BY <1>8
<1>11. x..(x + len - 1) \cap {c.at : c \in cache.cells} = {}
  BY <1>9, <1>10
<1> QED BY <1>10, <1>11 DEF Slots

\* The size of a cache for several decoders, in windows.
LEMMA Enough ==
  ASSUME NEW n \in 2..WHISPER_MAX_DECODERS, NEW m \in n..WHISPER_MAX_DECODERS,
         NEW N \in Nat, NEW e \in Nat, e * n <= 2 * N, NEW w \in Nat, w < N + e
  PROVE  w * n + n <= N * (m + 2)
<1>1. n \in {2, 3, 4, 5, 6, 7, 8} /\ m \in {2, 3, 4, 5, 6, 7, 8} /\ n <= m
  BY DEF WHISPER_MAX_DECODERS
<1>2. w * n + n <= (N + e) * n /\ (N + e) * n \in Int /\ w * n + n \in Int
  BY <1>1
<1>3. (N + e) * n <= N * (n + 2) /\ N * (n + 2) \in Int
  BY <1>1
<1>4. N * (n + 2) <= N * (m + 2) /\ N * (m + 2) \in Int
  BY <1>1
<1> QED BY <1>2, <1>3, <1>4

\* Two windows for each position, numbered.
LEMMA Halves ==
  /\ \A k, t \in Nat : k < 2 * t => k \div 2 \in 0..(t - 1) /\ k % 2 \in {0, 1}
  /\ \A r \in Nat : \A b \in {0, 1} : (2 * r + b) \div 2 = r /\ (2 * r + b) % 2 = b
OBVIOUS

\* The prompt, of P tokens, is at the start of the cache, and the tokens of each
\* later position, whoever's they are, lie in one slot of n cells.
InPlace(cells, P, t, n) ==
  /\ \A c \in cells : c.pos < P + t /\ (c.pos < P => c.at = c.pos)
  /\ \A q \in P..(P + t - 1) : \E h \in Nat :
       \A c \in cells : c.pos = q => c.at \in h..(h + n - 1)

\* Then a cache of the size the code gives it has room for n tokens more.
LEMMA Room ==
  ASSUME NEW n \in 1..WHISPER_MAX_DECODERS, NEW m \in n..WHISPER_MAX_DECODERS,
         NEW P \in Nat, P > 0, P <= NTextCtx \div 2 + 4, NEW t \in Nat, t < NMax,
         NEW cache \in CacheIn(Decoders), cache.size = CacheSize(m),
         InPlace(cache.cells, P, t, n), NEW len \in 0..n
  PROVE  Slots(cache, len) # {}
<1>1. cache.cells \in SUBSET CellsIn(Decoders) /\ cache.size \in Nat
      /\ \A c \in cache.cells : c.at \in Nat /\ c.pos \in Nat
  BY DEF CacheIn, CellsIn
<1>2. PICK slot : /\ slot \in [P..(P + t - 1) -> Nat]
                  /\ \A q \in P..(P + t - 1) : \A c \in cache.cells :
                       c.pos = q => c.at \in slot[q]..(slot[q] + n - 1)
  <2> DEFINE Fits(q, h) == \A c \in cache.cells : c.pos = q => c.at \in h..(h + n - 1)
             f == [q \in P..(P + t - 1) |-> CHOOSE h \in Nat : Fits(q, h)]
  <2>1. \A q \in P..(P + t - 1) : \E h \in Nat : Fits(q, h)
    BY DEF InPlace
  <2> HIDE DEF Fits
  <2>2. f \in [P..(P + t - 1) -> Nat] /\ \A q \in P..(P + t - 1) : Fits(q, f[q])
    BY <2>1
  <2>3. /\ f \in [P..(P + t - 1) -> Nat]
        /\ \A q \in P..(P + t - 1) : \A c \in cache.cells :
             c.pos = q => c.at \in f[q]..(f[q] + n - 1)
    BY <2>2 DEF Fits
  <2> HIDE DEF f
  <2> QED BY <2>3
<1>3. NTextCtx \in Nat /\ NTextCtx > 9 /\ NTextCtx \div 2 \in Nat
      /\ 2 * (NTextCtx \div 2) <= NTextCtx
  BY DecoderAssumption
<1>4. PICK d : IsWindow(d, n)
  BY Windows
<1>5. d \in [Nat -> Nat]
  BY <1>4 DEF IsWindow
\* Each cell is of the prompt, and then in one of the windows of the prompt, or of a
\* later position, and then in one of the two windows that its slot touches.
<1>6. \A c \in cache.cells : c.pos < P => c.at \in 0..(P - 1) /\ c.at = c.pos
  BY <1>1 DEF InPlace
<1>7. \A c \in cache.cells : ~(c.pos < P) =>
        /\ c.pos \in P..(P + t - 1) /\ slot[c.pos] \in Nat
        /\ c.at \in slot[c.pos]..(slot[c.pos] + n - 1)
  <2> SUFFICES ASSUME NEW c \in cache.cells, ~(c.pos < P)
               PROVE  /\ c.pos \in P..(P + t - 1) /\ slot[c.pos] \in Nat
                      /\ c.at \in slot[c.pos]..(slot[c.pos] + n - 1)
    OBVIOUS
  <2>1. c.pos \in Nat /\ c.pos < P + t
    BY <1>1 DEF InPlace
  <2>2. c.pos \in P..(P + t - 1)
    BY <2>1
  <2> QED BY <1>2, <2>2
<1>8. CASE n = 1
  <2>1. PICK M \in Nat : M = P + t
    OBVIOUS
  <2>2. PICK g : g = [k \in 0..(M - 1) |-> IF k < P THEN k ELSE slot[k]]
    OBVIOUS
  <2>3. g \in [0..(M - 1) -> Nat]
    BY <1>2, <2>1, <2>2
  <2>4. M < NTextCtx
    BY <1>3, <2>1 DEF NMax
  <2>5. HasWindows(cache.size, n, M)
    <3>1. cache.size = NTextCtx * (IF m > 1 THEN m + 2 ELSE 1) /\ m \in 1..8
      BY <1>8 DEF CacheSize, WHISPER_MAX_DECODERS
    <3>2. cache.size >= NTextCtx
      BY <1>3, <3>1
    <3>3. \A w \in Nat : w * n + n = w + 1
      BY <1>8
    <3>4. \A w \in 0..M : w \in Nat /\ w + 1 <= cache.size
      BY <1>1, <1>3, <2>4, <3>2
    <3> QED BY <3>3, <3>4 DEF HasWindows
  <2>6. ASSUME NEW c \in cache.cells PROVE \E k \in 0..(M - 1) : g[k] = d[c.at]
    <3>1. d[c.at] = c.at
      <4>1. c.at \in Nat /\ c.at * n = c.at /\ c.at \in (c.at)..(c.at + n - 1)
        BY <1>1, <1>8
      <4>2. c.at \in (c.at * n)..(c.at * n + n - 1)
        BY <4>1
      <4> QED BY <1>4, <4>1, <4>2 DEF IsWindow
    <3>2. c.pos \in 0..(M - 1)
      BY <1>1, <2>1 DEF InPlace
    <3>3. c.at = g[c.pos]
      BY <1>1, <1>6, <1>7, <1>8, <2>2, <3>2
    <3> QED BY <3>1, <3>2, <3>3
  <2>7. Covers(cache.cells, d, g, M)
    BY <2>3, <2>6 DEF Covers
  <2> QED BY <1>1, <1>4, <2>5, <2>7, FreeWindow
<1>9. CASE n # 1
  <2>1. PICK B \in Nat : B = d[P - 1] + 1
    BY <1>5
  <2>2. PICK M \in Nat : M = B + 2 * t
    BY <2>1
  <2>3. PICK e \in Nat : e = d[2 * NTextCtx] /\ e * n <= 2 * NTextCtx
    BY <1>3, <1>4, <1>5 DEF IsWindow
  <2>4. d[P - 1] <= e
    <3>1. P - 1 \in Nat /\ 2 * NTextCtx \in Nat /\ P - 1 <= 2 * NTextCtx
      BY <1>3
    <3> QED BY <1>4, <2>3, <3>1 DEF IsWindow
  <2>5. M < NTextCtx + e
    <3>1. d[P - 1] \in Nat
      BY <1>5
    <3>2. t < NTextCtx \div 2 - 4
      BY DEF NMax
    <3> QED BY <1>3, <2>1, <2>2, <2>3, <2>4, <3>1, <3>2
  <2>6. HasWindows(cache.size, n, M)
    <3> SUFFICES ASSUME NEW w \in 0..M PROVE w * n + n <= cache.size
      BY DEF HasWindows
    <3>1. w \in Nat /\ w < NTextCtx + e
      BY <1>3, <2>2, <2>3, <2>5
    <3>2. n \in 2..WHISPER_MAX_DECODERS /\ cache.size = NTextCtx * (m + 2)
      BY <1>9 DEF CacheSize, WHISPER_MAX_DECODERS
    <3> QED BY <1>3, <2>3, <3>1, <3>2, Enough
  <2>7. PICK g : g = [k \in 0..(M - 1) |->
                       IF k < B THEN k ELSE d[slot[P + (k - B) \div 2]] + ((k - B) % 2)]
    OBVIOUS
  <2>8. g \in [0..(M - 1) -> Nat]
    <3>1. ASSUME NEW k \in 0..(M - 1), ~(k < B)
          PROVE  d[slot[P + (k - B) \div 2]] + ((k - B) % 2) \in Nat
      <4>1. k - B \in Nat /\ k - B < 2 * t
        BY <2>1, <2>2, <3>1
      <4>2. (k - B) \div 2 \in 0..(t - 1) /\ (k - B) % 2 \in {0, 1}
        BY <4>1, Halves
      <4>3. slot[P + (k - B) \div 2] \in Nat
        BY <1>2, <4>2
      <4>4. d[slot[P + (k - B) \div 2]] \in Nat
        BY <1>5, <4>3
      <4> QED BY ONLY <4>2, <4>4
    <3>2. \A k \in 0..(M - 1) : k \in Nat
      OBVIOUS
    <3> QED BY <2>7, <3>1, <3>2
  <2>9. ASSUME NEW c \in cache.cells PROVE \E k \in 0..(M - 1) : g[k] = d[c.at]
    <3>1. CASE c.pos < P
      <4>1. c.at \in Nat /\ P - 1 \in Nat /\ c.at <= P - 1
        BY <1>6, <3>1
      <4>2. d[c.at] <= d[P - 1] /\ d[c.at] \in Nat /\ d[P - 1] \in Nat
        BY <1>4, <1>5, <4>1 DEF IsWindow
      <4>3. d[c.at] \in 0..(M - 1) /\ d[c.at] < B
        BY <2>1, <2>2, <4>2
      <4> QED BY <2>7, <4>3
    <3>2. CASE ~(c.pos < P)
      <4>1. PICK h \in Nat : h = slot[c.pos] /\ c.at \in h..(h + n - 1)
        BY <1>7, <3>2
      <4>2. d[c.at] \in {d[h], d[h] + 1} /\ d[h] \in Nat
        BY <1>1, <1>4, <1>5, <4>1 DEF IsWindow
      <4>3. PICK b \in {0, 1} : d[c.at] = d[h] + b
        BY <4>2
      <4>4. PICK r \in 0..(t - 1) : r = c.pos - P /\ c.pos = P + r
        BY <1>7, <3>2
      <4>5. PICK k \in Nat : k = B + (2 * r + b)
        BY <2>1, <4>3, <4>4
      <4>6. k \in 0..(M - 1) /\ ~(k < B) /\ k - B = 2 * r + b
        <5>1. r \in Nat /\ 2 * r + b \in 0..(2 * t - 1)
          BY <4>3, <4>4
        <5> QED BY ONLY <2>1, <2>2, <4>5, <5>1
      <4>7. (k - B) \div 2 = r /\ (k - B) % 2 = b
        BY <4>3, <4>4, <4>6, Halves
      <4> QED BY <2>7, <4>1, <4>3, <4>4, <4>6, <4>7
    <3> QED BY <3>1, <3>2
  <2>10. Covers(cache.cells, d, g, M)
    BY <2>8, <2>9 DEF Covers
  <2> QED BY <1>1, <1>4, <2>6, <2>10, FreeWindow
<1> QED BY <1>8, <1>9

-----------------------------------------------------------------------------
(* What the cache holds of a decoder, step by step.                        *)

\* One cell for each position, P of the prompt and t of the tokens, computed from
\* the tokens up to it.
Owns(cells, j, P, t, tokens) ==
  /\ \A c \in cells : j \in c.seq_id =>
       c.pos \in 0..(P + t - 1) /\ c.kv = SubSeq(tokens, 1, c.pos - P + 1)
  /\ \A q \in 0..(P + t - 1) : \E c \in cells : j \in c.seq_id /\ c.pos = q
  /\ \A c, d \in cells : j \in c.seq_id /\ j \in d.seq_id /\ c.pos = d.pos => c = d

\* A token that is sampled has no cell yet.
LEMMA OwnsAppended ==
  ASSUME NEW cells, NEW j, NEW P \in Nat, NEW t \in Nat, NEW tokens \in Seq(Tokens),
         Len(tokens) = t, Owns(cells, j, P, t, tokens), NEW x
  PROVE  Owns(cells, j, P, t, Append(tokens, x))
<1>1. ASSUME NEW c \in cells, j \in c.seq_id
      PROVE  SubSeq(Append(tokens, x), 1, c.pos - P + 1) = SubSeq(tokens, 1, c.pos - P + 1)
  <2>1. c.pos - P + 1 \in Int /\ c.pos - P + 1 <= Len(tokens)
    BY <1>1 DEF Owns
  <2> QED BY <2>1, SameBeginning
<1> QED BY <1>1 DEF Owns

\* A decoder that takes over has what its source had.
LEMMA OwnsTaken ==
  ASSUME NEW cells \in SUBSET CellsIn(Decoders), NEW js \in SUBSET Decoders,
         NEW src \in [js -> Decoders], NEW next, next = Image(cells, TakenBy(js, src)),
         NEW P \in Nat, NEW t \in Nat
  PROVE  /\ next \in SUBSET CellsIn(Decoders)
         /\ \A x \in next : \E c \in cells : x.pos = c.pos
         /\ \A j \in js : \A tokens : Owns(cells, src[j], P, t, tokens) => Owns(next, j, P, t, tokens)
         /\ \A n : InPlace(cells, P, t, n) => InPlace(next, P, t, n)
<1>0. PICK G : G = TakenBy(js, src)
  OBVIOUS
<1>1. \A S \in SUBSET Decoders : S \in SUBSET SeqIds
  BY DEF Decoders, SeqIds, WHISPER_MAX_DECODERS
<1>2. G \in Changes /\ \A S \in SUBSET Decoders : G[S] = Taken(js, src, S) /\ G[S] \in SUBSET Decoders
  BY <1>0, <1>1 DEF TakenBy, Taken, Changes
<1>3. /\ next \in SUBSET CellsIn(Decoders)
      /\ \A x \in next : \E c \in cells :
           x.at = c.at /\ x.pos = c.pos /\ x.kv = c.kv /\ x.seq_id = G[c.seq_id]
      /\ \A c \in cells : G[c.seq_id] # {} => \E x \in next :
           x.at = c.at /\ x.pos = c.pos /\ x.kv = c.kv /\ x.seq_id = G[c.seq_id]
      /\ \A x, y \in next : x.at = y.at /\ x.pos = y.pos /\ x.kv = y.kv
           /\ x.seq_id = y.seq_id => x = y
  <2>1. /\ Image(cells, G) \in SUBSET CellsIn(Decoders)
        /\ \A x \in Image(cells, G) : \E c \in cells :
             x.at = c.at /\ x.pos = c.pos /\ x.kv = c.kv /\ x.seq_id = G[c.seq_id]
        /\ \A c \in cells : G[c.seq_id] # {} => \E x \in Image(cells, G) :
             x.at = c.at /\ x.pos = c.pos /\ x.kv = c.kv /\ x.seq_id = G[c.seq_id]
        /\ \A x, y \in Image(cells, G) : x.at = y.at /\ x.pos = y.pos /\ x.kv = y.kv
             /\ x.seq_id = y.seq_id => x = y
    BY <1>2, ImageCells
  <2>2. next = Image(cells, G)
    BY <1>0
  <2> QED BY <2>1, <2>2
<1>4. \A c \in cells, j \in js : j \in G[c.seq_id] <=> src[j] \in c.seq_id
  <2>1. \A c \in cells : G[c.seq_id] = Taken(js, src, c.seq_id)
    BY <1>2 DEF CellsIn
  <2> QED BY <2>1 DEF Taken
<1>5. ASSUME NEW j \in js, NEW tokens, Owns(cells, src[j], P, t, tokens)
      PROVE  Owns(next, j, P, t, tokens)
  <2>1. ASSUME NEW x \in next, j \in x.seq_id
        PROVE  x.pos \in 0..(P + t - 1) /\ x.kv = SubSeq(tokens, 1, x.pos - P + 1)
    <3>1. PICK c \in cells : x.pos = c.pos /\ x.kv = c.kv /\ x.seq_id = G[c.seq_id]
      BY <1>3
    <3>2. src[j] \in c.seq_id
      BY <1>4, <2>1, <3>1
    <3> QED BY <1>5, <3>1, <3>2 DEF Owns
  <2>2. ASSUME NEW q \in 0..(P + t - 1)
        PROVE  \E x \in next : j \in x.seq_id /\ x.pos = q
    <3>1. PICK c \in cells : src[j] \in c.seq_id /\ c.pos = q
      BY <1>5 DEF Owns
    <3>2. j \in G[c.seq_id]
      BY <1>4, <3>1
    <3> QED BY <1>3, <3>1, <3>2
  <2>3. ASSUME NEW x \in next, NEW y \in next, j \in x.seq_id, j \in y.seq_id, x.pos = y.pos
        PROVE  x = y
    <3>1. PICK c \in cells : x.at = c.at /\ x.pos = c.pos /\ x.kv = c.kv /\ x.seq_id = G[c.seq_id]
      BY <1>3
    <3>2. PICK d \in cells : y.at = d.at /\ y.pos = d.pos /\ y.kv = d.kv /\ y.seq_id = G[d.seq_id]
      BY <1>3
    <3>3. src[j] \in c.seq_id /\ src[j] \in d.seq_id /\ c.pos = d.pos
      BY <1>4, <2>3, <3>1, <3>2
    <3>4. c = d
      BY <1>5, <3>3 DEF Owns
    <3> QED BY <1>3, <3>1, <3>2, <3>4
  <2> QED BY <2>1, <2>2, <2>3 DEF Owns
<1>6. ASSUME NEW n, InPlace(cells, P, t, n) PROVE InPlace(next, P, t, n)
  <2>1. \A x \in next : \E c \in cells : x.at = c.at /\ x.pos = c.pos
    BY <1>3
  <2>2. \A x \in next : x.pos < P + t /\ (x.pos < P => x.at = x.pos)
    BY <1>6, <2>1 DEF InPlace
  <2>3. ASSUME NEW q \in P..(P + t - 1)
        PROVE  \E h \in Nat : \A x \in next : x.pos = q => x.at \in h..(h + n - 1)
    <3>1. PICK h \in Nat : \A c \in cells : c.pos = q => c.at \in h..(h + n - 1)
      BY <1>6 DEF InPlace
    <3>2. \A x \in next : x.pos = q => x.at \in h..(h + n - 1)
      <4> TAKE x \in next
      <4>1. PICK c \in cells : x.at = c.at /\ x.pos = c.pos
        BY <2>1
      <4> QED BY <3>1, <4>1
    <3> QED BY <3>2
  <2> QED BY <2>2, <2>3 DEF InPlace
<1> QED BY <1>3, <1>5, <1>6

\* The cells of a batch of tokens of one position, in the slot at h.
LEMMA OwnsDecoded ==
  ASSUME NEW cells \in SUBSET CellsIn(Decoders), NEW new,
         NEW h \in Nat, NEW n \in Nat, NEW P \in Nat, NEW t \in Nat,
         InPlace(cells, P, t, n),
         \A x \in new : x.pos = P + t /\ x.at \in h..(h + n - 1)
  PROVE  /\ InPlace(cells \cup new, P, t + 1, n)
         /\ \A j : \A tokens \in Seq(Tokens) :
              /\ Owns(cells, j, P, t, tokens) /\ Len(tokens) = t + 1
              /\ \E x \in new : j \in x.seq_id
              /\ \A x \in new : j \in x.seq_id => x.kv = tokens
              /\ \A x, y \in new : j \in x.seq_id /\ j \in y.seq_id => x = y
              => Owns(cells \cup new, j, P, t + 1, tokens)
<1>1. \A c \in cells : c.pos < P + t /\ (c.pos < P => c.at = c.pos)
  BY DEF InPlace
<1>2. InPlace(cells \cup new, P, t + 1, n)
  <2>1. \A x \in cells \cup new : x.pos < P + (t + 1) /\ (x.pos < P => x.at = x.pos)
    <3>1. \A c \in cells : c.pos < P + (t + 1)
      <4> TAKE c \in cells
      <4>1. c.pos < P + t
        BY <1>1
      <4>2. c.pos \in Nat
        BY DEF CellsIn
      <4> QED BY <4>1, <4>2
    <3>2. P + t < P + (t + 1) /\ ~(P + t < P)
      OBVIOUS
    <3> QED BY <1>1, <3>1, <3>2
  <2>2. ASSUME NEW q \in P..(P + (t + 1) - 1)
        PROVE  \E g \in Nat : \A x \in cells \cup new : x.pos = q => x.at \in g..(g + n - 1)
    <3>1. CASE q = P + t
      <4>1. \A c \in cells : c.pos # q
        BY <1>1, <3>1
      <4> QED BY <3>1, <4>1
    <3>2. CASE q # P + t
      <4>1. q \in P..(P + t - 1)
        BY <3>2
      <4>2. PICK g \in Nat : \A c \in cells : c.pos = q => c.at \in g..(g + n - 1)
        BY <4>1 DEF InPlace
      <4> QED BY <3>2, <4>2
    <3> QED BY <3>1, <3>2
  <2> QED BY <2>1, <2>2 DEF InPlace
<1>3. ASSUME NEW j, NEW tokens \in Seq(Tokens),
             Owns(cells, j, P, t, tokens), Len(tokens) = t + 1,
             \E x \in new : j \in x.seq_id,
             \A x \in new : j \in x.seq_id => x.kv = tokens,
             \A x, y \in new : j \in x.seq_id /\ j \in y.seq_id => x = y
      PROVE  Owns(cells \cup new, j, P, t + 1, tokens)
  <2>1. ASSUME NEW c \in cells \cup new, j \in c.seq_id
        PROVE  c.pos \in 0..(P + (t + 1) - 1) /\ c.kv = SubSeq(tokens, 1, c.pos - P + 1)
    <3>1. CASE c \in cells
      BY <1>3, <2>1, <3>1 DEF Owns
    <3>2. CASE c \in new
      <4>1. c.pos = P + t /\ c.kv = tokens
        BY <1>3, <2>1, <3>2
      <4>2. c.pos - P + 1 = Len(tokens) /\ c.pos \in 0..(P + (t + 1) - 1)
        BY <1>3, <4>1
      <4>3. SubSeq(tokens, 1, Len(tokens)) = tokens
        BY WholeSequence
      <4> QED BY <4>1, <4>2, <4>3
    <3> QED BY <3>1, <3>2
  <2>2. ASSUME NEW q \in 0..(P + (t + 1) - 1)
        PROVE  \E c \in cells \cup new : j \in c.seq_id /\ c.pos = q
    <3>1. CASE q = P + t
      BY <1>3, <3>1
    <3>2. CASE q # P + t
      <4>1. q \in 0..(P + t - 1)
        BY <3>2
      <4> QED BY <1>3, <4>1 DEF Owns
    <3> QED BY <3>1, <3>2
  <2>3. ASSUME NEW c \in cells \cup new, NEW d \in cells \cup new,
               j \in c.seq_id, j \in d.seq_id, c.pos = d.pos
        PROVE  c = d
    <3>1. \A x \in cells : x.pos # P + t
      BY <1>1
    <3>2. CASE c \in cells /\ d \in cells
      BY <1>3, <2>3, <3>2 DEF Owns
    <3>3. CASE c \in new /\ d \in new
      BY <1>3, <2>3, <3>3
    <3> QED BY <2>3, <3>1, <3>2, <3>3
  <2> QED BY <2>1, <2>2, <2>3 DEF Owns
<1> QED BY <1>2, <1>3

\* A clean cache has room for the prompt, at its start; shared out, every decoder has it.
LEMMA OwnsPrompt ==
  ASSUME NEW clean \in CacheIn(Decoders), clean.cells = {}, clean.head = 0,
         NEW len \in Nat, len > 0, len <= clean.size, NEW n \in 1..WHISPER_MAX_DECODERS
  PROVE  LET first == whisper_kv_cache_find_slot(clean, PromptBatch(len))
             next == Shared(first, n)
         IN  /\ Len(PromptBatch(len)) = len /\ Decoded(clean, PromptBatch(len))
             /\ first \in CacheIn(Decoders) /\ first.size = clean.size
             /\ \A c \in first.cells : c.pos < len
             /\ next \in CacheIn(Decoders) /\ next.size = clean.size
             /\ \A c \in next.cells : c.pos < len
             /\ InPlace(next.cells, len, 0, n)
             /\ \A j \in 0..(n - 1) : Owns(next.cells, j, len, 0, <<>>)
<1> DEFINE batch == PromptBatch(len)
           first == whisper_kv_cache_find_slot(clean, batch)
           next == Shared(first, n)
           new(k) == [at |-> k - 1, pos |-> k - 1, seq_id |-> {0}, kv |-> <<>>]
<1>1. /\ Len(batch) = len /\ DOMAIN batch = 1..len
      /\ \A k \in 1..len : batch[k].pos = k - 1 /\ batch[k].seq = 0 /\ batch[k].kv = <<>>
  BY DEF PromptBatch
<1> HIDE DEF batch
<1>2. Slots(clean, len) \in SUBSET Nat /\ 0 \in Slots(clean, len)
  BY DEF Slots, CacheIn
<1>3. SlotFor(clean, len) = 0
  <2>1. {h \in Slots(clean, len) : h >= clean.head} = Slots(clean, len)
    BY <1>2
  <2>2. SlotFor(clean, len) = Min(Slots(clean, len))
    BY <2>1 DEF SlotFor
  <2>3. Min(Slots(clean, len)) \in Slots(clean, len) /\ Min(Slots(clean, len)) <= 0
    BY <1>2, LeastElement
  <2>4. Min(Slots(clean, len)) \in Nat
    BY <1>2, <2>3
  <2> QED BY <2>2, <2>3, <2>4
<1>4. \A k \in DOMAIN batch : /\ batch[k].pos \in Nat /\ batch[k].seq \in Decoders
                              /\ batch[k].kv \in Seq(Tokens)
  <2>1. <<>> \in Seq(Tokens) /\ 0 \in Decoders
    BY DEF Decoders, WHISPER_MAX_DECODERS
  <2>2. \A k \in 1..len : k - 1 \in Nat
    OBVIOUS
  <2> QED BY <1>1, <2>1, <2>2
<1>5. /\ first \in CacheIn(Decoders) /\ first.size = clean.size
      /\ first.cells = {new(k) : k \in 1..len}
  <2> DEFINE put(k) == [at |-> SlotFor(clean, Len(batch)) + k - 1, pos |-> batch[k].pos,
                        seq_id |-> {batch[k].seq}, kv |-> batch[k].kv]
  <2>1. /\ first \in CacheIn(Decoders) /\ first.size = clean.size
        /\ first.cells = clean.cells \cup {put(k) : k \in DOMAIN batch}
    BY <1>1, <1>2, <1>4, FindSlotType
  <2>2. ASSUME NEW k \in 1..len PROVE put(k) = new(k)
    <3>1. SlotFor(clean, Len(batch)) + k - 1 = k - 1
      BY <1>1, <1>3
    <3>2. batch[k].pos = k - 1 /\ batch[k].seq = 0 /\ batch[k].kv = <<>>
      BY <1>1
    <3> QED BY <3>1, <3>2
  <2> HIDE DEF put, new, first
  <2>3. {put(k) : k \in DOMAIN batch} = {new(k) : k \in 1..len}
    BY <1>1, <2>2
  <2> QED BY <2>1, <2>3
<1>6. \A c \in first.cells : /\ c.pos \in 0..(len - 1) /\ c.at = c.pos
                             /\ c.seq_id = {0} /\ c.kv = <<>>
  BY <1>5
<1>7. \A k \in 1..len : new(k).pos = k - 1
  OBVIOUS
<1> HIDE DEF new, first
<1>8. \A q \in 0..(len - 1) : \E c \in first.cells : c.pos = q
  <2> TAKE q \in 0..(len - 1)
  <2>1. q + 1 \in 1..len /\ new(q + 1) \in first.cells /\ new(q + 1).pos = q
    BY <1>5, <1>7
  <2> QED BY <2>1
<1>9. /\ next \in CacheIn(Decoders) /\ next.size = first.size
      /\ \A x \in next.cells : x.seq_id = 0..(n - 1) /\ \E c \in first.cells :
           x.at = c.at /\ x.pos = c.pos /\ x.kv = c.kv
      /\ \A c \in first.cells : \E x \in next.cells :
           x.at = c.at /\ x.pos = c.pos /\ x.kv = c.kv
  <2>1. first \in CacheIn(Decoders) /\ \A c \in first.cells : c.seq_id = {0}
    BY <1>5, <1>6
  <2> HIDE DEF next, first
  <2>2. ASSUME NEW h \in CacheIn(Decoders), \A c \in h.cells : c.seq_id = {0}
        PROVE  /\ Shared(h, n) \in CacheIn(Decoders) /\ Shared(h, n).size = h.size
               /\ \A x \in Shared(h, n).cells : x.seq_id = 0..(n - 1) /\ \E c \in h.cells :
                    x.at = c.at /\ x.pos = c.pos /\ x.kv = c.kv
               /\ \A c \in h.cells : \E x \in Shared(h, n).cells :
                    x.at = c.at /\ x.pos = c.pos /\ x.kv = c.kv
    BY <2>2, Shares
  <2> QED BY <2>1, <2>2 DEF next
<1> HIDE DEF next
<1>10. \A x \in next.cells : x.pos \in 0..(len - 1) /\ x.at = x.pos /\ x.kv = <<>>
  <2> TAKE x \in next.cells
  <2>1. PICK c \in first.cells : x.at = c.at /\ x.pos = c.pos /\ x.kv = c.kv
    BY <1>9
  <2> QED BY <1>6, <2>1
<1>11. InPlace(next.cells, len, 0, n)
  <2>1. \A x \in next.cells : x.pos < len + 0 /\ (x.pos < len => x.at = x.pos)
    BY <1>10
  <2>2. len..(len + 0 - 1) = {}
    OBVIOUS
  <2> QED BY <2>1, <2>2 DEF InPlace
<1>12. ASSUME NEW j \in 0..(n - 1) PROVE Owns(next.cells, j, len, 0, <<>>)
  <2>1. ASSUME NEW c \in next.cells
        PROVE  c.pos \in 0..(len + 0 - 1) /\ c.kv = SubSeq(<<>>, 1, c.pos - len + 1)
    <3>0. c.pos \in 0..(len + 0 - 1) /\ c.kv = <<>>
      BY <1>10
    <3>1. c.pos - len + 1 \in Int /\ c.pos - len + 1 < 1
      BY <1>10
    <3>2. \A k \in Int : k < 1 => SubSeq(<<>>, 1, k) = <<>>
      OBVIOUS
    <3>3. SubSeq(<<>>, 1, c.pos - len + 1) = <<>>
      BY <3>1, <3>2
    <3> QED BY <3>0, <3>3
  <2>2. \A q \in 0..(len + 0 - 1) : \E c \in next.cells : j \in c.seq_id /\ c.pos = q
    <3> TAKE q \in 0..(len + 0 - 1)
    <3>1. PICK c \in first.cells : c.pos = q
      BY <1>8
    <3>2. PICK x \in next.cells : x.pos = q
      BY <1>9, <3>1
    <3> QED BY <1>9, <3>2
  <2>3. ASSUME NEW c \in next.cells, NEW d \in next.cells, c.pos = d.pos
        PROVE  c = d
    <3>1. c.at = d.at /\ c.kv = d.kv /\ c.seq_id = d.seq_id
      BY <1>9, <1>10, <2>3
    <3>2. c \in CellsIn(Decoders) /\ d \in CellsIn(Decoders)
      BY <1>9 DEF CacheIn
    <3> QED BY <2>3, <3>1, <3>2 DEF CellsIn
  <2> QED BY <2>1, <2>2, <2>3 DEF Owns
<1>13. Decoded(clean, batch)
  BY <1>1, <1>2 DEF Decoded
<1>14. \A c \in next.cells : c.pos < len
  BY <1>10
<1>15. \A c \in first.cells : c.pos < len
  BY <1>6
<1> QED BY <1>1, <1>5, <1>9, <1>11, <1>12, <1>13, <1>14, <1>15 DEF next, first, batch

-----------------------------------------------------------------------------
(* The inductive invariant.                                                *)

\* The decoders are at work.
Sampling == phase \in {"sample", "update", "decode"}

\* A whisper_decoder, as far as it is modelled.
Decoder == [tokens : Seq(Tokens), result_len : Nat, seek_delta : Nat \ {0},
            failed : BOOLEAN, completed : BOOLEAN, has_ts : BOOLEAN]

\* The records have their types, a result is no longer than its tokens, and the tokens
\* to repeat leave room in the prompt.
DataInv ==
  /\ DOMAIN dec \subseteq Decoders
  /\ \A j \in DOMAIN dec : dec[j] \in Decoder /\ dec[j].result_len <= Len(dec[j].tokens)
  /\ kv \in CacheIn(Decoders)
  /\ past0 < NTextCtx \div 2

\* The loops over temperatures, windows and tokens run within their bounds.
LoopInv ==
  /\ it \in 1..Len(Temperatures(p))
  /\ phase # "idle" => MaxDecoders(p) <= WHISPER_MAX_DECODERS
  /\ phase \notin {"idle", "window"} => seek + DeltaMin < seek_end
  /\ Sampling =>
       /\ i < NMax /\ n_dec <= kv_n_dec
       /\ 0 < NPrompt /\ NPrompt <= NTextCtx \div 2 + 4
       /\ \A j \in Live : Len(dec[j].tokens) = IF phase = "sample" THEN i ELSE i + 1

\* What the cache holds while the decoders are at work.
Held ==
  /\ InPlace(kv.cells, NPrompt, i, n_dec)
  /\ \A j \in Live : Owns(kv.cells, j, NPrompt, i, dec[j].tokens)

\* The inductive invariant.
IInv ==
  /\ TypeOK /\ DataInv /\ LoopInv
  /\ Sampling => Held
  /\ AlwaysASlot /\ PositionsFit

-----------------------------------------------------------------------------
(* The parameters.                                                         *)

\* The sizes of a model.
LEMMA Sizes ==
  /\ NTextCtx \in Nat /\ NTextCtx \div 2 \in Nat /\ NTextCtx \div 2 > 4
  /\ 2 * (NTextCtx \div 2) <= NTextCtx
  /\ NMax \in Nat /\ NMax > 0 /\ NMax = NTextCtx \div 2 - 4
  /\ Chunk \in Nat \ {0} /\ DeltaMin \in Nat /\ MaxTs \in Nat
  /\ Tokens \subseteq Int
  /\ \A n \in 1..WHISPER_MAX_DECODERS : CacheSize(n) \in Nat /\ NTextCtx <= CacheSize(n)
<1>1. NTextCtx \in Nat /\ NTextCtx > 9 /\ MaxTs \in Nat /\ MaxTs > 0 /\ DeltaMin \in Nat
      /\ TextTokens \subseteq Int
  BY DecoderAssumption
<1>2. NTextCtx \div 2 \in Nat /\ NTextCtx \div 2 > 4 /\ 2 * (NTextCtx \div 2) <= NTextCtx
  BY <1>1
<1>3. Chunk \in Nat \ {0} /\ Tokens \subseteq Int
  BY <1>1 DEF Chunk, Tokens, EOT
<1>4. ASSUME NEW n \in 1..WHISPER_MAX_DECODERS
      PROVE  CacheSize(n) \in Nat /\ NTextCtx <= CacheSize(n)
  <2>1. n \in {1, 2, 3, 4, 5, 6, 7, 8}
    BY DEF WHISPER_MAX_DECODERS
  <2> QED BY <1>1, <2>1 DEF CacheSize
<1>5. NMax \in Nat /\ NMax > 0 /\ NMax = NTextCtx \div 2 - 4
  BY <1>1, <1>2 DEF NMax
<1> QED BY <1>1, <1>2, <1>3, <1>4, <1>5

\* What follows of the parameters of a call.
LEMMA SettingsType ==
  ASSUME NEW s \in Settings
  PROVE  /\ s.strategy \in {"greedy", "beam"} /\ s.best_of \in Int /\ s.beam_size \in Int
         /\ s.n_max_text_ctx \in Int /\ s.initial_prompt \in Nat
         /\ s.offset \in Nat /\ s.duration \in Nat
         /\ s.abort_callback \in BOOLEAN /\ s.max_tokens \in Int
         /\ PromptInit(s) \in 1..4
         /\ MaxPromptCtx(s) \in Int /\ MaxPromptCtx(s) <= NTextCtx \div 2
         /\ MaxDecoders(s) \in Nat \ {0}
         /\ \A t \in Int : DecodersAt(s, t) \in 1..MaxDecoders(s)
<1>1. s \in [strategy : {"greedy", "beam"}, best_of : Int, beam_size : Int,
             temperature : Int, temperature_inc : Int,
             n_max_text_ctx : Int, initial_prompt : Nat, carry_initial_prompt : BOOLEAN,
             no_context : BOOLEAN, no_timestamps : BOOLEAN, single_segment : BOOLEAN,
             max_tokens : Int, offset : Nat, duration : Nat, multilingual : BOOLEAN,
             abort_callback : BOOLEAN]
  BY SettingsAssumption
<1>2. /\ s.strategy \in {"greedy", "beam"} /\ s.best_of \in Int /\ s.beam_size \in Int
      /\ s.n_max_text_ctx \in Int /\ s.initial_prompt \in Nat
      /\ s.offset \in Nat /\ s.duration \in Nat
      /\ s.abort_callback \in BOOLEAN /\ s.max_tokens \in Int
  BY <1>1
<1>3. PromptInit(s) \in 1..4
  BY DEF PromptInit
<1>4. MaxPromptCtx(s) \in Int /\ MaxPromptCtx(s) <= NTextCtx \div 2
  BY <1>2, Sizes DEF MaxPromptCtx, AtMost
<1>5. MaxDecoders(s) \in Nat \ {0}
  BY <1>2 DEF MaxDecoders, AtLeast
<1>6. \A t \in Int : DecodersAt(s, t) \in 1..MaxDecoders(s)
  BY <1>2 DEF MaxDecoders, DecodersAt, AtLeast
<1> QED BY <1>2, <1>3, <1>4, <1>5, <1>6

\* There is a temperature to try.
LEMMA TemperaturesType ==
  ASSUME NEW s \in Settings
  PROVE  /\ Len(Temperatures(s)) \in Nat /\ 1 <= Len(Temperatures(s))
         /\ \A k \in 1..Len(Temperatures(s)) : Temperatures(s)[k] \in Int
<1>1. s \in [strategy : {"greedy", "beam"}, best_of : Int, beam_size : Int,
             temperature : Int, temperature_inc : Int,
             n_max_text_ctx : Int, initial_prompt : Nat, carry_initial_prompt : BOOLEAN,
             no_context : BOOLEAN, no_timestamps : BOOLEAN, single_segment : BOOLEAN,
             max_tokens : Int, offset : Nat, duration : Nat, multilingual : BOOLEAN,
             abort_callback : BOOLEAN]
      /\ (s.temperature <= 10 \/ s.temperature_inc <= 0)
  BY SettingsAssumption
<1>2. s.temperature \in Int /\ s.temperature_inc \in Int
  BY <1>1
<1>3. CASE s.temperature_inc > 0
  <2> DEFINE n == (10 - s.temperature) \div s.temperature_inc + 1
  <2>1. \A a \in Nat, b \in Nat \ {0} : a \div b \in Nat
    OBVIOUS
  <2>2. 10 - s.temperature \in Nat /\ s.temperature_inc \in Nat \ {0}
    BY <1>1, <1>2, <1>3
  <2>3. n \in Nat /\ 1 <= n
    BY <2>1, <2>2
  <2> HIDE DEF n
  <2>4. Temperatures(s) = [k \in 1..n |-> s.temperature + (k - 1) * s.temperature_inc]
    BY <1>3 DEF Temperatures, n
  <2>5. \A k \in 1..n : s.temperature + (k - 1) * s.temperature_inc \in Int
    BY <1>2
  <2> QED BY <2>3, <2>4, <2>5
<1>4. CASE ~(s.temperature_inc > 0)
  <2>1. Temperatures(s) = <<s.temperature>>
    BY <1>4 DEF Temperatures
  <2> QED BY <1>2, <2>1
<1> QED BY <1>3, <1>4

-----------------------------------------------------------------------------
(* Between the windows.                                                    *)

\* Once the decoders are forgotten, little has to be shown.
LEMMA Forgets ==
  ASSUME Forget, phase' \in {"idle", "window"},
         p' \in Settings, calls' \in 0..MaxCalls, rc' \in {0, -4, -6, -8, -9},
         seek_end' \in Nat, seek' \in Nat,
         kv' \in CacheIn(Decoders), kv_n_dec' \in 1..WHISPER_MAX_DECODERS,
         kv'.size = CacheSize(kv_n_dec'),
         past0' \in Nat, past0' < NTextCtx \div 2, past1' \in Nat,
         phase' # "idle" => MaxDecoders(p') <= WHISPER_MAX_DECODERS,
         AlwaysASlot', PositionsFit'
  PROVE  IInv'
<1>1. /\ it' = 1 /\ n_dec' = 1 /\ dec' = [j \in {0} |-> NoDecoder]
      /\ best' = 0 /\ prompt' = NoPrompt /\ i' = 0
  BY DEF Forget
<1>2. NoDecoder \in Decoder /\ NoDecoder.result_len <= Len(NoDecoder.tokens)
  <2>1. <<>> \in Seq(Tokens) /\ Len(<<>>) = 0
    OBVIOUS
  <2>2. Chunk \in Nat \ {0}
    BY Sizes
  <2> HIDE DEF Chunk
  <2> QED BY <2>1, <2>2 DEF NoDecoder, Decoder
<1>3. NoPrompt \in [prev : 0..1, past : Nat, init : 0..4]
  BY DEF NoPrompt
<1>4. TypeOK'
  <2>1. 0..(n_dec' - 1) \subseteq DOMAIN dec' /\ best' \in DOMAIN dec'
    BY <1>1
  <2>2. i' \in 0..NMax /\ it' \in Nat /\ n_dec' \in 1..WHISPER_MAX_DECODERS
    BY <1>1, Sizes DEF WHISPER_MAX_DECODERS
  <2> QED BY <1>1, <1>3, <2>1, <2>2 DEF TypeOK
<1>5. DataInv'
  <2>1. DOMAIN dec' \subseteq Decoders /\ \A j \in DOMAIN dec' : dec'[j] = NoDecoder
    BY <1>1 DEF Decoders, WHISPER_MAX_DECODERS
  <2> QED BY <1>2, <2>1 DEF DataInv
<1>6. ~Sampling'
  BY DEF Sampling
<1>7. LoopInv'
  <2>1. it' \in 1..Len(Temperatures(p'))
    BY <1>1, TemperaturesType
  <2> QED BY <1>6, <2>1 DEF LoopInv
<1> QED BY <1>4, <1>5, <1>6, <1>7 DEF IInv

\* A new state has the invariant, and every action keeps it.
LEMMA InitOK ==
  ASSUME Init
  PROVE  IInv
<1>1. /\ p \in Settings /\ calls = 0 /\ rc = 0 /\ phase = "idle"
      /\ seek_end = 0 /\ seek = 0 /\ it = 1 /\ n_dec = 1
      /\ dec = [j \in {0} |-> NoDecoder] /\ best = 0
      /\ prompt = NoPrompt /\ i = 0
      /\ kv = whisper_kv_cache_init(NTextCtx) /\ kv_n_dec = 1
      /\ past0 = 0 /\ past1 = 0
  BY DEF Init
<1>2. NoDecoder \in Decoder /\ NoDecoder.result_len <= Len(NoDecoder.tokens)
  <2>1. <<>> \in Seq(Tokens) /\ Len(<<>>) = 0
    OBVIOUS
  <2>2. Chunk \in Nat \ {0}
    BY Sizes
  <2> HIDE DEF Chunk
  <2> QED BY <2>1, <2>2 DEF NoDecoder, Decoder
<1>3. NoPrompt \in [prev : 0..1, past : Nat, init : 0..4]
  BY DEF NoPrompt
<1>4. kv \in CacheIn(Decoders) /\ kv.size = CacheSize(kv_n_dec) /\ kv.cells = {}
  BY <1>1, Sizes DEF whisper_kv_cache_init, CacheIn, CacheSize
<1>5. TypeOK
  <2>1. 0..(n_dec - 1) \subseteq DOMAIN dec /\ best \in DOMAIN dec
    BY <1>1
  <2>2. i \in 0..NMax /\ it \in Nat /\ n_dec \in 1..WHISPER_MAX_DECODERS
        /\ kv_n_dec \in 1..WHISPER_MAX_DECODERS
    BY <1>1, Sizes DEF WHISPER_MAX_DECODERS
  <2>3. calls \in 0..MaxCalls
    BY <1>1, DecoderAssumption
  <2> QED BY <1>1, <1>3, <1>4, <2>1, <2>2, <2>3 DEF TypeOK
<1>6. DataInv
  <2>1. DOMAIN dec \subseteq Decoders /\ \A j \in DOMAIN dec : dec[j] = NoDecoder
    BY <1>1 DEF Decoders, WHISPER_MAX_DECODERS
  <2> QED BY <1>1, <1>2, <1>4, <2>1, Sizes DEF DataInv
<1>7. ~Sampling
  BY <1>1 DEF Sampling
<1>8. LoopInv
  <2>1. it \in 1..Len(Temperatures(p))
    BY <1>1, TemperaturesType
  <2> QED BY <1>1, <1>7, <2>1 DEF LoopInv
<1> QED BY <1>1, <1>4, <1>5, <1>6, <1>7, <1>8 DEF IInv, AlwaysASlot, PositionsFit

\* A call, refused or begun.
LEMMA CallOK ==
  ASSUME IInv, NEW s \in Settings, NEW n_len \in AudioLens, Call(s, n_len)
  PROVE  IInv'
<1> DEFINE end == IF s.duration = 0 THEN n_len ELSE s.offset + s.duration
           p0 == IF s.no_context THEN 0 ELSE past0
           p1 == IF s.no_context THEN 0 ELSE past1
           q0 == IF s.carry_initial_prompt /\ p0 = 0
                 THEN AtMost(s.initial_prompt, AtLeast(1, MaxPromptCtx(s) - 1)) ELSE p0
           q1 == IF s.carry_initial_prompt THEN p1 ELSE p1 + s.initial_prompt
<1>1. /\ calls \in 0..MaxCalls /\ seek_end \in Nat /\ seek \in Nat
      /\ past0 \in Nat /\ past1 \in Nat /\ past0 < NTextCtx \div 2
      /\ kv \in CacheIn(Decoders) /\ kv.size = CacheSize(kv_n_dec)
      /\ kv_n_dec \in 1..WHISPER_MAX_DECODERS /\ PositionsFit
  BY DEF IInv, TypeOK, DataInv
<1>2. s.offset \in Nat /\ s.duration \in Nat /\ s.initial_prompt \in Nat /\ n_len \in Nat
      /\ MaxPromptCtx(s) \in Int /\ MaxPromptCtx(s) <= NTextCtx \div 2
  BY SettingsType, DecoderAssumption
<1>3. end \in Nat
  BY <1>2
<1>4. q0 \in Nat /\ q0 < NTextCtx \div 2 /\ q1 \in Nat
  BY <1>1, <1>2, Sizes DEF AtMost, AtLeast
<1> HIDE DEF end, q0, q1
<1>5. /\ calls < MaxCalls /\ calls' = calls + 1 /\ p' = s /\ UNCHANGED cacheVars
      /\ \/ Return(0) /\ UNCHANGED <<seek_end, seek, past>>
         \/ Return(-4) /\ UNCHANGED <<seek_end, seek, past>>
         \/ /\ MaxDecoders(s) <= WHISPER_MAX_DECODERS
            /\ past0' = q0 /\ past1' = q1 /\ seek' = s.offset /\ seek_end' = end
            /\ phase' = "window" /\ rc' = 0 /\ Forget
  BY DEF Call, end, q0, q1
<1>6. calls' \in 0..MaxCalls /\ p' \in Settings /\ kv' = kv /\ kv_n_dec' = kv_n_dec
      /\ PositionsFit'
  BY <1>1, <1>5, DecoderAssumption DEF cacheVars, PositionsFit
<1>7. ASSUME NEW r \in {0, -4}, Return(r), UNCHANGED <<seek_end, seek, past>>
      PROVE  IInv'
  <2>1. Forget /\ phase' = "idle" /\ rc' = r
    BY <1>7 DEF Return
  <2>2. AlwaysASlot'
    BY <2>1 DEF AlwaysASlot
  <2>3. seek_end' = seek_end /\ seek' = seek /\ past0' = past0 /\ past1' = past1
    BY <1>7 DEF past
  <2> QED BY <1>1, <1>6, <2>1, <2>2, <2>3, Forgets
<1>8. CASE /\ MaxDecoders(s) <= WHISPER_MAX_DECODERS
           /\ past0' = q0 /\ past1' = q1 /\ seek' = s.offset /\ seek_end' = end
           /\ phase' = "window" /\ rc' = 0 /\ Forget
  <2>1. AlwaysASlot'
    BY <1>8 DEF AlwaysASlot
  <2> QED BY <1>1, <1>2, <1>3, <1>4, <1>5, <1>6, <1>8, <2>1, Forgets
<1> QED BY <1>5, <1>7, <1>8

\* A step after which the call is over or in its next window, the cache as it was.
LEMMA WindowEnds ==
  ASSUME IInv, Forget, UNCHANGED <<call, cacheVars>>, UNCHANGED past0,
         phase' = "idle" \/ (phase' = "window" /\ phase # "idle"),
         rc' \in {0, -6} \/ UNCHANGED rc, seek' \in Nat, past1' \in Nat
  PROVE  IInv'
<1>1. /\ p' = p /\ calls' = calls /\ seek_end' = seek_end /\ kv' = kv /\ kv_n_dec' = kv_n_dec
      /\ past0' = past0
  BY DEF call, cacheVars
<1>2. /\ p \in Settings /\ calls \in 0..MaxCalls /\ seek_end \in Nat
      /\ past0 \in Nat /\ past0 < NTextCtx \div 2 /\ rc \in {0, -4, -6, -8, -9}
      /\ kv \in CacheIn(Decoders) /\ kv.size = CacheSize(kv_n_dec)
      /\ kv_n_dec \in 1..WHISPER_MAX_DECODERS /\ PositionsFit /\ AlwaysASlot
      /\ (phase # "idle" => MaxDecoders(p) <= WHISPER_MAX_DECODERS)
  BY DEF IInv, TypeOK, DataInv, LoopInv
<1>3. AlwaysASlot' /\ PositionsFit'
  BY <1>1, <1>2 DEF AlwaysASlot, PositionsFit
<1>4. phase' \in {"idle", "window"} /\ rc' \in {0, -4, -6, -8, -9}
      /\ (phase' # "idle" => MaxDecoders(p') <= WHISPER_MAX_DECODERS)
  BY <1>1, <1>2
<1> QED BY <1>1, <1>2, <1>3, <1>4, Forgets

\* The audio is done.
LEMMA EndOfAudioOK ==
  ASSUME IInv, EndOfAudio
  PROVE  IInv'
<1>1. Forget /\ phase' = "idle" /\ rc' = 0 /\ UNCHANGED <<call, cacheVars>>
      /\ past0' = past0 /\ past1' = past1 /\ seek' = seek
  BY DEF EndOfAudio, Return, past
<1>2. seek \in Nat /\ past1 \in Nat
  BY DEF IInv, TypeOK
<1> QED BY <1>1, <1>2, WindowEnds

\* The callback stops the call.
LEMMA StopBeforeEncoderOK ==
  ASSUME IInv, StopBeforeEncoder
  PROVE  IInv'
<1>1. Forget /\ phase' = "idle" /\ rc' \in {0, -6} /\ UNCHANGED <<call, cacheVars>>
      /\ past0' = past0 /\ past1' = past1 /\ seek' = seek
  BY DEF StopBeforeEncoder, Return, past
<1>2. seek \in Nat /\ past1 \in Nat
  BY DEF IInv, TypeOK
<1> QED BY <1>1, <1>2, WindowEnds

\* The window is done.
LEMMA OutputOK ==
  ASSUME IInv, Output
  PROVE  IInv'
<1> DEFINE d == dec[best]
           kept == IF p.carry_initial_prompt THEN 0 ELSE prompt.past
<1>1. Forget /\ phase' = "window" /\ phase # "idle" /\ UNCHANGED <<call, rc, cacheVars, past0>>
  BY DEF Output
<1>2. /\ best \in DOMAIN dec /\ d \in Decoder /\ prompt.past \in Nat
      /\ seek \in Nat /\ seek_end \in Nat
  BY DEF IInv, TypeOK, DataInv
<1>3. seek + DeltaMin < seek_end
  BY DEF IInv, LoopInv, Output
<1>4. past1' \in Nat
  <2>1. PICK is_no_speech \in BOOLEAN :
          past1' = kept + (IF is_no_speech THEN 0 ELSE d.result_len)
    BY DEF Output
  <2>2. kept \in Nat /\ d.result_len \in Nat
    BY <1>2 DEF Decoder
  <2> QED BY <2>1, <2>2
<1>5. seek' \in Nat
  <2>1. PICK single \in BOOLEAN :
          seek' = seek + (IF single THEN AtMost(seek_end - seek, Chunk) ELSE d.seek_delta)
    BY DEF Output, SingleTimestampEnding
  <2>2. d.seek_delta \in Nat /\ AtMost(seek_end - seek, Chunk) \in Nat
    BY <1>2, <1>3, Sizes DEF Decoder, AtMost
  <2> QED BY <1>2, <2>1, <2>2
<1> QED BY <1>1, <1>4, <1>5, WindowEnds

-----------------------------------------------------------------------------
(* Between the attempts.                                                   *)

\* The next window.
LEMMA EncodeWindowOK ==
  ASSUME IInv, EncodeWindow
  PROVE  IInv'
<1>1. /\ phase = "window" /\ seek + DeltaMin < seek_end
      /\ best' = 0 /\ it' = 1 /\ phase' = "attempt"
      /\ p' = p /\ calls' = calls /\ seek_end' = seek_end /\ rc' = rc /\ seek' = seek
      /\ n_dec' = n_dec /\ dec' = dec /\ prompt' = prompt /\ i' = i
      /\ kv' = kv /\ kv_n_dec' = kv_n_dec
  BY DEF EncodeWindow, call, cacheVars
<1>2. (past0' = 0 \/ past0' = past0) /\ (past1' = 0 \/ past1' = past1)
  BY DEF EncodeWindow, past
<1>3. TypeOK /\ DataInv /\ AlwaysASlot /\ PositionsFit
      /\ (phase # "idle" => MaxDecoders(p) <= WHISPER_MAX_DECODERS)
  BY DEF IInv, LoopInv
<1>4. 0 \in DOMAIN dec
  <2>1. 0 \in 0..(n_dec - 1)
    BY <1>3 DEF TypeOK
  <2> QED BY <1>3, <2>1 DEF TypeOK
<1>5. TypeOK'
  BY <1>1, <1>2, <1>3, <1>4 DEF TypeOK
<1>6. DataInv'
  BY <1>1, <1>2, <1>3, Sizes DEF DataInv
<1>7. ~Sampling'
  BY <1>1 DEF Sampling
<1>8. LoopInv'
  <2>1. it' \in 1..Len(Temperatures(p'))
    BY <1>1, <1>3, TemperaturesType DEF TypeOK
  <2> QED BY <1>1, <1>3, <1>7, <2>1 DEF LoopInv
<1>9. AlwaysASlot' /\ PositionsFit'
  BY <1>1, <1>3 DEF AlwaysASlot, PositionsFit
<1> QED BY <1>5, <1>6, <1>7, <1>8, <1>9 DEF IInv

\* A decoder whose tokens are cut to its result.
LEMMA CutType ==
  ASSUME NEW d \in Decoder, NEW cut \in Seq(Tokens), Len(cut) = d.result_len, NEW b \in BOOLEAN
  PROVE  LET e == [d EXCEPT !.tokens = cut, !.failed = b]
         IN  e \in Decoder /\ e.result_len <= Len(e.tokens)
<1> DEFINE e == [d EXCEPT !.tokens = cut, !.failed = b]
<1>1. /\ e.tokens = cut /\ e.result_len = d.result_len /\ d.result_len \in Nat
      /\ e \in Decoder
  BY Zenon DEF Decoder
<1>2. e.result_len <= Len(e.tokens)
  <2> HIDE DEF e
  <2> QED BY <1>1
<1> QED BY <1>1, <1>2

\* Ranking cuts the tokens to the results, and starts the next attempt or the output.
LEMMA RankOK ==
  ASSUME IInv, Rank
  PROVE  IInv'
<1> DEFINE ranked(bad) ==
             [j \in DOMAIN dec |->
                IF j >= n_dec \/ dec[j].failed THEN dec[j]
                ELSE [dec[j] EXCEPT !.tokens = SubSeq(@, 1, dec[j].result_len),
                                    !.failed = j \in bad]]
           scored(bad) == {j \in 0..(n_dec - 1) :
                             ~ranked(bad)[j].failed /\ ranked(bad)[j].result_len > 0}
<1>1. TypeOK /\ DataInv /\ LoopInv /\ AlwaysASlot /\ PositionsFit
  BY DEF IInv
<1>2. /\ phase = "rank" /\ p' = p /\ calls' = calls /\ seek_end' = seek_end /\ rc' = rc
      /\ seek' = seek /\ n_dec' = n_dec /\ prompt' = prompt /\ i' = i
      /\ kv' = kv /\ kv_n_dec' = kv_n_dec /\ past0' = past0 /\ past1' = past1
  BY DEF Rank, call, cacheVars, past
<1>3. PICK bad : /\ dec' = ranked(bad)
                 /\ best' \in (IF scored(bad) = {} THEN {best} ELSE scored(bad))
  BY DEF Rank
<1>4. \/ phase' = "output" /\ it' = it
      \/ phase' = "attempt" /\ it < Len(Temperatures(p)) /\ it' = it + 1
  BY DEF Rank
<1>5. DOMAIN dec' = DOMAIN dec /\ best' \in DOMAIN dec
  <2>1. scored(bad) \subseteq 0..(n_dec - 1)
    OBVIOUS
  <2> HIDE DEF scored
  <2> QED BY <1>1, <1>3, <2>1 DEF TypeOK
<1>6. ASSUME NEW j \in DOMAIN dec
      PROVE  dec'[j] \in Decoder /\ dec'[j].result_len <= Len(dec'[j].tokens)
  <2>1. dec[j] \in Decoder /\ dec[j].result_len <= Len(dec[j].tokens)
    BY <1>1 DEF DataInv
  <2> DEFINE d == dec[j]
             cut == SubSeq(d.tokens, 1, d.result_len)
  <2>2. cut \in Seq(Tokens) /\ Len(cut) = d.result_len
    <3>1. d.tokens \in Seq(Tokens) /\ d.result_len \in Nat
      BY <2>1 DEF Decoder
    <3>2. CASE d.result_len = 0
      BY <3>1, <3>2
    <3>3. CASE d.result_len > 0
      BY <2>1, <3>1, <3>3
    <3> QED BY <3>1, <3>2, <3>3
  <2>3. \/ dec'[j] = d
        \/ dec'[j] = [d EXCEPT !.tokens = cut, !.failed = j \in bad]
    BY <1>3
  <2> HIDE DEF cut
  <2>4. (j \in bad) \in BOOLEAN
    OBVIOUS
  <2> QED BY <2>1, <2>2, <2>3, <2>4, CutType
<1>7. TypeOK'
  <2>1. it' \in Nat /\ phase' \in {"attempt", "output"}
    BY <1>1, <1>4 DEF TypeOK
  <2> QED BY <1>1, <1>2, <1>5, <2>1 DEF TypeOK
<1>8. DataInv'
  BY <1>1, <1>2, <1>5, <1>6 DEF DataInv
<1>9. ~Sampling'
  BY <1>4 DEF Sampling
<1>10. LoopInv'
  <2>1. it' \in 1..Len(Temperatures(p'))
    BY <1>1, <1>2, <1>4, TemperaturesType DEF LoopInv, TypeOK
  <2> QED BY <1>1, <1>2, <1>4, <1>9, <2>1 DEF LoopInv
<1>11. AlwaysASlot' /\ PositionsFit'
  BY <1>1, <1>2 DEF AlwaysASlot, PositionsFit
<1> QED BY <1>7, <1>8, <1>9, <1>10, <1>11 DEF IInv

-----------------------------------------------------------------------------
(* An attempt.                                                             *)

\* The prompt fits half of the context, whatever budget the caller asks for.
LEMMA BuildPromptType ==
  ASSUME IInv
  PROVE  /\ BuildPrompt \in [prev : 0..1, past : Nat, init : 0..4]
         /\ 0 < BuildPrompt.prev + BuildPrompt.past + BuildPrompt.init
         /\ BuildPrompt.prev + BuildPrompt.past + BuildPrompt.init <= NTextCtx \div 2 + 4
         /\ BuildPrompt.prev + BuildPrompt.past + BuildPrompt.init \in Nat
<1>1. /\ p \in Settings /\ past0 \in Nat /\ past1 \in Nat /\ past0 < NTextCtx \div 2
  BY DEF IInv, TypeOK, DataInv
<1>2. MaxPromptCtx(p) \in Int /\ MaxPromptCtx(p) <= NTextCtx \div 2 /\ PromptInit(p) \in 1..4
  BY <1>1, SettingsType
<1> DEFINE take0 == IF p.carry_initial_prompt THEN past0 ELSE 0
           more == AtLeast(0, AtMost(MaxPromptCtx(p) - take0 - 1, past1))
           uses == /\ p.n_max_text_ctx > 0 /\ Temp < 5
                   /\ MaxPromptCtx(p) > 0 /\ (take0 > 0 \/ past1 > 0)
<1>3. take0 \in Nat /\ take0 < NTextCtx \div 2 /\ NTextCtx \div 2 \in Nat
  BY <1>1, Sizes
<1>4. more \in Nat /\ 1 + (take0 + more) <= NTextCtx \div 2
  BY <1>1, <1>2, <1>3 DEF AtLeast, AtMost
<1> HIDE DEF take0, more, uses
<1>5. BuildPrompt = [prev |-> IF uses THEN 1 ELSE 0, past |-> IF uses THEN take0 + more ELSE 0,
                     init |-> PromptInit(p)]
  BY DEF BuildPrompt, take0, more, uses
<1>6. /\ BuildPrompt.prev = (IF uses THEN 1 ELSE 0)
      /\ BuildPrompt.past = (IF uses THEN take0 + more ELSE 0)
      /\ BuildPrompt.init = PromptInit(p)
  BY <1>5
<1>7. take0 + more \in Nat
  BY <1>3, <1>4
<1>8. BuildPrompt \in [prev : 0..1, past : Nat, init : 0..4]
  BY <1>2, <1>5, <1>7
<1> QED BY <1>2, <1>3, <1>4, <1>6, <1>7, <1>8

\* An attempt starts with a clean cache that has room for its prompt.
LEMMA AttemptOK ==
  ASSUME IInv, Attempt
  PROVE  IInv'
<1> DEFINE n == DecodersAt(p, Temp)
           pr == BuildPrompt
           n_pr == pr.prev + pr.past + pr.init
           clean == IF kv_n_dec < n THEN whisper_kv_cache_init(CacheSize(n))
                                    ELSE whisper_kv_cache_clear(kv)
           first == whisper_kv_cache_find_slot(clean, PromptBatch(n_pr))
           shared == Shared(first, n)
<1>1. TypeOK /\ DataInv /\ LoopInv /\ AlwaysASlot /\ PositionsFit
  BY DEF IInv
<1>2. /\ phase = "attempt" /\ p' = p /\ calls' = calls /\ seek_end' = seek_end /\ seek' = seek
      /\ past0' = past0 /\ past1' = past1 /\ kv_n_dec' = AtLeast(kv_n_dec, n)
      /\ \/ Decode(clean, PromptBatch(n_pr), -8)
         \/ /\ kv' = shared
            /\ n_dec' = n /\ prompt' = pr /\ i' = 0 /\ phase' = "sample"
            /\ dec' = [j \in (0..(n - 1)) \cup DOMAIN dec |-> IF j < n THEN NoDecoder ELSE dec[j]]
            /\ rc' = rc /\ it' = it /\ best' = best
  BY DEF Attempt, call, past
<1>3. /\ pr \in [prev : 0..1, past : Nat, init : 0..4]
      /\ 0 < n_pr /\ n_pr <= NTextCtx \div 2 + 4 /\ n_pr \in Nat
  BY BuildPromptType
<1>4. n \in 1..WHISPER_MAX_DECODERS
  <2>1. p \in Settings /\ it \in 1..Len(Temperatures(p)) /\ MaxDecoders(p) <= WHISPER_MAX_DECODERS
    BY <1>1, <1>2 DEF TypeOK, LoopInv
  <2>2. Temp \in Int
    BY <2>1, TemperaturesType DEF Temp
  <2>3. n \in 1..MaxDecoders(p) /\ MaxDecoders(p) \in Nat
    BY <2>1, <2>2, SettingsType
  <2> QED BY <2>1, <2>3 DEF WHISPER_MAX_DECODERS
<1> HIDE DEF n, pr, n_pr
<1>5. kv_n_dec' \in 1..WHISPER_MAX_DECODERS /\ n <= kv_n_dec'
  BY <1>1, <1>2, <1>4 DEF TypeOK, AtLeast, WHISPER_MAX_DECODERS
<1>6. /\ clean \in CacheIn(Decoders) /\ clean.cells = {} /\ clean.head = 0
      /\ clean.size = CacheSize(kv_n_dec')
  <2>1. CASE kv_n_dec < n
    <3>1. clean = whisper_kv_cache_init(CacheSize(n)) /\ kv_n_dec' = n
      BY <1>1, <1>2, <1>4, <2>1 DEF TypeOK, AtLeast
    <3>2. CacheSize(n) \in Nat
      BY <1>4, Sizes
    <3> QED BY <3>1, <3>2 DEF whisper_kv_cache_init, CacheIn
  <2>2. CASE ~(kv_n_dec < n)
    <3>1. clean = whisper_kv_cache_init(kv.size) /\ kv_n_dec' = kv_n_dec
      BY <1>1, <1>2, <1>4, <2>2 DEF TypeOK, AtLeast, whisper_kv_cache_clear
    <3>2. kv.size \in Nat /\ kv.size = CacheSize(kv_n_dec)
      BY <1>1 DEF DataInv, CacheIn, TypeOK
    <3> QED BY <3>1, <3>2 DEF whisper_kv_cache_init, CacheIn
  <2> QED BY <2>1, <2>2
<1>7. n_pr <= clean.size /\ n_pr <= NTextCtx
  BY <1>3, <1>5, <1>6, Sizes
<1> HIDE DEF clean
<1>8. /\ Len(PromptBatch(n_pr)) = n_pr /\ Decoded(clean, PromptBatch(n_pr))
      /\ first \in CacheIn(Decoders) /\ first.size = clean.size
      /\ \A c \in first.cells : c.pos < n_pr
      /\ shared \in CacheIn(Decoders) /\ shared.size = clean.size
      /\ \A c \in shared.cells : c.pos < n_pr
      /\ InPlace(shared.cells, n_pr, 0, n)
      /\ \A j \in 0..(n - 1) : Owns(shared.cells, j, n_pr, 0, <<>>)
  BY <1>3, <1>4, <1>6, <1>7, OwnsPrompt
<1> HIDE DEF first, shared
<1>9. CASE Decode(clean, PromptBatch(n_pr), -8)
  <2>1. kv' = first /\ p.abort_callback /\ Return(-8)
    BY <1>8, <1>9 DEF Decode, Decoded, first
  <2>2. Forget /\ phase' = "idle" /\ rc' = -8
    BY <2>1 DEF Return
  <2>3. AlwaysASlot'
    BY <1>2, <2>1 DEF AlwaysASlot
  <2>4. PositionsFit'
    <3>1. \A c \in first.cells : c.pos \in Nat
      BY <1>8 DEF CacheIn, CellsIn
    <3> QED BY <1>3, <1>7, <1>8, <2>1, <3>1, Sizes DEF PositionsFit
  <2>5. /\ p \in Settings /\ calls \in 0..MaxCalls /\ seek_end \in Nat /\ seek \in Nat
        /\ past0 \in Nat /\ past1 \in Nat /\ past0 < NTextCtx \div 2
    BY <1>1 DEF TypeOK, DataInv
  <2>6. kv' \in CacheIn(Decoders) /\ kv'.size = CacheSize(kv_n_dec')
    BY <1>6, <1>8, <2>1
  <2> QED BY <1>2, <1>5, <2>2, <2>3, <2>4, <2>5, <2>6, Forgets
<1>10. CASE /\ kv' = shared
            /\ n_dec' = n /\ prompt' = pr /\ i' = 0 /\ phase' = "sample"
            /\ dec' = [j \in (0..(n - 1)) \cup DOMAIN dec |-> IF j < n THEN NoDecoder ELSE dec[j]]
            /\ rc' = rc /\ it' = it /\ best' = best
  <2>1. NoDecoder \in Decoder /\ NoDecoder.result_len <= Len(NoDecoder.tokens)
        /\ NoDecoder.tokens = <<>>
    <3>1. <<>> \in Seq(Tokens) /\ Len(<<>>) = 0
      OBVIOUS
    <3>2. Chunk \in Nat \ {0}
      BY Sizes
    <3> HIDE DEF Chunk
    <3> QED BY <3>1, <3>2 DEF NoDecoder, Decoder
  <2>2. /\ DOMAIN dec' = 0..(n - 1) \cup DOMAIN dec
        /\ \A j \in DOMAIN dec' : dec'[j] = NoDecoder \/ (j \in DOMAIN dec /\ dec'[j] = dec[j])
        /\ \A j \in 0..(n - 1) : dec'[j] = NoDecoder
    BY <1>4, <1>10
  <2>3. TypeOK'
    <3>1. i' \in 0..NMax
      BY <1>10, Sizes
    <3>2. 0..(n_dec' - 1) \subseteq DOMAIN dec' /\ best' \in DOMAIN dec'
      BY <1>1, <1>10, <2>2 DEF TypeOK
    <3>3. kv'.size = CacheSize(kv_n_dec')
      BY <1>6, <1>8, <1>10
    <3> QED BY <1>1, <1>2, <1>3, <1>4, <1>5, <1>10, <3>1, <3>2, <3>3 DEF TypeOK
  <2>4. DataInv'
    <3>1. 0..(n - 1) \subseteq Decoders
      BY <1>4 DEF Decoders, WHISPER_MAX_DECODERS
    <3>2. DOMAIN dec' \subseteq Decoders
      BY <1>1, <2>2, <3>1 DEF DataInv
    <3>3. \A j \in DOMAIN dec' : dec'[j] \in Decoder /\ dec'[j].result_len <= Len(dec'[j].tokens)
      BY <1>1, <2>1, <2>2 DEF DataInv
    <3> QED BY <1>1, <1>2, <1>8, <1>10, <3>2, <3>3 DEF DataInv
  <2>5. NPrompt' = n_pr
    BY <1>10 DEF NPrompt, n_pr
  <2>6. Live' \subseteq 0..(n - 1)
    BY <1>10 DEF Live
  <2>7. LoopInv'
    <3>1. \A j \in Live' : Len(dec'[j].tokens) = 0
      BY <2>1, <2>2, <2>6
    <3> QED BY <1>1, <1>2, <1>3, <1>5, <1>10, <2>5, <3>1, Sizes DEF LoopInv, Sampling
  <2>8. Held'
    <3>1. \A j \in Live' : Owns(kv'.cells, j, NPrompt', i', dec'[j].tokens)
      BY <1>8, <1>10, <2>1, <2>2, <2>5, <2>6
    <3>2. InPlace(kv'.cells, NPrompt', i', n_dec')
      BY <1>8, <1>10, <2>5
    <3> QED BY <3>1, <3>2 DEF Held
  <2>9. AlwaysASlot'
    BY <1>1, <1>2, <1>10 DEF AlwaysASlot
  <2>10. PositionsFit'
    <3>1. \A c \in shared.cells : c.pos \in Nat
      BY <1>8 DEF CacheIn, CellsIn
    <3> QED BY <1>3, <1>7, <1>8, <1>10, <3>1, Sizes DEF PositionsFit
  <2> QED BY <2>3, <2>4, <2>7, <2>8, <2>9, <2>10 DEF IInv
<1> QED BY <1>2, <1>9, <1>10

-----------------------------------------------------------------------------
(* The tokens of an attempt.                                               *)

\* A decoder with one token more.
LEMMA SampledType ==
  ASSUME NEW d \in Decoder, d.result_len <= Len(d.tokens), NEW t \in Tokens
  PROVE  /\ Sampled(d, t) \in Decoder
         /\ Sampled(d, t).tokens = Append(d.tokens, t)
         /\ Len(Append(d.tokens, t)) = Len(d.tokens) + 1
         /\ Sampled(d, t).result_len <= Len(Sampled(d, t).tokens)
         /\ Sampled(d, t).failed = d.failed /\ Sampled(d, t).completed = d.completed
<1>1. d.tokens \in Seq(Tokens) /\ d.result_len \in Nat
  BY DEF Decoder
<1>2. Append(d.tokens, t) \in Seq(Tokens) /\ Len(Append(d.tokens, t)) = Len(d.tokens) + 1
      /\ Len(d.tokens) \in Nat
  BY <1>1
<1>3. /\ Sampled(d, t) \in Decoder
      /\ Sampled(d, t).tokens = Append(d.tokens, t)
      /\ Sampled(d, t).result_len = d.result_len
      /\ Sampled(d, t).failed = d.failed /\ Sampled(d, t).completed = d.completed
  BY <1>2 DEF Sampled, Decoder
<1> QED BY <1>1, <1>2, <1>3

\* What sampling does to the decoders, whoever's sequences they go on with.
LEMMA SamplingOK ==
  ASSUME IInv, phase = "sample", phase' = "update",
         UNCHANGED <<call, rc, seek, it, n_dec, best, prompt, i, kv_n_dec, past>>,
         NEW src \in [Live -> Live], NEW t \in [Live -> Tokens],
         dec' = [j \in DOMAIN dec |-> IF j \in Live THEN Sampled(dec[src[j]], t[j]) ELSE dec[j]],
         kv' \in CacheIn(Decoders), kv'.size = kv.size,
         \A x \in kv'.cells : \E c \in kv.cells : x.pos = c.pos,
         InPlace(kv'.cells, NPrompt, i, n_dec),
         \A j \in Live : Owns(kv'.cells, j, NPrompt, i, dec[src[j]].tokens)
  PROVE  IInv'
<1>1. TypeOK /\ DataInv /\ LoopInv /\ AlwaysASlot /\ PositionsFit
  BY DEF IInv
<1>2. /\ p' = p /\ calls' = calls /\ seek_end' = seek_end /\ rc' = rc
      /\ seek' = seek /\ it' = it /\ n_dec' = n_dec /\ best' = best /\ prompt' = prompt /\ i' = i
      /\ kv_n_dec' = kv_n_dec /\ past0' = past0 /\ past1' = past1
  BY DEF call, past
<1>3. Live \subseteq DOMAIN dec
  BY <1>1 DEF TypeOK, Live
<1>4. \A j \in DOMAIN dec : dec[j] \in Decoder /\ dec[j].result_len <= Len(dec[j].tokens)
  BY <1>1 DEF DataInv
<1>5. ASSUME NEW j \in Live
      PROVE  /\ dec'[j] \in Decoder /\ dec'[j].tokens = Append(dec[src[j]].tokens, t[j])
             /\ dec'[j].result_len <= Len(dec'[j].tokens)
             /\ Len(dec'[j].tokens) = i + 1
             /\ ~dec'[j].failed /\ ~dec'[j].completed
  <2>1. src[j] \in Live /\ t[j] \in Tokens
    OBVIOUS
  <2>2. dec'[j] = Sampled(dec[src[j]], t[j])
    BY <1>3
  <2>3. Len(dec[src[j]].tokens) = i
    BY <1>1, <2>1 DEF LoopInv, Sampling
  <2>4. ~dec[src[j]].failed /\ ~dec[src[j]].completed
    BY <2>1 DEF Live
  <2>5. dec[src[j]] \in Decoder /\ dec[src[j]].result_len <= Len(dec[src[j]].tokens)
    BY <1>3, <1>4, <2>1
  <2>6. PICK d : d = dec[src[j]]
    OBVIOUS
  <2>7. /\ Sampled(d, t[j]) \in Decoder
        /\ Sampled(d, t[j]).tokens = Append(d.tokens, t[j])
        /\ Len(Append(d.tokens, t[j])) = Len(d.tokens) + 1
        /\ Sampled(d, t[j]).result_len <= Len(Sampled(d, t[j]).tokens)
        /\ Sampled(d, t[j]).failed = d.failed /\ Sampled(d, t[j]).completed = d.completed
    <3>1. d \in Decoder /\ d.result_len <= Len(d.tokens)
      BY <2>5, <2>6
    <3> QED BY <2>1, <3>1, SampledType
  <2>8. dec'[j] = Sampled(d, t[j])
    BY <2>2, <2>6
  <2> QED BY <2>3, <2>4, <2>6, <2>7, <2>8
<1>6. /\ DOMAIN dec' = DOMAIN dec
      /\ \A j \in DOMAIN dec : j \notin Live => dec'[j] = dec[j]
  OBVIOUS
<1>7. Live' = Live
  <2>1. \A j \in 0..(n_dec - 1) : j \in DOMAIN dec
    BY <1>1 DEF TypeOK
  <2>2. \A j \in 0..(n_dec - 1) :
          (~dec'[j].failed /\ ~dec'[j].completed) <=> (~dec[j].failed /\ ~dec[j].completed)
    BY <1>5, <1>6, <2>1 DEF Live
  <2>3. Live' = {j \in 0..(n_dec - 1) : ~dec'[j].failed /\ ~dec'[j].completed}
    BY <1>2 DEF Live
  <2> QED BY <2>2, <2>3 DEF Live
<1>8. TypeOK'
  BY <1>1, <1>2, <1>6 DEF TypeOK
<1>9. DataInv'
  BY <1>1, <1>2, <1>4, <1>5, <1>6 DEF DataInv
<1>10. NPrompt' = NPrompt
  BY <1>2 DEF NPrompt
<1>11. LoopInv'
  <2>1. Sampling
    BY DEF Sampling
  <2>2. \A j \in Live' : Len(dec'[j].tokens) = i' + 1
    BY <1>2, <1>5, <1>7
  <2> QED BY <1>1, <1>2, <1>10, <2>1, <2>2 DEF LoopInv
<1>12. Held'
  <2>1. ASSUME NEW j \in Live
        PROVE  Owns(kv'.cells, j, NPrompt, i, dec'[j].tokens)
    <3>1. src[j] \in Live /\ dec[src[j]].tokens \in Seq(Tokens)
      BY <1>3, <1>4 DEF Decoder
    <3>2. Len(dec[src[j]].tokens) = i /\ i \in Nat
      BY <1>1, <3>1, Sizes DEF LoopInv, Sampling, TypeOK
    <3>3. NPrompt \in Nat
      BY <1>1 DEF TypeOK, NPrompt
    <3>4. PICK s : s = dec[src[j]].tokens
      OBVIOUS
    <3>5. s \in Seq(Tokens) /\ Len(s) = i /\ i \in Nat /\ Owns(kv'.cells, j, NPrompt, i, s)
      BY <3>1, <3>2, <3>4
    <3>6. Owns(kv'.cells, j, NPrompt, i, Append(s, t[j]))
      BY <3>3, <3>5, OwnsAppended
    <3> QED BY <1>5, <3>4, <3>6
  <2> QED BY <1>2, <1>7, <1>10, <2>1 DEF Held
<1>13. AlwaysASlot' /\ PositionsFit'
  BY <1>1, <1>2 DEF AlwaysASlot, PositionsFit
<1> QED BY <1>8, <1>9, <1>11, <1>12, <1>13 DEF IInv

\* Greedily, every decoder goes on with its own sequence.
LEMMA SampleGreedyOK ==
  ASSUME IInv, SampleGreedy
  PROVE  IInv'
<1>1. phase = "sample" /\ phase' = "update"
      /\ UNCHANGED <<call, rc, seek, it, n_dec, best, prompt, i, kv_n_dec, past>> /\ kv' = kv
  BY DEF SampleGreedy, cacheVars
<1>2. PICK t \in [Live -> Tokens] :
        dec' = [j \in DOMAIN dec |-> IF j \in Live THEN Sampled(dec[j], t[j]) ELSE dec[j]]
  BY DEF SampleGreedy
<1>3. PICK src : src \in [Live -> Live] /\ \A j \in Live : src[j] = j
  <2>1. [j \in Live |-> j] \in [Live -> Live] /\ \A j \in Live : [k \in Live |-> k][j] = j
    OBVIOUS
  <2> QED BY <2>1
<1>4. dec' = [j \in DOMAIN dec |-> IF j \in Live THEN Sampled(dec[src[j]], t[j]) ELSE dec[j]]
  BY <1>2, <1>3
<1>5. /\ kv \in CacheIn(Decoders) /\ Held
  BY <1>1 DEF IInv, DataInv, Sampling
<1>6. /\ InPlace(kv'.cells, NPrompt, i, n_dec)
      /\ \A j \in Live : Owns(kv'.cells, j, NPrompt, i, dec[src[j]].tokens)
  BY <1>1, <1>3, <1>5 DEF Held
<1>7. /\ kv' \in CacheIn(Decoders) /\ kv'.size = kv.size
      /\ \A x \in kv'.cells : \E c \in kv.cells : x.pos = c.pos
  BY <1>1, <1>5
<1> QED BY <1>1, <1>3, <1>4, <1>6, <1>7, SamplingOK

\* Beams go on with any candidate, and the cache follows.
LEMMA SampleBeamOK ==
  ASSUME IInv, SampleBeam
  PROVE  IInv'
<1>1. phase = "sample" /\ phase' = "update"
      /\ UNCHANGED <<call, rc, seek, it, n_dec, best, prompt, i, kv_n_dec, past>>
  BY DEF SampleBeam
<1> DEFINE Goes(n, c) ==
             LET mine == [j \in Live |-> c[((Place(j) - 1) % n) + 1]]
             IN  /\ dec' = [j \in DOMAIN dec |->
                              IF j \in Live THEN Sampled(dec[mine[j].src], mine[j].token)
                              ELSE dec[j]]
                 /\ kv' = TakeOver(kv, [j \in Live |-> mine[j].src])
<1>0. \E n \in 1..Cardinality(Live) : \E c \in [1..n -> [src : Live, token : Tokens]] : Goes(n, c)
  BY DEF SampleBeam
<1> HIDE DEF Goes
<1>00. PICK n \in 1..Cardinality(Live) : \E c \in [1..n -> [src : Live, token : Tokens]] : Goes(n, c)
  BY <1>0
<1>2. PICK c \in [1..n -> [src : Live, token : Tokens]] : Goes(n, c)
  BY <1>00
<1>3. /\ Live \in SUBSET Decoders /\ Cardinality(Live) \in Nat
      /\ \A j \in Live : Place(j) \in 1..Cardinality(Live)
  BY Places DEF IInv, TypeOK
<1>4. \A j \in Live : ((Place(j) - 1) % n) + 1 \in 1..n
  <2>1. \A a \in Nat, b \in Nat \ {0} : a % b \in 0..(b - 1)
    OBVIOUS
  <2>2. n \in Nat \ {0} /\ \A j \in Live : Place(j) - 1 \in Nat
    BY <1>3
  <2> TAKE j \in Live
  <2>3. (Place(j) - 1) % n \in 0..(n - 1)
    BY <2>1, <2>2
  <2>4. \A r \in 0..(n - 1) : r + 1 \in 1..n
    BY <2>2
  <2> QED BY <2>3, <2>4
<1> DEFINE mine == [j \in Live |-> c[((Place(j) - 1) % n) + 1]]
<1>5. \A j \in Live : mine[j].src \in Live /\ mine[j].token \in Tokens
  <2>1. \A r \in 1..n : c[r].src \in Live /\ c[r].token \in Tokens
    OBVIOUS
  <2> QED BY <1>4, <2>1
<1>6. PICK src : src = [j \in Live |-> mine[j].src]
  OBVIOUS
<1>7. PICK t : t = [j \in Live |-> mine[j].token]
  OBVIOUS
<1> HIDE DEF mine
<1>8. src \in [Live -> Live] /\ t \in [Live -> Tokens]
  BY <1>5, <1>6, <1>7
<1>9. dec' = [j \in DOMAIN dec |-> IF j \in Live THEN Sampled(dec[src[j]], t[j]) ELSE dec[j]]
  <2>1. dec' = [j \in DOMAIN dec |->
                  IF j \in Live THEN Sampled(dec[mine[j].src], mine[j].token) ELSE dec[j]]
    BY <1>2 DEF mine, Goes
  <2> QED BY <1>6, <1>7, <2>1
<1>10. kv' = TakeOver(kv, src)
  BY <1>2, <1>6 DEF mine, Goes
<1>11. /\ kv \in CacheIn(Decoders) /\ Held /\ NPrompt \in Nat /\ i \in Nat
  BY <1>1, Sizes DEF IInv, DataInv, Sampling, TypeOK, NPrompt
<1>12. src \in [Live -> Decoders]
  BY <1>3, <1>8
<1>13. /\ kv'.head \in Nat
       /\ kv' = [head |-> kv'.head, size |-> kv.size,
                 cells |-> Image(kv.cells, TakenBy(Live, src))]
  BY <1>3, <1>10, <1>11, <1>12, TakesOver
<1>14. kv.cells \in SUBSET CellsIn(Decoders) /\ kv.size \in Nat
  BY <1>11 DEF CacheIn
<1>15. kv'.cells = Image(kv.cells, TakenBy(Live, src)) /\ kv'.size = kv.size
  BY <1>13
<1>16. /\ kv'.cells \in SUBSET CellsIn(Decoders)
       /\ \A x \in kv'.cells : \E d \in kv.cells : x.pos = d.pos
       /\ \A j \in Live : \A tokens :
            Owns(kv.cells, src[j], NPrompt, i, tokens) => Owns(kv'.cells, j, NPrompt, i, tokens)
       /\ \A m : InPlace(kv.cells, NPrompt, i, m) => InPlace(kv'.cells, NPrompt, i, m)
  <2>1. PICK cells : cells = kv.cells
    OBVIOUS
  <2>2. PICK next : next = kv'.cells
    OBVIOUS
  <2>3. cells \in SUBSET CellsIn(Decoders) /\ next = Image(cells, TakenBy(Live, src))
    BY <1>14, <1>15, <2>1, <2>2
  <2>4. PICK js : js = Live
    OBVIOUS
  <2>5. js \in SUBSET Decoders /\ src \in [js -> Decoders] /\ next = Image(cells, TakenBy(js, src))
    BY <1>3, <1>12, <2>3, <2>4
  <2>6. /\ next \in SUBSET CellsIn(Decoders)
        /\ \A x \in next : \E d \in cells : x.pos = d.pos
        /\ \A j \in js : \A tokens :
             Owns(cells, src[j], NPrompt, i, tokens) => Owns(next, j, NPrompt, i, tokens)
        /\ \A m : InPlace(cells, NPrompt, i, m) => InPlace(next, NPrompt, i, m)
    BY <1>11, <2>3, <2>5, OwnsTaken
  <2> QED BY <2>1, <2>2, <2>4, <2>6
<1>17. kv' \in CacheIn(Decoders)
  BY <1>13, <1>14, <1>15, <1>16 DEF CacheIn
<1>18. /\ InPlace(kv'.cells, NPrompt, i, n_dec)
       /\ \A j \in Live : Owns(kv'.cells, j, NPrompt, i, dec[src[j]].tokens)
  BY <1>8, <1>11, <1>16 DEF Held
<1> QED BY <1>1, <1>8, <1>9, <1>15, <1>16, <1>17, <1>18, SamplingOK

\* A decoder that fails keeps its tokens.
LEMMA FailedType ==
  ASSUME NEW d \in Decoder
  PROVE  /\ Failed(d) \in Decoder /\ Failed(d).tokens = d.tokens
         /\ Failed(d).result_len = d.result_len /\ Failed(d).failed
BY DEF Failed, Decoder

\* A token that has been sampled changes its decoder, but not its tokens, and the
\* result is never longer than those.
LEMMA UpdatedType ==
  ASSUME IInv, NEW d \in Decoder, d.result_len <= Len(d.tokens), Len(d.tokens) = i + 1
  PROVE  /\ Updated(d) \in Decoder /\ Updated(d).tokens = d.tokens
         /\ Updated(d).result_len <= Len(d.tokens)
<1> DEFINE Good(e) == e \in Decoder /\ e.tokens = d.tokens /\ e.result_len <= Len(d.tokens)
<1>1. i \in Nat /\ d.tokens \in Seq(Tokens) /\ d.result_len \in Nat
  BY Sizes DEF IInv, TypeOK, Decoder
<1>2. Good(d)
  OBVIOUS
<1>3. \A e : Good(e) => Good(Failed(e))
  BY FailedType
<1>4. ASSUME NEW e, Good(e) PROVE Good(Stamped(e))
  <2> DEFINE t == e.tokens[Len(e.tokens)]
  <2>1. t \in Int
    <3>1. Len(d.tokens) \in 1..Len(d.tokens)
      BY <1>1
    <3>2. d.tokens[Len(d.tokens)] \in Tokens
      BY <1>1, <3>1
    <3> QED BY <1>4, <3>2, Sizes
  <2> HIDE DEF t
  <2>2. Stamped(e) = IF t <= 0 THEN e
                     ELSE IF e.has_ts /\ e.seek_delta > 2 * t /\ e.result_len < i THEN Failed(e)
                     ELSE [e EXCEPT !.seek_delta = 2 * t, !.result_len = i + 1, !.has_ts = TRUE]
    BY DEF Stamped, t
  <2>3. ASSUME t > 0
        PROVE  Good([e EXCEPT !.seek_delta = 2 * t, !.result_len = i + 1, !.has_ts = TRUE])
    <3>1. PICK u \in Nat \ {0} : u = 2 * t
      BY <2>1, <2>3
    <3>2. i + 1 \in Nat /\ i + 1 <= Len(d.tokens)
      BY <1>1
    <3>3. PICK r \in Nat : r = i + 1
      BY <3>2
    <3>4. [e EXCEPT !.seek_delta = u, !.result_len = r, !.has_ts = TRUE] \in Decoder
          /\ [e EXCEPT !.seek_delta = u, !.result_len = r, !.has_ts = TRUE].tokens = e.tokens
          /\ [e EXCEPT !.seek_delta = u, !.result_len = r, !.has_ts = TRUE].result_len = r
      BY <1>4 DEF Decoder
    <3> QED BY <1>4, <3>1, <3>2, <3>3, <3>4
  <2> HIDE DEF Good
  <2> QED BY <1>3, <1>4, <2>1, <2>2, <2>3
<1>5. ASSUME NEW e, Good(e) PROVE Good(Completed(e))
  <2>1. PICK r \in Nat : r = i + 1 /\ r <= Len(d.tokens)
    BY <1>1
  <2>2. PICK c \in Nat \ {0} : c = Chunk
    BY Sizes
  <2>3. Good([e EXCEPT !.completed = TRUE, !.result_len = r, !.seek_delta = c])
    BY <1>5, <2>1 DEF Decoder
  <2>4. Good([e EXCEPT !.completed = TRUE, !.result_len = r])
    BY <1>5, <2>1 DEF Decoder
  <2>5. Good([e EXCEPT !.completed = TRUE, !.result_len = e.result_len])
    BY <1>5 DEF Decoder
  <2>6. \/ Completed(e) = Failed(e)
        \/ Completed(e) = [e EXCEPT !.completed = TRUE, !.result_len = r, !.seek_delta = c]
        \/ Completed(e) = [e EXCEPT !.completed = TRUE, !.result_len = r]
        \/ Completed(e) = [e EXCEPT !.completed = TRUE, !.result_len = e.result_len]
    BY <2>1, <2>2 DEF Completed
  <2> HIDE DEF Good
  <2> QED BY <1>3, <1>5, <2>3, <2>4, <2>5, <2>6
<1> HIDE DEF Good
<1>6. \/ Updated(d) = Stamped(d) \/ Updated(d) = Completed(Stamped(d))
      \/ Updated(d) = Failed(Stamped(d))
  BY DEF Updated
<1>7. Good(Updated(d))
  BY <1>2, <1>3, <1>4, <1>5, <1>6
<1> QED BY <1>7 DEF Good

\* Decoders may end, the cache is not touched.
LEMMA UpdateOK ==
  ASSUME IInv, Update
  PROVE  IInv'
<1>1. TypeOK /\ DataInv /\ LoopInv /\ AlwaysASlot /\ PositionsFit
  BY DEF IInv
<1>2. /\ phase = "update" /\ phase' \in {"rank", "decode"}
      /\ p' = p /\ calls' = calls /\ seek_end' = seek_end /\ rc' = rc
      /\ seek' = seek /\ it' = it /\ n_dec' = n_dec /\ best' = best /\ prompt' = prompt /\ i' = i
      /\ kv' = kv /\ kv_n_dec' = kv_n_dec /\ past0' = past0 /\ past1' = past1
  BY DEF Update, call, cacheVars, past
<1>3. dec' = [j \in DOMAIN dec |-> IF j \in Live THEN Updated(dec[j]) ELSE dec[j]]
  BY DEF Update
<1>4. Live \subseteq DOMAIN dec
  BY <1>1 DEF TypeOK, Live
<1>5. \A j \in DOMAIN dec : dec[j] \in Decoder /\ dec[j].result_len <= Len(dec[j].tokens)
  BY <1>1 DEF DataInv
<1>6. \A j \in Live : Len(dec[j].tokens) = i + 1
  BY <1>1, <1>2 DEF LoopInv, Sampling
<1>7. ASSUME NEW j \in DOMAIN dec
      PROVE  /\ dec'[j] \in Decoder /\ dec'[j].tokens = dec[j].tokens
             /\ dec'[j].result_len <= Len(dec'[j].tokens)
  <2>1. CASE j \in Live
    <3>1. /\ Updated(dec[j]) \in Decoder /\ Updated(dec[j]).tokens = dec[j].tokens
          /\ Updated(dec[j]).result_len <= Len(dec[j].tokens)
      BY <1>5, <1>6, <2>1, UpdatedType
    <3> QED BY <1>3, <2>1, <3>1
  <2>2. CASE j \notin Live
    BY <1>3, <1>5, <2>2
  <2> QED BY <2>1, <2>2
<1>8. DOMAIN dec' = DOMAIN dec /\ \A j \in DOMAIN dec : j \notin Live => dec'[j] = dec[j]
  BY <1>3
<1>9. Live' \subseteq Live
  <2>1. \A j \in 0..(n_dec - 1) : j \in DOMAIN dec
    BY <1>1 DEF TypeOK
  <2>2. Live' = {j \in 0..(n_dec - 1) : ~dec'[j].failed /\ ~dec'[j].completed}
    BY <1>2 DEF Live
  <2> QED BY <1>8, <2>1, <2>2 DEF Live
<1>10. TypeOK'
  BY <1>1, <1>2, <1>8 DEF TypeOK
<1>11. DataInv'
  BY <1>1, <1>2, <1>7, <1>8 DEF DataInv
<1>12. NPrompt' = NPrompt
  BY <1>2 DEF NPrompt
<1>13. LoopInv'
  <2>1. Sampling /\ phase' # "sample"
    BY <1>2 DEF Sampling
  <2>2. \A j \in Live' : Len(dec'[j].tokens) = i' + 1
    BY <1>2, <1>4, <1>6, <1>7, <1>9
  <2> QED BY <1>1, <1>2, <1>12, <2>1, <2>2 DEF LoopInv
<1>14. Held'
  <2>1. Held
    BY <1>2 DEF IInv, Sampling
  <2> QED BY <1>2, <1>4, <1>7, <1>9, <1>12, <2>1 DEF Held
<1>15. AlwaysASlot' /\ PositionsFit'
  BY <1>1, <1>2 DEF AlwaysASlot, PositionsFit
<1> QED BY <1>10, <1>11, <1>13, <1>14, <1>15 DEF IInv

\* The next tokens find a slot (Room), and their cells are those of the decoders.
LEMMA DecodeNextOK ==
  ASSUME IInv, DecodeNext
  PROVE  IInv'
<1>1. TypeOK /\ DataInv /\ LoopInv /\ AlwaysASlot /\ PositionsFit
  BY DEF IInv
<1>2. /\ phase = "decode" /\ p' = p /\ calls' = calls /\ seek_end' = seek_end /\ seek' = seek
      /\ kv_n_dec' = kv_n_dec /\ past0' = past0 /\ past1' = past1
      /\ \/ Decode(kv, NextBatch, -9)
         \/ /\ kv' = whisper_kv_cache_find_slot(kv, NextBatch)
            /\ i' = i + 1
            /\ phase' = (IF i + 1 < NMax THEN "sample" ELSE "rank")
            /\ rc' = rc /\ it' = it /\ n_dec' = n_dec /\ dec' = dec /\ best' = best
            /\ prompt' = prompt
  BY DEF DecodeNext, call, past
<1>3. Sampling /\ Held
  BY <1>2 DEF IInv, Sampling
<1>4. /\ n_dec \in 1..WHISPER_MAX_DECODERS /\ kv_n_dec \in n_dec..WHISPER_MAX_DECODERS
      /\ NPrompt \in Nat /\ NPrompt > 0 /\ NPrompt <= NTextCtx \div 2 + 4
      /\ i \in Nat /\ i < NMax /\ kv \in CacheIn(Decoders) /\ kv.size = CacheSize(kv_n_dec)
  <2>1. /\ n_dec \in 1..WHISPER_MAX_DECODERS /\ kv_n_dec \in 1..WHISPER_MAX_DECODERS
        /\ NPrompt \in Nat /\ i \in Nat /\ kv.size = CacheSize(kv_n_dec)
    BY <1>1 DEF TypeOK, NPrompt
  <2>2. /\ i < NMax /\ n_dec <= kv_n_dec
        /\ 0 < NPrompt /\ NPrompt <= NTextCtx \div 2 + 4
    BY <1>1, <1>3 DEF LoopInv
  <2>3. kv \in CacheIn(Decoders)
    BY <1>1 DEF DataInv
  <2>4. kv_n_dec \in n_dec..WHISPER_MAX_DECODERS
    BY <2>1, <2>2 DEF WHISPER_MAX_DECODERS
  <2> QED BY <2>1, <2>2, <2>3, <2>4
<1>5. /\ Live \subseteq Decoders /\ Live \subseteq 0..(n_dec - 1)
      /\ Cardinality(Live) \in 0..n_dec
      /\ Len(LiveSeq) = Cardinality(Live) /\ DOMAIN LiveSeq = 1..Cardinality(Live)
      /\ \A r \in DOMAIN LiveSeq : LiveSeq[r] \in Live
      /\ \A j \in Live : \E r \in DOMAIN LiveSeq : LiveSeq[r] = j
      /\ \A r, q \in DOMAIN LiveSeq : LiveSeq[r] = LiveSeq[q] => r = q
  BY <1>4, Places
<1>6. PICK batch : batch = NextBatch
  OBVIOUS
<1>7. /\ DOMAIN batch = 1..Cardinality(Live) /\ Len(batch) = Cardinality(Live)
      /\ \A k \in DOMAIN batch : /\ batch[k].pos = NPrompt + i /\ batch[k].seq = LiveSeq[k]
                                 /\ batch[k].kv = dec[LiveSeq[k]].tokens
  BY <1>5, <1>6 DEF NextBatch
<1>8. Slots(kv, Len(batch)) # {}
  BY <1>3, <1>4, <1>5, <1>7, Room DEF Held
<1>9. \A j \in Live : j \in DOMAIN dec /\ dec[j].tokens \in Seq(Tokens) /\ Len(dec[j].tokens) = i + 1
  BY <1>1, <1>2, <1>3, <1>5 DEF TypeOK, DataInv, LoopInv, Decoder
<1>10. \A k \in DOMAIN batch : /\ batch[k].pos \in Nat /\ batch[k].seq \in Decoders
                               /\ batch[k].kv \in Seq(Tokens)
  BY <1>4, <1>5, <1>7, <1>9
<1>11. PICK h \in Nat : h = SlotFor(kv, Len(batch))
  <2>1. SlotFor(kv, Len(batch)) \in Nat
    BY <1>4, <1>5, <1>7, <1>8, SlotForIsSlot DEF CacheIn
  <2> QED BY <2>1
<1> DEFINE cell(k) == [at |-> h + k - 1, pos |-> batch[k].pos, seq_id |-> {batch[k].seq},
                       kv |-> batch[k].kv]
           new == {cell(k) : k \in DOMAIN batch}
           next == whisper_kv_cache_find_slot(kv, batch)
<1>12. /\ next \in CacheIn(Decoders) /\ next.size = kv.size
       /\ next.cells = kv.cells \cup new
  <2>1. Len(batch) \in Nat /\ DOMAIN batch = 1..Len(batch)
    BY <1>5, <1>7
  <2> DEFINE put(k) == [at |-> SlotFor(kv, Len(batch)) + k - 1, pos |-> batch[k].pos,
                        seq_id |-> {batch[k].seq}, kv |-> batch[k].kv]
  <2>2. /\ next \in CacheIn(Decoders) /\ next.size = kv.size
        /\ next.cells = kv.cells \cup {put(k) : k \in DOMAIN batch}
    BY <1>4, <1>8, <1>10, <2>1, FindSlotType
  <2>3. \A k \in DOMAIN batch : put(k) = cell(k)
    BY <1>11
  <2> HIDE DEF put, cell, next
  <2> QED BY <2>2, <2>3
<1> HIDE DEF next
<1>13. \A k \in DOMAIN batch :
         /\ cell(k).at \in h..(h + n_dec - 1) /\ cell(k).pos = NPrompt + i
         /\ cell(k).seq_id = {LiveSeq[k]} /\ cell(k).kv = dec[LiveSeq[k]].tokens
  BY <1>4, <1>5, <1>7
<1> HIDE DEF cell
<1>14. \A c \in next.cells : c.pos < NTextCtx
  <2>1. NPrompt + i < NTextCtx
    BY <1>4, Sizes
  <2>2. \A c \in new : c.pos = NPrompt + i
    BY <1>13
  <2> HIDE DEF new
  <2> QED BY <1>1, <1>12, <2>1, <2>2 DEF PositionsFit
<1>15. CASE Decode(kv, NextBatch, -9)
  <2>1. kv' = next /\ p.abort_callback /\ Return(-9)
    BY <1>6, <1>8, <1>15 DEF Decode, next
  <2>2. Forget /\ phase' = "idle" /\ rc' = -9
    BY <2>1 DEF Return
  <2>3. AlwaysASlot' /\ PositionsFit'
    BY <1>2, <1>14, <2>1 DEF AlwaysASlot, PositionsFit
  <2>4. /\ p \in Settings /\ calls \in 0..MaxCalls /\ seek_end \in Nat /\ seek \in Nat
        /\ past0 \in Nat /\ past1 \in Nat /\ past0 < NTextCtx \div 2
        /\ kv_n_dec \in 1..WHISPER_MAX_DECODERS
    BY <1>1 DEF TypeOK, DataInv
  <2>5. kv' \in CacheIn(Decoders) /\ kv'.size = CacheSize(kv_n_dec')
    BY <1>2, <1>4, <1>12, <2>1
  <2> QED BY <1>2, <2>2, <2>3, <2>4, <2>5, Forgets
<1>16. CASE /\ kv' = whisper_kv_cache_find_slot(kv, NextBatch)
            /\ i' = i + 1
            /\ phase' = (IF i + 1 < NMax THEN "sample" ELSE "rank")
            /\ rc' = rc /\ it' = it /\ n_dec' = n_dec /\ dec' = dec /\ best' = best
            /\ prompt' = prompt
  <2>1. kv' = next
    BY <1>6, <1>16 DEF next
  <2>2. NPrompt' = NPrompt /\ Live' = Live
    BY <1>16 DEF NPrompt, Live
  <2>3. TypeOK'
    <3>1. i' \in 0..NMax
      BY <1>4, <1>16, Sizes
    <3>2. kv'.size = CacheSize(kv_n_dec')
      BY <1>2, <1>4, <1>12, <2>1
    <3>3. phase' \in {"sample", "rank"}
      BY <1>16
    <3> QED BY <1>1, <1>2, <1>16, <3>1, <3>2, <3>3 DEF TypeOK
  <2>4. DataInv'
    BY <1>1, <1>2, <1>12, <1>16, <2>1 DEF DataInv
  <2>5. LoopInv'
    <3>1. (phase' = "sample" /\ i' < NMax) \/ phase' = "rank"
      BY <1>4, <1>16, Sizes
    <3>2. \A j \in Live' : Len(dec'[j].tokens) = i'
      BY <1>9, <1>16, <2>2
    <3> QED BY <1>1, <1>2, <1>3, <1>16, <2>2, <3>1, <3>2 DEF LoopInv, Sampling
  <2>6. Held'
    <3>1. PICK made : made = new
      OBVIOUS
    <3>2. \A x \in made : x.pos = NPrompt + i /\ x.at \in h..(h + n_dec - 1)
      BY <1>13, <3>1
    <3>3. PICK cells : cells = kv.cells
      OBVIOUS
    <3>4. cells \in SUBSET CellsIn(Decoders) /\ InPlace(cells, NPrompt, i, n_dec)
          /\ \A j \in Live : Owns(cells, j, NPrompt, i, dec[j].tokens)
      BY <1>3, <1>4, <3>3 DEF CacheIn, Held
    <3>5. n_dec \in Nat
      BY <1>4
    <3>6. /\ InPlace(cells \cup made, NPrompt, i + 1, n_dec)
          /\ \A j : \A tokens \in Seq(Tokens) :
               /\ Owns(cells, j, NPrompt, i, tokens) /\ Len(tokens) = i + 1
               /\ \E x \in made : j \in x.seq_id
               /\ \A x \in made : j \in x.seq_id => x.kv = tokens
               /\ \A x, y \in made : j \in x.seq_id /\ j \in y.seq_id => x = y
               => Owns(cells \cup made, j, NPrompt, i + 1, tokens)
      BY <1>4, <3>2, <3>4, <3>5, OwnsDecoded
    <3>7. ASSUME NEW j \in Live
          PROVE  Owns(cells \cup made, j, NPrompt, i + 1, dec[j].tokens)
      <4>1. PICK r \in DOMAIN LiveSeq : LiveSeq[r] = j
        BY <1>5
      <4>2. cell(r) \in made /\ j \in cell(r).seq_id
        BY <1>5, <1>7, <1>13, <3>1, <4>1
      <4>3. \A x \in made : j \in x.seq_id => x = cell(r) /\ x.kv = dec[j].tokens
        BY <1>5, <1>7, <1>13, <3>1, <4>1
      <4> QED BY <1>9, <3>4, <3>6, <4>2, <4>3
    <3>8. kv'.cells = cells \cup made
      BY <1>12, <2>1, <3>1, <3>3
    <3> QED BY <1>16, <2>2, <3>6, <3>7, <3>8 DEF Held
  <2>7. AlwaysASlot' /\ PositionsFit'
    BY <1>1, <1>2, <1>14, <1>16, <2>1 DEF AlwaysASlot, PositionsFit
  <2> QED BY <2>3, <2>4, <2>5, <2>6, <2>7 DEF IInv
<1> QED BY <1>2, <1>15, <1>16

-----------------------------------------------------------------------------
(* The invariants.                                                         *)

\* Every step keeps the invariant.
LEMMA StepOK ==
  ASSUME IInv, [Next]_vars
  PROVE  IInv'
<1>1. ASSUME UNCHANGED vars PROVE IInv'
  <2>1. /\ p' = p /\ calls' = calls /\ seek_end' = seek_end /\ rc' = rc /\ phase' = phase
        /\ seek' = seek /\ it' = it /\ n_dec' = n_dec /\ dec' = dec /\ best' = best
        /\ prompt' = prompt /\ i' = i
        /\ kv' = kv /\ kv_n_dec' = kv_n_dec /\ past0' = past0 /\ past1' = past1
    BY <1>1 DEF vars, call, cacheVars, past
  <2>2. Live' = Live /\ NPrompt' = NPrompt /\ Sampling' = Sampling
    BY <2>1 DEF Live, NPrompt, Sampling
  <2>3. TypeOK' /\ DataInv' /\ LoopInv'
    BY <2>1, <2>2 DEF IInv, TypeOK, DataInv, LoopInv
  <2>4. Sampling' => Held'
    BY <2>1, <2>2 DEF IInv, Held
  <2>5. AlwaysASlot' /\ PositionsFit'
    BY <2>1 DEF IInv, AlwaysASlot, PositionsFit
  <2> QED BY <2>3, <2>4, <2>5 DEF IInv
<1>2. ASSUME NEW s \in Settings, NEW n_len \in AudioLens, Call(s, n_len) PROVE IInv'
  BY <1>2, CallOK
<1>3. ASSUME Work PROVE IInv'
  BY <1>3, EndOfAudioOK, StopBeforeEncoderOK, EncodeWindowOK, AttemptOK, SampleGreedyOK,
     SampleBeamOK, UpdateOK, DecodeNextOK, RankOK, OutputOK DEF Work
<1> QED BY <1>1, <1>2, <1>3 DEF Next, NoMoreCalls

\* The numbers and the records are what the code's types make of them.
THEOREM TypeCorrect == Spec => []TypeOK
<1>1. Init => IInv
  BY InitOK
<1>2. IInv /\ [Next]_vars => IInv'
  BY StepOK
<1>3. IInv => TypeOK
  BY DEF IInv
<1> QED BY <1>1, <1>2, <1>3, PTL DEF Spec

\* Whichever decoders take over whose sequences, the cells of a decoder are those of
\* the tokens it has, each position once, each computed from the tokens up to it.
THEOREM CacheStaysSequence == Spec => []CacheIsSequence
<1>1. Init => IInv
  BY InitOK
<1>2. IInv /\ [Next]_vars => IInv'
  BY StepOK
<1>3. IInv => CacheIsSequence
  <2> SUFFICES ASSUME IInv, Sampling, NEW j \in Live
               PROVE  LET own == CellsOf(kv, j)
                      IN  /\ {c.pos : c \in own} = 0..(NPrompt + i - 1)
                          /\ \A c, d \in own : c.pos = d.pos => c = d
                          /\ \A c \in own : c.kv = SubSeq(dec[j].tokens, 1, c.pos - NPrompt + 1)
    BY DEF CacheIsSequence, Sampling
  <2>1. Owns(kv.cells, j, NPrompt, i, dec[j].tokens)
    BY DEF IInv, Held
  <2>2. /\ \A c \in CellsOf(kv, j) : c.pos \in 0..(NPrompt + i - 1)
                                   /\ c.kv = SubSeq(dec[j].tokens, 1, c.pos - NPrompt + 1)
        /\ \A q \in 0..(NPrompt + i - 1) : \E c \in CellsOf(kv, j) : c.pos = q
        /\ \A c, d \in CellsOf(kv, j) : c.pos = d.pos => c = d
    BY <2>1 DEF Owns, CellsOf
  <2> QED BY <2>2
<1> QED BY <1>1, <1>2, <1>3, PTL DEF Spec

\* However the sequences that were given up have left it, the cache of the size the
\* code gives it has a slot for every decoder's next token: decoding fails only when
\* the callback aborts it.
THEOREM SlotAlwaysFound == Spec => []AlwaysASlot
<1>1. Init => IInv
  BY InitOK
<1>2. IInv /\ [Next]_vars => IInv'
  BY StepOK
<1>3. IInv => AlwaysASlot
  BY DEF IInv
<1> QED BY <1>1, <1>2, <1>3, PTL DEF Spec

\* No token is decoded at a position the model has no embedding for.
THEOREM PositionsAlwaysFit == Spec => []PositionsFit
<1>1. Init => IInv
  BY InitOK
<1>2. IInv /\ [Next]_vars => IInv'
  BY StepOK
<1>3. IInv => PositionsFit
  BY DEF IInv
<1> QED BY <1>1, <1>2, <1>3, PTL DEF Spec

-----------------------------------------------------------------------------
(* Every call returns.                                                     *)

\* The terms of StepsLeft: of an attempt and of a window, of the windows after this
\* one, and of the attempts after this one.
AttemptSteps == 3 * NMax + 3
WindowSteps == Len(Temperatures(p)) * AttemptSteps + 1
Later == AtLeast(0, seek_end - seek) * (WindowSteps + 1)
Again == (Len(Temperatures(p)) - it) * AttemptSteps

\* StepsLeft, phase by phase.
StepsByPhase ==
  /\ phase = "window"  => StepsLeft = Later + WindowSteps
  /\ phase = "attempt" => StepsLeft = Later + (Again + (3 * NMax + 2))
  /\ phase = "sample"  => StepsLeft = Later + (Again + (3 * (NMax - i) + 1))
  /\ phase = "update"  => StepsLeft = Later + (Again + 3 * (NMax - i))
  /\ phase = "decode"  => StepsLeft = Later + (Again + (3 * (NMax - i) - 1))
  /\ phase = "rank"    => StepsLeft = Later + (Again + 1)
  /\ phase = "output"  => StepsLeft = Later + 0

\* By its definition.
LEMMA Steps == StepsByPhase
BY DEF StepsByPhase, StepsLeft, Later, Again, WindowSteps, AttemptSteps

\* What is needed of products.
LEMMA Products ==
  /\ \A a, b \in Nat : a * b \in Nat
  /\ \A a, w \in Nat : \A b \in Nat : b < a => b * (w + 1) + w < a * (w + 1)
  /\ \A k, a \in Nat : k > 0 => (k - 1) * a = k * a - a
<1>1. \A a, b \in Nat : a * b \in Nat
  OBVIOUS
<1>2. ASSUME NEW a \in Nat, NEW w \in Nat, NEW b \in Nat, b < a
      PROVE  b * (w + 1) + w < a * (w + 1)
  <2>1. PICK c \in Nat : a = b + 1 + c
    <3>1. a - b - 1 \in Nat /\ a = b + 1 + (a - b - 1)
      BY <1>2
    <3> QED BY <3>1
  <2>2. a * (w + 1) = b * (w + 1) + (w + 1) + c * (w + 1)
    BY <2>1
  <2>3. c * (w + 1) \in Nat /\ b * (w + 1) \in Nat
    OBVIOUS
  <2> QED BY <2>2, <2>3
<1>3. \A k, a \in Nat : k > 0 => (k - 1) * a = k * a - a
  OBVIOUS
<1> QED BY <1>1, <1>2, <1>3

\* The terms are natural numbers.
StepsTyped ==
  IInv => /\ AttemptSteps \in Nat /\ NMax \in Nat /\ i \in 0..NMax
          /\ Len(Temperatures(p)) \in Nat /\ it \in 1..Len(Temperatures(p))
          /\ WindowSteps \in Nat /\ Later \in Nat /\ Again \in Nat
          /\ seek \in Nat /\ seek_end \in Nat

\* By the invariant.
LEMMA StepsType == StepsTyped
<1> SUFFICES ASSUME IInv
             PROVE  /\ AttemptSteps \in Nat /\ NMax \in Nat /\ i \in 0..NMax
                    /\ Len(Temperatures(p)) \in Nat /\ it \in 1..Len(Temperatures(p))
                    /\ WindowSteps \in Nat /\ Later \in Nat /\ Again \in Nat
                    /\ seek \in Nat /\ seek_end \in Nat
  BY DEF StepsTyped
<1>1. p \in Settings /\ i \in 0..NMax /\ seek \in Nat /\ seek_end \in Nat
      /\ it \in 1..Len(Temperatures(p))
  BY DEF IInv, TypeOK, LoopInv
<1>2. Len(Temperatures(p)) \in Nat /\ NMax \in Nat
  BY <1>1, TemperaturesType, Sizes
<1>3. AttemptSteps \in Nat
  BY <1>2 DEF AttemptSteps
<1>4. WindowSteps \in Nat
  BY <1>2, <1>3, Products DEF WindowSteps
<1>5. Later \in Nat
  <2>1. AtLeast(0, seek_end - seek) \in Nat
    BY <1>1 DEF AtLeast
  <2> QED BY <1>4, <2>1, Products DEF Later
<1>6. Again \in Nat
  <2>1. Len(Temperatures(p)) - it \in Nat
    BY <1>1, <1>2
  <2> QED BY <1>3, <2>1, Products DEF Again
<1> QED BY <1>1, <1>2, <1>3, <1>4, <1>5, <1>6

\* The window after one that is done, and the attempt after one that failed.
LEMMA NextWindow ==
  ASSUME IInv, Output
  PROVE  Later' + WindowSteps' < Later
<1>1. p' = p /\ seek_end' = seek_end /\ phase = "output"
  BY DEF Output, call
<1>2. StepsTyped /\ WindowSteps' = WindowSteps
  BY <1>1, StepsType DEF WindowSteps, AttemptSteps
<1>3. seek + DeltaMin < seek_end /\ seek < seek_end
  BY <1>1, <1>2, Sizes DEF IInv, LoopInv, StepsTyped
<1>4. seek' \in Nat /\ seek < seek'
  <2> DEFINE d == dec[best]
  <2>1. PICK single \in BOOLEAN :
          seek' = seek + (IF single THEN AtMost(seek_end - seek, Chunk) ELSE d.seek_delta)
    BY DEF Output, SingleTimestampEnding
  <2>2. d.seek_delta \in Nat \ {0}
    BY DEF IInv, TypeOK, DataInv, Decoder
  <2>3. AtMost(seek_end - seek, Chunk) \in Nat \ {0}
    BY <1>2, <1>3, Sizes DEF AtMost, StepsTyped
  <2>4. seek \in Nat
    BY <1>2 DEF StepsTyped
  <2>5. PICK m \in Nat \ {0} : seek' = seek + m
    BY <2>1, <2>2, <2>3
  <2> QED BY <2>4, <2>5
<1>5. PICK a \in Nat : a = AtLeast(0, seek_end - seek)
  BY <1>2 DEF AtLeast, StepsTyped
<1>6. PICK b \in Nat : b = AtLeast(0, seek_end' - seek') /\ b < a
  BY <1>1, <1>2, <1>3, <1>4, <1>5 DEF AtLeast, StepsTyped
<1>7. b * (WindowSteps + 1) + WindowSteps < a * (WindowSteps + 1)
  <2>1. PICK w \in Nat : w = WindowSteps
    BY <1>2 DEF StepsTyped
  <2>2. b * (w + 1) + w < a * (w + 1)
    BY <1>6, Products
  <2> QED BY <2>1, <2>2
<1>8. Later = a * (WindowSteps + 1) /\ Later' = b * (WindowSteps + 1)
  BY <1>2, <1>5, <1>6 DEF Later
<1> QED BY <1>2, <1>7, <1>8

\* Whatever is sampled, however the comparisons go and wherever a timestamp moves the
\* window, each step leaves fewer to take: no call of whisper_full goes on for ever.
THEOREM CallsAlwaysReturn == Spec => CallsReturn
<1> DEFINE Step == phase # "idle" => phase' = "idle" \/ (0 <= StepsLeft' /\ StepsLeft' < StepsLeft)
<1>1. Init => IInv
  BY InitOK
<1>2. IInv /\ [Next]_vars => IInv'
  BY StepOK
<1>3. StepsByPhase /\ StepsByPhase' /\ StepsTyped /\ StepsTyped'
  BY Steps, StepsType, PTL
<1>4. ASSUME IInv, IInv', Next PROVE Step
  <2> SUFFICES ASSUME phase # "idle", phase' # "idle"
               PROVE  0 <= StepsLeft' /\ StepsLeft' < StepsLeft
    OBVIOUS
  <2>1. /\ AttemptSteps \in Nat /\ NMax \in Nat /\ i \in 0..NMax
        /\ Len(Temperatures(p)) \in Nat /\ it \in 1..Len(Temperatures(p))
        /\ WindowSteps \in Nat /\ Later \in Nat /\ Again \in Nat
        /\ WindowSteps' \in Nat /\ Later' \in Nat /\ Again' \in Nat
    BY <1>3, <1>4 DEF StepsTyped
  <2>2. ASSUME p' = p, seek' = seek, seek_end' = seek_end
        PROVE  Later' = Later /\ WindowSteps' = WindowSteps /\ (it' = it => Again' = Again)
    BY <2>2 DEF Later, Again, WindowSteps, AttemptSteps
  <2>3. CASE EncodeWindow
    <3>1. phase = "window" /\ phase' = "attempt" /\ it' = 1 /\ p' = p /\ seek' = seek
          /\ seek_end' = seek_end
      BY <2>3 DEF EncodeWindow, call
    <3>2. Again' = (Len(Temperatures(p)) - 1) * AttemptSteps
      BY <3>1 DEF Again, AttemptSteps
    <3>3. Again' = Len(Temperatures(p)) * AttemptSteps - AttemptSteps
      BY <2>1, <3>2, Products
    <3>4. Again' + (3 * NMax + 2) < WindowSteps
      <4>1. Len(Temperatures(p)) * AttemptSteps \in Nat /\ AttemptSteps = 3 * NMax + 3
        BY <2>1, Products DEF AttemptSteps
      <4> QED BY <2>1, <3>3, <4>1 DEF WindowSteps
    <3>5. /\ StepsLeft = Later + WindowSteps
          /\ StepsLeft' = Later' + (Again' + (3 * NMax + 2)) /\ Later' = Later
      BY <1>3, <2>2, <3>1 DEF StepsByPhase
    <3>6. PICK a \in Nat : a = Later
      BY <2>1
    <3>7. PICK b \in Nat : b = Again'
      BY <2>1
    <3>8. PICK c \in Nat : c = 3 * NMax + 2
      BY <2>1
    <3>9. b + c < WindowSteps
      BY <3>4, <3>7, <3>8
    <3>10. StepsLeft = a + WindowSteps /\ StepsLeft' = a + (b + c)
      BY <3>5, <3>6, <3>7, <3>8
    <3> QED BY <2>1, <3>9, <3>10
  <2>4. CASE Attempt
    <3>1. phase = "attempt" /\ phase' = "sample" /\ i' = 0 /\ it' = it /\ p' = p /\ seek' = seek
          /\ seek_end' = seek_end
      BY <2>4 DEF Attempt, Decode, Return, call
    <3>2. /\ StepsLeft = Later + (Again + (3 * NMax + 2))
          /\ StepsLeft' = Later + (Again + (3 * (NMax - 0) + 1))
      BY <1>3, <2>2, <3>1 DEF StepsByPhase
    <3> QED BY <2>1, <3>2
  <2>5. CASE SampleGreedy \/ SampleBeam
    <3>1. phase = "sample" /\ phase' = "update" /\ i' = i /\ it' = it /\ p' = p /\ seek' = seek
          /\ seek_end' = seek_end
      BY <2>5 DEF SampleGreedy, SampleBeam, call
    <3>2. /\ StepsLeft = Later + (Again + (3 * (NMax - i) + 1))
          /\ StepsLeft' = Later + (Again + 3 * (NMax - i))
      BY <1>3, <2>2, <3>1 DEF StepsByPhase
    <3> QED BY <2>1, <3>2
  <2>6. CASE Update
    <3>1. phase = "update" /\ phase' \in {"rank", "decode"} /\ i' = i /\ it' = it /\ p' = p
          /\ seek' = seek /\ seek_end' = seek_end
      BY <2>6 DEF Update, call
    <3>2. i < NMax
      BY <1>4, <3>1 DEF IInv, LoopInv, Sampling
    <3>3. /\ StepsLeft = Later + (Again + 3 * (NMax - i))
          /\ \/ StepsLeft' = Later + (Again + (3 * (NMax - i) - 1))
             \/ StepsLeft' = Later + (Again + 1)
      BY <1>3, <2>2, <3>1 DEF StepsByPhase
    <3> QED BY <2>1, <3>2, <3>3
  <2>7. CASE DecodeNext
    <3>1. phase = "decode" /\ phase' \in {"rank", "sample"} /\ i' = i + 1 /\ it' = it /\ p' = p
          /\ seek' = seek /\ seek_end' = seek_end
      BY <2>7 DEF DecodeNext, Decode, Return, call
    <3>2. i < NMax
      BY <1>4, <3>1 DEF IInv, LoopInv, Sampling
    <3>3. /\ StepsLeft = Later + (Again + (3 * (NMax - i) - 1))
          /\ \/ StepsLeft' = Later + (Again + (3 * (NMax - (i + 1)) + 1))
             \/ StepsLeft' = Later + (Again + 1)
      BY <1>3, <2>2, <3>1 DEF StepsByPhase
    <3>4. i + 1 <= NMax
      BY <2>1, <3>2
    <3> QED BY <2>1, <3>3, <3>4
  <2>8. CASE Rank
    <3>1. /\ phase = "rank" /\ p' = p /\ seek' = seek /\ seek_end' = seek_end
          /\ \/ phase' = "output" /\ it' = it
             \/ phase' = "attempt" /\ it < Len(Temperatures(p)) /\ it' = it + 1
      BY <2>8 DEF Rank, call
    <3>2. CASE phase' = "output"
      <4>1. StepsLeft = Later + (Again + 1) /\ StepsLeft' = Later
        BY <1>3, <2>1, <2>2, <3>1, <3>2 DEF StepsByPhase
      <4> QED BY <2>1, <4>1
    <3>3. CASE phase' = "attempt" /\ it < Len(Temperatures(p)) /\ it' = it + 1
      <4>1. PICK k \in Nat : k = Len(Temperatures(p)) - it /\ k > 0
        BY <2>1, <3>3
      <4>2. Again = k * AttemptSteps /\ Again' = (k - 1) * AttemptSteps
        <5>1. Len(Temperatures(p)) - (it + 1) = k - 1
          BY <2>1, <4>1
        <5>2. Again' = (Len(Temperatures(p)) - (it + 1)) * AttemptSteps
          BY <3>1, <3>3 DEF Again, AttemptSteps
        <5> QED BY <4>1, <5>1, <5>2 DEF Again
      <4>3. Again' = Again - AttemptSteps
        BY <2>1, <4>1, <4>2, Products
      <4>4. StepsLeft = Later + (Again + 1) /\ StepsLeft' = Later + (Again' + (3 * NMax + 2))
        BY <1>3, <2>2, <3>1, <3>3 DEF StepsByPhase
      <4>5. AttemptSteps = 3 * NMax + 3
        BY DEF AttemptSteps
      <4> QED BY <2>1, <4>3, <4>4, <4>5
    <3> QED BY <3>1, <3>2, <3>3
  <2>9. CASE Output
    <3>1. phase = "output" /\ phase' = "window"
      BY <2>9 DEF Output
    <3>2. StepsLeft = Later /\ StepsLeft' = Later' + WindowSteps'
      BY <1>3, <2>1, <3>1 DEF StepsByPhase
    <3>3. Later' + WindowSteps' < Later
      BY <1>4, <2>9, NextWindow
    <3>4. PICK a \in Nat : a = Later
      BY <2>1
    <3>5. PICK b \in Nat : b = Later'
      BY <2>1
    <3>6. PICK c \in Nat : c = WindowSteps'
      BY <2>1
    <3>7. StepsLeft = a /\ StepsLeft' = b + c /\ b + c < a
      BY <3>2, <3>3, <3>4, <3>5, <3>6
    <3> QED BY <3>7
  <2>10. ASSUME NEW s \in Settings, NEW n_len \in AudioLens, Call(s, n_len) PROVE FALSE
    BY <2>10 DEF Call
  <2>11. ~EndOfAudio /\ ~StopBeforeEncoder /\ ~NoMoreCalls
    BY DEF EndOfAudio, StopBeforeEncoder, NoMoreCalls, Return
  <2> QED BY <1>4, <2>3, <2>4, <2>5, <2>6, <2>7, <2>8, <2>9, <2>10, <2>11 DEF Next, Work
<1>5. IInv /\ IInv' /\ [Next]_vars => [Step]_vars
  BY <1>4
<1> QED BY <1>1, <1>2, <1>5, PTL DEF Spec, CallsReturn

-----------------------------------------------------------------------------
(* The order of the segments.                                              *)

\* Timestamps never decrease, and the first token is none that is late.
Increasing(tokens) ==
  /\ \A k, m \in DOMAIN tokens : k <= m /\ 0 <= tokens[k] /\ 0 <= tokens[m] => tokens[k] <= tokens[m]
  /\ 1 \in DOMAIN tokens => tokens[1] <= MaxInitialTs

\* The first n tokens of a decoder have been taken into account: the window moves to none
\* that is earlier than one of them, and to one of them if one is a timestamp.
Timed(d, n) ==
  /\ Increasing(d.tokens) /\ d.seek_delta <= Chunk
  /\ \A k \in 1..n : 2 * d.tokens[k] <= d.seek_delta /\ (d.tokens[k] > 0 => d.has_ts)

\* All tokens but the last, if it was sampled just now.
Heard(j) ==
  IF phase = "update" /\ j \in Live THEN Len(dec[j].tokens) - 1 ELSE Len(dec[j].tokens)

Segment == [t0 : Int, t1 : Int]

\* What was said before the window ends before it, and so do the next window's segments.
OrderInv ==
  ~p.no_timestamps =>
    /\ \A j \in DOMAIN dec : Timed(dec[j], Heard(j))
    /\ phase # "idle" => /\ result \in [segs : Seq(Segment), from : Int, end : Int]
                         /\ result.end <= result.from /\ result.from <= seek
    /\ phase \notin {"idle", "window"} => result.from = seek /\ result.segs = <<>>
    /\ SegmentsInOrder

\* The tokens are numbers, and no timestamp is beyond the chunk.
LEMMA TokenNumbers ==
  ASSUME NEW tokens \in Seq(Tokens)
  PROVE  /\ Len(tokens) \in Nat /\ DOMAIN tokens = 1..Len(tokens)
         /\ \A k \in 1..Len(tokens) : tokens[k] \in Int /\ tokens[k] <= MaxTs
                                      /\ 2 * tokens[k] <= Chunk
         /\ MaxTs \in Nat /\ MaxInitialTs \in Nat /\ Chunk = 2 * MaxTs
<1>1. MaxTs \in Nat /\ MaxTs > 0 /\ MaxInitialTs \in Nat /\ TextTokens \subseteq Int
      /\ \A t \in TextTokens : t < 0
  BY DecoderAssumption
<1>2. \A t \in Tokens : t \in Int /\ t <= MaxTs
  BY <1>1 DEF Tokens, EOT
<1>3. \A k \in 1..Len(tokens) : tokens[k] \in Tokens
  OBVIOUS
<1> QED BY <1>1, <1>2, <1>3 DEF Chunk

\* A new decoder has heard nothing.
LEMMA NothingTimed == Timed(NoDecoder, Len(NoDecoder.tokens))
<1>1. NoDecoder.tokens = <<>> /\ NoDecoder.seek_delta = Chunk /\ Chunk \in Nat
  BY Sizes DEF NoDecoder
<1> QED BY <1>1 DEF Timed, Increasing

\* A token that the filters leave is no timestamp before the others.
LEMMA SampledTimed ==
  ASSUME NEW d \in Decoder, ~p.no_timestamps, Timed(d, Len(d.tokens)),
         NEW t \in Tokens, t \in Allowed(d)
  PROVE  Timed(Sampled(d, t), Len(d.tokens))
<1> DEFINE e == Sampled(d, t)
           n == Len(d.tokens)
<1>1. d.tokens \in Seq(Tokens) /\ d.seek_delta \in Nat
  BY DEF Decoder
<1>2. /\ n \in Nat /\ DOMAIN d.tokens = 1..n
      /\ \A k \in 1..n : d.tokens[k] \in Int
  BY <1>1, TokenNumbers
<1>3. e.tokens = Append(d.tokens, t) /\ e.seek_delta = d.seek_delta /\ e.has_ts = d.has_ts
  BY DEF Sampled, Decoder
<1>4. /\ DOMAIN e.tokens = 1..(n + 1) /\ e.tokens[n + 1] = t
      /\ \A k \in 1..n : e.tokens[k] = d.tokens[k]
  BY <1>1, <1>3
<1>5. t \in Int /\ MaxInitialTs \in Nat
  BY Sizes, DecoderAssumption
<1>6. t >= 0 => (n = 0 => t <= MaxInitialTs) /\ (d.has_ts => t >= d.seek_delta \div 2)
  BY DEF Allowed
<1>7. /\ Increasing(d.tokens) /\ d.seek_delta <= Chunk
      /\ \A k \in 1..n : 2 * d.tokens[k] <= d.seek_delta /\ (d.tokens[k] > 0 => d.has_ts)
  BY DEF Timed
<1> HIDE DEF e, n
<1>8. ASSUME NEW k \in 1..n, 0 <= d.tokens[k], 0 <= t PROVE d.tokens[k] <= t
  <2>1. CASE d.tokens[k] > 0
    <3>1. 2 * d.tokens[k] <= d.seek_delta /\ t >= d.seek_delta \div 2
      BY <1>6, <1>7, <1>8, <2>1
    <3>2. \A a \in Int, b \in Nat : 2 * a <= b => a <= b \div 2
      OBVIOUS
    <3>3. d.tokens[k] <= d.seek_delta \div 2 /\ d.seek_delta \div 2 \in Int
      BY <1>1, <1>2, <3>1, <3>2
    <3> QED BY <1>2, <1>5, <3>1, <3>3
  <2> QED BY <1>2, <1>5, <1>8, <2>1
<1>9. Increasing(e.tokens)
  <2>1. ASSUME NEW k \in 1..(n + 1), NEW m \in 1..(n + 1), k <= m, 0 <= e.tokens[k], 0 <= e.tokens[m]
        PROVE  e.tokens[k] <= e.tokens[m]
    <3>1. CASE m \in 1..n
      <4>1. k \in 1..n
        BY <1>2, <2>1, <3>1
      <4> QED BY <1>2, <1>4, <1>7, <2>1, <3>1, <4>1 DEF Increasing
    <3>2. CASE m = n + 1 /\ k \in 1..n
      BY <1>4, <1>8, <2>1, <3>2
    <3>3. CASE m = n + 1 /\ k = n + 1
      BY <1>4, <1>5, <3>3
    <3> QED BY <1>2, <3>1, <3>2, <3>3
  <2>2. e.tokens[1] <= MaxInitialTs
    <3>1. CASE n = 0
      BY <1>4, <1>5, <1>6, <3>1
    <3>2. CASE n # 0
      BY <1>2, <1>4, <1>7, <3>2 DEF Increasing
    <3> QED BY <3>1, <3>2
  <2> QED BY <1>4, <2>1, <2>2 DEF Increasing
<1>10. \A k \in 1..n : 2 * e.tokens[k] <= e.seek_delta /\ (e.tokens[k] > 0 => e.has_ts)
  BY <1>3, <1>4, <1>7
<1>11. Timed(e, n)
  BY <1>3, <1>7, <1>9, <1>10 DEF Timed
<1> QED BY <1>11 DEF e, n

\* A token moves the window to it, if it is a timestamp, and what else it does to its
\* decoder does not move the window back.
LEMMA UpdatedTimed ==
  ASSUME i \in Nat, NEW d \in Decoder, Len(d.tokens) = i + 1, Timed(d, i)
  PROVE  Timed(Updated(d), i + 1) /\ Updated(d).tokens = d.tokens
<1> DEFINE Good(e) == e \in Decoder /\ e.tokens = d.tokens /\ Timed(e, i + 1)
           t == d.tokens[i + 1]
<1>1. d.tokens \in Seq(Tokens) /\ d.seek_delta \in Nat \ {0} /\ d.has_ts \in BOOLEAN
  BY DEF Decoder
<1>2. /\ DOMAIN d.tokens = 1..(i + 1) /\ Chunk \in Nat \ {0}
      /\ \A k \in 1..(i + 1) : d.tokens[k] \in Int /\ 2 * d.tokens[k] <= Chunk
  BY <1>1, TokenNumbers, Sizes
<1>3. /\ Increasing(d.tokens) /\ d.seek_delta <= Chunk
      /\ \A k \in 1..i : 2 * d.tokens[k] <= d.seek_delta /\ (d.tokens[k] > 0 => d.has_ts)
  BY DEF Timed
<1>4. t \in Int /\ 2 * t <= Chunk /\ i + 1 \in 1..(i + 1)
  BY <1>2
<1>5. \A k \in 1..(i + 1) : k \in 1..i \/ k = i + 1
  OBVIOUS
<1>6. ASSUME NEW e, Good(e) PROVE Good(Failed(e))
  BY <1>6 DEF Failed, Decoder, Timed
<1>7. ASSUME NEW e, Good(e) PROVE Good(Completed(e))
  <2>1. PICK c \in Nat \ {0} : c = Chunk
    BY <1>2
  <2>2. PICK r \in Nat : r = i + 1
    OBVIOUS
  <2>3. e \in Decoder /\ e.result_len \in Nat
    BY <1>7 DEF Decoder
  <2>4. Good([e EXCEPT !.completed = TRUE, !.result_len = r, !.seek_delta = c])
    <3>1. PICK f : f = [e EXCEPT !.completed = TRUE, !.result_len = r, !.seek_delta = c]
      OBVIOUS
    <3>2. f \in Decoder /\ f.tokens = e.tokens /\ f.seek_delta = Chunk /\ f.has_ts = e.has_ts
      BY <2>1, <2>3, <3>1 DEF Decoder
    <3>3. Timed(f, i + 1)
      BY <1>2, <1>7, <3>2 DEF Timed
    <3> QED BY <1>7, <3>1, <3>2, <3>3
  <2>5. ASSUME NEW l \in Nat PROVE Good([e EXCEPT !.completed = TRUE, !.result_len = l])
    BY <1>7, <2>3 DEF Decoder, Timed
  <2>6. \/ Completed(e) = Failed(e)
        \/ Completed(e) = [e EXCEPT !.completed = TRUE, !.result_len = r, !.seek_delta = c]
        \/ Completed(e) = [e EXCEPT !.completed = TRUE, !.result_len = r]
        \/ Completed(e) = [e EXCEPT !.completed = TRUE, !.result_len = e.result_len]
    BY <2>1, <2>2 DEF Completed
  <2> HIDE DEF Good
  <2> QED BY <1>6, <1>7, <2>2, <2>3, <2>4, <2>5, <2>6
<1>8. Good(Stamped(d))
  <2> DEFINE s == [d EXCEPT !.seek_delta = 2 * t, !.result_len = i + 1, !.has_ts = TRUE]
  <2>1. Stamped(d) = IF t <= 0 THEN d
                     ELSE IF d.has_ts /\ d.seek_delta > 2 * t /\ d.result_len < i THEN Failed(d)
                     ELSE s
    BY DEF Stamped
  <2>2. ASSUME t <= 0 PROVE Good(d)
    <3>1. 2 * t <= d.seek_delta /\ ~(t > 0)
      BY <1>1, <1>4, <2>2
    <3> QED BY <1>3, <1>5, <3>1 DEF Timed
  <2>3. ASSUME d.has_ts, d.seek_delta > 2 * t PROVE Good(d)
    <3>1. 2 * t <= d.seek_delta
      BY <1>1, <1>4, <2>3
    <3> QED BY <1>3, <1>5, <2>3, <3>1 DEF Timed
  <2>4. ASSUME t > 0 PROVE Good(s)
    <3>1. PICK u \in Nat \ {0} : u = 2 * t
      BY <1>4, <2>4
    <3>2. PICK f : f = s
      OBVIOUS
    <3>3. PICK r \in Nat : r = i + 1
      OBVIOUS
    <3>4. f = [d EXCEPT !.seek_delta = u, !.result_len = r, !.has_ts = TRUE]
      BY <3>1, <3>2, <3>3
    <3>5. f \in Decoder /\ f.tokens = d.tokens /\ f.seek_delta = u /\ f.has_ts
      BY <3>4 DEF Decoder
    <3>6. \A k \in 1..(i + 1) : 2 * d.tokens[k] <= u
      <4> TAKE k \in 1..(i + 1)
      <4>1. /\ k \in DOMAIN d.tokens /\ i + 1 \in DOMAIN d.tokens /\ k <= i + 1
            /\ 0 <= d.tokens[i + 1] /\ d.tokens[k] \in Int
        BY <1>2, <1>4, <2>4
      <4>2. 0 <= d.tokens[k] => d.tokens[k] <= t
        BY <1>3, <4>1 DEF Increasing
      <4> QED BY <1>4, <2>4, <3>1, <4>1, <4>2
    <3>7. u <= Chunk
      BY <1>4, <3>1
    <3>8. Timed(f, i + 1)
      BY <1>3, <3>5, <3>6, <3>7 DEF Timed
    <3> QED BY <3>2, <3>5, <3>8
  <2> HIDE DEF Good, s
  <2> QED BY <1>4, <1>6, <2>1, <2>2, <2>3, <2>4
<1> HIDE DEF Good
<1>9. \/ Updated(d) = Stamped(d) \/ Updated(d) = Completed(Stamped(d))
      \/ Updated(d) = Failed(Stamped(d))
  BY DEF Updated
<1>10. Good(Updated(d))
  BY <1>6, <1>7, <1>8, <1>9
<1> QED BY <1>10 DEF Good

\* Tokens that are cut off leave the others as they were.
LEMMA CutTimed ==
  ASSUME NEW d \in Decoder, d.result_len <= Len(d.tokens), Timed(d, Len(d.tokens)), NEW b \in BOOLEAN
  PROVE  LET e == [d EXCEPT !.tokens = SubSeq(@, 1, d.result_len), !.failed = b]
         IN  Timed(e, Len(e.tokens))
<1> DEFINE e == [d EXCEPT !.tokens = SubSeq(@, 1, d.result_len), !.failed = b]
           cut == SubSeq(d.tokens, 1, d.result_len)
<1>1. d.tokens \in Seq(Tokens) /\ d.result_len \in Nat
  BY DEF Decoder
<1>2. /\ Len(d.tokens) \in Nat /\ DOMAIN d.tokens = 1..Len(d.tokens)
      /\ Len(cut) = d.result_len /\ DOMAIN cut = 1..d.result_len
      /\ \A k \in 1..d.result_len : k \in 1..Len(d.tokens) /\ cut[k] = d.tokens[k]
  BY <1>1
<1>3. e.tokens = cut /\ e.seek_delta = d.seek_delta /\ e.has_ts = d.has_ts
  BY DEF Decoder
<1> HIDE DEF e, cut
<1>4. Increasing(cut)
  BY <1>2 DEF Timed, Increasing
<1>5. Timed(e, Len(e.tokens))
  BY <1>2, <1>3, <1>4 DEF Timed
<1> QED BY <1>5 DEF e

\* A token and the segments before it: the body of the loop over the tokens.
WithToken(tokens, s, k) ==
  LET t == tokens[k]
  IN  IF IsText(t) THEN [s EXCEPT !.text = TRUE]
      ELSE IF t <= 0 \/ p.single_segment \/ (k > 1 /\ tokens[k - 1] > 0) THEN s
      ELSE [segs |-> IF s.text THEN Append(s.segs, [t0 |-> s.t0, t1 |-> seek + 2 * t])
                               ELSE s.segs,
            t0 |-> seek + 2 * t, text |-> FALSE]

\* The loop, up to the n-th token.
SegmentLoop(f, tokens, t0, n) ==
  f = [k \in 0..n |-> IF k = 0 THEN [segs |-> <<>>, t0 |-> t0, text |-> FALSE]
                      ELSE WithToken(tokens, f[k - 1], k)]

\* Every loop has an outcome.
LEMMA SegmentLoopEnds ==
  ASSUME NEW tokens, NEW t0, NEW n \in Nat
  PROVE  \E f : SegmentLoop(f, tokens, t0, n)
<1> DEFINE Open == {m \in Nat : ~\E f : SegmentLoop(f, tokens, t0, m)}
           first == [segs |-> <<>>, t0 |-> t0, text |-> FALSE]
<1>1. SUFFICES ASSUME Open # {} PROVE FALSE
  OBVIOUS
<1>2. PICK m \in Open : \A l \in Open : m <= l
  <2>1. Open \in SUBSET Nat
    OBVIOUS
  <2> HIDE DEF Open
  <2> QED BY <1>1, <2>1, LeastElement
<1>3. CASE m = 0
  <2> DEFINE f == [k \in 0..0 |-> first]
  <2>1. f = [k \in 0..0 |-> IF k = 0 THEN first ELSE WithToken(tokens, f[k - 1], k)]
    OBVIOUS
  <2>2. SegmentLoop(f, tokens, t0, 0)
    BY <2>1 DEF SegmentLoop
  <2> QED BY <1>2, <1>3, <2>2
<1>4. CASE m # 0
  <2>1. m - 1 \in Nat /\ m - 1 \notin Open
    BY <1>2, <1>4
  <2>2. PICK g : SegmentLoop(g, tokens, t0, m - 1)
    BY <2>1
  <2> HIDE DEF first
  <2>3. \A k \in 0..(m - 1) : g[k] = IF k = 0 THEN first ELSE WithToken(tokens, g[k - 1], k)
    BY <2>2 DEF SegmentLoop, first
  <2> DEFINE f == [k \in 0..m |-> IF k = m THEN WithToken(tokens, g[m - 1], m) ELSE g[k]]
  <2>4. /\ f[m] = WithToken(tokens, g[m - 1], m)
        /\ \A k \in 0..(m - 1) : k \in 0..m /\ k # m /\ f[k] = g[k]
    BY <1>2
  <2>5. \A k \in 0..m : f[k] = IF k = 0 THEN first ELSE WithToken(tokens, f[k - 1], k)
    <3> TAKE k \in 0..m
    <3>1. CASE k = m
      <4>1. m - 1 \in 0..(m - 1)
        BY <2>1
      <4>2. f[k - 1] = g[m - 1]
        BY <2>4, <3>1, <4>1
      <4> HIDE DEF f
      <4> QED BY <1>4, <2>4, <3>1, <4>2
    <3>2. CASE k # m
      <4>1. k \in 0..(m - 1)
        BY <1>2, <3>2
      <4>2. k # 0 => k - 1 \in 0..(m - 1)
        BY <4>1
      <4>3. k # 0 => f[k - 1] = g[k - 1]
        BY <2>4, <4>2
      <4> HIDE DEF f
      <4> QED BY <2>3, <2>4, <4>1, <4>3
    <3> QED BY <3>1, <3>2
  <2>6. f = [k \in 0..m |-> f[k]]
    OBVIOUS
  <2> HIDE DEF f
  <2>7. f = [k \in 0..m |-> IF k = 0 THEN first ELSE WithToken(tokens, f[k - 1], k)]
    BY <2>5, <2>6
  <2>8. SegmentLoop(f, tokens, t0, m)
    BY <2>7 DEF SegmentLoop, first
  <2> QED BY <1>2, <2>8
<1> QED BY <1>3, <1>4

\* Segments in the order of their times, between the start of the window and last.
Chain(segs, last) ==
  \A k \in DOMAIN segs :
    LET s == segs[k]
    IN  /\ (IF k = 1 THEN seek ELSE segs[k - 1].t1) <= s.t0
        /\ s.t0 <= s.t1 \/ (k = 1 /\ s.t0 <= seek + 2 * MaxInitialTs)
        /\ seek <= s.t1 /\ s.t1 <= last

\* A segment may be added that starts where the others have ended.
LEMMA ChainAppended ==
  ASSUME NEW segs \in Seq(Segment), NEW last \in Int, Chain(segs, last), NEW s \in Segment,
         seek \in Int,
         (IF segs = <<>> THEN seek ELSE segs[Len(segs)].t1) <= s.t0,
         s.t0 <= s.t1 \/ (segs = <<>> /\ s.t0 <= seek + 2 * MaxInitialTs),
         seek <= s.t1, s.t1 <= last
  PROVE  LET all == Append(segs, s)
         IN  /\ all \in Seq(Segment) /\ Chain(all, last)
             /\ all # <<>> /\ all[Len(all)] = s
<1> DEFINE all == Append(segs, s)
           n == Len(segs)
<1>1. /\ n \in Nat /\ DOMAIN segs = 1..n /\ all \in Seq(Segment) /\ Len(all) = n + 1
      /\ DOMAIN all = 1..(n + 1) /\ all[n + 1] = s /\ \A k \in 1..n : all[k] = segs[k]
      /\ (segs = <<>> <=> n = 0)
  OBVIOUS
<1> HIDE DEF all, n
<1>2. \A k \in 1..(n + 1) : k \in 1..n \/ k = n + 1
  BY <1>1
<1>3. ASSUME NEW k \in 1..n
      PROVE  /\ (IF k = 1 THEN seek ELSE all[k - 1].t1) <= all[k].t0
             /\ all[k].t0 <= all[k].t1 \/ (k = 1 /\ all[k].t0 <= seek + 2 * MaxInitialTs)
             /\ seek <= all[k].t1 /\ all[k].t1 <= last
  <2>1. all[k] = segs[k] /\ (k # 1 => k - 1 \in 1..n /\ all[k - 1] = segs[k - 1])
    BY <1>1
  <2> QED BY <1>1, <2>1 DEF Chain
<1>4. /\ (IF n + 1 = 1 THEN seek ELSE all[(n + 1) - 1].t1) <= all[n + 1].t0
      /\ all[n + 1].t0 <= all[n + 1].t1 \/ (n + 1 = 1 /\ all[n + 1].t0 <= seek + 2 * MaxInitialTs)
      /\ seek <= all[n + 1].t1 /\ all[n + 1].t1 <= last
  <2>1. CASE n = 0
    BY <1>1, <2>1
  <2>2. CASE n # 0
    <3>1. (n + 1) - 1 = n /\ n + 1 # 1 /\ n \in 1..n /\ all[n] = segs[n] /\ segs[Len(segs)] = segs[n]
      BY <1>1, <2>2 DEF n
    <3> QED BY <1>1, <2>2, <3>1
  <2> QED BY <2>1, <2>2
<1>5. Chain(all, last)
  BY <1>1, <1>2, <1>3, <1>4 DEF Chain
<1>6. all # <<>> /\ all[Len(all)] = s
  BY <1>1
<1> QED BY <1>1, <1>5, <1>6 DEF all

\* The segments after n tokens: the next starts where they end, or later, and that is
\* where an early token or a timestamp says.
Segmenting(s, tokens, n, last) ==
  /\ s \in [segs : Seq(Segment), t0 : Int, text : BOOLEAN]
  /\ Chain(s.segs, last)
  /\ (IF s.segs = <<>> THEN seek ELSE s.segs[Len(s.segs)].t1) <= s.t0
  /\ \/ s.segs = <<>> /\ s.t0 <= seek + 2 * MaxInitialTs
     \/ \E l \in 1..n : tokens[l] > 0 /\ s.t0 = seek + 2 * tokens[l]

\* A token more.
LEMMA WithTokenOK ==
  ASSUME NEW tokens \in Seq(Tokens), Increasing(tokens), NEW delta \in Nat,
         \A k \in 1..Len(tokens) : 2 * tokens[k] <= delta, seek \in Nat,
         NEW n \in 1..Len(tokens), NEW s, Segmenting(s, tokens, n - 1, seek + delta)
  PROVE  Segmenting(WithToken(tokens, s, n), tokens, n, seek + delta)
<1> DEFINE t == tokens[n]
           last == seek + delta
           u == seek + 2 * t
<1>1. /\ Len(tokens) \in Nat /\ DOMAIN tokens = 1..Len(tokens) /\ n \in Nat
      /\ \A k \in 1..Len(tokens) : tokens[k] \in Int
      /\ last \in Int
  BY TokenNumbers
<1>2. /\ s \in [segs : Seq(Segment), t0 : Int, text : BOOLEAN]
      /\ Chain(s.segs, last)
      /\ (IF s.segs = <<>> THEN seek ELSE s.segs[Len(s.segs)].t1) <= s.t0
      /\ \/ s.segs = <<>> /\ s.t0 <= seek + 2 * MaxInitialTs
         \/ \E l \in 1..(n - 1) : tokens[l] > 0 /\ s.t0 = seek + 2 * tokens[l]
  BY DEF Segmenting
<1>3. \A l \in 1..(n - 1) : l \in 1..n /\ l \in 1..Len(tokens) /\ l <= n
  BY <1>1
<1>4. Segmenting(s, tokens, n, last)
  BY <1>2, <1>3 DEF Segmenting
<1>5. Segmenting([s EXCEPT !.text = TRUE], tokens, n, last)
  BY <1>4 DEF Segmenting
<1> DEFINE segs == IF s.text THEN Append(s.segs, [t0 |-> s.t0, t1 |-> u]) ELSE s.segs
           next == [segs |-> segs, t0 |-> u, text |-> FALSE]
<1>6. ASSUME t > 0 PROVE Segmenting(next, tokens, n, last)
  <2>1. u \in Int /\ seek <= u /\ u <= last
    BY <1>1, <1>6
  <2>2. s.t0 <= u \/ (s.segs = <<>> /\ s.t0 <= seek + 2 * MaxInitialTs)
    <3>1. ASSUME NEW l \in 1..(n - 1), tokens[l] > 0, s.t0 = seek + 2 * tokens[l]
          PROVE  s.t0 <= u
      <4>1. /\ l \in DOMAIN tokens /\ n \in DOMAIN tokens /\ l <= n
            /\ tokens[l] \in Int /\ tokens[n] \in Int
        BY <1>1, <1>3
      <4>2. 0 <= tokens[l] /\ 0 <= tokens[n]
        BY <1>6, <3>1, <4>1
      <4>3. tokens[l] <= tokens[n]
        BY <4>1, <4>2 DEF Increasing
      <4> QED BY <3>1, <4>1, <4>3
    <3> QED BY <1>2, <3>1
  <2>3. CASE s.text
    <3>1. PICK g : g = [t0 |-> s.t0, t1 |-> u]
      OBVIOUS
    <3>2. g \in Segment /\ g.t0 = s.t0 /\ g.t1 = u
      BY <1>2, <2>1, <3>1 DEF Segment
    <3>3. PICK old : old = s.segs
      OBVIOUS
    <3>4. /\ old \in Seq(Segment) /\ Chain(old, last)
          /\ (IF old = <<>> THEN seek ELSE old[Len(old)].t1) <= g.t0
          /\ g.t0 <= g.t1 \/ (old = <<>> /\ g.t0 <= seek + 2 * MaxInitialTs)
      BY <1>2, <2>2, <3>2, <3>3
    <3>5. PICK all : all = Append(old, g)
      OBVIOUS
    <3>6. all \in Seq(Segment) /\ Chain(all, last) /\ all # <<>> /\ all[Len(all)] = g
      BY <1>1, <2>1, <3>2, <3>4, <3>5, ChainAppended
    <3>7. next = [segs |-> all, t0 |-> u, text |-> FALSE]
      BY <2>3, <3>1, <3>3, <3>5
    <3> HIDE DEF next, u, last
    <3>8. next.segs = all /\ next.t0 = u /\ next \in [segs : Seq(Segment), t0 : Int, text : BOOLEAN]
      BY <2>1, <3>6, <3>7
    <3>9. (IF all = <<>> THEN seek ELSE all[Len(all)].t1) <= u
      BY <2>1, <3>2, <3>6
    <3>10. \E l \in 1..n : tokens[l] > 0 /\ u = seek + 2 * tokens[l]
      BY <1>1, <1>6 DEF u
    <3> QED BY <3>6, <3>8, <3>9, <3>10 DEF Segmenting
  <2>4. CASE ~s.text
    <3>1. (IF s.segs = <<>> THEN seek ELSE s.segs[Len(s.segs)].t1) <= u
      <4>1. CASE s.segs = <<>>
        BY <2>1, <4>1
      <4>2. CASE s.segs # <<>>
        <5>1. s.segs[Len(s.segs)] \in Segment
          BY <1>2, <4>2
        <5> QED BY <1>2, <2>1, <2>2, <4>2, <5>1 DEF Segment
      <4> QED BY <4>1, <4>2
    <3>2. next = [segs |-> s.segs, t0 |-> u, text |-> FALSE]
      BY <2>4
    <3> HIDE DEF next, u, last
    <3>3. /\ next.segs = s.segs /\ next.t0 = u
          /\ next \in [segs : Seq(Segment), t0 : Int, text : BOOLEAN]
      BY <1>2, <2>1, <3>2
    <3>4. \E l \in 1..n : tokens[l] > 0 /\ u = seek + 2 * tokens[l]
      BY <1>1, <1>6 DEF u
    <3> QED BY <1>2, <3>1, <3>3, <3>4 DEF Segmenting
  <2> QED BY <2>3, <2>4
<1>7. \/ WithToken(tokens, s, n) = [s EXCEPT !.text = TRUE] \/ WithToken(tokens, s, n) = s
      \/ t > 0 /\ WithToken(tokens, s, n) = next
  <2>1. t \in Int
    BY <1>1
  <2> QED BY <2>1 DEF WithToken
<1> HIDE DEF next, last
<1>8. Segmenting(WithToken(tokens, s, n), tokens, n, last)
  BY <1>4, <1>5, <1>6, <1>7
<1> QED BY <1>8 DEF last

\* The segments of a sequence are in order.
LEMMA SegmentsOrdered ==
  ASSUME NEW tokens \in Seq(Tokens), tokens # <<>>, Increasing(tokens), ~p.no_timestamps,
         NEW delta \in Nat, \A k \in 1..Len(tokens) : 2 * tokens[k] <= delta, seek \in Nat,
         NEW tid, tid \in FrontTids(tokens[1])
  PROVE  /\ Segments(tokens, seek + 2 * tid, seek + delta) \in Seq(Segment)
         /\ Chain(Segments(tokens, seek + 2 * tid, seek + delta), seek + delta)
<1> DEFINE n == Len(tokens)
           t0 == seek + 2 * tid
           last == seek + delta
           Loop(f) == f = [k \in 0..n |-> IF k = 0 THEN [segs |-> <<>>, t0 |-> t0, text |-> FALSE]
                                          ELSE WithToken(tokens, f[k - 1], k)]
           first == [segs |-> <<>>, t0 |-> t0, text |-> FALSE]
<1>1. /\ n \in Nat /\ 1 \in 1..n /\ DOMAIN tokens = 1..n /\ tokens[1] \in Int
      /\ MaxInitialTs \in Nat /\ last \in Int
  BY TokenNumbers
<1>2. tid \in 0..MaxInitialTs
  BY <1>1 DEF FrontTids, Increasing
<1>3. t0 \in Int /\ seek <= t0 /\ t0 <= seek + 2 * MaxInitialTs
  BY <1>1, <1>2
<1>4. PICK f : Loop(f) /\ f = (CHOOSE g : Loop(g))
  <2>1. \E g : SegmentLoop(g, tokens, t0, n)
    BY <1>1, SegmentLoopEnds
  <2>2. \E g : Loop(g)
    BY <2>1 DEF SegmentLoop
  <2> HIDE DEF Loop
  <2> QED BY <2>2, Zenon
<1>5. /\ f[0] = first
      /\ \A k \in 1..n : k - 1 \in 0..n /\ f[k] = WithToken(tokens, f[k - 1], k)
  <2>1. \A k \in 0..n : f[k] = IF k = 0 THEN first ELSE WithToken(tokens, f[k - 1], k)
    BY <1>4
  <2>2. 0 \in 0..n /\ \A k \in 1..n : k \in 0..n /\ k # 0 /\ k - 1 \in 0..n
    BY <1>1
  <2> HIDE DEF first
  <2> QED BY <2>1, <2>2
<1>6. Segmenting(first, tokens, 0, last)
  <2>1. first \in [segs : Seq(Segment), t0 : Int, text : BOOLEAN] /\ first.segs = <<>> /\ first.t0 = t0
    BY <1>3
  <2>2. Chain(<<>>, last)
    BY DEF Chain
  <2> HIDE DEF first
  <2> QED BY <1>3, <2>1, <2>2 DEF Segmenting
<1>7. ASSUME NEW k \in 0..n PROVE Segmenting(f[k], tokens, k, last)
  <2> DEFINE Bad == {m \in 0..n : ~Segmenting(f[m], tokens, m, last)}
  <2>1. SUFFICES ASSUME Bad # {} PROVE FALSE
    OBVIOUS
  <2>2. PICK m \in Bad : \A l \in Bad : m <= l
    <3>1. Bad \in SUBSET Nat
      BY <1>1
    <3> HIDE DEF Bad
    <3> QED BY <2>1, <3>1, LeastElement
  <2>3. m # 0
    BY <1>5, <1>6, <2>2
  <2>4. m \in 1..n /\ m - 1 \in 0..n /\ m - 1 < m
    BY <1>1, <2>2, <2>3
  <2>5. Segmenting(f[m - 1], tokens, m - 1, last)
    BY <2>2, <2>4
  <2>6. Segmenting(WithToken(tokens, f[m - 1], m), tokens, m, last)
    BY <2>4, <2>5, WithTokenOK
  <2> QED BY <1>5, <2>2, <2>4, <2>6
<1>8. PICK s : s = f[n] /\ Segmenting(s, tokens, n, last)
  BY <1>1, <1>7
<1>9. Segments(tokens, t0, last) = IF s.text THEN Append(s.segs, [t0 |-> s.t0, t1 |-> last]) ELSE s.segs
  <2>1. Segments(tokens, t0, last) =
          LET all == (CHOOSE g : Loop(g))[n]
          IN  IF all.text THEN Append(all.segs, [t0 |-> all.t0, t1 |-> last]) ELSE all.segs
    BY DEF Segments, WithToken
  <2> QED BY <1>4, <1>8, <2>1
<1> HIDE DEF Loop, t0
<1>10. CASE ~s.text
  BY <1>8, <1>9, <1>10 DEF Segmenting, t0
<1>11. CASE s.text
  <2>1. PICK g : g = [t0 |-> s.t0, t1 |-> last]
    OBVIOUS
  <2>2. /\ s \in [segs : Seq(Segment), t0 : Int, text : BOOLEAN]
        /\ Chain(s.segs, last)
        /\ (IF s.segs = <<>> THEN seek ELSE s.segs[Len(s.segs)].t1) <= s.t0
        /\ \/ s.segs = <<>> /\ s.t0 <= seek + 2 * MaxInitialTs
           \/ \E l \in 1..n : tokens[l] > 0 /\ s.t0 = seek + 2 * tokens[l]
    BY <1>8 DEF Segmenting
  <2>3. g \in Segment /\ g.t0 = s.t0 /\ g.t1 = last /\ seek <= last
    BY <1>1, <2>1, <2>2 DEF Segment
  <2>4. s.t0 <= last \/ (s.segs = <<>> /\ s.t0 <= seek + 2 * MaxInitialTs)
    <3>1. \A l \in 1..n : seek + 2 * tokens[l] <= last
      <4> TAKE l \in 1..n
      <4>1. tokens[l] \in Int /\ 2 * tokens[l] <= delta
        BY TokenNumbers
      <4> QED BY <4>1
    <3> QED BY <2>2, <3>1
  <2>5. PICK old : old = s.segs
    OBVIOUS
  <2> HIDE DEF last
  <2>6. Append(old, g) \in Seq(Segment) /\ Chain(Append(old, g), last)
    BY <1>1, <2>2, <2>3, <2>4, <2>5, ChainAppended
  <2> QED BY <1>9, <1>11, <2>1, <2>5, <2>6 DEF t0, last
<1> QED BY <1>10, <1>11

\* A step that changes nothing the order speaks of keeps it.
LEMMA OrderKept ==
  ASSUME OrderInv, UNCHANGED <<p, phase, seek, dec, n_dec, seek_end, result>>
  PROVE  OrderInv'
<1>1. /\ p' = p /\ phase' = phase /\ seek' = seek /\ dec' = dec /\ n_dec' = n_dec
      /\ seek_end' = seek_end /\ result' = result
  OBVIOUS
<1>2. \A j : Heard(j)' = Heard(j)
  BY <1>1 DEF Heard, Live
<1> QED BY <1>1, <1>2 DEF OrderInv, SegmentsInOrder

\* While a window is decoded there are no segments, and only the decoders change.
LEMMA OrderWhileDecoding ==
  ASSUME OrderInv, phase' \notin {"idle", "window"}, phase \notin {"idle", "window"},
         UNCHANGED <<p, seek, result>>,
         ~p.no_timestamps => \A j \in DOMAIN dec' : Timed(dec'[j], Heard(j)')
  PROVE  OrderInv'
<1>1. p' = p /\ seek' = seek /\ result' = result
  OBVIOUS
<1>2. SegmentsInOrder'
  BY DEF SegmentsInOrder
<1>3. ~p.no_timestamps => /\ result \in [segs : Seq(Segment), from : Int, end : Int]
                          /\ result.end <= result.from /\ result.from <= seek
                          /\ result.from = seek /\ result.segs = <<>>
  BY DEF OrderInv
<1> QED BY <1>1, <1>2, <1>3 DEF OrderInv

\* A call that is over.
LEMMA OrderIdle ==
  ASSUME Forget, phase' = "idle"
  PROVE  OrderInv'
<1>1. SegmentsInOrder'
  BY DEF SegmentsInOrder
<1>2. \A j \in DOMAIN dec' : Timed(dec'[j], Heard(j)')
  <2>1. \A j \in DOMAIN dec' : dec'[j] = NoDecoder
    BY DEF Forget
  <2>2. \A j \in DOMAIN dec' : Heard(j)' = Len(NoDecoder.tokens)
    BY <2>1 DEF Heard
  <2> QED BY <2>1, <2>2, NothingTimed
<1> QED BY <1>1, <1>2 DEF OrderInv

\* A call starts with no segments, or is refused.
LEMMA OrderCall ==
  ASSUME NEW s \in Settings, NEW n_len, Call(s, n_len)
  PROVE  OrderInv'
<1>1. CASE phase' = "idle"
  <2>1. Forget
    BY <1>1 DEF Call, Return
  <2> QED BY <1>1, <2>1, OrderIdle
<1>2. CASE phase' # "idle"
  <2>1. /\ Forget /\ phase' = "window" /\ seek' = s.offset
        /\ result' = [segs |-> <<>>, from |-> 0, end |-> 0]
    BY <1>2 DEF Call, Return
  <2>2. s.offset \in Nat
    BY SettingsType
  <2>3. \A j \in DOMAIN dec' : Timed(dec'[j], Heard(j)')
    <3>1. \A j \in DOMAIN dec' : dec'[j] = NoDecoder
      BY <2>1 DEF Forget
    <3>2. \A j \in DOMAIN dec' : Heard(j)' = Len(NoDecoder.tokens)
      BY <2>1, <3>1 DEF Heard
    <3> QED BY <3>1, <3>2, NothingTimed
  <2>4. result'.segs = <<>> /\ result' \in [segs : Seq(Segment), from : Int, end : Int]
        /\ result'.end <= result'.from /\ result'.from <= seek'
    BY <2>1, <2>2
  <2>5. SegmentsInOrder'
    BY <2>4 DEF SegmentsInOrder
  <2> QED BY <2>1, <2>3, <2>4, <2>5 DEF OrderInv
<1> QED BY <1>1, <1>2

\* The segments before the window end before it: it starts where the last window said,
\* short of the end of the audio.
LEMMA OrderEncode ==
  ASSUME IInv, OrderInv, EncodeWindow
  PROVE  OrderInv'
<1>1. /\ phase = "window" /\ seek + DeltaMin < seek_end /\ phase' = "attempt"
      /\ p' = p /\ seek' = seek /\ dec' = dec /\ n_dec' = n_dec
      /\ result' = [segs |-> <<>>, from |-> seek, end |-> LastEnd]
  BY DEF EncodeWindow, call
<1>2. seek \in Nat /\ seek_end \in Nat /\ seek < seek_end
  <2>1. seek \in Nat /\ seek_end \in Nat /\ DeltaMin \in Nat
    BY Sizes DEF IInv, TypeOK
  <2> QED BY <1>1, <2>1
<1>3. SUFFICES ASSUME ~p.no_timestamps
               PROVE  /\ \A j \in DOMAIN dec' : Timed(dec'[j], Heard(j)')
                      /\ result' \in [segs : Seq(Segment), from : Int, end : Int]
                      /\ result'.end <= result'.from /\ result'.from = seek /\ result'.segs = <<>>
  <2>1. SegmentsInOrder'
    BY <1>1 DEF SegmentsInOrder
  <2> QED BY <1>1, <1>2, <2>1 DEF OrderInv
<1>4. /\ \A j \in DOMAIN dec : Timed(dec[j], Heard(j))
      /\ result \in [segs : Seq(Segment), from : Int, end : Int]
      /\ result.end <= result.from /\ result.from <= seek
      /\ SegmentsInOrder
  BY <1>1, <1>3 DEF OrderInv
<1>5. LastEnd \in Int /\ LastEnd <= seek
  <2>1. CASE result.segs = <<>>
    BY <1>2, <1>4, <2>1 DEF LastEnd
  <2>2. CASE result.segs # <<>>
    <3>1. PICK k : k = Len(result.segs) /\ k \in DOMAIN result.segs
      BY <1>4, <2>2
    <3>2. result.segs[k] \in Segment
      BY <1>4, <3>1
    <3>3. result.segs[k].t1 <= seek \/ seek >= seek_end
      BY <1>1, <1>3, <1>4, <3>1 DEF SegmentsInOrder
    <3>4. LastEnd = result.segs[k].t1
      BY <2>2, <3>1 DEF LastEnd
    <3> QED BY <1>2, <3>2, <3>3, <3>4 DEF Segment
  <2> QED BY <2>1, <2>2
<1>6. \A j \in DOMAIN dec : Heard(j)' = Heard(j)
  BY <1>1 DEF Heard
<1>7. <<>> \in Seq(Segment)
  OBVIOUS
<1> QED BY <1>1, <1>2, <1>4, <1>5, <1>6, <1>7

\* New decoders have heard nothing, and others stay as they were.
LEMMA OrderAttempt ==
  ASSUME IInv, OrderInv, Attempt
  PROVE  OrderInv'
<1>1. CASE phase' = "idle"
  <2>1. Forget
    BY <1>1 DEF Attempt, Decode, Return
  <2> QED BY <1>1, <2>1, OrderIdle
<1>2. CASE phase' # "idle"
  <2>1. phase = "attempt" /\ p' = p /\ seek' = seek /\ result' = result
    BY DEF Attempt, call
  <2>2. PICK n \in Int :
          /\ phase' = "sample"
          /\ dec' = [j \in (0..(n - 1)) \cup DOMAIN dec |-> IF j < n THEN NoDecoder ELSE dec[j]]
    <3>1. p \in Settings /\ it \in 1..Len(Temperatures(p))
      BY DEF IInv, TypeOK, LoopInv
    <3>2. Temp \in Int
      BY <3>1, TemperaturesType DEF Temp
    <3>3. DecodersAt(p, Temp) \in Int
      BY <3>1, <3>2, SettingsType
    <3> QED BY <1>2, <3>3 DEF Attempt, Decode, Return
  <2>3. ASSUME ~p.no_timestamps, NEW j \in DOMAIN dec' PROVE Timed(dec'[j], Heard(j)')
    <3>1. Heard(j)' = Len(dec'[j].tokens)
      BY <2>2 DEF Heard
    <3>2. CASE dec'[j] = NoDecoder
      BY <3>1, <3>2, NothingTimed
    <3>3. CASE dec'[j] # NoDecoder
      <4>1. j \in DOMAIN dec /\ dec'[j] = dec[j]
        BY <2>2, <3>3
      <4>2. Heard(j) = Len(dec[j].tokens) /\ Timed(dec[j], Heard(j))
        BY <2>1, <2>3, <4>1 DEF OrderInv, Heard
      <4> QED BY <3>1, <4>1, <4>2
    <3> QED BY <3>2, <3>3
  <2> QED BY <2>1, <2>2, <2>3, OrderWhileDecoding
<1> QED BY <1>1, <1>2

\* Whoever's sequence a decoder goes on with, the token it samples is one the filters
\* leave there.
LEMMA OrderSampled ==
  ASSUME IInv, OrderInv, phase = "sample", phase' = "update",
         UNCHANGED <<p, seek, n_dec, result>>,
         NEW src \in [Live -> Live], NEW t \in [Live -> Tokens],
         \A j \in Live : t[j] \in Allowed(dec[src[j]]),
         dec' = [j \in DOMAIN dec |-> IF j \in Live THEN Sampled(dec[src[j]], t[j]) ELSE dec[j]]
  PROVE  OrderInv'
<1>1. SUFFICES ASSUME ~p.no_timestamps, NEW j \in DOMAIN dec'
               PROVE  Timed(dec'[j], Heard(j)')
  <2>1. p' = p /\ seek' = seek /\ result' = result
    OBVIOUS
  <2>2. ~p.no_timestamps => \A j \in DOMAIN dec' : Timed(dec'[j], Heard(j)')
    BY <1>1
  <2> QED BY <2>1, <2>2, OrderWhileDecoding
<1>2. /\ j \in DOMAIN dec /\ Live \subseteq DOMAIN dec
      /\ \A k \in DOMAIN dec : dec[k] \in Decoder /\ dec[k].result_len <= Len(dec[k].tokens)
  BY DEF IInv, TypeOK, DataInv, Live
<1>3. \A k \in DOMAIN dec : Timed(dec[k], Len(dec[k].tokens))
  BY <1>1 DEF OrderInv, Heard
<1>4. CASE j \in Live
  <2>1. PICK d : d = dec[src[j]]
    OBVIOUS
  <2>2. /\ d \in Decoder /\ d.result_len <= Len(d.tokens) /\ Timed(d, Len(d.tokens))
        /\ ~d.failed /\ ~d.completed /\ t[j] \in Tokens /\ t[j] \in Allowed(d)
    <3>1. src[j] \in Live
      BY <1>4
    <3> QED BY <1>2, <1>3, <1>4, <2>1, <3>1 DEF Live
  <2>3. dec'[j] = Sampled(d, t[j])
    BY <1>2, <1>4, <2>1
  <2>4. Timed(dec'[j], Len(d.tokens))
    BY <1>1, <2>2, <2>3, SampledTimed
  <2>5. /\ Len(dec'[j].tokens) = Len(d.tokens) + 1 /\ ~dec'[j].failed /\ ~dec'[j].completed
    <3>1. PICK u : u = t[j]
      OBVIOUS
    <3>2. /\ Sampled(d, u).tokens = Append(d.tokens, u)
          /\ Len(Append(d.tokens, u)) = Len(d.tokens) + 1
          /\ Sampled(d, u).failed = d.failed /\ Sampled(d, u).completed = d.completed
      BY <2>2, <3>1, SampledType
    <3>3. dec'[j] = Sampled(d, u)
      BY <2>3, <3>1
    <3> QED BY <2>2, <3>2, <3>3
  <2>6. j \in Live'
    BY <1>4, <2>5 DEF Live
  <2>7. Len(d.tokens) \in Nat
    BY <2>2 DEF Decoder
  <2>8. Heard(j)' = Len(d.tokens)
    BY <2>5, <2>6, <2>7 DEF Heard
  <2> QED BY <2>4, <2>8
<1>5. CASE j \notin Live
  <2>1. dec'[j] = dec[j]
    BY <1>2, <1>5
  <2>2. j \notin Live'
    BY <1>5, <2>1 DEF Live
  <2>3. Heard(j)' = Len(dec[j].tokens)
    BY <2>1, <2>2 DEF Heard
  <2> QED BY <1>2, <1>3, <2>1, <2>3
<1> QED BY <1>4, <1>5

\* Greedily.
LEMMA OrderSampleGreedy ==
  ASSUME IInv, OrderInv, SampleGreedy
  PROVE  OrderInv'
<1>1. phase = "sample" /\ phase' = "update" /\ UNCHANGED <<p, seek, n_dec, result>>
  BY DEF SampleGreedy, call
<1>2. PICK t \in [Live -> Tokens] :
        /\ \A j \in Live : t[j] \in Allowed(dec[j])
        /\ dec' = [j \in DOMAIN dec |-> IF j \in Live THEN Sampled(dec[j], t[j]) ELSE dec[j]]
  BY DEF SampleGreedy
<1>3. PICK src \in [Live -> Live] : \A j \in Live : src[j] = j
  <2>1. [j \in Live |-> j] \in [Live -> Live] /\ \A j \in Live : [k \in Live |-> k][j] = j
    OBVIOUS
  <2> QED BY <2>1
<1>4. /\ \A j \in Live : t[j] \in Allowed(dec[src[j]])
      /\ dec' = [j \in DOMAIN dec |-> IF j \in Live THEN Sampled(dec[src[j]], t[j]) ELSE dec[j]]
  BY <1>2, <1>3
<1> QED BY <1>1, <1>4, OrderSampled

\* With beams.
LEMMA OrderSampleBeam ==
  ASSUME IInv, OrderInv, SampleBeam
  PROVE  OrderInv'
<1>1. phase = "sample" /\ phase' = "update" /\ UNCHANGED <<p, seek, n_dec, result>>
  BY DEF SampleBeam, call
<1> DEFINE Goes(n, c) ==
             LET mine == [j \in Live |-> c[((Place(j) - 1) % n) + 1]]
             IN  /\ \A k \in DOMAIN c : c[k].token \in Allowed(dec[c[k].src])
                 /\ dec' = [j \in DOMAIN dec |->
                              IF j \in Live THEN Sampled(dec[mine[j].src], mine[j].token)
                              ELSE dec[j]]
<1>2. \E n \in 1..Cardinality(Live) : \E c \in [1..n -> [src : Live, token : Tokens]] : Goes(n, c)
  BY DEF SampleBeam, Chosen
<1> HIDE DEF Goes
<1>3. PICK n \in 1..Cardinality(Live) : \E c \in [1..n -> [src : Live, token : Tokens]] : Goes(n, c)
  BY <1>2
<1>4. PICK c \in [1..n -> [src : Live, token : Tokens]] : Goes(n, c)
  BY <1>3
<1>5. /\ Cardinality(Live) \in Nat /\ \A j \in Live : Place(j) \in 1..Cardinality(Live)
  BY Places DEF IInv, TypeOK
<1>6. \A j \in Live : ((Place(j) - 1) % n) + 1 \in 1..n
  <2>1. \A a \in Nat, b \in Nat \ {0} : a % b \in 0..(b - 1)
    OBVIOUS
  <2>2. n \in Nat \ {0} /\ \A j \in Live : Place(j) - 1 \in Nat
    BY <1>5
  <2> TAKE j \in Live
  <2>3. (Place(j) - 1) % n \in 0..(n - 1)
    BY <2>1, <2>2
  <2>4. \A r \in 0..(n - 1) : r + 1 \in 1..n
    BY <2>2
  <2> QED BY <2>3, <2>4
<1> DEFINE mine == [j \in Live |-> c[((Place(j) - 1) % n) + 1]]
<1>7. \A j \in Live : /\ mine[j].src \in Live /\ mine[j].token \in Tokens
                      /\ mine[j].token \in Allowed(dec[mine[j].src])
  <2>1. \A r \in 1..n : c[r].src \in Live /\ c[r].token \in Tokens
    OBVIOUS
  <2>2. \A r \in 1..n : c[r].token \in Allowed(dec[c[r].src])
    BY <1>4 DEF Goes
  <2>3. \A j \in Live : \E r \in 1..n : mine[j] = c[r]
    BY <1>6
  <2> HIDE DEF mine
  <2> QED BY <2>1, <2>2, <2>3
<1>8. PICK src : src = [j \in Live |-> mine[j].src]
  OBVIOUS
<1>9. PICK t : t = [j \in Live |-> mine[j].token]
  OBVIOUS
<1>10. dec' = [j \in DOMAIN dec |->
                 IF j \in Live THEN Sampled(dec[mine[j].src], mine[j].token) ELSE dec[j]]
  BY <1>4 DEF Goes
<1> HIDE DEF mine
<1>11. /\ src \in [Live -> Live] /\ t \in [Live -> Tokens]
       /\ \A j \in Live : t[j] \in Allowed(dec[src[j]])
       /\ dec' = [j \in DOMAIN dec |-> IF j \in Live THEN Sampled(dec[src[j]], t[j]) ELSE dec[j]]
  BY <1>7, <1>8, <1>9, <1>10
<1> QED BY <1>1, <1>11, OrderSampled

\* The last token moves the window, or fails its decoder.
LEMMA OrderUpdate ==
  ASSUME IInv, OrderInv, Update
  PROVE  OrderInv'
<1>1. /\ phase = "update" /\ phase' \in {"rank", "decode"}
      /\ p' = p /\ seek' = seek /\ result' = result
      /\ dec' = [j \in DOMAIN dec |-> IF j \in Live THEN Updated(dec[j]) ELSE dec[j]]
  BY DEF Update, call
<1>2. SUFFICES ASSUME ~p.no_timestamps, NEW j \in DOMAIN dec'
               PROVE  Timed(dec'[j], Heard(j)')
  <2>1. ~p.no_timestamps => \A j \in DOMAIN dec' : Timed(dec'[j], Heard(j)')
    BY <1>2
  <2> QED BY <1>1, <2>1, OrderWhileDecoding
<1>3. j \in DOMAIN dec /\ dec[j] \in Decoder /\ i \in Nat
  BY <1>1, Sizes DEF IInv, DataInv, TypeOK
<1>4. Heard(j)' = Len(dec'[j].tokens) /\ Timed(dec[j], Heard(j))
  BY <1>1, <1>2, <1>3 DEF Heard, OrderInv
<1>5. CASE j \in Live
  <2>1. Len(dec[j].tokens) = i + 1
    BY <1>1, <1>5 DEF IInv, LoopInv, Sampling
  <2>2. Timed(dec[j], i)
    <3>1. Heard(j) = Len(dec[j].tokens) - 1
      BY <1>1, <1>5 DEF Heard
    <3>2. Heard(j) = i
      BY <1>3, <2>1, <3>1
    <3> QED BY <1>4, <3>2
  <2>3. Timed(Updated(dec[j]), i + 1) /\ Updated(dec[j]).tokens = dec[j].tokens
    BY <1>3, <2>1, <2>2, UpdatedTimed
  <2>4. dec'[j] = Updated(dec[j])
    BY <1>1, <1>3, <1>5
  <2> QED BY <1>4, <2>1, <2>3, <2>4
<1>6. CASE j \notin Live
  <2>1. dec'[j] = dec[j] /\ Heard(j) = Len(dec[j].tokens)
    BY <1>1, <1>3, <1>6 DEF Heard
  <2> QED BY <1>4, <2>1
<1> QED BY <1>5, <1>6

\* Decoding touches the cache only.
LEMMA OrderDecodeNext ==
  ASSUME OrderInv, DecodeNext
  PROVE  OrderInv'
<1>1. CASE phase' = "idle"
  <2>1. Forget
    BY <1>1 DEF DecodeNext, Decode, Return
  <2> QED BY <1>1, <2>1, OrderIdle
<1>2. CASE phase' # "idle"
  <2>1. /\ phase = "decode" /\ phase' \in {"sample", "rank"} /\ dec' = dec
        /\ p' = p /\ seek' = seek /\ result' = result
    BY <1>2 DEF DecodeNext, Decode, Return, call
  <2>2. ~p.no_timestamps => \A j \in DOMAIN dec' : Timed(dec'[j], Heard(j)')
    <3>1. \A j : Heard(j)' = Len(dec[j].tokens) /\ Heard(j) = Len(dec[j].tokens)
      BY <2>1 DEF Heard
    <3> QED BY <2>1, <3>1 DEF OrderInv
  <2> QED BY <2>1, <2>2, OrderWhileDecoding
<1> QED BY <1>1, <1>2

\* Ranking cuts tokens off.
LEMMA OrderRank ==
  ASSUME IInv, OrderInv, Rank
  PROVE  OrderInv'
<1>1. /\ phase = "rank" /\ phase' \in {"output", "attempt"}
      /\ p' = p /\ seek' = seek /\ result' = result
  BY DEF Rank, call
<1>2. PICK bad : dec' = [j \in DOMAIN dec |->
                           IF j >= n_dec \/ dec[j].failed THEN dec[j]
                           ELSE [dec[j] EXCEPT !.tokens = SubSeq(@, 1, dec[j].result_len),
                                               !.failed = j \in bad]]
  BY DEF Rank
<1>3. ASSUME ~p.no_timestamps, NEW j \in DOMAIN dec' PROVE Timed(dec'[j], Heard(j)')
  <2>1. /\ j \in DOMAIN dec /\ dec[j] \in Decoder /\ dec[j].result_len <= Len(dec[j].tokens)
    BY <1>2 DEF IInv, DataInv
  <2>2. Heard(j)' = Len(dec'[j].tokens) /\ Heard(j) = Len(dec[j].tokens)
    BY <1>1 DEF Heard
  <2>3. Timed(dec[j], Len(dec[j].tokens))
    BY <1>3, <2>1, <2>2 DEF OrderInv
  <2> DEFINE d == dec[j]
  <2>5. ASSUME NEW b \in BOOLEAN,
               dec'[j] = [d EXCEPT !.tokens = SubSeq(@, 1, d.result_len), !.failed = b]
        PROVE  Timed(dec'[j], Len(dec'[j].tokens))
    BY <2>1, <2>3, <2>5, CutTimed
  <2>6. CASE dec'[j] = d
    BY <2>2, <2>3, <2>6
  <2>7. CASE dec'[j] = [d EXCEPT !.tokens = SubSeq(@, 1, d.result_len), !.failed = j \in bad]
    <3>1. (j \in bad) = TRUE \/ (j \in bad) = FALSE
      OBVIOUS
    <3> HIDE DEF d
    <3>2. \/ dec'[j] = [d EXCEPT !.tokens = SubSeq(@, 1, d.result_len), !.failed = TRUE]
          \/ dec'[j] = [d EXCEPT !.tokens = SubSeq(@, 1, d.result_len), !.failed = FALSE]
      BY <2>7, <3>1
    <3>3. Timed(dec'[j], Len(dec'[j].tokens))
      BY <2>5, <3>2
    <3> QED BY <2>2, <3>3
  <2> QED BY <1>2, <2>1, <2>2, <2>6, <2>7
<1> QED BY <1>1, <1>3, OrderWhileDecoding

\* The segments of the window are in order, and the next window starts after them.
LEMMA OrderOutput ==
  ASSUME IInv, OrderInv, Output
  PROVE  OrderInv'
<1> DEFINE d == dec[best]
<1>1. /\ phase = "output" /\ phase' = "window" /\ Forget /\ p' = p /\ seek_end' = seek_end
      /\ seek' = seek + (IF SingleTimestampEnding(d.tokens) THEN AtMost(seek_end - seek, Chunk)
                         ELSE d.seek_delta)
  BY DEF Output, call
<1>2. \/ result' = result
      \/ d.tokens # <<>> /\ \E tid \in FrontTids(d.tokens[1]) :
           result' = [result EXCEPT !.segs = Segments(d.tokens, seek + 2 * tid, seek + d.seek_delta)]
  BY DEF Output
<1>3. /\ best \in DOMAIN dec /\ d \in Decoder /\ seek \in Nat /\ seek_end \in Nat
      /\ seek < seek_end /\ Chunk \in Nat
  <2>1. seek + DeltaMin < seek_end /\ DeltaMin \in Nat /\ seek \in Nat /\ seek_end \in Nat
    BY <1>1, Sizes DEF IInv, LoopInv, TypeOK
  <2> QED BY <2>1, Sizes DEF IInv, TypeOK, DataInv
<1>4. d.tokens \in Seq(Tokens) /\ d.seek_delta \in Nat \ {0}
  BY <1>3 DEF Decoder
<1> HIDE DEF d
<1>5. \A j \in DOMAIN dec' : Timed(dec'[j], Heard(j)')
  <2>1. \A j \in DOMAIN dec' : dec'[j] = NoDecoder
    BY <1>1 DEF Forget
  <2>2. \A j \in DOMAIN dec' : Heard(j)' = Len(NoDecoder.tokens)
    BY <1>1, <2>1 DEF Heard
  <2> QED BY <2>1, <2>2, NothingTimed
<1>6. seek' \in Nat /\ seek <= seek' /\ (seek' >= seek + d.seek_delta \/ seek' >= seek_end \/ seek' = seek + Chunk)
  BY <1>1, <1>3, <1>4 DEF AtMost
<1>7. SUFFICES ASSUME ~p.no_timestamps
               PROVE  /\ result' \in [segs : Seq(Segment), from : Int, end : Int]
                      /\ result'.end <= result'.from /\ result'.from <= seek'
                      /\ SegmentsInOrder'
  BY <1>1, <1>5 DEF OrderInv
<1>8. /\ Timed(d, Len(d.tokens))
      /\ result \in [segs : Seq(Segment), from : Int, end : Int]
      /\ result.end <= result.from /\ result.from = seek /\ result.segs = <<>>
  <2>1. Heard(best) = Len(d.tokens)
    BY <1>1 DEF Heard, d
  <2> QED BY <1>1, <1>3, <1>7, <2>1 DEF OrderInv, d
<1>9. CASE result' = result
  <2>1. SegmentsInOrder'
    BY <1>8, <1>9 DEF SegmentsInOrder
  <2> QED BY <1>6, <1>8, <1>9, <2>1
<1>10. ASSUME d.tokens # <<>>, NEW tid \in FrontTids(d.tokens[1]),
              result' = [result EXCEPT !.segs = Segments(d.tokens, seek + 2 * tid, seek + d.seek_delta)]
       PROVE  /\ result' \in [segs : Seq(Segment), from : Int, end : Int]
              /\ result'.end <= result'.from /\ result'.from <= seek'
              /\ SegmentsInOrder'
  <2>1. PICK segs : segs = Segments(d.tokens, seek + 2 * tid, seek + d.seek_delta)
    OBVIOUS
  <2>2. segs \in Seq(Segment) /\ Chain(segs, seek + d.seek_delta)
    <3>1. Increasing(d.tokens) /\ \A k \in 1..Len(d.tokens) : 2 * d.tokens[k] <= d.seek_delta
      BY <1>8 DEF Timed
    <3> QED BY <1>3, <1>4, <1>7, <1>10, <2>1, <3>1, SegmentsOrdered
  <2>3. /\ result'.segs = segs /\ result'.from = seek /\ result'.end = result.end
        /\ result' \in [segs : Seq(Segment), from : Int, end : Int]
    BY <1>8, <1>10, <2>1, <2>2
  <2>4. d.seek_delta <= Chunk
    BY <1>8 DEF Timed
  <2>5. ASSUME NEW k \in DOMAIN segs
        PROVE  /\ (IF k = 1 THEN result.end ELSE segs[k - 1].t1) <= segs[k].t0
               /\ segs[k].t0 <= segs[k].t1 \/ (k = 1 /\ segs[k].t0 <= seek + 2 * MaxInitialTs)
               /\ seek <= segs[k].t1 /\ (segs[k].t1 <= seek' \/ seek' >= seek_end)
    <3>1. segs[k] \in Segment
      BY <2>2
    <3>2. segs[k].t0 \in Int /\ segs[k].t1 \in Int
      BY <3>1 DEF Segment
    <3>3. /\ (IF k = 1 THEN seek ELSE segs[k - 1].t1) <= segs[k].t0
          /\ segs[k].t0 <= segs[k].t1 \/ (k = 1 /\ segs[k].t0 <= seek + 2 * MaxInitialTs)
          /\ seek <= segs[k].t1 /\ segs[k].t1 <= seek + d.seek_delta
      BY <2>2 DEF Chain
    <3>4. (IF k = 1 THEN result.end ELSE segs[k - 1].t1) <= segs[k].t0
      BY <1>3, <1>8, <3>2, <3>3
    <3>5. segs[k].t1 <= seek' \/ seek' >= seek_end
      BY <1>3, <1>4, <1>6, <2>4, <3>2, <3>3
    <3> QED BY <3>3, <3>4, <3>5
  <2>6. SegmentsInOrder'
    BY <1>1, <2>3, <2>5 DEF SegmentsInOrder
  <2> QED BY <1>6, <1>8, <2>3, <2>6
<1> QED BY <1>2, <1>9, <1>10

\* Every step keeps the order.
LEMMA OrderStep ==
  ASSUME IInv, OrderInv, [Next]_vars
  PROVE  OrderInv'
<1>1. ASSUME UNCHANGED vars PROVE OrderInv'
  <2>1. UNCHANGED <<p, phase, seek, dec, n_dec, seek_end, result>>
    BY <1>1 DEF vars, call
  <2> QED BY <2>1, OrderKept
<1>2. ASSUME NEW s \in Settings, NEW n_len \in AudioLens, Call(s, n_len) PROVE OrderInv'
  BY <1>2, OrderCall
<1>3. ASSUME EndOfAudio \/ StopBeforeEncoder PROVE OrderInv'
  <2>1. Forget /\ phase' = "idle"
    BY <1>3 DEF EndOfAudio, StopBeforeEncoder, Return
  <2> QED BY <2>1, OrderIdle
<1>4. ASSUME Work PROVE OrderInv'
  BY <1>3, <1>4, OrderEncode, OrderAttempt, OrderSampleGreedy, OrderSampleBeam, OrderUpdate,
     OrderDecodeNext, OrderRank, OrderOutput DEF Work
<1> QED BY <1>1, <1>2, <1>4 DEF Next, NoMoreCalls

\* Across fallbacks, decoders that fail, beams and windows, a segment starts no earlier
\* than the one before it ended, and the next window no earlier than the segments end.
THEOREM TimesNeverGoBack == Spec => []SegmentsInOrder
<1>1. Init => IInv /\ OrderInv
  <2> SUFFICES ASSUME Init PROVE OrderInv
    BY InitOK
  <2>1. phase = "idle" /\ DOMAIN dec = {0} /\ \A j \in DOMAIN dec : dec[j] = NoDecoder
    BY DEF Init
  <2>2. \A j \in DOMAIN dec : Heard(j) = Len(NoDecoder.tokens)
    BY <2>1 DEF Heard
  <2>3. SegmentsInOrder
    BY <2>1 DEF SegmentsInOrder
  <2> QED BY <2>1, <2>2, <2>3, NothingTimed DEF OrderInv
<1>2. IInv /\ OrderInv /\ [Next]_vars => IInv' /\ OrderInv'
  BY StepOK, OrderStep
<1>3. OrderInv => SegmentsInOrder
  BY DEF OrderInv, SegmentsInOrder
<1> QED BY <1>1, <1>2, <1>3, PTL DEF Spec
=============================================================================
