-------------------------- MODULE ThreadPoolProofs --------------------------
(***************************************************************************)
(* First the computation of a graph (GraphCompute), for any number of      *)
(* threads, any graph and any numbers of chunks.  A barrier cuts it into   *)
(* stretches.  The threads of the team are all in one, but for those the   *)
(* barrier has released and that have not yet noticed; everything about    *)
(* the data follows from which one it is.                                  *)
(*                                                                         *)
(* Then the pool, which hands its graphs over one at a time, for any       *)
(* number of workers, of graphs, of pauses, and any graph: as long as      *)
(* every graph is for as many threads (Steady), no worker acts on the      *)
(* state of a graph when it is replaced, and what ggml_graph_compute       *)
(* returns is complete.  The stretches carry over from one graph to the    *)
(* next: a worker still leaving the last barrier of a graph is Released at *)
(* "finish", and one that has not entered the next is "out", both in the   *)
(* stretch "loop", -1 of the next graph.                                   *)
(***************************************************************************)
EXTENDS ThreadPool, FiniteSetTheorems, TLAPS

Team == 0..(n_threads_cur - 1)

-----------------------------------------------------------------------------
(* The barrier.                                                            *)

\* t may leave; as long as it waits nobody can pass the next barrier.
Released(t) == bar[t] = "waiting" /\ seen[t] # n_barrier_passed

Arrived == {t \in Team : bar[t] \in {"waiting", "last"} /\ seen[t] = n_barrier_passed}

\* n_barrier counts the arrived; the last to arrive finds all others waiting; and
\* whoever is inside has seen the present n_passed, or is released.
BarrierInv ==
  /\ \A t \in Threads \ Team : bar[t] = "out"
  /\ \A t \in Team : bar[t] # "out" =>
       seen[t] = n_barrier_passed \/ (bar[t] = "waiting" /\ seen[t] = n_barrier_passed - 1)
  /\ \A t \in Team : bar[t] \in {"last", "opening"} =>
       \A s \in Team \ {t} : bar[s] = "waiting" /\ seen[s] = n_barrier_passed
  /\ n_barrier = IF \E t \in Team : bar[t] = "opening" THEN 0 ELSE Cardinality(Arrived)

LEMMA TeamSize ==
  ASSUME BarrierTypeOK
  PROVE  /\ Team \subseteq Threads /\ 0 \in Team
         /\ IsFiniteSet(Team) /\ Cardinality(Team) = n_threads_cur
         /\ \A S \in SUBSET Team : IsFiniteSet(S) /\ Cardinality(S) \in 0..n_threads_cur
<1>1. n_threads_cur \in Nat \ {0} /\ MaxThreads \in Nat /\ n_threads_cur <= MaxThreads
  BY ThreadsAssumption DEF BarrierTypeOK
<1>2. Team \subseteq Threads /\ 0 \in Team
  BY <1>1 DEF Team, Threads
<1>3. IsFiniteSet(Team) /\ Cardinality(Team) = n_threads_cur
  BY <1>1, FS_Interval DEF Team
<1>4. ASSUME NEW S \in SUBSET Team
      PROVE  IsFiniteSet(S) /\ Cardinality(S) \in 0..n_threads_cur
  BY <1>1, <1>3, FS_Subset, FS_CardinalityType
<1> QED BY <1>2, <1>3, <1>4

LEMMA Reads ==
  ASSUME BarrierTypeOK, BarrierInv, NEW t \in Team, ReadPassed(t), UNCHANGED n_threads_cur
  PROVE  /\ BarrierTypeOK' /\ BarrierInv'
         /\ \A s \in Team : Released(s)' <=> Released(s)
<1> USE DEF ReadPassed, BarrierTypeOK, BarrierPoints
<1>1. t \in Threads /\ Team' = Team
  BY TeamSize DEF Team
<1>2. BarrierTypeOK'
  BY <1>1
<1>3. Arrived' = Arrived
  BY <1>1 DEF Arrived, Team, Threads
<1>4. BarrierInv'
  BY <1>1, <1>3, TeamSize DEF BarrierInv
<1> QED BY <1>1, <1>2, <1>4, TeamSize DEF Released

LEMMA Arrives ==
  ASSUME BarrierTypeOK, BarrierInv, NEW t \in Team, Arrive(t), UNCHANGED n_threads_cur
  PROVE  /\ BarrierTypeOK' /\ BarrierInv'
         /\ \A s \in Team : Released(s)' <=> Released(s)
<1> USE DEF Arrive, BarrierTypeOK, BarrierPoints
<1>1. t \in Threads /\ Team' = Team /\ Team \subseteq Threads
  BY TeamSize DEF Team
<1>2. seen[t] = n_barrier_passed /\ t \notin Arrived /\ Arrived \in SUBSET (Team \ {t})
  BY <1>1 DEF BarrierInv, Arrived
<1>3. \A s \in Team : bar[s] \notin {"last", "opening"}
  BY DEF BarrierInv
<1>4. Arrived' = Arrived \cup {t}
  BY <1>1, <1>2 DEF Arrived
<1>5. /\ IsFiniteSet(Team \ {t}) /\ Cardinality(Team \ {t}) = n_threads_cur - 1
      /\ IsFiniteSet(Arrived) /\ Cardinality(Arrived) \in Nat
      /\ Cardinality(Arrived) <= n_threads_cur - 1
      /\ Cardinality(Arrived) = n_threads_cur - 1 => Arrived = Team \ {t}
  <2>1. IsFiniteSet(Team) /\ Cardinality(Team) = n_threads_cur /\ n_threads_cur \in Nat
    BY TeamSize
  <2>2. IsFiniteSet(Team \ {t}) /\ Cardinality(Team \ {t}) = n_threads_cur - 1
    BY <2>1, FS_RemoveElement
  <2>3. /\ IsFiniteSet(Arrived) /\ Cardinality(Arrived) <= Cardinality(Team \ {t})
        /\ Cardinality(Team \ {t}) = Cardinality(Arrived) => Team \ {t} = Arrived
    BY <1>2, <2>2, FS_Subset
  <2>4. Cardinality(Arrived) \in Nat
    BY <2>3, FS_CardinalityType
  <2> QED BY <2>2, <2>3, <2>4
<1>6. n_barrier = Cardinality(Arrived) /\ n_barrier' = Cardinality(Arrived')
  <2>1. n_barrier = Cardinality(Arrived)
    BY <1>3 DEF BarrierInv
  <2>2. Cardinality(Arrived \cup {t}) = Cardinality(Arrived) + 1
    BY <1>2, <1>5, FS_AddElement
  <2> QED BY <1>4, <2>1, <2>2
<1>7. BarrierTypeOK'
  BY <1>1, <1>5, <1>6, ThreadsAssumption
<1>8. ASSUME bar'[t] = "last", NEW s \in Team \ {t}
      PROVE  bar[s] = "waiting" /\ seen[s] = n_barrier_passed
  BY <1>1, <1>3, <1>5, <1>6, <1>8 DEF Arrived
<1>9. BarrierInv'
  BY <1>1, <1>2, <1>3, <1>6, <1>8 DEF BarrierInv
<1> QED BY <1>1, <1>2, <1>7, <1>9 DEF Released

LEMMA Resets ==
  ASSUME BarrierTypeOK, BarrierInv, NEW t \in Team, ResetCount(t), UNCHANGED n_threads_cur
  PROVE  /\ BarrierTypeOK' /\ BarrierInv'
         /\ \A s \in Team : Released(s)' <=> Released(s)
<1> USE DEF ResetCount, BarrierTypeOK, BarrierPoints
<1>1. t \in Threads /\ Team' = Team /\ Team \subseteq Threads
  BY TeamSize DEF Team
<1>2. BarrierTypeOK'
  BY <1>1, ThreadsAssumption
<1>3. \A s \in Team \ {t} : bar[s] = "waiting" /\ seen[s] = n_barrier_passed
  BY DEF BarrierInv
<1>4. \E s \in Team' : bar'[s] = "opening"
  BY <1>1
<1>5. BarrierInv'
  BY <1>1, <1>3, <1>4 DEF BarrierInv
<1> QED BY <1>1, <1>2, <1>5 DEF Released

\* A thread leaves because it was released, or it opens the barrier for all others.
LEMMA Leaves ==
  ASSUME BarrierTypeOK, BarrierInv, NEW t \in Team, LeaveBarrier(t), UNCHANGED n_threads_cur
  PROVE  /\ BarrierTypeOK' /\ BarrierInv'
         /\ bar'[t] = "out" /\ \A s \in Threads \ {t} : bar'[s] = bar[s]
         /\ ~Released(t)'
         /\ \/ Released(t) /\ \A s \in Team \ {t} : Released(s)' <=> Released(s)
            \/ /\ ~Released(t)
               /\ \A s \in Team \ {t} : bar[s] = "waiting" /\ ~Released(s) /\ Released(s)'
<1> USE DEF BarrierTypeOK, BarrierPoints
<1>1. t \in Threads /\ Team' = Team /\ Team \subseteq Threads
  BY TeamSize DEF Team
<1>2. CASE Open(t)
  <2> USE <1>2 DEF Open
  <2>1. \A s \in Team \ {t} : bar[s] = "waiting" /\ seen[s] = n_barrier_passed
    BY DEF BarrierInv
  <2>2. Arrived' = {}
    BY <1>1, <2>1 DEF Arrived
  <2>3. n_barrier' = Cardinality(Arrived') /\ \A s \in Team' : bar'[s] # "opening"
    BY <1>1, <2>1, <2>2, FS_EmptySet DEF BarrierInv
  <2>4. BarrierTypeOK' /\ BarrierInv'
    BY <1>1, <2>1, <2>3 DEF BarrierInv
  <2> QED BY <1>1, <2>1, <2>4 DEF Released
<1>3. CASE Pass(t)
  <2> USE <1>3 DEF Pass
  <2>1. Arrived' = Arrived
    BY <1>1 DEF Arrived
  <2>2. \A s \in Team : bar[s] \notin {"last", "opening"}
    BY DEF BarrierInv
  <2>3. BarrierTypeOK' /\ BarrierInv'
    BY <1>1, <2>1, <2>2 DEF BarrierInv
  <2> QED BY <1>1, <2>3 DEF Released
<1>4. CASE Alone(t)
  <2> USE <1>4 DEF Alone, barrierVars
  <2>1. Arrived' = Arrived /\ Team = {t}
    BY <1>1 DEF Arrived, Team
  <2>2. BarrierTypeOK' /\ BarrierInv'
    BY <1>1, <2>1 DEF BarrierInv
  <2> QED BY <1>1, <2>1, <2>2 DEF Released
<1> QED BY <1>2, <1>3, <1>4 DEF LeaveBarrier

-----------------------------------------------------------------------------
(* The stretches.  "loop" n is what follows the barrier after node n (and  *)
(* the beginning, for n = -1) up to the next barrier, at the first node    *)
(* that is not empty or at the end; "chunks" n is from the barrier within  *)
(* node n to the one after it; "done" follows the last barrier.            *)

Empty(i, j) == \A m \in Nodes : i <= m /\ m < j => Chunks[m] = 0

\* Where a thread of the team may be in stretch k, n; at its beginning it may not
\* have been told of the graph yet.
In(t, k, n) ==
  \/ /\ k = "loop"
     /\ \/ at[t] = "out" /\ n = -1
        \/ at[t] = "loop" /\ n < node[t] /\ Empty(n + 1, node[t])
           /\ (abort = n + 1 => node[t] = n + 1)
        \/ at[t] \in {"convert", "ready"} /\ n < node[t] /\ node[t] < NNodes
           /\ Chunks[node[t]] # 0 /\ Empty(n + 1, node[t]) /\ abort # n + 1
        \/ at[t] = "finish" /\ (abort = n + 1 \/ Empty(n + 1, NNodes))
  \/ /\ k = "chunks"
     /\ \/ at[t] \in {"chunk", "take", "computed"} /\ node[t] = n
        \/ at[t] = "sync" /\ node[t] = n /\ n + 1 < NNodes
        \/ at[t] = "loop" /\ node[t] = NNodes /\ n + 1 = NNodes
        \/ at[t] = "finish" /\ n + 1 = NNodes
  \/ k = "done" /\ at[t] = "out"

\* The barrier before the stretch; that before the beginning is the last graph's.
Before(t, k, n) ==
  \/ k = "loop" /\ IF n = -1 THEN at[t] = "finish" ELSE at[t] = "sync" /\ node[t] = n
  \/ k = "chunks" /\ at[t] = "ready" /\ node[t] = n
  \/ k = "done" /\ at[t] = "finish"

Control(k, n) ==
  /\ \/ k = "loop" /\ n \in -1..(NNodes - 1)
     \/ k = "chunks" /\ n \in Nodes /\ Chunks[n] # 0
     \/ k = "done" /\ n = NNodes
  /\ \A t \in Team : IF Released(t) THEN Before(t, k, n) ELSE In(t, k, n)
  /\ \A t \in Team : bar[t] # "out" => at[t] \in BarrierCalls
  /\ \A t \in Team : at[t] # "out" => nth[t] = n_threads_cur
  /\ \A t \in Threads \ Team : at[t] = "out"
  /\ k # "done" => abort \in {-1, n + 1}
  /\ abort = -1 <=> ec = "success"

\* Every chunk of m was computed, once.
Finished(m) ==
  Chunks[m] # 0 => \A c \in 0..(NChunks(m, n_threads_cur) - 1) : done[m][c] = 1

Untouched(m) == \A c \in Slots(m) : done[m][c] = 0

\* Chunk c is t's: its first, or the one it took last.
Holds(t, c) == IF Released(t) THEN c = t ELSE at[t] = "chunk" /\ c = chunk[t]

\* In the chunks of a node: those below current_chunk that nobody holds are
\* computed, no chunk has two holders, and who needs no more has seen the end.
ChunksInv(n) ==
  /\ n_threads_cur <= current_chunk
  /\ \A t \in Team : wdata[t] = n
  /\ \A t \in Team : ~Released(t) /\ at[t] \notin {"chunk", "take"} =>
       NChunks(n, n_threads_cur) <= current_chunk
  /\ \A t \in Team : \A c \in Nat : Holds(t, c) => c < current_chunk
  /\ \A s, t \in Team : \A c \in Nat : Holds(s, c) /\ Holds(t, c) => s = t
  /\ \A c \in 0..(NChunks(n, n_threads_cur) - 1) :
       done[n][c] = IF c < current_chunk /\ \A t \in Team : ~Holds(t, c) THEN 1 ELSE 0

Data(k, n) ==
  /\ k = "loop" =>
       /\ \A m \in Nodes : m <= n => Finished(m)
       /\ \A m \in Nodes : m > n => Untouched(m)
       /\ \A t \in Team : at[t] = "ready" /\ ~Released(t) => wdata[t] = node[t]
       /\ at[0] = "ready" => current_chunk = n_threads_cur
  /\ k = "chunks" =>
       /\ \A m \in Nodes : m < n => Finished(m)
       /\ \A m \in Nodes : m > n => Untouched(m)
       /\ ChunksInv(n)
  /\ k = "done" => (ec = "success" => \A m \in Nodes : Finished(m))

Stretch(k, n) == Control(k, n) /\ Data(k, n)

LEMMA Quietly ==
  ASSUME BarrierTypeOK, BarrierInv, UNCHANGED <<n_threads_cur, barrierVars>>
  PROVE  /\ BarrierTypeOK' /\ BarrierInv' /\ Team' = Team
         /\ \A s : Released(s)' <=> Released(s)
BY DEF BarrierTypeOK, BarrierInv, Arrived, Team, barrierVars, Released

LEMMA Stutters ==
  ASSUME TypeOK, BarrierInv, UNCHANGED vars
  PROVE  /\ TypeOK' /\ BarrierInv' /\ Team' = Team
         /\ \A s : Released(s)' <=> Released(s)
         /\ \A k, n : Stretch(k, n) => Stretch(k, n)'
<1> USE DEF vars, threadVars, graphVars
<1>1. BarrierTypeOK' /\ BarrierInv' /\ Team' = Team /\ \A s : Released(s)' <=> Released(s)
  BY Quietly DEF TypeOK
<1>2. TypeOK'
  BY <1>1 DEF TypeOK
<1>3. ASSUME NEW k, NEW n, Stretch(k, n)
      PROVE  Stretch(k, n)'
  <2>1. /\ \A s : (In(s, k, n)' <=> In(s, k, n)) /\ (Before(s, k, n)' <=> Before(s, k, n))
        /\ \A s, c : Holds(s, c)' <=> Holds(s, c)
        /\ \A m : (Finished(m)' <=> Finished(m)) /\ (Untouched(m)' <=> Untouched(m))
    BY <1>1 DEF In, Before, Holds, Finished, Untouched
  <2>2. Control(k, n)'
    BY <1>1, <1>3, <2>1 DEF Stretch, Control, barrierVars
  <2>3. ChunksInv(n)' <=> ChunksInv(n)
    BY <1>1, <2>1 DEF ChunksInv
  <2>4. Data(k, n)'
    BY <1>1, <1>3, <2>1, <2>3 DEF Stretch, Data
  <2> QED BY <2>2, <2>4 DEF Stretch
<1> QED BY <1>1, <1>2, <1>3

LEMMA Sizes ==
  ASSUME TypeOK, NEW n \in Nodes
  PROVE  /\ n_threads_cur \in Nat \ {0} /\ n \in Nat /\ n < NNodes /\ NNodes \in Nat
         /\ NChunks(n, n_threads_cur) \in Nat /\ n_threads_cur <= NChunks(n, n_threads_cur)
         /\ 0..(NChunks(n, n_threads_cur) - 1) \subseteq Slots(n)
         /\ Slots(n) \subseteq Nat
<1>1. Chunks[n] \in Nat /\ n_threads_cur \in Nat \ {0} /\ MaxThreads \in Nat
      /\ n_threads_cur <= MaxThreads /\ n \in Nat /\ n < NNodes /\ NNodes \in Nat
  BY GraphAssumption, ThreadsAssumption DEF TypeOK, BarrierTypeOK, Nodes
<1> QED BY <1>1 DEF NChunks, Slots

-----------------------------------------------------------------------------
(* The steps of a thread outside the barrier keep the stretch.             *)

LEMMA ControlKept ==
  ASSUME TypeOK, NEW k, NEW n, Control(k, n), NEW t \in Team,
         UNCHANGED <<n_threads_cur, barrierVars>>,
         (abort' = abort /\ ec' = ec) \/ (k = "chunks" /\ abort' = n + 1 /\ ec' = "aborted"),
         \A s \in Threads \ {t} : at'[s] = at[s] /\ nth'[s] = nth[s] /\ node'[s] = node[s],
         IF Released(t) THEN Before(t, k, n)' ELSE In(t, k, n)',
         bar[t] # "out" => at'[t] \in BarrierCalls,
         at'[t] # "out" => nth'[t] = n_threads_cur
  PROVE  Control(k, n)'
<1>1. Team' = Team /\ Team \subseteq Threads /\ bar' = bar
      /\ \A s : Released(s)' <=> Released(s)
  BY TeamSize DEF Team, TypeOK, Released, barrierVars
<1>2. \A s \in Team \ {t} : (In(s, k, n)' <=> In(s, k, n)) /\ (Before(s, k, n)' <=> Before(s, k, n))
  BY <1>1 DEF In, Before
<1>3. \A s \in Team' : IF Released(s)' THEN Before(s, k, n)' ELSE In(s, k, n)'
  BY <1>1, <1>2 DEF Control
<1>4. \A s \in Team' : bar'[s] # "out" => at'[s] \in BarrierCalls
  BY <1>1 DEF Control
<1>5. \A s \in Team' : at'[s] # "out" => nth'[s] = n_threads_cur'
  BY <1>1 DEF Control
<1>6. \A s \in Threads \ Team' : at'[s] = "out"
  BY <1>1 DEF Control
<1>7. (k # "done" => abort' \in {-1, n + 1}) /\ (abort' = -1 <=> ec' = "success")
  BY DEF Control, Nodes
<1> QED BY <1>3, <1>4, <1>5, <1>6, <1>7 DEF Control

LEMMA LoopDataKept ==
  ASSUME TypeOK, NEW k, NEW n, Data(k, n), k = "loop", NEW t \in Team,
         UNCHANGED <<n_threads_cur, barrierVars, done>>,
         \A s \in Threads \ {t} : at'[s] = at[s] /\ node'[s] = node[s] /\ wdata'[s] = wdata[s],
         at'[t] = "ready" => wdata'[t] = node'[t],
         IF t = 0 THEN at'[0] = "ready" => current_chunk' = n_threads_cur
                  ELSE UNCHANGED current_chunk
  PROVE  Data(k, n)'
<1>1. Team' = Team /\ Team \subseteq Threads /\ \A s : Released(s)' <=> Released(s)
  BY TeamSize DEF Team, TypeOK, Released, barrierVars
<1>2. \A m \in Nodes : (Finished(m)' <=> Finished(m)) /\ (Untouched(m)' <=> Untouched(m))
  BY DEF Finished, Untouched
<1>3. \A s \in Team' : at'[s] = "ready" /\ ~Released(s)' => wdata'[s] = node'[s]
  BY <1>1 DEF Data
<1>4. at'[0] = "ready" => current_chunk' = n_threads_cur'
  BY <1>1, TeamSize DEF Data, TypeOK
<1> QED BY <1>2, <1>3, <1>4 DEF Data

LEMMA ChunksDataKept ==
  ASSUME TypeOK, NEW k, NEW n \in Nodes, Data(k, n), k = "chunks", NEW t \in Team,
         UNCHANGED <<n_threads_cur, barrierVars, done, current_chunk, wdata>>,
         \A s \in Threads \ {t} : at'[s] = at[s] /\ chunk'[s] = chunk[s],
         \A c \in Nat : Holds(t, c)' => Holds(t, c),
         \A c \in 0..(NChunks(n, n_threads_cur) - 1) : Holds(t, c) => Holds(t, c)',
         at'[t] \in {"chunk", "take"} \/ NChunks(n, n_threads_cur) <= current_chunk
  PROVE  Data(k, n)'
<1>1. Team' = Team /\ Team \subseteq Threads /\ \A s : Released(s)' <=> Released(s)
  BY TeamSize DEF Team, TypeOK, Released, barrierVars
<1>2. \A m \in Nodes : (Finished(m)' <=> Finished(m)) /\ (Untouched(m)' <=> Untouched(m))
  BY DEF Finished, Untouched
<1>3. \A s \in Team \ {t} : \A c \in Nat : Holds(s, c)' <=> Holds(s, c)
  BY <1>1 DEF Holds
<1>4. ChunksInv(n) /\ NChunks(n, n_threads_cur) \in Nat
  BY Sizes DEF Data
<1>5. \A s, u \in Team' : \A c \in Nat : Holds(s, c)' /\ Holds(u, c)' => s = u
  BY <1>1, <1>3, <1>4 DEF ChunksInv
<1>6. \A s \in Team' : \A c \in Nat : Holds(s, c)' => c < current_chunk'
  BY <1>1, <1>3, <1>4 DEF ChunksInv
<1>7. ASSUME NEW c \in 0..(NChunks(n, n_threads_cur) - 1)
      PROVE  (\A s \in Team' : ~Holds(s, c)') <=> (\A s \in Team : ~Holds(s, c))
  BY <1>1, <1>3, <1>4
<1>8. \A c \in 0..(NChunks(n, n_threads_cur') - 1) :
        done'[n][c] = IF c < current_chunk' /\ \A s \in Team' : ~Holds(s, c)' THEN 1 ELSE 0
  BY <1>4, <1>7 DEF ChunksInv
<1>9. \A s \in Team' : ~Released(s)' /\ at'[s] \notin {"chunk", "take"} =>
        NChunks(n, n_threads_cur') <= current_chunk'
  BY <1>1, <1>4 DEF ChunksInv
<1>10. ChunksInv(n)'
  BY <1>1, <1>4, <1>5, <1>6, <1>8, <1>9 DEF ChunksInv
<1> QED BY <1>2, <1>10 DEF Data

\* What is known of a thread at the head of the loop with a node to look at.
LooksForWork(t, k, n) ==
  /\ k = "loop" /\ n \in -1..(NNodes - 1)
  /\ ~Released(t) /\ bar[t] = "out" /\ nth[t] = n_threads_cur
  /\ node[t] \in Nodes /\ n < node[t] /\ Empty(n + 1, node[t]) /\ abort # n + 1

LEMMA LoopIsOneStretch ==
  ASSUME TypeOK, NEW k, NEW n, Control(k, n), NEW t \in Team, InLoop(t)
  PROVE  LooksForWork(t, k, n)
<1>1. t \in Threads /\ node[t] \in Nodes /\ NNodes \in Nat /\ at[t] = "loop" /\ abort # node[t]
  BY TeamSize, GraphAssumption DEF TypeOK, Nodes, InLoop
<1>2. bar[t] = "out" /\ nth[t] = n_threads_cur /\ ~Released(t)
  BY <1>1 DEF Control, BarrierCalls, Released
<1>3. In(t, k, n)
  BY <1>2 DEF Control
<1>4. k = "loop" /\ n < node[t] /\ Empty(n + 1, node[t]) /\ abort # n + 1
  BY <1>1, <1>3 DEF In, Nodes
<1> QED BY <1>1, <1>2, <1>4 DEF LooksForWork, Control

LEMMA SkipEmptyKeeps ==
  ASSUME TypeOK, BarrierInv, NEW k, NEW n, Stretch(k, n), NEW t \in Team, SkipEmpty(t)
  PROVE  TypeOK' /\ BarrierInv' /\ Stretch(k, n)'
<1> USE DEF SkipEmpty, InLoop, graphVars
<1>0. /\ BarrierTypeOK /\ BarrierTypeOK' /\ BarrierInv' /\ Team' = Team
      /\ \A s : Released(s)' <=> Released(s)
  BY Quietly DEF TypeOK
<1>1. t \in Threads /\ Team \subseteq Threads /\ node[t] \in Nodes /\ NNodes \in Nat
      /\ Nodes \subseteq Nat
  <2>1. t \in Threads /\ Team \subseteq Threads
    BY <1>0, TeamSize
  <2>2. NNodes \in Nat /\ node[t] \in 0..NNodes /\ node[t] < NNodes
    BY <2>1, GraphAssumption DEF TypeOK
  <2> QED BY <2>1, <2>2 DEF Nodes
<1>2. TypeOK'
  <2>1. node[t] + 1 \in 0..NNodes
    BY <1>1 DEF Nodes
  <2>2. node' \in [Threads -> 0..NNodes]
    BY <1>1, <2>1 DEF TypeOK
  <2> QED BY <1>0, <2>2 DEF TypeOK, Slots
<1>3. LooksForWork(t, k, n) /\ abort # node[t]
  BY LoopIsOneStretch DEF Stretch
<1>4. In(t, k, n)'
  <2>1. Empty(n + 1, node[t] + 1)
    BY <1>1, <1>3 DEF Empty, LooksForWork, Nodes
  <2>2. node'[t] = node[t] + 1 /\ at'[t] = "loop"
    BY <1>1 DEF TypeOK
  <2> QED BY <1>1, <1>3, <2>1, <2>2 DEF LooksForWork, In, Nodes
<1>5. Control(k, n)'
  BY <1>0, <1>1, <1>3, <1>4, ControlKept DEF Stretch, TypeOK, LooksForWork
<1>6. Data(k, n)'
  BY <1>0, <1>1, <1>3, LoopDataKept DEF Stretch, LooksForWork, TypeOK
<1> QED BY <1>0, <1>2, <1>5, <1>6 DEF Stretch

LEMMA StartNodeKeeps ==
  ASSUME TypeOK, BarrierInv, NEW k, NEW n, Stretch(k, n), NEW t \in Team, StartNode(t)
  PROVE  TypeOK' /\ BarrierInv' /\ Stretch(k, n)'
<1> USE DEF StartNode, InLoop, Goto, graphVars
<1>0. BarrierTypeOK /\ BarrierTypeOK' /\ BarrierInv'
  BY Quietly DEF TypeOK
<1>1. t \in Threads /\ Team \subseteq Threads
  BY <1>0, TeamSize
<1>2. TypeOK'
  BY <1>0, <1>1 DEF TypeOK, Points, Slots
<1>3. LooksForWork(t, k, n) /\ at'[t] = "convert"
  BY <1>1, LoopIsOneStretch DEF Stretch, TypeOK
<1>4. In(t, k, n)'
  BY <1>3 DEF LooksForWork, In, Nodes
<1>5. Control(k, n)'
  BY <1>0, <1>1, <1>3, <1>4, ControlKept DEF Stretch, TypeOK, LooksForWork
<1>6. Data(k, n)'
  BY <1>0, <1>1, <1>3, LoopDataKept DEF Stretch, LooksForWork, TypeOK
<1> QED BY <1>0, <1>2, <1>5, <1>6 DEF Stretch

LEMMA ConvertKeeps ==
  ASSUME TypeOK, BarrierInv, NEW k, NEW n, Stretch(k, n), NEW t \in Team, Convert(t)
  PROVE  TypeOK' /\ BarrierInv' /\ Stretch(k, n)'
<1> USE DEF Convert, Goto
<1>0. BarrierTypeOK /\ BarrierTypeOK' /\ BarrierInv'
  BY Quietly DEF TypeOK
<1>1. t \in Threads /\ Team \subseteq Threads
  BY <1>0, TeamSize
<1>2. TypeOK'
  BY <1>0, <1>1, GraphAssumption, ThreadsAssumption DEF TypeOK, Points, Slots, BarrierCalls
<1>3. ~Released(t) /\ bar[t] = "out" /\ nth[t] = n_threads_cur
  BY <1>1 DEF Stretch, Control, Released, BarrierCalls
<1>4. k = "loop" /\ In(t, k, n)'
  BY <1>1, <1>3 DEF Stretch, Control, In, TypeOK
<1>5. Control(k, n)'
  BY <1>0, <1>1, <1>3, <1>4, ControlKept DEF Stretch, TypeOK, BarrierCalls
<1>6. Data(k, n)'
  BY <1>0, <1>1, <1>3, <1>4, LoopDataKept DEF Stretch, TypeOK
<1> QED BY <1>0, <1>2, <1>5, <1>6 DEF Stretch

LEMMA LeaveLoopKeeps ==
  ASSUME TypeOK, BarrierInv, NEW k, NEW n, Stretch(k, n), NEW t \in Team, LeaveLoop(t)
  PROVE  TypeOK' /\ BarrierInv' /\ Stretch(k, n)'
<1> USE DEF LeaveLoop, Goto, graphVars
<1>0. BarrierTypeOK /\ BarrierTypeOK' /\ BarrierInv'
  BY Quietly DEF TypeOK
<1>1. t \in Threads /\ Team \subseteq Threads /\ node[t] \in 0..NNodes /\ NNodes \in Nat
  BY <1>0, TeamSize, GraphAssumption DEF TypeOK
<1>2. TypeOK'
  BY <1>0, <1>1 DEF TypeOK, Points, Slots, BarrierCalls
<1>3. ~Released(t) /\ bar[t] = "out" /\ nth[t] = n_threads_cur
  BY <1>1 DEF Stretch, Control, Released, BarrierCalls
<1>4. node[t] = NNodes \/ abort = node[t]
  BY <1>1 DEF InLoop
<1>5. In(t, k, n) /\ at[t] = "loop" /\ at'[t] = "finish"
  BY <1>1, <1>3 DEF Stretch, Control, TypeOK
<1>6. (k = "loop" \/ k = "chunks") /\ In(t, k, n)'
  <2>1. k # "done"
    BY <1>5 DEF In
  <2>2. CASE k = "loop"
    <3>1. n < node[t] /\ Empty(n + 1, node[t]) /\ n \in -1..(NNodes - 1) /\ abort \in {-1, n + 1}
      BY <1>5, <2>2 DEF In, Stretch, Control
    <3>2. abort = n + 1 \/ Empty(n + 1, NNodes)
      BY <1>1, <1>4, <3>1
    <3> QED BY <1>5, <2>2, <3>2 DEF In, Empty
  <2>3. CASE k = "chunks"
    BY <1>5, <2>3 DEF In
  <2> QED BY <1>5, <2>1, <2>2, <2>3 DEF In
<1>7. Control(k, n)'
  BY <1>0, <1>1, <1>3, <1>5, <1>6, ControlKept DEF Stretch, TypeOK
<1>8. CASE k = "loop"
  BY <1>0, <1>1, <1>2, <1>5, <1>7, <1>8, LoopDataKept DEF Stretch
<1>9. CASE k = "chunks"
  <2>1. \A c \in Nat : Holds(t, c)' <=> Holds(t, c)
    BY <1>3, <1>5 DEF Holds, Released, barrierVars
  <2>2. NChunks(n, n_threads_cur) <= current_chunk
    BY <1>3, <1>5, <1>9 DEF Stretch, Data, ChunksInv
  <2>3. Data(k, n)'
    <3>1. n \in Nodes
      BY <1>9 DEF Stretch, Control
    <3> QED BY <1>1, <1>5, <1>9, <2>1, <2>2, <3>1, ChunksDataKept DEF Stretch
  <2> QED BY <1>0, <1>2, <1>7, <2>3 DEF Stretch
<1> QED BY <1>6, <1>8, <1>9

LEMMA AbortCallbackKeeps ==
  ASSUME TypeOK, BarrierInv, NEW k, NEW n, Stretch(k, n), NEW t \in Team, AbortCallback(t)
  PROVE  TypeOK' /\ BarrierInv' /\ Stretch(k, n)'
<1> USE DEF AbortCallback, Goto
<1>0. BarrierTypeOK /\ BarrierTypeOK' /\ BarrierInv'
  BY Quietly DEF TypeOK
<1>1. t \in Threads /\ Team \subseteq Threads /\ NNodes \in Nat
  BY <1>0, TeamSize, GraphAssumption
<1>2. ~Released(t) /\ bar[t] = "out" /\ nth[t] = n_threads_cur
  BY <1>1 DEF Stretch, Control, Released, BarrierCalls
<1>3. k = "chunks" /\ n \in Nodes /\ node[t] = n
  BY <1>2 DEF Stretch, Control, In
<1>4. n \in Nat /\ n < NNodes
  BY <1>1, <1>3 DEF Nodes
<1>5. TypeOK'
  <2>1. abort' \in -1..NNodes /\ ec' \in {"success", "aborted"}
    BY <1>1, <1>3, <1>4 DEF TypeOK
  <2>2. at' \in [Threads -> Points] /\ node' \in [Threads -> 0..NNodes]
    BY <1>1, <1>3, <1>4 DEF TypeOK, Points, BarrierCalls
  <2> QED BY <1>0, <2>1, <2>2 DEF TypeOK, Slots
<1>6. IF n + 1 < NNodes THEN at'[t] = "sync" /\ node'[t] = n
                        ELSE at'[t] = "loop" /\ node'[t] = NNodes /\ n + 1 = NNodes
  BY <1>1, <1>3, <1>4 DEF TypeOK
<1>7. Control(k, n)'
  <2>1. In(t, k, n)'
    BY <1>3, <1>4, <1>6 DEF In
  <2>2. (abort' = abort /\ ec' = ec) \/ (abort' = n + 1 /\ ec' = "aborted")
    BY <1>3
  <2> QED BY <1>0, <1>1, <1>2, <1>3, <1>6, <2>1, <2>2, ControlKept DEF Stretch, TypeOK
<1>8. Data(k, n)'
  <2>1. \A c \in Nat : Holds(t, c)' <=> Holds(t, c)
    BY <1>2, <1>6 DEF Holds, Released, barrierVars
  <2>2. NChunks(n, n_threads_cur) <= current_chunk
    BY <1>2, <1>3 DEF Stretch, Data, ChunksInv
  <2> QED BY <1>1, <1>3, <1>6, <2>1, <2>2, ChunksDataKept DEF Stretch, TypeOK
<1> QED BY <1>0, <1>5, <1>7, <1>8 DEF Stretch

\* What is known of a thread among the chunks.
LEMMA AmongChunks ==
  ASSUME TypeOK, BarrierInv, NEW k, NEW n, Stretch(k, n), NEW t \in Team,
         at[t] \in {"chunk", "take"}
  PROVE  /\ t \in Threads /\ ~Released(t) /\ bar[t] = "out" /\ nth[t] = n_threads_cur
         /\ k = "chunks" /\ n \in Nodes /\ node[t] = n /\ chunk[t] \in Nat
         /\ at[t] = "chunk" => Holds(t, chunk[t]) /\ chunk[t] < current_chunk
<1>1. t \in Threads /\ ~Released(t) /\ bar[t] = "out" /\ nth[t] = n_threads_cur /\ chunk[t] \in Nat
  BY TeamSize DEF TypeOK, Stretch, Control, Released, BarrierCalls
<1>2. k = "chunks" /\ n \in Nodes /\ node[t] = n
  BY <1>1 DEF Stretch, Control, In
<1>3. at[t] = "chunk" => Holds(t, chunk[t]) /\ chunk[t] < current_chunk
  BY <1>1, <1>2 DEF Holds, Stretch, Data, ChunksInv
<1> QED BY <1>1, <1>2, <1>3

LEMMA NoMoreChunksKeeps ==
  ASSUME TypeOK, BarrierInv, NEW k, NEW n, Stretch(k, n), NEW t \in Team, NoMoreChunks(t)
  PROVE  TypeOK' /\ BarrierInv' /\ Stretch(k, n)'
<1> USE DEF NoMoreChunks, Computing, Goto, graphVars
<1>0. BarrierTypeOK /\ BarrierTypeOK' /\ BarrierInv'
  BY Quietly DEF TypeOK
<1>1. /\ t \in Threads /\ ~Released(t) /\ bar[t] = "out" /\ nth[t] = n_threads_cur
      /\ k = "chunks" /\ n \in Nodes /\ node[t] = n /\ chunk[t] \in Nat
      /\ Holds(t, chunk[t]) /\ chunk[t] < current_chunk
  BY AmongChunks
<1>2. TypeOK'
  BY <1>0, <1>1 DEF TypeOK, Points, Slots
<1>3. Control(k, n)'
  <2>1. In(t, k, n)' /\ at'[t] = "computed"
    BY <1>1 DEF In, TypeOK
  <2> QED BY <1>0, <1>1, <2>1, ControlKept DEF Stretch, TypeOK
<1>4. Data(k, n)'
  <2>1. NChunks(n, n_threads_cur) \in Nat /\ current_chunk \in Nat
    BY <1>1, Sizes DEF TypeOK
  <2>2. NChunks(n, n_threads_cur) <= chunk[t]
    BY <1>1, <2>1
  <2>3. at'[t] = "computed" /\ \A c \in Nat : ~Holds(t, c)'
    BY <1>1 DEF Holds, Released, barrierVars, TypeOK
  <2>4. \A c \in 0..(NChunks(n, n_threads_cur) - 1) : ~Holds(t, c)
    BY <1>1, <2>1, <2>2 DEF Holds
  <2> QED BY <1>1, <2>1, <2>2, <2>3, <2>4, ChunksDataKept DEF Stretch, TypeOK
<1> QED BY <1>0, <1>2, <1>3, <1>4 DEF Stretch

LEMMA TakeChunkKeeps ==
  ASSUME TypeOK, BarrierInv, NEW k, NEW n, Stretch(k, n), NEW t \in Team, TakeChunk(t)
  PROVE  TypeOK' /\ BarrierInv' /\ Stretch(k, n)'
<1> USE DEF TakeChunk, Goto
<1>0. BarrierTypeOK /\ BarrierTypeOK' /\ BarrierInv' /\ Team' = Team /\ Team \subseteq Threads
      /\ \A s : Released(s)' <=> Released(s)
  BY Quietly, TeamSize DEF TypeOK
<1>1. /\ t \in Threads /\ ~Released(t) /\ bar[t] = "out" /\ nth[t] = n_threads_cur
      /\ k = "chunks" /\ n \in Nodes /\ node[t] = n
  BY AmongChunks
<1>2. TypeOK'
  BY <1>0, <1>1 DEF TypeOK, Points, Slots
<1>3. Control(k, n)'
  <2>1. In(t, k, n)' /\ at'[t] = "chunk"
    BY <1>1 DEF In, TypeOK
  <2> QED BY <1>0, <1>1, <2>1, ControlKept DEF Stretch, TypeOK
<1>4. Data(k, n)'
  <2>1. ChunksInv(n) /\ current_chunk \in Nat /\ current_chunk' = current_chunk + 1
    BY <1>1 DEF Stretch, Data, TypeOK
  <2>2. NChunks(n, n_threads_cur) \in Nat /\ n_threads_cur \in Nat
    BY <1>1, Sizes
  <2>3. \A c : /\ Holds(t, c)' <=> c = current_chunk
               /\ ~Holds(t, c)
    BY <1>0, <1>1 DEF Holds, TypeOK
  <2>4. \A s \in Team \ {t} : \A c : Holds(s, c)' <=> Holds(s, c)
    BY <1>0 DEF Holds, TypeOK
  <2>5. \A s, u \in Team' : \A c \in Nat : Holds(s, c)' /\ Holds(u, c)' => s = u
    BY <1>0, <2>1, <2>3, <2>4 DEF ChunksInv
  <2>6. \A s \in Team' : \A c \in Nat : Holds(s, c)' => c < current_chunk'
    BY <1>0, <2>1, <2>3, <2>4 DEF ChunksInv
  <2>7. ASSUME NEW c \in 0..(NChunks(n, n_threads_cur) - 1)
        PROVE  done[n][c] = IF c < current_chunk' /\ \A s \in Team' : ~Holds(s, c)' THEN 1 ELSE 0
    <3>1. CASE c < current_chunk
      BY <1>0, <2>1, <2>2, <2>3, <2>4, <3>1 DEF ChunksInv
    <3>2. CASE c >= current_chunk
      BY <1>0, <2>1, <2>2, <2>3, <3>2 DEF ChunksInv
    <3> QED BY <2>1, <2>2, <3>1, <3>2
  <2>8. \A s \in Team' : ~Released(s)' /\ at'[s] \notin {"chunk", "take"} =>
          NChunks(n, n_threads_cur') <= current_chunk'
    BY <1>0, <2>1, <2>2 DEF ChunksInv, TypeOK
  <2>9. ChunksInv(n)'
    BY <1>0, <2>1, <2>2, <2>5, <2>6, <2>7, <2>8 DEF ChunksInv
  <2>10. \A m \in Nodes : (Finished(m)' <=> Finished(m)) /\ (Untouched(m)' <=> Untouched(m))
    BY DEF Finished, Untouched
  <2> QED BY <1>1, <2>9, <2>10 DEF Stretch, Data
<1> QED BY <1>0, <1>2, <1>3, <1>4 DEF Stretch

\* A chunk that a thread holds was not computed, and then is.
LEMMA ComputeChunkOnce ==
  ASSUME TypeOK, BarrierInv, NEW k, NEW n, Stretch(k, n), NEW t \in Team, ComputeChunk(t)
  PROVE  /\ k = "chunks" /\ n \in Nodes /\ node[t] = n
         /\ chunk[t] \in 0..(NChunks(n, n_threads_cur) - 1) /\ chunk[t] \in Slots(n)
         /\ done[n][chunk[t]] = 0
         /\ \A m \in Nodes : m < n => Finished(m)
         /\ done' = [done EXCEPT ![n][chunk[t]] = 1]
<1> USE DEF ComputeChunk, Computing
<1>1. /\ t \in Threads /\ nth[t] = n_threads_cur
      /\ k = "chunks" /\ n \in Nodes /\ node[t] = n /\ chunk[t] \in Nat
      /\ Holds(t, chunk[t]) /\ chunk[t] < current_chunk
  BY AmongChunks
<1>2. chunk[t] \in 0..(NChunks(n, n_threads_cur) - 1) /\ chunk[t] \in Slots(n)
  BY <1>1, Sizes
<1>3. done[n][chunk[t]] = 0
  BY <1>1, <1>2 DEF Stretch, Data, ChunksInv
<1> QED BY <1>1, <1>2, <1>3 DEF Stretch, Data

LEMMA ComputeChunkKeeps ==
  ASSUME TypeOK, BarrierInv, NEW k, NEW n, Stretch(k, n), NEW t \in Team, ComputeChunk(t)
  PROVE  TypeOK' /\ BarrierInv' /\ Stretch(k, n)'
<1> USE DEF ComputeChunk, Computing, Goto
<1>0. BarrierTypeOK /\ BarrierTypeOK' /\ BarrierInv' /\ Team' = Team /\ Team \subseteq Threads
      /\ \A s : Released(s)' <=> Released(s)
  BY Quietly, TeamSize DEF TypeOK
<1>1. /\ t \in Threads /\ ~Released(t) /\ bar[t] = "out" /\ nth[t] = n_threads_cur
      /\ k = "chunks" /\ n \in Nodes /\ node[t] = n /\ chunk[t] \in Nat
      /\ Holds(t, chunk[t]) /\ chunk[t] < current_chunk
  BY AmongChunks
<1>2. /\ chunk[t] \in Slots(n) /\ done[n][chunk[t]] = 0
      /\ done' = [done EXCEPT ![n][chunk[t]] = 1]
  BY ComputeChunkOnce
<1>3. /\ \A m \in Nodes : DOMAIN done[m] = Slots(m) /\ done[m] \in [Slots(m) -> Nat]
      /\ \A m \in Nodes \ {n} : done'[m] = done[m]
      /\ \A c \in Slots(n) : done'[n][c] = IF c = chunk[t] THEN 1 ELSE done[n][c]
  BY <1>1, <1>2 DEF TypeOK
<1>4. TypeOK'
  <2>1. done' = [m \in Nodes |-> done'[m]] /\ \A m \in Nodes : done'[m] \in [Slots(m) -> Nat]
    <3>1. done = [m \in Nodes |-> done[m]]
      BY DEF TypeOK
    <3>2. done' = [m \in Nodes |-> IF m = n THEN [done[n] EXCEPT ![chunk[t]] = 1] ELSE done[m]]
      BY <1>1, <1>2, <3>1
    <3>3. [done[n] EXCEPT ![chunk[t]] = 1] \in [Slots(n) -> Nat]
      BY <1>1, <1>3
    <3> QED BY <1>3, <3>2, <3>3
  <2>2. at' \in [Threads -> Points]
    BY <1>1 DEF TypeOK, Points
  <2> QED BY <1>0, <2>1, <2>2 DEF TypeOK, Slots
<1>5. at'[t] \in {"take", "computed"}
  BY <1>1 DEF TypeOK
<1>6. Control(k, n)'
  <2>1. In(t, k, n)'
    BY <1>1, <1>5 DEF In
  <2> QED BY <1>0, <1>1, <1>5, <2>1, ControlKept DEF Stretch, TypeOK
<1>7. Data(k, n)'
  <2>1. ChunksInv(n) /\ current_chunk \in Nat
    BY <1>1 DEF Stretch, Data, TypeOK
  <2>2. /\ NChunks(n, n_threads_cur) \in Nat /\ n_threads_cur \in Nat
        /\ 0..(NChunks(n, n_threads_cur) - 1) \subseteq Slots(n)
    BY <1>1, Sizes
  <2>3. \A c : ~Holds(t, c)' /\ (Holds(t, c) <=> c = chunk[t])
    BY <1>0, <1>1, <1>5 DEF Holds
  <2>4. \A s \in Team \ {t} : \A c : Holds(s, c)' <=> Holds(s, c)
    BY <1>0 DEF Holds, TypeOK
  <2>5. \A s, u \in Team' : \A c \in Nat : Holds(s, c)' /\ Holds(u, c)' => s = u
    BY <1>0, <2>1, <2>3, <2>4 DEF ChunksInv
  <2>6. \A s \in Team' : \A c \in Nat : Holds(s, c)' => c < current_chunk'
    BY <1>0, <2>1, <2>3, <2>4 DEF ChunksInv
  <2>7. ASSUME NEW c \in 0..(NChunks(n, n_threads_cur) - 1)
        PROVE  done'[n][c] = IF c < current_chunk /\ \A s \in Team' : ~Holds(s, c)' THEN 1 ELSE 0
    <3>1. CASE c = chunk[t]
      <4>1. \A s \in Team : ~Holds(s, c)'
        BY <1>1, <2>1, <2>3, <2>4, <3>1 DEF ChunksInv
      <4> QED BY <1>0, <1>1, <1>3, <2>2, <3>1, <4>1
    <3>2. CASE c # chunk[t]
      <4>1. \A s \in Team : Holds(s, c)' <=> Holds(s, c)
        BY <2>3, <2>4, <3>2
      <4>2. done'[n][c] = done[n][c]
        BY <1>3, <2>2, <3>2
      <4> QED BY <1>0, <2>1, <4>1, <4>2 DEF ChunksInv
    <3> QED BY <3>1, <3>2
  <2>8. \A s \in Team' : ~Released(s)' /\ at'[s] \notin {"chunk", "take"} =>
          NChunks(n, n_threads_cur') <= current_chunk'
    <3>1. at'[t] = "computed" => NChunks(n, n_threads_cur) <= current_chunk
      BY <1>1, <2>1, <2>2 DEF ChunksInv, TypeOK
    <3> QED BY <1>0, <1>5, <2>1, <3>1 DEF ChunksInv, TypeOK
  <2>9. ChunksInv(n)'
    BY <1>0, <2>1, <2>2, <2>5, <2>6, <2>7, <2>8 DEF ChunksInv
  <2>10. \A m \in Nodes \ {n} : (Finished(m) => Finished(m)') /\ (Untouched(m) => Untouched(m)')
    BY <1>3 DEF Finished, Untouched
  <2> QED BY <1>1, <2>9, <2>10 DEF Stretch, Data, Nodes
<1> QED BY <1>0, <1>4, <1>6, <1>7 DEF Stretch

-----------------------------------------------------------------------------
(* The barrier.                                                            *)

LEMMA WaitKeeps ==
  ASSUME TypeOK, BarrierInv, NEW k, NEW n, Stretch(k, n), NEW t \in Team, Wait(t)
  PROVE  TypeOK' /\ BarrierInv' /\ Stretch(k, n)'
<1> USE DEF Wait, threadVars, graphVars
<1>0. /\ BarrierTypeOK' /\ BarrierInv' /\ \A s \in Team : Released(s)' <=> Released(s)
  BY Reads, Arrives, Resets DEF InBarrier, TypeOK
<1>1. Team' = Team /\ Team \subseteq Threads
  BY TeamSize DEF Team, TypeOK
<1>2. TypeOK'
  BY <1>0 DEF TypeOK, Slots
<1>3. Control(k, n)'
  <2>1. \A s \in Team' : IF Released(s)' THEN Before(s, k, n)' ELSE In(s, k, n)'
    BY <1>0, <1>1 DEF Stretch, Control, In, Before
  <2>2. \A s \in Team \ {t} : bar'[s] = bar[s]
    BY <1>1 DEF InBarrier, ReadPassed, Arrive, ResetCount, TypeOK, BarrierTypeOK
  <2>3. \A s \in Team' : bar'[s] # "out" => at'[s] \in BarrierCalls
    BY <1>1, <2>2 DEF Stretch, Control
  <2> QED BY <1>1, <2>1, <2>3 DEF Stretch, Control
<1>4. Data(k, n)'
  <2>1. \A m \in Nodes : (Finished(m)' <=> Finished(m)) /\ (Untouched(m)' <=> Untouched(m))
    BY DEF Finished, Untouched
  <2>2. \A s \in Team : \A c : Holds(s, c)' <=> Holds(s, c)
    BY <1>0 DEF Holds
  <2>3. ASSUME k = "chunks" PROVE ChunksInv(n)'
    <3>1. ChunksInv(n)
      BY <2>3 DEF Stretch, Data
    <3>2. \A c : (\A s \in Team' : ~Holds(s, c)') <=> (\A s \in Team : ~Holds(s, c))
      BY <1>1, <2>2
    <3> QED BY <1>0, <1>1, <2>2, <3>1, <3>2 DEF ChunksInv
  <2>4. k = "loop" => \A s \in Team' : at'[s] = "ready" /\ ~Released(s)' => wdata'[s] = node'[s]
    BY <1>0, <1>1 DEF Stretch, Data
  <2> QED BY <2>1, <2>3, <2>4 DEF Stretch, Data
<1> QED BY <1>0, <1>2, <1>3, <1>4 DEF Stretch

\* The thread that opens the barrier knows where all others are.
LEMMA AllAtBarrier ==
  ASSUME TypeOK, NEW k, NEW n, Control(k, n), NEW t \in Team,
         ~Released(t), at[t] \in BarrierCalls,
         \A s \in Team \ {t} : bar[s] = "waiting" /\ ~Released(s)
  PROVE  /\ n < NNodes /\ n + 1 <= NNodes /\ n \in Int /\ NNodes \in Nat
         /\ abort \in {-1, n + 1}
         /\ at[t] = "ready" =>
              /\ k = "loop" /\ node[t] \in Nodes /\ n < node[t] /\ Empty(n + 1, node[t])
              /\ Chunks[node[t]] # 0 /\ abort # n + 1
              /\ \A s \in Team : at[s] = "ready" /\ node[s] = node[t]
         /\ at[t] = "sync" =>
              /\ k = "chunks" /\ n \in Nodes /\ node[t] = n /\ n + 1 < NNodes
              /\ \A s \in Team : at[s] = "sync" /\ node[s] = n
         /\ at[t] = "finish" =>
              /\ \A s \in Team : at[s] = "finish"
              /\ \/ k = "loop" /\ (abort = n + 1 \/ Empty(n + 1, NNodes))
                 \/ k = "chunks" /\ n \in Nodes /\ n + 1 = NNodes
<1>1. NNodes \in Nat /\ Team \subseteq Threads /\ \A s \in Threads : node[s] \in 0..NNodes
  BY GraphAssumption, TeamSize DEF TypeOK
<1>2. \A s \in Team : In(s, k, n) /\ at[s] \in BarrierCalls
  BY DEF Control
<1>3. k = "loop" \/ k = "chunks"
  BY <1>2 DEF In, BarrierCalls
<1>4. CASE k = "loop"
  <2>1. n \in -1..(NNodes - 1) /\ abort \in {-1, n + 1}
    BY <1>4 DEF Control
  <2>2. \A s \in Team :
          \/ /\ at[s] = "ready" /\ n < node[s] /\ node[s] < NNodes
             /\ Chunks[node[s]] # 0 /\ Empty(n + 1, node[s]) /\ abort # n + 1
          \/ at[s] = "finish" /\ (abort = n + 1 \/ Empty(n + 1, NNodes))
    BY <1>2, <1>4 DEF In, BarrierCalls
  <2>3. CASE at[t] = "ready"
    <3>1. node[t] \in Nodes /\ n < node[t] /\ Empty(n + 1, node[t]) /\ Chunks[node[t]] # 0
          /\ abort # n + 1
      BY <1>1, <2>2, <2>3 DEF Nodes
    <3>2. ~Empty(n + 1, NNodes)
      BY <1>1, <2>1, <3>1 DEF Empty, Nodes
    <3>3. ASSUME NEW s \in Team PROVE at[s] = "ready" /\ node[s] = node[t]
      <4>1. /\ at[s] = "ready" /\ n < node[s] /\ node[s] \in Nodes
            /\ Chunks[node[s]] # 0 /\ Empty(n + 1, node[s])
        BY <1>1, <2>2, <3>1, <3>2 DEF Nodes
      <4>2. ~(node[s] < node[t]) /\ ~(node[t] < node[s])
        BY <1>1, <2>1, <3>1, <4>1 DEF Empty, Nodes
      <4> QED BY <3>1, <4>1, <4>2 DEF Nodes
    <3> QED BY <1>1, <1>4, <2>1, <2>3, <3>1, <3>3
  <2>4. CASE at[t] = "finish"
    <3>1. abort = n + 1 \/ Empty(n + 1, NNodes)
      BY <2>2, <2>4
    <3>2. ASSUME NEW s \in Team PROVE at[s] = "finish"
      <4>1. SUFFICES ASSUME at[s] = "ready" PROVE FALSE
        BY <2>2
      <4>2. node[s] \in Nodes /\ n < node[s] /\ Chunks[node[s]] # 0 /\ abort # n + 1
        BY <1>1, <2>2, <4>1 DEF Nodes
      <4> QED BY <1>1, <2>1, <3>1, <4>2 DEF Empty, Nodes
    <3> QED BY <1>1, <1>4, <2>1, <2>4, <3>1, <3>2
  <2> QED BY <2>2, <2>3, <2>4
<1>5. CASE k = "chunks"
  <2>1. n \in Nodes /\ n \in 0..(NNodes - 1) /\ abort \in {-1, n + 1}
    BY <1>5 DEF Control, Nodes
  <2>2. \A s \in Team : \/ at[s] = "sync" /\ node[s] = n /\ n + 1 < NNodes
                        \/ at[s] = "finish" /\ n + 1 = NNodes
    BY <1>2, <1>5 DEF In, BarrierCalls
  <2> QED BY <1>1, <1>5, <2>1, <2>2
<1> QED BY <1>3, <1>4, <1>5

\* The rest of the team is where it was when t leaves a barrier it did not open.
LEMMA ControlKeptLeaving ==
  ASSUME TypeOK, NEW k, NEW n, Control(k, n), NEW t \in Team,
         UNCHANGED <<n_threads_cur, abort, ec, nth>>,
         \A s \in Threads \ {t} : at'[s] = at[s] /\ node'[s] = node[s] /\ bar'[s] = bar[s],
         bar'[t] = "out", ~Released(t)', In(t, k, n)',
         at[t] # "out",
         \A s \in Team \ {t} : Released(s)' <=> Released(s)
  PROVE  Control(k, n)'
<1>1. Team' = Team /\ Team \subseteq Threads
  BY TeamSize DEF Team, TypeOK
<1>2. \A s \in Team \ {t} : (In(s, k, n)' <=> In(s, k, n)) /\ (Before(s, k, n)' <=> Before(s, k, n))
  BY <1>1 DEF In, Before
<1>3. \A s \in Team' : IF Released(s)' THEN Before(s, k, n)' ELSE In(s, k, n)'
  BY <1>1, <1>2 DEF Control
<1>4. \A s \in Team' : bar'[s] # "out" => at'[s] \in BarrierCalls
  BY <1>1 DEF Control
<1>5. \A s \in Team' : at'[s] # "out" => nth'[s] = n_threads_cur'
  BY <1>1 DEF Control
<1>6. \A s \in Threads \ Team' : at'[s] = "out"
  BY <1>1 DEF Control
<1> QED BY <1>3, <1>4, <1>5, <1>6 DEF Control

LEMMA EnterChunksKeeps ==
  ASSUME TypeOK, BarrierInv, NEW k, NEW n, Stretch(k, n), NEW t \in Team, EnterChunks(t)
  PROVE  TypeOK' /\ BarrierInv' /\ (Stretch(k, n)' \/ \E m \in Nodes : Stretch("chunks", m)')
<1> USE DEF EnterChunks, Goto, graphVars
<1>0. /\ BarrierTypeOK /\ BarrierTypeOK' /\ BarrierInv' /\ ~Released(t)'
      /\ bar'[t] = "out" /\ \A s \in Threads \ {t} : bar'[s] = bar[s]
      /\ \/ Released(t) /\ \A s \in Team \ {t} : Released(s)' <=> Released(s)
         \/ /\ ~Released(t)
            /\ \A s \in Team \ {t} : bar[s] = "waiting" /\ ~Released(s) /\ Released(s)'
  BY Leaves DEF TypeOK
<1>1. Team' = Team /\ Team \subseteq Threads /\ t \in Threads /\ t \in Nat /\ 0 \in Team
  BY <1>0, TeamSize DEF Team, Threads
<1>2. TypeOK'
  BY <1>0, <1>1 DEF TypeOK, Points, Slots
<1>3. at'[t] = "chunk" /\ chunk'[t] = t
  BY <1>1 DEF TypeOK
<1>4. \A m \in Nodes : (Finished(m)' <=> Finished(m)) /\ (Untouched(m)' <=> Untouched(m))
  BY DEF Finished, Untouched
<1>5. CASE Released(t)
  <2>1. k = "chunks" /\ node[t] = n /\ n \in Nodes
    BY <1>5 DEF Stretch, Control, Before
  <2>2. In(t, k, n)'
    BY <1>3, <2>1 DEF In
  <2>3. Control(k, n)'
    BY <1>0, <1>1, <1>5, <2>2, ControlKeptLeaving DEF Stretch, TypeOK
  <2>4. \A s \in Team : \A c : Holds(s, c)' <=> Holds(s, c)
    BY <1>0, <1>1, <1>3, <1>5 DEF Holds, TypeOK
  <2>5. ChunksInv(n) /\ NChunks(n, n_threads_cur) \in Nat
    BY <2>1, Sizes DEF Stretch, Data
  <2>6. \A c : (\A s \in Team' : ~Holds(s, c)') <=> (\A s \in Team : ~Holds(s, c))
    BY <1>1, <2>4
  <2>7. \A s \in Team' : ~Released(s)' /\ at'[s] \notin {"chunk", "take"} =>
          NChunks(n, n_threads_cur') <= current_chunk'
    BY <1>0, <1>1, <1>3, <1>5, <2>5 DEF ChunksInv, TypeOK
  <2>8. ChunksInv(n)'
    BY <1>1, <2>4, <2>5, <2>6, <2>7 DEF ChunksInv
  <2>9. Data(k, n)'
    BY <1>4, <2>1, <2>8 DEF Stretch, Data
  <2> QED BY <1>0, <1>2, <2>3, <2>9 DEF Stretch
<1>6. CASE ~Released(t)
  <2>1. \A s \in Team \ {t} : bar[s] = "waiting" /\ ~Released(s) /\ Released(s)'
    BY <1>0, <1>6
  <2>m. node[t] \in Nodes
    BY <1>6, <2>1, AllAtBarrier DEF Stretch, BarrierCalls
  <2> PICK m \in Nodes : m = node[t]
    BY <2>m
  <2>2. /\ k = "loop" /\ n < m /\ Empty(n + 1, m) /\ Chunks[m] # 0
        /\ abort \in {-1, n + 1} /\ abort # n + 1
        /\ n \in Int /\ NNodes \in Nat
        /\ \A s \in Team : at[s] = "ready" /\ node[s] = m
    BY <1>6, <2>1, AllAtBarrier DEF Stretch, BarrierCalls
  <2>3. Control("chunks", m)'
    <3>1. In(t, "chunks", m)'
      BY <1>3 DEF In
    <3>2. \A s \in Team \ {t} : Before(s, "chunks", m)'
      BY <1>1, <2>2 DEF Before, TypeOK
    <3>3. \A s \in Team' : IF Released(s)' THEN Before(s, "chunks", m)' ELSE In(s, "chunks", m)'
      BY <1>0, <1>1, <2>1, <3>1, <3>2
    <3>4. \A s \in Team' : bar'[s] # "out" => at'[s] \in BarrierCalls
      BY <1>0, <1>1, <2>2 DEF TypeOK, BarrierCalls
    <3>5. \A s \in Team' : nth'[s] = n_threads_cur'
      BY <1>1, <2>2 DEF Stretch, Control
    <3>6. \A s \in Threads \ Team' : at'[s] = "out"
      BY <1>1 DEF Stretch, Control, TypeOK
    <3> QED BY <2>2, <3>3, <3>4, <3>5, <3>6 DEF Stretch, Control
  <2>4. Data("chunks", m)'
    <3>1. \A j \in Nodes : j < m => Finished(j)
      BY <2>2 DEF Stretch, Data, Finished, Empty, Nodes
    <3>2. \A j \in Nodes : j > m => Untouched(j)
      BY <2>2 DEF Stretch, Data, Nodes
    <3>3. Untouched(m)
      BY <2>2 DEF Stretch, Data
    <3>4. \A s \in Team : wdata[s] = m
      BY <1>6, <2>1, <2>2 DEF Stretch, Data
    <3>5. current_chunk = n_threads_cur /\ n_threads_cur \in Nat
      BY <1>1, <2>2, Sizes DEF Stretch, Data
    <3>6. \A s \in Team : \A c : Holds(s, c)' <=> c = s
      BY <1>0, <1>3, <2>1 DEF Holds
    <3>7. NChunks(m, n_threads_cur) \in Nat
          /\ 0..(NChunks(m, n_threads_cur) - 1) \subseteq Slots(m)
      BY <2>2, Sizes
    <3>8. ASSUME NEW c \in 0..(NChunks(m, n_threads_cur) - 1)
          PROVE  done[m][c] = 0 /\ (c < current_chunk => \E s \in Team' : Holds(s, c)')
      <4>1. done[m][c] = 0
        BY <3>3, <3>7 DEF Untouched
      <4>2. c < current_chunk => c \in Team'
        BY <1>1, <3>5, <3>7 DEF Team
      <4> QED BY <1>1, <3>6, <4>1, <4>2
    <3>9. \A s \in Team' : \A c \in Nat : Holds(s, c)' => c < current_chunk'
      BY <1>1, <3>5, <3>6 DEF Team
    <3>10. \A s \in Team' : ~Released(s)' => at'[s] \in {"chunk", "take"}
      BY <1>1, <1>3, <2>1
    <3>11. ChunksInv(m)'
      BY <1>1, <3>4, <3>5, <3>6, <3>8, <3>9, <3>10 DEF ChunksInv
    <3> QED BY <1>4, <3>1, <3>2, <3>11 DEF Data
  <2> QED BY <1>0, <1>2, <2>3, <2>4 DEF Stretch
<1> QED BY <1>5, <1>6

LEMMA NextNodeKeeps ==
  ASSUME TypeOK, BarrierInv, NEW k, NEW n, Stretch(k, n), NEW t \in Team, NextNode(t)
  PROVE  /\ TypeOK' /\ BarrierInv'
         /\ \/ Stretch(k, n)' /\ k = "loop" /\ n # -1
            \/ n \in Nodes /\ Stretch("loop", n)'
<1> USE DEF NextNode, Goto, graphVars
<1>0. /\ BarrierTypeOK /\ BarrierTypeOK' /\ BarrierInv' /\ ~Released(t)'
      /\ bar'[t] = "out" /\ \A s \in Threads \ {t} : bar'[s] = bar[s]
      /\ \/ Released(t) /\ \A s \in Team \ {t} : Released(s)' <=> Released(s)
         \/ /\ ~Released(t)
            /\ \A s \in Team \ {t} : bar[s] = "waiting" /\ ~Released(s) /\ Released(s)'
  BY Leaves DEF TypeOK
<1>1. Team' = Team /\ Team \subseteq Threads /\ t \in Threads /\ NNodes \in Nat /\ node[t] \in 0..NNodes
  BY <1>0, TeamSize, GraphAssumption DEF Team, TypeOK
<1>2. at'[t] = "loop" /\ node'[t] = node[t] + 1
  BY <1>1 DEF TypeOK
<1>3. \A m \in Nodes : (Finished(m)' <=> Finished(m)) /\ (Untouched(m)' <=> Untouched(m))
  BY DEF Finished, Untouched
<1>4. ASSUME n \in Nodes, node[t] = n
      PROVE  TypeOK' /\ In(t, "loop", n)'
  <2>1. n \in Nat /\ n < NNodes
    BY <1>1, <1>4 DEF Nodes
  <2>2. node' \in [Threads -> 0..NNodes]
    BY <1>1, <1>4, <2>1 DEF TypeOK
  <2>3. TypeOK'
    BY <1>0, <1>1, <2>2 DEF TypeOK, Points, Slots
  <2> QED BY <1>2, <1>4, <2>1, <2>3 DEF In, Empty, Nodes
<1>5. CASE Released(t)
  <2>1. k = "loop" /\ n # -1 /\ node[t] = n /\ n \in Nodes
    BY <1>1, <1>5 DEF Stretch, Control, Before, Nodes
  <2>2. Control(k, n)'
    BY <1>0, <1>1, <1>4, <1>5, <2>1, ControlKeptLeaving DEF Stretch, TypeOK
  <2>3. \A s \in Team' : at'[s] = "ready" /\ ~Released(s)' => wdata'[s] = node'[s]
    BY <1>0, <1>1, <1>2, <1>5, <2>1 DEF Stretch, Data, TypeOK
  <2>4. at'[0] = "ready" => current_chunk' = n_threads_cur'
    BY <1>1, <1>2, <2>1, TeamSize DEF Stretch, Data, TypeOK
  <2>5. Data(k, n)'
    BY <1>3, <2>1, <2>3, <2>4 DEF Stretch, Data
  <2> QED BY <1>0, <1>4, <2>1, <2>2, <2>5 DEF Stretch
<1>6. CASE ~Released(t)
  <2>1. \A s \in Team \ {t} : bar[s] = "waiting" /\ ~Released(s) /\ Released(s)'
    BY <1>0, <1>6
  <2>2. /\ k = "chunks" /\ n \in Nodes /\ node[t] = n /\ n + 1 < NNodes
        /\ abort \in {-1, n + 1} /\ n \in Int
        /\ \A s \in Team : at[s] = "sync" /\ node[s] = n
    BY <1>6, <2>1, AllAtBarrier DEF Stretch, BarrierCalls
  <2>3. Control("loop", n)'
    <3>1. \A s \in Team \ {t} : Before(s, "loop", n)'
      BY <1>1, <2>2 DEF Before, TypeOK, Nodes
    <3>2. \A s \in Team' : IF Released(s)' THEN Before(s, "loop", n)' ELSE In(s, "loop", n)'
      BY <1>0, <1>1, <1>4, <2>1, <2>2, <3>1
    <3>3. \A s \in Team' : bar'[s] # "out" => at'[s] \in BarrierCalls
      BY <1>0, <1>1, <2>2 DEF TypeOK, BarrierCalls
    <3>4. \A s \in Team' : nth'[s] = n_threads_cur'
      BY <1>1, <2>2 DEF Stretch, Control
    <3>5. \A s \in Threads \ Team' : at'[s] = "out"
      BY <1>1 DEF Stretch, Control, TypeOK
    <3>6. n \in -1..(NNodes - 1)
      BY <2>2 DEF Nodes
    <3> QED BY <2>2, <3>2, <3>3, <3>4, <3>5, <3>6 DEF Stretch, Control
  <2>4. Finished(n)
    <3>1. ChunksInv(n) /\ NChunks(n, n_threads_cur) \in Nat /\ current_chunk \in Nat
      BY <2>2, Sizes DEF Stretch, Data, TypeOK
    <3>2. NChunks(n, n_threads_cur) <= current_chunk
      BY <1>6, <2>2, <3>1 DEF ChunksInv
    <3>3. \A s \in Team : \A c : ~Holds(s, c)
      BY <1>6, <2>1, <2>2 DEF Holds
    <3> QED BY <3>1, <3>2, <3>3 DEF ChunksInv, Finished
  <2>5. Data("loop", n)'
    <3>1. \A m \in Nodes : m <= n => Finished(m)
      BY <2>2, <2>4 DEF Stretch, Data, Nodes
    <3>2. \A s \in Team' : at'[s] # "ready"
      BY <1>1, <1>2, <2>2 DEF TypeOK
    <3>3. 0 \in Team'
      BY <1>0, <1>1, TeamSize
    <3> QED BY <1>3, <2>2, <3>1, <3>2, <3>3 DEF Stretch, Data
  <2> QED BY <1>0, <1>4, <2>2, <2>3, <2>5 DEF Stretch
<1> QED BY <1>5, <1>6

LEMMA LeaveGraphKeeps ==
  ASSUME TypeOK, BarrierInv, NEW k, NEW n, Stretch(k, n), NEW t \in Team, LeaveGraph(t)
  PROVE  /\ TypeOK' /\ BarrierInv'
         /\ \/ Released(t) /\ Stretch(k, n)' /\ (k = "done" \/ (k = "loop" /\ n = -1))
            \/ ~Released(t) /\ Stretch("done", NNodes)'
<1> USE DEF LeaveGraph, Goto, graphVars
<1>0. /\ BarrierTypeOK /\ BarrierTypeOK' /\ BarrierInv' /\ ~Released(t)'
      /\ bar'[t] = "out" /\ \A s \in Threads \ {t} : bar'[s] = bar[s]
      /\ \/ Released(t) /\ \A s \in Team \ {t} : Released(s)' <=> Released(s)
         \/ /\ ~Released(t)
            /\ \A s \in Team \ {t} : bar[s] = "waiting" /\ ~Released(s) /\ Released(s)'
  BY Leaves DEF TypeOK
<1>1. Team' = Team /\ Team \subseteq Threads /\ t \in Threads
  BY <1>0, TeamSize DEF Team
<1>2. TypeOK'
  BY <1>0, <1>1 DEF TypeOK, Points, Slots
<1>3. at'[t] = "out"
  BY <1>1 DEF TypeOK
<1>4. \A m \in Nodes : (Finished(m)' <=> Finished(m)) /\ (Untouched(m)' <=> Untouched(m))
  BY DEF Finished, Untouched
<1>5. CASE Released(t)
  <2>1. k = "done" \/ (k = "loop" /\ n = -1)
    BY <1>5 DEF Stretch, Control, Before
  <2>2. In(t, k, n)'
    BY <1>3, <2>1 DEF In
  <2>3. Control(k, n)'
    BY <1>0, <1>1, <1>5, <2>2, ControlKeptLeaving DEF Stretch, TypeOK
  <2>4. \A s \in Team' : at'[s] = "ready" /\ ~Released(s)' => at[s] = "ready" /\ ~Released(s)
    BY <1>0, <1>1, <1>3, <1>5 DEF TypeOK
  <2>5. at'[0] = "ready" => at[0] = "ready"
    BY <1>1, <1>3, TeamSize DEF TypeOK
  <2>6. Data(k, n)'
    BY <1>1, <1>4, <2>1, <2>4, <2>5 DEF Stretch, Data
  <2> QED BY <1>0, <1>2, <1>5, <2>1, <2>3, <2>6 DEF Stretch
<1>6. CASE ~Released(t)
  <2>1. \A s \in Team \ {t} : bar[s] = "waiting" /\ ~Released(s) /\ Released(s)'
    BY <1>0, <1>6
  <2>2. /\ \A s \in Team : at[s] = "finish"
        /\ \/ k = "loop" /\ (abort = n + 1 \/ Empty(n + 1, NNodes))
           \/ k = "chunks" /\ n \in Nodes /\ n + 1 = NNodes
        /\ n \in Int /\ NNodes \in Nat
    BY <1>6, <2>1, AllAtBarrier DEF Stretch, BarrierCalls
  <2>3. Control("done", NNodes)'
    <3>1. In(t, "done", NNodes)'
      BY <1>3 DEF In
    <3>2. \A s \in Team \ {t} : Before(s, "done", NNodes)'
      BY <1>1, <2>2 DEF Before, TypeOK
    <3>3. \A s \in Team' : IF Released(s)' THEN Before(s, "done", NNodes)' ELSE In(s, "done", NNodes)'
      BY <1>0, <1>1, <2>1, <3>1, <3>2
    <3>4. \A s \in Team' : bar'[s] # "out" => at'[s] \in BarrierCalls
      BY <1>0, <1>1, <2>2 DEF TypeOK, BarrierCalls
    <3>5. \A s \in Team' : nth'[s] = n_threads_cur'
      BY <1>1, <2>2 DEF Stretch, Control
    <3>6. \A s \in Threads \ Team' : at'[s] = "out"
      BY <1>1 DEF Stretch, Control, TypeOK
    <3> QED BY <3>3, <3>4, <3>5, <3>6 DEF Stretch, Control
  <2>4. Data("done", NNodes)'
    <3>1. SUFFICES ASSUME ec = "success", NEW m \in Nodes PROVE Finished(m)
      BY <1>4 DEF Data
    <3>2. CASE k = "loop"
      <4>1. n \in -1..(NNodes - 1) /\ abort = -1
        BY <3>1, <3>2 DEF Stretch, Control
      <4>2. CASE m <= n
        BY <3>2, <4>2 DEF Stretch, Data
      <4>3. CASE m > n /\ Empty(n + 1, NNodes)
        BY <2>2, <4>3 DEF Empty, Finished, Nodes
      <4>4. CASE abort = n + 1
        <5>1. n + 1 >= 0 /\ abort = -1
          BY <4>1
        <5> QED BY <4>4, <5>1
      <4> QED BY <2>2, <3>2, <4>2, <4>3, <4>4 DEF Nodes
    <3>3. CASE k = "chunks"
      <4>1. m < n \/ m = n
        BY <2>2, <3>3 DEF Nodes
      <4>2. ChunksInv(n) /\ NChunks(n, n_threads_cur) \in Nat /\ current_chunk \in Nat
        BY <2>2, <3>3, Sizes DEF Stretch, Data, TypeOK
      <4>3. NChunks(n, n_threads_cur) <= current_chunk
        BY <1>6, <2>2, <4>2 DEF ChunksInv
      <4>4. \A s \in Team : \A c : ~Holds(s, c)
        BY <1>6, <2>1, <2>2 DEF Holds
      <4>5. Finished(n)
        BY <4>2, <4>3, <4>4 DEF ChunksInv, Finished
      <4> QED BY <3>3, <4>1, <4>5 DEF Stretch, Data
    <3> QED BY <2>2, <3>2, <3>3
  <2> QED BY <1>0, <1>2, <1>6, <2>3, <2>4 DEF Stretch
<1> QED BY <1>5, <1>6

-----------------------------------------------------------------------------
(* All steps.                                                              *)

\* The beginning of a graph that some thread of the team has not entered yet.
Beginning(k, n) == k = "loop" /\ n = -1

LEMMA ComputeKeeps ==
  ASSUME TypeOK, BarrierInv, NEW k, NEW n, Stretch(k, n), NEW t \in Team, ComputeThread(t)
  PROVE  /\ TypeOK' /\ BarrierInv'
         /\ \/ Stretch(k, n)'
            \/ \E m \in Nodes : Stretch("chunks", m)' \/ Stretch("loop", m)'
            \/ Stretch("done", NNodes)'
BY SkipEmptyKeeps, StartNodeKeeps, LeaveLoopKeeps, AbortCallbackKeeps, ConvertKeeps,
   ComputeChunkKeeps, TakeChunkKeeps, NoMoreChunksKeeps, WaitKeeps, EnterChunksKeeps,
   NextNodeKeeps, LeaveGraphKeeps
   DEF ComputeThread

LEMMA OneThread ==
  ASSUME TypeOK, NEW t \in Threads, ComputeThread(t)
  PROVE  /\ at[t] # "out" /\ UNCHANGED n_threads_cur
         /\ \A s \in Threads \ {t} : at'[s] = at[s]
BY DEF TypeOK, ComputeThread, SkipEmpty, StartNode, LeaveLoop, InLoop, AbortCallback, Convert,
       ComputeChunk, Computing, TakeChunk, NoMoreChunks, Wait, BarrierCalls, EnterChunks, NextNode,
       LeaveGraph, Goto, threadVars

\* Threads outside the team take no step.
LEMMA OnlyTheTeam ==
  ASSUME TypeOK, BarrierInv, NEW k, NEW n, Stretch(k, n), NEW t \in Threads, ComputeThread(t)
  PROVE  t \in Team
BY OneThread DEF Stretch, Control

\* At the beginning the barrier opens when all of the team have entered; until then
\* who is out stays out, and who is released leaves the last graph.
LEMMA AtTheBeginning ==
  ASSUME TypeOK, BarrierInv, NEW k, NEW n, Stretch(k, n), Beginning(k, n),
         NEW t \in Team, ComputeThread(t)
  PROVE  \/ /\ \A s \in Team : at[s] # "out" /\ ~Released(s)
            /\ (\E m \in Nodes : Stretch("chunks", m)') \/ Stretch("done", NNodes)'
         \/ /\ Stretch(k, n)'
            /\ \A s \in Team :
                 /\ Released(s)' => Released(s)
                 /\ Released(s) => Released(s)' \/ at'[s] = "out"
                 /\ at[s] = "out" => at'[s] = "out"
                 /\ at'[s] = "out" => at[s] = "out" \/ Released(s)
<1> USE DEF Goto, TypeOK
<1>1. Team \subseteq Threads /\ BarrierTypeOK
  BY TeamSize
<1>2. CASE SkipEmpty(t) \/ StartNode(t) \/ LeaveLoop(t) \/ AbortCallback(t) \/ Convert(t)
           \/ ComputeChunk(t) \/ TakeChunk(t) \/ NoMoreChunks(t)
  <2>1. Stretch(k, n)'
    BY <1>2, SkipEmptyKeeps, StartNodeKeeps, LeaveLoopKeeps, AbortCallbackKeeps, ConvertKeeps,
       ComputeChunkKeeps, TakeChunkKeeps, NoMoreChunksKeeps
  <2>2. /\ UNCHANGED <<n_threads_cur, barrierVars>>
        /\ \A s \in Threads : at'[s] = "out" <=> at[s] = "out"
    BY <1>1, <1>2 DEF SkipEmpty, StartNode, LeaveLoop, InLoop, AbortCallback, Convert, ComputeChunk,
                      Computing, TakeChunk, NoMoreChunks
  <2> QED BY <1>1, <2>1, <2>2, Quietly
<1>3. CASE Wait(t)
  <2>1. Stretch(k, n)'
    BY <1>3, WaitKeeps
  <2>2. \A s \in Team : Released(s)' <=> Released(s)
    BY <1>1, <1>3, Reads, Arrives, Resets DEF Wait, InBarrier
  <2> QED BY <1>3, <2>1, <2>2 DEF Wait, threadVars
<1>4. ASSUME EnterChunks(t) \/ NextNode(t)
      PROVE  ~Released(t) /\ EnterChunks(t)
  <2>1. at[t] = "ready" \/ at[t] = "sync"
    BY <1>4 DEF EnterChunks, NextNode
  <2>2. IF Released(t) THEN Before(t, k, n) ELSE In(t, k, n)
    BY DEF Stretch, Control
  <2> QED BY <1>4, <2>1, <2>2 DEF Beginning, In, Before, NextNode
<1>5. ASSUME ~Released(t), LeaveBarrier(t), UNCHANGED n_threads_cur, at[t] # "out"
      PROVE  \A s \in Team : at[s] # "out" /\ ~Released(s)
  <2>1. \A s \in Team \ {t} : bar[s] = "waiting" /\ ~Released(s)
    BY <1>1, <1>5, Leaves
  <2> QED BY <1>5, <2>1 DEF Stretch, Control, BarrierCalls
<1>6. CASE EnterChunks(t)
  <2>1. ~Released(t)' /\ at'[t] = "chunk" /\ Team' = Team
    BY <1>1, <1>6, Leaves DEF EnterChunks, Team
  <2>2. ~Stretch(k, n)'
    <3>1. ~In(t, k, n)'
      BY <2>1 DEF In, Beginning
    <3> QED BY <2>1, <3>1 DEF Stretch, Control
  <2>3. \E m \in Nodes : Stretch("chunks", m)'
    BY <1>6, <2>2, EnterChunksKeeps
  <2> QED BY <1>4, <1>5, <1>6, <2>3 DEF EnterChunks
<1>7. CASE LeaveGraph(t) /\ ~Released(t)
  BY <1>5, <1>7, LeaveGraphKeeps DEF LeaveGraph
<1>8. CASE LeaveGraph(t) /\ Released(t)
  <2>1. Stretch(k, n)'
    BY <1>8, LeaveGraphKeeps
  <2>2. ~Released(t)' /\ \A s \in Team \ {t} : Released(s)' <=> Released(s)
    BY <1>1, <1>8, Leaves DEF LeaveGraph
  <2>3. at'[t] = "out" /\ \A s \in Threads \ {t} : at'[s] = at[s]
    BY <1>1, <1>8 DEF LeaveGraph
  <2> QED BY <1>1, <1>8, <2>1, <2>2, <2>3
<1> QED BY <1>2, <1>3, <1>4, <1>6, <1>7, <1>8 DEF ComputeThread

-----------------------------------------------------------------------------
(* The specification of a graph whose threads have all been told of it.    *)

\* All of the team are in the graph from the start, and out of it at its end only.
AllEntered(k, n) == Beginning(k, n) => \A t \in Team : at[t] # "out" /\ ~Released(t)

IInv ==
  /\ TypeOK /\ BarrierInv
  /\ \E k \in {"loop", "chunks", "done"} : \E n \in -1..NNodes : Stretch(k, n) /\ AllEntered(k, n)

LEMMA Initially == Init => IInv
<1> SUFFICES ASSUME Init PROVE IInv
  OBVIOUS
<1> USE GraphAssumption, ThreadsAssumption DEF Init, BarrierInit
<1>1. BarrierTypeOK
  BY DEF BarrierTypeOK, BarrierPoints, Threads
<1>2. Team \subseteq Threads /\ NNodes \in Nat /\ n_threads_cur \in Nat \ {0}
  BY <1>1, TeamSize
<1>3. TypeOK
  BY <1>1, <1>2 DEF TypeOK, Points, NothingDone, Slots
<1>4. BarrierInv
  <2>1. Arrived = {}
    BY <1>2 DEF Arrived
  <2> QED BY <1>2, <2>1, FS_EmptySet DEF BarrierInv
<1>5. \A t \in Team : at[t] = "loop" /\ ~Released(t) /\ bar[t] = "out" /\ nth[t] = n_threads_cur
  BY <1>2 DEF Team, Threads, Released
<1>6. Control("loop", -1)
  <2>1. \A t \in Team : In(t, "loop", -1)
    BY <1>2, <1>5 DEF In, Empty, Nodes
  <2>2. \A t \in Threads \ Team : at[t] = "out"
    BY <1>2 DEF Team, Threads
  <2> QED BY <1>2, <1>5, <2>1, <2>2 DEF Control
<1>7. Data("loop", -1)
  BY <1>2, <1>5, <1>1, TeamSize DEF Data, Untouched, NothingDone, Nodes
<1>8. AllEntered("loop", -1)
  BY <1>5 DEF AllEntered
<1> QED BY <1>2, <1>3, <1>4, <1>6, <1>7, <1>8 DEF IInv, Stretch

LEMMA Inductive == IInv /\ [Next]_vars => IInv'
<1> SUFFICES ASSUME IInv, [Next]_vars PROVE IInv'
  OBVIOUS
<1>1. PICK k \in {"loop", "chunks", "done"}, n \in -1..NNodes : Stretch(k, n) /\ AllEntered(k, n)
  BY DEF IInv
<1>2. TypeOK /\ BarrierInv /\ NNodes \in Nat
  BY GraphAssumption DEF IInv
<1>3. CASE UNCHANGED vars
  <2>1. TypeOK' /\ BarrierInv' /\ Stretch(k, n)'
    BY <1>1, <1>2, <1>3, Stutters
  <2>2. AllEntered(k, n)'
    BY <1>1, <1>2, <1>3, Stutters DEF AllEntered, vars, threadVars
  <2> QED BY <2>1, <2>2 DEF IInv
<1>4. ASSUME NEW t \in Threads, ComputeThread(t)
      PROVE  IInv'
  <2>1. t \in Team /\ Team' = Team /\ Team \subseteq Threads
    BY <1>1, <1>2, <1>4, OneThread, OnlyTheTeam, TeamSize DEF Team, TypeOK
  <2>2. TypeOK' /\ BarrierInv'
    BY <1>1, <1>2, <1>4, <2>1, ComputeKeeps
  <2>3. ASSUME NEW m \in Nodes, Stretch("chunks", m)' \/ Stretch("loop", m)'
        PROVE  IInv'
    <3>1. m \in -1..NNodes /\ m # -1
      BY <1>2 DEF Nodes
    <3>2. AllEntered("chunks", m)' /\ AllEntered("loop", m)'
      BY <3>1 DEF AllEntered, Beginning
    <3> QED BY <2>2, <2>3, <3>1, <3>2 DEF IInv
  <2>4. CASE Stretch("done", NNodes)'
    BY <1>2, <2>2, <2>4 DEF IInv, AllEntered, Beginning
  <2>5. CASE Beginning(k, n) /\ Stretch(k, n)'
    <3>1. \A s \in Team : at[s] # "out" /\ ~Released(s)
      BY <1>1, <2>5 DEF AllEntered
    <3>2. \/ (\E m \in Nodes : Stretch("chunks", m)') \/ Stretch("done", NNodes)'
          \/ \A s \in Team : at'[s] # "out" /\ ~Released(s)'
      BY <1>1, <1>2, <1>4, <2>1, <2>5, <3>1, AtTheBeginning
    <3>3. CASE \A s \in Team : at'[s] # "out" /\ ~Released(s)'
      <4>1. AllEntered(k, n)'
        BY <2>1, <3>3 DEF AllEntered
      <4> QED BY <2>2, <2>5, <4>1 DEF IInv
    <3> QED BY <2>3, <2>4, <3>2, <3>3
  <2>6. CASE ~Beginning(k, n) /\ Stretch(k, n)'
    <3>1. AllEntered(k, n)'
      BY <2>6 DEF AllEntered, Beginning
    <3> QED BY <2>2, <2>6, <3>1 DEF IInv
  <2> QED BY <1>1, <1>2, <1>4, <2>1, <2>3, <2>4, <2>5, <2>6, ComputeKeeps
<1> QED BY <1>3, <1>4 DEF Next

\* Whatever the graph and the number of threads, the computation is in a stretch.
THEOREM Invariant == Spec => []IInv
<1> QED BY Initially, Inductive, PTL DEF Spec

\* Every variable of the threads and of the graph keeps its type: the shared
\* counters stay natural, and no thread's node runs past the end of the graph.
THEOREM TypeCorrect == Spec => []TypeOK
<1>1. IInv => TypeOK
  BY DEF IInv
<1> QED BY <1>1, Invariant, PTL

\* A thread that computes a chunk reads a wdata that every thread of the team has
\* filled for this node, and that none is filling for another.
THEOREM ReadsConvertedAlways == Spec => []ReadsConverted
<1>1. ASSUME IInv, NEW t \in Threads, Computing(t), NEW s \in Threads, s < nth[t]
      PROVE  wdata[s] = node[t] /\ at[s] # "convert"
  <2>1. PICK k \in {"loop", "chunks", "done"}, n \in -1..NNodes : Stretch(k, n)
    BY <1>1 DEF IInv
  <2>2. TypeOK /\ BarrierInv /\ at[t] = "chunk"
    BY <1>1 DEF IInv, Computing
  <2>3. t \in Team
    BY <2>1, <2>2, <1>1 DEF Stretch, Control
  <2>4. nth[t] = n_threads_cur /\ k = "chunks" /\ n \in Nodes /\ node[t] = n
    BY <2>1, <2>2, <2>3, AmongChunks
  <2>5. s \in Team
    BY <1>1, <2>2, <2>4 DEF Team, Threads, TypeOK, BarrierTypeOK
  <2>6. wdata[s] = n
    BY <2>1, <2>4, <2>5 DEF Stretch, Data, ChunksInv
  <2>7. IF Released(s) THEN at[s] = "ready" ELSE In(s, k, n)
    BY <2>1, <2>4, <2>5 DEF Stretch, Control, Before
  <2> QED BY <2>4, <2>6, <2>7 DEF In
<1>2. IInv => ReadsConverted
  BY <1>1 DEF ReadsConverted
<1> QED BY <1>2, Invariant, PTL

-----------------------------------------------------------------------------
(* The threads together compute the nodes in their order.                  *)

AllOut == \A t \in Threads : at[t] = "out"

LEMMA FinishedIsComplete ==
  ASSUME TypeOK, NEW m \in Nodes
  PROVE  Finished(m) <=> Ordered!Complete(m)
BY Sizes DEF Finished, Ordered!Complete

\* Outside the graph again, the threads have been through all of it.
LEMMA OutIsDone ==
  IInv /\ AllOut /\ ec = "success" => \A m \in Nodes : Finished(m)
<1> SUFFICES ASSUME IInv, AllOut, ec = "success", NEW m \in Nodes PROVE Finished(m)
  OBVIOUS
<1>1. PICK k \in {"loop", "chunks", "done"}, n \in -1..NNodes : Stretch(k, n) /\ AllEntered(k, n)
  BY DEF IInv
<1>2. 0 \in Team /\ 0 \in Threads
  BY TeamSize DEF IInv, TypeOK
<1>3. at[0] = "out" /\ ~Released(0)
  BY <1>1, <1>2 DEF AllOut, Stretch, Control, Released, BarrierCalls
<1>4. k = "done"
  BY <1>1, <1>2, <1>3 DEF Stretch, Control, In, AllEntered, Beginning
<1> QED BY <1>1, <1>4 DEF Stretch, Data

LEMMA OrderedInit == Init => Ordered!Init
<1> SUFFICES ASSUME Init PROVE Ordered!Init
  OBVIOUS
<1>1. TypeOK /\ 0 \in Threads
  BY Initially, TeamSize DEF IInv, TypeOK
<1>2. at[0] = "loop"
  BY <1>1, ThreadsAssumption DEF Init, Threads
<1>3. \A n \in Nodes : NChunks(n, n_threads_cur) \in Nat
  BY <1>1, Sizes
<1>4. done = [n \in Nodes |-> [c \in DOMAIN done[n] |-> 0]]
  BY DEF Init, NothingDone
<1> QED BY <1>1, <1>2, <1>3, <1>4 DEF Ordered!Init

LEMMA OrderedStep == IInv /\ [Next]_vars => [Ordered!Next]_(Ordered!vars)
<1>0. (IInv /\ AllOut /\ ec = "success" => \A m \in Nodes : Finished(m))'
  BY OutIsDone, PTL
<1> SUFFICES ASSUME IInv, [Next]_vars PROVE [Ordered!Next]_(Ordered!vars)
  OBVIOUS
<1>1. CASE UNCHANGED vars
  BY <1>1 DEF vars, threadVars, graphVars, Ordered!vars
<1>2. ASSUME NEW t \in Threads, ComputeThread(t)
      PROVE  [Ordered!Next]_(Ordered!vars)
  <2>1. PICK k \in {"loop", "chunks", "done"}, n \in -1..NNodes : Stretch(k, n)
    BY DEF IInv
  <2>2. TypeOK /\ TypeOK' /\ IInv' /\ BarrierInv /\ t \in Team /\ at \in [Threads -> Points]
    <3>1. IInv'
      BY <1>2, Inductive DEF Next
    <3> QED BY <1>2, <2>1, <3>1, OnlyTheTeam DEF IInv, TypeOK
  <2>3. ~AllOut /\ n_threads_cur' = n_threads_cur
    BY <1>2, <2>2, OneThread DEF AllOut
  <2>4. CASE ComputeChunk(t)
    <3>1. /\ n \in Nodes /\ chunk[t] \in 0..(NChunks(n, n_threads_cur) - 1)
          /\ done[n][chunk[t]] = 0 /\ \A m \in Nodes : m < n => Finished(m)
          /\ done' = [done EXCEPT ![n][chunk[t]] = 1]
          /\ Chunks[n] # 0
      BY <2>1, <2>2, <2>4, ComputeChunkOnce DEF Stretch, Control
    <3>2. ~AllOut'
      BY <2>2, <2>4 DEF AllOut, ComputeChunk, Goto
    <3>3. \A m \in Nodes : m < n => Ordered!Complete(m)
      BY <2>2, <3>1, FinishedIsComplete
    <3>4. Ordered!Compute(n, chunk[t])
      BY <2>3, <3>1, <3>2, <3>3 DEF Ordered!Compute, AllOut
    <3> QED BY <3>1, <3>4 DEF Ordered!Next
  <2>5. CASE ~ComputeChunk(t)
    <3>1. done' = done
      BY <1>2, <2>5 DEF ComputeThread, SkipEmpty, StartNode, LeaveLoop, AbortCallback, Convert,
                        TakeChunk, NoMoreChunks, Wait, EnterChunks, NextNode, LeaveGraph, graphVars
    <3>2. CASE ~AllOut'
      BY <2>3, <3>1, <3>2 DEF AllOut, Ordered!vars
    <3>3. CASE AllOut'
      <4>1. ec' \in {"success", "aborted"}
        BY <2>2 DEF TypeOK
      <4>2. ASSUME ec' = "success", NEW m \in Nodes
            PROVE  Ordered!Complete(m)
        <5>1. Finished(m)
          BY <1>0, <2>2, <2>3, <3>1, <3>3, <4>2 DEF Finished
        <5> QED BY <2>2, <5>1, FinishedIsComplete
      <4>3. PICK e \in {"success", "aborted"} : e = ec'
        BY <4>1
      <4>4. Ordered!End(e)
        BY <2>3, <3>1, <3>3, <4>2, <4>3 DEF Ordered!End, AllOut
      <4> QED BY <4>4 DEF Ordered!Next
    <3> QED BY <3>2, <3>3
  <2> QED BY <2>4, <2>5
<1> QED BY <1>1, <1>2 DEF Next

\* Every chunk of every node is computed once, no node before those that precede it
\* are complete, and a graph that is not aborted is complete when its threads return.
THEOREM ImplementsGraphInOrder == Spec => NodesInOrder
<1> QED BY Initially, Inductive, OrderedInit, OrderedStep, PTL DEF Spec, NodesInOrder, Ordered!Spec

-----------------------------------------------------------------------------
(* The pool.                                                               *)

\* The graph has been announced, and not yet returned.
Begun == main \in {"signalled", "computing"}

\* t has not noticed the present graph.
Late(t) == last_graph[t] # n_graph

\* The main thread: between graphs the last one is done, and it begins the next.
MainAt(k, n) ==
  /\ main \in {"idle", "freeing", "freed"} => k = "done" \/ (n_graph = 0 /\ Beginning(k, n))
  /\ main \in {"reset", "counted", "signalled"} => Beginning(k, n)
  /\ main \in {"reset", "counted"} => n_graph < MaxGraphs
  /\ main = "computing" /\ Beginning(k, n) => at[0] # "out" /\ ~Released(0)
  /\ main # "computing" => at[0] = "out"
  /\ n_graph = 0 => ~Begun

\* Worker t: of the team, it is late at most at the beginning of a graph, where it
\* is not in it; and there, once it is not late, it is in or on its way.
WorkerAt(t, k, n) ==
  /\ worker[t] # "running" => at[t] = "out"
  /\ t \notin Team => worker[t] \notin {"run", "running"}
  /\ n_graph = 0 => last_graph[t] = 0 /\ worker[t] \notin {"run", "running", "seen"}
  /\ t \in Team =>
       /\ Late(t) => Begun /\ Beginning(k, n)
       /\ Late(t) \/ ~Begun => worker[t] # "run" /\ (at[t] = "out" \/ Released(t))
       /\ worker[t] = "seen" => Late(t) /\ new_graph[t] = n_graph
       /\ worker[t] = "run" => Beginning(k, n)
       /\ Begun /\ Beginning(k, n) /\ ~Late(t) =>
            ~Released(t) /\ (at[t] = "out" => worker[t] = "run")

HandedOver(k, n) ==
  Stretch(k, n) /\ MainAt(k, n) /\ \A t \in Workers : WorkerAt(t, k, n)

PoolInv ==
  /\ Steady /\ PoolTypeOK /\ BarrierInv
  /\ \E k \in {"loop", "chunks", "done"} : \E n \in -1..NNodes : HandedOver(k, n)

-----------------------------------------------------------------------------
LEMMA PoolInitially == Steady /\ PoolInit => PoolInv
<1> SUFFICES ASSUME Steady, PoolInit PROVE PoolInv
  OBVIOUS
<1> USE GraphAssumption, ThreadsAssumption, PoolAssumption DEF PoolInit, BarrierInit
<1>1. BarrierTypeOK
  BY DEF BarrierTypeOK, BarrierPoints, Threads
<1>2. Team \subseteq Threads /\ Team = Threads /\ NNodes \in Nat /\ Workers \subseteq Threads
  BY <1>1, TeamSize DEF Team, Threads, Workers
<1>3. TypeOK
  BY <1>1, <1>2 DEF TypeOK, Points, NothingDone, Slots
<1>4. PoolTypeOK
  <2>1. worker \in [Workers -> WorkerPoints] /\ main \in MainPoints
    BY DEF MainPoints, WorkerPoints
  <2>2. 0 \in 0..MaxGraphs
    OBVIOUS
  <2> QED BY <1>3, <2>1, <2>2, Zenon DEF PoolTypeOK
<1>5. BarrierInv
  <2>1. Arrived = {}
    BY <1>2 DEF Arrived
  <2> QED BY <1>2, <2>1, FS_EmptySet DEF BarrierInv
<1>6. \A t \in Threads : at[t] = "out" /\ ~Released(t) /\ bar[t] = "out"
  BY <1>2 DEF Released
<1>7. Control("loop", -1)
  BY <1>2, <1>6 DEF Control, In
<1>8. Data("loop", -1)
  BY <1>2, <1>6, <1>1, TeamSize DEF Data, Untouched, NothingDone, Nodes
<1>9. MainAt("loop", -1)
  BY <1>1, <1>2, <1>6, TeamSize DEF MainAt, Beginning, Begun
<1>10. \A t \in Workers : WorkerAt(t, "loop", -1)
  BY <1>2, <1>6 DEF WorkerAt, Late, Begun
<1> QED BY <1>2, <1>4, <1>5, <1>7, <1>8, <1>9, <1>10 DEF PoolInv, HandedOver, Stretch

-----------------------------------------------------------------------------
(* Steps that do not touch the graph.                                      *)

LEMMA Together ==
  ASSUME PoolTypeOK, BarrierInv, Steady,
         NEW k \in {"loop", "chunks", "done"}, NEW n \in -1..NNodes, HandedOver(k, n),
         UNCHANGED vars, PoolTypeOK', MainAt(k, n)', \A t \in Workers : WorkerAt(t, k, n)'
  PROVE  PoolInv'
BY Stutters DEF PoolInv, HandedOver, PoolTypeOK

\* A worker is where it was as far as the others are concerned.
Unmoved(t) ==
  /\ UNCHANGED <<last_graph[t], new_graph[t]>>
  /\ \A p \in {"run", "running", "seen"} : worker'[t] = p <=> worker[t] = p

LEMMA WorkerKept ==
  ASSUME PoolTypeOK, BarrierInv, UNCHANGED vars, UNCHANGED n_graph, Begun' <=> Begun,
         NEW k, NEW n, NEW t \in Workers, WorkerAt(t, k, n), Unmoved(t)
  PROVE  WorkerAt(t, k, n)'
<1>1. Team' = Team /\ (Released(t)' <=> Released(t)) /\ at' = at
  BY Stutters DEF PoolTypeOK, vars, threadVars
<1>2. Late(t)' <=> Late(t)
  BY DEF Late, Unmoved
<1>3. Beginning(k, n)' <=> Beginning(k, n)
  BY DEF Beginning
<1> QED BY <1>1, <1>2, <1>3 DEF WorkerAt, Unmoved

LEMMA Broadcasts ==
  ASSUME worker \in [Workers -> WorkerPoints], Broadcast
  PROVE  /\ worker' \in [Workers -> WorkerPoints]
         /\ \A t \in Workers : \A p \in {"run", "running", "seen"} : worker'[t] = p <=> worker[t] = p
BY DEF Broadcast, WorkerPoints

LEMMA OneWorker ==
  ASSUME PoolTypeOK, BarrierInv, Steady,
         NEW k \in {"loop", "chunks", "done"}, NEW n \in -1..NNodes, HandedOver(k, n),
         NEW t \in Workers, UNCHANGED vars, UNCHANGED <<n_graph, stop, pause, main>>,
         NEW p \in WorkerPoints, worker' = [worker EXCEPT ![t] = p],
         NEW l \in 0..MaxGraphs, last_graph' = [last_graph EXCEPT ![t] = l],
         NEW g \in 0..MaxGraphs, new_graph' = [new_graph EXCEPT ![t] = g],
         WorkerAt(t, k, n)'
  PROVE  PoolInv'
<1>1. PoolTypeOK'
  BY Stutters DEF PoolTypeOK
<1>2. MainAt(k, n)'
  BY Stutters DEF HandedOver, MainAt, Beginning, Begun, PoolTypeOK, vars, threadVars
<1>3. \A s \in Workers \ {t} : Unmoved(s)
  BY DEF Unmoved, PoolTypeOK
<1>4. \A s \in Workers \ {t} : WorkerAt(s, k, n)'
  BY <1>3, WorkerKept DEF HandedOver, Begun
<1> QED BY <1>1, <1>2, <1>4, Together

-----------------------------------------------------------------------------
(* The workers.                                                            *)

\* Steps that neither see a graph nor take one on.
LEMMA IdlingKeeps ==
  ASSUME PoolTypeOK, BarrierInv, Steady,
         NEW k \in {"loop", "chunks", "done"}, NEW n \in -1..NNodes, HandedOver(k, n),
         NEW t \in Workers,
         \/ CheckPause(t) \/ SleepPaused(t) \/ ResumeWorker(t) \/ CheckStop(t)
         \/ CheckForWork(t) \/ StopPolling(t) \/ Wake(t) \/ GraphRun(t)
  PROVE  PoolInv'
<1>1. /\ UNCHANGED vars /\ UNCHANGED <<n_graph, stop, pause, main, last_graph, new_graph>>
      /\ \E q \in WorkerPoints \ {"run", "running", "seen"} :
            worker' = [worker EXCEPT ![t] = q]
      /\ worker[t] \notin {"run", "seen"} /\ (worker[t] = "running" => at[t] = "out")
  BY DEF CheckPause, SleepPaused, ResumeWorker, CheckStop, CheckForWork, StopPolling, Wake, GraphRun,
         Step, OnlyWorkers, WorkerPoints
<1>2. PICK q \in WorkerPoints \ {"run", "running", "seen"} : worker' = [worker EXCEPT ![t] = q]
  BY <1>1
<1>3. /\ last_graph[t] \in 0..MaxGraphs /\ last_graph' = [last_graph EXCEPT ![t] = last_graph[t]]
      /\ new_graph[t] \in 0..MaxGraphs /\ new_graph' = [new_graph EXCEPT ![t] = new_graph[t]]
  BY <1>1 DEF PoolTypeOK
<1>4. worker'[t] = q
  BY <1>2 DEF PoolTypeOK
<1>5. WorkerAt(t, k, n)'
  <2>1. Team' = Team /\ (Released(t)' <=> Released(t)) /\ at' = at
    BY <1>1, Stutters DEF PoolTypeOK, vars, threadVars
  <2>2. WorkerAt(t, k, n) /\ at[t] = "out"
    BY <1>1 DEF HandedOver, WorkerAt
  <2> QED BY <1>1, <1>2, <1>4, <2>1, <2>2 DEF WorkerAt, Late, Begun, Beginning
<1> QED BY <1>1, <1>2, <1>3, <1>5, OneWorker

\* The worker that polls notices a graph before it knows whether it takes part.
LEMMA PollKeeps ==
  ASSUME PoolTypeOK, BarrierInv, Steady,
         NEW k \in {"loop", "chunks", "done"}, NEW n \in -1..NNodes, HandedOver(k, n),
         NEW t \in Workers, Poll(t)
  PROVE  PoolInv'
<1> USE DEF Poll, Step
<1>1. last_graph[t] \in 0..MaxGraphs /\ last_graph' = [last_graph EXCEPT ![t] = last_graph[t]]
  BY DEF PoolTypeOK
<1>2. /\ Team' = Team /\ (Released(t)' <=> Released(t)) /\ at' = at
      /\ WorkerAt(t, k, n) /\ worker[t] = "poll" /\ at[t] = "out"
  BY Stutters DEF PoolTypeOK, vars, threadVars, HandedOver, WorkerAt
<1>3. CASE worker' = [worker EXCEPT ![t] = "sleep"] /\ UNCHANGED new_graph
  <2>1. new_graph[t] \in 0..MaxGraphs /\ new_graph' = [new_graph EXCEPT ![t] = new_graph[t]]
    BY <1>3 DEF PoolTypeOK
  <2>2. worker'[t] = "sleep"
    BY <1>3 DEF PoolTypeOK
  <2>3. WorkerAt(t, k, n)'
    BY <1>2, <2>2 DEF WorkerAt, Late, Begun, Beginning
  <2> QED BY <1>1, <1>3, <2>1, <2>3, OneWorker DEF WorkerPoints
<1>4. CASE /\ n_graph # last_graph[t] /\ worker' = [worker EXCEPT ![t] = "seen"]
           /\ new_graph' = [new_graph EXCEPT ![t] = n_graph]
  <2>1. n_graph \in 0..MaxGraphs
    BY DEF PoolTypeOK
  <2>2. worker'[t] = "seen" /\ new_graph'[t] = n_graph
    BY <1>4 DEF PoolTypeOK
  <2>3. WorkerAt(t, k, n)'
    BY <1>2, <1>4, <2>2 DEF WorkerAt, Late, Begun, Beginning
  <2> QED BY <1>1, <1>4, <2>1, <2>3, OneWorker DEF WorkerPoints
<1> QED BY <1>3, <1>4

LEMMA ActiveIsTeam ==
  ASSUME PoolTypeOK, NEW t \in Workers
  PROVE  t \in Threads /\ (Active(t) <=> t \in Team) /\ 0 \in Team /\ Team \subseteq Threads
<1>1. BarrierTypeOK
  BY DEF PoolTypeOK, TypeOK
<1>2. t \in Threads
  BY DEF Threads, Workers
<1>3. 0 \in Team /\ Team \subseteq Threads
  BY <1>1, TeamSize
<1>4. Active(t) <=> t \in Team
  BY <1>1, <1>2 DEF BarrierTypeOK, Active, Team, Threads, Workers
<1> QED BY <1>2, <1>3, <1>4

\* A worker that is not in a graph is not in the barrier.
LEMMA OutIsNotReleased ==
  ASSUME PoolTypeOK, BarrierInv, NEW k, NEW n, Stretch(k, n), NEW t \in Threads, at[t] = "out"
  PROVE  ~Released(t)
BY DEF Stretch, Control, Released, BarrierInv, BarrierCalls

\* It takes the graph on, or learns that the graph is not for it.
LEMMA PollActiveKeeps ==
  ASSUME PoolTypeOK, BarrierInv, Steady,
         NEW k \in {"loop", "chunks", "done"}, NEW n \in -1..NNodes, HandedOver(k, n),
         NEW t \in Workers, PollActive(t)
  PROVE  PoolInv'
<1> USE DEF PollActive, Step
<1>1. new_graph[t] \in 0..MaxGraphs /\ new_graph' = [new_graph EXCEPT ![t] = new_graph[t]]
  BY DEF PoolTypeOK
<1>2. /\ Team' = Team /\ (Released(t)' <=> Released(t)) /\ at' = at
      /\ WorkerAt(t, k, n) /\ worker[t] = "seen" /\ at[t] = "out" /\ ~Released(t)
  <2>1. WorkerAt(t, k, n) /\ worker[t] = "seen" /\ at[t] = "out"
    BY DEF HandedOver, WorkerAt
  <2> QED BY <2>1, Stutters, ActiveIsTeam, OutIsNotReleased
          DEF PoolTypeOK, vars, threadVars, HandedOver
<1>3. last_graph'[t] = new_graph[t] /\ worker'[t] = (IF Active(t) THEN "run" ELSE "poll")
  BY DEF PoolTypeOK
<1>4. CASE t \in Team
  <2>1. worker' = [worker EXCEPT ![t] = "run"] /\ worker'[t] = "run"
    BY <1>3, <1>4, ActiveIsTeam
  <2>2. new_graph[t] = n_graph /\ Late(t) /\ Begun /\ Beginning(k, n) /\ n_graph # 0
    BY <1>2, <1>4 DEF WorkerAt
  <2>3. WorkerAt(t, k, n)'
    BY <1>2, <1>3, <1>4, <2>1, <2>2 DEF WorkerAt, Late, Begun, Beginning
  <2> QED BY <1>1, <2>1, <2>3, OneWorker DEF WorkerPoints
<1>5. CASE t \notin Team
  <2>1. worker' = [worker EXCEPT ![t] = "poll"] /\ worker'[t] = "poll"
    BY <1>3, <1>5, ActiveIsTeam
  <2>2. n_graph # 0
    BY <1>2 DEF WorkerAt
  <2>3. WorkerAt(t, k, n)'
    BY <1>2, <1>5, <2>1, <2>2 DEF WorkerAt
  <2> QED BY <1>1, <2>1, <2>3, OneWorker DEF WorkerPoints
<1> QED BY <1>4, <1>5

\* The same under the mutex.
LEMMA SleepKeeps ==
  ASSUME PoolTypeOK, BarrierInv, Steady,
         NEW k \in {"loop", "chunks", "done"}, NEW n \in -1..NNodes, HandedOver(k, n),
         NEW t \in Workers, Sleep(t)
  PROVE  PoolInv'
<1> USE DEF Sleep, Step
<1>1. new_graph[t] \in 0..MaxGraphs /\ new_graph' = [new_graph EXCEPT ![t] = new_graph[t]]
  BY DEF PoolTypeOK
<1>2. /\ Team' = Team /\ (Released(t)' <=> Released(t)) /\ at' = at
      /\ WorkerAt(t, k, n) /\ worker[t] = "sleep" /\ at[t] = "out" /\ ~Released(t)
  <2>1. WorkerAt(t, k, n) /\ worker[t] = "sleep" /\ at[t] = "out"
    BY DEF HandedOver, WorkerAt
  <2> QED BY <2>1, Stutters, ActiveIsTeam, OutIsNotReleased
          DEF PoolTypeOK, vars, threadVars, HandedOver
<1>3. CASE worker' = [worker EXCEPT ![t] = "top"] /\ UNCHANGED last_graph
  <2>1. last_graph[t] \in 0..MaxGraphs /\ last_graph' = [last_graph EXCEPT ![t] = last_graph[t]]
    BY <1>3 DEF PoolTypeOK
  <2>2. worker'[t] = "top"
    BY <1>3 DEF PoolTypeOK
  <2>3. WorkerAt(t, k, n)'
    BY <1>2, <1>3, <2>2 DEF WorkerAt, Late, Begun, Beginning
  <2> QED BY <1>1, <1>3, <2>1, <2>3, OneWorker DEF WorkerPoints
<1>4. CASE last_graph' = [last_graph EXCEPT ![t] = n_graph]
  <2>1. n_graph \in 0..MaxGraphs /\ last_graph'[t] = n_graph
    BY <1>4 DEF PoolTypeOK
  <2>2. CASE Late(t) /\ t \in Team /\ worker' = [worker EXCEPT ![t] = "run"]
    <3>1. worker'[t] = "run"
      BY <2>2 DEF PoolTypeOK
    <3>2. Begun /\ Beginning(k, n) /\ n_graph # 0
      BY <1>2, <2>2 DEF WorkerAt, Late
    <3>3. WorkerAt(t, k, n)'
      BY <1>2, <2>1, <2>2, <3>1, <3>2 DEF WorkerAt, Late, Begun, Beginning
    <3> QED BY <1>1, <1>4, <2>1, <2>2, <3>3, OneWorker DEF WorkerPoints
  <2>3. CASE ~(Late(t) /\ t \in Team) /\ worker' = [worker EXCEPT ![t] = "waiting"]
    <3>1. worker'[t] = "waiting"
      BY <2>3 DEF PoolTypeOK
    <3>2. WorkerAt(t, k, n)'
      BY <1>2, <2>1, <2>3, <3>1 DEF WorkerAt, Late, Begun, Beginning
    <3> QED BY <1>1, <1>4, <2>1, <2>3, <3>2, OneWorker DEF WorkerPoints
  <2> QED BY <1>4, <2>2, <2>3, ActiveIsTeam, <1>3 DEF Late
<1> QED BY <1>3, <1>4

-----------------------------------------------------------------------------
(* Entering a graph.                                                       *)

LEMMA EnterGraphKeeps ==
  ASSUME TypeOK, BarrierInv, NEW k, NEW n, Stretch(k, n), Beginning(k, n),
         NEW t \in Team, at[t] = "out", ~Released(t),
         EnterGraph(t), UNCHANGED <<n_threads_cur, barrierVars, graphVars>>
  PROVE  /\ TypeOK' /\ BarrierInv' /\ Team' = Team /\ Stretch(k, n)'
         /\ at'[t] = "loop" /\ \A s \in Threads \ {t} : at'[s] = at[s]
         /\ \A s : Released(s)' <=> Released(s)
<1> USE DEF EnterGraph, graphVars
<1>1. /\ Team \subseteq Threads /\ BarrierTypeOK' /\ BarrierInv' /\ Team' = Team
      /\ \A s : Released(s)' <=> Released(s)
  BY TeamSize, Quietly DEF TypeOK
<1>2. NNodes \in Nat /\ n_threads_cur \in 1..MaxThreads /\ t \in Threads
  BY <1>1, GraphAssumption DEF TypeOK, BarrierTypeOK
<1>3. TypeOK'
  BY <1>1, <1>2 DEF TypeOK, Points, Slots
<1>4. /\ at'[t] = "loop" /\ nth'[t] = n_threads_cur /\ node'[t] = 0
      /\ \A s \in Threads \ {t} : at'[s] = at[s] /\ nth'[s] = nth[s] /\ node'[s] = node[s]
  BY <1>2 DEF TypeOK
<1>5. In(t, k, n)'
  BY <1>2, <1>4 DEF Beginning, In, Empty, Nodes
<1>6. bar[t] = "out"
  BY DEF Stretch, Control, BarrierCalls
<1>7. Control(k, n)'
  BY <1>4, <1>5, <1>6, ControlKept DEF Stretch
<1>8. Data(k, n)'
  BY <1>4, LoopDataKept DEF Stretch, Beginning
<1> QED BY <1>1, <1>3, <1>4, <1>7, <1>8 DEF Stretch

LEMMA RunGraphKeeps ==
  ASSUME PoolTypeOK, BarrierInv, Steady,
         NEW k \in {"loop", "chunks", "done"}, NEW n \in -1..NNodes, HandedOver(k, n),
         NEW t \in Workers, RunGraph(t)
  PROVE  PoolInv'
<1> USE DEF RunGraph, Step
<1>1. WorkerAt(t, k, n) /\ worker[t] = "run" /\ at[t] = "out" /\ t \in Threads /\ t # 0
  BY ActiveIsTeam DEF HandedOver, WorkerAt, Workers
<1>2. t \in Team /\ Beginning(k, n) /\ Begun /\ ~Late(t) /\ n_graph # 0
  BY <1>1 DEF WorkerAt
<1>3. ~Released(t)
  BY <1>1, OutIsNotReleased DEF HandedOver
<1>4. /\ TypeOK' /\ BarrierInv' /\ Team' = Team /\ Stretch(k, n)'
      /\ at'[t] = "loop" /\ \A s \in Threads \ {t} : at'[s] = at[s]
      /\ \A s : Released(s)' <=> Released(s)
  BY <1>1, <1>2, <1>3, EnterGraphKeeps DEF HandedOver, PoolTypeOK
<1>5. PoolTypeOK'
  BY <1>4 DEF PoolTypeOK, WorkerPoints
<1>6. MainAt(k, n)'
  BY <1>1, <1>4, ActiveIsTeam DEF HandedOver, MainAt, Beginning, Begun
<1>7. ASSUME NEW s \in Workers \ {t}
      PROVE  WorkerAt(s, k, n)'
  <2>1. at'[s] = at[s] /\ worker'[s] = worker[s]
    BY <1>4, ActiveIsTeam DEF PoolTypeOK
  <2> QED BY <1>4, <2>1 DEF HandedOver, WorkerAt, Late, Begun, Beginning
<1>8. WorkerAt(t, k, n)'
  <2>1. worker'[t] = "running"
    BY DEF PoolTypeOK
  <2> QED BY <1>2, <1>3, <1>4, <2>1 DEF WorkerAt, Late, Begun, Beginning
<1> QED BY <1>4, <1>5, <1>6, <1>7, <1>8 DEF PoolInv, HandedOver

-----------------------------------------------------------------------------
(* The main thread.                                                        *)

\* Pause, resume, free and join leave the graph and its workers alone.
LEMMA CallKeeps ==
  ASSUME PoolTypeOK, BarrierInv, Steady,
         NEW k \in {"loop", "chunks", "done"}, NEW n \in -1..NNodes, HandedOver(k, n),
         Pause \/ Resume \/ Free \/ Joined
  PROVE  PoolInv'
<1>1. /\ UNCHANGED vars /\ UNCHANGED <<n_graph, last_graph, new_graph>>
      /\ main \in {"idle", "freeing"} /\ main' \in {"idle", "freeing", "freed"}
      /\ stop' \in BOOLEAN /\ pause' \in BOOLEAN
      /\ Broadcast \/ UNCHANGED worker
  BY Zenon DEF Pause, Resume, Free, Joined, PoolTypeOK
<1>2. /\ worker' \in [Workers -> WorkerPoints]
      /\ \A t \in Workers : Unmoved(t)
  BY <1>1, Broadcasts DEF PoolTypeOK, Unmoved
<1>3. (Begun' <=> Begun) /\ main' \in MainPoints
  BY <1>1 DEF Begun, MainPoints
<1>4. PoolTypeOK'
  BY <1>1, <1>2, <1>3, Stutters DEF PoolTypeOK
<1>5. MainAt(k, n)'
  BY <1>1 DEF HandedOver, MainAt, Beginning, Begun, vars, threadVars
<1>6. \A t \in Workers : WorkerAt(t, k, n)'
  BY <1>1, <1>2, <1>3, WorkerKept DEF HandedOver
<1> QED BY <1>1, <1>4, <1>5, <1>6, Together

\* Between two graphs the threads are out of the last, or released from its barrier.
LEMMA BetweenGraphs ==
  ASSUME PoolTypeOK, BarrierInv,
         NEW k, NEW n, HandedOver(k, n), main \in {"idle", "reset", "counted"}
  PROVE  /\ \A t \in Threads : at[t] = "out" \/ (Released(t) /\ at[t] = "finish")
         /\ at[0] = "out" /\ ~Released(0)
<1>1. \A t \in Threads : t \in Team \/ at[t] = "out"
  BY DEF HandedOver, Stretch, Control
<1>2. at[0] = "out" /\ ~Begun
  BY DEF HandedOver, MainAt, Begun
<1>3. \A t \in Team \ {0} : at[t] = "out" \/ Released(t)
  <2>1. \A t \in Team \ {0} : t \in Workers
    BY TeamSize DEF PoolTypeOK, TypeOK, Workers
  <2> QED BY <1>2, <2>1 DEF HandedOver, WorkerAt
<1>4. k = "done" \/ Beginning(k, n)
  BY DEF HandedOver, MainAt
<1>5. \A t \in Team : Released(t) => at[t] = "finish"
  BY <1>4 DEF HandedOver, Stretch, Control, Before, Beginning
<1>6. 0 \in Threads
  BY TeamSize DEF PoolTypeOK, TypeOK
<1> QED BY <1>1, <1>2, <1>3, <1>5, <1>6, OutIsNotReleased DEF HandedOver

LEMMA ResetGraphKeeps ==
  ASSUME PoolTypeOK, BarrierInv, Steady,
         NEW k \in {"loop", "chunks", "done"}, NEW n \in -1..NNodes, HandedOver(k, n),
         ResetGraph
  PROVE  PoolInv'
<1> USE DEF ResetGraph, threadVars
<1>1. /\ BarrierTypeOK' /\ BarrierInv' /\ Team' = Team /\ Team \subseteq Threads /\ 0 \in Team
      /\ \A s : Released(s)' <=> Released(s)
  BY TeamSize, Quietly DEF PoolTypeOK, TypeOK
<1>2. \A t \in Threads : at[t] = "out" \/ (Released(t) /\ at[t] = "finish")
  BY BetweenGraphs
<1>3. NNodes \in Nat
  BY GraphAssumption
<1>4. TypeOK'
  BY <1>1, <1>3 DEF PoolTypeOK, TypeOK, NothingDone, Slots
<1>5. PoolTypeOK'
  BY <1>4 DEF PoolTypeOK, MainPoints
<1>6. Control("loop", -1)'
  <2>1. \A t \in Team' : IF Released(t)' THEN Before(t, "loop", -1)' ELSE In(t, "loop", -1)'
    BY <1>1, <1>2, OutIsNotReleased DEF Before, In, HandedOver
  <2>2. \A t \in Team' : bar'[t] # "out" => at'[t] \in BarrierCalls
    BY <1>1 DEF HandedOver, Stretch, Control, barrierVars
  <2>3. \A t \in Team' : at'[t] # "out" => nth'[t] = n_threads_cur'
    BY <1>1 DEF HandedOver, Stretch, Control
  <2>4. \A t \in Threads \ Team' : at'[t] = "out"
    BY <1>1 DEF HandedOver, Stretch, Control
  <2> QED BY <1>3, <2>1, <2>2, <2>3, <2>4 DEF Control
<1>7. Data("loop", -1)'
  <2>1. \A m \in Nodes : Untouched(m)'
    BY DEF Untouched, NothingDone
  <2>2. \A t \in Team' : at'[t] # "ready"
    BY <1>1, <1>2
  <2>3. \A m \in Nodes : ~(m <= -1)
    BY DEF Nodes
  <2> QED BY <1>1, <2>1, <2>2, <2>3 DEF Data
<1>8. MainAt("loop", -1)'
  BY BetweenGraphs DEF MainAt, Beginning, Begun
<1>9. ASSUME NEW t \in Workers
      PROVE  WorkerAt(t, "loop", -1)'
  BY <1>1 DEF HandedOver, WorkerAt, Begun, Late
<1> QED BY <1>1, <1>3, <1>5, <1>6, <1>7, <1>8, <1>9 DEF PoolInv, HandedOver, Stretch

\* The number of threads is stored when all but the released are out; for the first
\* graph, when nobody has been in the barrier at all.
LEMMA SetThreadsKeeps ==
  ASSUME PoolTypeOK, BarrierInv, Steady,
         NEW k \in {"loop", "chunks", "done"}, NEW n \in -1..NNodes, HandedOver(k, n),
         NEW c \in 1..MaxThreads, SetThreads(c)
  PROVE  PoolInv'
<1> USE DEF SetThreads, threadVars, graphVars
<1>1. Beginning(k, n) /\ ~Begun /\ ~Begun' /\ main = "reset" /\ main' = "counted"
  BY DEF HandedOver, MainAt, Begun
<1>2. CASE n_graph > 0
  <2>1. UNCHANGED vars
    BY <1>2 DEF vars
  <2>2. PoolTypeOK'
    BY <2>1, Stutters DEF PoolTypeOK, MainPoints
  <2>3. MainAt(k, n)'
    BY <1>1, <2>1 DEF HandedOver, MainAt, Beginning, Begun, vars
  <2>4. \A t \in Workers : Unmoved(t)
    BY DEF Unmoved
  <2>5. \A t \in Workers : WorkerAt(t, k, n)'
    BY <1>1, <2>1, <2>4, WorkerKept DEF HandedOver
  <2> QED BY <2>1, <2>2, <2>3, <2>5, Together
<1>3. CASE n_graph = 0
  <2>1. \A t \in Threads : at[t] = "out" /\ bar[t] = "out"
    <3>1. \A t \in Workers : worker[t] # "running" /\ at[t] = "out"
      BY <1>3 DEF HandedOver, WorkerAt
    <3>2. \A t \in Threads : at[t] = "out"
      BY <3>1, BetweenGraphs DEF Workers
    <3> QED BY <3>2 DEF HandedOver, Stretch, Control, BarrierCalls, BarrierInv
  <2>2. BarrierTypeOK' /\ BarrierTypeOK
    BY DEF PoolTypeOK, TypeOK, BarrierTypeOK, barrierVars
  <2>3. Team' \subseteq Threads /\ 0 \in Team' /\ Team \subseteq Threads /\ NNodes \in Nat
    <3>1. c - 1 <= MaxThreads - 1 /\ c >= 1 /\ c \in Int /\ MaxThreads \in Int
      BY ThreadsAssumption
    <3> QED BY <2>2, <3>1, TeamSize, GraphAssumption DEF Team, Threads
  <2>4. BarrierInv'
    <3>1. Arrived = {} /\ Arrived' = {}
      BY <2>1, <2>3 DEF Arrived, barrierVars
    <3>2. n_barrier = 0
      BY <2>1, <2>3, <3>1, FS_EmptySet DEF BarrierInv
    <3> QED BY <2>1, <2>3, <3>1, <3>2, FS_EmptySet DEF BarrierInv, barrierVars
  <2>5. PoolTypeOK'
    BY <2>2 DEF PoolTypeOK, TypeOK, MainPoints
  <2>6. Control(k, n)'
    <3>1. \A t \in Threads : ~Released(t)' /\ In(t, k, n)'
      BY <1>1, <2>1 DEF Released, In, Beginning, barrierVars
    <3> QED BY <1>1, <2>1, <2>3, <3>1 DEF HandedOver, Stretch, Control, Beginning, barrierVars
  <2>7. Data(k, n)'
    <3>1. \A m \in Nodes : Untouched(m)' <=> Untouched(m)
      BY DEF Untouched
    <3>2. \A m \in Nodes : ~(m <= n)
      BY <1>1 DEF Nodes, Beginning
    <3>3. \A t \in Team' : at'[t] # "ready"
      BY <2>1, <2>3
    <3> QED BY <1>1, <2>3, <3>1, <3>2, <3>3 DEF HandedOver, Stretch, Data, Beginning
  <2>8. MainAt(k, n)'
    BY <1>1, <2>1, <2>3 DEF HandedOver, MainAt, Beginning
  <2>9. \A t \in Workers : WorkerAt(t, k, n)'
    BY <1>1, <1>3, <2>1 DEF HandedOver, WorkerAt, Late, Workers
  <2> QED BY <2>4, <2>5, <2>6, <2>7, <2>8, <2>9 DEF PoolInv, HandedOver, Stretch
<1> QED BY <1>2, <1>3 DEF PoolTypeOK

\* All of the team are late now.
LEMMA SignalGraphKeeps ==
  ASSUME PoolTypeOK, BarrierInv, Steady,
         NEW k \in {"loop", "chunks", "done"}, NEW n \in -1..NNodes, HandedOver(k, n),
         SignalGraph
  PROVE  PoolInv'
<1> USE DEF SignalGraph
<1>1. /\ Beginning(k, n) /\ main = "counted" /\ ~Begun /\ Begun' /\ n_graph' = n_graph + 1
      /\ n_graph \in Nat /\ n_graph < MaxGraphs /\ MaxGraphs \in Nat /\ at[0] = "out"
  BY PoolAssumption DEF HandedOver, MainAt, Begun, PoolTypeOK
<1>2. PoolTypeOK'
  BY <1>1, Stutters DEF PoolTypeOK, MainPoints
<1>3. MainAt(k, n)'
  BY <1>1 DEF MainAt, Begun, vars, threadVars, Beginning
<1>4. ASSUME NEW t \in Workers
      PROVE  WorkerAt(t, k, n)'
  <2>1. Team' = Team /\ (Released(t)' <=> Released(t)) /\ at' = at
    BY Stutters DEF PoolTypeOK, vars, threadVars
  <2>2. t \in Team => ~Late(t) /\ Late(t)'
    <3>1. WorkerAt(t, k, n)
      BY DEF HandedOver
    <3>2. t \in Team => last_graph[t] = n_graph
      BY <1>1, <3>1 DEF WorkerAt, Late
    <3> QED BY <1>1, <3>2 DEF Late
  <2>3. n_graph' # 0
    BY <1>1
  <2> QED BY <1>1, <2>1, <2>2, <2>3 DEF HandedOver, WorkerAt, Beginning
<1> QED BY <1>2, <1>3, <1>4, Together

LEMMA WakeWorkersKeeps ==
  ASSUME PoolTypeOK, BarrierInv, Steady,
         NEW k \in {"loop", "chunks", "done"}, NEW n \in -1..NNodes, HandedOver(k, n),
         WakeWorkers
  PROVE  PoolInv'
<1> USE DEF WakeWorkers
<1>1. /\ Beginning(k, n) /\ Begun /\ Begun' /\ n_graph # 0
      /\ 0 \in Team /\ 0 \in Threads /\ at[0] = "out" /\ ~Released(0)
  <2>1. 0 \in Team /\ 0 \in Threads
    BY TeamSize DEF PoolTypeOK, TypeOK
  <2>2. Beginning(k, n) /\ Begun /\ Begun' /\ n_graph # 0 /\ at[0] = "out"
    BY DEF HandedOver, MainAt, Begun
  <2> QED BY <2>1, <2>2, OutIsNotReleased DEF HandedOver
<1>2. /\ TypeOK' /\ BarrierInv' /\ Team' = Team /\ Stretch(k, n)'
      /\ at'[0] = "loop" /\ \A s \in Threads \ {0} : at'[s] = at[s]
      /\ \A s : Released(s)' <=> Released(s)
  BY <1>1, EnterGraphKeeps DEF HandedOver, PoolTypeOK
<1>3. worker' \in [Workers -> WorkerPoints] /\ \A t \in Workers : Unmoved(t)
  BY Broadcasts DEF PoolTypeOK, Unmoved
<1>4. PoolTypeOK'
  BY <1>2, <1>3 DEF PoolTypeOK, MainPoints
<1>5. MainAt(k, n)'
  BY <1>1, <1>2 DEF MainAt, Beginning, Begun
<1>6. ASSUME NEW t \in Workers
      PROVE  WorkerAt(t, k, n)'
  <2>1. at'[t] = at[t]
    BY <1>2 DEF Workers
  <2>2. Late(t)' <=> Late(t)
    BY <1>3 DEF Late, Unmoved
  <2> QED BY <1>1, <1>2, <1>3, <2>1, <2>2 DEF HandedOver, WorkerAt, Unmoved, Beginning
<1> QED BY <1>2, <1>4, <1>5, <1>6 DEF PoolInv, HandedOver

\* The last barrier has opened: the stretch is the end of the graph.
LEMMA Returned ==
  ASSUME PoolTypeOK, BarrierInv, NEW k, NEW n, HandedOver(k, n),
         main = "computing", at[0] = "out"
  PROVE  k = "done"
<1>1. 0 \in Team /\ 0 \in Threads
  BY TeamSize DEF PoolTypeOK, TypeOK
<1>2. ~Released(0) /\ ~Beginning(k, n)
  BY <1>1, OutIsNotReleased DEF HandedOver, MainAt
<1> QED BY <1>1, <1>2 DEF HandedOver, Stretch, Control, In, Beginning

LEMMA GraphReturnsKeeps ==
  ASSUME PoolTypeOK, BarrierInv, Steady,
         NEW k \in {"loop", "chunks", "done"}, NEW n \in -1..NNodes, HandedOver(k, n),
         GraphReturns
  PROVE  PoolInv'
<1> USE DEF GraphReturns
<1>1. k = "done" /\ Begun /\ ~Begun' /\ ~Beginning(k, n)
  BY Returned DEF Begun, Beginning
<1>2. PoolTypeOK'
  BY Stutters DEF PoolTypeOK, MainPoints
<1>3. MainAt(k, n)'
  BY <1>1 DEF HandedOver, MainAt, Begun, vars, threadVars
<1>4. ASSUME NEW t \in Workers
      PROVE  WorkerAt(t, k, n)'
  <2>1. Team' = Team /\ (Released(t)' <=> Released(t)) /\ at' = at
    BY Stutters DEF PoolTypeOK, vars, threadVars
  <2>2. t \in Team => at[t] = "out" \/ Released(t)
    BY <1>1 DEF HandedOver, Stretch, Control, In
  <2> QED BY <1>1, <2>1, <2>2 DEF HandedOver, WorkerAt, Late, Beginning
<1> QED BY <1>2, <1>3, <1>4, Together

-----------------------------------------------------------------------------
(* The steps of the threads within a graph.                                *)

\* Once the last barrier has opened its threads only leave it.
LEMMA AtTheEnd ==
  ASSUME TypeOK, BarrierInv, NEW n, Stretch("done", n), NEW t \in Team, ComputeThread(t)
  PROVE  Stretch("done", n)'
<1>1. at[t] # "out" /\ t \in Threads
  BY OneThread, TeamSize DEF TypeOK
<1>2. Released(t) /\ at[t] = "finish" /\ bar[t] = "waiting"
  BY <1>1 DEF Stretch, Control, In, Before, Released
<1>3. LeaveGraph(t)
  BY <1>2 DEF ComputeThread, SkipEmpty, StartNode, LeaveLoop, InLoop, AbortCallback, Convert,
              ComputeChunk, Computing, TakeChunk, NoMoreChunks, Wait, InBarrier, ReadPassed, Arrive,
              ResetCount, EnterChunks, NextNode
<1> QED BY <1>2, <1>3, LeaveGraphKeeps

LEMMA ComputePoolKeeps ==
  ASSUME PoolTypeOK, BarrierInv, Steady,
         NEW k \in {"loop", "chunks", "done"}, NEW n \in -1..NNodes, HandedOver(k, n),
         NEW t \in Threads, Compute(t)
  PROVE  PoolInv'
<1> USE DEF Compute, poolVars
<1>1. /\ TypeOK /\ t \in Team /\ at[t] # "out" /\ Team' = Team /\ Team \subseteq Threads
      /\ \A s \in Threads \ {t} : at'[s] = at[s]
      /\ NNodes \in Nat /\ 0 \in Threads /\ Workers \subseteq Threads
  BY OneThread, OnlyTheTeam, TeamSize, GraphAssumption
     DEF HandedOver, PoolTypeOK, TypeOK, Team, Workers
<1>2. TypeOK' /\ BarrierInv'
  BY <1>1, ComputeKeeps DEF HandedOver
<1>3. PoolTypeOK'
  BY <1>2 DEF PoolTypeOK
<1>4. (t = 0 => main = "computing") /\ (t # 0 => t \in Workers /\ worker[t] = "running")
  BY <1>1 DEF HandedOver, MainAt, WorkerAt, Workers
<1>5. /\ Begun' <=> Begun
      /\ \A s : Late(s)' <=> Late(s)
      /\ \A j, m : Beginning(j, m)' <=> Beginning(j, m)
  BY DEF Begun, Late, Beginning
<1>6. ASSUME NEW j \in {"loop", "chunks", "done"}, NEW m \in -1..NNodes, Stretch(j, m)',
             ~Beginning(j, m), k = "done" => j = "done",
             ~Beginning(k, n) \/ \A s \in Team : at[s] # "out" /\ ~Released(s)
      PROVE  PoolInv'
  <2>1. ~Beginning(k, n) \/ main = "computing"
    BY <1>1, <1>6, TeamSize DEF HandedOver, MainAt, PoolTypeOK, TypeOK
  <2>2. main \in {"idle", "freeing", "freed"} => j = "done"
    BY <1>6, <2>1 DEF HandedOver, MainAt
  <2>3. MainAt(j, m)'
    BY <1>1, <1>4, <1>5, <1>6, <2>1, <2>2 DEF HandedOver, MainAt
  <2>4. ASSUME NEW s \in Workers
        PROVE  WorkerAt(s, j, m)'
    <3>1. WorkerAt(s, k, n) /\ s \in Threads
      BY <1>1 DEF HandedOver
    <3>2. worker'[s] # "running" => at'[s] = "out"
      BY <1>1, <1>4, <3>1 DEF WorkerAt
    <3>3. CASE s \notin Team
      BY <1>1, <3>1, <3>2, <3>3 DEF WorkerAt
    <3>4. CASE s \in Team
      <4>1. ~Late(s) /\ worker[s] \notin {"run", "seen"}
        BY <1>6, <3>1, <3>4 DEF WorkerAt
      <4>2. ~Begun => at'[s] = "out" \/ Released(s)'
        <5>1. ~Begun => j = "done"
          BY <1>6, <2>1, <2>2 DEF HandedOver, MainAt, Begun, PoolTypeOK, MainPoints
        <5> QED BY <1>1, <1>6, <3>4, <5>1 DEF Stretch, Control, In
      <4> QED BY <1>1, <1>5, <1>6, <3>1, <3>2, <3>4, <4>1, <4>2 DEF WorkerAt
    <3> QED BY <3>3, <3>4
  <2> QED BY <1>2, <1>3, <1>6, <2>3, <2>4 DEF PoolInv, HandedOver
<1>7. ASSUME Beginning(k, n), Stretch(k, n)',
             \A s \in Team :
               /\ Released(s)' => Released(s)
               /\ Released(s) => Released(s)' \/ at'[s] = "out"
               /\ at[s] = "out" => at'[s] = "out"
               /\ at'[s] = "out" => at[s] = "out" \/ Released(s)
      PROVE  PoolInv'
  <2>1. 0 \in Team
    BY <1>1, TeamSize DEF TypeOK
  <2>2. MainAt(k, n)'
    BY <1>5, <1>7, <2>1 DEF HandedOver, MainAt
  <2>3. ASSUME NEW s \in Workers
        PROVE  WorkerAt(s, k, n)'
    <3>1. WorkerAt(s, k, n) /\ s \in Threads
      BY <1>1 DEF HandedOver
    <3>2. CASE s \notin Team
      BY <1>1, <3>1, <3>2 DEF WorkerAt
    <3>3. CASE s \in Team
      BY <1>1, <1>5, <1>7, <3>1, <3>3 DEF WorkerAt
    <3> QED BY <3>2, <3>3
  <2> QED BY <1>2, <1>3, <1>7, <2>2, <2>3 DEF PoolInv, HandedOver
<1>8. \A m \in Nodes : /\ m \in -1..NNodes
                       /\ ~Beginning("loop", m) /\ ~Beginning("chunks", m)
  BY <1>1 DEF Nodes, Beginning
<1>9. NNodes \in -1..NNodes /\ ~Beginning("done", NNodes)
  BY <1>1 DEF Beginning
<1>10. CASE Beginning(k, n)
  <2>1. k # "done"
    BY <1>10 DEF Beginning
  <2>2. \/ /\ \A s \in Team : at[s] # "out" /\ ~Released(s)
           /\ (\E m \in Nodes : Stretch("chunks", m)') \/ Stretch("done", NNodes)'
        \/ /\ Stretch(k, n)'
           /\ \A s \in Team :
                /\ Released(s)' => Released(s)
                /\ Released(s) => Released(s)' \/ at'[s] = "out"
                /\ at[s] = "out" => at'[s] = "out"
                /\ at'[s] = "out" => at[s] = "out" \/ Released(s)
    BY <1>1, <1>10, AtTheBeginning DEF HandedOver
  <2>3. CASE \A s \in Team : at[s] # "out" /\ ~Released(s)
    <3>1. ASSUME NEW m \in Nodes, Stretch("chunks", m)'
          PROVE  PoolInv'
      BY <1>6, <1>8, <2>1, <2>3, <3>1
    <3>2. CASE Stretch("done", NNodes)'
      BY <1>6, <1>9, <2>1, <2>3, <3>2
    <3> QED BY <1>7, <1>10, <2>2, <3>1, <3>2
  <2> QED BY <1>7, <1>10, <2>2, <2>3
<1>11. CASE k = "done"
  <2>1. Stretch(k, n)'
    BY <1>1, <1>11, AtTheEnd DEF HandedOver
  <2> QED BY <1>6, <1>11, <2>1 DEF Beginning
<1>12. CASE ~Beginning(k, n) /\ k # "done"
  <2>1. \/ Stretch(k, n)'
        \/ \E m \in Nodes : Stretch("chunks", m)' \/ Stretch("loop", m)'
        \/ Stretch("done", NNodes)'
    BY <1>1, ComputeKeeps DEF HandedOver
  <2>2. CASE Stretch(k, n)'
    BY <1>6, <1>12, <2>2
  <2>3. ASSUME NEW m \in Nodes, Stretch("chunks", m)' \/ Stretch("loop", m)'
        PROVE  PoolInv'
    BY <1>6, <1>8, <1>12, <2>3
  <2>4. CASE Stretch("done", NNodes)'
    BY <1>6, <1>9, <1>12, <2>4
  <2> QED BY <2>1, <2>2, <2>3, <2>4
<1> QED BY <1>10, <1>11, <1>12

-----------------------------------------------------------------------------
LEMMA PoolInductive == PoolInv /\ [PoolNext]_allVars => PoolInv'
<1> SUFFICES ASSUME PoolInv, [PoolNext]_allVars PROVE PoolInv'
  OBVIOUS
<1>1. PICK k \in {"loop", "chunks", "done"}, n \in -1..NNodes : HandedOver(k, n)
  BY DEF PoolInv
<1>2. PoolTypeOK /\ BarrierInv /\ Steady
  BY DEF PoolInv
<1>3. CASE UNCHANGED allVars
  <2> USE <1>3 DEF allVars, poolVars
  <2>1. PoolTypeOK' /\ (Begun' <=> Begun) /\ \A t \in Workers : Unmoved(t)
    BY <1>2, Stutters DEF PoolTypeOK, Begun, Unmoved
  <2>2. MainAt(k, n)'
    BY <1>1 DEF HandedOver, MainAt, Begun, Beginning, vars, threadVars, barrierVars, Released
  <2>3. \A t \in Workers : WorkerAt(t, k, n)'
    BY <1>1, <1>2, <2>1, WorkerKept DEF HandedOver
  <2> QED BY <1>1, <1>2, <2>1, <2>2, <2>3, Together
<1>4. CASE MainThread
  BY <1>1, <1>2, <1>4, SetThreadsKeeps, SignalGraphKeeps, WakeWorkersKeeps, GraphReturnsKeeps,
     CallKeeps DEF MainThread
<1>5. CASE Calls
  BY <1>1, <1>2, <1>5, ResetGraphKeeps, CallKeeps DEF Calls
<1>6. ASSUME NEW t \in Workers, Worker(t) \/ Wake(t)
      PROVE  PoolInv'
  BY <1>1, <1>2, <1>6, IdlingKeeps, PollKeeps, PollActiveKeeps, SleepKeeps, RunGraphKeeps DEF Worker
<1>7. ASSUME NEW t \in Threads, Compute(t)
      PROVE  PoolInv'
  BY <1>1, <1>2, <1>7, ComputePoolKeeps
<1> QED BY <1>3, <1>4, <1>5, <1>6, <1>7 DEF PoolNext

\* However the threads interleave, the pool hands over one graph after the other.
THEOREM PoolInvariant == Steady /\ PoolSpec => []PoolInv
<1> QED BY PoolInitially, PoolInductive, PTL DEF PoolSpec

\* The pool's variables keep their types, and the barrier's and the graph's theirs
\* through any number of graphs.
THEOREM PoolTypeCorrect == Steady /\ PoolSpec => []PoolTypeOK
<1>1. PoolInv => PoolTypeOK
  BY DEF PoolInv
<1> QED BY <1>1, PoolInvariant, PTL

\* ggml_graph_compute returns when the whole graph is computed, each chunk once.
THEOREM ResultIsComplete == Steady /\ PoolSpec => []ResultReturned
<1>1. ASSUME PoolInv, main = "computing", at[0] = "out", ec = "success"
      PROVE  \A m \in Nodes : Finished(m)
  <2>1. PICK k \in {"loop", "chunks", "done"}, n \in -1..NNodes : HandedOver(k, n)
    BY <1>1 DEF PoolInv
  <2>2. k = "done"
    BY <1>1, <2>1, Returned DEF PoolInv
  <2> QED BY <1>1, <2>1, <2>2 DEF HandedOver, Stretch, Data
<1>2. PoolInv => ResultReturned
  BY <1>1 DEF ResultReturned, Finished
<1> QED BY <1>2, PoolInvariant, PTL

\* No worker is within a graph, or about to enter one, when the next call of
\* ggml_graph_compute replaces its parameters: at most it still leaves the last
\* barrier, and touches none of them.
THEOREM WorkersQuietAtReset == Steady /\ PoolSpec => QuietAtReset
<1> DEFINE Quiet(t) == at[t] \in {"out", "finish"} /\ ~AboutToEnter(t)
<1>1. ASSUME PoolInv, ResetGraph, NEW t \in Workers
      PROVE  Quiet(t)
  <2>1. PICK k \in {"loop", "chunks", "done"}, n \in -1..NNodes : HandedOver(k, n)
    BY <1>1 DEF PoolInv
  <2>2. Workers \subseteq Threads
    BY DEF Workers
  <2>3. at[t] \in {"out", "finish"}
    BY <1>1, <2>1, <2>2, BetweenGraphs DEF PoolInv, ResetGraph
  <2>4. WorkerAt(t, k, n) /\ ~Begun
    BY <1>1, <2>1 DEF HandedOver, ResetGraph, Begun
  <2>5. CASE t \in Team
    BY <2>3, <2>4, <2>5 DEF WorkerAt, AboutToEnter
  <2>6. CASE t \notin Team
    <3>1. worker[t] # "run"
      BY <2>4, <2>6 DEF WorkerAt
    <3>2. t \in Nat /\ 0 <= t /\ n_threads_cur \in Nat
      BY <1>1, <2>2, TeamSize DEF Threads, PoolInv, PoolTypeOK, TypeOK
    <3>3. ~Active(t)
      BY <2>6, <3>2 DEF Active, Team
    <3> QED BY <2>3, <3>1, <3>3 DEF AboutToEnter
  <2> QED BY <2>5, <2>6
<1>2. PoolInv /\ [PoolNext]_allVars => [ResetGraph => \A t \in Workers : Quiet(t)]_allVars
  BY <1>1
<1> QED BY <1>2, PoolInvariant, PTL DEF PoolSpec, QuietAtReset
=============================================================================
