---------------------------- MODULE GraphCompute ----------------------------
(***************************************************************************)
(* ggml_graph_compute_thread in ggml-cpu.c: the loop every thread of the   *)
(* pool runs over the nodes of a graph, with a barrier after each node.  A *)
(* node is a matrix product, the operation that synchronises most: its     *)
(* threads convert src1 into wdata, wait for each other, and then take     *)
(* chunks from a shared counter (ggml_compute_forward_mul_mat).            *)
(***************************************************************************)
EXTENDS Barrier

CONSTANTS NNodes,   \* cgraph->n_nodes
          Chunks    \* Chunks[n]: node n in chunks of the usual size, 0 for a NOP

Nodes == 0..(NNodes - 1)

ASSUME GraphAssumption ==
  /\ NNodes \in Nat
  /\ Chunks \in [Nodes -> Nat]

VARIABLES
  current_chunk,  \* the next chunk nobody has taken
  abort,          \* the node before which the threads leave the loop, or -1
  ec,             \* the status of the graph: "success" or "aborted"
  at,             \* at[t]: where thread t is, "out" of the graph or in its loop
  nth,            \* nth[t]: params.nth
  node,           \* node[t]: node_n
  chunk,          \* chunk[t]: its current_chunk in the matrix product
  wdata,          \* wdata[t]: the node whose src1 t converted last, or -1
  done            \* history: done[n][c] counts computations of a chunk

threadVars == <<at, nth, node, chunk>>
graphVars == <<current_chunk, abort, ec, wdata, done>>
vars == <<n_threads_cur, barrierVars, threadVars, graphVars>>

\* Too few chunks for so many threads: one each instead.
NChunks(n, k) == IF Chunks[n] < 4 * k THEN k ELSE Chunks[n]

\* Room for the chunks of n, however many threads share it.
Slots(n) == 0..((IF Chunks[n] < MaxThreads THEN MaxThreads ELSE Chunks[n]) - 1)

NothingDone == [n \in Nodes |-> [c \in Slots(n) |-> 0]]

\* A graph that n_threads_cur threads have been told to compute.
Init ==
  /\ n_threads_cur \in 1..MaxThreads
  /\ BarrierInit
  /\ current_chunk = 0 /\ abort = -1 /\ ec = "success"
  /\ at = [t \in Threads |-> IF t < n_threads_cur THEN "loop" ELSE "out"]
  /\ nth = [t \in Threads |-> n_threads_cur]
  /\ node = [t \in Threads |-> 0]
  /\ chunk = [t \in Threads |-> 0]
  /\ wdata = [t \in Threads |-> -1]
  /\ done = NothingDone

\* The points at which a thread calls ggml_barrier, and all of its points.
BarrierCalls == {"ready", "sync", "finish"}
Points == {"out", "loop", "convert", "chunk", "take", "computed"} \cup BarrierCalls

Goto(t, p) == at' = [at EXCEPT ![t] = p]

-----------------------------------------------------------------------------
(* The loop over the nodes.                                                *)

InLoop(t) == at[t] = "loop" /\ node[t] < NNodes /\ abort # node[t]

SkipEmpty(t) ==
  /\ InLoop(t) /\ Chunks[node[t]] = 0
  /\ node' = [node EXCEPT ![t] = @ + 1]
  /\ UNCHANGED <<n_threads_cur, barrierVars, at, nth, chunk, graphVars>>

StartNode(t) ==
  /\ InLoop(t) /\ Chunks[node[t]] # 0
  /\ Goto(t, "convert")
  /\ UNCHANGED <<n_threads_cur, barrierVars, nth, node, chunk, graphVars>>

LeaveLoop(t) ==
  /\ at[t] = "loop" /\ ~InLoop(t)
  /\ Goto(t, "finish")
  /\ UNCHANGED <<n_threads_cur, barrierVars, nth, node, chunk, graphVars>>

\* Mutant of AbortCallback: the thread that aborts breaks out of the loop.
AbortCallbackBreaks(t) ==
  /\ at[t] = "computed"
  /\ \/ t = 0 /\ abort' = node[t] + 1 /\ ec' = "aborted" /\ Goto(t, "finish") /\ UNCHANGED node
     \/ /\ UNCHANGED <<abort, ec>>
        /\ IF node[t] + 1 < NNodes
           THEN Goto(t, "sync") /\ UNCHANGED node
           ELSE Goto(t, "loop") /\ node' = [node EXCEPT ![t] = @ + 1]
  /\ UNCHANGED <<n_threads_cur, barrierVars, nth, chunk, current_chunk, wdata, done>>

\* Mutant of AbortCallback: no barrier between two nodes.
AbortCallbackUnsynced(t) ==
  /\ at[t] = "computed"
  /\ \/ t = 0 /\ abort' = node[t] + 1 /\ ec' = "aborted"
     \/ UNCHANGED <<abort, ec>>
  /\ Goto(t, "loop") /\ node' = [node EXCEPT ![t] = @ + 1]
  /\ UNCHANGED <<n_threads_cur, barrierVars, nth, chunk, current_chunk, wdata, done>>

\* The first thread asks abort_callback; a barrier follows but for the last node.
AbortCallback(t) ==
  /\ at[t] = "computed"
  /\ \/ t = 0 /\ abort' = node[t] + 1 /\ ec' = "aborted"
     \/ UNCHANGED <<abort, ec>>
  /\ IF node[t] + 1 < NNodes
     THEN Goto(t, "sync") /\ UNCHANGED node
     ELSE Goto(t, "loop") /\ node' = [node EXCEPT ![t] = @ + 1]
  /\ UNCHANGED <<n_threads_cur, barrierVars, nth, chunk, current_chunk, wdata, done>>

-----------------------------------------------------------------------------
(* ggml_compute_forward_mul_mat.                                           *)

\* Mutant of Convert: the counter starts at the first chunk.
ConvertFromZero(t) ==
  /\ at[t] = "convert"
  /\ wdata' = [wdata EXCEPT ![t] = node[t]]
  /\ current_chunk' = IF t = 0 THEN 0 ELSE current_chunk
  /\ Goto(t, "ready")
  /\ UNCHANGED <<n_threads_cur, barrierVars, nth, node, chunk, abort, ec, done>>

\* The thread's share of src1; the first thread sets the counter for all.
Convert(t) ==
  /\ at[t] = "convert"
  /\ wdata' = [wdata EXCEPT ![t] = node[t]]
  /\ current_chunk' = IF t = 0 THEN nth[t] ELSE current_chunk
  /\ Goto(t, "ready")
  /\ UNCHANGED <<n_threads_cur, barrierVars, nth, node, chunk, abort, ec, done>>

Computing(t) == at[t] = "chunk" /\ chunk[t] < NChunks(node[t], nth[t])

\* A chunk is finished; when there is one per thread it does not ask for more.
ComputeChunk(t) ==
  /\ Computing(t)
  /\ done' = [done EXCEPT ![node[t]][chunk[t]] = @ + 1]
  /\ Goto(t, IF nth[t] >= NChunks(node[t], nth[t]) THEN "computed" ELSE "take")
  /\ UNCHANGED <<n_threads_cur, barrierVars, nth, node, chunk, current_chunk, abort, ec, wdata>>

\* atomic_fetch_add(&current_chunk, 1)
TakeChunk(t) ==
  /\ at[t] = "take"
  /\ chunk' = [chunk EXCEPT ![t] = current_chunk]
  /\ current_chunk' = current_chunk + 1
  /\ Goto(t, "chunk")
  /\ UNCHANGED <<n_threads_cur, barrierVars, nth, node, abort, ec, wdata, done>>

NoMoreChunks(t) ==
  /\ at[t] = "chunk" /\ ~Computing(t)
  /\ Goto(t, "computed")
  /\ UNCHANGED <<n_threads_cur, barrierVars, nth, node, chunk, graphVars>>

-----------------------------------------------------------------------------
(* The barrier, where the thread calls it.                                 *)

Wait(t) ==
  /\ at[t] \in BarrierCalls
  /\ InBarrier(t)
  /\ UNCHANGED <<n_threads_cur, threadVars, graphVars>>

\* src1 is converted: the first chunk is the thread's own number.
EnterChunks(t) ==
  /\ at[t] = "ready" /\ LeaveBarrier(t)
  /\ chunk' = [chunk EXCEPT ![t] = t]
  /\ Goto(t, "chunk")
  /\ UNCHANGED <<n_threads_cur, nth, node, graphVars>>

NextNode(t) ==
  /\ at[t] = "sync" /\ LeaveBarrier(t)
  /\ node' = [node EXCEPT ![t] = @ + 1]
  /\ Goto(t, "loop")
  /\ UNCHANGED <<n_threads_cur, nth, chunk, graphVars>>

LeaveGraph(t) ==
  /\ at[t] = "finish" /\ LeaveBarrier(t)
  /\ Goto(t, "out")
  /\ UNCHANGED <<n_threads_cur, nth, node, chunk, graphVars>>

ComputeThread(t) ==
  \/ SkipEmpty(t) \/ StartNode(t) \/ LeaveLoop(t) \/ AbortCallback(t)
  \/ Convert(t) \/ ComputeChunk(t) \/ TakeChunk(t) \/ NoMoreChunks(t)
  \/ Wait(t) \/ EnterChunks(t) \/ NextNode(t) \/ LeaveGraph(t)

Next == \E t \in Threads : ComputeThread(t)

Spec == Init /\ [][Next]_vars

\* Every thread keeps running.
FairSpec == Spec /\ \A t \in Threads : WF_vars(ComputeThread(t))

-----------------------------------------------------------------------------
TypeOK ==
  /\ BarrierTypeOK
  /\ current_chunk \in Nat
  /\ abort \in -1..NNodes
  /\ ec \in {"success", "aborted"}
  /\ at \in [Threads -> Points]
  /\ nth \in [Threads -> 1..MaxThreads]
  /\ node \in [Threads -> 0..NNodes]
  /\ chunk \in [Threads -> Nat]
  /\ wdata \in [Threads -> -1..NNodes]
  /\ done = [n \in Nodes |-> done[n]]
  /\ \A n \in Nodes : done[n] \in [Slots(n) -> Nat]

\* A chunk is computed from a src1 that every thread has converted, and that
\* none has begun to overwrite with the next node's.
ReadsConverted ==
  \A t \in Threads : Computing(t) =>
    \A s \in Threads : s < nth[t] =>
      /\ wdata[s] = node[t]
      /\ ~(at[s] = "convert" /\ node[s] # node[t])

\* Every chunk is computed once, the nodes in their order, and all of them when the
\* graph ends without having been aborted.
Ordered == INSTANCE GraphInOrder WITH
  width  <- [n \in Nodes |-> IF Chunks[n] = 0 THEN 0 ELSE NChunks(n, n_threads_cur)],
  status <- IF \A t \in Threads : at[t] = "out" THEN ec ELSE "computing"

NodesInOrder == Ordered!Spec

\* No thread is left behind at a barrier, an aborted graph's included.
GraphEnds == <>(\A t \in Threads : at[t] = "out")
=============================================================================
