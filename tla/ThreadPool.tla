----------------------------- MODULE ThreadPool -----------------------------
(***************************************************************************)
(* The CPU thread pool of ggml-cpu.c, in builds without OpenMP: the main   *)
(* thread (thread 0) hands graphs to the workers, pauses, resumes and      *)
(* frees the pool; a worker first polls for a new graph and then sleeps on *)
(* the condition variable.  Atomics are sequentially consistent.  What is  *)
(* read and written under the mutex is one step; a worker that polls reads *)
(* without it, and sees each of kickoff's writes by itself.                *)
(***************************************************************************)
EXTENDS GraphCompute

CONSTANTS MaxGraphs,  \* bound: graphs computed
          Steady      \* TRUE: every graph is computed by as many threads

ASSUME PoolAssumption == MaxGraphs \in Nat /\ Steady \in BOOLEAN

Workers == Threads \ {0}

VARIABLES
  n_graph,      \* incremented for each graph
  stop, pause,
  main,         \* where the main thread is
  worker,       \* worker[t]: where worker t is
  last_graph,   \* last_graph[t]: the last value of n_graph it acted on
  new_graph     \* new_graph[t]: the value it has just read

poolVars == <<n_graph, stop, pause, main, worker, last_graph, new_graph>>
allVars == <<vars, poolVars>>

MainPoints == {"idle", "reset", "counted", "signalled", "computing", "freeing", "freed"}
WorkerPoints == {"top", "pausing", "paused", "resumed", "stopping", "check", "poll", "seen",
                 "sleep", "waiting", "run", "running", "exited"}

\* ggml_threadpool_new: the workers are started.
PoolInit ==
  /\ n_threads_cur = MaxThreads
  /\ BarrierInit
  /\ current_chunk = 0 /\ abort = -1 /\ ec = "success"
  /\ at = [t \in Threads |-> "out"]
  /\ nth = [t \in Threads |-> MaxThreads]
  /\ node = [t \in Threads |-> 0]
  /\ chunk = [t \in Threads |-> 0]
  /\ wdata = [t \in Threads |-> -1]
  /\ done = NothingDone
  /\ n_graph = 0 /\ stop = FALSE /\ pause \in BOOLEAN
  /\ main = "idle"
  /\ worker = [t \in Workers |-> "top"]
  /\ last_graph = [t \in Workers |-> 0]
  /\ new_graph = [t \in Workers |-> 0]

\* Nobody else holds the mutex across steps.
Unlocked == main \notin {"counted", "signalled"}

\* ggml_cond_broadcast: the sleepers go on when they have the mutex again.
Broadcast ==
  worker' = [t \in Workers |-> CASE worker[t] = "paused"  -> "resumed"
                                 [] worker[t] = "waiting" -> "sleep"
                                 [] OTHER                 -> worker[t]]

Active(t) == t < n_threads_cur

\* A thread begins ggml_graph_compute_thread.
EnterGraph(t) ==
  /\ at' = [at EXCEPT ![t] = "loop"]
  /\ nth' = [nth EXCEPT ![t] = n_threads_cur]
  /\ node' = [node EXCEPT ![t] = 0]
  /\ UNCHANGED chunk

-----------------------------------------------------------------------------
(* The main thread: ggml_graph_compute and ggml_graph_compute_kickoff.     *)

ResetGraph ==
  /\ main = "idle" /\ n_graph < MaxGraphs
  /\ main' = "reset"
  /\ current_chunk' = 0 /\ abort' = -1 /\ ec' = "success"
  /\ done' = NothingDone
  /\ UNCHANGED <<n_threads_cur, barrierVars, threadVars, wdata, n_graph, stop, pause,
                 worker, last_graph, new_graph>>

\* The mutex is taken, and the number of threads stored.
SetThreads(n) ==
  /\ main = "reset"
  /\ Steady /\ n_graph > 0 => n = n_threads_cur
  /\ main' = "counted"
  /\ n_threads_cur' = n
  /\ UNCHANGED <<barrierVars, threadVars, graphVars, n_graph, stop, pause,
                 worker, last_graph, new_graph>>

SignalGraph ==
  /\ main = "counted"
  /\ main' = "signalled"
  /\ n_graph' = n_graph + 1
  /\ UNCHANGED <<vars, stop, pause, worker, last_graph, new_graph>>

\* Mutant of WakeWorkers: only the workers of a paused pool are woken.
WakePausedWorkers ==
  /\ main = "signalled"
  /\ main' = "computing"
  /\ pause' = FALSE
  /\ IF pause THEN Broadcast ELSE UNCHANGED worker
  /\ EnterGraph(0)
  /\ UNCHANGED <<n_threads_cur, barrierVars, graphVars, n_graph, stop, last_graph, new_graph>>

\* The pool is resumed, the sleepers are woken, and thread 0 joins in.
WakeWorkers ==
  /\ main = "signalled"
  /\ main' = "computing"
  /\ pause' = FALSE
  /\ Broadcast
  /\ EnterGraph(0)
  /\ UNCHANGED <<n_threads_cur, barrierVars, graphVars, n_graph, stop, last_graph, new_graph>>

GraphReturns ==
  /\ main = "computing" /\ at[0] = "out"
  /\ main' = "idle"
  /\ UNCHANGED <<vars, n_graph, stop, pause, worker, last_graph, new_graph>>

\* Mutant of Pause: the workers that sleep are not told.
PauseQuietly ==
  /\ main = "idle" /\ ~pause
  /\ pause' = TRUE
  /\ UNCHANGED <<vars, n_graph, stop, main, worker, last_graph, new_graph>>

\* ggml_threadpool_pause and ggml_threadpool_resume.
Pause ==
  /\ main = "idle" /\ ~pause
  /\ pause' = TRUE
  /\ Broadcast
  /\ UNCHANGED <<vars, n_graph, stop, main, last_graph, new_graph>>

Resume ==
  /\ main = "idle" /\ pause
  /\ pause' = FALSE
  /\ Broadcast
  /\ UNCHANGED <<vars, n_graph, stop, main, last_graph, new_graph>>

\* Mutant of Free: a paused pool is not resumed.
FreePaused ==
  /\ main = "idle"
  /\ main' = "freeing"
  /\ stop' = TRUE
  /\ Broadcast
  /\ UNCHANGED <<vars, n_graph, pause, last_graph, new_graph>>

\* ggml_threadpool_free, which then joins the workers.
Free ==
  /\ main = "idle"
  /\ main' = "freeing"
  /\ stop' = TRUE /\ pause' = FALSE
  /\ Broadcast
  /\ UNCHANGED <<vars, n_graph, last_graph, new_graph>>

Joined ==
  /\ main = "freeing"
  /\ \A t \in Workers : worker[t] = "exited"
  /\ main' = "freed"
  /\ UNCHANGED <<vars, n_graph, stop, pause, worker, last_graph, new_graph>>

-----------------------------------------------------------------------------
(* A worker: ggml_graph_compute_secondary_thread.                          *)

Step(t, p, q) ==
  /\ worker[t] = p
  /\ worker' = [worker EXCEPT ![t] = q]

OnlyWorkers == UNCHANGED <<vars, n_graph, stop, pause, main, last_graph, new_graph>>

CheckPause(t) ==
  /\ Step(t, "top", IF pause THEN "pausing" ELSE "stopping")
  /\ OnlyWorkers

SleepPaused(t) ==
  /\ Unlocked
  /\ Step(t, "pausing", IF pause THEN "paused" ELSE "top")
  /\ OnlyWorkers

ResumeWorker(t) ==
  /\ Unlocked
  /\ Step(t, "resumed", "top")
  /\ OnlyWorkers

CheckStop(t) ==
  /\ Step(t, "stopping", IF stop THEN "exited" ELSE "check")
  /\ OnlyWorkers

\* Threads the current graph does not use skip the polling.
CheckForWork(t) ==
  /\ Step(t, "check", IF Active(t) THEN "poll" ELSE "sleep")
  /\ OnlyWorkers

\* One round without the mutex: stop and pause, then n_graph ...
Poll(t) ==
  /\ \/ (stop \/ pause) /\ Step(t, "poll", "sleep") /\ UNCHANGED new_graph
     \/ /\ ~stop /\ ~pause /\ n_graph # last_graph[t]
        /\ Step(t, "poll", "seen")
        /\ new_graph' = [new_graph EXCEPT ![t] = n_graph]
  /\ UNCHANGED <<vars, n_graph, stop, pause, main, last_graph>>

\* Mutant of PollActive: last_graph is not brought up to date.
PollActiveAgain(t) ==
  /\ Step(t, "seen", IF Active(t) THEN "run" ELSE "poll")
  /\ OnlyWorkers

\* ... and then n_threads_cur; sets pending, on which the worker runs.
PollActive(t) ==
  /\ Step(t, "seen", IF Active(t) THEN "run" ELSE "poll")
  /\ last_graph' = [last_graph EXCEPT ![t] = new_graph[t]]
  /\ UNCHANGED <<vars, n_graph, stop, pause, main, new_graph>>

\* The rounds of polling are over.
StopPolling(t) ==
  /\ Step(t, "poll", "sleep")
  /\ OnlyWorkers

\* The same questions under the mutex, which cond_wait gives up.
Sleep(t) ==
  /\ Unlocked
  /\ \/ (stop \/ pause) /\ Step(t, "sleep", "top") /\ UNCHANGED last_graph
     \/ /\ ~stop /\ ~pause
        /\ Step(t, "sleep", IF n_graph # last_graph[t] /\ Active(t) THEN "run" ELSE "waiting")
        /\ last_graph' = [last_graph EXCEPT ![t] = n_graph]
  /\ UNCHANGED <<vars, n_graph, stop, pause, main, new_graph>>

\* A spurious wake-up.
Wake(t) ==
  /\ Step(t, "waiting", "sleep") \/ Step(t, "paused", "resumed")
  /\ OnlyWorkers

RunGraph(t) ==
  /\ Step(t, "run", "running")
  /\ EnterGraph(t)
  /\ UNCHANGED <<n_threads_cur, barrierVars, graphVars, n_graph, stop, pause, main,
                 last_graph, new_graph>>

GraphRun(t) ==
  /\ at[t] = "out"
  /\ Step(t, "running", "top")
  /\ OnlyWorkers

-----------------------------------------------------------------------------
MainThread ==
  \/ \E n \in 1..MaxThreads : SetThreads(n)
  \/ SignalGraph \/ WakeWorkers \/ GraphReturns \/ Joined

Calls == ResetGraph \/ Pause \/ Resume \/ Free

Worker(t) ==
  \/ CheckPause(t) \/ SleepPaused(t) \/ ResumeWorker(t) \/ CheckStop(t)
  \/ CheckForWork(t) \/ Poll(t) \/ PollActive(t) \/ StopPolling(t) \/ Sleep(t)
  \/ RunGraph(t) \/ GraphRun(t)

Compute(t) == ComputeThread(t) /\ UNCHANGED poolVars

PoolNext ==
  \/ MainThread
  \/ Calls
  \/ \E t \in Workers : Worker(t) \/ Wake(t)
  \/ \E t \in Threads : Compute(t)

PoolSpec == PoolInit /\ [][PoolNext]_allVars

\* Every thread keeps running; nothing wakes a sleeper but a broadcast.
PoolFairness ==
  /\ WF_allVars(MainThread)
  /\ \A t \in Workers : WF_allVars(Worker(t))
  /\ \A t \in Threads : WF_allVars(Compute(t))

PoolFairSpec == PoolSpec /\ PoolFairness

-----------------------------------------------------------------------------
PoolTypeOK ==
  /\ TypeOK
  /\ n_graph \in 0..MaxGraphs
  /\ stop \in BOOLEAN /\ pause \in BOOLEAN
  /\ main \in MainPoints
  /\ worker \in [Workers -> WorkerPoints]
  /\ last_graph \in [Workers -> 0..MaxGraphs]
  /\ new_graph \in [Workers -> 0..MaxGraphs]

\* The worker's next steps are into a graph, unless another number of threads is
\* stored before it compares its own number with it.
AboutToEnter(t) == worker[t] = "run" \/ (worker[t] = "seen" /\ Active(t))

\* No worker is in a graph, or about to enter one, when ggml_graph_compute
\* replaces it ("No worker threads should be accessing the parameters below").
QuietAtReset ==
  [][ResetGraph =>
       \A t \in Workers : at[t] \in {"out", "finish"} /\ ~AboutToEnter(t)]_allVars

\* ggml_graph_compute returns the whole result: each chunk computed once,
\* by as many threads as it asked for, whatever the workers were doing.
ResultReturned ==
  main = "computing" /\ at[0] = "out" /\ ec = "success" =>
    \A n \in Nodes : Chunks[n] # 0 =>
      \A c \in 0..(NChunks(n, n_threads_cur) - 1) : done[n][c] = 1

\* ggml_graph_compute returns: no worker sleeps through the graph it waits for.
GraphsReturn == (main = "reset") ~> (main = "idle")

\* A paused pool comes to rest: each of its workers sleeps, until it is resumed.
PauseTakesHold == \A t \in Workers : pause ~> (~pause \/ worker[t] = "paused")

\* ggml_threadpool_free returns: the workers see stop and exit.
PoolIsFreed == (main = "freeing") ~> (main = "freed")
=============================================================================
