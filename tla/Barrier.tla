------------------------------ MODULE Barrier ------------------------------
(***************************************************************************)
(* ggml_barrier in ggml-cpu.c, the spinning barrier of the CPU thread pool *)
(* (builds without OpenMP).  The module has the state and the steps, one   *)
(* per access to an atomic; what a thread does before and after is         *)
(* GraphCompute's part.  A thread reads n_threads_cur where it needs it:   *)
(* it is not written while a thread is inside (QuietAtReset in ThreadPool).*)
(***************************************************************************)
EXTENDS Integers

CONSTANT MaxThreads   \* n_threads_max

ASSUME ThreadsAssumption == MaxThreads \in Nat \ {0}

Threads == 0..(MaxThreads - 1)

VARIABLES
  n_threads_cur,      \* threads of the current graph
  n_barrier,          \* threads that have arrived
  n_barrier_passed,   \* how often the barrier has opened
  bar,                \* bar[t]: where t is in ggml_barrier, or "out"
  seen                \* seen[t]: its n_passed

barrierVars == <<n_barrier, n_barrier_passed, bar, seen>>

BarrierPoints == {"out", "entering", "waiting", "last", "opening"}

BarrierInit ==
  /\ n_barrier = 0 /\ n_barrier_passed = 0
  /\ bar = [t \in Threads |-> "out"]
  /\ seen = [t \in Threads |-> 0]

BarrierTypeOK ==
  /\ n_threads_cur \in 1..MaxThreads
  /\ n_barrier \in 0..MaxThreads
  /\ n_barrier_passed \in Nat
  /\ bar \in [Threads -> BarrierPoints]
  /\ seen \in [Threads -> Nat]

-----------------------------------------------------------------------------
ReadPassed(t) ==
  /\ bar[t] = "out" /\ n_threads_cur # 1
  /\ seen' = [seen EXCEPT ![t] = n_barrier_passed]
  /\ bar' = [bar EXCEPT ![t] = "entering"]
  /\ UNCHANGED <<n_barrier, n_barrier_passed>>

\* Mutant of Arrive: the last but one thread takes itself for the last.
ArriveEarly(t) ==
  /\ bar[t] = "entering"
  /\ n_barrier' = n_barrier + 1
  /\ bar' = [bar EXCEPT ![t] = IF n_barrier = n_threads_cur - 2 THEN "last" ELSE "waiting"]
  /\ UNCHANGED <<n_barrier_passed, seen>>

\* atomic_fetch_add(&n_barrier, 1)
Arrive(t) ==
  /\ bar[t] = "entering"
  /\ n_barrier' = n_barrier + 1
  /\ bar' = [bar EXCEPT ![t] = IF n_barrier = n_threads_cur - 1 THEN "last" ELSE "waiting"]
  /\ UNCHANGED <<n_barrier_passed, seen>>

\* Mutant of ResetCount: n_barrier is not set back.
ResetCountForgotten(t) ==
  /\ bar[t] = "last"
  /\ bar' = [bar EXCEPT ![t] = "opening"]
  /\ UNCHANGED <<n_barrier, n_barrier_passed, seen>>

ResetCount(t) ==
  /\ bar[t] = "last"
  /\ n_barrier' = 0
  /\ bar' = [bar EXCEPT ![t] = "opening"]
  /\ UNCHANGED <<n_barrier_passed, seen>>

\* The three ways out: the last thread opens the barrier, the others see
\* that it has been opened, and a single thread does not wait at all.
Open(t) ==
  /\ bar[t] = "opening"
  /\ n_barrier_passed' = n_barrier_passed + 1
  /\ bar' = [bar EXCEPT ![t] = "out"]
  /\ UNCHANGED <<n_barrier, seen>>

Pass(t) ==
  /\ bar[t] = "waiting" /\ n_barrier_passed # seen[t]
  /\ bar' = [bar EXCEPT ![t] = "out"]
  /\ UNCHANGED <<n_barrier, n_barrier_passed, seen>>

Alone(t) ==
  /\ bar[t] = "out" /\ n_threads_cur = 1
  /\ UNCHANGED barrierVars

InBarrier(t) == ReadPassed(t) \/ Arrive(t) \/ ResetCount(t)

LeaveBarrier(t) == Open(t) \/ Pass(t) \/ Alone(t)
=============================================================================
