--------------------------- MODULE WhisperContext ---------------------------
(***************************************************************************)
(* The Kotlin wrapper of the native whisper context, WhisperContext in     *)
(* LibWhisper.kt, over the JNI functions of jni.c.  Every suspending       *)
(* function runs its block on the scope's single-thread executor; the      *)
(* finalizer calls release() through the same executor.  A block is a      *)
(* sequence of JNI calls, and each of them dereferences the pointer.       *)
(***************************************************************************)
EXTENDS Naturals, Sequences

CONSTANTS Callers,      \* coroutines that hold the wrapper
          Finalizer,    \* the JVM's finalizer thread
          Nobody,       \* no caller
          MaxSegments   \* bound: segments one transcription may produce

ASSUME ContextAssumption ==
  /\ Finalizer \notin Callers
  /\ Nobody \notin Callers \cup {Finalizer}
  /\ MaxSegments \in Nat

Users == Callers \cup {Finalizer}

VARIABLES
  ptr,       \* private var ptr: TRUE while it is not 0
  native,    \* the C context: "allocated" or "freed"
  frees,     \* how often freeContext was called
  nSegments, \* segments the native context holds (result_all)
  wrapper,   \* the Kotlin object: "referenced", "dropped" or "finalized"
  op,        \* op[u]: the call u waits for, or "none"
  queue,     \* blocks waiting for the executor's thread
  runner,    \* the user whose block the thread runs, or Nobody
  at,        \* where that block is
  count,     \* textCount of transcribeData
  index      \* i of its loop

vars == <<ptr, native, frees, nSegments, wrapper, op, queue, runner, at, count, index>>

Ops == {"transcribe", "bench", "release"}
Points == {"idle", "entry", "inference", "count", "segment", "freed"}

\* The points at which the executor's thread is inside the native context.
NativePoints == {"inference", "count", "segment"}

Init ==
  /\ ptr = TRUE
  /\ native = "allocated"
  /\ frees = 0
  /\ nSegments = 0
  /\ wrapper = "referenced"
  /\ op = [u \in Users |-> "none"]
  /\ queue = <<>>
  /\ runner = Nobody
  /\ at = "idle"
  /\ count = 0
  /\ index = 0

-----------------------------------------------------------------------------
(* The callers.                                                            *)

\* withContext(scope.coroutineContext) { ... }: the block joins the queue.
Submit(u, o) ==
  /\ op[u] = "none"
  /\ op' = [op EXCEPT ![u] = o]
  /\ queue' = Append(queue, u)
  /\ UNCHANGED <<ptr, native, frees, nSegments, runner, at, count, index>>

\* Mutant of Call: a release() that does not go through the executor.
CallReleasingInPlace(c, o) ==
  /\ wrapper = "referenced"
  /\ UNCHANGED wrapper
  /\ IF o = "release" /\ ptr
     THEN /\ native' = "freed"
          /\ frees' = frees + 1
          /\ ptr' = FALSE
          /\ UNCHANGED <<nSegments, op, queue, runner, at, count, index>>
     ELSE Submit(c, o)

Call(c, o) ==
  /\ wrapper = "referenced"
  /\ Submit(c, o)
  /\ UNCHANGED wrapper

\* The view model sets whisperContext = null, or is itself collected; a call
\* that is still under way keeps the wrapper reachable (see Finalize).
DropReference ==
  /\ wrapper = "referenced"
  /\ wrapper' = "dropped"
  /\ UNCHANGED <<ptr, native, frees, nSegments, op, queue, runner, at, count, index>>

\* finalize(): only once nothing references the wrapper, a queued block included.
Finalize ==
  /\ wrapper = "dropped"
  /\ \A c \in Callers : op[c] = "none"
  /\ wrapper' = "finalized"
  /\ Submit(Finalizer, "release")

-----------------------------------------------------------------------------
(* The executor's thread.                                                  *)

Begin ==
  /\ runner = Nobody
  /\ queue # <<>>
  /\ runner' = Head(queue)
  /\ queue' = Tail(queue)
  /\ at' = "entry"
  /\ UNCHANGED <<ptr, native, frees, nSegments, wrapper, op, count, index>>

\* The block of u ends, normally or by an exception, and u is resumed.
EndBlock(u) ==
  /\ runner' = Nobody
  /\ at' = "idle"
  /\ op' = [op EXCEPT ![u] = "none"]
  /\ count' = 0
  /\ index' = 0

\* Mutant of RequireFails: the failed require() does not resume the caller.
RequireFailsSilently(u) ==
  /\ runner = u /\ op[u] = "transcribe" /\ at = "entry"
  /\ ~ptr
  /\ runner' = Nobody
  /\ at' = "idle"
  /\ UNCHANGED <<ptr, native, frees, nSegments, wrapper, op, queue, count, index>>

\* require(ptr != 0L) of transcribeData.
RequireFails(u) ==
  /\ runner = u /\ op[u] = "transcribe" /\ at = "entry"
  /\ ~ptr
  /\ EndBlock(u)
  /\ UNCHANGED <<ptr, native, frees, nSegments, wrapper, queue>>

\* fullTranscribe enters whisper_full, which first clears result_all.
FullTranscribe(u) ==
  /\ runner = u /\ op[u] = "transcribe" /\ at = "entry"
  /\ ptr
  /\ at' = "inference"
  /\ nSegments' = 0
  /\ UNCHANGED <<ptr, native, frees, wrapper, op, queue, runner, count, index>>

\* whisper_full returns: a failure is only logged, the segments found so far stay.
FullTranscribeReturns(u) ==
  /\ runner = u /\ at = "inference"
  /\ at' = "count"
  /\ nSegments' \in 0..MaxSegments
  /\ UNCHANGED <<ptr, native, frees, wrapper, op, queue, runner, count, index>>

GetTextSegmentCount(u) ==
  /\ runner = u /\ at = "count"
  /\ at' = "segment"
  /\ count' = nSegments
  /\ index' = 0
  /\ UNCHANGED <<ptr, native, frees, nSegments, wrapper, op, queue, runner>>

\* Mutant of GetTextSegment: for (i in 0..textCount).
GetTextSegmentInclusive(u) ==
  /\ runner = u /\ at = "segment"
  /\ index <= count
  /\ index' = index + 1
  /\ UNCHANGED <<ptr, native, frees, nSegments, wrapper, op, queue, runner, at, count>>

\* One turn of the loop: getTextSegmentT0, getTextSegmentT1 and getTextSegment.
GetTextSegment(u) ==
  /\ runner = u /\ at = "segment"
  /\ index < count
  /\ index' = index + 1
  /\ UNCHANGED <<ptr, native, frees, nSegments, wrapper, op, queue, runner, at, count>>

TranscribeReturns(u) ==
  /\ runner = u /\ at = "segment"
  /\ index = count
  /\ EndBlock(u)
  /\ UNCHANGED <<ptr, native, frees, nSegments, wrapper, queue>>

\* benchMemory and benchGgmlMulMat never pass the pointer.
Bench(u) ==
  /\ runner = u /\ op[u] = "bench" /\ at = "entry"
  /\ EndBlock(u)
  /\ UNCHANGED <<ptr, native, frees, nSegments, wrapper, queue>>

\* release(): freeContext(ptr) and then ptr = 0, or nothing when it is 0.
FreeContext(u) ==
  /\ runner = u /\ op[u] = "release" /\ at = "entry"
  /\ ptr
  /\ native' = "freed"
  /\ frees' = frees + 1
  /\ at' = "freed"
  /\ UNCHANGED <<ptr, nSegments, wrapper, op, queue, runner, count, index>>

\* Mutant of ReleaseReturns: release() forgets ptr = 0.
ReleaseKeepsPtr(u) ==
  /\ runner = u /\ op[u] = "release"
  /\ \/ at = "freed"
     \/ at = "entry" /\ ~ptr
  /\ EndBlock(u)
  /\ UNCHANGED <<ptr, native, frees, nSegments, wrapper, queue>>

\* Mutant of ReleaseReturns: the guard of release() inverted.
ReleaseSkips(u) ==
  /\ runner = u /\ op[u] = "release"
  /\ at \in {"freed", "entry"}
  /\ ptr' = FALSE
  /\ EndBlock(u)
  /\ UNCHANGED <<native, frees, nSegments, wrapper, queue>>

ReleaseReturns(u) ==
  /\ runner = u /\ op[u] = "release"
  /\ \/ at = "freed"
     \/ at = "entry" /\ ~ptr
  /\ ptr' = FALSE
  /\ EndBlock(u)
  /\ UNCHANGED <<native, frees, nSegments, wrapper, queue>>

Run(u) ==
  \/ RequireFails(u)
  \/ FullTranscribe(u)
  \/ FullTranscribeReturns(u)
  \/ GetTextSegmentCount(u)
  \/ GetTextSegment(u)
  \/ TranscribeReturns(u)
  \/ Bench(u)
  \/ FreeContext(u)
  \/ ReleaseReturns(u)

Next ==
  \/ \E c \in Callers, o \in Ops : Call(c, o)
  \/ DropReference
  \/ Finalize
  \/ Begin
  \/ \E u \in Users : Run(u)

\* The executor's thread keeps running; nobody has to call.
Fairness == WF_vars(Begin) /\ \A u \in Users : WF_vars(Run(u))

Spec == Init /\ [][Next]_vars

FairSpec == Spec /\ Fairness

-----------------------------------------------------------------------------
TypeOK ==
  /\ ptr \in BOOLEAN
  /\ native \in {"allocated", "freed"}
  /\ frees \in Nat
  /\ nSegments \in 0..MaxSegments
  /\ wrapper \in {"referenced", "dropped", "finalized"}
  /\ op \in [Users -> Ops \cup {"none"}]
  /\ queue \in Seq(Users)
  /\ runner \in Users \cup {Nobody}
  /\ at \in Points
  /\ count \in 0..MaxSegments
  /\ index \in 0..MaxSegments

\* No JNI call dereferences the context after freeContext freed it.
NoUseAfterFree == at \in NativePoints => native = "allocated"

\* release() from onCleared and again from finalize() frees the context once.
FreedOnce == frees <= 1 /\ (frees = 1 <=> native = "freed")

\* The loop of transcribeData reads the segments of its own transcription:
\* no other block has replaced result_all since textCount was read.
SegmentsAreMine == at = "segment" => index <= count /\ count = nSegments

\* Every call returns to its caller.
CallsReturn == \A u \in Users : (op[u] # "none") ~> (op[u] = "none")

\* A release() that was called frees the context.
ReleaseFrees == \A u \in Users : (op[u] = "release") ~> (native = "freed")

\* The native context sees one user at a time, and none after it is freed.
Context == INSTANCE ExclusiveContext WITH
  User   <- Users,
  inside <- IF at \in NativePoints THEN runner ELSE Nobody,
  alive  <- native = "allocated"

OneThreadAtATime == Context!Spec
=============================================================================
