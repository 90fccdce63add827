---------------------------- MODULE AppLifecycle ----------------------------
(***************************************************************************)
(* The end of the activity, on the main thread: the view model's scope is  *)
(* cancelled, MainScreenViewModel.onCleared blocks the thread until the    *)
(* whisper context is released and playback is stopped, and then           *)
(* MainActivity.onDestroy releases the LLMManager.  The whisper executor   *)
(* works through the blocks it has meanwhile.                              *)
(***************************************************************************)
EXTENDS WhisperContext

CONSTANT Main   \* the main thread: one of the callers of the whisper context

VARIABLES
  main,      \* "looping", or where onCleared and onDestroy are
  posted,    \* a withContext(Dispatchers.Main) block waits for the looper
  embedding, \* the ONNX session of the view model: "open" or "closed"
  llm        \* the LLMManager: "held" or "released"

lifeVars == <<main, posted, embedding, llm>>
appVars == <<vars, lifeVars>>

AppInit ==
  /\ Init
  /\ main = "looping" /\ posted = FALSE
  /\ embedding = "open" /\ llm = "held"

Jobs == Callers \ {Main}

\* A job of the view model calls the wrapper, from the main thread.
JobCalls(c, o) ==
  /\ main = "looping"
  /\ Call(c, o)
  /\ UNCHANGED lifeVars

\* The activity is finished: runBlocking { whisperContext?.release(); ... }.
OnCleared ==
  /\ main = "looping"
  /\ main' = "releasing"
  /\ Call(Main, "release")
  /\ UNCHANGED <<posted, embedding, llm>>

\* whisperContext = null, and stopPlayback() posts its block to the looper.
Released ==
  /\ main = "releasing" /\ op[Main] = "none"
  /\ main' = "stopping"
  /\ posted' = TRUE
  /\ DropReference
  /\ UNCHANGED <<embedding, llm>>

\* The looper takes a message when the main thread is not in a callback.
StopPlayback ==
  /\ main = "looping" /\ posted
  /\ posted' = FALSE
  /\ UNCHANGED <<vars, main, embedding, llm>>

\* runBlocking goes on when the posted block has run, and onDestroy after it.
CloseEmbedding ==
  /\ main = "stopping" /\ ~posted
  /\ main' = "destroying"
  /\ embedding' = "closed"
  /\ UNCHANGED <<vars, posted, llm>>

ReleaseLLM ==
  /\ main = "destroying"
  /\ main' = "destroyed"
  /\ llm' = "released"
  /\ UNCHANGED <<vars, posted, embedding>>

\* The executor's thread.  The wrapper's blocks run in the Job of its own scope,
\* so cancelling the view model's drops none of them.
Executor ==
  /\ Begin \/ \E c \in Callers \cup {Finalizer} : Run(c)
  /\ UNCHANGED lifeVars

GarbageCollector == Finalize /\ UNCHANGED lifeVars

AppNext ==
  \/ \E c \in Jobs, o \in {"transcribe", "bench"} : JobCalls(c, o)
  \/ OnCleared \/ Released \/ StopPlayback \/ CloseEmbedding \/ ReleaseLLM
  \/ Executor
  \/ GarbageCollector

AppFairness ==
  /\ WF_appVars(Released \/ StopPlayback \/ CloseEmbedding \/ ReleaseLLM)
  /\ WF_appVars(Executor)

AppSpec == AppInit /\ [][AppNext]_appVars /\ AppFairness

\* The end of the activity cleans up: its onDestroy releases the LLMManager.
DestroyCleansUp == (main = "releasing") ~> (llm = "released")
=============================================================================
