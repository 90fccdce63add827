----------------------------- MODULE LLMManager -----------------------------
(***************************************************************************)
(* LLMManager.kt as MainActivity.kt uses it.  A request of the summary or  *)
(* the question screen calls initialize() and then generates, on the IO    *)
(* dispatcher; requests overlap when a screen is left and opened again.    *)
(* onDestroy releases the activity's manager on the main thread, and the   *)
(* recreated activity makes another; they share the model file in cacheDir.*)
(***************************************************************************)
EXTENDS Naturals, FiniteSets

CONSTANTS Requests,   \* requests that may be under way at once
          Managers,   \* bound: activities created
          Engines,    \* LlmInference objects
          NoRequest, NoManager, NoEngine

ASSUME LLMAssumption ==
  /\ NoRequest \notin Requests
  /\ NoManager \notin Managers
  /\ NoEngine \notin Engines

VARIABLES
  cache,          \* the model file in cacheDir: "absent", "partial" or "complete"
  copier,         \* the request that opened the file for writing last
  current,        \* the manager of the activity
  retired,        \* managers of activities that were destroyed
  destroying,     \* where onDestroy is: "no", "closing", "clearing" or "resetting"
  closeFailed,    \* history: the managers whose release() ended in close()
  llmInference,   \* llmInference[m]
  isInitialized,  \* isInitialized[m]
  engine,         \* engine[e]: "none", "open" or "closed"
  pc,             \* pc[r]: where request r is
  mgr,            \* mgr[r]: the manager it calls
  using           \* using[r]: the engine it made or generates with

fields == <<llmInference, isInitialized>>
life == <<current, retired, destroying, closeFailed>>
request == <<pc, mgr, using>>
vars == <<cache, copier, life, fields, engine, request>>

Init ==
  /\ cache = "absent" /\ copier = NoRequest
  /\ current \in Managers /\ retired = {} /\ destroying = "no" /\ closeFailed = {}
  /\ llmInference = [m \in Managers |-> NoEngine]
  /\ isInitialized = [m \in Managers |-> FALSE]
  /\ engine = [e \in Engines |-> "none"]
  /\ pc = [r \in Requests |-> "idle"]
  /\ mgr = [r \in Requests |-> NoManager]
  /\ using = [r \in Requests |-> NoEngine]

Points == {"idle", "initialize", "getModelFile", "opening", "copying", "creating",
           "assigning", "flagging", "initialized", "prompting", "generating"}

Goto(r, p) == pc' = [pc EXCEPT ![r] = p]

\* The request is over: it has an answer, a failure, or was cancelled.
Return(r) ==
  /\ Goto(r, "idle")
  /\ mgr' = [mgr EXCEPT ![r] = NoManager]
  /\ using' = [using EXCEPT ![r] = NoEngine]

\* Bound: an engine for every request under way.
RoomForEngine ==
  Cardinality({e \in Engines : engine[e] = "none"})
    > Cardinality({r \in Requests : pc[r] # "idle"})

-----------------------------------------------------------------------------
(* A request: initialize().                                                *)

Ask(r) ==
  /\ pc[r] = "idle" /\ destroying = "no" /\ RoomForEngine
  /\ Goto(r, "initialize")
  /\ mgr' = [mgr EXCEPT ![r] = current]
  /\ UNCHANGED <<cache, copier, life, fields, engine, using>>

Initialize(r) ==
  /\ pc[r] = "initialize"
  /\ Goto(r, IF isInitialized[mgr[r]] THEN "initialized" ELSE "getModelFile")
  /\ UNCHANGED <<cache, copier, life, fields, engine, mgr, using>>

\* Mutant of GetModelFile: isInitialized set before the engine is made.
GetModelFileFlagging(r) ==
  /\ pc[r] = "getModelFile"
  /\ Goto(r, IF cache = "absent" THEN "opening" ELSE "creating")
  /\ isInitialized' = [isInitialized EXCEPT ![mgr[r]] = TRUE]
  /\ UNCHANGED <<cache, copier, life, llmInference, engine, mgr, using>>

\* if (cacheFile.exists()) return cacheFile
GetModelFile(r) ==
  /\ pc[r] = "getModelFile"
  /\ Goto(r, IF cache = "absent" THEN "opening" ELSE "creating")
  /\ UNCHANGED <<cache, copier, life, fields, engine, mgr, using>>

\* FileOutputStream(cacheFile) truncates; it, or assets.open, may throw.
OpenModelFile(r) ==
  /\ pc[r] = "opening"
  /\ \/ /\ cache' = "partial" /\ copier' = r
        /\ Goto(r, "copying")
     \/ /\ Goto(r, "creating")
        /\ UNCHANGED <<cache, copier>>
  /\ UNCHANGED <<life, fields, engine, mgr, using>>

\* Mutant of CopyModel: a request whose file was opened again waits for it.
CopyModelInTurn(r) ==
  /\ pc[r] = "copying" /\ copier = r
  /\ cache' = "complete" /\ copier' = NoRequest
  /\ Goto(r, "creating")
  /\ UNCHANGED <<life, fields, engine, mgr, using>>

\* Every byte of the file is in place when the last to truncate it is through.
CopyModel(r) ==
  /\ pc[r] = "copying"
  /\ \/ /\ cache' = IF copier = r THEN "complete" ELSE cache
        /\ copier' = IF copier = r THEN NoRequest ELSE copier
     \/ UNCHANGED <<cache, copier>>    \* an exception, which is only logged
  /\ Goto(r, "creating")
  /\ UNCHANGED <<life, fields, engine, mgr, using>>

\* LlmInference.createFromOptions, which throws when the file is not whole.
CreateEngine(r) ==
  /\ pc[r] = "creating"
  /\ \/ /\ cache = "complete"
        /\ \E e \in Engines : /\ engine[e] = "none"
                              /\ engine' = [engine EXCEPT ![e] = "open"]
                              /\ using' = [using EXCEPT ![r] = e]
        /\ Goto(r, "assigning")
     \/ /\ Goto(r, "initialized")
        /\ UNCHANGED <<engine, using>>
  /\ UNCHANGED <<cache, copier, life, fields, mgr>>

\* Mutant of AssignEngine: the engine it replaces is closed.
AssignEngineClosing(r) ==
  /\ pc[r] = "assigning"
  /\ llmInference' = [llmInference EXCEPT ![mgr[r]] = using[r]]
  /\ engine' = [e \in Engines |-> IF e = llmInference[mgr[r]] THEN "closed" ELSE engine[e]]
  /\ using' = [using EXCEPT ![r] = NoEngine]
  /\ Goto(r, "flagging")
  /\ UNCHANGED <<cache, copier, life, isInitialized, mgr>>

AssignEngine(r) ==
  /\ pc[r] = "assigning"
  /\ llmInference' = [llmInference EXCEPT ![mgr[r]] = using[r]]
  /\ using' = [using EXCEPT ![r] = NoEngine]
  /\ Goto(r, "flagging")
  /\ UNCHANGED <<cache, copier, life, isInitialized, engine, mgr>>

SetInitialized(r) ==
  /\ pc[r] = "flagging"
  /\ isInitialized' = [isInitialized EXCEPT ![mgr[r]] = TRUE]
  /\ Goto(r, "initialized")
  /\ UNCHANGED <<cache, copier, life, llmInference, engine, mgr, using>>

-----------------------------------------------------------------------------
(* The rest of the request: generateSummary() or answerQuestion().         *)

\* The screen was left: the cancelled coroutine ends when initialize() returns.
Cancelled(r) ==
  /\ pc[r] = "initialized"
  /\ Return(r)
  /\ UNCHANGED <<cache, copier, life, fields, engine>>

\* if (!isInitialized || llmInference == null) return failure
CheckInitialized(r) ==
  /\ pc[r] = "initialized"
  /\ IF isInitialized[mgr[r]] /\ llmInference[mgr[r]] # NoEngine
     THEN Goto(r, "prompting") /\ UNCHANGED <<mgr, using>>
     ELSE Return(r)
  /\ UNCHANGED <<cache, copier, life, fields, engine>>

\* Mutant of Generate: the field is used without the check.
GenerateUnchecked(r) ==
  /\ pc[r] = "prompting"
  /\ using' = [using EXCEPT ![r] = llmInference[mgr[r]]]
  /\ Goto(r, "generating")
  /\ UNCHANGED <<cache, copier, life, fields, engine, mgr>>

\* llmInference!!, by now perhaps null: then it throws, and is caught.
Generate(r) ==
  /\ pc[r] = "prompting"
  /\ IF llmInference[mgr[r]] # NoEngine
     THEN /\ using' = [using EXCEPT ![r] = llmInference[mgr[r]]]
          /\ Goto(r, "generating")
          /\ UNCHANGED mgr
     ELSE Return(r)
  /\ UNCHANGED <<cache, copier, life, fields, engine>>

Generated(r) ==
  /\ pc[r] = "generating"
  /\ Return(r)
  /\ UNCHANGED <<cache, copier, life, fields, engine>>

-----------------------------------------------------------------------------
(* MainActivity.onDestroy and release().                                   *)

OnDestroy ==
  /\ destroying = "no" /\ retired \cup {current} # Managers
  /\ destroying' = "closing"
  /\ UNCHANGED <<cache, copier, current, retired, closeFailed, fields, engine, request>>

\* release() is over, and the next activity has a manager of its own.
Released ==
  /\ destroying' = "no"
  /\ retired' = retired \cup {current}
  /\ current' \in Managers \ retired'

Close(e) == engine' = [engine EXCEPT ![e] = "closed"]

\* llmInference?.close(), which may throw, the engine closed or not; the
\* exception is logged, and what follows is left out.
CloseEngine ==
  /\ destroying = "closing"
  /\ LET e == llmInference[current]
     IN  \/ /\ IF e = NoEngine THEN UNCHANGED engine ELSE Close(e)
            /\ destroying' = "clearing"
            /\ UNCHANGED <<current, retired, closeFailed>>
         \/ /\ e # NoEngine
            /\ Close(e) \/ UNCHANGED engine
            /\ Released
            /\ closeFailed' = closeFailed \cup {current}
  /\ UNCHANGED <<cache, copier, fields, request>>

\* Mutant of ClearEngine: release() without llmInference = null.
ClearEngineForgotten ==
  /\ destroying = "clearing"
  /\ destroying' = "resetting"
  /\ UNCHANGED <<cache, copier, current, retired, closeFailed, fields, engine, request>>

ClearEngine ==
  /\ destroying = "clearing"
  /\ destroying' = "resetting"
  /\ llmInference' = [llmInference EXCEPT ![current] = NoEngine]
  /\ UNCHANGED <<cache, copier, current, retired, closeFailed, isInitialized, engine, request>>

\* textEmbedding.close(), and isInitialized = false unless it throws.
ResetInitialized ==
  /\ destroying = "resetting"
  /\ Released
  /\ \/ isInitialized' = [isInitialized EXCEPT ![current] = FALSE]
     \/ UNCHANGED isInitialized
  /\ UNCHANGED <<cache, copier, closeFailed, llmInference, engine, request>>

\* The process dies, and is started again: only the file is left.
ProcessDeath ==
  /\ retired \cup {current} # Managers
  /\ Released
  /\ closeFailed' = {}
  /\ copier' = NoRequest
  /\ llmInference' = [m \in Managers |-> NoEngine]
  /\ isInitialized' = [m \in Managers |-> FALSE]
  /\ engine' = [e \in Engines |-> "none"]
  /\ pc' = [r \in Requests |-> "idle"]
  /\ mgr' = [r \in Requests |-> NoManager]
  /\ using' = [r \in Requests |-> NoEngine]
  /\ UNCHANGED cache

-----------------------------------------------------------------------------
IO(r) ==
  \/ Initialize(r) \/ GetModelFile(r) \/ OpenModelFile(r) \/ CopyModel(r)
  \/ CreateEngine(r) \/ AssignEngine(r) \/ SetInitialized(r)
  \/ Cancelled(r) \/ CheckInitialized(r) \/ Generate(r) \/ Generated(r)

MainThread == CloseEngine \/ ClearEngine \/ ResetInitialized

Next ==
  \/ \E r \in Requests : Ask(r) \/ IO(r)
  \/ OnDestroy
  \/ MainThread
  \/ ProcessDeath

Spec == Init /\ [][Next]_vars

Fairness == WF_vars(MainThread) /\ \A r \in Requests : WF_vars(IO(r))

FairSpec == Spec /\ Fairness

-----------------------------------------------------------------------------
TypeOK ==
  /\ cache \in {"absent", "partial", "complete"}
  /\ copier \in Requests \cup {NoRequest}
  /\ current \in Managers
  /\ retired \subseteq Managers
  /\ destroying \in {"no", "closing", "clearing", "resetting"}
  /\ closeFailed \subseteq Managers
  /\ llmInference \in [Managers -> Engines \cup {NoEngine}]
  /\ isInitialized \in [Managers -> BOOLEAN]
  /\ engine \in [Engines -> {"none", "open", "closed"}]
  /\ pc \in [Requests -> Points]
  /\ mgr \in [Requests -> Managers \cup {NoManager}]
  /\ using \in [Requests -> Engines \cup {NoEngine}]
  /\ \A r \in Requests : using[r] # NoEngine <=> pc[r] \in {"assigning", "generating"}

\* The unsynchronised pair isInitialized, llmInference: the flag says there is
\* an engine, but for a manager that release() is taking apart or has left.
FlagMeansEngine ==
  \A m \in Managers \ retired :
    isInitialized[m] /\ ~(m = current /\ destroying # "no") => llmInference[m] # NoEngine

\* The field holds a closed engine between the two steps of release(), and for good
\* if close() threw.
FieldsHoldOpenEngines ==
  \A m \in Managers :
    /\ llmInference[m] # NoEngine
    /\ engine[llmInference[m]] = "closed"
    => (m = current /\ destroying = "clearing") \/ m \in closeFailed

\* While its activity lives a request generates with an open engine.
GeneratesWithOpenEngine ==
  \A r \in Requests :
    pc[r] = "generating" /\ mgr[r] = current /\ destroying = "no"
    => engine[using[r]] = "open"

\* No request of the activity in use finds a closed engine, or generates with one,
\* whichever initialize() overwrote the field and whichever manager was released.
\* (release() does close the engine a request of its own activity generates with.)
NoClosedEngine == FieldsHoldOpenEngines /\ GeneratesWithOpenEngine

\* The spinner of a screen ends: every request returns.
RequestsReturn == \A r \in Requests : (pc[r] # "idle") ~> (pc[r] = "idle")

\* getModelFile() returns the model: the file an engine is made from is whole
\* once there is one.
ModelFileIsWhole ==
  [][\A r \in Requests :
       pc[r] = "getModelFile" /\ pc'[r] = "creating" => cache = "complete"]_vars
=============================================================================
