-------------------------- MODULE LLMManagerProofs --------------------------
(***************************************************************************)
(* The unsynchronised fields of LLMManager, for any number of overlapping  *)
(* requests, activities and engines.                                       *)
(***************************************************************************)
EXTENDS LLMManager, TLAPS

\* A request has a manager, which is not one of an activity still to come; and
\* the managers to come are as they were made.
ManagersInv ==
  /\ current \notin retired
  /\ closeFailed \subseteq retired
  /\ \A r \in Requests : pc[r] # "idle" => mgr[r] \in retired \cup {current}
  /\ \A m \in Managers \ (retired \cup {current}) :
       llmInference[m] = NoEngine /\ ~isInitialized[m]

\* The flag is set after the engine.
FlagInv ==
  destroying = "no" =>
    /\ isInitialized[current] => llmInference[current] # NoEngine
    /\ \A r \in Requests :
         pc[r] = "flagging" /\ mgr[r] = current => llmInference[current] # NoEngine

\* An engine is in one place: the local variable of the request that made it or
\* the field of one manager.
EngineInv ==
  /\ \A r \in Requests : pc[r] = "assigning" =>
       /\ engine[using[r]] = "open"
       /\ \A m \in Managers : llmInference[m] # using[r]
       /\ \A s \in Requests : pc[s] = "assigning" /\ using[s] = using[r] => s = r
  /\ \A m \in Managers : llmInference[m] # NoEngine =>
       /\ engine[llmInference[m]] # "none"
       /\ \A k \in Managers : llmInference[k] = llmInference[m] => k = m
  /\ FieldsHoldOpenEngines

\* The engine a request generates with is the one its manager's field held: it is
\* no other manager's, and no request is about to assign it.
GeneratingInv ==
  \A r \in Requests : pc[r] = "generating" =>
    /\ engine[using[r]] # "none"
    /\ \A m \in Managers : llmInference[m] = using[r] => m = mgr[r]
    /\ \A s \in Requests : pc[s] = "assigning" => using[s] # using[r]
    /\ mgr[r] = current /\ destroying = "no" => engine[using[r]] = "open"

IInv == TypeOK /\ ManagersInv /\ FlagInv /\ EngineInv /\ GeneratingInv

LEMMA Initially == Init => IInv
BY LLMAssumption DEF Init, IInv, TypeOK, ManagersInv, FlagInv, EngineInv, GeneratingInv,
   FieldsHoldOpenEngines, Points

-----------------------------------------------------------------------------
(* The steps of a request that leave the managers and their engines alone. *)

\* Request r goes to p with manager m and engine e; the cached file is as it may.
Moves(r, p, m, e) ==
  /\ p \in Points \ {"assigning", "flagging"}
  /\ m \in Managers \cup {NoManager}
  /\ p # "idle" => m \in retired \cup {current}
  /\ e \in Engines \cup {NoEngine}
  /\ e # NoEngine <=> p = "generating"
  /\ p = "generating" => m \in Managers /\ e = llmInference[m]
  /\ pc' = [pc EXCEPT ![r] = p]
  /\ mgr' = [mgr EXCEPT ![r] = m]
  /\ using' = [using EXCEPT ![r] = e]
  /\ cache' \in {"absent", "partial", "complete"}
  /\ copier' \in Requests \cup {NoRequest}
  /\ UNCHANGED <<life, fields, engine>>

LEMMA RequestKeeps ==
  ASSUME IInv, NEW r \in Requests, NEW p, NEW m, NEW e, Moves(r, p, m, e)
  PROVE  IInv'
<1> USE DEF Moves, IInv, TypeOK, life, fields
<1>1. TypeOK'
  BY DEF Points
<1>2. ManagersInv'
  BY DEF ManagersInv
<1>3. FlagInv'
  BY DEF FlagInv
<1>4. EngineInv'
  BY DEF EngineInv, FieldsHoldOpenEngines
<1>5. GeneratingInv'
  <2> SUFFICES ASSUME NEW s \in Requests, pc'[s] = "generating"
               PROVE  /\ engine[using'[s]] # "none"
                      /\ \A k \in Managers : llmInference[k] = using'[s] => k = mgr'[s]
                      /\ \A t \in Requests : pc'[t] = "assigning" => using'[t] # using'[s]
                      /\ mgr'[s] = current /\ destroying = "no" => engine[using'[s]] = "open"
    BY DEF GeneratingInv
  <2>1. CASE s = r
    <3>1. /\ e = llmInference[m] /\ m \in Managers /\ e # NoEngine
          /\ using'[s] = e /\ mgr'[s] = m
      BY <2>1
    <3>2. \A t \in Requests : pc'[t] = "assigning" =>
            pc[t] = "assigning" /\ using'[t] = using[t]
      BY <2>1
    <3> QED BY <3>1, <3>2 DEF EngineInv, FieldsHoldOpenEngines, ManagersInv
  <2>2. CASE s # r
    BY <2>2 DEF GeneratingInv
  <2> QED BY <2>1, <2>2
<1> QED BY <1>1, <1>2, <1>3, <1>4, <1>5

LEMMA RequestStep ==
  ASSUME IInv, NEW r \in Requests, Ask(r) \/ IO(r)
  PROVE  IInv'
<1> USE LLMAssumption DEF Goto, Return
<1>0. /\ pc[r] \in Points /\ using[r] \in Engines \cup {NoEngine}
      /\ mgr[r] \in Managers \cup {NoManager}
      /\ pc[r] # "idle" => mgr[r] \in retired \cup {current} /\ mgr[r] \in Managers
      /\ using[r] # NoEngine <=> pc[r] \in {"assigning", "generating"}
      /\ mgr = [mgr EXCEPT ![r] = mgr[r]] /\ using = [using EXCEPT ![r] = using[r]]
      /\ current \in Managers
  BY DEF IInv, TypeOK, ManagersInv
<1>c. cache \in {"absent", "partial", "complete"} /\ copier \in Requests \cup {NoRequest}
  BY DEF IInv, TypeOK
<1>1. CASE Ask(r)
  <2>1. Moves(r, "initialize", current, using[r])
    BY <1>1, <1>0, <1>c DEF Ask, Moves, Points
  <2> QED BY <2>1, RequestKeeps
<1>2. CASE Initialize(r)
  <2>1. Moves(r, "initialized", mgr[r], using[r]) \/ Moves(r, "getModelFile", mgr[r], using[r])
    BY <1>2, <1>0, <1>c DEF Initialize, Moves, Points
  <2> QED BY <2>1, RequestKeeps
<1>3. CASE GetModelFile(r)
  <2>1. Moves(r, "opening", mgr[r], using[r]) \/ Moves(r, "creating", mgr[r], using[r])
    BY <1>3, <1>0, <1>c DEF GetModelFile, Moves, Points
  <2> QED BY <2>1, RequestKeeps
<1>4. CASE OpenModelFile(r)
  <2>1. Moves(r, "copying", mgr[r], using[r]) \/ Moves(r, "creating", mgr[r], using[r])
    BY <1>4, <1>0, <1>c DEF OpenModelFile, Moves, Points
  <2> QED BY <2>1, RequestKeeps
<1>5. CASE CopyModel(r)
  <2>1. Moves(r, "creating", mgr[r], using[r])
    BY <1>5, <1>0, <1>c DEF CopyModel, Moves, Points
  <2> QED BY <2>1, RequestKeeps
<1>6. CASE CreateEngine(r)
  <2>1. CASE Goto(r, "initialized") /\ UNCHANGED <<engine, using>>
    <3>1. Moves(r, "initialized", mgr[r], using[r])
      BY <1>6, <2>1, <1>0, <1>c DEF CreateEngine, Moves, Points
    <3> QED BY <3>1, RequestKeeps
  <2>2. ASSUME NEW e \in Engines, engine[e] = "none", engine' = [engine EXCEPT ![e] = "open"],
               using' = [using EXCEPT ![r] = e], Goto(r, "assigning")
        PROVE  IInv'
    <3> USE <1>6, <2>2 DEF CreateEngine, IInv, TypeOK, life, fields
    <3>1. TypeOK'
      BY DEF Points
    <3>2. ManagersInv'
      BY <1>0 DEF ManagersInv
    <3>3. FlagInv'
      BY DEF FlagInv
    <3>4. EngineInv'
      <4>1. \A m \in Managers : llmInference[m] # e
        BY DEF EngineInv
      <4>2. \A s \in Requests : pc[s] = "assigning" => using[s] # e
        BY DEF EngineInv
      <4> QED BY <4>1, <4>2 DEF EngineInv, FieldsHoldOpenEngines
    <3>5. GeneratingInv'
      BY DEF GeneratingInv
    <3> QED BY <3>1, <3>2, <3>3, <3>4, <3>5
  <2> QED BY <1>6, <2>1, <2>2 DEF CreateEngine
<1>7. CASE AssignEngine(r)
  <2> USE <1>7 DEF AssignEngine, IInv, TypeOK, life
  <2>1. TypeOK'
    BY <1>0 DEF Points
  <2>2. ManagersInv'
    BY <1>0 DEF ManagersInv
  <2>3. FlagInv'
    BY <1>0 DEF FlagInv
  <2>4. EngineInv'
    BY <1>0 DEF EngineInv, FieldsHoldOpenEngines
  <2>5. GeneratingInv'
    BY <1>0 DEF GeneratingInv, EngineInv
  <2> QED BY <2>1, <2>2, <2>3, <2>4, <2>5
<1>8. CASE SetInitialized(r)
  <2> USE <1>8 DEF SetInitialized, IInv, TypeOK, life
  <2>1. TypeOK'
    BY <1>0 DEF Points
  <2>2. ManagersInv'
    BY <1>0 DEF ManagersInv
  <2>3. FlagInv'
    BY <1>0 DEF FlagInv
  <2>4. EngineInv'
    BY <1>0 DEF EngineInv, FieldsHoldOpenEngines
  <2>5. GeneratingInv'
    BY <1>0 DEF GeneratingInv, EngineInv
  <2> QED BY <2>1, <2>2, <2>3, <2>4, <2>5
<1>9. CASE Cancelled(r)
  <2>1. Moves(r, "idle", NoManager, NoEngine)
    BY <1>9, <1>0, <1>c DEF Cancelled, Moves, Points
  <2> QED BY <2>1, RequestKeeps
<1>10. CASE CheckInitialized(r)
  <2>1. Moves(r, "idle", NoManager, NoEngine) \/ Moves(r, "prompting", mgr[r], using[r])
    BY <1>10, <1>0, <1>c DEF CheckInitialized, Moves, Points
  <2> QED BY <2>1, RequestKeeps
<1>11. CASE Generate(r)
  <2>1. llmInference[mgr[r]] \in Engines \cup {NoEngine}
    BY <1>11, <1>0 DEF Generate, IInv, TypeOK
  <2>2. \/ Moves(r, "idle", NoManager, NoEngine)
        \/ Moves(r, "generating", mgr[r], llmInference[mgr[r]])
    BY <1>11, <2>1, <1>0, <1>c DEF Generate, Moves, Points
  <2> QED BY <2>2, RequestKeeps
<1>12. CASE Generated(r)
  <2>1. Moves(r, "idle", NoManager, NoEngine)
    BY <1>12, <1>0, <1>c DEF Generated, Moves, Points
  <2> QED BY <2>1, RequestKeeps
<1> QED
  BY <1>1, <1>2, <1>3, <1>4, <1>5, <1>6, <1>7, <1>8, <1>9, <1>10, <1>11, <1>12 DEF IO

-----------------------------------------------------------------------------
LEMMA DestroyStep == IInv /\ (OnDestroy \/ MainThread) => IInv'
<1> SUFFICES ASSUME IInv, OnDestroy \/ MainThread PROVE IInv'
  OBVIOUS
<1> USE LLMAssumption DEF IInv, TypeOK, fields, request, Released, Close
<1>1. CASE OnDestroy
  <2> USE <1>1 DEF OnDestroy
  <2>1. TypeOK' /\ ManagersInv' /\ FlagInv'
    BY DEF ManagersInv, FlagInv
  <2>2. EngineInv'
    BY DEF EngineInv, FieldsHoldOpenEngines
  <2>3. GeneratingInv'
    BY DEF GeneratingInv
  <2> QED BY <2>1, <2>2, <2>3
<1>2. CASE CloseEngine
  <2> USE <1>2 DEF CloseEngine
  <2>1. TypeOK'
    OBVIOUS
  <2>2. ManagersInv'
    BY DEF ManagersInv
  <2>3. FlagInv'
    BY DEF FlagInv, ManagersInv
  <2>4. EngineInv'
    BY DEF EngineInv, FieldsHoldOpenEngines
  <2>5. GeneratingInv'
    BY DEF GeneratingInv, ManagersInv
  <2> QED BY <2>1, <2>2, <2>3, <2>4, <2>5
<1>3. CASE ClearEngine
  <2> USE <1>3 DEF ClearEngine
  <2>1. TypeOK' /\ ManagersInv' /\ FlagInv'
    BY DEF ManagersInv, FlagInv
  <2>2. EngineInv'
    BY DEF EngineInv, FieldsHoldOpenEngines
  <2>3. GeneratingInv'
    BY DEF GeneratingInv
  <2> QED BY <2>1, <2>2, <2>3
<1>4. CASE ResetInitialized
  <2> USE <1>4 DEF ResetInitialized
  <2>0. \A m \in Managers : m # current => isInitialized'[m] = isInitialized[m]
    OBVIOUS
  <2>1. isInitialized' \in [Managers -> BOOLEAN]
    <3>1. CASE isInitialized' = [isInitialized EXCEPT ![current] = FALSE]
      BY <3>1
    <3>2. CASE UNCHANGED isInitialized
      BY <3>2
    <3> QED BY <3>1, <3>2
  <2>2. TypeOK'
    BY <2>1
  <2>3. ManagersInv'
    BY <2>0 DEF ManagersInv
  <2>4. FlagInv'
    BY <2>0 DEF FlagInv, ManagersInv
  <2>5. EngineInv'
    BY DEF EngineInv, FieldsHoldOpenEngines
  <2>6. GeneratingInv'
    BY DEF GeneratingInv, ManagersInv
  <2> QED BY <2>2, <2>3, <2>4, <2>5, <2>6
<1> QED BY <1>1, <1>2, <1>3, <1>4 DEF MainThread

LEMMA DeathStep == IInv /\ ProcessDeath => IInv'
<1> SUFFICES ASSUME IInv, ProcessDeath PROVE IInv'
  OBVIOUS
<1> USE LLMAssumption DEF IInv, ProcessDeath, Released
<1>1. TypeOK'
  BY DEF TypeOK, Points
<1>2. ManagersInv'
  BY DEF TypeOK, ManagersInv
<1>3. FlagInv'
  BY DEF FlagInv, TypeOK
<1>4. EngineInv' /\ GeneratingInv'
  BY DEF EngineInv, GeneratingInv, FieldsHoldOpenEngines
<1> QED BY <1>1, <1>2, <1>3, <1>4

LEMMA Stutters == IInv /\ UNCHANGED vars => IInv'
BY DEF vars, life, fields, request, IInv, TypeOK, ManagersInv, FlagInv, EngineInv,
       GeneratingInv, FieldsHoldOpenEngines

\* The five parts hold in every state.
THEOREM Invariant == Spec => []IInv
<1>1. IInv /\ [Next]_vars => IInv'
  BY RequestStep, DestroyStep, DeathStep, Stutters DEF Next
<1> QED BY Initially, <1>1, PTL DEF Spec

\* The fields keep their types, and a request holds an engine exactly from the
\* moment it has made one to the assignment, and while it generates.
THEOREM TypeCorrect == Spec => []TypeOK
<1>1. IInv => TypeOK
  BY DEF IInv
<1> QED BY Invariant, <1>1, PTL

\* initialize() sets isInitialized after llmInference and release() resets it after:
\* however requests overlap, the flag of a manager in use means an engine.
THEOREM FlagIsHonest == Spec => []FlagMeansEngine
<1>1. IInv => FlagMeansEngine
  BY DEF IInv, TypeOK, ManagersInv, FlagInv, FlagMeansEngine
<1> QED BY Invariant, <1>1, PTL

\* The field holds a closed engine only between the two steps of release(), or for good
\* in a manager whose engine's close() threw; and engines are not shared between
\* managers: releasing one activity's closes none that a request of the activity in
\* use generates with.
THEOREM ClosesItsOwn == Spec => []NoClosedEngine
<1>1. IInv => FieldsHoldOpenEngines
  BY DEF IInv, EngineInv
<1>2. IInv => GeneratesWithOpenEngine
  BY DEF IInv, GeneratingInv, GeneratesWithOpenEngine
<1>3. IInv => NoClosedEngine
  BY <1>1, <1>2 DEF NoClosedEngine
<1> QED BY Invariant, <1>3, PTL
=============================================================================
