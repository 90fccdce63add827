------------------------ MODULE WhisperContextProofs ------------------------
(***************************************************************************)
(* For every set of callers and every number of segments: the native       *)
(* context is never used after it was freed, it is freed at most once, a   *)
(* transcription reads only its own segments, and the wrapper implements   *)
(* ExclusiveContext.                                                       *)
(***************************************************************************)
EXTENDS WhisperContext, TLAPS

\* Where the executor's block is tells what it runs and what it holds.
BlockInv ==
  /\ runner = Nobody <=> at = "idle"
  /\ at \in NativePoints => op[runner] = "transcribe" /\ ptr
  /\ at = "freed" => op[runner] = "release" /\ ptr /\ native = "freed"

\* Outside release() the pointer and the native context agree.
PtrInv ==
  /\ at # "freed" => (ptr <=> native = "allocated")
  /\ frees = IF native = "freed" THEN 1 ELSE 0

IInv == TypeOK /\ BlockInv /\ PtrInv /\ SegmentsAreMine

LEMMA HeadTail ==
  ASSUME NEW S, NEW q \in Seq(S), q # <<>>
  PROVE  Head(q) \in S /\ Tail(q) \in Seq(S)
  OBVIOUS

LEMMA InitIInv == Init => IInv
  BY ContextAssumption
  DEF Init, IInv, TypeOK, BlockInv, PtrInv, SegmentsAreMine, Points, Ops, NativePoints

LEMMA StepIInv == IInv /\ [Next]_vars => IInv'
<1> SUFFICES ASSUME IInv, [Next]_vars PROVE IInv'
  OBVIOUS
<1> USE ContextAssumption
    DEF IInv, TypeOK, BlockInv, PtrInv, SegmentsAreMine, Points, Ops, NativePoints, Users
<1>1. ASSUME NEW c \in Callers, NEW o \in Ops, Call(c, o) PROVE IInv'
  <2>1. queue' \in Seq(Users)
    BY <1>1 DEF Call, Submit
  <2>2. QED
    BY <1>1, <2>1 DEF Call, Submit
<1>2. CASE DropReference
  BY <1>2 DEF DropReference
<1>3. CASE Finalize
  <2>1. queue' \in Seq(Users)
    BY <1>3 DEF Finalize, Submit
  <2>2. QED
    BY <1>3, <2>1 DEF Finalize, Submit
<1>4. CASE Begin
  <2>1. runner' \in Users /\ queue' \in Seq(Users)
    BY <1>4, HeadTail DEF Begin
  <2>2. QED
    BY <1>4, <2>1 DEF Begin
<1>5. ASSUME NEW u \in Users, Run(u) PROVE IInv'
  <2>1. CASE RequireFails(u)
    BY <2>1 DEF RequireFails, EndBlock
  <2>2. CASE FullTranscribe(u)
    BY <2>2 DEF FullTranscribe
  <2>3. CASE FullTranscribeReturns(u)
    BY <2>3 DEF FullTranscribeReturns
  <2>4. CASE GetTextSegmentCount(u)
    BY <2>4 DEF GetTextSegmentCount
  <2>5. CASE GetTextSegment(u)
    BY <2>5 DEF GetTextSegment
  <2>6. CASE TranscribeReturns(u)
    BY <2>6 DEF TranscribeReturns, EndBlock
  <2>7. CASE Bench(u)
    BY <2>7 DEF Bench, EndBlock
  <2>8. CASE FreeContext(u)
    BY <2>8 DEF FreeContext
  <2>9. CASE ReleaseReturns(u)
    <3>1. native = "freed"
      BY <2>9 DEF ReleaseReturns
    <3>2. ptr' = FALSE /\ native' = "freed" /\ frees' = frees /\ at' = "idle"
      BY <2>9, <3>1 DEF ReleaseReturns, EndBlock
    <3>3. TypeOK'
      <4>1. ptr' \in BOOLEAN
        BY <3>2, Zenon
      <4>2. op' \in [Users -> Ops \cup {"none"}] /\ count' = 0 /\ index' = 0
        BY <2>9 DEF ReleaseReturns, EndBlock
      <4>3. QED
        BY <2>9, <4>1, <4>2 DEF ReleaseReturns, EndBlock
    <3>4. BlockInv' /\ SegmentsAreMine'
      BY <2>9, <3>2 DEF ReleaseReturns, EndBlock
    <3>5. PtrInv'
      BY <3>1, <3>2, Zenon
    <3>6. QED
      BY <3>3, <3>4, <3>5
  <2>10. QED
    BY <1>5, <2>1, <2>2, <2>3, <2>4, <2>5, <2>6, <2>7, <2>8, <2>9 DEF Run
<1>6. CASE UNCHANGED vars
  BY <1>6 DEF vars
<1>7. QED
  BY <1>1, <1>2, <1>3, <1>4, <1>5, <1>6 DEF Next

LEMMA Invariance == Spec => []IInv
  BY InitIInv, StepIInv, PTL DEF Spec

\* The variables of the wrapper keep their types.
THEOREM TypeCorrect == Spec => []TypeOK
<1>1. IInv => TypeOK
  BY DEF IInv
<1>2. QED
  BY <1>1, Invariance, PTL

\* Whoever calls, and in whatever order, transcribeData, the benchmarks,
\* release() and finalize() never run a JNI function on a freed context.
THEOREM NeverUsedAfterFree == Spec => []NoUseAfterFree
<1>1. IInv => NoUseAfterFree
  BY DEF IInv, TypeOK, BlockInv, PtrInv, NoUseAfterFree, NativePoints
<1>2. QED
  BY <1>1, Invariance, PTL

\* release() and finalize() between them free the context at most once.
THEOREM NeverFreedTwice == Spec => []FreedOnce
<1>1. IInv => FreedOnce
  BY DEF IInv, TypeOK, PtrInv, FreedOnce
<1>2. QED
  BY <1>1, Invariance, PTL

\* The loop over the segments reads the transcription it belongs to.
THEOREM ReadsOwnSegments == Spec => []SegmentsAreMine
<1>1. IInv => SegmentsAreMine
  BY DEF IInv
<1>2. QED
  BY <1>1, Invariance, PTL

-----------------------------------------------------------------------------
(* Refinement of ExclusiveContext.                                         *)

inside == IF at \in NativePoints THEN runner ELSE Nobody
alive == native = "allocated"

LEMMA RefinesInit == Init => Context!Init
  BY DEF Init, Context!Init, NativePoints

LEMMA RefinesStep ==
  IInv /\ [Next]_vars => [Context!Next]_<<inside, alive>>
<1> SUFFICES ASSUME IInv, [Next]_vars
             PROVE  Context!Next \/ UNCHANGED <<inside, alive>>
  OBVIOUS
<1> USE ContextAssumption
    DEF IInv, TypeOK, BlockInv, PtrInv, Points, NativePoints, Users, inside, alive
<1>1. ASSUME NEW c \in Callers, NEW o \in Ops, Call(c, o)
      PROVE  UNCHANGED <<inside, alive>>
  BY <1>1 DEF Call, Submit
<1>2. CASE DropReference
  BY <1>2 DEF DropReference
<1>3. CASE Finalize
  BY <1>3 DEF Finalize, Submit
<1>4. CASE Begin
  BY <1>4 DEF Begin
<1>5. ASSUME NEW u \in Users, Run(u)
      PROVE  Context!Next \/ UNCHANGED <<inside, alive>>
  <2>1. CASE RequireFails(u)
    BY <2>1 DEF RequireFails, EndBlock
  <2>2. CASE FullTranscribe(u)
    BY <2>2 DEF FullTranscribe, Context!Next, Context!Enter
  <2>3. CASE FullTranscribeReturns(u)
    BY <2>3 DEF FullTranscribeReturns
  <2>4. CASE GetTextSegmentCount(u)
    BY <2>4 DEF GetTextSegmentCount
  <2>5. CASE GetTextSegment(u)
    BY <2>5 DEF GetTextSegment
  <2>6. CASE TranscribeReturns(u)
    BY <2>6 DEF TranscribeReturns, EndBlock, Context!Next, Context!Leave
  <2>7. CASE Bench(u)
    BY <2>7 DEF Bench, EndBlock
  <2>8. CASE FreeContext(u)
    BY <2>8 DEF FreeContext, Context!Next, Context!Free
  <2>9. CASE ReleaseReturns(u)
    BY <2>9 DEF ReleaseReturns, EndBlock
  <2>10. QED
    BY <1>5, <2>1, <2>2, <2>3, <2>4, <2>5, <2>6, <2>7, <2>8, <2>9 DEF Run
<1>6. CASE UNCHANGED vars
  BY <1>6 DEF vars
<1>7. QED
  BY <1>1, <1>2, <1>3, <1>4, <1>5, <1>6 DEF Next

\* The single-thread executor gives the native context the discipline its
\* wrapper promises: one thread at a time, freed once, not entered afterwards.
THEOREM ImplementsExclusiveContext == Spec => OneThreadAtATime
<1> USE DEF inside, alive
<1>1. QED
  BY RefinesInit, RefinesStep, Invariance, PTL DEF Spec, OneThreadAtATime, Context!Spec
=============================================================================
