--------------------- MODULE MainScreenViewModelProofs ---------------------
(***************************************************************************)
(* For every number of coroutines, recording threads and files: the view   *)
(* model's variables keep their types, and canTranscribe is a lock that    *)
(* one job at most holds and that is never lost.                           *)
(***************************************************************************)
EXTENDS MainScreenViewModel, TLAPS

-----------------------------------------------------------------------------
(* Queues.                                                                 *)

LEMMA HeadTail ==
  ASSUME NEW S, NEW q \in Seq(S), q # <<>>
  PROVE  Head(q) \in S /\ Tail(q) \in Seq(S)
  OBVIOUS

LEMMA AppendType ==
  ASSUME NEW S, NEW q \in Seq(S), NEW x \in S
  PROVE  Append(q, x) \in Seq(S)
  OBVIOUS

\* The block the executor's thread takes is of the kind it is taken as.
LEMMA TakeType ==
  ASSUME RecorderTypeOK, NEW j \in Jobs, NEW o \in {"start", "stop"}, Take(j, o)
  PROVE  /\ execQ' \in Seq(Block)
         /\ o = "start" => Head(execQ).file \in Files
<1>1. execQ \in Seq(Block) /\ execQ # <<>>
  BY DEF RecorderTypeOK, Take
<1>2. Head(execQ) \in Block /\ Tail(execQ) \in Seq(Block)
  BY <1>1, HeadTail
<1>3. o = "start" => Head(execQ).file \in Files
  BY <1>2 DEF Take, Block
<1>4. QED
  BY <1>2, <1>3 DEF Take

LEMMA CallType ==
  ASSUME RecorderTypeOK, NEW j \in Jobs, NEW f \in Files, CallStart(j, f)
  PROVE  execQ' \in Seq(Block)
<1>1. [op |-> "start", job |-> j, file |-> f] \in Block
  BY DEF Block
<1>2. QED
  BY <1>1, AppendType DEF RecorderTypeOK, CallStart

LEMMA StopCallType ==
  ASSUME RecorderTypeOK, NEW j \in Jobs, CallStop(j)
  PROVE  execQ' \in Seq(Block)
<1>1. [op |-> "stop", job |-> j] \in Block
  BY DEF Block
<1>2. QED
  BY <1>1, AppendType DEF RecorderTypeOK, CallStop

-----------------------------------------------------------------------------
(* Types.                                                                  *)

\* The steps of Recorder.kt keep the types of its variables.
LEMMA RecorderExecutorType ==
  ASSUME RecorderTypeOK, NEW j \in Jobs,
         \/ \E t \in Threads : StartRecording(j, t)
         \/ StopRecording(j) \/ StopNothing(j) \/ Joined(j)
  PROVE  RecorderTypeOK'
<1>1. ASSUME NEW t \in Threads, StartRecording(j, t) PROVE RecorderTypeOK'
  <2>1. execQ' \in Seq(Block) /\ Head(execQ).file \in Files
    BY <1>1, TakeType DEF StartRecording
  <2>2. QED
    BY <1>1, <2>1 DEF StartRecording, RecorderTypeOK
<1>2. CASE StopRecording(j)
  <2>1. execQ' \in Seq(Block)
    BY <1>2, TakeType DEF StopRecording
  <2>2. QED
    BY <1>2, <2>1 DEF StopRecording, RecorderTypeOK
<1>3. CASE StopNothing(j)
  <2>1. execQ' \in Seq(Block)
    BY <1>3, TakeType DEF StopNothing
  <2>2. QED
    BY <1>3, <2>1 DEF StopNothing, RecorderTypeOK
<1>4. CASE Joined(j)
  BY <1>4 DEF Joined, RecorderTypeOK
<1>5. QED
  BY <1>1, <1>2, <1>3, <1>4

LEMMA ThreadType ==
  ASSUME RecorderTypeOK, NEW t \in Threads,
         ReadSamples(t) \/ BeginEncode(t) \/ Encode(t) \/ Fail(t)
  PROVE  RecorderTypeOK'
<1> USE DEF RecorderTypeOK
<1>1. CASE ReadSamples(t)
  BY <1>1 DEF ReadSamples
<1>2. CASE BeginEncode(t)
  BY <1>2 DEF BeginEncode
<1>3. CASE Encode(t)
  BY <1>3 DEF Encode
<1>4. CASE Fail(t)
  BY <1>4 DEF Fail
<1>5. QED
  BY <1>1, <1>2, <1>3, <1>4

LEMMA RecorderUnchanged == RecorderTypeOK /\ UNCHANGED recorderVars => RecorderTypeOK'
  BY DEF RecorderTypeOK, recorderVars

\* A job that is resumed, or leaves the main thread, stays in its types.
LEMMA ResumeType ==
  ASSUME DataTypeOK, NEW j \in Jobs, NEW p \in JobPoints, Resume(j, p)
  PROVE  /\ pc' \in [Jobs -> JobPoints]
         /\ mainQ' \in Seq(Jobs \cup Threads \cup {Loader})
<1>1. mainQ' \in Seq(Jobs \cup Threads \cup {Loader})
  BY AppendType DEF DataTypeOK, Resume
<1>2. QED
  BY <1>1 DEF DataTypeOK, Resume, Goto

LEMMA SuspendType ==
  ASSUME DataTypeOK, NEW j \in Jobs, NEW p \in JobPoints, Turn(j), Suspend(j, p)
  PROVE  /\ pc' \in [Jobs -> JobPoints]
         /\ mainQ' \in Seq(Jobs \cup Threads \cup {Loader})
<1>1. mainQ' \in Seq(Jobs \cup Threads \cup {Loader})
  BY HeadTail DEF DataTypeOK, Suspend, Turn
<1>2. QED
  BY <1>1 DEF DataTypeOK, Suspend, Goto

LEMMA InitType == Init => TypeOK
<1> SUFFICES ASSUME Init PROVE TypeOK
  OBVIOUS
<1>1. RecorderTypeOK
  BY DEF Init, RecorderInit, RecorderTypeOK
<1>2. FlagsTypeOK
  BY Zenon DEF Init, FlagsTypeOK
<1>3. DataTypeOK
  BY DEF Init, DataTypeOK, JobPoints
<1>4. QED
  BY <1>1, <1>2, <1>3 DEF TypeOK

LEMMA StepType == TypeOK /\ [Next]_vars => TypeOK'
<1> SUFFICES ASSUME TypeOK, [Next]_vars PROVE TypeOK'
  OBVIOUS
<1> USE DEF TypeOK
<1>1. CASE LoadBaseModel
  <2>1. RecorderTypeOK'
    BY <1>1, RecorderUnchanged DEF LoadBaseModel
  <2>2. FlagsTypeOK'
    BY <1>1 DEF LoadBaseModel, viewVars, FlagsTypeOK
  <2>3. DataTypeOK'
    BY <1>1 DEF LoadBaseModel, DataTypeOK, viewVars, jobVars, Goto, Resume, Suspend
  <2>4. QED
    BY <2>1, <2>2, <2>3
<1>2. CASE DataLoaded
  <2>1. RecorderTypeOK'
    BY <1>2, RecorderUnchanged DEF DataLoaded
  <2>2. FlagsTypeOK'
    BY <1>2, Zenon DEF DataLoaded, FlagsTypeOK
  <2>3. mainQ' \in Seq(Jobs \cup Threads \cup {Loader})
    BY <1>2, HeadTail, AppendType DEF DataLoaded, DataTypeOK, Turn
  <2>4. DataTypeOK'
    BY <1>2, <2>3 DEF DataLoaded, DataTypeOK, viewVars
  <2>5. QED
    BY <2>1, <2>2, <2>4
<1>3. ASSUME NEW j \in Jobs, Decode(j) PROVE TypeOK'
  <2>1. RecorderTypeOK'
    BY <1>3, RecorderUnchanged DEF Decode
  <2>2. FlagsTypeOK'
    BY <1>3 DEF Decode, viewVars, FlagsTypeOK
  <2>3. pc' \in [Jobs -> JobPoints] /\ mainQ' \in Seq(Jobs \cup Threads \cup {Loader})
    BY <1>3, ResumeType DEF Decode, JobPoints, StartPoints, StopPoints, TranscribePoints, BenchmarkPoints
  <2>4. DataTypeOK'
    BY <1>3, <2>3 DEF Decode, DataTypeOK, viewVars, jobVars, Goto, Resume, Suspend
  <2>5. QED
    BY <2>1, <2>2, <2>4
<1>4. ASSUME NEW j \in Jobs, Transcribe(j) PROVE TypeOK'
  <2>1. RecorderTypeOK'
    BY <1>4, RecorderUnchanged DEF Transcribe
  <2>2. FlagsTypeOK'
    BY <1>4 DEF Transcribe, viewVars, FlagsTypeOK
  <2>3. pc' \in [Jobs -> JobPoints] /\ mainQ' \in Seq(Jobs \cup Threads \cup {Loader})
    BY <1>4, SuspendType DEF Transcribe, JobPoints, StartPoints, StopPoints, TranscribePoints, BenchmarkPoints
  <2>4. DataTypeOK'
    BY <1>4, <2>3 DEF Transcribe, DataTypeOK, viewVars, jobVars, Goto, Resume, Suspend
  <2>5. QED
    BY <2>1, <2>2, <2>4
<1>5. ASSUME NEW j \in Jobs, TranscribeData(j) PROVE TypeOK'
  <2>1. RecorderTypeOK'
    BY <1>5, RecorderUnchanged DEF TranscribeData
  <2>2. FlagsTypeOK'
    BY <1>5 DEF TranscribeData, viewVars, FlagsTypeOK
  <2>3. pc' \in [Jobs -> JobPoints] /\ mainQ' \in Seq(Jobs \cup Threads \cup {Loader})
    BY <1>5, ResumeType DEF TranscribeData, JobPoints, StartPoints, StopPoints, TranscribePoints, BenchmarkPoints
  <2>4. DataTypeOK'
    BY <1>5, <2>3 DEF TranscribeData, DataTypeOK, viewVars, jobVars, Goto, Resume, Suspend
  <2>5. QED
    BY <2>1, <2>2, <2>4
<1>6. ASSUME NEW j \in Jobs, SaveNote(j) PROVE TypeOK'
  <2>1. RecorderTypeOK'
    BY <1>6, RecorderUnchanged DEF SaveNote
  <2>2. FlagsTypeOK'
    BY <1>6 DEF SaveNote, viewVars, FlagsTypeOK
  <2>3. pc' \in [Jobs -> JobPoints] /\ mainQ' \in Seq(Jobs \cup Threads \cup {Loader})
    BY <1>6, SuspendType DEF SaveNote, JobPoints, StartPoints, StopPoints, TranscribePoints, BenchmarkPoints
  <2>4. DataTypeOK'
    BY <1>6, <2>3 DEF SaveNote, DataTypeOK, viewVars, jobVars, Goto, Resume, Suspend
  <2>5. QED
    BY <2>1, <2>2, <2>4
<1>7. ASSUME NEW j \in Jobs, InsertNote(j) PROVE TypeOK'
  <2>1. RecorderTypeOK'
    BY <1>7, RecorderUnchanged DEF InsertNote
  <2>2. FlagsTypeOK'
    BY <1>7 DEF InsertNote, viewVars, FlagsTypeOK
  <2>3. pc' \in [Jobs -> JobPoints] /\ mainQ' \in Seq(Jobs \cup Threads \cup {Loader})
    BY <1>7, ResumeType DEF InsertNote, JobPoints, StartPoints, StopPoints, TranscribePoints, BenchmarkPoints
  <2>4. DataTypeOK'
    BY <1>7, <2>3 DEF InsertNote, DataTypeOK, viewVars, jobVars, Goto, Resume, Suspend
  <2>5. QED
    BY <2>1, <2>2, <2>4
<1>8. ASSUME NEW j \in Jobs, TranscribeReturns(j) PROVE TypeOK'
  <2>1. RecorderTypeOK'
    BY <1>8, RecorderUnchanged DEF TranscribeReturns
  <2>2. FlagsTypeOK'
    BY <1>8, Zenon DEF TranscribeReturns, FlagsTypeOK
  <2>3. pc' \in [Jobs -> JobPoints] /\ mainQ' \in Seq(Jobs \cup Threads \cup {Loader})
    BY <1>8, SuspendType DEF TranscribeReturns, JobPoints, StartPoints, StopPoints, TranscribePoints, BenchmarkPoints
  <2>4. DataTypeOK'
    BY <1>8, <2>3 DEF TranscribeReturns, DataTypeOK, viewVars, jobVars, Goto, Resume, Suspend, Result
  <2>5. QED
    BY <2>1, <2>2, <2>4
<1>9. ASSUME NEW j \in Jobs, ToggleStart(j) PROVE TypeOK'
  <2>1. RecorderTypeOK'
    BY <1>9, RecorderUnchanged DEF ToggleStart
  <2>2. FlagsTypeOK'
    BY <1>9 DEF ToggleStart, viewVars, FlagsTypeOK
  <2>3. pc' \in [Jobs -> JobPoints] /\ mainQ' \in Seq(Jobs \cup Threads \cup {Loader})
    BY <1>9, ResumeType DEF ToggleStart, JobPoints, StartPoints, StopPoints, TranscribePoints, BenchmarkPoints
  <2>4. DataTypeOK'
    BY <1>9, <2>3 DEF ToggleStart, DataTypeOK, viewVars, jobVars, Goto, Resume, Suspend
  <2>5. QED
    BY <2>1, <2>2, <2>4
<1>10. ASSUME NEW j \in Jobs, ClearNote(j) PROVE TypeOK'
  <2>1. RecorderTypeOK'
    BY <1>10, RecorderUnchanged DEF ClearNote
  <2>2. FlagsTypeOK'
    BY <1>10, Zenon DEF ClearNote, FlagsTypeOK
  <2>3. pc' \in [Jobs -> JobPoints] /\ mainQ' \in Seq(Jobs \cup Threads \cup {Loader})
    BY <1>10, SuspendType DEF ClearNote, JobPoints, StartPoints, StopPoints, TranscribePoints, BenchmarkPoints
  <2>4. DataTypeOK'
    BY <1>10, <2>3 DEF ClearNote, DataTypeOK, viewVars, jobVars, Goto, Resume, Suspend
  <2>5. QED
    BY <2>1, <2>2, <2>4
<1>11. ASSUME NEW j \in Jobs, NEW f \in Files, GetTempFileForRecording(j, f) PROVE TypeOK'
  <2>1. RecorderTypeOK'
    BY <1>11, RecorderUnchanged DEF GetTempFileForRecording
  <2>2. FlagsTypeOK'
    BY <1>11 DEF GetTempFileForRecording, viewVars, FlagsTypeOK
  <2>3. pc' \in [Jobs -> JobPoints] /\ mainQ' \in Seq(Jobs \cup Threads \cup {Loader})
    BY <1>11, ResumeType DEF GetTempFileForRecording, JobPoints, StartPoints, StopPoints, TranscribePoints, BenchmarkPoints
  <2>4. DataTypeOK'
    BY <1>11, <2>3 DEF GetTempFileForRecording, DataTypeOK, viewVars, jobVars, Goto, Resume, Suspend
  <2>5. QED
    BY <2>1, <2>2, <2>4
<1>12. ASSUME NEW j \in Jobs, BeginRecording(j) PROVE TypeOK'
  <2>1. RecorderTypeOK'
    <3>1. jfile[j] \in Files
      BY <1>12 DEF BeginRecording, DataTypeOK
    <3>2. execQ' \in Seq(Block)
      BY <1>12, <3>1, CallType DEF BeginRecording
    <3>3. QED
      BY <1>12, <3>2 DEF BeginRecording, RecorderTypeOK
  <2>2. FlagsTypeOK'
    BY <1>12, Zenon DEF BeginRecording, FlagsTypeOK
  <2>3. pc' \in [Jobs -> JobPoints] /\ mainQ' \in Seq(Jobs \cup Threads \cup {Loader})
    BY <1>12, SuspendType DEF BeginRecording, JobPoints, StartPoints, StopPoints, TranscribePoints, BenchmarkPoints
  <2>4. DataTypeOK'
    BY <1>12, <2>3 DEF BeginRecording, DataTypeOK, viewVars, jobVars, Goto, Resume, Suspend
  <2>5. QED
    BY <2>1, <2>2, <2>4
<1>13. ASSUME NEW j \in Jobs, NEW t \in Threads, StartThread(j, t) PROVE TypeOK'
  <2>1. RecorderTypeOK'
    BY <1>13, RecorderExecutorType DEF StartThread
  <2>2. FlagsTypeOK'
    BY <1>13 DEF StartThread, viewVars, FlagsTypeOK
  <2>3. DataTypeOK'
    BY <1>13 DEF StartThread, DataTypeOK, viewVars, Goto, EnterTranscribe,
       JobPoints, StartPoints, StopPoints, TranscribePoints, BenchmarkPoints
  <2>4. QED
    BY <2>1, <2>2, <2>3
<1>14. ASSUME NEW j \in Jobs, ToggleStop(j) PROVE TypeOK'
  <2>1. RecorderTypeOK'
    <3>1. execQ' \in Seq(Block)
      BY <1>14, StopCallType DEF ToggleStop
    <3>2. QED
      BY <1>14, <3>1 DEF ToggleStop, RecorderTypeOK
  <2>2. FlagsTypeOK'
    BY <1>14 DEF ToggleStop, viewVars, FlagsTypeOK
  <2>3. DataTypeOK'
    BY <1>14 DEF ToggleStop, DataTypeOK, viewVars, Goto, EnterTranscribe,
       JobPoints, StartPoints, StopPoints, TranscribePoints, BenchmarkPoints
  <2>4. QED
    BY <2>1, <2>2, <2>3
<1>15. ASSUME NEW j \in Jobs, StopThread(j) PROVE TypeOK'
  <2>1. RecorderTypeOK'
    BY <1>15, RecorderExecutorType DEF StopThread
  <2>2. FlagsTypeOK'
    BY <1>15 DEF StopThread, viewVars, FlagsTypeOK
  <2>3. DataTypeOK'
    BY <1>15 DEF StopThread, DataTypeOK, viewVars, jobVars, Goto, Resume, Suspend
  <2>4. QED
    BY <2>1, <2>2, <2>3
<1>16. ASSUME NEW j \in Jobs, StopReturns(j) PROVE TypeOK'
  <2>1. RecorderTypeOK'
    BY <1>16, RecorderExecutorType DEF StopReturns
  <2>2. FlagsTypeOK'
    BY <1>16 DEF StopReturns, viewVars, FlagsTypeOK
  <2>3. pc' \in [Jobs -> JobPoints] /\ mainQ' \in Seq(Jobs \cup Threads \cup {Loader})
    BY <1>16, ResumeType DEF StopReturns, JobPoints, StartPoints, StopPoints, TranscribePoints, BenchmarkPoints
  <2>4. DataTypeOK'
    BY <1>16, <2>3 DEF StopReturns, DataTypeOK, viewVars, jobVars, Goto, Resume, Suspend
  <2>5. QED
    BY <2>1, <2>2, <2>4
<1>17. ASSUME NEW j \in Jobs, RecordingStopped(j) PROVE TypeOK'
  <2>1. RecorderTypeOK'
    BY <1>17, RecorderUnchanged DEF RecordingStopped
  <2>2. FlagsTypeOK'
    BY <1>17, Zenon DEF RecordingStopped, EnterTranscribe, FlagsTypeOK
  <2>3. pc' \in [Jobs -> JobPoints] /\ mainQ' \in Seq(Jobs \cup Threads \cup {Loader})
    BY <1>17, SuspendType DEF RecordingStopped, JobPoints, StartPoints, StopPoints, TranscribePoints, BenchmarkPoints
  <2>4. DataTypeOK'
    BY <1>17, <2>3 DEF RecordingStopped, DataTypeOK, viewVars, jobVars, Goto, Resume, Suspend, EnterTranscribe
  <2>5. QED
    BY <2>1, <2>2, <2>4
<1>18. ASSUME NEW t \in Threads, ThreadReads(t) PROVE TypeOK'
  <2>1. RecorderTypeOK'
    BY <1>18, ThreadType DEF ThreadReads
  <2>2. FlagsTypeOK'
    BY <1>18 DEF ThreadReads, viewVars, FlagsTypeOK
  <2>3. DataTypeOK'
    BY <1>18 DEF ThreadReads, DataTypeOK, viewVars, jobVars, Goto, Resume, Suspend
  <2>4. QED
    BY <2>1, <2>2, <2>3
<1>19. ASSUME NEW t \in Threads, ThreadQuits(t) PROVE TypeOK'
  <2>1. RecorderTypeOK'
    BY <1>19, ThreadType DEF ThreadQuits
  <2>2. FlagsTypeOK'
    BY <1>19 DEF ThreadQuits, viewVars, FlagsTypeOK
  <2>3. DataTypeOK'
    BY <1>19 DEF ThreadQuits, DataTypeOK, viewVars, jobVars, Goto, Resume, Suspend
  <2>4. QED
    BY <2>1, <2>2, <2>3
<1>20. ASSUME NEW t \in Threads, ThreadEncodes(t) PROVE TypeOK'
  <2>1. RecorderTypeOK'
    BY <1>20, ThreadType DEF ThreadEncodes
  <2>2. FlagsTypeOK'
    BY <1>20 DEF ThreadEncodes, viewVars, FlagsTypeOK
  <2>3. DataTypeOK'
    BY <1>20 DEF ThreadEncodes, DataTypeOK, viewVars, jobVars, Goto, Resume, Suspend
  <2>4. QED
    BY <2>1, <2>2, <2>3
<1>21. ASSUME NEW t \in Threads, ThreadFails(t) PROVE TypeOK'
  <2>1. RecorderTypeOK'
    BY <1>21, ThreadType DEF ThreadFails
  <2>2. FlagsTypeOK'
    BY <1>21 DEF ThreadFails, viewVars, FlagsTypeOK
  <2>3. DataTypeOK'
    BY <1>21 DEF ThreadFails, DataTypeOK, viewVars, jobVars, Goto, Resume, Suspend
  <2>4. QED
    BY <2>1, <2>2, <2>3
<1>22. ASSUME NEW t \in Threads, LaunchError(t) PROVE TypeOK'
  <2>1. RecorderTypeOK'
    BY <1>22, RecorderUnchanged DEF LaunchError
  <2>2. FlagsTypeOK'
    BY <1>22 DEF LaunchError, viewVars, FlagsTypeOK
  <2>3. mainQ' \in Seq(Jobs \cup Threads \cup {Loader})
    BY <1>22, HeadTail, AppendType DEF LaunchError, DataTypeOK, Turn
  <2>4. DataTypeOK'
    BY <1>22, <2>3 DEF LaunchError, DataTypeOK, viewVars
  <2>5. QED
    BY <2>1, <2>2, <2>4
<1>23. ASSUME NEW t \in Threads, OnError(t) PROVE TypeOK'
  <2>1. RecorderTypeOK'
    BY <1>23, RecorderUnchanged DEF OnError
  <2>2. FlagsTypeOK'
    BY <1>23, Zenon DEF OnError, FlagsTypeOK
  <2>3. mainQ' \in Seq(Jobs \cup Threads \cup {Loader})
    BY <1>23, HeadTail, AppendType DEF OnError, DataTypeOK, Turn
  <2>4. DataTypeOK'
    BY <1>23, <2>3 DEF OnError, DataTypeOK, viewVars
  <2>5. QED
    BY <2>1, <2>2, <2>4
<1>24. ASSUME NEW j \in Jobs, NEW f \in Files, TranscribeFile(j, f) PROVE TypeOK'
  <2>1. RecorderTypeOK'
    BY <1>24 DEF TranscribeFile, RecorderTypeOK
  <2>2. FlagsTypeOK'
    BY <1>24, Zenon DEF TranscribeFile, EnterTranscribe, FlagsTypeOK
  <2>3. DataTypeOK'
    <3>1. pc' \in [Jobs -> JobPoints]
      BY <1>24 DEF TranscribeFile, DataTypeOK, Goto, EnterTranscribe, JobPoints, TranscribePoints
    <3>2. jfile' \in [Jobs -> Files \cup {NoFile}] /\ named' \subseteq Files
      BY <1>24 DEF TranscribeFile, DataTypeOK, EnterTranscribe
    <3>3. \A i \in Jobs : pc'[i] = "named" => pc[i] = "named" /\ jfile'[i] = jfile[i]
      BY <1>24 DEF TranscribeFile, DataTypeOK, Goto, EnterTranscribe
    <3>4. \A i \in Jobs : pc'[i] = "named" => jfile'[i] \in Files
      BY <3>3 DEF DataTypeOK
    <3> QED BY <1>24, <3>1, <3>2, <3>4 DEF TranscribeFile, DataTypeOK, viewVars
  <2>4. QED
    BY <2>1, <2>2, <2>3
<1>25. ASSUME NEW j \in Jobs, NEW f \in Files, DeleteNote(j, f) PROVE TypeOK'
  <2>1. RecorderTypeOK'
    BY <1>25, RecorderUnchanged DEF DeleteNote
  <2>2. FlagsTypeOK'
    BY <1>25 DEF DeleteNote, viewVars, FlagsTypeOK
  <2>3. DataTypeOK'
    BY <1>25 DEF DeleteNote, DataTypeOK, viewVars, Goto, EnterTranscribe,
       JobPoints, StartPoints, StopPoints, TranscribePoints, BenchmarkPoints
  <2>4. QED
    BY <2>1, <2>2, <2>3
<1>26. ASSUME NEW j \in Jobs, NoteDeleted(j) PROVE TypeOK'
  <2>1. RecorderTypeOK'
    BY <1>26, RecorderUnchanged DEF NoteDeleted
  <2>2. FlagsTypeOK'
    BY <1>26 DEF NoteDeleted, viewVars, FlagsTypeOK
  <2>3. notes' \in [Files -> Nat]
    <3>1. \A f \in Files : (IF notes[f] > 0 THEN notes[f] - 1 ELSE 0) \in Nat
      BY DEF DataTypeOK
    <3>2. QED
      BY <1>26, <3>1 DEF NoteDeleted, DataTypeOK
  <2>4. DataTypeOK'
    BY <1>26, <2>3 DEF NoteDeleted, DataTypeOK, viewVars, Goto, JobPoints
  <2>5. QED
    BY <2>1, <2>2, <2>4
<1>27. ASSUME NEW j \in Jobs, Benchmark(j) PROVE TypeOK'
  <2>1. RecorderTypeOK'
    BY <1>27, RecorderUnchanged DEF Benchmark
  <2>2. FlagsTypeOK'
    BY <1>27, Zenon DEF Benchmark, FlagsTypeOK
  <2>3. DataTypeOK'
    BY <1>27 DEF Benchmark, DataTypeOK, viewVars, Goto, EnterTranscribe,
       JobPoints, StartPoints, StopPoints, TranscribePoints, BenchmarkPoints
  <2>4. QED
    BY <2>1, <2>2, <2>3
<1>28. ASSUME NEW j \in Jobs, BenchMemory(j) PROVE TypeOK'
  <2>1. RecorderTypeOK'
    BY <1>28, RecorderUnchanged DEF BenchMemory
  <2>2. FlagsTypeOK'
    BY <1>28 DEF BenchMemory, viewVars, FlagsTypeOK
  <2>3. pc' \in [Jobs -> JobPoints] /\ mainQ' \in Seq(Jobs \cup Threads \cup {Loader})
    BY <1>28, ResumeType DEF BenchMemory, JobPoints, StartPoints, StopPoints, TranscribePoints, BenchmarkPoints
  <2>4. DataTypeOK'
    BY <1>28, <2>3 DEF BenchMemory, DataTypeOK, viewVars, jobVars, Goto, Resume, Suspend
  <2>5. QED
    BY <2>1, <2>2, <2>4
<1>29. ASSUME NEW j \in Jobs, BenchmarkReturns(j) PROVE TypeOK'
  <2>1. RecorderTypeOK'
    BY <1>29, RecorderUnchanged DEF BenchmarkReturns
  <2>2. FlagsTypeOK'
    BY <1>29, Zenon DEF BenchmarkReturns, FlagsTypeOK
  <2>3. pc' \in [Jobs -> JobPoints] /\ mainQ' \in Seq(Jobs \cup Threads \cup {Loader})
    BY <1>29, SuspendType DEF BenchmarkReturns, JobPoints, StartPoints, StopPoints, TranscribePoints, BenchmarkPoints
  <2>4. DataTypeOK'
    BY <1>29, <2>3 DEF BenchmarkReturns, DataTypeOK, viewVars, jobVars, Goto, Resume, Suspend
  <2>5. QED
    BY <2>1, <2>2, <2>4
<1>30. CASE UNCHANGED vars
  BY <1>30, RecorderUnchanged DEF vars, viewVars, jobVars, recorderVars, FlagsTypeOK, DataTypeOK
<1>31. QED
  BY <1>1, <1>2, <1>3, <1>4, <1>5, <1>6, <1>7, <1>8, <1>9, <1>10, <1>11, <1>12, <1>13, <1>14, <1>15, <1>16, <1>17, <1>18, <1>19, <1>20, <1>21, <1>22, <1>23, <1>24, <1>25, <1>26, <1>27, <1>28, <1>29, <1>30
  DEF Next, System, Calls, MainThread, Background, RecorderExecutor, AudioRecorder, ToggleRecord
LEMMA TypeInvariance == Spec => []TypeOK
  BY InitType, StepType, PTL DEF Spec

-----------------------------------------------------------------------------
(* The lock canTranscribe.                                                 *)

BusyPoints == TranscribePoints \cup BenchmarkPoints

\* What the lock is about, job by job: nobody is inside before the model is
\* loaded, while it is free nobody is, and who is inside is alone there.
LockInv ==
  /\ loader # "done" => ~canTranscribe
  /\ loader # "done" \/ canTranscribe => \A j \in Jobs : pc[j] \notin BusyPoints
  /\ \A i, j \in Jobs : pc[i] \in BusyPoints /\ pc[j] \in BusyPoints => i = j
  /\ isProcessing <=> \E j \in Jobs : pc[j] \in TranscribePoints
  /\ loader = "done" /\ model # "failed" /\ ~canTranscribe
       => \E j \in Jobs : pc[j] \in BusyPoints

LEMMA InitLock == Init => LockInv
  BY DEF Init, LockInv, BusyPoints, TranscribePoints, BenchmarkPoints

\* A job that moves between points on the same side of the lock keeps it.
LEMMA MoveLock ==
  ASSUME TypeOK, LockInv, NEW j \in Jobs, NEW p, pc' = [pc EXCEPT ![j] = p],
         pc[j] \in TranscribePoints <=> p \in TranscribePoints,
         pc[j] \in BenchmarkPoints <=> p \in BenchmarkPoints,
         UNCHANGED <<canTranscribe, isProcessing, loader, model>>
  PROVE  LockInv'
<1>1. \A k \in Jobs : /\ pc'[k] \in TranscribePoints <=> pc[k] \in TranscribePoints
                      /\ pc'[k] \in BusyPoints <=> pc[k] \in BusyPoints
  BY DEF TypeOK, DataTypeOK, BusyPoints
<1>2. QED
  BY <1>1 DEF LockInv

LEMMA StayLock ==
  ASSUME LockInv, UNCHANGED <<pc, canTranscribe, isProcessing, loader, model>>
  PROVE  LockInv'
  BY DEF LockInv

LEMMA EnterLock ==
  ASSUME TypeOK, LockInv, NEW j \in Jobs, NEW p \in BusyPoints,
         pc' = [pc EXCEPT ![j] = p], canTranscribe, ~canTranscribe',
         isProcessing' <=> p \in TranscribePoints,
         UNCHANGED <<loader, model>>
  PROVE  LockInv'
<1>1. \A k \in Jobs : pc'[k] = IF k = j THEN p ELSE pc[k]
  BY DEF TypeOK, DataTypeOK
<1>2. \A k \in Jobs : pc'[k] \in BusyPoints <=> k = j
  BY <1>1 DEF LockInv
<1>3. isProcessing' <=> \E k \in Jobs : pc'[k] \in TranscribePoints
  BY <1>1 DEF LockInv, BusyPoints
<1>4. loader' = "done"
  BY DEF LockInv
<1>5. QED
  BY <1>2, <1>3, <1>4 DEF LockInv

LEMMA LeaveLock ==
  ASSUME TypeOK, LockInv, NEW j \in Jobs, pc[j] \in BusyPoints,
         pc' = [pc EXCEPT ![j] = "idle"], canTranscribe', ~isProcessing',
         UNCHANGED <<loader, model>>
  PROVE  LockInv'
<1>1. \A k \in Jobs : pc'[k] = IF k = j THEN "idle" ELSE pc[k]
  BY DEF TypeOK, DataTypeOK
<1>2. "idle" \notin BusyPoints
  BY DEF BusyPoints, TranscribePoints, BenchmarkPoints
<1>3. \A k \in Jobs : pc'[k] \notin BusyPoints
  BY <1>1, <1>2 DEF LockInv
<1>4. \A k \in Jobs : pc'[k] \notin TranscribePoints
  BY <1>3 DEF BusyPoints
<1>5. loader' = "done"
  BY DEF LockInv
<1>6. QED
  BY <1>3, <1>4, <1>5 DEF LockInv

LEMMA StepLock == TypeOK /\ LockInv /\ [Next]_vars => LockInv'
<1> SUFFICES ASSUME TypeOK, LockInv, [Next]_vars PROVE LockInv'
  OBVIOUS
<1>a. UNCHANGED viewVars => UNCHANGED <<canTranscribe, isProcessing>>
  BY DEF viewVars
<1>1. ASSUME NEW j \in Jobs, Decode(j) PROVE LockInv'
  BY <1>1, <1>a, MoveLock DEF Decode, Goto, Resume, Suspend, TranscribePoints, BenchmarkPoints
<1>2. ASSUME NEW j \in Jobs, Transcribe(j) PROVE LockInv'
  BY <1>2, <1>a, MoveLock DEF Transcribe, Goto, Resume, Suspend, TranscribePoints, BenchmarkPoints
<1>3. ASSUME NEW j \in Jobs, TranscribeData(j) PROVE LockInv'
  BY <1>3, <1>a, MoveLock DEF TranscribeData, Goto, Resume, Suspend, TranscribePoints, BenchmarkPoints
<1>4. ASSUME NEW j \in Jobs, SaveNote(j) PROVE LockInv'
  BY <1>4, <1>a, MoveLock DEF SaveNote, Goto, Resume, Suspend, TranscribePoints, BenchmarkPoints
<1>5. ASSUME NEW j \in Jobs, InsertNote(j) PROVE LockInv'
  BY <1>5, <1>a, MoveLock DEF InsertNote, Goto, Resume, Suspend, TranscribePoints, BenchmarkPoints
<1>6. ASSUME NEW j \in Jobs, ToggleStart(j) PROVE LockInv'
  BY <1>6, <1>a, MoveLock DEF ToggleStart, Goto, Resume, Suspend, TranscribePoints, BenchmarkPoints
<1>7. ASSUME NEW j \in Jobs, ClearNote(j) PROVE LockInv'
  BY <1>7, <1>a, MoveLock DEF ClearNote, Goto, Resume, Suspend, TranscribePoints, BenchmarkPoints
<1>8. ASSUME NEW j \in Jobs, NEW f \in Files, GetTempFileForRecording(j, f) PROVE LockInv'
  BY <1>8, <1>a, MoveLock DEF GetTempFileForRecording, Goto, Resume, Suspend, TranscribePoints, BenchmarkPoints
<1>9. ASSUME NEW j \in Jobs, BeginRecording(j) PROVE LockInv'
  BY <1>9, <1>a, MoveLock DEF BeginRecording, Goto, Resume, Suspend, TranscribePoints, BenchmarkPoints
<1>10. ASSUME NEW j \in Jobs, NEW t \in Threads, StartThread(j, t) PROVE LockInv'
  BY <1>10, <1>a, MoveLock DEF StartThread, Goto, Resume, Suspend, TranscribePoints, BenchmarkPoints
<1>11. ASSUME NEW j \in Jobs, ToggleStop(j) PROVE LockInv'
  BY <1>11, <1>a, MoveLock DEF ToggleStop, Goto, Resume, Suspend, TranscribePoints, BenchmarkPoints
<1>12. ASSUME NEW j \in Jobs, StopReturns(j) PROVE LockInv'
  BY <1>12, <1>a, MoveLock DEF StopReturns, Goto, Resume, Suspend, TranscribePoints, BenchmarkPoints
<1>13. ASSUME NEW j \in Jobs, NEW f \in Files, DeleteNote(j, f) PROVE LockInv'
  BY <1>13, <1>a, MoveLock DEF DeleteNote, Goto, Resume, Suspend, TranscribePoints, BenchmarkPoints
<1>14. ASSUME NEW j \in Jobs, NoteDeleted(j) PROVE LockInv'
  BY <1>14, <1>a, MoveLock DEF NoteDeleted, Goto, Resume, Suspend, TranscribePoints, BenchmarkPoints
<1>15. ASSUME NEW j \in Jobs, BenchMemory(j) PROVE LockInv'
  BY <1>15, <1>a, MoveLock DEF BenchMemory, Goto, Resume, Suspend, TranscribePoints, BenchmarkPoints
<1>16. ASSUME NEW j \in Jobs, StopThread(j) PROVE LockInv'
  BY <1>16, <1>a, StayLock DEF StopThread, jobVars
<1>17. ASSUME NEW t \in Threads, ThreadReads(t) PROVE LockInv'
  BY <1>17, <1>a, StayLock DEF ThreadReads, jobVars
<1>18. ASSUME NEW t \in Threads, ThreadQuits(t) PROVE LockInv'
  BY <1>18, <1>a, StayLock DEF ThreadQuits, jobVars
<1>19. ASSUME NEW t \in Threads, ThreadEncodes(t) PROVE LockInv'
  BY <1>19, <1>a, StayLock DEF ThreadEncodes, jobVars
<1>20. ASSUME NEW t \in Threads, ThreadFails(t) PROVE LockInv'
  BY <1>20, <1>a, StayLock DEF ThreadFails, jobVars
<1>21. ASSUME NEW t \in Threads, LaunchError(t) PROVE LockInv'
  BY <1>21, <1>a, StayLock DEF LaunchError, jobVars
<1>22. ASSUME NEW t \in Threads, OnError(t) PROVE LockInv'
  BY <1>22, <1>a, StayLock DEF OnError, jobVars
<1>23. CASE LoadBaseModel
  BY <1>23, <1>a DEF LoadBaseModel, LockInv
<1>24. CASE DataLoaded
  BY <1>24 DEF DataLoaded, LockInv, BusyPoints
<1>25. ASSUME NEW j \in Jobs, TranscribeReturns(j) PROVE LockInv'
  BY <1>25, LeaveLock DEF TranscribeReturns, Suspend, Goto, BusyPoints, TranscribePoints, BenchmarkPoints
<1>26. ASSUME NEW j \in Jobs, BenchmarkReturns(j) PROVE LockInv'
  <2>1. pc[j] \in BusyPoints /\ ~isProcessing'
    BY <1>26 DEF BenchmarkReturns, LockInv, BusyPoints, TranscribePoints, BenchmarkPoints
  <2>2. QED
    BY <1>26, <2>1, LeaveLock DEF BenchmarkReturns, Suspend, Goto
<1>27. ASSUME NEW j \in Jobs, Benchmark(j) PROVE LockInv'
  <2>1. "benching" \in BusyPoints /\ "benching" \notin TranscribePoints /\ ~isProcessing
    BY <1>27 DEF Benchmark, LockInv, BusyPoints, TranscribePoints, BenchmarkPoints
  <2>2. QED
    BY <1>27, <2>1, EnterLock DEF Benchmark, Goto
<1>28. ASSUME NEW j \in Jobs, RecordingStopped(j) PROVE LockInv'
  <2>1. CASE canTranscribe
    <3>1. "reading" \in BusyPoints /\ "reading" \in TranscribePoints
      BY DEF BusyPoints, TranscribePoints, BenchmarkPoints
    <3>2. QED
      BY <1>28, <2>1, <3>1, EnterLock DEF RecordingStopped, EnterTranscribe, Suspend, Goto
  <2>2. CASE ~canTranscribe
    BY <1>28, <2>2, MoveLock, StayLock DEF RecordingStopped, Suspend, Goto, TranscribePoints, BenchmarkPoints
  <2>3. QED
    BY <2>1, <2>2
<1>29. ASSUME NEW j \in Jobs, NEW f \in Files, TranscribeFile(j, f) PROVE LockInv'
  <2>1. CASE canTranscribe
    <3>1. "reading" \in BusyPoints /\ "reading" \in TranscribePoints
      BY DEF BusyPoints, TranscribePoints, BenchmarkPoints
    <3>2. QED
      BY <1>29, <2>1, <3>1, EnterLock DEF TranscribeFile, EnterTranscribe, Suspend, Goto
  <2>2. CASE ~canTranscribe
    BY <1>29, <2>2, MoveLock, StayLock DEF TranscribeFile, Suspend, Goto, TranscribePoints, BenchmarkPoints
  <2>3. QED
    BY <2>1, <2>2
<1>30. CASE UNCHANGED vars
  BY <1>30, StayLock DEF vars, viewVars, jobVars
<1>31. QED
  BY <1>1, <1>2, <1>3, <1>4, <1>5, <1>6, <1>7, <1>8, <1>9, <1>10, <1>11, <1>12, <1>13, <1>14, <1>15, <1>16, <1>17, <1>18, <1>19, <1>20, <1>21, <1>22, <1>23, <1>24, <1>25, <1>26, <1>27, <1>28, <1>29, <1>30
  DEF Next, System, Calls, MainThread, Background, RecorderExecutor, AudioRecorder, ToggleRecord

LEMMA LockInvariance == Spec => []LockInv
  BY InitLock, StepLock, TypeInvariance, PTL DEF Spec

-----------------------------------------------------------------------------
(* The main thread's queue.                                                *)

\* The points at which a job waits in mainQ for its turn.
WaitPoints == {"clearing", "named", "stopped", "joined", "decoded", "heard", "blank", "failed",
               "saved", "unsaved", "benched"}

Waits(x) ==
  \/ x \in Jobs /\ pc[x] \in WaitPoints
  \/ x \in Threads /\ err[x] # "none"
  \/ x = Loader /\ loader = "loaded"

Members == Jobs \cup Threads \cup {Loader}

Queued(x) == \E a \in DOMAIN mainQ : mainQ[a] = x

\* Nobody is in the queue twice, and in it are those who wait for their turn.
QueueInv ==
  /\ \A a, b \in DOMAIN mainQ : mainQ[a] = mainQ[b] => a = b
  /\ \A x \in Members : Waits(x) <=> Queued(x)

LEMMA Enqueue ==
  ASSUME mainQ \in Seq(Members), QueueInv, NEW x \in Members, ~Waits(x), Waits(x)',
         \A y \in Members \ {x} : Waits(y)' <=> Waits(y),
         mainQ' = Append(mainQ, x)
  PROVE  QueueInv'
<1>1. /\ DOMAIN mainQ = 1..Len(mainQ) /\ DOMAIN mainQ' = 1..(Len(mainQ) + 1)
      /\ Len(mainQ) \in Nat
      /\ \A a \in 1..Len(mainQ) : mainQ'[a] = mainQ[a]
      /\ mainQ'[Len(mainQ) + 1] = x
  OBVIOUS
<1>2. \A a \in DOMAIN mainQ : mainQ[a] # x
  BY DEF QueueInv, Queued
<1>3. \A a, b \in DOMAIN mainQ' : mainQ'[a] = mainQ'[b] => a = b
  BY <1>1, <1>2 DEF QueueInv
<1>4. \A y \in Members : Queued(y)' <=> Queued(y) \/ y = x
  BY <1>1 DEF Queued
<1>5. QED
  BY <1>3, <1>4 DEF QueueInv

LEMMA TailFacts ==
  ASSUME NEW S, NEW q \in Seq(S), q # <<>>
  PROVE  /\ Len(q) \in Nat \ {0} /\ DOMAIN q = 1..Len(q)
         /\ DOMAIN Tail(q) = 1..(Len(q) - 1)
         /\ \A a \in 1..(Len(q) - 1) : Tail(q)[a] = q[a + 1]
         /\ Head(q) = q[1]
  OBVIOUS

LEMMA Dequeue ==
  ASSUME mainQ \in Seq(Members), QueueInv, NEW x \in Members, Turn(x), ~Waits(x)',
         \A y \in Members \ {x} : Waits(y)' <=> Waits(y),
         mainQ' = Tail(mainQ)
  PROVE  QueueInv'
<1>1. /\ DOMAIN mainQ = 1..Len(mainQ) /\ DOMAIN mainQ' = 1..(Len(mainQ) - 1)
      /\ Len(mainQ) \in Nat \ {0}
      /\ \A a \in 1..(Len(mainQ) - 1) : mainQ'[a] = mainQ[a + 1]
      /\ mainQ[1] = x
  BY TailFacts DEF Turn
<1>2. \A a, b \in DOMAIN mainQ' : mainQ'[a] = mainQ'[b] => a = b
  <2>1. SUFFICES ASSUME NEW a \in DOMAIN mainQ', NEW b \in DOMAIN mainQ', mainQ'[a] = mainQ'[b]
                 PROVE  a = b
    OBVIOUS
  <2>2. a + 1 \in DOMAIN mainQ /\ b + 1 \in DOMAIN mainQ /\ mainQ[a + 1] = mainQ[b + 1]
    BY <1>1, <2>1
  <2>3. a + 1 = b + 1
    BY <2>2 DEF QueueInv
  <2>4. QED
    BY <1>1, <2>3
<1>3. ASSUME NEW y \in Members PROVE Queued(y)' <=> Queued(y) /\ y # x
  <2>1. ASSUME Queued(y)' PROVE Queued(y) /\ y # x
    <3>1. PICK a \in DOMAIN mainQ' : mainQ'[a] = y
      BY <2>1 DEF Queued
    <3>2. a + 1 \in DOMAIN mainQ /\ 1 \in DOMAIN mainQ /\ a + 1 # 1 /\ mainQ[a + 1] = y
      BY <1>1, <3>1
    <3>3. QED
      BY <1>1, <3>2 DEF QueueInv, Queued
  <2>2. ASSUME Queued(y), y # x PROVE Queued(y)'
    <3>1. PICK a \in DOMAIN mainQ : mainQ[a] = y
      BY <2>2 DEF Queued
    <3>2. a - 1 \in DOMAIN mainQ' /\ mainQ'[a - 1] = y
      BY <1>1, <2>2, <3>1
    <3>3. QED
      BY <3>2 DEF Queued
  <2>3. QED
    BY <2>1, <2>2
<1>4. QED
  BY <1>2, <1>3 DEF QueueInv

\* Who gives up its turn to wait for another one.
LEMMA Requeue ==
  ASSUME mainQ \in Seq(Members), QueueInv, NEW x \in Members, Turn(x),
         \A y \in Members : Waits(y)' <=> Waits(y),
         mainQ' = Append(Tail(mainQ), x)
  PROVE  QueueInv'
<1> DEFINE n == Len(mainQ)
<1>1. /\ DOMAIN mainQ = 1..n /\ n \in Nat \ {0}
      /\ mainQ[1] = x
      /\ DOMAIN Tail(mainQ) = 1..(n - 1)
      /\ \A a \in 1..(n - 1) : Tail(mainQ)[a] = mainQ[a + 1]
      /\ Tail(mainQ) \in Seq(Members)
  BY TailFacts, HeadTail DEF Turn
<1>2. /\ DOMAIN mainQ' = 1..n
      /\ \A a \in 1..(n - 1) : mainQ'[a] = mainQ[a + 1]
      /\ mainQ'[n] = mainQ[1]
  <2>1. Len(Tail(mainQ)) = n - 1
    BY <1>1
  <2>2. QED
    BY <1>1, <2>1
<1> HIDE DEF n
<1>3. \A a \in 1..n : /\ (IF a = n THEN 1 ELSE a + 1) \in 1..n
                      /\ mainQ'[a] = mainQ[IF a = n THEN 1 ELSE a + 1]
  BY <1>1, <1>2
<1>4. \A a, b \in DOMAIN mainQ' : mainQ'[a] = mainQ'[b] => a = b
  <2>1. SUFFICES ASSUME NEW a \in 1..n, NEW b \in 1..n, mainQ'[a] = mainQ'[b] PROVE a = b
    BY <1>2
  <2>2. (IF a = n THEN 1 ELSE a + 1) = (IF b = n THEN 1 ELSE b + 1)
    BY <1>1, <1>3, <2>1 DEF QueueInv
  <2>3. QED
    BY <1>1, <2>2
<1>5. \A a \in 1..n : /\ (IF a = 1 THEN n ELSE a - 1) \in 1..n
                      /\ mainQ[a] = mainQ'[IF a = 1 THEN n ELSE a - 1]
  BY <1>1, <1>2
<1>6. ASSUME NEW y \in Members PROVE Queued(y)' <=> Queued(y)
  <2>1. ASSUME Queued(y)' PROVE Queued(y)
    <3>1. PICK a \in 1..n : mainQ'[a] = y
      BY <1>2, <2>1 DEF Queued
    <3>2. QED
      BY <1>1, <1>3, <3>1 DEF Queued
  <2>2. ASSUME Queued(y) PROVE Queued(y)'
    <3>1. PICK a \in 1..n : mainQ[a] = y
      BY <1>1, <2>2 DEF Queued
    <3>2. QED
      BY <1>2, <1>5, <3>1 DEF Queued
  <2>3. QED
    BY <2>1, <2>2
<1>7. QED
  BY <1>4, <1>6 DEF QueueInv

LEMMA MembersApart ==
  /\ \A j \in Jobs : j \in Members /\ j \notin Threads /\ j # Loader
  /\ \A t \in Threads : t \in Members /\ t # Loader
  /\ Loader \in Members
  BY ViewModelAssumption DEF Members

LEMMA ResumeQueue ==
  ASSUME TypeOK, QueueInv, NEW j \in Jobs, NEW p \in WaitPoints, pc[j] \notin WaitPoints,
         Resume(j, p), UNCHANGED <<err, loader>>
  PROVE  QueueInv'
<1>1. \A k \in Jobs : pc'[k] = IF k = j THEN p ELSE pc[k]
  BY DEF Resume, Goto, TypeOK, DataTypeOK
<1>2. ~Waits(j) /\ Waits(j)' /\ \A y \in Members \ {j} : Waits(y)' <=> Waits(y)
  BY <1>1, MembersApart DEF Waits
<1>3. QED
  BY <1>2, MembersApart, Enqueue DEF Resume, TypeOK, DataTypeOK, Members

LEMMA SuspendQueue ==
  ASSUME TypeOK, QueueInv, NEW j \in Jobs, NEW p, p \notin WaitPoints,
         Turn(j), Suspend(j, p), UNCHANGED <<err, loader>>
  PROVE  QueueInv'
<1>1. \A k \in Jobs : pc'[k] = IF k = j THEN p ELSE pc[k]
  BY DEF Suspend, Goto, TypeOK, DataTypeOK
<1>2. ~Waits(j)' /\ \A y \in Members \ {j} : Waits(y)' <=> Waits(y)
  BY <1>1, MembersApart DEF Waits
<1>3. QED
  BY <1>2, MembersApart, Dequeue DEF Suspend, TypeOK, DataTypeOK, Members

LEMMA GotoQueue ==
  ASSUME TypeOK, QueueInv, NEW j \in Jobs, NEW p, p \notin WaitPoints, pc[j] \notin WaitPoints,
         Goto(j, p), UNCHANGED <<mainQ, err, loader>>
  PROVE  QueueInv'
<1>1. \A k \in Jobs : pc'[k] = IF k = j THEN p ELSE pc[k]
  BY DEF Goto, TypeOK, DataTypeOK
<1>2. \A y \in Members : Waits(y)' <=> Waits(y)
  BY <1>1 DEF Waits
<1>3. QED
  BY <1>2 DEF QueueInv, Queued

LEMMA StayQueue ==
  ASSUME QueueInv, UNCHANGED <<pc, mainQ, err, loader>>
  PROVE  QueueInv'
  BY DEF QueueInv, Queued, Waits

\* A thread whose onError callback is under way has ended.
ErrorInv == \A t \in Threads : Alive(t) => err[t] = "none"

LEMMA StepError == TypeOK /\ ErrorInv /\ [Next]_vars => ErrorInv'
<1> SUFFICES ASSUME TypeOK, ErrorInv, [Next]_vars PROVE ErrorInv'
  OBVIOUS
<1>1. CASE UNCHANGED <<phase, err>>
  BY <1>1 DEF ErrorInv, Alive
<1>2. ASSUME NEW j \in Jobs, NEW t \in Threads, StartThread(j, t) PROVE ErrorInv'
  BY <1>2 DEF StartThread, StartRecording, ErrorInv, Alive, TypeOK, RecorderTypeOK
<1>3. ASSUME NEW t \in Threads, ThreadQuits(t) \/ ThreadEncodes(t) PROVE ErrorInv'
  BY <1>3 DEF ThreadQuits, ThreadEncodes, BeginEncode, Encode, ErrorInv, Alive, TypeOK, RecorderTypeOK
<1>4. ASSUME NEW t \in Threads, ThreadFails(t) PROVE ErrorInv'
  BY <1>4 DEF ThreadFails, Fail, ErrorInv, Alive, TypeOK, RecorderTypeOK, DataTypeOK
<1>5. ASSUME NEW t \in Threads, LaunchError(t) \/ OnError(t) PROVE ErrorInv'
  BY <1>5 DEF LaunchError, OnError, recorderVars, ErrorInv, Alive, TypeOK, DataTypeOK
<1>6. ASSUME NEW j \in Jobs,
             \/ Decode(j) \/ Transcribe(j) \/ TranscribeData(j) \/ SaveNote(j) \/ InsertNote(j)
             \/ TranscribeReturns(j) \/ ToggleStart(j) \/ ClearNote(j)
             \/ \E f \in Files : GetTempFileForRecording(j, f) \/ DeleteNote(j, f)
      PROVE  UNCHANGED <<phase, err>>
  BY <1>6 DEF Decode, Transcribe, TranscribeData, SaveNote, InsertNote, TranscribeReturns,
     ToggleStart, ClearNote, GetTempFileForRecording, DeleteNote, recorderVars
<1>7. ASSUME NEW j \in Jobs,
             \/ BeginRecording(j) \/ ToggleStop(j) \/ StopThread(j) \/ StopReturns(j)
             \/ RecordingStopped(j) \/ NoteDeleted(j) \/ Benchmark(j) \/ BenchMemory(j)
             \/ BenchmarkReturns(j) \/ \E f \in Files : TranscribeFile(j, f)
      PROVE  UNCHANGED <<phase, err>>
  BY <1>7 DEF BeginRecording, ToggleStop, StopThread, StopRecording, StopReturns, StopNothing,
     Joined, RecordingStopped, NoteDeleted, Benchmark, BenchMemory, BenchmarkReturns,
     TranscribeFile, recorderVars
<1>8. ASSUME LoadBaseModel \/ DataLoaded \/ (\E t \in Threads : ThreadReads(t)) \/ UNCHANGED vars
      PROVE  UNCHANGED <<phase, err>>
  BY <1>8 DEF LoadBaseModel, DataLoaded, ThreadReads, ReadSamples, vars, recorderVars
<1>9. QED
  BY <1>1, <1>2, <1>3, <1>4, <1>5, <1>6, <1>7, <1>8
  DEF Next, System, Calls, MainThread, Background, RecorderExecutor, AudioRecorder, ToggleRecord

LEMMA InitQueue == Init => ErrorInv /\ QueueInv
<1> SUFFICES ASSUME Init PROVE ErrorInv /\ QueueInv
  OBVIOUS
<1>1. mainQ = <<>> /\ DOMAIN mainQ = {}
  BY DEF Init
<1>2. \A x \in Members : ~Waits(x)
  BY DEF Init, Waits, WaitPoints
<1>3. ErrorInv
  BY DEF Init, ErrorInv
<1>4. QED
  BY <1>1, <1>2, <1>3 DEF QueueInv, Queued

LEMMA StepQueue == TypeOK /\ ErrorInv /\ QueueInv /\ [Next]_vars => QueueInv'
<1> SUFFICES ASSUME TypeOK, ErrorInv, QueueInv, [Next]_vars PROVE QueueInv'
  OBVIOUS
<1>0. mainQ \in Seq(Members) /\ err \in [Threads -> {"none", "launch", "set"}]
  BY DEF TypeOK, DataTypeOK, Members
<1>1. ASSUME NEW j \in Jobs, Decode(j) PROVE QueueInv'
  BY <1>1, ResumeQueue DEF Decode, WaitPoints
<1>2. ASSUME NEW j \in Jobs, TranscribeData(j) PROVE QueueInv'
  BY <1>2, ResumeQueue DEF TranscribeData, WaitPoints
<1>3. ASSUME NEW j \in Jobs, InsertNote(j) PROVE QueueInv'
  BY <1>3, ResumeQueue DEF InsertNote, WaitPoints
<1>4. ASSUME NEW j \in Jobs, ToggleStart(j) PROVE QueueInv'
  BY <1>4, ResumeQueue DEF ToggleStart, WaitPoints
<1>5. ASSUME NEW j \in Jobs, StopReturns(j) PROVE QueueInv'
  BY <1>5, ResumeQueue DEF StopReturns, WaitPoints
<1>6. ASSUME NEW j \in Jobs, BenchMemory(j) PROVE QueueInv'
  BY <1>6, ResumeQueue DEF BenchMemory, WaitPoints
<1>7. ASSUME NEW j \in Jobs, NEW f \in Files, GetTempFileForRecording(j, f) PROVE QueueInv'
  BY <1>7, ResumeQueue DEF GetTempFileForRecording, WaitPoints
<1>8. ASSUME NEW j \in Jobs, Transcribe(j) PROVE QueueInv'
  BY <1>8, SuspendQueue DEF Transcribe, WaitPoints
<1>9. ASSUME NEW j \in Jobs, SaveNote(j) PROVE QueueInv'
  BY <1>9, SuspendQueue DEF SaveNote, WaitPoints
<1>10. ASSUME NEW j \in Jobs, TranscribeReturns(j) PROVE QueueInv'
  BY <1>10, SuspendQueue DEF TranscribeReturns, WaitPoints
<1>11. ASSUME NEW j \in Jobs, ClearNote(j) PROVE QueueInv'
  BY <1>11, SuspendQueue DEF ClearNote, WaitPoints
<1>12. ASSUME NEW j \in Jobs, BeginRecording(j) PROVE QueueInv'
  BY <1>12, SuspendQueue DEF BeginRecording, WaitPoints
<1>13. ASSUME NEW j \in Jobs, RecordingStopped(j) PROVE QueueInv'
  BY <1>13, SuspendQueue DEF RecordingStopped, WaitPoints
<1>14. ASSUME NEW j \in Jobs, BenchmarkReturns(j) PROVE QueueInv'
  BY <1>14, SuspendQueue DEF BenchmarkReturns, WaitPoints
<1>15. ASSUME NEW j \in Jobs, NEW t \in Threads, StartThread(j, t) PROVE QueueInv'
  BY <1>15, GotoQueue DEF StartThread, WaitPoints
<1>16. ASSUME NEW j \in Jobs, ToggleStop(j) PROVE QueueInv'
  BY <1>16, GotoQueue DEF ToggleStop, WaitPoints
<1>17. ASSUME NEW j \in Jobs, NEW f \in Files, DeleteNote(j, f) PROVE QueueInv'
  BY <1>17, GotoQueue DEF DeleteNote, WaitPoints
<1>18. ASSUME NEW j \in Jobs, NoteDeleted(j) PROVE QueueInv'
  BY <1>18, GotoQueue DEF NoteDeleted, WaitPoints
<1>19. ASSUME NEW j \in Jobs, Benchmark(j) PROVE QueueInv'
  BY <1>19, GotoQueue DEF Benchmark, WaitPoints
<1>20. ASSUME NEW j \in Jobs, NEW f \in Files, TranscribeFile(j, f) PROVE QueueInv'
  BY <1>20, GotoQueue, StayQueue DEF TranscribeFile, WaitPoints
<1>21. ASSUME NEW j \in Jobs, StopThread(j) PROVE QueueInv'
  BY <1>21, StayQueue DEF StopThread, jobVars
<1>22. ASSUME NEW t \in Threads, ThreadReads(t) PROVE QueueInv'
  BY <1>22, StayQueue DEF ThreadReads, jobVars
<1>23. ASSUME NEW t \in Threads, ThreadQuits(t) PROVE QueueInv'
  BY <1>23, StayQueue DEF ThreadQuits, jobVars
<1>24. ASSUME NEW t \in Threads, ThreadEncodes(t) PROVE QueueInv'
  BY <1>24, StayQueue DEF ThreadEncodes, jobVars
<1>25. ASSUME NEW t \in Threads, ThreadFails(t) PROVE QueueInv'
  <2>1. err[t] = "none"
    BY <1>25 DEF ThreadFails, Fail, ErrorInv
  <2>2. err'[t] = "launch" /\ \A s \in Threads \ {t} : err'[s] = err[s]
    BY <1>25, <1>0 DEF ThreadFails
  <2>3. ~Waits(t) /\ Waits(t)' /\ \A y \in Members \ {t} : Waits(y)' <=> Waits(y)
    BY <1>25, <2>1, <2>2, MembersApart DEF ThreadFails, Waits
  <2>4. QED
    BY <1>25, <1>0, <2>3, MembersApart, Enqueue DEF ThreadFails
<1>26. ASSUME NEW t \in Threads, LaunchError(t) PROVE QueueInv'
  <2>1. \A s \in Threads : err'[s] = "none" <=> err[s] = "none"
    BY <1>26, <1>0 DEF LaunchError
  <2>2. \A y \in Members : Waits(y)' <=> Waits(y)
    BY <1>26, <2>1 DEF LaunchError, Waits
  <2>3. QED
    BY <1>26, <1>0, <2>2, MembersApart, Requeue DEF LaunchError
<1>27. ASSUME NEW t \in Threads, OnError(t) PROVE QueueInv'
  <2>1. err'[t] = "none" /\ \A s \in Threads \ {t} : err'[s] = err[s]
    BY <1>27, <1>0 DEF OnError
  <2>2. ~Waits(t)' /\ \A y \in Members \ {t} : Waits(y)' <=> Waits(y)
    BY <1>27, <2>1, MembersApart DEF OnError, Waits
  <2>3. QED
    BY <1>27, <1>0, <2>2, MembersApart, Dequeue DEF OnError
<1>28. CASE LoadBaseModel
  <2>1. ~Waits(Loader) /\ Waits(Loader)' /\ \A y \in Members \ {Loader} : Waits(y)' <=> Waits(y)
    BY <1>28, MembersApart DEF LoadBaseModel, Waits
  <2>2. QED
    BY <1>28, <1>0, <2>1, MembersApart, Enqueue DEF LoadBaseModel
<1>29. CASE DataLoaded
  <2>1. ~Waits(Loader)' /\ \A y \in Members \ {Loader} : Waits(y)' <=> Waits(y)
    BY <1>29, MembersApart DEF DataLoaded, Waits
  <2>2. QED
    BY <1>29, <1>0, <2>1, MembersApart, Dequeue DEF DataLoaded
<1>30. CASE UNCHANGED vars
  BY <1>30, StayQueue DEF vars, jobVars
<1>31. QED
  BY <1>1, <1>2, <1>3, <1>4, <1>5, <1>6, <1>7, <1>8, <1>9, <1>10, <1>11, <1>12, <1>13, <1>14, <1>15, <1>16, <1>17, <1>18, <1>19, <1>20, <1>21, <1>22, <1>23, <1>24, <1>25, <1>26, <1>27, <1>28, <1>29, <1>30
  DEF Next, System, Calls, MainThread, Background, RecorderExecutor, AudioRecorder, ToggleRecord

LEMMA QueueInvariance == Spec => []QueueInv
<1>1. Spec => []ErrorInv
  BY InitQueue, StepError, TypeInvariance, PTL DEF Spec
<1>2. QED
  BY <1>1, InitQueue, StepQueue, TypeInvariance, PTL DEF Spec

-----------------------------------------------------------------------------
(* The theorems.                                                           *)

\* The variables of the view model and of the recorder keep their types.
THEOREM TypeCorrect == Spec => []TypeOK
  BY TypeInvariance

\* canTranscribe excludes: whatever is called when, one job at most is inside
\* transcribeAudio or runBenchmark, and isProcessing says whether one is.
THEOREM TranscribesOneAtATime == Spec => []TranscriberExclusive
<1>1. LockInv => TranscriberExclusive
  BY DEF LockInv, TranscriberExclusive, Busy, At, BusyPoints
<1>2. QED
  BY <1>1, LockInvariance, PTL

\* canTranscribe is never lost: when nobody is inside, and the model was not
\* refused, Record and Select File are enabled.
THEOREM NeverLocksOut == Spec => []TranscriberAvailable
<1>1. LockInv => TranscriberAvailable
  BY DEF LockInv, TranscriberAvailable, Busy, At, BusyPoints
<1>2. QED
  BY <1>1, LockInvariance, PTL

\* The main thread's queue holds the coroutines and callbacks that wait for it,
\* each of them once and nobody else: none is lost, and none runs on twice.
THEOREM OneTurnEach == Spec => []QueueInv
  BY QueueInvariance
=============================================================================
