------------------------ MODULE MainScreenViewModel ------------------------
(***************************************************************************)
(* MainScreenViewModel.kt over Recorder.kt.  Every operation of the view   *)
(* model is a coroutine on the main thread, a job here: it runs there from *)
(* one suspension to the next, and leaves for the recorder's executor, the *)
(* IO dispatcher or the whisper executor in between.  A job, or an         *)
(* onError callback, that continues on the main thread waits in mainQ.     *)
(* Any operation may be called whenever a job is free: which calls the     *)
(* screens allow is MainActivity's part.                                   *)
(***************************************************************************)
EXTENDS Recorder, FiniteSets

CONSTANT Loader   \* the coroutine of init {}

ASSUME ViewModelAssumption ==
  /\ Loader \notin Jobs \cup Threads
  /\ Jobs \cap Threads = {}

VARIABLES
  loader,           \* where the coroutine of init is: "loading", "loaded", "done"
  model,            \* whisperContext: "absent", "present", or "failed" to open
  canTranscribe, isRecording, isProcessing,
  transcribedNote,  \* the note (named by its file) to show, or NoFile
  recordedFile,
  pc,               \* pc[j]: where job j is, or "idle"
  jfile,            \* jfile[j]: the file job j works on
  mainQ,            \* who continues on the main thread, in turn
  err,              \* err[t]: where t's onError is, or "none"
  notes,            \* notes[f]: rows of the notes table whose audio is f
  named             \* files created or named so far

viewVars == <<canTranscribe, isRecording, isProcessing, transcribedNote, recordedFile>>
jobVars == <<pc, jfile, mainQ>>
vars == <<recorderVars, viewVars, jobVars, loader, model, err, notes, named>>

\* The points of toggleRecord that start a recording, and that end one.
StartPoints == {"clearing", "naming", "named", "starting"}
StopPoints == {"stopping", "stopped", "joined"}
\* The points inside transcribeAudio.
TranscribePoints == {"reading", "decoded", "inferring", "heard", "blank",
                     "failed", "saving", "saved", "unsaved"}
BenchmarkPoints == {"benching", "benched"}
JobPoints == {"idle", "deleting"} \cup StartPoints \cup StopPoints
             \cup TranscribePoints \cup BenchmarkPoints

Init ==
  /\ RecorderInit
  /\ loader = "loading" /\ model = "absent"
  /\ canTranscribe = FALSE /\ isRecording = FALSE /\ isProcessing = FALSE
  /\ transcribedNote = NoFile /\ recordedFile = NoFile
  /\ pc = [j \in Jobs |-> "idle"]
  /\ jfile = [j \in Jobs |-> NoFile]
  /\ mainQ = <<>>
  /\ err = [t \in Threads |-> "none"]
  /\ notes = [f \in Files |-> 0]
  /\ named = {}

At(P) == {j \in Jobs : pc[j] \in P}

\* x is next on the main thread.
Turn(x) == mainQ # <<>> /\ Head(mainQ) = x

Goto(j, p) == pc' = [pc EXCEPT ![j] = p]

\* Job j, off the main thread, is resumed there at p.
Resume(j, p) == Goto(j, p) /\ mainQ' = Append(mainQ, j)

\* Job j, on the main thread, leaves it at p.
Suspend(j, p) == Goto(j, p) /\ mainQ' = Tail(mainQ)

\* Bounds: a path for every recording, a thread for every one begun.
FreeThreads == {t \in Threads : ~Alive(t) /\ t # recorder /\ err[t] = "none"}
RoomForFile == Cardinality(Files \ named) > Cardinality(At({"clearing", "naming"}))
RoomForThread == Cardinality(FreeThreads) > Cardinality(At(StartPoints))

-----------------------------------------------------------------------------
(* init: loadData.                                                         *)

\* loadBaseModel: a .bin asset is opened, there is none, or opening it throws.
LoadBaseModel ==
  /\ loader = "loading"
  /\ loader' = "loaded"
  /\ model' \in {"present", "absent", "failed"}
  /\ mainQ' = Append(mainQ, Loader)
  /\ UNCHANGED <<recorderVars, viewVars, pc, jfile, err, notes, named>>

DataLoaded ==
  /\ Turn(Loader) /\ loader = "loaded"
  /\ loader' = "done"
  /\ canTranscribe' = (model # "failed")
  /\ mainQ' = Tail(mainQ)
  /\ UNCHANGED <<recorderVars, isRecording, isProcessing, transcribedNote,
                 recordedFile, pc, jfile, model, err, notes, named>>

-----------------------------------------------------------------------------
(* transcribeAudio, entered on the main thread by the job that calls it.   *)

EnterTranscribe(j, f) ==
  /\ canTranscribe' = FALSE
  /\ isProcessing' = TRUE
  /\ jfile' = [jfile EXCEPT ![j] = f]

\* readAudioSamples: what was written of a partial file may decode or not.
Decode(j) ==
  /\ pc[j] = "reading"
  /\ \/ disk[jfile[j]] # "absent" /\ Resume(j, "decoded")
     \/ disk[jfile[j]] # "complete" /\ Resume(j, "failed")
  /\ UNCHANGED <<recorderVars, viewVars, jfile, loader, model, err, notes, named>>

\* whisperContext?.transcribeData(data).
Transcribe(j) ==
  /\ Turn(j) /\ pc[j] = "decoded" /\ model = "present"
  /\ Suspend(j, "inferring")
  /\ UNCHANGED <<recorderVars, viewVars, jfile, loader, model, err, notes, named>>

TranscribeData(j) ==
  /\ pc[j] = "inferring"
  /\ \E p \in {"heard", "blank", "failed"} : Resume(j, p)
  /\ UNCHANGED <<recorderVars, viewVars, jfile, loader, model, err, notes, named>>

SaveNote(j) ==
  /\ Turn(j) /\ pc[j] = "heard"
  /\ Suspend(j, "saving")
  /\ UNCHANGED <<recorderVars, viewVars, jfile, loader, model, err, notes, named>>

\* noteDao.insertNote, or the exception saveNote turns into null.
InsertNote(j) ==
  /\ pc[j] = "saving"
  /\ \/ /\ notes' = [notes EXCEPT ![jfile[j]] = @ + 1]
        /\ Resume(j, "saved")
     \/ /\ Resume(j, "unsaved")
        /\ UNCHANGED notes
  /\ UNCHANGED <<recorderVars, viewVars, jfile, loader, model, err, named>>

Result(j) ==
  CASE pc[j] = "saved"   -> jfile[j]
    [] pc[j] = "unsaved" -> NoFile
    [] OTHER             -> transcribedNote

\* Mutant of TranscribeReturns: an exception skips the two last assignments.
TranscribeReturnsAbruptly(j) ==
  /\ Turn(j)
  /\ \/ pc[j] \in {"blank", "failed", "saved", "unsaved"}
     \/ pc[j] = "decoded" /\ model # "present"
  /\ transcribedNote' = Result(j)
  /\ canTranscribe' = (canTranscribe \/ pc[j] # "failed")
  /\ isProcessing' = (isProcessing /\ pc[j] = "failed")
  /\ jfile' = [jfile EXCEPT ![j] = NoFile]
  /\ Suspend(j, "idle")
  /\ UNCHANGED <<recorderVars, isRecording, recordedFile, loader, model, err, notes, named>>

\* transcribeAudio has its result, its exception or no model; it returns.
TranscribeReturns(j) ==
  /\ Turn(j)
  /\ \/ pc[j] \in {"blank", "failed", "saved", "unsaved"}
     \/ pc[j] = "decoded" /\ model # "present"
  /\ transcribedNote' = Result(j)
  /\ canTranscribe' = TRUE
  /\ isProcessing' = FALSE
  /\ jfile' = [jfile EXCEPT ![j] = NoFile]
  /\ Suspend(j, "idle")
  /\ UNCHANGED <<recorderVars, isRecording, recordedFile, loader, model, err, notes, named>>

-----------------------------------------------------------------------------
(* toggleRecord.                                                           *)

\* Not recording: stopPlayback() first posts to the main thread.
ToggleStart(j) ==
  /\ pc[j] = "idle" /\ ~isRecording
  /\ RoomForFile /\ RoomForThread
  /\ Resume(j, "clearing")
  /\ UNCHANGED <<recorderVars, viewVars, jfile, loader, model, err, notes, named>>

ClearNote(j) ==
  /\ Turn(j) /\ pc[j] = "clearing"
  /\ transcribedNote' = NoFile
  /\ Suspend(j, "naming")
  /\ UNCHANGED <<recorderVars, canTranscribe, isRecording, isProcessing,
                 recordedFile, jfile, loader, model, err, notes, named>>

GetTempFileForRecording(j, f) ==
  /\ pc[j] = "naming"
  /\ f \notin named
  /\ named' = named \cup {f}
  /\ jfile' = [jfile EXCEPT ![j] = f]
  /\ Resume(j, "named")
  /\ UNCHANGED <<recorderVars, viewVars, loader, model, err, notes>>

\* Mutant of BeginRecording: Record and Select File disabled while recording.
BeginRecordingDisabling(j) ==
  /\ Turn(j) /\ pc[j] = "named"
  /\ canTranscribe' = FALSE
  /\ isRecording' = TRUE
  /\ recordedFile' = jfile[j]
  /\ CallStart(j, jfile[j])
  /\ Suspend(j, "starting")
  /\ UNCHANGED <<joining, recorder, phase, output, quit, heard, disk,
                 isProcessing, transcribedNote, jfile, loader, model, err, notes, named>>

\* Mutant of BeginRecording: recordedFile = file forgotten.
BeginRecordingForgetful(j) ==
  /\ Turn(j) /\ pc[j] = "named"
  /\ isRecording' = TRUE
  /\ CallStart(j, jfile[j])
  /\ Suspend(j, "starting")
  /\ UNCHANGED <<joining, recorder, phase, output, quit, heard, disk, canTranscribe, recordedFile,
                 isProcessing, transcribedNote, jfile, loader, model, err, notes, named>>

BeginRecording(j) ==
  /\ Turn(j) /\ pc[j] = "named"
  /\ isRecording' = TRUE
  /\ recordedFile' = jfile[j]
  /\ CallStart(j, jfile[j])
  /\ Suspend(j, "starting")
  /\ UNCHANGED <<joining, recorder, phase, output, quit, heard, disk, canTranscribe,
                 isProcessing, transcribedNote, jfile, loader, model, err, notes, named>>

\* recorder.startRecording; nothing is left to do when it returns.
StartThread(j, t) ==
  /\ pc[j] = "starting" /\ err[t] = "none"
  /\ StartRecording(j, t)
  /\ jfile' = [jfile EXCEPT ![j] = NoFile]
  /\ Goto(j, "idle")
  /\ UNCHANGED <<viewVars, mainQ, loader, model, err, notes, named>>

\* Recording: recorder.stopRecording().
ToggleStop(j) ==
  /\ pc[j] = "idle" /\ isRecording
  /\ CallStop(j)
  /\ Goto(j, "stopping")
  /\ UNCHANGED <<joining, recorder, phase, output, quit, heard, disk, viewVars,
                 jfile, mainQ, loader, model, err, notes, named>>

StopThread(j) ==
  /\ StopRecording(j)
  /\ UNCHANGED <<viewVars, jobVars, loader, model, err, notes, named>>

StopReturns(j) ==
  /\ pc[j] = "stopping"
  /\ \/ StopNothing(j) /\ Resume(j, "stopped")
     \/ Joined(j) /\ Resume(j, "joined")
  /\ UNCHANGED <<viewVars, jfile, loader, model, err, notes, named>>

\* Mutant of RecordingStopped: transcribeAudio without its first guard.
RecordingStoppedUnguarded(j) ==
  /\ Turn(j) /\ pc[j] \in {"stopped", "joined"}
  /\ isRecording' = FALSE
  /\ EnterTranscribe(j, recordedFile)
  /\ Suspend(j, "reading")
  /\ UNCHANGED <<recorderVars, transcribedNote, recordedFile, loader, model, err, notes, named>>

\* isRecording = false, and then transcribeAudio(recordedFile).
RecordingStopped(j) ==
  /\ Turn(j) /\ pc[j] \in {"stopped", "joined"}
  /\ isRecording' = FALSE
  /\ \/ /\ canTranscribe
        /\ EnterTranscribe(j, recordedFile)
        /\ Suspend(j, "reading")
     \/ /\ ~canTranscribe
        /\ Suspend(j, "idle")
        /\ UNCHANGED <<canTranscribe, isProcessing, jfile>>
  /\ UNCHANGED <<recorderVars, transcribedNote, recordedFile, loader, model, err, notes, named>>

-----------------------------------------------------------------------------
(* AudioRecordThread, and the onError callback toggleRecord gives it.      *)

ThreadReads(t) ==
  /\ ReadSamples(t)
  /\ UNCHANGED <<viewVars, jobVars, loader, model, err, notes, named>>

ThreadQuits(t) ==
  /\ BeginEncode(t)
  /\ UNCHANGED <<viewVars, jobVars, loader, model, err, notes, named>>

ThreadEncodes(t) ==
  /\ Encode(t)
  /\ UNCHANGED <<viewVars, jobVars, loader, model, err, notes, named>>

ThreadFails(t) ==
  /\ Fail(t)
  /\ err' = [err EXCEPT ![t] = "launch"]
  /\ mainQ' = Append(mainQ, t)
  /\ UNCHANGED <<viewVars, pc, jfile, loader, model, notes, named>>

\* viewModelScope.launch reaches the main thread, and withContext(Main) again.
LaunchError(t) ==
  /\ Turn(t) /\ err[t] = "launch"
  /\ err' = [err EXCEPT ![t] = "set"]
  /\ mainQ' = Append(Tail(mainQ), t)
  /\ UNCHANGED <<recorderVars, viewVars, pc, jfile, loader, model, notes, named>>

\* Mutant of OnError: it only logs.
OnErrorLogs(t) ==
  /\ Turn(t) /\ err[t] = "set"
  /\ err' = [err EXCEPT ![t] = "none"]
  /\ mainQ' = Tail(mainQ)
  /\ UNCHANGED <<recorderVars, viewVars, pc, jfile, loader, model, notes, named>>

OnError(t) ==
  /\ Turn(t) /\ err[t] = "set"
  /\ err' = [err EXCEPT ![t] = "none"]
  /\ mainQ' = Tail(mainQ)
  /\ isRecording' = FALSE
  /\ UNCHANGED <<recorderVars, canTranscribe, isProcessing, transcribedNote,
                 recordedFile, pc, jfile, loader, model, notes, named>>

-----------------------------------------------------------------------------
(* The other operations.                                                   *)

\* A file was selected: its copy may be audio that decodes, or not.
TranscribeFile(j, f) ==
  /\ pc[j] = "idle"
  /\ f \notin named /\ RoomForFile
  /\ named' = named \cup {f}
  /\ \E d \in {"partial", "complete"} : disk' = [disk EXCEPT ![f] = d]
  /\ \/ /\ canTranscribe
        /\ EnterTranscribe(j, f)
        /\ Goto(j, "reading")
     \/ /\ ~canTranscribe
        /\ UNCHANGED <<canTranscribe, isProcessing, pc, jfile>>
  /\ UNCHANGED <<execQ, joining, recorder, phase, output, quit, heard, isRecording,
                 transcribedNote, recordedFile, mainQ, loader, model, err, notes>>

DeleteNote(j, f) ==
  /\ pc[j] = "idle" /\ notes[f] > 0
  /\ jfile' = [jfile EXCEPT ![j] = f]
  /\ Goto(j, "deleting")
  /\ UNCHANGED <<recorderVars, viewVars, mainQ, loader, model, err, notes, named>>

\* Mutant of NoteDeleted: every delete takes a row away.
NoteDeletedAgain(j) ==
  /\ pc[j] = "deleting"
  /\ notes' = [notes EXCEPT ![jfile[j]] = @ - 1]
  /\ jfile' = [jfile EXCEPT ![j] = NoFile]
  /\ Goto(j, "idle")
  /\ UNCHANGED <<recorderVars, viewVars, mainQ, loader, model, err, named>>

\* noteDao.deleteNote; deleting a row that is gone deletes nothing.
NoteDeleted(j) ==
  /\ pc[j] = "deleting"
  /\ notes' = [notes EXCEPT ![jfile[j]] = IF @ > 0 THEN @ - 1 ELSE 0]
  /\ jfile' = [jfile EXCEPT ![j] = NoFile]
  /\ Goto(j, "idle")
  /\ UNCHANGED <<recorderVars, viewVars, mainQ, loader, model, err, named>>

\* benchmark(), which no screen calls; without a model it changes nothing.
Benchmark(j) ==
  /\ pc[j] = "idle" /\ canTranscribe /\ model = "present"
  /\ canTranscribe' = FALSE
  /\ Goto(j, "benching")
  /\ UNCHANGED <<recorderVars, isRecording, isProcessing, transcribedNote,
                 recordedFile, jfile, mainQ, loader, model, err, notes, named>>

BenchMemory(j) ==
  /\ pc[j] = "benching"
  /\ Resume(j, "benched")
  /\ UNCHANGED <<recorderVars, viewVars, jfile, loader, model, err, notes, named>>

BenchmarkReturns(j) ==
  /\ Turn(j) /\ pc[j] = "benched"
  /\ canTranscribe' = TRUE
  /\ Suspend(j, "idle")
  /\ UNCHANGED <<recorderVars, isRecording, isProcessing, transcribedNote,
                 recordedFile, jfile, loader, model, err, notes, named>>

-----------------------------------------------------------------------------
ToggleRecord(j) == ToggleStart(j) \/ ToggleStop(j)

MainThread ==
  \/ DataLoaded
  \/ \E j \in Jobs :
       \/ ClearNote(j) \/ BeginRecording(j) \/ RecordingStopped(j)
       \/ Transcribe(j) \/ SaveNote(j) \/ TranscribeReturns(j)
       \/ BenchmarkReturns(j)
  \/ \E t \in Threads : LaunchError(t) \/ OnError(t)

Background(j) ==
  \/ \E f \in Files : GetTempFileForRecording(j, f)
  \/ Decode(j)
  \/ TranscribeData(j)
  \/ InsertNote(j)
  \/ NoteDeleted(j)
  \/ BenchMemory(j)

RecorderExecutor ==
  \E j \in Jobs : (\E t \in Threads : StartThread(j, t)) \/ StopThread(j) \/ StopReturns(j)

AudioRecorder(t) == ThreadReads(t) \/ ThreadQuits(t) \/ ThreadEncodes(t) \/ ThreadFails(t)

System ==
  \/ LoadBaseModel
  \/ MainThread
  \/ RecorderExecutor
  \/ \E j \in Jobs : Background(j)
  \/ \E t \in Threads : AudioRecorder(t)

Calls ==
  \E j \in Jobs :
    \/ ToggleRecord(j)
    \/ \E f \in Files : TranscribeFile(j, f) \/ DeleteNote(j, f)
    \/ Benchmark(j)

Next == System \/ Calls

Spec == Init /\ [][Next]_vars

\* A thread that was told to quit encodes what it heard and ends.
Finish(t) ==
  \/ ThreadQuits(t)
  \/ ThreadEncodes(t)
  \/ phase[t] = "encoding" /\ ThreadFails(t)

\* Every thread keeps running what it has; nothing makes the user call.  A
\* recording thread that was told to quit does so: read() returns.
Fairness ==
  /\ WF_vars(LoadBaseModel)
  /\ WF_vars(MainThread)
  /\ WF_vars(RecorderExecutor)
  /\ \A j \in Jobs : WF_vars(Background(j))
  /\ \A t \in Threads : WF_vars(Finish(t))

FairSpec == Spec /\ Fairness

-----------------------------------------------------------------------------
FlagsTypeOK ==
  /\ canTranscribe \in BOOLEAN
  /\ isRecording \in BOOLEAN
  /\ isProcessing \in BOOLEAN

DataTypeOK ==
  /\ loader \in {"loading", "loaded", "done"}
  /\ model \in {"present", "absent", "failed"}
  /\ transcribedNote \in Files \cup {NoFile}
  /\ recordedFile \in Files \cup {NoFile}
  /\ pc \in [Jobs -> JobPoints]
  /\ jfile \in [Jobs -> Files \cup {NoFile}]
  /\ mainQ \in Seq(Jobs \cup Threads \cup {Loader})
  /\ err \in [Threads -> {"none", "launch", "set"}]
  /\ notes \in [Files -> Nat]
  /\ named \subseteq Files
  /\ \A j \in Jobs : pc[j] = "named" => jfile[j] \in Files

TypeOK == RecorderTypeOK /\ FlagsTypeOK /\ DataTypeOK

Busy == At(TranscribePoints \cup BenchmarkPoints)

\* canTranscribe, a flag that every path through transcribeAudio and
\* runBenchmark clears and sets again, is a lock: one job at most is inside
\* them, whatever is called when, and isProcessing is true exactly while one
\* transcribes.
TranscriberExclusive ==
  /\ \A i, j \in Busy : i = j
  /\ canTranscribe => Busy = {}
  /\ isProcessing <=> At(TranscribePoints) # {}

\* The lock is never lost: once the model is loaded, Record and Select File
\* are enabled whenever no job is transcribing, after every failure too.
TranscriberAvailable ==
  loader = "done" /\ model # "failed" /\ Busy = {} => canTranscribe

\* The processing screen goes away by itself.
ProcessingEnds == isProcessing ~> ~isProcessing

\* stopRecording() returns to toggleRecord, which runs to its end: the
\* executor's thread does not join an AudioRecordThread that never ends.
StopsComplete == \A j \in Jobs : (pc[j] = "stopping") ~> (pc[j] = "idle")
=============================================================================
