------------------------------ MODULE Recorder ------------------------------
(***************************************************************************)
(* Recorder.kt: the Recorder, whose operations run on a single-thread      *)
(* executor, the AudioRecordThreads it starts, and the files they write    *)
(* (encodeWaveFile in RiffWaveHelper.kt).  The module has the state and    *)
(* the steps; who calls start and stop, and what happens when a call       *)
(* returns, is MainScreenViewModel's part.                                 *)
(***************************************************************************)
EXTENDS Naturals, Sequences

CONSTANTS Jobs,      \* coroutines that may be under way at once
          Threads,   \* AudioRecordThreads that may be alive at once
          Files,     \* paths of audio files
          NoJob, NoThread, NoFile

ASSUME RecorderAssumption ==
  /\ NoJob \notin Jobs
  /\ NoThread \notin Threads
  /\ NoFile \notin Files

VARIABLES
  execQ,     \* blocks queued on the recorder's executor
  joining,   \* the job whose stopRecording block waits in join(), or NoJob
  recorder,  \* private var recorder
  phase,     \* phase[t]: "dead", "recording" or "encoding"
  output,    \* output[t]: outputFile of t
  quit,      \* quit[t]: its AtomicBoolean
  heard,     \* heard[t]: allData of t is long enough for a WAV header
  disk       \* disk[f]: "absent", "partial" or "complete"

recorderVars == <<execQ, joining, recorder, phase, output, quit, heard, disk>>

Block == [op : {"start"}, job : Jobs, file : Files]
         \cup [op : {"stop"}, job : Jobs]

RecorderInit ==
  /\ execQ = <<>>
  /\ joining = NoJob
  /\ recorder = NoThread
  /\ phase = [t \in Threads |-> "dead"]
  /\ output = [t \in Threads |-> NoFile]
  /\ quit = [t \in Threads |-> FALSE]
  /\ heard = [t \in Threads |-> FALSE]
  /\ disk = [f \in Files |-> "absent"]

RecorderTypeOK ==
  /\ execQ \in Seq(Block)
  /\ joining \in Jobs \cup {NoJob}
  /\ recorder \in Threads \cup {NoThread}
  /\ phase \in [Threads -> {"dead", "recording", "encoding"}]
  /\ output \in [Threads -> Files \cup {NoFile}]
  /\ quit \in [Threads -> BOOLEAN]
  /\ heard \in [Threads -> BOOLEAN]
  /\ disk \in [Files -> {"absent", "partial", "complete"}]

Alive(t) == phase[t] # "dead"

-----------------------------------------------------------------------------
(* The blocks of startRecording and stopRecording.                         *)

CallStart(j, f) == execQ' = Append(execQ, [op |-> "start", job |-> j, file |-> f])

CallStop(j) == execQ' = Append(execQ, [op |-> "stop", job |-> j])

\* The executor's thread takes the next block, which is an o of job j.
Take(j, o) ==
  /\ joining = NoJob
  /\ execQ # <<>>
  /\ Head(execQ).op = o
  /\ Head(execQ).job = j
  /\ execQ' = Tail(execQ)

\* startRecording: whatever recorder referred to is overwritten.
StartRecording(j, t) ==
  /\ Take(j, "start")
  /\ ~Alive(t) /\ t # recorder
  /\ recorder' = t
  /\ phase' = [phase EXCEPT ![t] = "recording"]
  /\ output' = [output EXCEPT ![t] = Head(execQ).file]
  /\ quit' = [quit EXCEPT ![t] = FALSE]
  /\ heard' = [heard EXCEPT ![t] = FALSE]
  /\ UNCHANGED <<joining, disk>>

\* stopRecording without a recorder returns at once.
StopNothing(j) ==
  /\ Take(j, "stop")
  /\ recorder = NoThread
  /\ UNCHANGED <<joining, recorder, phase, output, quit, heard, disk>>

\* Mutant of StopRecording: join() without telling the thread to quit.
StopRecordingJoinsOnly(j) ==
  /\ Take(j, "stop")
  /\ recorder # NoThread
  /\ joining' = j
  /\ UNCHANGED <<recorder, phase, output, quit, heard, disk>>

\* stopRecording tells the thread to quit and joins it ...
StopRecording(j) ==
  /\ Take(j, "stop")
  /\ recorder # NoThread
  /\ quit' = [quit EXCEPT ![recorder] = TRUE]
  /\ joining' = j
  /\ UNCHANGED <<recorder, phase, output, heard, disk>>

\* Mutant of Joined: stopRecording does not wait for the thread.
JoinedEarly(j) ==
  /\ joining = j
  /\ joining' = NoJob
  /\ recorder' = NoThread
  /\ UNCHANGED <<execQ, phase, output, quit, heard, disk>>

\* ... and returns when it has ended.
Joined(j) ==
  /\ joining = j
  /\ ~Alive(recorder)
  /\ joining' = NoJob
  /\ recorder' = NoThread
  /\ UNCHANGED <<execQ, phase, output, quit, heard, disk>>

-----------------------------------------------------------------------------
(* AudioRecordThread.run.                                                  *)

\* audioRecord.read returned samples.
ReadSamples(t) ==
  /\ phase[t] = "recording" /\ ~quit[t]
  /\ heard' = [heard EXCEPT ![t] = TRUE]
  /\ UNCHANGED <<execQ, joining, recorder, phase, output, quit, disk>>

\* quit is set: audioRecord.stop(), and encodeWaveFile opens the file.
BeginEncode(t) ==
  /\ phase[t] = "recording" /\ quit[t]
  /\ phase' = [phase EXCEPT ![t] = "encoding"]
  /\ disk' = [disk EXCEPT ![output[t]] = "partial"]
  /\ UNCHANGED <<execQ, joining, recorder, output, quit, heard>>

\* The header is written (headerBytes requires enough samples), then the data.
Encode(t) ==
  /\ phase[t] = "encoding" /\ heard[t]
  /\ phase' = [phase EXCEPT ![t] = "dead"]
  /\ disk' = [disk EXCEPT ![output[t]] = "complete"]
  /\ UNCHANGED <<execQ, joining, recorder, output, quit, heard>>

\* An exception while recording or encoding, headerBytes' require() included:
\* the AudioRecord is released and run() ends in its handler.
Fail(t) ==
  /\ Alive(t)
  /\ phase' = [phase EXCEPT ![t] = "dead"]
  /\ UNCHANGED <<execQ, joining, recorder, output, quit, heard, disk>>
=============================================================================
