------------------------- MODULE MainActivityProofs -------------------------
(***************************************************************************)
(* The screens call the view model as its specification allows, so what is *)
(* proved of the view model holds under the screens, however hasty the     *)
(* user and however late the frames.                                       *)
(***************************************************************************)
EXTENDS MainActivity, MainScreenViewModelProofs

LEMMA ScreensCallTheViewModel == [AppNext]_appVars => [Next]_vars
<1> SUFFICES ASSUME [AppNext]_appVars PROVE [Next]_vars
  OBVIOUS
<1> USE DEF Next, Calls
<1>1. CASE TapRecord
  BY <1>1 DEF TapRecord
<1>2. CASE TapStop
  BY <1>2 DEF TapStop
<1>3. CASE SelectFile
  BY <1>3 DEF SelectFile
<1>4. CASE FileSelected
  BY <1>4 DEF FileSelected
<1>5. CASE SelectionCancelled
  BY <1>5 DEF SelectionCancelled
<1>6. CASE ViewNotes \/ Back \/ \E f \in Files : OpenNote(f)
  BY <1>6 DEF ViewNotes, Back, OpenNote, Navigate
<1>7. CASE \E f \in Files : TapDelete(f)
  BY <1>7 DEF TapDelete
<1>8. CASE Recreate
  BY <1>8 DEF Recreate
<1>9. CASE Recompose
  BY <1>9 DEF Recompose
<1>10. CASE System
  BY <1>10
<1>11. CASE UNCHANGED appVars
  BY <1>11 DEF appVars
<1>12. QED
  BY <1>1, <1>2, <1>3, <1>4, <1>5, <1>6, <1>7, <1>8, <1>9, <1>10, <1>11
  DEF AppNext, User

\* MainActivity and its screens are an environment of the view model: the
\* application implements the view model's specification.
THEOREM ScreensImplementViewModel == AppSpec => Spec
<1>1. AppInit => Init
  BY DEF AppInit
<1>2. QED
  BY <1>1, ScreensCallTheViewModel, PTL DEF AppSpec, Spec

\* Tapping stale buttons does not put two jobs into transcribeAudio at once.
THEOREM ScreensTranscribeOneAtATime == AppSpec => []TranscriberExclusive
  BY ScreensImplementViewModel, TranscribesOneAtATime, PTL

-----------------------------------------------------------------------------
(* One recording at a time, and it is the one on the screen: what a user   *)
(* who waits for the screen to settle can rely on.                         *)

TogglePoints == StartPoints \cup StopPoints

\* x has its turn before y.
Ahead(x, y) == \E a, b \in DOMAIN mainQ : a < b /\ mainQ[a] = x /\ mainQ[b] = y

\* f exists, and is neither transcribed nor part of a note.
NewFile(f) ==
  /\ f \in Files /\ notes[f] = 0
  /\ \A j \in Jobs : pc[j] \in TranscribePoints => jfile[j] # f

\* At most one toggleRecord is under way.
OneToggle == \A i, j \in Jobs : pc[i] \in TogglePoints /\ pc[j] \in TogglePoints => i = j

\* A thread that is alive is the one the recorder refers to, isRecording is
\* true, nothing is about to make it false, and the file is the thread's own.
ThreadInv(t) == Alive(t) =>
  /\ recorder = t /\ isRecording /\ output[t] = recordedFile
  /\ NewFile(recordedFile)
  /\ \A s \in Threads : err[s] = "none"
  /\ \A j \in Jobs : pc[j] \notin StartPoints \cup {"stopped", "joined"}
  /\ quit[t] \/ phase[t] = "encoding" => joining # NoJob

\* While j starts a recording no thread is alive: the errors of an earlier one
\* are dealt with before j sets isRecording, being ahead of it in the queue.
StartInv(j) ==
  /\ pc[j] \in {"clearing", "naming", "named"} => ~isRecording
  /\ pc[j] = "clearing" => \A t \in Threads : err[t] = "launch" => Ahead(t, j)
  /\ pc[j] = "naming" => \A t \in Threads : err[t] # "launch"
  /\ pc[j] = "named" =>
       /\ \A t \in Threads : err[t] # "launch" /\ (err[t] = "set" => Ahead(t, j))
       /\ NewFile(jfile[j])
  /\ pc[j] = "starting" =>
       /\ isRecording /\ recordedFile = jfile[j]
       /\ NewFile(jfile[j])
       /\ \A t \in Threads : err[t] = "none"
       /\ execQ = <<[op |-> "start", job |-> j, file |-> jfile[j]]>> /\ joining = NoJob

\* While j stops one the recorder has a thread, and j finds it.
StopInv(j) ==
  /\ pc[j] = "stopping" =>
       /\ recorder \in Threads /\ output[recorder] = recordedFile
       /\ \/ execQ = <<[op |-> "stop", job |-> j]>> /\ joining = NoJob
          \/ execQ = <<>> /\ joining = j
  /\ pc[j] # "stopped"

\* Between toggles the executor is idle, and isRecording has a reason: the
\* thread is alive, its error is on the way, or a toggleRecord awaits its end.
RecordingInv ==
  /\ isRecording /\ (\A j \in Jobs : pc[j] \notin {"starting", "joined"}) =>
       /\ recorder \in Threads /\ output[recorder] = recordedFile
       /\ Alive(recorder) \/ err[recorder] # "none" \/ \E j \in Jobs : pc[j] = "stopping"
  /\ (\A j \in Jobs : pc[j] \notin {"starting", "stopping"}) => execQ = <<>> /\ joining = NoJob

\* Nothing refers to a file that was never named.
FilesInv == \A f \in Files \ named :
  /\ notes[f] = 0 /\ recordedFile # f
  /\ \A t \in Threads : output[t] # f
  /\ \A j \in Jobs : jfile[j] # f

MicInv ==
  /\ OneToggle /\ RecordingInv /\ FilesInv
  /\ \A t \in Threads : ThreadInv(t)
  /\ \A j \in Jobs : StartInv(j) /\ StopInv(j)

LEMMA InitMic == Init => MicInv
<1> SUFFICES ASSUME Init PROVE MicInv
  OBVIOUS
<1>1. \A j \in Jobs : pc[j] = "idle" /\ jfile[j] = NoFile
  BY DEF Init
<1>2. OneToggle /\ RecordingInv
  BY <1>1 DEF Init, RecorderInit, OneToggle, TogglePoints, StartPoints, StopPoints, RecordingInv
<1>3. FilesInv
  BY <1>1, RecorderAssumption DEF Init, RecorderInit, FilesInv
<1>4. \A t \in Threads : ThreadInv(t)
  BY DEF Init, RecorderInit, ThreadInv, Alive
<1>5. \A j \in Jobs : StartInv(j) /\ StopInv(j)
  BY <1>1 DEF StartInv, StopInv
<1>6. QED
  BY <1>2, <1>3, <1>4, <1>5 DEF MicInv

\* Who is ahead stays ahead until it has its turn.
LEMMA AheadKept ==
  ASSUME mainQ \in Seq(Members), NEW x, NEW y, Ahead(x, y), NEW z \in Members,
         \/ mainQ' = Append(mainQ, z)
         \/ z # x /\ Turn(z) /\ mainQ' = Tail(mainQ)
         \/ z # x /\ Turn(z) /\ mainQ' = Append(Tail(mainQ), z)
  PROVE  Ahead(x, y)'
<1>1. PICK a \in DOMAIN mainQ, b \in DOMAIN mainQ : a < b /\ mainQ[a] = x /\ mainQ[b] = y
  BY DEF Ahead
<1>2. CASE mainQ' = Append(mainQ, z)
  <2>1. /\ a \in DOMAIN mainQ' /\ b \in DOMAIN mainQ'
        /\ mainQ'[a] = mainQ[a] /\ mainQ'[b] = mainQ[b]
    BY <1>2
  <2>2. QED
    BY <1>1, <2>1 DEF Ahead
<1>3. ASSUME z # x, Turn(z), NEW q, q = Tail(mainQ), mainQ' = q \/ mainQ' = Append(q, z)
      PROVE  Ahead(x, y)'
  <2>1. /\ DOMAIN mainQ = 1..Len(mainQ) /\ DOMAIN q = 1..(Len(mainQ) - 1)
        /\ Len(mainQ) \in Nat \ {0}
        /\ \A c \in 1..(Len(mainQ) - 1) : q[c] = mainQ[c + 1]
        /\ mainQ[1] = z
        /\ q \in Seq(Members)
    BY <1>3, TailFacts, HeadTail DEF Turn
  <2>2. /\ a - 1 \in DOMAIN q /\ b - 1 \in DOMAIN q /\ a - 1 < b - 1
        /\ q[a - 1] = x /\ q[b - 1] = y
    BY <1>1, <1>3, <2>1
  <2>3. /\ a - 1 \in DOMAIN mainQ' /\ b - 1 \in DOMAIN mainQ'
        /\ mainQ'[a - 1] = x /\ mainQ'[b - 1] = y
    BY <1>3, <2>1, <2>2
  <2>4. QED
    BY <2>2, <2>3 DEF Ahead
<1>4. QED
  BY <1>2, <1>3

\* Who is queued is ahead of who comes last.
LEMMA AheadOfLast ==
  ASSUME mainQ \in Seq(Members), NEW x, Queued(x), NEW y \in Members,
         mainQ' = Append(mainQ, y)
  PROVE  Ahead(x, y)'
<1>1. PICK a \in DOMAIN mainQ : mainQ[a] = x
  BY DEF Queued
<1>2. /\ DOMAIN mainQ = 1..Len(mainQ) /\ DOMAIN mainQ' = 1..(Len(mainQ) + 1)
      /\ Len(mainQ) \in Nat
      /\ mainQ'[a] = x /\ mainQ'[Len(mainQ) + 1] = y
  BY <1>1
<1>3. a < Len(mainQ) + 1 /\ Len(mainQ) + 1 \in DOMAIN mainQ' /\ a \in DOMAIN mainQ'
  BY <1>2
<1>4. QED
  BY <1>2, <1>3 DEF Ahead

\* Nobody is ahead of who has its turn.
LEMMA NobodyAhead ==
  ASSUME mainQ \in Seq(Members), QueueInv, NEW x, NEW y, Turn(y)
  PROVE  ~Ahead(x, y)
<1> SUFFICES ASSUME Ahead(x, y) PROVE FALSE
  OBVIOUS
<1>1. PICK a \in DOMAIN mainQ, b \in DOMAIN mainQ : a < b /\ mainQ[b] = y
  BY DEF Ahead
<1>2. DOMAIN mainQ = 1..Len(mainQ) /\ Len(mainQ) \in Nat \ {0} /\ mainQ[1] = y
  BY TailFacts DEF Turn
<1>3. b = 1
  BY <1>1, <1>2 DEF QueueInv
<1>4. QED
  BY <1>1, <1>2, <1>3

\* A step of a job that is not in toggleRecord, and does not touch the files
\* of a recording.
LEMMA Bystander ==
  ASSUME TypeOK, MicInv, NEW j \in Jobs, NEW p,
         pc' = [pc EXCEPT ![j] = p], pc[j] \notin TogglePoints, p \notin TogglePoints,
         \/ UNCHANGED mainQ
         \/ mainQ' = Append(mainQ, j)
         \/ Turn(j) /\ mainQ' = Tail(mainQ),
         \A k \in Jobs \ {j} : jfile'[k] = jfile[k],
         UNCHANGED <<execQ, joining, recorder, phase, output, quit, isRecording, recordedFile, err>>,
         \A f \in named : NewFile(f) => NewFile(f)',
         FilesInv'
  PROVE  MicInv'
<1> USE DEF TogglePoints, StartPoints, StopPoints
<1>1. \A k \in Jobs : pc'[k] = IF k = j THEN p ELSE pc[k]
  BY DEF TypeOK, DataTypeOK
<1>2. mainQ \in Seq(Members) /\ \A t \in Threads : t # j
  BY MembersApart DEF TypeOK, DataTypeOK, Members
<1>3. \A t \in Threads, k \in Jobs : Ahead(t, k) => Ahead(t, k)'
  <2>1. SUFFICES ASSUME NEW t \in Threads, NEW k \in Jobs, Ahead(t, k) PROVE Ahead(t, k)'
    OBVIOUS
  <2>2. CASE UNCHANGED mainQ
    BY <2>1, <2>2 DEF Ahead
  <2>3. CASE mainQ' = Append(mainQ, j) \/ (Turn(j) /\ mainQ' = Tail(mainQ))
    BY <1>2, <2>1, <2>3, AheadKept, MembersApart
  <2>4. QED
    BY <2>2, <2>3
<1>4. NewFile(recordedFile) => NewFile(recordedFile)'
  BY DEF MicInv, FilesInv, NewFile
<1>5. \A k \in Jobs : NewFile(jfile[k]) => jfile[k] \in named
  BY DEF MicInv, FilesInv, NewFile
<1>6. OneToggle'
  BY <1>1 DEF MicInv, OneToggle
<1>7. RecordingInv'
  <2>1. \A k \in Jobs : \A q \in {"starting", "stopping", "joined"} : pc'[k] = q <=> pc[k] = q
    BY <1>1
  <2>2. QED
    BY <2>1 DEF MicInv, RecordingInv, Alive
<1>8. ASSUME NEW t \in Threads PROVE ThreadInv(t)'
  BY <1>1, <1>4 DEF MicInv, ThreadInv, Alive
<1>9. ASSUME NEW k \in Jobs PROVE StartInv(k)'
  <2>1. CASE k = j
    BY <1>1, <2>1 DEF StartInv
  <2>2. CASE k # j
    <3>1. pc'[k] = pc[k] /\ jfile'[k] = jfile[k]
      BY <1>1, <2>2
    <3>2. NewFile(jfile[k]) => NewFile(jfile[k])'
      BY <1>5, <3>1 DEF NewFile
    <3>3. StartInv(k)
      BY DEF MicInv
    <3>4. QED
      BY <1>3, <3>1, <3>2, <3>3 DEF StartInv, NewFile
  <2>3. QED
    BY <2>1, <2>2
<1>10. ASSUME NEW k \in Jobs PROVE StopInv(k)'
  BY <1>1 DEF MicInv, StopInv
<1>11. QED
  BY <1>6, <1>7, <1>8, <1>9, <1>10 DEF MicInv

\* A step of such a job that leaves the files and notes alone.
LEMMA Move ==
  ASSUME TypeOK, MicInv, NEW j \in Jobs, NEW p,
         pc' = [pc EXCEPT ![j] = p], pc[j] \notin TogglePoints, p \notin TogglePoints,
         p \in TranscribePoints => pc[j] \in TranscribePoints,
         mainQ' = Append(mainQ, j) \/ (Turn(j) /\ mainQ' = Tail(mainQ)),
         UNCHANGED <<recorderVars, isRecording, recordedFile, err, jfile, notes, named>>
  PROVE  MicInv'
<1>1. \A k \in Jobs : pc'[k] \in TranscribePoints => pc[k] \in TranscribePoints
  BY DEF TypeOK, DataTypeOK
<1>2. \A f \in named : NewFile(f) => NewFile(f)'
  BY <1>1 DEF NewFile
<1>3. FilesInv'
  BY DEF MicInv, FilesInv, recorderVars
<1>4. QED
  BY <1>2, <1>3, Bystander DEF recorderVars

\* A step that changes nothing the invariant is about.
LEMMA StayMic ==
  ASSUME MicInv,
         UNCHANGED <<execQ, joining, recorder, phase, output, quit, isRecording, recordedFile>>,
         UNCHANGED <<pc, jfile, err, notes, named>>,
         UNCHANGED mainQ \/ \A t \in Threads, k \in Jobs : Ahead(t, k) => Ahead(t, k)'
  PROVE  MicInv'
<1>1. \A t \in Threads, k \in Jobs : Ahead(t, k) => Ahead(t, k)'
  BY DEF Ahead
<1>2. OneToggle' /\ RecordingInv' /\ FilesInv'
  BY DEF MicInv, OneToggle, RecordingInv, FilesInv, Alive
<1>3. \A t \in Threads : ThreadInv(t)'
  BY DEF MicInv, ThreadInv, Alive, NewFile
<1>4. ASSUME NEW k \in Jobs PROVE StartInv(k)'
  BY <1>1 DEF MicInv, StartInv, NewFile
<1>5. \A k \in Jobs : StopInv(k)'
  BY DEF MicInv, StopInv
<1>6. QED
  BY <1>2, <1>3, <1>4, <1>5 DEF MicInv

LEMMA SystemMic == TypeOK /\ QueueInv /\ MicInv /\ System => MicInv'
<1> SUFFICES ASSUME TypeOK, QueueInv, MicInv, System PROVE MicInv'
  OBVIOUS
<1>a. /\ mainQ \in Seq(Members) /\ pc \in [Jobs -> JobPoints]
      /\ jfile \in [Jobs -> Files \cup {NoFile}] /\ err \in [Threads -> {"none", "launch", "set"}]
      /\ notes \in [Files -> Nat] /\ named \subseteq Files
      /\ recordedFile \in Files \cup {NoFile} /\ isRecording \in BOOLEAN
  BY DEF TypeOK, DataTypeOK, FlagsTypeOK, Members
<1>b. /\ execQ \in Seq(Block) /\ joining \in Jobs \cup {NoJob}
      /\ recorder \in Threads \cup {NoThread}
      /\ phase \in [Threads -> {"dead", "recording", "encoding"}]
      /\ output \in [Threads -> Files \cup {NoFile}] /\ quit \in [Threads -> BOOLEAN]
  BY DEF TypeOK, RecorderTypeOK
<1>c. /\ OneToggle /\ RecordingInv /\ FilesInv
      /\ \A t \in Threads : ThreadInv(t)
      /\ \A j \in Jobs : StartInv(j) /\ StopInv(j)
  BY DEF MicInv
<1>d. UNCHANGED viewVars => UNCHANGED <<isRecording, recordedFile>>
  BY DEF viewVars
<1>1. ASSUME NEW j \in Jobs, Decode(j) PROVE MicInv'
  BY <1>1, <1>d, Move DEF Decode, Resume, Goto, TogglePoints, StartPoints, StopPoints, TranscribePoints
<1>2. ASSUME NEW j \in Jobs, TranscribeData(j) PROVE MicInv'
  BY <1>2, <1>d, Move DEF TranscribeData, Resume, Goto, TogglePoints, StartPoints, StopPoints, TranscribePoints
<1>3. ASSUME NEW j \in Jobs, BenchMemory(j) PROVE MicInv'
  BY <1>3, <1>d, Move DEF BenchMemory, Resume, Goto, TogglePoints, StartPoints, StopPoints, TranscribePoints
<1>4. ASSUME NEW j \in Jobs, Transcribe(j) PROVE MicInv'
  BY <1>4, <1>d, Move DEF Transcribe, Suspend, Goto, TogglePoints, StartPoints, StopPoints, TranscribePoints
<1>5. ASSUME NEW j \in Jobs, SaveNote(j) PROVE MicInv'
  BY <1>5, <1>d, Move DEF SaveNote, Suspend, Goto, TogglePoints, StartPoints, StopPoints, TranscribePoints
<1>6. ASSUME NEW j \in Jobs, BenchmarkReturns(j) PROVE MicInv'
  BY <1>6, <1>d, Move DEF BenchmarkReturns, Suspend, Goto, TogglePoints, StartPoints, StopPoints, TranscribePoints
<1>7. ASSUME NEW j \in Jobs, InsertNote(j) PROVE MicInv'
  <2>1. CASE UNCHANGED notes
    BY <1>7, <2>1, <1>d, Move DEF InsertNote, Resume, Goto, TogglePoints, StartPoints, StopPoints, TranscribePoints
  <2>2. CASE notes' = [notes EXCEPT ![jfile[j]] = @ + 1] /\ Resume(j, "saved")
    <3>1. pc[j] = "saving" /\ pc' = [pc EXCEPT ![j] = "saved"] /\ UNCHANGED <<recorderVars, viewVars, jfile, err, named>>
      BY <1>7, <2>2 DEF InsertNote, Resume, Goto
    <3>2. \A k \in Jobs : pc'[k] \in TranscribePoints => pc[k] \in TranscribePoints
      BY <1>a, <3>1 DEF TranscribePoints
    <3>3. ASSUME NEW f \in Files, f # jfile[j] PROVE notes'[f] = notes[f]
      BY <1>a, <2>2, <3>3
    <3>4. \A f \in named : NewFile(f) => NewFile(f)'
      BY <3>1, <3>2, <3>3 DEF NewFile, TranscribePoints
    <3>5. FilesInv'
      BY <1>c, <1>d, <3>1, <3>3 DEF FilesInv, recorderVars
    <3>6. QED
      BY <1>d, <2>2, <3>1, <3>4, <3>5, Bystander DEF Resume, recorderVars, TogglePoints, StartPoints, StopPoints
  <2>3. QED
    BY <1>7, <2>1, <2>2 DEF InsertNote
<1>8. ASSUME NEW j \in Jobs, TranscribeReturns(j) PROVE MicInv'
  <2>1. /\ pc[j] \in TranscribePoints /\ pc[j] \notin TogglePoints
        /\ pc' = [pc EXCEPT ![j] = "idle"] /\ jfile' = [jfile EXCEPT ![j] = NoFile]
        /\ UNCHANGED <<recorderVars, isRecording, recordedFile, err, notes, named>>
    BY <1>8 DEF TranscribeReturns, Suspend, Goto, TogglePoints, StartPoints, StopPoints, TranscribePoints
  <2>2. /\ \A k \in Jobs : pc'[k] \in TranscribePoints => k # j /\ pc[k] \in TranscribePoints
        /\ \A k \in Jobs : jfile'[k] = IF k = j THEN NoFile ELSE jfile[k]
    BY <1>a, <2>1 DEF TranscribePoints
  <2>3. \A f \in named : NewFile(f) => NewFile(f)'
    BY <2>1, <2>2 DEF NewFile
  <2>4. FilesInv'
    BY <1>c, <2>1, <2>2, RecorderAssumption DEF FilesInv, recorderVars
  <2>5. QED
    BY <1>8, <2>1, <2>2, <2>3, <2>4, Bystander DEF TranscribeReturns, Suspend, recorderVars, TogglePoints, StartPoints, StopPoints
<1>9. ASSUME NEW j \in Jobs, NoteDeleted(j) PROVE MicInv'
  <2>1. /\ pc[j] = "deleting"
        /\ pc' = [pc EXCEPT ![j] = "idle"] /\ jfile' = [jfile EXCEPT ![j] = NoFile]
        /\ UNCHANGED <<recorderVars, mainQ, isRecording, recordedFile, err, named>>
    BY <1>9, <1>d DEF NoteDeleted, Goto
  <2>2. /\ \A k \in Jobs : pc'[k] \in TranscribePoints => k # j /\ pc[k] \in TranscribePoints
        /\ \A k \in Jobs : jfile'[k] = IF k = j THEN NoFile ELSE jfile[k]
    BY <1>a, <2>1 DEF TranscribePoints
  <2>3. \A f \in Files : notes[f] = 0 => notes'[f] = 0
    BY <1>9, <1>a DEF NoteDeleted
  <2>4. \A f \in named : NewFile(f) => NewFile(f)'
    BY <2>1, <2>2, <2>3 DEF NewFile
  <2>5. FilesInv'
    BY <1>c, <2>1, <2>2, <2>3, RecorderAssumption DEF FilesInv, recorderVars
  <2>6. QED
    BY <2>1, <2>2, <2>4, <2>5, Bystander DEF recorderVars, TogglePoints, StartPoints, StopPoints
<1>10. ASSUME NEW j \in Jobs, ClearNote(j) PROVE MicInv'
  <2>1. /\ pc[j] = "clearing" /\ pc'[j] = "naming" /\ Turn(j)
        /\ pc' = [pc EXCEPT ![j] = "naming"]
        /\ UNCHANGED <<recorderVars, isRecording, recordedFile, jfile, err, notes, named>>
    BY <1>10, <1>a DEF ClearNote, Suspend, Goto
  <2>2. \A k \in Jobs \ {j} : pc'[k] = pc[k] /\ pc[k] \notin TogglePoints
    BY <1>a, <1>c, <2>1 DEF OneToggle, TogglePoints, StartPoints, StopPoints
  <2>3. OneToggle'
    BY <2>2 DEF OneToggle
  <2>4. RecordingInv'
    BY <1>c, <2>1, <2>2 DEF RecordingInv, Alive, recorderVars, TogglePoints, StartPoints, StopPoints
  <2>5. FilesInv'
    BY <1>c, <2>1 DEF FilesInv, recorderVars
  <2>6. \A t \in Threads : ThreadInv(t)'
    BY <1>c, <2>1 DEF ThreadInv, Alive, recorderVars, StartPoints
  <2>7. \A k \in Jobs : StartInv(k)'
    <3>1. \A t \in Threads : err[t] # "launch"
      BY <1>a, <1>c, <2>1, NobodyAhead DEF StartInv
    <3>2. QED
      BY <1>c, <2>1, <2>2, <3>1 DEF StartInv, TogglePoints, StartPoints, StopPoints
  <2>8. \A k \in Jobs : StopInv(k)'
    BY <1>c, <2>1, <2>2 DEF StopInv, TogglePoints, StartPoints, StopPoints
  <2>9. QED
    BY <2>3, <2>4, <2>5, <2>6, <2>7, <2>8 DEF MicInv
<1>11. ASSUME NEW j \in Jobs, NEW f \in Files, GetTempFileForRecording(j, f) PROVE MicInv'
  <2>1. /\ pc[j] = "naming" /\ pc'[j] = "named" /\ f \notin named
        /\ pc' = [pc EXCEPT ![j] = "named"] /\ jfile'[j] = f
        /\ named' = named \cup {f} /\ mainQ' = Append(mainQ, j)
        /\ \A k \in Jobs \ {j} : jfile'[k] = jfile[k]
        /\ UNCHANGED <<recorderVars, isRecording, recordedFile, err, notes>>
    BY <1>11, <1>a, <1>d DEF GetTempFileForRecording, Resume, Goto
  <2>2. \A k \in Jobs \ {j} : pc'[k] = pc[k] /\ pc[k] \notin TogglePoints
    BY <1>a, <1>c, <2>1 DEF OneToggle, TogglePoints, StartPoints, StopPoints
  <2>3. OneToggle'
    BY <2>2 DEF OneToggle
  <2>4. RecordingInv'
    BY <1>c, <2>1, <2>2 DEF RecordingInv, Alive, recorderVars, TogglePoints, StartPoints, StopPoints
  <2>5. FilesInv'
    BY <1>c, <2>1 DEF FilesInv, recorderVars
  <2>6. \A t \in Threads : ThreadInv(t)'
    BY <1>c, <2>1 DEF ThreadInv, Alive, recorderVars, StartPoints
  <2>7. \A k \in Jobs : StartInv(k)'
    <3>1. NewFile(f)'
      <4>1. notes[f] = 0 /\ \A k \in Jobs : jfile[k] # f
        BY <1>c, <2>1 DEF FilesInv
      <4>2. "named" \notin TranscribePoints
        BY DEF TranscribePoints
      <4>3. QED
        BY <2>1, <2>2, <4>1, <4>2 DEF NewFile
    <3>2. \A t \in Threads : err[t] # "launch" /\ (err[t] = "set" => Ahead(t, j)')
      <4>1. SUFFICES ASSUME NEW t \in Threads, err[t] = "set" PROVE Ahead(t, j)'
        BY <1>c, <2>1 DEF StartInv
      <4>2. Queued(t)
        BY <4>1, MembersApart DEF QueueInv, Waits
      <4>3. QED
        BY <1>a, <2>1, <4>2, AheadOfLast, MembersApart
    <3>3. StartInv(j)'
      BY <1>c, <2>1, <3>1, <3>2 DEF StartInv
    <3>4. QED
      BY <2>2, <3>3 DEF StartInv, TogglePoints, StartPoints, StopPoints
  <2>8. \A k \in Jobs : StopInv(k)'
    BY <1>c, <2>1, <2>2 DEF StopInv, TogglePoints, StartPoints, StopPoints
  <2>9. QED
    BY <2>3, <2>4, <2>5, <2>6, <2>7, <2>8 DEF MicInv
<1>12. ASSUME NEW j \in Jobs, BeginRecording(j) PROVE MicInv'
  <2>1. /\ pc[j] = "named" /\ pc'[j] = "starting" /\ Turn(j)
        /\ pc' = [pc EXCEPT ![j] = "starting"]
        /\ isRecording' /\ recordedFile' = jfile[j]
        /\ execQ' = Append(execQ, [op |-> "start", job |-> j, file |-> jfile[j]])
        /\ UNCHANGED <<joining, recorder, phase, output, quit, jfile, err, notes, named>>
    BY <1>12, <1>a DEF BeginRecording, CallStart, Suspend, Goto
  <2>2. \A k \in Jobs \ {j} : pc'[k] = pc[k] /\ pc[k] \notin TogglePoints
    BY <1>a, <1>c, <2>1 DEF OneToggle, TogglePoints, StartPoints, StopPoints
  <2>3. OneToggle'
    BY <2>2 DEF OneToggle
  <2>4. RecordingInv'
    BY <2>1 DEF RecordingInv
  <2>5. FilesInv'
    BY <1>c, <2>1 DEF FilesInv
  <2>6. \A t \in Threads : ThreadInv(t)'
    BY <1>c, <2>1 DEF ThreadInv, Alive, StartPoints
  <2>7. \A k \in Jobs : StartInv(k)'
    <3>1. NewFile(jfile[j])'
      BY <1>c, <2>1, <2>2 DEF StartInv, NewFile, TranscribePoints
    <3>2. \A t \in Threads : err[t] = "none"
      BY <1>a, <1>c, <2>1, NobodyAhead DEF StartInv
    <3>3. execQ = <<>> /\ joining = NoJob
      BY <1>c, <2>1, <2>2 DEF RecordingInv, TogglePoints, StartPoints, StopPoints
    <3>4. execQ' = <<[op |-> "start", job |-> j, file |-> jfile[j]]>>
      BY <2>1, <3>3
    <3>5. StartInv(j)'
      BY <2>1, <3>1, <3>2, <3>3, <3>4 DEF StartInv, NewFile
    <3>6. QED
      BY <2>2, <3>5 DEF StartInv, TogglePoints, StartPoints, StopPoints
  <2>8. \A k \in Jobs : StopInv(k)'
    BY <1>c, <2>1, <2>2 DEF StopInv, TogglePoints, StartPoints, StopPoints
  <2>9. QED
    BY <2>3, <2>4, <2>5, <2>6, <2>7, <2>8 DEF MicInv
<1>13. ASSUME NEW j \in Jobs, NEW t \in Threads, StartThread(j, t) PROVE MicInv'
  <2>1. /\ pc[j] = "starting" /\ pc'[j] = "idle" /\ Take(j, "start")
        /\ recorder' = t /\ phase'[t] = "recording" /\ output'[t] = Head(execQ).file /\ ~quit'[t]
        /\ \A s \in Threads \ {t} : phase'[s] = phase[s] /\ output'[s] = output[s]
        /\ pc' = [pc EXCEPT ![j] = "idle"] /\ jfile'[j] = NoFile
        /\ \A k \in Jobs \ {j} : jfile'[k] = jfile[k]
        /\ UNCHANGED <<joining, isRecording, recordedFile, mainQ, err, notes, named>>
    BY <1>13, <1>a, <1>b, <1>d DEF StartThread, StartRecording, Goto
  <2>2. \A k \in Jobs \ {j} : pc'[k] = pc[k] /\ pc[k] \notin TogglePoints
    BY <1>a, <1>c, <2>1 DEF OneToggle, TogglePoints, StartPoints, StopPoints
  <2>3. OneToggle'
    BY <2>1, <2>2 DEF OneToggle, TogglePoints, StartPoints, StopPoints
  <2>a. /\ isRecording /\ recordedFile = jfile[j] /\ NewFile(jfile[j])
        /\ \A s \in Threads : err[s] = "none" /\ ~Alive(s)
        /\ execQ = <<[op |-> "start", job |-> j, file |-> jfile[j]]>> /\ joining = NoJob
    BY <1>c, <2>1 DEF StartInv, ThreadInv, StartPoints
  <2>b. execQ' = <<>> /\ output'[t] = recordedFile
    BY <2>1, <2>a DEF Take
  <2>4. RecordingInv'
    BY <2>1, <2>a, <2>b DEF RecordingInv, Alive
  <2>5. FilesInv'
    BY <1>c, <2>1, <2>a, <2>b, RecorderAssumption DEF FilesInv
  <2>6. \A s \in Threads : ThreadInv(s)'
    <3>1. NewFile(recordedFile)'
      BY <2>1, <2>2, <2>a DEF NewFile, TranscribePoints
    <3>2. ThreadInv(t)'
      BY <2>1, <2>2, <2>a, <2>b, <3>1 DEF ThreadInv, Alive, NewFile, TogglePoints, StartPoints, StopPoints
    <3>3. QED
      BY <2>1, <2>a, <3>2 DEF ThreadInv, Alive
  <2>7. \A k \in Jobs : StartInv(k)'
    BY <2>1, <2>2 DEF StartInv, TogglePoints, StartPoints, StopPoints
  <2>8. \A k \in Jobs : StopInv(k)'
    BY <2>1, <2>2 DEF StopInv, TogglePoints, StartPoints, StopPoints
  <2>9. QED
    BY <2>3, <2>4, <2>5, <2>6, <2>7, <2>8 DEF MicInv
<1>14. ASSUME NEW j \in Jobs, StopThread(j) PROVE MicInv'
  <2>1. /\ Take(j, "stop") /\ joining' = j /\ quit' = [quit EXCEPT ![recorder] = TRUE]
        /\ UNCHANGED <<pc, recorder, phase, output, isRecording, recordedFile, jfile, mainQ, err, notes, named>>
    BY <1>14, <1>d DEF StopThread, StopRecording, jobVars
  <2>2. pc[j] = "stopping" /\ execQ' = <<>>
    <3>1. PICK k \in Jobs : pc[k] \in {"starting", "stopping"}
      BY <1>c, <2>1 DEF RecordingInv, Take
    <3>2. pc[k] # "starting"
      BY <1>c, <2>1 DEF StartInv, Take
    <3>3. k = j /\ execQ = <<[op |-> "stop", job |-> k]>>
      BY <1>c, <2>1, <3>1, <3>2 DEF StopInv, Take
    <3>4. QED
      BY <2>1, <3>1, <3>2, <3>3 DEF Take
  <2>3. OneToggle'
    BY <1>c, <2>1 DEF OneToggle
  <2>4. RecordingInv'
    BY <1>c, <2>1, <2>2 DEF RecordingInv, Alive
  <2>5. FilesInv'
    BY <1>c, <2>1 DEF FilesInv
  <2>6. \A t \in Threads : ThreadInv(t)'
    BY <1>c, <2>1, RecorderAssumption DEF ThreadInv, Alive, NewFile
  <2>7. \A k \in Jobs : StartInv(k)'
    BY <1>c, <2>1, <2>2 DEF StartInv, Ahead, NewFile, OneToggle, TogglePoints, StartPoints, StopPoints
  <2>8. \A k \in Jobs : StopInv(k)'
    BY <1>c, <2>1, <2>2 DEF StopInv, OneToggle, TogglePoints, StartPoints, StopPoints
  <2>9. QED
    BY <2>3, <2>4, <2>5, <2>6, <2>7, <2>8 DEF MicInv
<1>15. ASSUME NEW j \in Jobs, StopReturns(j) PROVE MicInv'
  <2>a. pc[j] = "stopping" /\ recorder \in Threads
    BY <1>15, <1>c DEF StopReturns, StopInv
  <2>b. ~StopNothing(j)
    BY <2>a, RecorderAssumption DEF StopNothing
  <2>1. /\ joining = j /\ ~Alive(recorder) /\ joining' = NoJob
        /\ pc'[j] = "joined" /\ pc' = [pc EXCEPT ![j] = "joined"]
        /\ UNCHANGED <<execQ, phase, output, quit, isRecording, recordedFile, jfile, err, notes, named>>
    BY <1>15, <1>a, <1>d, <2>b DEF StopReturns, Joined, Resume, Goto
  <2>2. \A k \in Jobs \ {j} : pc'[k] = pc[k] /\ pc[k] \notin TogglePoints
    BY <1>a, <1>c, <2>1, <2>a DEF OneToggle, TogglePoints, StartPoints, StopPoints
  <2>3. OneToggle'
    BY <2>2 DEF OneToggle
  <2>4. RecordingInv'
    BY <1>c, <2>1, <2>a, RecorderAssumption DEF RecordingInv, StopInv
  <2>5. FilesInv'
    BY <1>c, <2>1 DEF FilesInv
  <2>6. \A t \in Threads : ThreadInv(t)'
    BY <1>c, <2>1 DEF ThreadInv, Alive
  <2>7. \A k \in Jobs : StartInv(k)'
    BY <2>1, <2>2 DEF StartInv, TogglePoints, StartPoints, StopPoints
  <2>8. \A k \in Jobs : StopInv(k)'
    BY <2>1, <2>2 DEF StopInv, TogglePoints, StartPoints, StopPoints
  <2>9. QED
    BY <2>3, <2>4, <2>5, <2>6, <2>7, <2>8 DEF MicInv
<1>16. ASSUME NEW j \in Jobs, RecordingStopped(j) PROVE MicInv'
  <2>a. pc[j] = "joined" /\ isRecording' = FALSE
    BY <1>16, <1>c DEF RecordingStopped, StopInv
  <2>1. /\ pc'[j] \in {"reading", "idle"}
        /\ jfile'[j] \in {recordedFile, jfile[j]}
        /\ \A k \in Jobs \ {j} : pc'[k] = pc[k] /\ jfile'[k] = jfile[k]
        /\ UNCHANGED <<recorderVars, recordedFile, err, notes, named>>
    BY <1>16, <1>a DEF RecordingStopped, EnterTranscribe, Suspend, Goto
  <2>2. \A k \in Jobs : pc'[k] \notin TogglePoints
    BY <1>a, <1>c, <2>1, <2>a DEF OneToggle, TogglePoints, StartPoints, StopPoints
  <2>3. OneToggle'
    BY <2>2 DEF OneToggle
  <2>4. RecordingInv'
    BY <1>c, <2>1, <2>a DEF RecordingInv, OneToggle, recorderVars, TogglePoints, StartPoints, StopPoints
  <2>5. FilesInv'
    BY <1>c, <2>1 DEF FilesInv, recorderVars
  <2>6. \A t \in Threads : ThreadInv(t)'
    BY <1>c, <2>1, <2>a DEF ThreadInv, Alive, recorderVars
  <2>7. \A k \in Jobs : StartInv(k)'
    BY <2>2 DEF StartInv, TogglePoints, StartPoints, StopPoints
  <2>8. \A k \in Jobs : StopInv(k)'
    BY <2>2 DEF StopInv, TogglePoints, StartPoints, StopPoints
  <2>9. QED
    BY <2>3, <2>4, <2>5, <2>6, <2>7, <2>8 DEF MicInv
<1>17. ASSUME NEW t \in Threads, ThreadReads(t) PROVE MicInv'
  <2>1. UNCHANGED <<execQ, joining, recorder, phase, output, quit, pc, isRecording, recordedFile, jfile, mainQ, err, notes, named>>
    BY <1>17, <1>d DEF ThreadReads, ReadSamples, jobVars
  <2>2. QED
    BY <2>1, StayMic
<1>18. ASSUME NEW t \in Threads, ThreadQuits(t) PROVE MicInv'
  <2>1. /\ Alive(t) /\ quit[t] /\ phase'[t] = "encoding"
        /\ \A s \in Threads \ {t} : phase'[s] = phase[s]
        /\ UNCHANGED <<execQ, joining, recorder, output, quit, pc, isRecording, recordedFile, jfile, mainQ, err, notes, named>>
    BY <1>18, <1>b, <1>d DEF ThreadQuits, BeginEncode, jobVars, Alive
  <2>2. \A s \in Threads : Alive(s)' <=> Alive(s)
    BY <2>1 DEF Alive
  <2>3. OneToggle'
    BY <1>c, <2>1 DEF OneToggle
  <2>4. RecordingInv'
    BY <1>c, <2>1, <2>2 DEF RecordingInv
  <2>5. FilesInv'
    BY <1>c, <2>1 DEF FilesInv
  <2>6. \A s \in Threads : ThreadInv(s)'
    BY <1>c, <2>1, <2>2 DEF ThreadInv, NewFile
  <2>7. \A k \in Jobs : StartInv(k)'
    BY <1>c, <2>1 DEF ThreadInv, StartInv, StartPoints
  <2>8. \A k \in Jobs : StopInv(k)'
    BY <1>c, <2>1 DEF StopInv
  <2>9. QED
    BY <2>3, <2>4, <2>5, <2>6, <2>7, <2>8 DEF MicInv
<1>19. ASSUME NEW t \in Threads, ThreadEncodes(t) PROVE MicInv'
  <2>1. /\ phase[t] = "encoding" /\ phase'[t] = "dead"
        /\ \A s \in Threads \ {t} : phase'[s] = phase[s]
        /\ UNCHANGED <<execQ, joining, recorder, output, quit, pc, isRecording, recordedFile, jfile, mainQ, err, notes, named>>
    BY <1>19, <1>b, <1>d DEF ThreadEncodes, Encode, jobVars
  <2>2. recorder = t /\ \A k \in Jobs : pc[k] \notin StartPoints
    BY <1>c, <2>1 DEF ThreadInv, Alive
  <2>3. OneToggle'
    BY <1>c, <2>1 DEF OneToggle
  <2>4. RecordingInv'
    <3>1. \E k \in Jobs : pc[k] = "stopping"
      BY <1>c, <2>1, <2>2 DEF ThreadInv, Alive, RecordingInv, StartPoints
    <3>2. QED
      BY <1>c, <2>1, <3>1 DEF RecordingInv
  <2>5. FilesInv'
    BY <1>c, <2>1 DEF FilesInv
  <2>6. \A s \in Threads : ThreadInv(s)'
    BY <1>c, <2>1, <2>2 DEF ThreadInv, Alive
  <2>7. \A k \in Jobs : StartInv(k)'
    BY <2>1, <2>2 DEF StartInv, StartPoints
  <2>8. \A k \in Jobs : StopInv(k)'
    BY <1>c, <2>1 DEF StopInv
  <2>9. QED
    BY <2>3, <2>4, <2>5, <2>6, <2>7, <2>8 DEF MicInv
<1>20. ASSUME NEW t \in Threads, ThreadFails(t) PROVE MicInv'
  <2>1. /\ Alive(t) /\ phase'[t] = "dead" /\ err'[t] = "launch"
        /\ \A s \in Threads \ {t} : phase'[s] = phase[s] /\ err'[s] = err[s]
        /\ UNCHANGED <<execQ, joining, recorder, output, quit, pc, isRecording, recordedFile, jfile, notes, named>>
    BY <1>20, <1>a, <1>b, <1>d DEF ThreadFails, Fail
  <2>2. recorder = t /\ \A k \in Jobs : pc[k] \notin StartPoints
    BY <1>c, <2>1 DEF ThreadInv
  <2>3. OneToggle'
    BY <1>c, <2>1 DEF OneToggle
  <2>4. RecordingInv'
    BY <1>c, <2>1, <2>2 DEF RecordingInv
  <2>5. FilesInv'
    BY <1>c, <2>1 DEF FilesInv
  <2>6. \A s \in Threads : ThreadInv(s)'
    BY <1>c, <2>1, <2>2 DEF ThreadInv, Alive
  <2>7. \A k \in Jobs : StartInv(k)'
    BY <2>1, <2>2 DEF StartInv, StartPoints
  <2>8. \A k \in Jobs : StopInv(k)'
    BY <1>c, <2>1 DEF StopInv
  <2>9. QED
    BY <2>3, <2>4, <2>5, <2>6, <2>7, <2>8 DEF MicInv
<1>21. ASSUME NEW t \in Threads, LaunchError(t) PROVE MicInv'
  <2>1. /\ Turn(t) /\ err[t] = "launch" /\ err'[t] = "set" /\ mainQ' = Append(Tail(mainQ), t)
        /\ \A s \in Threads \ {t} : err'[s] = err[s]
        /\ UNCHANGED <<recorderVars, pc, isRecording, recordedFile, jfile, notes, named>>
    BY <1>21, <1>a, <1>d DEF LaunchError
  <2>2. \A s \in Threads \ {t}, k \in Jobs : Ahead(s, k) => Ahead(s, k)'
    BY <1>a, <2>1, AheadKept, MembersApart
  <2>3. OneToggle'
    BY <1>c, <2>1 DEF OneToggle
  <2>4. RecordingInv'
    BY <1>c, <2>1 DEF RecordingInv, Alive, recorderVars
  <2>5. FilesInv'
    BY <1>c, <2>1 DEF FilesInv, recorderVars
  <2>6. \A s \in Threads : ThreadInv(s)'
    BY <1>c, <2>1 DEF ThreadInv, Alive, recorderVars
  <2>7. ASSUME NEW k \in Jobs PROVE StartInv(k)'
    <3>1. pc[k] \notin {"naming", "named", "starting"}
      BY <1>c, <2>1 DEF StartInv
    <3>2. pc[k] = "clearing" => \A s \in Threads : err'[s] = "launch" => Ahead(s, k)'
      BY <1>c, <2>1, <2>2 DEF StartInv
    <3>3. QED
      BY <1>c, <2>1, <3>1, <3>2 DEF StartInv
  <2>8. \A k \in Jobs : StopInv(k)'
    BY <1>c, <2>1 DEF StopInv, recorderVars
  <2>9. QED
    BY <2>3, <2>4, <2>5, <2>6, <2>7, <2>8 DEF MicInv
<1>22. ASSUME NEW t \in Threads, OnError(t) PROVE MicInv'
  <2>1. /\ Turn(t) /\ err[t] = "set" /\ err'[t] = "none" /\ mainQ' = Tail(mainQ) /\ isRecording' = FALSE
        /\ \A s \in Threads \ {t} : err'[s] = err[s]
        /\ UNCHANGED <<recorderVars, pc, recordedFile, jfile, notes, named>>
    BY <1>22, <1>a DEF OnError
  <2>2. \A s \in Threads \ {t}, k \in Jobs : Ahead(s, k) => Ahead(s, k)'
    BY <1>a, <2>1, AheadKept, MembersApart
  <2>3. OneToggle'
    BY <1>c, <2>1 DEF OneToggle
  <2>4. RecordingInv'
    BY <1>c, <2>1 DEF RecordingInv, recorderVars
  <2>5. FilesInv'
    BY <1>c, <2>1 DEF FilesInv, recorderVars
  <2>6. \A s \in Threads : ThreadInv(s)'
    BY <1>c, <2>1 DEF ThreadInv, Alive, recorderVars
  <2>7. ASSUME NEW k \in Jobs PROVE StartInv(k)'
    <3>1. pc[k] # "starting"
      BY <1>c, <2>1 DEF StartInv
    <3>2. NewFile(jfile[k]) => NewFile(jfile[k])'
      BY <2>1 DEF NewFile
    <3>3. QED
      BY <1>c, <2>1, <2>2, <3>1, <3>2 DEF StartInv, NewFile
  <2>8. \A k \in Jobs : StopInv(k)'
    BY <1>c, <2>1 DEF StopInv, recorderVars
  <2>9. QED
    BY <2>3, <2>4, <2>5, <2>6, <2>7, <2>8 DEF MicInv
<1>23. CASE LoadBaseModel \/ DataLoaded
  <2>1. UNCHANGED <<recorderVars, pc, isRecording, recordedFile, jfile, err, notes, named>>
    BY <1>23, <1>d DEF LoadBaseModel, DataLoaded
  <2>2. \A t \in Threads, k \in Jobs : Ahead(t, k) => Ahead(t, k)'
    <3>1. SUFFICES ASSUME NEW t \in Threads, NEW k \in Jobs, Ahead(t, k) PROVE Ahead(t, k)'
      OBVIOUS
    <3>2. mainQ' = Append(mainQ, Loader) \/ (Turn(Loader) /\ mainQ' = Tail(mainQ))
      BY <1>23 DEF LoadBaseModel, DataLoaded
    <3>3. QED
      BY <1>a, <3>1, <3>2, AheadKept, MembersApart
  <2>3. QED
    BY <2>1, <2>2, StayMic DEF recorderVars
<1>24. QED
  BY <1>1, <1>2, <1>3, <1>4, <1>5, <1>6, <1>7, <1>8, <1>9, <1>10, <1>11, <1>12, <1>13, <1>14, <1>15, <1>16, <1>17, <1>18, <1>19, <1>20, <1>21, <1>22, <1>23
  DEF System, MainThread, Background, RecorderExecutor, AudioRecorder

\* The calls a user who waits can make.
LEMMA ToggleStartMic ==
  ASSUME TypeOK, QueueInv, MicInv, NEW j \in Jobs, ToggleStart(j), At(TogglePoints) = {}
  PROVE  MicInv'
<1> USE DEF TogglePoints, StartPoints, StopPoints
<1>1. /\ pc'[j] = "clearing" /\ ~isRecording /\ mainQ' = Append(mainQ, j)
      /\ \A k \in Jobs \ {j} : pc'[k] = pc[k]
      /\ UNCHANGED <<recorderVars, isRecording, recordedFile, jfile, err, notes, named>>
  BY DEF ToggleStart, Resume, Goto, viewVars, TypeOK, DataTypeOK
<1>2. \A k \in Jobs : pc[k] \notin TogglePoints
  BY DEF At
<1>3. OneToggle'
  BY <1>1, <1>2 DEF OneToggle
<1>4. RecordingInv'
  BY <1>1, <1>2 DEF MicInv, RecordingInv, recorderVars
<1>5. FilesInv'
  BY <1>1 DEF MicInv, FilesInv, recorderVars
<1>6. \A t \in Threads : ThreadInv(t)'
  BY <1>1 DEF MicInv, ThreadInv, Alive, recorderVars
<1>7. \A k \in Jobs : StartInv(k)'
  <2>1. ASSUME NEW t \in Threads, err[t] = "launch" PROVE Ahead(t, j)'
    <3>1. Queued(t) /\ mainQ \in Seq(Members)
      BY <2>1, MembersApart DEF QueueInv, Waits, TypeOK, DataTypeOK, Members
    <3>2. QED
      BY <1>1, <3>1, AheadOfLast, MembersApart
  <2>2. StartInv(j)'
    BY <1>1, <2>1 DEF StartInv
  <2>3. QED
    BY <1>1, <1>2, <2>2 DEF StartInv
<1>8. \A k \in Jobs : StopInv(k)'
  BY <1>1, <1>2 DEF StopInv
<1>9. QED
  BY <1>3, <1>4, <1>5, <1>6, <1>7, <1>8 DEF MicInv

LEMMA ToggleStopMic ==
  ASSUME TypeOK, MicInv, NEW j \in Jobs, ToggleStop(j), At(TogglePoints) = {}
  PROVE  MicInv'
<1> USE DEF TogglePoints, StartPoints, StopPoints
<1>1. /\ pc'[j] = "stopping" /\ isRecording /\ execQ' = Append(execQ, [op |-> "stop", job |-> j])
      /\ \A k \in Jobs \ {j} : pc'[k] = pc[k]
      /\ UNCHANGED <<joining, recorder, phase, output, quit, isRecording, recordedFile>>
      /\ UNCHANGED <<jfile, mainQ, err, notes, named>>
  BY DEF ToggleStop, CallStop, Goto, viewVars, TypeOK, DataTypeOK
<1>2. \A k \in Jobs : pc[k] \notin TogglePoints
  BY DEF At
<1>3. OneToggle'
  BY <1>1, <1>2 DEF OneToggle
<1>4. RecordingInv'
  BY <1>1, <1>2 DEF MicInv, RecordingInv
<1>5. FilesInv'
  BY <1>1 DEF MicInv, FilesInv
<1>6. \A t \in Threads : ThreadInv(t)'
  BY <1>1, <1>2 DEF MicInv, ThreadInv, Alive, NewFile, TranscribePoints
<1>7. \A k \in Jobs : StartInv(k)'
  BY <1>1, <1>2 DEF StartInv
<1>8. \A k \in Jobs : StopInv(k)'
  <2>1. /\ recorder \in Threads /\ output[recorder] = recordedFile
        /\ execQ = <<>> /\ joining = NoJob
    BY <1>1, <1>2 DEF MicInv, RecordingInv
  <2>2. StopInv(j)'
    BY <1>1, <2>1 DEF StopInv
  <2>3. QED
    BY <1>1, <1>2, <2>2 DEF StopInv
<1>9. QED
  BY <1>3, <1>4, <1>5, <1>6, <1>7, <1>8 DEF MicInv

LEMMA TranscribeFileMic ==
  ASSUME TypeOK, MicInv, NEW j \in Jobs, NEW f \in Files, TranscribeFile(j, f)
  PROVE  MicInv'
<1>1. /\ pc[j] = "idle" /\ f \notin named /\ named' = named \cup {f}
      /\ UNCHANGED <<execQ, joining, recorder, phase, output, quit, isRecording>>
      /\ UNCHANGED <<recordedFile, mainQ, err, notes>>
  BY DEF TranscribeFile
<1>2. \E p \in {"reading", "idle"} : pc' = [pc EXCEPT ![j] = p]
  <2>1. pc = [pc EXCEPT ![j] = "idle"]
    BY <1>1 DEF TypeOK, DataTypeOK
  <2>2. QED
    BY <2>1 DEF TranscribeFile, Goto
<1>3. /\ \A k \in Jobs \ {j} : pc'[k] = pc[k] /\ jfile'[k] = jfile[k]
      /\ jfile'[j] \in {jfile[j], f}
      /\ pc'[j] \in TranscribePoints => jfile'[j] = f
  BY <1>1, <1>2 DEF TranscribeFile, EnterTranscribe, TypeOK, DataTypeOK, TranscribePoints
<1>4. \A g \in named : NewFile(g) => NewFile(g)'
  BY <1>1, <1>3 DEF NewFile
<1>5. FilesInv'
  BY <1>1, <1>3 DEF MicInv, FilesInv
<1>6. QED
  BY <1>1, <1>2, <1>3, <1>4, <1>5, Bystander DEF TogglePoints, StartPoints, StopPoints

LEMMA DeleteNoteMic ==
  ASSUME TypeOK, MicInv, NEW j \in Jobs, NEW f \in Files, DeleteNote(j, f)
  PROVE  MicInv'
<1>1. /\ pc[j] = "idle" /\ pc' = [pc EXCEPT ![j] = "deleting"] /\ notes[f] > 0
      /\ pc'[j] = "deleting" /\ jfile'[j] = f
      /\ \A k \in Jobs \ {j} : pc'[k] = pc[k] /\ jfile'[k] = jfile[k]
      /\ UNCHANGED <<recorderVars, isRecording, recordedFile, mainQ, err, notes, named>>
  BY DEF DeleteNote, Goto, viewVars, TypeOK, DataTypeOK
<1>2. \A g \in named : NewFile(g) => NewFile(g)'
  BY <1>1 DEF NewFile, TranscribePoints
<1>3. FilesInv'
  BY <1>1 DEF MicInv, FilesInv, recorderVars
<1>4. QED
  BY <1>1, <1>2, <1>3, Bystander DEF recorderVars, TogglePoints, StartPoints, StopPoints

-----------------------------------------------------------------------------
(* The screens.                                                            *)

ScreenTypeOK == screen \in {"main", "list"} \cup Files

\* The Record button is composed while isRecording is false, and Stop while it
\* is true: no note's details could be taken for one of them.
LEMMA Buttons ==
  ASSUME ScreenTypeOK
  PROVE  (View = "ready" => ~isRecording) /\ (View = "recording" => isRecording)
<1>1. CASE screen = "main"
  BY <1>1 DEF View
<1>2. CASE screen # "main"
  <2>1. View = screen
    BY <1>2 DEF View
  <2>2. QED
    BY <2>1, ActivityAssumption DEF ScreenTypeOK
<1>3. QED
  BY <1>1, <1>2

\* A user who waits taps what is true, with no toggleRecord under way.
LEMMA TapIsTrue ==
  ASSUME Patient, NEW v, Tap(v)
  PROVE  View = v /\ At(TogglePoints) = {}
  BY DEF Tap, Settled, TogglePoints

AppInv == Patient /\ ScreenTypeOK /\ MicInv

LEMMA StepApp == TypeOK /\ QueueInv /\ AppInv /\ [AppNext]_appVars => AppInv'
<1> SUFFICES ASSUME TypeOK, QueueInv, AppInv, [AppNext]_appVars PROVE ScreenTypeOK' /\ MicInv'
  BY DEF AppInv
<1> USE DEF AppInv
<1>a. UNCHANGED vars => MicInv'
  BY StayMic DEF vars, recorderVars, viewVars, jobVars
<1>b. UNCHANGED screen => ScreenTypeOK'
  BY DEF ScreenTypeOK
<1>1. CASE TapRecord
  <2>1. PICK j \in Jobs : ToggleRecord(j)
    BY <1>1 DEF TapRecord
  <2>2. ~isRecording /\ At(TogglePoints) = {}
    BY <1>1, TapIsTrue, Buttons DEF TapRecord
  <2>3. MicInv'
    BY <2>1, <2>2, ToggleStartMic DEF ToggleRecord, ToggleStop
  <2>4. QED
    BY <1>1, <1>b, <2>3 DEF TapRecord, screenVars
<1>2. CASE TapStop
  <2>1. PICK j \in Jobs : ToggleRecord(j)
    BY <1>2 DEF TapStop
  <2>2. isRecording /\ At(TogglePoints) = {}
    BY <1>2, TapIsTrue, Buttons DEF TapStop
  <2>3. MicInv'
    BY <2>1, <2>2, ToggleStopMic DEF ToggleRecord, ToggleStart
  <2>4. QED
    BY <1>2, <1>b, <2>3 DEF TapStop, screenVars
<1>3. CASE FileSelected
  BY <1>3, <1>b, TranscribeFileMic DEF FileSelected
<1>4. ASSUME NEW f \in Files, TapDelete(f) PROVE ScreenTypeOK' /\ MicInv'
  BY <1>4, <1>b, DeleteNoteMic DEF TapDelete, screenVars
<1>5. CASE SelectFile \/ SelectionCancelled \/ UNCHANGED appVars
  BY <1>5, <1>a, <1>b DEF SelectFile, SelectionCancelled, appVars, screenVars
<1>6. CASE ViewNotes \/ Back \/ (\E f \in Files : OpenNote(f)) \/ Recreate
  BY <1>6, <1>a DEF ViewNotes, Back, OpenNote, Navigate, Recreate, ScreenTypeOK
<1>7. CASE Recompose
  <2>1. ScreenTypeOK'
    BY <1>7 DEF Recompose, ScreenTypeOK, TypeOK, DataTypeOK
  <2>2. QED
    BY <1>7, <1>a, <2>1 DEF Recompose
<1>8. CASE System /\ UNCHANGED screenVars
  BY <1>8, <1>b, SystemMic DEF screenVars
<1>9. QED
  BY <1>1, <1>2, <1>3, <1>4, <1>5, <1>6, <1>7, <1>8 DEF AppNext, User

LEMMA AppInvariance == Patient /\ AppSpec => []AppInv
<1>1. Patient /\ AppInit => AppInv
  BY InitMic DEF AppInit, AppInv, ScreenTypeOK
<1>2. AppSpec => [](TypeOK /\ QueueInv)
  BY ScreensImplementViewModel, TypeInvariance, QueueInvariance, PTL
<1>3. QED
  BY <1>1, <1>2, StepApp, PTL DEF AppSpec

\* For a user who waits, what the screen says of the microphone is true, and no
\* recording thread is left behind by the one that replaced it.
THEOREM MicrophoneIsShown == Patient /\ AppSpec => []MicrophoneMatchesScreen
<1>1. MicInv => MicrophoneMatchesScreen
  <2> SUFFICES ASSUME MicInv PROVE MicrophoneMatchesScreen
    OBVIOUS
  <2>1. ASSUME Quiet, isRecording PROVE \E t \in Threads : Alive(t)
    BY <2>1 DEF Quiet, At, StartPoints, StopPoints, MicInv, RecordingInv
  <2>2. \A t \in Threads : Alive(t) => isRecording /\ recorder = t
    BY DEF MicInv, ThreadInv
  <2>3. QED
    BY <2>1, <2>2 DEF MicrophoneMatchesScreen
<1>2. QED
  BY <1>1, AppInvariance, PTL DEF AppInv

\* The thread that stopRecording() joins is the one that writes the file
\* toggleRecord then transcribes.
THEOREM StopsItsOwn == Patient /\ AppSpec => []StopsItsOwnRecording
<1>1. MicInv => StopsItsOwnRecording
  BY DEF MicInv, RecordingInv, StopInv, StartInv, StopsItsOwnRecording
<1>2. QED
  BY <1>1, AppInvariance, PTL DEF AppInv

\* Audio that is decoded, or kept with a note, is no longer written.
THEOREM AudioIsFinishedAlways == Patient /\ AppSpec => []AudioIsFinished
<1>1. MicInv => AudioIsFinished
  BY DEF MicInv, ThreadInv, NewFile, AudioIsFinished, At, TranscribePoints
<1>2. QED
  BY <1>1, AppInvariance, PTL DEF AppInv

-----------------------------------------------------------------------------
(* Stop is not in vain: transcribeAudio's guard lets toggleRecord in.      *)

\* From the tap on Record until the recording was stopped nobody else may
\* transcribe: no file is being picked, and canTranscribe stays true.
RecorderReady == isRecording \/ At(TogglePoints) # {} => canTranscribe /\ ~picker

LEMMA SystemReady ==
  TypeOK /\ LockInv /\ MicInv /\ RecorderReady /\ System /\ UNCHANGED picker => RecorderReady'
<1> SUFFICES ASSUME TypeOK, LockInv, MicInv, RecorderReady, System, UNCHANGED picker
             PROVE  RecorderReady'
  OBVIOUS
<1> USE DEF TogglePoints, StartPoints, StopPoints
<1>a. pc \in [Jobs -> JobPoints]
  BY DEF TypeOK, DataTypeOK
<1>b. ASSUME isRecording' => isRecording \/ At(TogglePoints) # {},
             \A j \in Jobs : pc'[j] \in TogglePoints => pc[j] \in TogglePoints,
             canTranscribe => canTranscribe'
      PROVE  RecorderReady'
  BY <1>b DEF RecorderReady, At
<1>1. ASSUME NEW j \in Jobs, Decode(j) \/ Transcribe(j) \/ TranscribeData(j) \/ SaveNote(j)
      PROVE  RecorderReady'
  BY <1>1, <1>a, <1>b DEF Decode, Transcribe, TranscribeData, SaveNote, Resume, Suspend, Goto, viewVars
<1>2. ASSUME NEW j \in Jobs, InsertNote(j) \/ TranscribeReturns(j) \/ BenchMemory(j) \/ BenchmarkReturns(j)
      PROVE  RecorderReady'
  BY <1>2, <1>a, <1>b DEF InsertNote, TranscribeReturns, BenchMemory, BenchmarkReturns,
     Resume, Suspend, Goto, viewVars
<1>3. ASSUME NEW j \in Jobs, ClearNote(j) \/ \E f \in Files : GetTempFileForRecording(j, f)
      PROVE  RecorderReady'
  BY <1>3, <1>a, <1>b DEF ClearNote, GetTempFileForRecording, Resume, Suspend, Goto, viewVars
<1>4. ASSUME NEW j \in Jobs, BeginRecording(j) PROVE RecorderReady'
  BY <1>4, <1>a, <1>b DEF BeginRecording, Suspend, Goto, At
<1>5. ASSUME NEW j \in Jobs, NoteDeleted(j) \/ \E t \in Threads : StartThread(j, t) PROVE RecorderReady'
  BY <1>5, <1>a, <1>b DEF NoteDeleted, StartThread, Goto, viewVars
<1>6. ASSUME NEW j \in Jobs, StopThread(j) \/ StopReturns(j) PROVE RecorderReady'
  BY <1>6, <1>a, <1>b DEF StopThread, StopReturns, Resume, Goto, viewVars, jobVars
<1>7. ASSUME NEW j \in Jobs, RecordingStopped(j) PROVE RecorderReady'
  BY <1>7, <1>a DEF RecordingStopped, Suspend, Goto, MicInv, OneToggle, RecorderReady, At
<1>8. ASSUME NEW t \in Threads, ThreadReads(t) \/ ThreadQuits(t) \/ ThreadEncodes(t) PROVE RecorderReady'
  BY <1>8, <1>b DEF ThreadReads, ThreadQuits, ThreadEncodes, viewVars, jobVars
<1>9. ASSUME NEW t \in Threads, ThreadFails(t) \/ LaunchError(t) \/ OnError(t) PROVE RecorderReady'
  BY <1>9, <1>b DEF ThreadFails, LaunchError, OnError, viewVars
<1>10. CASE LoadBaseModel
  BY <1>10, <1>b DEF LoadBaseModel, viewVars
<1>11. CASE DataLoaded
  BY <1>11, <1>b DEF DataLoaded, LockInv
<1>12. QED
  BY <1>1, <1>2, <1>3, <1>4, <1>5, <1>6, <1>7, <1>8, <1>9, <1>10, <1>11
  DEF System, MainThread, Background, RecorderExecutor, AudioRecorder

LEMMA ReadyView == ScreenTypeOK /\ View = "ready" => canTranscribe /\ ~isRecording
<1> SUFFICES ASSUME ScreenTypeOK, View = "ready" PROVE canTranscribe /\ ~isRecording
  OBVIOUS
<1>1. screen = "main"
  BY ActivityAssumption DEF View, ScreenTypeOK
<1>2. QED
  BY <1>1 DEF View

LEMMA StepReady ==
  TypeOK /\ LockInv /\ AppInv /\ RecorderReady /\ [AppNext]_appVars => RecorderReady'
<1> SUFFICES ASSUME TypeOK, LockInv, AppInv, RecorderReady, [AppNext]_appVars PROVE RecorderReady'
  OBVIOUS
<1> USE DEF AppInv, RecorderReady
<1>1. CASE TapRecord
  <2>1. canTranscribe /\ ~picker
    BY <1>1, TapIsTrue, ReadyView DEF TapRecord, Tap
  <2>2. UNCHANGED <<canTranscribe, picker>>
    BY <1>1 DEF TapRecord, screenVars, ToggleRecord, ToggleStart, ToggleStop, viewVars
  <2>3. QED
    BY <2>1, <2>2
<1>2. CASE TapStop
  <2>1. isRecording
    BY <1>2, TapIsTrue, Buttons DEF TapStop
  <2>2. UNCHANGED <<canTranscribe, picker>>
    BY <1>2 DEF TapStop, screenVars, ToggleRecord, ToggleStart, ToggleStop, viewVars
  <2>3. QED
    BY <2>1, <2>2
<1>3. CASE SelectFile
  <2>1. ~isRecording /\ At(TogglePoints) = {}
    BY <1>3, TapIsTrue, Buttons DEF SelectFile
  <2>2. QED
    BY <1>3, <2>1 DEF SelectFile, vars, viewVars, jobVars, At
<1>4. CASE FileSelected
  <2>1. ~isRecording /\ \A j \in Jobs : pc[j] \notin TogglePoints
    BY <1>4 DEF FileSelected, At
  <2>2. isRecording' = isRecording /\ \A j \in Jobs : pc'[j] \in {pc[j], "reading"}
    BY <1>4 DEF FileSelected, TranscribeFile, Goto, TypeOK, DataTypeOK
  <2>3. QED
    BY <2>1, <2>2 DEF At, TogglePoints, StartPoints, StopPoints
<1>5. ASSUME NEW f \in Files, TapDelete(f) PROVE RecorderReady'
  <2>1. UNCHANGED <<canTranscribe, isRecording, picker>> /\ \A j \in Jobs : pc'[j] \in {pc[j], "deleting"}
    BY <1>5 DEF TapDelete, DeleteNote, Goto, viewVars, screenVars, TypeOK, DataTypeOK
  <2>2. QED
    BY <2>1 DEF At, TogglePoints, StartPoints, StopPoints
<1>6. CASE SelectionCancelled \/ Recompose \/ UNCHANGED appVars
  BY <1>6 DEF SelectionCancelled, Recompose, appVars, screenVars, vars, viewVars, jobVars, At
<1>7. CASE ViewNotes \/ Back \/ (\E f \in Files : OpenNote(f)) \/ Recreate
  BY <1>7 DEF ViewNotes, Back, OpenNote, Navigate, Recreate, vars, viewVars, jobVars, At
<1>8. CASE System /\ UNCHANGED screenVars
  BY <1>8, SystemReady DEF screenVars
<1>9. QED
  BY <1>1, <1>2, <1>3, <1>4, <1>5, <1>6, <1>7, <1>8 DEF AppNext, User

\* Nothing but RecordingStopped takes a job from where its recording has ended.
LEMMA JoinedUntilStopped ==
  ASSUME TypeOK, [Next]_vars, NEW j \in Jobs, pc[j] = "joined", pc'[j] # "joined"
  PROVE  RecordingStopped(j)
<1>a. pc \in [Jobs -> JobPoints]
  BY DEF TypeOK, DataTypeOK
<1>b. ~UNCHANGED pc
  OBVIOUS
<1>1. ASSUME NEW k \in Jobs,
             \/ Decode(k) \/ Transcribe(k) \/ TranscribeData(k) \/ SaveNote(k) \/ InsertNote(k)
             \/ TranscribeReturns(k) \/ ToggleStart(k) \/ ClearNote(k)
             \/ \E f \in Files : GetTempFileForRecording(k, f)
      PROVE  FALSE
  BY <1>1, <1>a DEF Decode, Transcribe, TranscribeData, SaveNote, InsertNote, TranscribeReturns,
     ToggleStart, ClearNote, GetTempFileForRecording, Resume, Suspend, Goto
<1>2. ASSUME NEW k \in Jobs,
             \/ BeginRecording(k) \/ ToggleStop(k) \/ StopReturns(k)
             \/ NoteDeleted(k) \/ Benchmark(k) \/ BenchMemory(k) \/ BenchmarkReturns(k)
             \/ \E f \in Files : TranscribeFile(k, f) \/ DeleteNote(k, f)
             \/ \E t \in Threads : StartThread(k, t)
      PROVE  FALSE
  BY <1>2, <1>a DEF BeginRecording, ToggleStop, StopReturns, NoteDeleted, Benchmark, BenchMemory,
     BenchmarkReturns, TranscribeFile, DeleteNote, StartThread, Resume, Suspend, Goto
<1>3. ASSUME NEW k \in Jobs, RecordingStopped(k) PROVE k = j
  BY <1>3, <1>a DEF RecordingStopped, Suspend, Goto
<1>4. ASSUME \/ LoadBaseModel \/ DataLoaded \/ UNCHANGED vars
             \/ \E k \in Jobs : StopThread(k)
             \/ \E t \in Threads : \/ ThreadReads(t) \/ ThreadQuits(t) \/ ThreadEncodes(t)
                                   \/ ThreadFails(t) \/ LaunchError(t) \/ OnError(t)
      PROVE  UNCHANGED pc
  BY <1>4 DEF LoadBaseModel, DataLoaded, vars, StopThread, ThreadReads, ThreadQuits, ThreadEncodes,
     ThreadFails, LaunchError, OnError, jobVars
<1>5. QED
  BY <1>b, <1>1, <1>2, <1>3, <1>4
  DEF Next, System, Calls, MainThread, Background, RecorderExecutor, AudioRecorder, ToggleRecord

\* For a user who waits, whatever Stop ended is transcribed: toggleRecord never
\* meets a canTranscribe that is false, and drops the recording silently.
THEOREM StopTranscribes == Patient /\ AppSpec => StopIsTranscribed
<1>1. Patient /\ AppInit => RecorderReady
  BY DEF AppInit, Init, RecorderReady, At, TogglePoints, StartPoints, StopPoints
<1>2. /\ TypeOK /\ RecorderReady /\ [AppNext]_appVars
      => [\A j \in Jobs : pc[j] = "joined" /\ disk[recordedFile] = "complete" /\ pc'[j] # "joined"
            => pc'[j] = "reading"]_appVars
  <2> SUFFICES ASSUME TypeOK, RecorderReady, [AppNext]_appVars, NEW j \in Jobs,
                      pc[j] = "joined", pc'[j] # "joined"
               PROVE  pc'[j] = "reading"
    OBVIOUS
  <2>1. RecordingStopped(j)
    BY ScreensCallTheViewModel, JoinedUntilStopped
  <2>2. canTranscribe
    BY DEF RecorderReady, At, TogglePoints, StopPoints
  <2>3. QED
    BY <2>1, <2>2 DEF RecordingStopped, Suspend, Goto, TypeOK, DataTypeOK
<1>3. AppSpec => [](TypeOK /\ LockInv)
  BY ScreensImplementViewModel, TypeInvariance, LockInvariance, PTL
<1>4. Patient /\ AppSpec => []RecorderReady
  BY <1>1, <1>3, AppInvariance, StepReady, PTL DEF AppSpec
<1>5. QED
  BY <1>2, <1>3, <1>4, PTL DEF AppSpec, StopIsTranscribed
=============================================================================
