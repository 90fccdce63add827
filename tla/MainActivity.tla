---------------------------- MODULE MainActivity ----------------------------
(***************************************************************************)
(* The screens of MainActivity.kt and MainScreen.kt over the view model.   *)
(* What the user can tap is what was composed last, which may be older     *)
(* than the view model's state; a tap is a call of the view model.         *)
(***************************************************************************)
EXTENDS MainScreenViewModel

CONSTANTS Fresh,    \* the key of a LaunchedEffect that has not run yet
          Patient   \* TRUE: the user waits for the screen to settle

ASSUME ActivityAssumption ==
  /\ Fresh \notin Files \cup {NoFile}
  /\ Files \cap {"main", "list", "recording", "processing", "ready", "disabled"} = {}
  /\ Patient \in BOOLEAN

VARIABLES
  screen,     \* currentScreen: "main", "list" or the file of a note's details
  shown,      \* what was composed last, or "nothing"
  effectKey,  \* the transcribedNote the navigation effect ran for
  picker,     \* the file picker covers the activity
  announced   \* history: the notes the effect has navigated to

screenVars == <<screen, shown, effectKey, picker, announced>>
appVars == <<vars, screenVars>>

AppInit ==
  /\ Init
  /\ screen = "main" /\ shown = "nothing" /\ effectKey = Fresh
  /\ picker = FALSE /\ announced = {}

\* The when of AppNavigation and the ifs of MainScreen.
View ==
  CASE screen # "main" -> screen
    [] screen = "main" /\ isRecording -> "recording"
    [] screen = "main" /\ ~isRecording /\ isProcessing -> "processing"
    [] screen = "main" /\ ~isRecording /\ ~isProcessing /\ canTranscribe -> "ready"
    [] OTHER -> "disabled"

\* The screen is up to date, and no toggleRecord is under way.
Settled ==
  /\ shown = View /\ effectKey = transcribedNote
  /\ At(StartPoints \cup StopPoints) = {}

Tap(v) == shown = v /\ ~picker /\ (Patient => Settled)

-----------------------------------------------------------------------------
TapRecord ==
  /\ Tap("ready")
  /\ \E j \in Jobs : ToggleRecord(j)
  /\ UNCHANGED screenVars

TapStop ==
  /\ Tap("recording")
  /\ \E j \in Jobs : ToggleRecord(j)
  /\ UNCHANGED screenVars

\* filePickerLauncher.launch, and what it comes back with.
SelectFile ==
  /\ Tap("ready")
  /\ picker' = TRUE
  /\ UNCHANGED <<vars, screen, shown, effectKey, announced>>

FileSelected ==
  /\ picker
  /\ picker' = FALSE
  /\ \E j \in Jobs, f \in Files : TranscribeFile(j, f)
  /\ UNCHANGED <<screen, shown, effectKey, announced>>

SelectionCancelled ==
  /\ picker
  /\ picker' = FALSE
  /\ UNCHANGED <<vars, screen, shown, effectKey, announced>>

Navigate(s) ==
  /\ screen' = s
  /\ UNCHANGED <<vars, shown, effectKey, picker, announced>>

ViewNotes == (Tap("ready") \/ Tap("disabled")) /\ Navigate("list")

OpenNote(f) == Tap("list") /\ notes[f] > 0 /\ Navigate(f)

Back == (Tap("list") \/ \E f \in Files : Tap(f)) /\ Navigate("main")

TapDelete(f) ==
  /\ Tap("list")
  /\ \E j \in Jobs : DeleteNote(j, f)
  /\ UNCHANGED screenVars

-----------------------------------------------------------------------------
\* Mutant of Recompose: LaunchedEffect(Unit), which runs once.
RecomposeUnkeyed ==
  /\ ~picker
  /\ shown # View \/ effectKey # transcribedNote
  /\ effectKey' = transcribedNote
  /\ IF effectKey = Fresh /\ transcribedNote # NoFile
     THEN /\ screen' = transcribedNote
          /\ announced' = announced \cup {transcribedNote}
     ELSE UNCHANGED <<screen, announced>>
  /\ UNCHANGED <<vars, picker>>
  /\ shown' = View'

\* A frame, of an activity in front: LaunchedEffect(transcribedNote) runs when its key has changed.
Recompose ==
  /\ ~picker
  /\ shown # View \/ effectKey # transcribedNote
  /\ effectKey' = transcribedNote
  /\ IF effectKey # transcribedNote /\ transcribedNote # NoFile
     THEN /\ screen' = transcribedNote
          /\ announced' = announced \cup {transcribedNote}
     ELSE UNCHANGED <<screen, announced>>
  /\ UNCHANGED <<vars, picker>>
  /\ shown' = View'

\* A configuration change: a new activity and composition, the same view model.
Recreate ==
  /\ screen' = "main" /\ shown' = "nothing" /\ effectKey' = Fresh
  /\ UNCHANGED <<vars, picker, announced>>

User ==
  \/ TapRecord \/ TapStop
  \/ SelectFile \/ FileSelected \/ SelectionCancelled
  \/ ViewNotes \/ Back
  \/ \E f \in Files : OpenNote(f) \/ TapDelete(f)
  \/ Recreate

AppNext ==
  \/ User
  \/ Recompose
  \/ System /\ UNCHANGED screenVars

AppSpec == AppInit /\ [][AppNext]_appVars

\* The screen is drawn again after a change; nobody has to tap.
AppFairSpec == AppSpec /\ Fairness /\ WF_appVars(Recompose)

-----------------------------------------------------------------------------
Quiet == At(StartPoints \cup StopPoints) = {} /\ \A t \in Threads : err[t] = "none"

\* What the screen says of the microphone is true: once the taps and errors
\* under way are dealt with, isRecording is true exactly while a thread
\* records, and no thread was left behind by the one that replaced it.
MicrophoneMatchesScreen ==
  /\ Quiet => (isRecording <=> \E t \in Threads : Alive(t))
  /\ \A s, t \in Threads : Alive(s) /\ Alive(t) => s = t

\* stopRecording() ends the recording whose file toggleRecord transcribes.
StopsItsOwnRecording == joining # NoJob => output[recorder] = recordedFile

\* No thread still writes a file that is read, or that a note refers to.
AudioIsFinished ==
  \A t \in Threads : Alive(t) =>
    /\ notes[output[t]] = 0
    /\ \A j \in At({"reading"}) : jfile[j] # output[t]

\* When toggleRecord has stopped a recording, and its file is complete, it goes
\* on to transcribe it.
StopIsTranscribed ==
  [][\A j \in Jobs : pc[j] = "joined" /\ disk[recordedFile] = "complete" /\ pc'[j] # "joined"
       => pc'[j] = "reading"]_appVars

\* A note that was saved is shown.
NoteIsShown ==
  \A f \in Files : (\E j \in Jobs : pc[j] = "saved" /\ jfile[j] = f) ~> (f \in announced)
=============================================================================
