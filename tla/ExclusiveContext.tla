-------------------------- MODULE ExclusiveContext --------------------------
(***************************************************************************)
(* What the native whisper context must see of its users: at any moment at *)
(* most one thread is inside it, it is freed once, while nobody is inside, *)
(* and nobody enters it afterwards.  This is the constraint the Kotlin     *)
(* wrapper states in LibWhisper.kt ("Don't access from more than one       *)
(* thread at a time"); WhisperContext is shown to implement it.            *)
(***************************************************************************)
CONSTANTS User,    \* whoever may call into the native context
          Nobody   \* not a user

VARIABLES inside,  \* the user inside the native context, or Nobody
          alive    \* the context is allocated

Init == inside = Nobody /\ alive = TRUE

Enter(u) ==
  /\ alive
  /\ inside = Nobody
  /\ inside' = u
  /\ UNCHANGED alive

Leave ==
  /\ inside # Nobody
  /\ inside' = Nobody
  /\ UNCHANGED alive

Free ==
  /\ alive
  /\ inside = Nobody
  /\ alive' = FALSE
  /\ UNCHANGED inside

Next == Leave \/ Free \/ \E u \in User : Enter(u)

Spec == Init /\ [][Next]_<<inside, alive>>
=============================================================================
