--------------------------- MODULE MCAppLifecycle ---------------------------
(* One transcription under way when the activity is finished.              *)
EXTENDS AppLifecycle

CONSTANTS c1, main0, finalizer, nobody

MCCallers == {c1, main0}
=============================================================================
