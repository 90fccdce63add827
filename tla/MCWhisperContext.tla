-------------------------- MODULE MCWhisperContext --------------------------
(* Two coroutines and the finalizer around one native context.             *)
EXTENDS WhisperContext

CONSTANTS c1, c2, finalizer, nobody

MCCallers == {c1, c2}
=============================================================================
