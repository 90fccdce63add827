---------------------------- MODULE MCLLMManager ----------------------------
(* Two overlapping requests, and one activity or process after the first.  *)
EXTENDS LLMManager

CONSTANTS r1, r2, m1, m2, e1, e2, e3

MCRequests == {r1, r2}
MCManagers == {m1, m2}
MCEngines == {e1, e2, e3}
=============================================================================
