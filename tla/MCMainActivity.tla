--------------------------- MODULE MCMainActivity ---------------------------
(* Two jobs, two recording threads and two files under the screens.        *)
EXTENDS MainActivity

CONSTANTS j1, j2, t1, t2, f1, f2

MCJobs == {j1, j2}
MCThreads == {t1, t2}
MCFiles == {f1, f2}
=============================================================================
