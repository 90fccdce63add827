----------------------- MODULE MCMainScreenViewModel -----------------------
(* Two operations of the view model under way at once, called at any time, *)
(* and one recording thread.                                               *)
EXTENDS MainScreenViewModel

CONSTANTS j1, j2, t1, f1, f2

MCJobs == {j1, j2}
MCThreads == {t1}
MCFiles == {f1, f2}
=============================================================================
