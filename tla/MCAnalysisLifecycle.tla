------------------------ MODULE MCAnalysisLifecycle ------------------------
(* Values of the constants for TLC.  One non-terminal signal is enough: the *)
(* store and the streams tell signals apart only by being terminal.         *)
EXTENDS AnalysisLifecycle, TLC

MCSignals == {<<"query_completed", "completed">>}

\* Runs and streams are interchangeable; used by the runs without liveness.
LifecycleSymmetry == Permutations(Runs) \cup Permutations(Streams)
=============================================================================
