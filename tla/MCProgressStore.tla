-------------------------- MODULE MCProgressStore --------------------------
(* Model values and the symmetry of run ids for TLC. *)
EXTENDS ProgressStore, TLC

MCSignals == {<<"query_completed", "completed">>, <<"failed", "failed">>,
              <<"query_completed", "unlisted">>}

\* Run ids are interchangeable; only safety is checked under this symmetry.
RunSymmetry == Permutations(Runs)
=============================================================================
