-------------------------- MODULE ProgressSignals --------------------------
(***************************************************************************)
(* The closed vocabulary of progress signals, shared by the workflow that  *)
(* reports them, the store that accepts them and the stream that sends     *)
(* them.  A signal is a <<stage, status>> pair.  In the code a fixed       *)
(* summary goes with each pair, so the pair stands for the three.          *)
(***************************************************************************)

\* SAFE_EVENT_SUMMARIES: the only pairs the store accepts.
SafeEventSummaries ==
    { <<"retrieval_started", "started">>,
      <<"retrieval_completed", "completed">>, <<"retrieval_completed", "failed">>,
      <<"sql_validation_rejected", "rejected">>,
      <<"sql_repair_started", "started">>,
      <<"query_completed", "completed">>, <<"query_completed", "failed">>,
      <<"draft_completed", "completed">>, <<"draft_completed", "failed">>,
      <<"review_completed", "completed">>, <<"review_completed", "failed">>,
      <<"analysis_completed", "completed">>, <<"analysis_completed", "limited">>,
      <<"failed", "failed">> }

\* The stages after which a subscriber's stream ends.
TerminalStages == {"analysis_completed", "failed"}

IsTerminal(signal) == signal[1] \in TerminalStages

\* The terminal signal that announces a run of this status.
TerminalSignal(status) ==
    CASE status = "failed"  -> <<"failed", "failed">>
      [] status = "limited" -> <<"analysis_completed", "limited">>
      [] OTHER              -> <<"analysis_completed", "completed">>
=============================================================================
