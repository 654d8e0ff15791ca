---------------------------- MODULE RunEvaluation ----------------------------
(***************************************************************************)
(* A run as its environment makes it and as its readers judge it: who      *)
(* plays the roles (app/services/llm_advisor.py under the contracts of     *)
(* agent_contracts.py, or the fake of the offline demonstration), and what *)
(* the evaluation scripts (app/services/evaluation.py,                     *)
(* scripts/evaluate_live_agent.py) and the schema of the report            *)
(* (app/schemas.py) make of what the run returns.                          *)
(*                                                                         *)
(* Each planner, advisor and reviewer step is one call of the model; what  *)
(* the call brings back decides which outcome of the node follows.         *)
(***************************************************************************)
EXTENDS QueryBounds

VARIABLE provider    \* who answers: the live model, none of it (an outage), or the fake

evaluationVars == <<workflowVars, quantities, provider>>

Providers == {"live", "down", "fake"}

(***************************************************************************)
(* What a call brings back: no answer (transport, timeout, status), no     *)
(* content, text that is not JSON, JSON that is no object, an object the   *)
(* role's payload refuses (a field missing, added, blank, over-long,       *)
(* wrapped in markdown, with personal data), one it accepts.               *)
(***************************************************************************)
Answers == {"none", "empty", "not JSON", "not an object", "malformed", "in contract"}

\* _complete returns an object.
Completes(answer) == answer \in {"malformed", "in contract"}

\* SQLPlanPayload and AnalysisDraftPayload accept it; plan and draft raise otherwise.
Usable(answer) == answer = "in contract"

\* What the client gets to see during an outage, and otherwise.
AnswersOf(who) == IF who = "down" THEN {"none"} ELSE Answers

-----------------------------------------------------------------------------

EvaluationInit == BoundsInit /\ provider \in Providers

Outcome(answer) == IF Usable(answer) THEN "passed" ELSE "failed"

\* A payload of blanks is accepted and stripped: a plan without a candidate.
PlannerCall ==
    /\ provider # "fake"
    /\ \E answer \in AnswersOf(provider) : PlanEnds /\ Traced("plan_sql", Outcome(answer))

AdvisorCall ==
    /\ provider # "fake"
    /\ \E answer \in AnswersOf(provider) : DraftEnds /\ Traced("draft_analysis", Outcome(answer))

\* Mutant: hands on whatever the object holds.
MalformedDecisionUnchecked == "malformed"

\* review answers for the model when the payload is refused.
MalformedDecision == "approved"

ReviewerCall ==
    /\ provider # "fake"
    /\ \E answer \in AnswersOf(provider) :
          \/ ~Completes(answer) /\ ReviewUnavailable
          \/ Completes(answer) /\ ~Usable(answer) /\ Reviewed(MalformedDecision)
          \/ Usable(answer) /\ \E decision \in Decisions : Reviewed(decision)
    /\ UNCHANGED quantities

\* FakeOperationsLLM: every question has a template, without a LIMIT.
FakePlans ==
    /\ provider = "fake"
    /\ PlanProposed("safe")
    /\ clause' = NoClause
    /\ UNCHANGED <<maxRows, evidence, resultRows, rowCounts, prompt, lastQuery>>

FakeDrafts == provider = "fake" /\ DraftEnds /\ Traced("draft_analysis", "passed")

\* Mutant: asks for another query whenever rows are missing from the result.
FakeDecisionByRows == IF resultRows > 0 THEN "approved" ELSE "revise_sql"

FakeDecision == IF queryResult # 0 THEN "approved" ELSE "revise_sql"

FakeReviews == provider = "fake" /\ Reviewed(FakeDecision) /\ UNCHANGED quantities

ToolStep == SearchEnds \/ QueryRefused \/ QueryRuns \/ QueryFails

RoleStep ==
    \/ PlannerCall \/ AdvisorCall \/ ReviewerCall
    \/ FakePlans \/ FakeDrafts \/ FakeReviews

RunReturns == Return /\ UNCHANGED quantities

EvaluationNext == (ToolStep \/ RoleStep \/ RunReturns) /\ UNCHANGED provider

EvaluationSpec ==
    /\ EvaluationInit
    /\ [][EvaluationNext]_evaluationVars
    /\ WF_evaluationVars(EvaluationNext)

\* Every call the run made: one per planner, advisor and reviewer node, no retries.
ModelCalls == RunsOf("plan_sql") + RunsOf("draft_analysis") + RunsOf("review")

-----------------------------------------------------------------------------
(* What the report's readers get: app/schemas.py, AnalysisContextRead.     *)

ReportContext ==
    [evidenceCount       |-> evidence,
     queryRowCount       |-> ReportRows(rowCounts),
     sqlRevisions        |-> ReportSqlRevisions,
     conclusionRevisions |-> ReportConclusionRevisions]

\* Mutant: the schema admits a third draft.
FitsSchemaLoosely(context) ==
    /\ context.evidenceCount >= 0 /\ context.queryRowCount >= 0
    /\ context.sqlRevisions \in 0 .. 1 /\ context.conclusionRevisions \in 0 .. 2

FitsSchema(context) ==
    /\ context.evidenceCount >= 0 /\ context.queryRowCount >= 0
    /\ context.sqlRevisions \in 0 .. 1 /\ context.conclusionRevisions \in 0 .. 1

-----------------------------------------------------------------------------
(* What the evaluation makes of a returned run.                            *)

\* Mutant: counts the rows the model was shown.
SnapshotOfPrompt == [evidence |-> evidence, rows |-> prompt.shown]

\* snapshot_from_state: the counts, not what was shown to the model.
Snapshot == [evidence |-> evidence, rows |-> resultRows]

\* score_agent_observables
Observables ==
    [fixedRolePath  |-> Nodes \subseteq {trace[i].node : i \in DOMAIN trace},
     reviewed       |-> RunsOf("review") > 0,
     revisionBounds |-> sqlRevisions <= 1 /\ conclusionRevisions <= 1,
     statusAgrees   |-> (result.status = "completed") = (queryResult # 0),
     contextBounds  |-> Snapshot.evidence <= EvidenceItems /\ Snapshot.rows <= ContextRows]

\* What a fixed question expects: source types, tables, or neither.
Questions == [sources : BOOLEAN, tables : BOOLEAN]

Label(expected, met) == IF ~expected THEN "unscored" ELSE IF met THEN "yes" ELSE "no"

\* score_agent_result: hit and match say whether the expected source types are
\* among the run's and the expected tables among those of its query result.
ScoreRow(question, hit, match) ==
    [status     |-> result.status,
     evidence   |-> Label(question.sources, evidence > 0 /\ hit),
     tables     |-> Label(question.tables, queryResult # 0 /\ match),
     executed   |-> queryResult # 0]

\* Mutant: a run that raised is left out of both rates.
FailureRowUnscored(question) ==
    [status |-> "failed", evidence |-> "unscored", tables |-> "unscored", executed |-> FALSE]

\* What the script writes down when the run raises.
FailureRow(question) ==
    [status   |-> "failed",
     evidence |-> Label(question.sources, FALSE),
     tables   |-> Label(question.tables, FALSE),
     executed |-> FALSE]

EvaluationRow(question, hit, match) ==
    IF node = "returned" THEN ScoreRow(question, hit, match) ELSE FailureRow(question)

RowsWhere(rows, Test(_)) == Cardinality({i \in DOMAIN rows : Test(rows[i])})

\* summarize_agent_scores, each rate as its numerator and its denominator.
Summary(rows) ==
    LET Completed(row) == row.status = "completed"
        Limited(row)   == row.status = "limited"
        Failed(row)    == row.status = "failed"
        Scored(row)    == row.evidence # "unscored"
        Hit(row)       == row.evidence = "yes"
        SqlScored(row) == row.tables # "unscored"
        Match(row)     == row.tables = "yes"
        Executed(row)  == row.executed
    IN [total |-> Len(rows), completed |-> RowsWhere(rows, Completed),
        limited |-> RowsWhere(rows, Limited), failed |-> RowsWhere(rows, Failed),
        evidenceScored |-> RowsWhere(rows, Scored), hits |-> RowsWhere(rows, Hit),
        sqlScored |-> RowsWhere(rows, SqlScored), matches |-> RowsWhere(rows, Match),
        executions |-> RowsWhere(rows, Executed)]

-----------------------------------------------------------------------------

\* Type invariant of the whole run (agent_workflow.py:51-83, agent_context.py:61-72).
EvaluationTypeOK == TypeOK /\ BoundsTypeOK /\ provider \in Providers

\* The review at i wanted a revision, and the graph went on.
Granted(i, decision) ==
    trace[i] = [node |-> "review", status |-> decision] /\ i < Len(trace)

\* The reviewer has the conclusion revised and later the SQL, which makes a third
\* draft (agent_workflow.py:260-267).
ThirdDraft ==
    \E i, j \in DOMAIN trace :
        i < j /\ Granted(i, "revise_conclusion") /\ Granted(j, "revise_sql")

\* "model_call_bound_per_question" of the report (evaluate_live_agent.py:116).
PublishedCallBound == 6

\* The calls of the model.  Those of a returned run exceed the published six in one
\* history, and there always: the one with a third draft (two plans, three drafts,
\* three reviews).  An outage costs four calls, and the run is limited and not an
\* exception; the fake never raises, and a limited run of it says that the
\* revision it wanted was refused (llm_advisor.py:84-130, fake_llm.py:10-35).
CallsByProvider ==
    /\ ModelCalls <= 5 * RevisionLimit + 3
    /\ RevisionLimit = 1 /\ node = "returned" => (ModelCalls > PublishedCallBound <=> ThirdDraft)
    /\ provider = "down" =>
          /\ node # "raised"
          /\ node = "returned" => ModelCalls = RevisionLimit + 3 /\ result.status = "limited"
    /\ provider = "fake" =>
          /\ node # "raised" /\ ModelCalls <= RevisionLimit + 3
          /\ node = "returned" => (result.status = "limited" <=> result.revisionRefused)

\* The report of a returned run fits its schema but for one history, whose report
\* is always refused: the one with a third draft
\* (schemas.py:273-283, routes.py:350-359, agent_workflow.py:260-267).
ReportFitsSchema ==
    node = "returned" => (FitsSchema(ReportContext) <=> ~ThirdDraft)

\* The observables measure the graph and nothing else: every returned run went
\* through all roles, was reviewed and has the status of its result; the revision
\* bounds fail with the third draft only, and the context bounds only when the
\* settings let a query return more rows than the model is shown, which is never
\* more than its cap (evaluation.py:114-136, agent_context.py:130-148).
ObservablesMeasureTheGraph ==
    /\ FixedRolePath
    /\ node = "returned" =>
        /\ Observables.fixedRolePath /\ Observables.reviewed /\ Observables.statusAgrees
        /\ Observables.revisionBounds <=> ~ThirdDraft
        /\ Observables.contextBounds <=> resultRows <= ContextRows
        /\ ~Observables.contextBounds => maxRows > ContextRows /\ prompt.shown = ContextRows

\* A report of evaluated questions adds up whichever runs raise: the rates are
\* taken over the questions that expect something, a run that raised counts
\* against them, and exactly the completed runs executed a query
\* (evaluate_live_agent.py:79-106, evaluation.py:55-111).
SummaryAddsUp ==
    Ended =>
        \A question \in Questions : \A met \in BOOLEAN :
            LET rows == <<EvaluationRow(question, met, met), FailureRow(question)>>
                sums == Summary(rows)
            IN  /\ sums.completed + sums.limited + sums.failed = sums.total
                /\ sums.executions = sums.completed
                /\ sums.evidenceScored = IF question.sources THEN 2 ELSE 0
                /\ sums.sqlScored = IF question.tables THEN 2 ELSE 0
                /\ sums.hits <= sums.evidenceScored /\ sums.matches <= sums.executions

-----------------------------------------------------------------------------
(* What the repository publishes of a run and the code does not keep.      *)

\* A returned run costs at most the six calls of the model that its evaluation
\* reports as the bound (evaluate_live_agent.py:116), and its report counts at most
\* one revision of the conclusion (schemas.py:282, evaluation.py:129).
PublishedFiguresHold ==
    node = "returned" => ModelCalls <= PublishedCallBound /\ ReportConclusionRevisions <= 1
=============================================================================
