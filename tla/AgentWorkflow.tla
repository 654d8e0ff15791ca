---------------------------- MODULE AgentWorkflow ----------------------------
(***************************************************************************)
(* One call of TicketInsightWorkflow.run (app/services/agent_workflow.py): *)
(* the fixed graph                                                         *)
(*                                                                         *)
(*   retrieve_evidence -> plan_sql -> execute_safe_sql -> draft_analysis   *)
(*                           ^  ^___________|                |    ^        *)
(*                           |                             review _|       *)
(*                           |________________________________|            *)
(*                                                                         *)
(* with the state the nodes share and what run() makes of it.  A role (the *)
(* retrieval tool, the planner, the query tool, the advisor, the reviewer) *)
(* may answer anything its type allows, or raise; a node catches what a    *)
(* role raises.  What a role says is abstracted to what the graph tells    *)
(* apart; a query result is named by the plan attempt it came from.        *)
(***************************************************************************)
EXTENDS Integers, Sequences, FiniteSets, ProgressSignals

CONSTANT RevisionLimit   \* revisions of each kind a router allows; 1 in the code

ASSUME LimitAssumption == RevisionLimit \in Nat

VARIABLES
    node,                 \* the next node of the graph, "END", or how run() ended
    sqlCandidate,         \* state["sql_candidate"]; "" when there is none
    sqlError,             \* whether state["sql_error"] holds a message
    queryResult,          \* plan attempt of state["query_result"]; 0 for None
    draftBasis,           \* query result the current draft was written from
    reviewDecision,       \* state["review_decision"]; "none" before the first review
    sqlPlanAttempts,
    sqlRevisions,
    draftAttempts,
    conclusionRevisions,
    trace,                \* <<[node, status], ...>>
    sqlAudits,            \* <<[status, candidate], ...>>
    reporter,             \* a progress reporter is registered for the run
    reported,             \* the signals handed to the reporter
    result                \* the WorkflowResult, or NoResult

planVars   == <<sqlCandidate, sqlPlanAttempts, sqlRevisions>>
draftVars  == <<draftBasis, draftAttempts, conclusionRevisions>>
endVars    == <<reporter, result>>
workflowVars ==
    <<node, planVars, sqlError, queryResult, draftVars, reviewDecision,
      trace, sqlAudits, reported, endVars>>

\* START and END of the graph aside, FIXED_AGENT_NODES.
Nodes == {"retrieve_evidence", "plan_sql", "execute_safe_sql", "draft_analysis", "review"}

(***************************************************************************)
(* What the planner can propose, by what validate_readonly_select does     *)
(* with it: nothing; a statement it accepts; one it refuses with           *)
(* SQLSafetyError; one whose text cannot be split into tokens, where       *)
(* another exception escapes.                                              *)
(***************************************************************************)
Candidates == {"", "safe", "unsafe", "unreadable"}

Decisions == {"approved", "revise_sql", "revise_conclusion"}

NoResult == [status |-> "none", revisionRefused |-> FALSE]

-----------------------------------------------------------------------------

\* _progress: a signal reaches the reporter when one is registered.
Progress(stage, status) ==
    reported' = IF reporter THEN Append(reported, <<stage, status>>) ELSE reported

NoProgress == UNCHANGED reported

Traced(n, status) == trace' = Append(trace, [node |-> n, status |-> status])

Audited(status) ==
    sqlAudits' = Append(sqlAudits, [status |-> status, candidate |-> sqlCandidate])

\* Mutant: reviews without a draft when there is no query result to draft from.
AfterSqlSkipsDraft(error, revisions) ==
    IF ~error THEN "draft_analysis"
    ELSE IF revisions < RevisionLimit THEN "plan_sql" ELSE "review"

\* _after_sql, on the state the node leaves.
AfterSql(error, revisions) ==
    IF error /\ revisions < RevisionLimit THEN "plan_sql" ELSE "draft_analysis"

\* Mutant: a refused revision of the conclusion still goes back to the draft.
AfterReviewUnbounded(decision) ==
    IF decision = "revise_sql" /\ sqlRevisions < RevisionLimit THEN "plan_sql"
    ELSE IF decision = "revise_conclusion" THEN "draft_analysis"
    ELSE "END"

\* _after_review
AfterReview(decision) ==
    IF decision = "revise_sql" /\ sqlRevisions < RevisionLimit THEN "plan_sql"
    ELSE IF decision = "revise_conclusion" /\ conclusionRevisions < RevisionLimit
         THEN "draft_analysis"
    ELSE "END"

-----------------------------------------------------------------------------

\* run(): the initial state; a reporter hears of the start before the graph runs.
Init ==
    /\ node = "retrieve_evidence"
    /\ sqlCandidate = "" /\ sqlError = FALSE /\ queryResult = 0
    /\ draftBasis = 0 /\ reviewDecision = "none"
    /\ sqlPlanAttempts = 0 /\ sqlRevisions = 0
    /\ draftAttempts = 0 /\ conclusionRevisions = 0
    /\ trace = <<>> /\ sqlAudits = <<>>
    /\ reporter \in BOOLEAN
    /\ reported = IF reporter THEN << <<"retrieval_started", "started">> >> ELSE <<>>
    /\ result = NoResult

EvidenceRetrieved ==
    /\ node = "retrieve_evidence"
    /\ Progress("retrieval_completed", "completed")
    /\ Traced("retrieve_evidence", "passed")
    /\ node' = "plan_sql"
    /\ UNCHANGED <<planVars, sqlError, queryResult, draftVars, reviewDecision,
                   sqlAudits, endVars>>

RetrievalUnavailable ==
    /\ node = "retrieve_evidence"
    /\ Progress("retrieval_completed", "failed")
    /\ Traced("retrieve_evidence", "failed")
    /\ sqlError' = TRUE
    /\ node' = "plan_sql"
    /\ UNCHANGED <<planVars, queryResult, draftVars, reviewDecision,
                   sqlAudits, endVars>>

\* The counters and the repair signal of _plan_sql, whatever the planner does.
CountPlan ==
    /\ node = "plan_sql"
    /\ sqlPlanAttempts' = sqlPlanAttempts + 1
    /\ sqlRevisions' = sqlPlanAttempts
    /\ IF sqlPlanAttempts > 0 THEN Progress("sql_repair_started", "started") ELSE NoProgress
    /\ node' = "execute_safe_sql"
    /\ UNCHANGED <<queryResult, draftVars, reviewDecision, sqlAudits, endVars>>

PlanProposed(candidate) ==
    /\ CountPlan
    /\ sqlCandidate' = candidate
    /\ sqlError' = FALSE
    /\ Traced("plan_sql", "passed")

PlannerUnavailable ==
    /\ CountPlan
    /\ sqlCandidate' = ""
    /\ sqlError' = TRUE
    /\ Traced("plan_sql", "failed")

\* What the branches of _execute_safe_sql that end in an error share.
SqlFailed(stage, signal, traceStatus, auditStatus) ==
    /\ sqlError' = TRUE
    /\ Progress(stage, signal)
    /\ Traced("execute_safe_sql", traceStatus)
    /\ Audited(auditStatus)
    /\ node' = AfterSql(TRUE, sqlRevisions)
    /\ UNCHANGED <<planVars, draftVars, reviewDecision, endVars>>

\* No candidate.  This branch leaves the query result as it was.
CandidateMissing ==
    /\ node = "execute_safe_sql"
    /\ sqlCandidate = ""
    /\ SqlFailed("sql_validation_rejected", "rejected", "blocked", "rejected")
    /\ UNCHANGED queryResult

\* Mutant: a refused candidate leaves the earlier result in place.
CandidateRejectedKeepsResult ==
    /\ node = "execute_safe_sql"
    /\ sqlCandidate = "unsafe"
    /\ SqlFailed("sql_validation_rejected", "rejected", "blocked", "rejected")
    /\ UNCHANGED queryResult

CandidateRejected ==
    /\ node = "execute_safe_sql"
    /\ sqlCandidate = "unsafe"
    /\ SqlFailed("sql_validation_rejected", "rejected", "blocked", "rejected")
    /\ queryResult' = 0

\* Mutant: audits the attempt only when it succeeds.
QueryExecutedUnaudited ==
    /\ node = "execute_safe_sql"
    /\ sqlCandidate = "safe"
    /\ queryResult' = sqlPlanAttempts
    /\ sqlError' = FALSE
    /\ Progress("query_completed", "completed")
    /\ Traced("execute_safe_sql", "passed")
    /\ node' = AfterSql(FALSE, sqlRevisions)
    /\ UNCHANGED <<planVars, draftVars, reviewDecision, sqlAudits, endVars>>

QueryExecuted ==
    /\ node = "execute_safe_sql"
    /\ sqlCandidate = "safe"
    /\ queryResult' = sqlPlanAttempts
    /\ sqlError' = FALSE
    /\ Progress("query_completed", "completed")
    /\ Traced("execute_safe_sql", "passed")
    /\ Audited("executed")
    /\ node' = AfterSql(FALSE, sqlRevisions)
    /\ UNCHANGED <<planVars, draftVars, reviewDecision, endVars>>

\* Both except clauses of the query; they differ in the status of the trace.
QueryUnavailable(traceStatus) ==
    /\ node = "execute_safe_sql"
    /\ sqlCandidate = "safe"
    /\ SqlFailed("query_completed", "failed", traceStatus, "failed")
    /\ queryResult' = 0

\* An exception no clause of the node catches: graph.invoke raises, run() takes
\* its reporter back and raises.
GateRaised ==
    /\ node = "execute_safe_sql"
    /\ sqlCandidate = "unreadable"
    /\ node' = "raised"
    /\ reporter' = FALSE
    /\ UNCHANGED <<planVars, sqlError, queryResult, draftVars, reviewDecision,
                   trace, sqlAudits, reported, result>>

\* Mutant: counts a draft only when the advisor answers.
DraftUncounted(status, traceStatus) ==
    /\ node = "draft_analysis"
    /\ IF status = "completed"
       THEN draftAttempts' = draftAttempts + 1 /\ conclusionRevisions' = draftAttempts
       ELSE UNCHANGED <<draftAttempts, conclusionRevisions>>
    /\ draftBasis' = queryResult
    /\ Progress("draft_completed", status)
    /\ Traced("draft_analysis", traceStatus)
    /\ node' = "review"
    /\ UNCHANGED <<planVars, sqlError, queryResult, reviewDecision, sqlAudits, endVars>>

\* _draft_analysis, with the advisor's draft or with the fallback draft.
Draft(status, traceStatus) ==
    /\ node = "draft_analysis"
    /\ draftAttempts' = draftAttempts + 1
    /\ conclusionRevisions' = draftAttempts
    /\ draftBasis' = queryResult
    /\ Progress("draft_completed", status)
    /\ Traced("draft_analysis", traceStatus)
    /\ node' = "review"
    /\ UNCHANGED <<planVars, sqlError, queryResult, reviewDecision, sqlAudits, endVars>>

\* _review.  An answer outside Decisions counts as "approved".
Reviewed(decision) ==
    /\ node = "review"
    /\ reviewDecision' = decision
    /\ Progress("review_completed", "completed")
    /\ Traced("review", decision)
    /\ node' = AfterReview(decision)
    /\ UNCHANGED <<planVars, sqlError, queryResult, draftVars, sqlAudits, endVars>>

ReviewUnavailable ==
    /\ node = "review"
    /\ reviewDecision' = "approved"
    /\ Progress("review_completed", "failed")
    /\ Traced("review", "fallback")
    /\ node' = AfterReview("approved")
    /\ UNCHANGED <<planVars, sqlError, queryResult, draftVars, sqlAudits, endVars>>

\* Mutant: tells the end of the run before its result is stored.
ReturnTellingEnd ==
    LET status == IF queryResult # 0 THEN "completed" ELSE "limited" IN
    /\ node = "END"
    /\ result' = [status |-> status, revisionRefused |-> reviewDecision \in {"revise_sql", "revise_conclusion"}]
    /\ Progress("analysis_completed", status)
    /\ reporter' = FALSE
    /\ node' = "returned"
    /\ UNCHANGED <<planVars, sqlError, queryResult, draftVars, reviewDecision, trace, sqlAudits>>

\* run() after the graph: the status and the sentence added to the limitations.
Return ==
    /\ node = "END"
    /\ result' = [status |-> IF queryResult # 0 THEN "completed" ELSE "limited",
                  revisionRefused |-> reviewDecision \in {"revise_sql", "revise_conclusion"}]
    /\ reporter' = FALSE
    /\ node' = "returned"
    /\ UNCHANGED <<planVars, sqlError, queryResult, draftVars, reviewDecision,
                   trace, sqlAudits, reported>>

Retrieve == EvidenceRetrieved \/ RetrievalUnavailable

Plan == PlannerUnavailable \/ \E candidate \in Candidates : PlanProposed(candidate)

Execute ==
    \/ CandidateMissing
    \/ CandidateRejected
    \/ QueryExecuted
    \/ \E traceStatus \in {"blocked", "failed"} : QueryUnavailable(traceStatus)
    \/ GateRaised

DraftAnalysis == Draft("completed", "passed") \/ Draft("failed", "failed")

Review == ReviewUnavailable \/ \E decision \in Decisions : Reviewed(decision)

Next == Retrieve \/ Plan \/ Execute \/ DraftAnalysis \/ Review \/ Return

\* graph.invoke runs one node after the other until the graph ends.
Spec == Init /\ [][Next]_workflowVars /\ WF_workflowVars(Next)

-----------------------------------------------------------------------------

\* How many nodes of this name ran to their end.
RunsOf(n) == Cardinality({i \in DOMAIN trace : trace[i].node = n})

Ended == node \in {"returned", "raised"}

\* _analysis_report counts revisions again, from the persisted rows.
ReportSqlRevisions == IF Len(sqlAudits) > 0 THEN Len(sqlAudits) - 1 ELSE 0

ReportConclusionRevisions ==
    IF RunsOf("draft_analysis") > 0 THEN RunsOf("draft_analysis") - 1 ELSE 0

-----------------------------------------------------------------------------

\* Type invariant of the graph state (agent_workflow.py:51-83).
TypeOK ==
    /\ node \in Nodes \cup {"END", "returned", "raised"}
    /\ sqlCandidate \in Candidates
    /\ sqlError \in BOOLEAN
    /\ queryResult \in Nat /\ draftBasis \in Nat
    /\ reviewDecision \in Decisions \cup {"none"}
    /\ sqlPlanAttempts \in Nat /\ sqlRevisions \in Nat
    /\ draftAttempts \in Nat /\ conclusionRevisions \in Nat
    /\ trace \in Seq([node : Nodes,
                      status : {"passed", "blocked", "failed", "fallback"} \cup Decisions])
    /\ sqlAudits \in Seq([status : {"rejected", "executed", "failed"},
                          candidate : Candidates])
    /\ reporter \in BOOLEAN
    /\ reported \in Seq(SafeEventSummaries)
    /\ result \in [status : {"none", "completed", "limited"}, revisionRefused : BOOLEAN]

\* The graph is bounded whatever the roles answer, although its two routers
\* share no counter: a revision of the SQL makes a further draft, and a draft
\* consumes revisions of the conclusion (agent_workflow.py:217-267).
WorkBounded ==
    /\ sqlPlanAttempts <= RevisionLimit + 1
    /\ draftAttempts <= 2 * RevisionLimit + 1
    /\ Len(trace) <= 6 * RevisionLimit + 5
    /\ Len(reported) <= 6 * RevisionLimit + 5

\* The report API counts the revisions from the persisted audits and traces; it
\* finds the numbers the workflow kept (routes.py:354-357, agent_workflow.py:323-324).
ReportCountersAgree ==
    node = "returned" =>
        /\ ReportSqlRevisions = sqlRevisions
        /\ ReportConclusionRevisions = conclusionRevisions

\* Audit number k is the last that matters: it executed, and every later
\* attempt had no candidate at all.
LastUsableAudit(k) ==
    /\ sqlAudits[k].status = "executed"
    /\ \A j \in DOMAIN sqlAudits : j > k => sqlAudits[j].candidate = ""

\* The result docs/diagrams.md:137-147, 165-169 draws: that of the last attempt if it
\* was executed.  After a rejection with no repair left the analysis "continues
\* without statistics" and ends limited.
DocumentedResult ==
    IF sqlAudits # <<>> /\ sqlAudits[Len(sqlAudits)].status = "executed"
    THEN Len(sqlAudits) ELSE 0

\* The history in which the code departs from it: a query was executed, the reviewer
\* had the SQL revised, and the repair brought no candidate.
EarlierResultKept == \E k \in DOMAIN sqlAudits : k < Len(sqlAudits) /\ LastUsableAudit(k)

\* The query result is the documented one but for one history, and this one always
\* departs: the audit of the repair says "rejected", and yet the earlier result stays
\* and the run is completed with it.  No other result survives a refused or failed
\* query (agent_workflow.py:191-215, 311).
ResultComesFromAudits ==
    /\ queryResult # 0 => queryResult \in DOMAIN sqlAudits /\ LastUsableAudit(queryResult)
    /\ queryResult = DocumentedResult <=> ~EarlierResultKept
    /\ node = "returned" =>
          (result.status = "completed" <=> DocumentedResult # 0 \/ EarlierResultKept)

\* The status that is persisted can be read off the persisted audits
\* (agent_workflow.py:311, analysis_runs.py:49-80).
StatusMatchesAudits ==
    node = "returned" =>
        (result.status = "completed" <=> \E k \in DOMAIN sqlAudits : LastUsableAudit(k))

\* What is reviewed and returned was drafted from the query result that is
\* returned with it, also after revisions (agent_workflow.py:223-258, 307-326).
ConclusionMatchesResult ==
    node \in {"review", "END", "returned"} => draftBasis = queryResult

\* Every returned run went through all roles, and no draft leaves the graph
\* unreviewed (agent_workflow.py:141-154, evaluation.py:127-128).
FixedRolePath ==
    /\ node \in {"END", "returned"} => {trace[i].node : i \in DOMAIN trace} = Nodes
    /\ \A i \in DOMAIN trace : trace[i].node = "draft_analysis" =>
          IF i = Len(trace) THEN node = "review" ELSE trace[i + 1].node = "review"

\* The reporter swallows what the store refuses, so a signal outside the
\* vocabulary would be lost in silence, and a terminal one would close the
\* streams of a run that goes on: the graph reports neither
\* (agent_workflow.py:122-127, progress.py:67-68, routes.py:435).
ReportedSignalsAccepted ==
    \A i \in DOMAIN reported :
        reported[i] \in SafeEventSummaries /\ ~IsTerminal(reported[i])

\* A revision the reviewer wanted is refused only when its budget is used, and
\* a refusal is always noted in the limitations (agent_workflow.py:260-267, 309-310).
RefusedRevisionsDisclosed ==
    node = "returned" =>
        /\ result.revisionRefused <=> trace[Len(trace)].status \in {"revise_sql", "revise_conclusion"}
        /\ trace[Len(trace)].status = "revise_sql" => sqlRevisions >= RevisionLimit
        /\ trace[Len(trace)].status = "revise_conclusion" => conclusionRevisions >= RevisionLimit

\* How many times a signal was reported, and an audit status was recorded.
SignalCount(signal) == Cardinality({i \in DOMAIN reported : reported[i] = signal})
AuditCount(status) == Cardinality({i \in DOMAIN sqlAudits : sqlAudits[i].status = status})

\* A subscriber sees one query or rejection signal for each persisted audit, with
\* the same outcome (agent_workflow.py:191-215).
ProgressMatchesAudits ==
    reported # <<>> =>
        /\ SignalCount(<<"query_completed", "completed">>) = AuditCount("executed")
        /\ SignalCount(<<"query_completed", "failed">>) = AuditCount("failed")
        /\ SignalCount(<<"sql_validation_rejected", "rejected">>) = AuditCount("rejected")

Contract == INSTANCE WorkflowContract WITH
    MaxSignals <- 6 * RevisionLimit + 5,
    phase      <- IF node \in {"returned", "raised"} THEN node ELSE "running",
    signals    <- Len(reported),
    status     <- result.status

\* run() keeps its contract: bounded reports, silence after its end, one of two
\* statuses or an exception, and it ends (agent_workflow.py:269-326).
ImplementsContract == Contract!Spec
=============================================================================
