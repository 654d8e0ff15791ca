------------------------- MODULE AgentWorkflowProofs -------------------------
(***************************************************************************)
(* Safety of the workflow for every revision limit.                        *)
(*                                                                         *)
(* WorkBounded is not inductive: what bounds the drafts is where the graph *)
(* stands.  Budget says how much of each budget is left at each node,      *)
(* Pace ties the length of the trace and of the reports to the counters,   *)
(* and Ledger ties the counters to the persisted rows.                     *)
(***************************************************************************)
EXTENDS AgentWorkflow, SequenceTheorems, FiniteSetTheorems, TLAPS

\* The router that leads to a node has checked the budget the node consumes.
\* A draft after execute_safe_sql is paid for by the plan before it.
Budget ==
    /\ sqlRevisions = IF sqlPlanAttempts = 0 THEN 0 ELSE sqlPlanAttempts - 1
    /\ conclusionRevisions = IF draftAttempts = 0 THEN 0 ELSE draftAttempts - 1
    /\ node = "retrieve_evidence" => sqlPlanAttempts = 0 /\ draftAttempts = 0
    /\ node = "plan_sql" =>
          /\ sqlPlanAttempts <= RevisionLimit
          /\ draftAttempts <= RevisionLimit + sqlPlanAttempts
    /\ node \in {"execute_safe_sql", "draft_analysis"} =>
          /\ 1 <= sqlPlanAttempts /\ sqlPlanAttempts <= RevisionLimit + 1
          /\ draftAttempts <= RevisionLimit + sqlPlanAttempts - 1
    /\ node \in {"review", "END", "returned", "raised"} =>
          /\ 1 <= sqlPlanAttempts /\ sqlPlanAttempts <= RevisionLimit + 1
          /\ draftAttempts <= RevisionLimit + sqlPlanAttempts
    /\ node \in {"review", "END", "returned"} => 1 <= draftAttempts

\* The graph alternates: each plan is followed by an execution, each draft by a
\* review; every node reports at most once and the first plan not at all.
Pace ==
    /\ Len(trace) = IF node = "retrieve_evidence" THEN 0
                    ELSE IF node \in {"execute_safe_sql", "review", "raised"}
                         THEN 2 * sqlPlanAttempts + 2 * draftAttempts
                         ELSE 2 * sqlPlanAttempts + 2 * draftAttempts + 1
    /\ Len(reported) <= IF sqlPlanAttempts = 0 THEN Len(trace) + 1 ELSE Len(trace)

\* Each finished execution left one audit, each draft one entry in the trace.
Ledger ==
    /\ Len(sqlAudits) = IF node \in {"execute_safe_sql", "raised"}
                        THEN sqlPlanAttempts - 1 ELSE sqlPlanAttempts
    /\ RunsOf("draft_analysis") = draftAttempts

\* A result in the state is that of the last usable audit, and the last usable audit
\* has its result in the state.
ResultAudited ==
    /\ queryResult # 0 => queryResult \in DOMAIN sqlAudits /\ LastUsableAudit(queryResult)
    /\ \A k \in DOMAIN sqlAudits : LastUsableAudit(k) => queryResult = k

\* The status of a returned result, and only it, tells whether there is a result.
StatusTellsResult ==
    /\ node = "returned" => (result.status = "completed" <=> queryResult # 0)
    /\ node # "returned" => result.status = "none"

IInv ==
    /\ TypeOK
    /\ Budget
    /\ Pace
    /\ Ledger
    /\ ResultAudited
    /\ ConclusionMatchesResult
    /\ StatusTellsResult
    /\ ReportedSignalsAccepted

TraceEntries ==
    [node : Nodes, status : {"passed", "blocked", "failed", "fallback"} \cup Decisions]
AuditEntries ==
    [status : {"rejected", "executed", "failed"}, candidate : Candidates]

-----------------------------------------------------------------------------

TraceStatuses == {"passed", "blocked", "failed", "fallback"} \cup Decisions

\* A report of an allowed pair keeps the type of the reports.
LEMMA ProgressType ==
    ASSUME TypeOK, NEW stage, NEW status, <<stage, status>> \in SafeEventSummaries,
           Progress(stage, status)
    PROVE  reported' \in Seq(SafeEventSummaries)
  BY AppendProperties DEF TypeOK, Progress

\* The finite vocabulary contains the pairs the nodes report.
LEMMA Vocabulary ==
    /\ <<"retrieval_completed", "completed">> \in SafeEventSummaries
    /\ <<"retrieval_completed", "failed">> \in SafeEventSummaries
    /\ <<"sql_repair_started", "started">> \in SafeEventSummaries
    /\ <<"sql_validation_rejected", "rejected">> \in SafeEventSummaries
    /\ <<"query_completed", "completed">> \in SafeEventSummaries
    /\ <<"query_completed", "failed">> \in SafeEventSummaries
    /\ <<"draft_completed", "completed">> \in SafeEventSummaries
    /\ <<"draft_completed", "failed">> \in SafeEventSummaries
    /\ <<"review_completed", "completed">> \in SafeEventSummaries
    /\ <<"review_completed", "failed">> \in SafeEventSummaries
  BY DEF SafeEventSummaries

\* A trace entry of a known node keeps the type of the trace.
LEMMA TracedType ==
    ASSUME TypeOK, NEW n \in Nodes, NEW status \in TraceStatuses, Traced(n, status)
    PROVE  trace' \in Seq(TraceEntries)
<1>1. trace \in Seq(TraceEntries)
  BY DEF TypeOK, TraceEntries
<1>2. [node |-> n, status |-> status] \in TraceEntries
  BY DEF TraceEntries, TraceStatuses
<1> QED
  BY <1>1, <1>2, AppendProperties DEF Traced

\* An audit of the current candidate keeps the type of the audits.
LEMMA AuditedType ==
    ASSUME TypeOK, NEW status \in {"rejected", "executed", "failed"}, Audited(status)
    PROVE  sqlAudits' \in Seq(AuditEntries)
<1>1. sqlAudits \in Seq(AuditEntries) /\ sqlCandidate \in Candidates
  BY DEF TypeOK, AuditEntries
<1>2. [status |-> status, candidate |-> sqlCandidate] \in AuditEntries
  BY <1>1 DEF AuditEntries
<1> QED
  BY <1>1, <1>2, AppendProperties DEF Audited

\* The types of everything but the three sequences.
Scalars ==
    /\ node \in Nodes \cup {"END", "returned", "raised"}
    /\ sqlCandidate \in Candidates
    /\ sqlError \in BOOLEAN
    /\ queryResult \in Nat /\ draftBasis \in Nat
    /\ reviewDecision \in Decisions \cup {"none"}
    /\ sqlPlanAttempts \in Nat /\ sqlRevisions \in Nat
    /\ draftAttempts \in Nat /\ conclusionRevisions \in Nat
    /\ reporter \in BOOLEAN
    /\ result \in [status : {"none", "completed", "limited"}, revisionRefused : BOOLEAN]

\* The type invariant is the sum of its parts.
LEMMA TypeParts ==
    TypeOK <=> /\ Scalars
               /\ trace \in Seq(TraceEntries)
               /\ sqlAudits \in Seq(AuditEntries)
               /\ reported \in Seq(SafeEventSummaries)
  BY DEF TypeOK, Scalars, TraceEntries, AuditEntries

\* Every step keeps the types.
LEMMA TypeStep ==
    ASSUME TypeOK, [Next]_workflowVars
    PROVE  TypeOK'
<1>0. TypeOK' <=> /\ Scalars'
                  /\ trace' \in Seq(TraceEntries)
                  /\ sqlAudits' \in Seq(AuditEntries)
                  /\ reported' \in Seq(SafeEventSummaries)
  BY DEF TypeOK, Scalars, TraceEntries, AuditEntries
<1>a. /\ Scalars
      /\ trace \in Seq(TraceEntries)
      /\ sqlAudits \in Seq(AuditEntries)
      /\ reported \in Seq(SafeEventSummaries)
  BY TypeParts
<1> USE DEF planVars, draftVars, endVars
<1>b. /\ "retrieve_evidence" \in Nodes /\ "plan_sql" \in Nodes
      /\ "execute_safe_sql" \in Nodes /\ "draft_analysis" \in Nodes /\ "review" \in Nodes
      /\ {"passed", "blocked", "failed", "fallback"} \subseteq TraceStatuses
      /\ Decisions \subseteq TraceStatuses
  BY DEF Nodes, TraceStatuses
<1>1. ASSUME Retrieve PROVE TypeOK'
  <2>1. Scalars'
    BY <1>1, <1>a, <1>b DEF Retrieve, EvidenceRetrieved, RetrievalUnavailable, Scalars
  <2>2. trace' \in Seq(TraceEntries)
    BY <1>1, <1>b, TracedType DEF Retrieve, EvidenceRetrieved, RetrievalUnavailable
  <2>3. reported' \in Seq(SafeEventSummaries)
    BY <1>1, ProgressType, Vocabulary DEF Retrieve, EvidenceRetrieved, RetrievalUnavailable
  <2> QED
    BY <1>0, <1>1, <1>a, <2>1, <2>2, <2>3 DEF Retrieve, EvidenceRetrieved, RetrievalUnavailable
<1>2. ASSUME Plan PROVE TypeOK'
  <2>1. /\ CountPlan /\ sqlCandidate' \in Candidates /\ sqlError' \in BOOLEAN
        /\ Traced("plan_sql", "passed") \/ Traced("plan_sql", "failed")
    BY <1>2 DEF Plan, PlanProposed, PlannerUnavailable, Candidates
  <2>2. Scalars'
    BY <1>a, <1>b, <2>1 DEF CountPlan, Scalars
  <2>3. trace' \in Seq(TraceEntries)
    BY <1>b, <2>1, TracedType
  <2>4. reported' \in Seq(SafeEventSummaries)
    BY <1>a, <2>1, ProgressType, Vocabulary DEF CountPlan, NoProgress
  <2> QED
    BY <1>0, <1>a, <2>1, <2>2, <2>3, <2>4 DEF CountPlan
<1>3. ASSUME Execute PROVE TypeOK'
  <2>1. ASSUME NEW stage, NEW signal, <<stage, signal>> \in SafeEventSummaries,
               NEW ts \in {"blocked", "failed"}, NEW as \in {"rejected", "failed"},
               SqlFailed(stage, signal, ts, as), queryResult' \in Nat
        PROVE  TypeOK'
    <3>1. reported' \in Seq(SafeEventSummaries)
      BY <2>1, ProgressType DEF SqlFailed
    <3>2. trace' \in Seq(TraceEntries)
      BY <1>b, <2>1, TracedType DEF SqlFailed
    <3>3. sqlAudits' \in Seq(AuditEntries)
      BY <2>1, AuditedType DEF SqlFailed
    <3>4. Scalars'
      BY <1>a, <1>b, <2>1 DEF SqlFailed, AfterSql, Scalars
    <3> QED
      BY <1>0, <3>1, <3>2, <3>3, <3>4
  <2>2. CASE CandidateMissing
    BY <1>a, <2>1, <2>2, Vocabulary DEF CandidateMissing, Scalars
  <2>3. CASE CandidateRejected
    BY <2>1, <2>3, Vocabulary DEF CandidateRejected
  <2>4. CASE QueryExecuted
    <3>1. reported' \in Seq(SafeEventSummaries)
      BY <2>4, ProgressType, Vocabulary DEF QueryExecuted
    <3>2. trace' \in Seq(TraceEntries)
      BY <1>b, <2>4, TracedType DEF QueryExecuted
    <3>3. sqlAudits' \in Seq(AuditEntries)
      BY <2>4, AuditedType DEF QueryExecuted
    <3>4. Scalars'
      BY <1>a, <1>b, <2>4 DEF QueryExecuted, AfterSql, Scalars
    <3> QED
      BY <1>0, <3>1, <3>2, <3>3, <3>4
  <2>5. ASSUME NEW ts \in {"blocked", "failed"}, QueryUnavailable(ts)
        PROVE  TypeOK'
    BY <2>1, <2>5, Vocabulary DEF QueryUnavailable
  <2>6. CASE GateRaised
    <3>1. Scalars'
      BY <1>a, <2>6 DEF GateRaised, Scalars
    <3> QED
      BY <1>0, <1>a, <2>6, <3>1 DEF GateRaised
  <2> QED
    BY <1>3, <2>2, <2>3, <2>4, <2>5, <2>6 DEF Execute
<1>4. ASSUME DraftAnalysis PROVE TypeOK'
  <2>1. ASSUME NEW status, NEW ts \in {"passed", "failed"}, Draft(status, ts),
               <<"draft_completed", status>> \in SafeEventSummaries
        PROVE  TypeOK'
    <3>1. reported' \in Seq(SafeEventSummaries)
      BY <2>1, ProgressType DEF Draft
    <3>2. trace' \in Seq(TraceEntries)
      BY <1>b, <2>1, TracedType DEF Draft
    <3>3. Scalars'
      BY <1>a, <1>b, <2>1 DEF Draft, Scalars
    <3> QED
      BY <1>0, <1>a, <2>1, <3>1, <3>2, <3>3 DEF Draft
  <2> QED
    BY <1>4, <2>1, Vocabulary DEF DraftAnalysis
<1>5. ASSUME Review PROVE TypeOK'
  <2>1. ASSUME NEW d \in Decisions, NEW s \in TraceStatuses, Traced("review", s),
               NEW signal, Progress("review_completed", signal),
               <<"review_completed", signal>> \in SafeEventSummaries,
               reviewDecision' = d, node' = AfterReview(d),
               UNCHANGED <<planVars, sqlError, queryResult, draftVars, sqlAudits, endVars>>
        PROVE  TypeOK'
    <3>1. reported' \in Seq(SafeEventSummaries)
      BY <2>1, ProgressType
    <3>2. trace' \in Seq(TraceEntries)
      BY <1>b, <2>1, TracedType
    <3>3. Scalars'
      BY <1>a, <1>b, <2>1 DEF AfterReview, Scalars
    <3> QED
      BY <1>0, <1>a, <2>1, <3>1, <3>2, <3>3
  <2>2. "approved" \in Decisions
    BY DEF Decisions
  <2>3. CASE ReviewUnavailable
    <3>1. "fallback" \in TraceStatuses
      BY <1>b
    <3> QED
      BY <2>1, <2>2, <2>3, <3>1, Vocabulary DEF ReviewUnavailable
  <2>4. ASSUME NEW d \in Decisions, Reviewed(d) PROVE TypeOK'
    <3>1. d \in TraceStatuses
      BY <1>b
    <3> QED
      BY <2>1, <2>4, <3>1, Vocabulary DEF Reviewed
  <2> QED
    BY <1>5, <2>3, <2>4 DEF Review
<1>6. ASSUME Return PROVE TypeOK'
  <2>1. result' \in [status : {"none", "completed", "limited"}, revisionRefused : BOOLEAN]
    <3> DEFINE status == IF queryResult # 0 THEN "completed" ELSE "limited"
               refused == reviewDecision \in {"revise_sql", "revise_conclusion"}
    <3>1. result' = [status |-> status, revisionRefused |-> refused]
      BY <1>6 DEF Return
    <3>2. status \in {"none", "completed", "limited"} /\ refused \in BOOLEAN
      OBVIOUS
    <3> HIDE DEF status, refused
    <3> QED
      BY <3>1, <3>2
  <2>2. Scalars'
    BY <1>6, <1>a, <2>1 DEF Return, Scalars
  <2> QED
    BY <1>0, <1>6, <1>a, <2>2 DEF Return
<1>7. ASSUME UNCHANGED workflowVars PROVE TypeOK'
  BY <1>7 DEF workflowVars, TypeOK
<1> QED
  BY <1>1, <1>2, <1>3, <1>4, <1>5, <1>6, <1>7 DEF Next

\* No step exceeds a budget.
LEMMA BudgetStep ==
    ASSUME TypeOK, Budget, [Next]_workflowVars
    PROVE  Budget'
<1> USE LimitAssumption DEF TypeOK, Budget, planVars, draftVars, endVars
<1>1. ASSUME Retrieve PROVE Budget'
  BY <1>1 DEF Retrieve, EvidenceRetrieved, RetrievalUnavailable
<1>2. ASSUME Plan PROVE Budget'
  <2>1. CountPlan
    BY <1>2 DEF Plan, PlanProposed, PlannerUnavailable
  <2> QED
    BY <2>1 DEF CountPlan
<1>3. ASSUME Execute PROVE Budget'
  <2>1. ASSUME NEW stage, NEW signal, NEW ts, NEW as,
               node = "execute_safe_sql", SqlFailed(stage, signal, ts, as)
        PROVE  Budget'
    BY <2>1 DEF SqlFailed, AfterSql
  <2>2. CASE CandidateMissing
    BY <2>1, <2>2 DEF CandidateMissing
  <2>3. CASE CandidateRejected
    BY <2>1, <2>3 DEF CandidateRejected
  <2>4. CASE QueryExecuted
    BY <2>4 DEF QueryExecuted, AfterSql
  <2>5. ASSUME NEW ts \in {"blocked", "failed"}, QueryUnavailable(ts)
        PROVE  Budget'
    BY <2>1, <2>5 DEF QueryUnavailable
  <2>6. CASE GateRaised
    BY <2>6 DEF GateRaised
  <2> QED
    BY <1>3, <2>2, <2>3, <2>4, <2>5, <2>6 DEF Execute
<1>4. ASSUME DraftAnalysis PROVE Budget'
  BY <1>4 DEF DraftAnalysis, Draft
<1>5. ASSUME Review PROVE Budget'
  BY <1>5 DEF Review, ReviewUnavailable, Reviewed, AfterReview
<1>6. ASSUME Return PROVE Budget'
  BY <1>6 DEF Return
<1>7. ASSUME UNCHANGED workflowVars PROVE Budget'
  BY <1>7 DEF workflowVars
<1> QED
  BY <1>1, <1>2, <1>3, <1>4, <1>5, <1>6, <1>7 DEF Next

\* A report, a trace entry and an audit are appended one at a time.
LEMMA ProgressLength ==
    ASSUME TypeOK, NEW stage, NEW status, <<stage, status>> \in SafeEventSummaries,
           Progress(stage, status)
    PROVE  Len(reported') <= Len(reported) + 1
  BY AppendProperties, LenProperties DEF TypeOK, Progress

\* Tracing a node appends one entry and changes none.
LEMMA TracedLength ==
    ASSUME TypeOK, NEW n \in Nodes, NEW status \in TraceStatuses, Traced(n, status)
    PROVE  /\ Len(trace') = Len(trace) + 1
           /\ \A i \in 1 .. Len(trace) : trace'[i] = trace[i]
           /\ trace'[Len(trace) + 1] = [node |-> n, status |-> status]
<1>1. trace \in Seq(TraceEntries)
  BY DEF TypeOK, TraceEntries
<1>2. [node |-> n, status |-> status] \in TraceEntries
  BY DEF TraceEntries, TraceStatuses
<1> QED
  BY <1>1, <1>2, AppendProperties DEF Traced

\* Auditing a candidate appends one entry and changes none.
LEMMA AuditedLength ==
    ASSUME TypeOK, NEW status \in {"rejected", "executed", "failed"}, Audited(status)
    PROVE  /\ Len(sqlAudits') = Len(sqlAudits) + 1
           /\ \A i \in 1 .. Len(sqlAudits) : sqlAudits'[i] = sqlAudits[i]
           /\ sqlAudits'[Len(sqlAudits) + 1] = [status |-> status, candidate |-> sqlCandidate]
<1>1. sqlAudits \in Seq(AuditEntries) /\ sqlCandidate \in Candidates
  BY DEF TypeOK, AuditEntries
<1>2. [status |-> status, candidate |-> sqlCandidate] \in AuditEntries
  BY <1>1 DEF AuditEntries
<1> QED
  BY <1>1, <1>2, AppendProperties DEF Audited

\* The lengths of the records are natural numbers.
LEMMA LengthTypes ==
    ASSUME TypeOK
    PROVE  Len(trace) \in Nat /\ Len(reported) \in Nat /\ Len(sqlAudits) \in Nat
  BY LenProperties DEF TypeOK

\* The node and status names the actions use are names of the trace.
LEMMA Names ==
    /\ "retrieve_evidence" \in Nodes /\ "plan_sql" \in Nodes
    /\ "execute_safe_sql" \in Nodes /\ "draft_analysis" \in Nodes /\ "review" \in Nodes
    /\ "passed" \in TraceStatuses /\ "blocked" \in TraceStatuses
    /\ "failed" \in TraceStatuses /\ "fallback" \in TraceStatuses
    /\ Decisions \subseteq TraceStatuses
    /\ "approved" \in Decisions
  BY DEF Nodes, TraceStatuses, Decisions

\* How an action that traces relates the three records to each other.
OneMore(audits) ==
    /\ Len(trace') = Len(trace) + 1
    /\ Len(reported') <= Len(reported) + 1
    /\ Len(sqlAudits') = Len(sqlAudits) + audits

\* The effect of each node on the lengths of the records.
LEMMA RecordsGrow ==
    ASSUME TypeOK
    PROVE  /\ Retrieve => OneMore(0)
           /\ Plan => /\ OneMore(0)
                      /\ sqlPlanAttempts = 0 => Len(reported') = Len(reported)
           /\ Execute /\ ~GateRaised => OneMore(1)
           /\ DraftAnalysis => OneMore(0)
           /\ Review => OneMore(0)
<1> USE TypeOK, Names, LengthTypes DEF OneMore
<1>0. ASSUME NEW n \in Nodes, NEW ts \in TraceStatuses, Traced(n, ts),
             NEW stage, NEW signal, <<stage, signal>> \in SafeEventSummaries,
             Progress(stage, signal), UNCHANGED sqlAudits
      PROVE  OneMore(0)
  <2>1. Len(trace') = Len(trace) + 1
    BY <1>0, TracedLength
  <2>2. Len(reported') <= Len(reported) + 1
    BY <1>0, ProgressLength
  <2>3. Len(sqlAudits') = Len(sqlAudits) + 0
    BY <1>0
  <2> QED
    BY <2>1, <2>2, <2>3
<1>1. ASSUME Retrieve PROVE OneMore(0)
  <2>1. CASE EvidenceRetrieved
    BY <1>0, <2>1, Vocabulary DEF EvidenceRetrieved
  <2>2. CASE RetrievalUnavailable
    BY <1>0, <2>2, Vocabulary DEF RetrievalUnavailable
  <2> QED
    BY <1>1, <2>1, <2>2 DEF Retrieve
<1>2. ASSUME Plan
      PROVE  OneMore(0) /\ (sqlPlanAttempts = 0 => Len(reported') = Len(reported))
  <2>1. CountPlan /\ (Traced("plan_sql", "passed") \/ Traced("plan_sql", "failed"))
    BY <1>2 DEF Plan, PlanProposed, PlannerUnavailable
  <2>2. Len(trace') = Len(trace) + 1
    BY <2>1, TracedLength
  <2>3. /\ Len(reported') <= Len(reported) + 1
        /\ sqlPlanAttempts = 0 => Len(reported') = Len(reported)
    BY <2>1, ProgressLength, Vocabulary DEF CountPlan, NoProgress, TypeOK
  <2> QED
    BY <2>1, <2>2, <2>3 DEF CountPlan
<1>3. ASSUME Execute, ~GateRaised PROVE OneMore(1)
  <2>1. ASSUME NEW stage, NEW signal, <<stage, signal>> \in SafeEventSummaries,
               NEW ts \in {"blocked", "failed"}, NEW as \in {"rejected", "failed"},
               SqlFailed(stage, signal, ts, as)
        PROVE  OneMore(1)
    BY <2>1, TracedLength, ProgressLength, AuditedLength DEF SqlFailed
  <2>2. CASE CandidateMissing
    BY <2>1, <2>2, Vocabulary DEF CandidateMissing
  <2>3. CASE CandidateRejected
    BY <2>1, <2>3, Vocabulary DEF CandidateRejected
  <2>4. CASE QueryExecuted
    BY <2>4, TracedLength, ProgressLength, AuditedLength, Vocabulary DEF QueryExecuted
  <2>5. ASSUME NEW ts \in {"blocked", "failed"}, QueryUnavailable(ts)
        PROVE  OneMore(1)
    BY <2>1, <2>5, Vocabulary DEF QueryUnavailable
  <2> QED
    BY <1>3, <2>2, <2>3, <2>4, <2>5 DEF Execute
<1>4. ASSUME DraftAnalysis PROVE OneMore(0)
  <2>1. CASE Draft("completed", "passed")
    BY <1>0, <2>1, Vocabulary DEF Draft
  <2>2. CASE Draft("failed", "failed")
    BY <1>0, <2>2, Vocabulary DEF Draft
  <2> QED
    BY <1>4, <2>1, <2>2 DEF DraftAnalysis
<1>5. ASSUME Review PROVE OneMore(0)
  <2>1. CASE ReviewUnavailable
    BY <1>0, <2>1, Vocabulary DEF ReviewUnavailable
  <2>2. ASSUME NEW d \in Decisions, Reviewed(d) PROVE OneMore(0)
    <3>1. d \in TraceStatuses
      OBVIOUS
    <3> QED
      BY <1>0, <2>2, <3>1, Vocabulary DEF Reviewed
  <2> QED
    BY <1>5, <2>1, <2>2 DEF Review
<1> QED
  BY <1>1, <1>2, <1>3, <1>4, <1>5

\* What each node does to the counters and to the position in the graph.
LEMMA Positions ==
    ASSUME TypeOK
    PROVE  /\ Retrieve => /\ node = "retrieve_evidence" /\ node' = "plan_sql"
                          /\ UNCHANGED <<sqlPlanAttempts, draftAttempts>>
           /\ Plan => /\ node = "plan_sql" /\ node' = "execute_safe_sql"
                      /\ sqlPlanAttempts' = sqlPlanAttempts + 1
                      /\ UNCHANGED draftAttempts
           /\ Execute => /\ node = "execute_safe_sql"
                         /\ node' \in IF GateRaised THEN {"raised"} ELSE {"plan_sql", "draft_analysis"}
                         /\ UNCHANGED <<sqlPlanAttempts, draftAttempts>>
           /\ GateRaised => UNCHANGED <<trace, reported, sqlAudits>> /\ node' = "raised"
           /\ DraftAnalysis => /\ node = "draft_analysis" /\ node' = "review"
                               /\ draftAttempts' = draftAttempts + 1
                               /\ UNCHANGED sqlPlanAttempts
           /\ Review => /\ node = "review"
                        /\ node' \in {"plan_sql", "draft_analysis", "END"}
                        /\ UNCHANGED <<sqlPlanAttempts, draftAttempts>>
           /\ Return => /\ node = "END" /\ node' = "returned"
                        /\ UNCHANGED <<sqlPlanAttempts, draftAttempts, trace, reported, sqlAudits>>
<1> USE DEF planVars, draftVars, endVars
<1>1. Retrieve => /\ node = "retrieve_evidence" /\ node' = "plan_sql"
                  /\ UNCHANGED <<sqlPlanAttempts, draftAttempts>>
  BY DEF Retrieve, EvidenceRetrieved, RetrievalUnavailable
<1>2. Plan => /\ node = "plan_sql" /\ node' = "execute_safe_sql"
              /\ sqlPlanAttempts' = sqlPlanAttempts + 1
              /\ UNCHANGED draftAttempts
  BY DEF Plan, PlanProposed, PlannerUnavailable, CountPlan
<1>3. Execute => /\ node = "execute_safe_sql"
                 /\ node' \in IF GateRaised THEN {"raised"} ELSE {"plan_sql", "draft_analysis"}
                 /\ UNCHANGED <<sqlPlanAttempts, draftAttempts>>
  <2>1. ASSUME NEW stage, NEW signal, NEW ts, NEW as, SqlFailed(stage, signal, ts, as)
        PROVE  /\ node' \in {"plan_sql", "draft_analysis"}
               /\ UNCHANGED <<sqlPlanAttempts, draftAttempts>>
    BY <2>1 DEF SqlFailed, AfterSql
  <2>2. GateRaised => node' = "raised" /\ node = "execute_safe_sql"
                      /\ UNCHANGED <<sqlPlanAttempts, draftAttempts>>
    BY DEF GateRaised
  <2>3. Execute => node = "execute_safe_sql"
    BY DEF Execute, CandidateMissing, CandidateRejected, QueryExecuted, QueryUnavailable, GateRaised
  <2>4. Execute /\ ~GateRaised => /\ node' \in {"plan_sql", "draft_analysis"}
                                  /\ UNCHANGED <<sqlPlanAttempts, draftAttempts>>
    BY <2>1 DEF Execute, CandidateMissing, CandidateRejected, QueryExecuted,
                QueryUnavailable, AfterSql
  <2> QED
    BY <2>2, <2>3, <2>4
<1>4. GateRaised => UNCHANGED <<trace, reported, sqlAudits>> /\ node' = "raised"
  BY DEF GateRaised
<1>5. DraftAnalysis => /\ node = "draft_analysis" /\ node' = "review"
                       /\ draftAttempts' = draftAttempts + 1
                       /\ UNCHANGED sqlPlanAttempts
  BY DEF DraftAnalysis, Draft
<1>6. Review => /\ node = "review"
                /\ node' \in {"plan_sql", "draft_analysis", "END"}
                /\ UNCHANGED <<sqlPlanAttempts, draftAttempts>>
  BY DEF Review, ReviewUnavailable, Reviewed, AfterReview
<1>7. Return => /\ node = "END" /\ node' = "returned"
                /\ UNCHANGED <<sqlPlanAttempts, draftAttempts, trace, reported, sqlAudits>>
  BY DEF Return
<1> QED
  BY <1>1, <1>2, <1>3, <1>4, <1>5, <1>6, <1>7

\* The lengths follow the counters.
LEMMA PaceStep ==
    ASSUME TypeOK, Budget, Pace, [Next]_workflowVars
    PROVE  Pace'
<1> DEFINE p == sqlPlanAttempts
           d == draftAttempts
<1>0. /\ Len(trace) \in Nat /\ Len(reported) \in Nat /\ p \in Nat /\ d \in Nat
      /\ Len(trace)' \in Nat /\ Len(reported)' \in Nat /\ p' \in Nat /\ d' \in Nat
  BY LengthTypes, TypeStep, LenProperties DEF TypeOK
<1>a. /\ node = "retrieve_evidence" => p = 0 /\ d = 0
      /\ node \in {"execute_safe_sql", "draft_analysis", "review", "END", "returned", "raised"}
            => p >= 1
  BY <1>0 DEF Budget
<1> USE RecordsGrow, Positions, <1>0, <1>a DEF Pace, OneMore
<1>1. ASSUME Retrieve PROVE Pace'
  BY <1>1
<1>2. ASSUME Plan PROVE Pace'
  BY <1>2
<1>3. ASSUME Execute PROVE Pace'
  BY <1>3
<1>4. ASSUME DraftAnalysis PROVE Pace'
  BY <1>4
<1>5. ASSUME Review PROVE Pace'
  BY <1>5
<1>6. ASSUME Return PROVE Pace'
  BY <1>6
<1>7. ASSUME UNCHANGED workflowVars PROVE Pace'
  BY <1>7 DEF workflowVars, planVars, draftVars
<1> QED
  BY <1>1, <1>2, <1>3, <1>4, <1>5, <1>6, <1>7 DEF Next

\* Appending an entry to the trace counts for its node and for no other.
LEMMA RunsOfStep ==
    ASSUME TypeOK, NEW n \in Nodes, NEW status \in TraceStatuses, Traced(n, status),
           NEW m \in Nodes
    PROVE  /\ RunsOf(m) \in Nat
           /\ RunsOf(m)' = IF n = m THEN RunsOf(m) + 1 ELSE RunsOf(m)
<1> DEFINE Old == {i \in DOMAIN trace : trace[i].node = m}
           New == {i \in DOMAIN trace' : trace'[i].node = m}
           k == Len(trace)
<1>1. k \in Nat /\ DOMAIN trace = 1 .. k
  BY LenProperties DEF TypeOK
<1>2. Len(trace') = k + 1 /\ DOMAIN trace' = 1 .. (k + 1)
  BY TracedLength, TracedType, LenProperties
<1>3. /\ \A i \in 1 .. k : trace'[i] = trace[i]
      /\ trace'[k + 1].node = n
  <2>1. /\ \A i \in 1 .. k : trace'[i] = trace[i]
        /\ trace'[k + 1] = [node |-> n, status |-> status]
    BY TracedLength
  <2> QED
    BY <2>1
<1>4. IsFiniteSet(Old) /\ Cardinality(Old) \in Nat /\ k + 1 \notin Old
  <2>1. IsFiniteSet(1 .. k)
    BY <1>1, FS_Interval
  <2>2. Old \in SUBSET (1 .. k)
    BY <1>1
  <2>3. IsFiniteSet(Old)
    BY <2>1, <2>2, FS_Subset
  <2>4. k + 1 \notin Old
    BY <1>1
  <2> QED
    BY <2>3, <2>4, FS_CardinalityType
<1>5. CASE n = m
  <2>1. New = Old \cup {k + 1}
    BY <1>1, <1>2, <1>3, <1>5
  <2>2. Cardinality(New) = Cardinality(Old) + 1
    BY <1>4, <2>1, FS_AddElement
  <2> QED
    BY <1>4, <1>5, <2>2 DEF RunsOf
<1>6. CASE n # m
  <2>1. New = Old
    BY <1>1, <1>2, <1>3, <1>6
  <2> QED
    BY <1>4, <1>6, <2>1 DEF RunsOf
<1> QED
  BY <1>5, <1>6

\* Which node an action traces.
LEMMA TracedNodes ==
    /\ Retrieve => \E s \in TraceStatuses : Traced("retrieve_evidence", s)
    /\ Plan => \E s \in TraceStatuses : Traced("plan_sql", s)
    /\ Execute /\ ~GateRaised => \E s \in TraceStatuses : Traced("execute_safe_sql", s)
    /\ DraftAnalysis => \E s \in TraceStatuses : Traced("draft_analysis", s)
    /\ Review => \E s \in TraceStatuses : Traced("review", s)
<1> USE Names
<1>1. Retrieve => \E s \in TraceStatuses : Traced("retrieve_evidence", s)
  BY DEF Retrieve, EvidenceRetrieved, RetrievalUnavailable
<1>2. Plan => \E s \in TraceStatuses : Traced("plan_sql", s)
  BY DEF Plan, PlanProposed, PlannerUnavailable
<1>3. ASSUME Execute, ~GateRaised
      PROVE  \E s \in TraceStatuses : Traced("execute_safe_sql", s)
  <2>1. CASE CandidateMissing
    BY <2>1 DEF CandidateMissing, SqlFailed
  <2>2. CASE CandidateRejected
    BY <2>2 DEF CandidateRejected, SqlFailed
  <2>3. CASE QueryExecuted
    BY <2>3 DEF QueryExecuted
  <2>4. ASSUME NEW ts \in {"blocked", "failed"}, QueryUnavailable(ts)
        PROVE  \E s \in TraceStatuses : Traced("execute_safe_sql", s)
    BY <2>4 DEF QueryUnavailable, SqlFailed
  <2> QED
    BY <1>3, <2>1, <2>2, <2>3, <2>4 DEF Execute
<1>4. DraftAnalysis => \E s \in TraceStatuses : Traced("draft_analysis", s)
  BY DEF DraftAnalysis, Draft
<1>5. ASSUME Review PROVE \E s \in TraceStatuses : Traced("review", s)
  <2>1. CASE ReviewUnavailable
    BY <2>1 DEF ReviewUnavailable
  <2>2. ASSUME NEW d \in Decisions, Reviewed(d)
        PROVE  \E s \in TraceStatuses : Traced("review", s)
    BY <2>2 DEF Reviewed
  <2> QED
    BY <1>5, <2>1, <2>2 DEF Review
<1> QED
  BY <1>1, <1>2, <1>3, <1>4, <1>5

\* The counters stay the numbers of persisted rows.
LEMMA LedgerStep ==
    ASSUME TypeOK, Budget, Ledger, [Next]_workflowVars
    PROVE  Ledger'
<1> DEFINE Audits == Len(sqlAudits) = IF node \in {"execute_safe_sql", "raised"}
                                      THEN sqlPlanAttempts - 1 ELSE sqlPlanAttempts
           Drafts == RunsOf("draft_analysis") = draftAttempts
<1>0. /\ Len(sqlAudits) \in Nat /\ sqlPlanAttempts \in Nat /\ draftAttempts \in Nat
      /\ sqlPlanAttempts' \in Nat /\ Audits /\ Drafts
  BY LengthTypes, TypeStep DEF TypeOK, Ledger
<1>a. ASSUME NEW n \in Nodes, \E s \in TraceStatuses : Traced(n, s)
      PROVE  RunsOf("draft_analysis")' =
                IF n = "draft_analysis" THEN draftAttempts + 1 ELSE draftAttempts
  BY <1>0, <1>a, RunsOfStep, Names
<1> USE <1>0, RecordsGrow, Positions, TracedNodes, Names DEF OneMore
<1>1. ASSUME Retrieve PROVE Audits' /\ Drafts'
  <2>1. Drafts'
    BY <1>1, <1>a
  <2> QED
    BY <1>1, <2>1
<1>2. ASSUME Plan PROVE Audits' /\ Drafts'
  <2>1. Drafts'
    BY <1>2, <1>a
  <2> QED
    BY <1>2, <2>1
<1>3. ASSUME Execute, ~GateRaised PROVE Audits' /\ Drafts'
  <2>1. Drafts'
    BY <1>3, <1>a
  <2> QED
    BY <1>3, <2>1
<1>4. ASSUME GateRaised PROVE Audits' /\ Drafts'
  <2>1. Execute /\ RunsOf("draft_analysis")' = RunsOf("draft_analysis")
    BY <1>4 DEF Execute, RunsOf
  <2> QED
    BY <1>4, <2>1
<1>5. ASSUME DraftAnalysis PROVE Audits' /\ Drafts'
  <2>1. Drafts'
    BY <1>5, <1>a
  <2> QED
    BY <1>5, <2>1
<1>6. ASSUME Review PROVE Audits' /\ Drafts'
  <2>1. Drafts'
    BY <1>6, <1>a
  <2> QED
    BY <1>6, <2>1
<1>7. ASSUME Return PROVE Audits' /\ Drafts'
  <2>1. RunsOf("draft_analysis")' = RunsOf("draft_analysis")
    BY <1>7 DEF RunsOf
  <2> QED
    BY <1>7, <2>1
<1>8. ASSUME UNCHANGED workflowVars PROVE Audits' /\ Drafts'
  <2>1. RunsOf("draft_analysis")' = RunsOf("draft_analysis")
    BY <1>8 DEF RunsOf, workflowVars
  <2> QED
    BY <1>8, <2>1 DEF workflowVars, planVars, draftVars
<1> QED
  BY <1>1, <1>2, <1>3, <1>4, <1>5, <1>6, <1>7, <1>8 DEF Next, Ledger

\* The audit an execution leaves decides which result it leaves.
LEMMA ResultStep ==
    ASSUME TypeOK, Budget, Ledger, ResultAudited, [Next]_workflowVars
    PROVE  ResultAudited'
<1> DEFINE n == Len(sqlAudits)
<1>0. n \in Nat /\ DOMAIN sqlAudits = 1 .. n /\ queryResult \in Nat
  BY LengthTypes, LenProperties DEF TypeOK
<1>1. ASSUME UNCHANGED <<sqlAudits, queryResult>> PROVE ResultAudited'
  BY <1>1 DEF ResultAudited, LastUsableAudit
<1>2. ASSUME NEW status \in {"rejected", "executed", "failed"}, Audited(status),
             \/ status = "executed" /\ sqlCandidate # "" /\ queryResult' = n + 1
             \/ status # "executed" /\ sqlCandidate # "" /\ queryResult' = 0
             \/ status # "executed" /\ sqlCandidate = "" /\ queryResult' = queryResult
      PROVE  ResultAudited'
  <2>0. PICK m \in Nat : m = n
    BY <1>0
  <2>a. /\ Len(sqlAudits') = m + 1
        /\ \A i \in 1 .. m : sqlAudits'[i] = sqlAudits[i]
        /\ sqlAudits'[m + 1] = [status |-> status, candidate |-> sqlCandidate]
    BY <1>2, <2>0, AuditedLength
  <2>b. sqlAudits' \in Seq(AuditEntries)
    BY <1>2, AuditedType
  <2>c. DOMAIN sqlAudits' = 1 .. (m + 1) /\ DOMAIN sqlAudits = 1 .. m
    BY <1>0, <2>0, <2>a, <2>b, LenProperties
  <2>d. sqlAudits'[m + 1].status = status /\ sqlAudits'[m + 1].candidate = sqlCandidate
    BY <2>a
  <2>2. ASSUME NEW k \in 1 .. m
        PROVE  LastUsableAudit(k)' <=> (LastUsableAudit(k) /\ sqlCandidate = "")
    <3>1. k \in 1 .. (m + 1) /\ m + 1 > k
      OBVIOUS
    <3>2. sqlAudits'[k] = sqlAudits[k]
      BY <2>a
    <3>3. (\A j \in 1 .. (m + 1) : j > k => sqlAudits'[j].candidate = "")
            <=> ((\A j \in 1 .. m : j > k => sqlAudits[j].candidate = "") /\ sqlCandidate = "")
      <4>1. 1 .. (m + 1) = (1 .. m) \cup {m + 1}
        OBVIOUS
      <4>2. \A j \in 1 .. m : sqlAudits'[j].candidate = sqlAudits[j].candidate
        BY <2>a
      <4> QED
        BY <2>d, <3>1, <4>1, <4>2
    <3> QED
      BY <2>c, <3>2, <3>3 DEF LastUsableAudit
  <2>3. LastUsableAudit(m + 1)' <=> status = "executed"
    <3>1. \A j \in 1 .. (m + 1) : ~(j > m + 1)
      OBVIOUS
    <3> QED
      BY <2>c, <2>d, <3>1 DEF LastUsableAudit
  <2>4. /\ queryResult # 0 => queryResult \in 1 .. m /\ LastUsableAudit(queryResult)
        /\ \A k \in 1 .. m : LastUsableAudit(k) => queryResult = k
    BY <2>c DEF ResultAudited
  <2>5. ASSUME NEW q, q = queryResult', q # 0
        PROVE  q \in 1 .. (m + 1) /\ LastUsableAudit(q)'
    <3>1. CASE status = "executed"
      <4>1. q = m + 1
        BY <1>2, <2>0, <2>5, <3>1
      <4> QED
        BY <2>3, <3>1, <4>1
    <3>2. CASE status # "executed"
      <4>1. q = queryResult /\ sqlCandidate = ""
        BY <1>2, <2>5, <3>2
      <4>2. PICK c \in 1 .. m : c = queryResult
        BY <2>4, <2>5, <4>1
      <4>3. LastUsableAudit(c)
        BY <2>4, <2>5, <4>1, <4>2 DEF LastUsableAudit
      <4>4. LastUsableAudit(c)'
        BY <2>2, <4>1, <4>2, <4>3
      <4>5. c = q
        BY <4>1, <4>2
      <4>6. c \in 1 .. (m + 1)
        OBVIOUS
      <4> QED
        BY <4>4, <4>5, <4>6 DEF LastUsableAudit
    <3> QED
      BY <3>1, <3>2
  <2>6. ASSUME NEW k \in 1 .. (m + 1), LastUsableAudit(k)'
        PROVE  queryResult' = k
    <3>1. CASE k = m + 1
      BY <1>2, <2>0, <2>3, <2>6, <3>1
    <3>2. CASE k # m + 1
      <4>1. k \in 1 .. m
        BY <3>2
      <4>2. LastUsableAudit(k) /\ sqlCandidate = ""
        BY <2>2, <2>6, <4>1
      <4> QED
        BY <1>2, <2>4, <4>1, <4>2
    <3> QED
      BY <3>1, <3>2
  <2>7. queryResult' # 0 => queryResult' \in DOMAIN sqlAudits' /\ LastUsableAudit(queryResult)'
    <3>1. PICK q : q = queryResult'
      OBVIOUS
    <3>2. LastUsableAudit(q)' <=> LastUsableAudit(queryResult)'
      BY <3>1 DEF LastUsableAudit
    <3> QED
      BY <2>5, <2>c, <3>1, <3>2
  <2> QED
    BY <2>6, <2>7, <2>c DEF ResultAudited
<1>3. ASSUME Execute PROVE ResultAudited'
  <2>1. node = "execute_safe_sql" /\ sqlPlanAttempts = n + 1
    BY <1>0, <1>3, Positions DEF Ledger, TypeOK
  <2>2. CASE CandidateMissing
    <3>1. Audited("rejected") /\ sqlCandidate = "" /\ queryResult' = queryResult
      BY <2>2 DEF CandidateMissing, SqlFailed
    <3> QED
      BY <1>2, <3>1
  <2>3. CASE CandidateRejected
    <3>1. Audited("rejected") /\ sqlCandidate # "" /\ queryResult' = 0
      BY <2>3 DEF CandidateRejected, SqlFailed
    <3> QED
      BY <1>2, <3>1
  <2>4. CASE QueryExecuted
    <3>1. Audited("executed") /\ sqlCandidate # "" /\ queryResult' = n + 1
      BY <2>1, <2>4 DEF QueryExecuted
    <3> QED
      BY <1>2, <3>1
  <2>5. ASSUME NEW ts \in {"blocked", "failed"}, QueryUnavailable(ts)
        PROVE  ResultAudited'
    <3>1. Audited("failed") /\ sqlCandidate # "" /\ queryResult' = 0
      BY <2>5 DEF QueryUnavailable, SqlFailed
    <3> QED
      BY <1>2, <3>1
  <2>6. CASE GateRaised
    BY <1>1, <2>6 DEF GateRaised
  <2> QED
    BY <1>3, <2>2, <2>3, <2>4, <2>5, <2>6 DEF Execute
<1>4. Retrieve \/ Plan \/ DraftAnalysis \/ Review \/ Return \/ UNCHANGED workflowVars
        => UNCHANGED <<sqlAudits, queryResult>>
  BY DEF Retrieve, EvidenceRetrieved, RetrievalUnavailable, Plan, PlanProposed,
         PlannerUnavailable, CountPlan, DraftAnalysis, Draft, Review, ReviewUnavailable,
         Reviewed, Return, workflowVars
<1> QED
  BY <1>1, <1>3, <1>4 DEF Next

\* A draft is written from the result of the moment, and the result changes only
\* before the next draft.
LEMMA ConclusionStep ==
    ASSUME TypeOK, ConclusionMatchesResult, [Next]_workflowVars
    PROVE  ConclusionMatchesResult'
<1> USE DEF ConclusionMatchesResult, draftVars
<1>1. ASSUME Retrieve \/ Plan \/ Execute PROVE ConclusionMatchesResult'
  BY <1>1, Positions
<1>2. ASSUME DraftAnalysis PROVE ConclusionMatchesResult'
  BY <1>2 DEF DraftAnalysis, Draft
<1>3. ASSUME Review PROVE ConclusionMatchesResult'
  BY <1>3 DEF Review, ReviewUnavailable, Reviewed
<1>4. ASSUME Return PROVE ConclusionMatchesResult'
  BY <1>4 DEF Return
<1>5. ASSUME UNCHANGED workflowVars PROVE ConclusionMatchesResult'
  BY <1>5 DEF workflowVars
<1> QED
  BY <1>1, <1>2, <1>3, <1>4, <1>5 DEF Next

\* Only Return makes a result, and it reads the status off the query result.
LEMMA StatusStep ==
    ASSUME TypeOK, StatusTellsResult, [Next]_workflowVars
    PROVE  StatusTellsResult'
<1>1. ASSUME Retrieve \/ Plan \/ Execute \/ DraftAnalysis \/ Review
      PROVE  StatusTellsResult'
  <2>1. node # "returned" /\ node' # "returned"
    BY <1>1, Positions
  <2>2. UNCHANGED result
    BY <1>1 DEF Retrieve, EvidenceRetrieved, RetrievalUnavailable, Plan, PlanProposed,
                PlannerUnavailable, CountPlan, Execute, CandidateMissing, CandidateRejected,
                QueryExecuted, QueryUnavailable, GateRaised, SqlFailed, DraftAnalysis, Draft,
                Review, ReviewUnavailable, Reviewed, endVars
  <2> QED
    BY <2>1, <2>2 DEF StatusTellsResult
<1>2. ASSUME Return PROVE StatusTellsResult'
  BY <1>2 DEF Return, StatusTellsResult
<1>3. ASSUME UNCHANGED workflowVars PROVE StatusTellsResult'
  BY <1>3 DEF workflowVars, endVars, StatusTellsResult
<1> QED
  BY <1>1, <1>2, <1>3 DEF Next

\* No node reports a pair outside the vocabulary or of a terminal stage.
LEMMA ReportedStep ==
    ASSUME TypeOK, ReportedSignalsAccepted, [Next]_workflowVars
    PROVE  ReportedSignalsAccepted'
<1> DEFINE n == Len(reported)
<1>0. n \in Nat /\ DOMAIN reported = 1 .. n
  BY LenProperties DEF TypeOK
<1>1. ASSUME UNCHANGED reported PROVE ReportedSignalsAccepted'
  BY <1>1 DEF ReportedSignalsAccepted
<1>2. ASSUME NEW stage, NEW status, <<stage, status>> \in SafeEventSummaries,
             stage \notin {"analysis_completed", "failed"}, Progress(stage, status)
      PROVE  ReportedSignalsAccepted'
  <2>1. CASE reporter
    <3>1. reported' = Append(reported, <<stage, status>>)
      BY <1>2, <2>1 DEF Progress
    <3>2. /\ DOMAIN reported' = 1 .. (n + 1)
          /\ \A i \in 1 .. n : reported'[i] = reported[i]
          /\ reported'[n + 1] = <<stage, status>>
      BY <1>0, <1>2, <3>1, AppendProperties, LenProperties DEF TypeOK
    <3>3. ~IsTerminal(<<stage, status>>)
      BY <1>2 DEF IsTerminal, TerminalStages
    <3> QED
      BY <1>0, <1>2, <3>2, <3>3 DEF ReportedSignalsAccepted
  <2>2. CASE ~reporter
    BY <1>1, <1>2, <2>2 DEF Progress
  <2> QED
    BY <2>1, <2>2
<1> USE Vocabulary
<1>3. ASSUME Retrieve PROVE ReportedSignalsAccepted'
  BY <1>2, <1>3 DEF Retrieve, EvidenceRetrieved, RetrievalUnavailable
<1>4. ASSUME Plan PROVE ReportedSignalsAccepted'
  BY <1>1, <1>2, <1>4 DEF Plan, PlanProposed, PlannerUnavailable, CountPlan, NoProgress
<1>5. ASSUME Execute PROVE ReportedSignalsAccepted'
  <2>1. CASE CandidateMissing \/ CandidateRejected
    BY <1>2, <2>1 DEF CandidateMissing, CandidateRejected, SqlFailed
  <2>2. CASE QueryExecuted
    BY <1>2, <2>2 DEF QueryExecuted
  <2>3. ASSUME NEW ts \in {"blocked", "failed"}, QueryUnavailable(ts)
        PROVE  ReportedSignalsAccepted'
    BY <1>2, <2>3 DEF QueryUnavailable, SqlFailed
  <2>4. CASE GateRaised
    BY <1>1, <2>4 DEF GateRaised
  <2> QED
    BY <1>5, <2>1, <2>2, <2>3, <2>4 DEF Execute
<1>6. ASSUME DraftAnalysis PROVE ReportedSignalsAccepted'
  BY <1>2, <1>6 DEF DraftAnalysis, Draft
<1>7. ASSUME Review PROVE ReportedSignalsAccepted'
  BY <1>2, <1>7 DEF Review, ReviewUnavailable, Reviewed
<1>8. ASSUME Return \/ UNCHANGED workflowVars PROVE ReportedSignalsAccepted'
  BY <1>1, <1>8 DEF Return, workflowVars
<1> QED
  BY <1>3, <1>4, <1>5, <1>6, <1>7, <1>8 DEF Next

\* The sequence of one element, and the empty one.
LEMMA Singleton ==
    ASSUME NEW S, NEW p \in S
    PROVE  <<p>> \in Seq(S) /\ Len(<<p>>) = 1 /\ \A i \in DOMAIN <<p>> : <<p>>[i] = p
<1>1. <<p>> \in Seq(S) /\ Len(<<p>>) = 1
  OBVIOUS
<1>2. DOMAIN <<p>> = 1 .. 1 /\ <<p>>[1] = p
  OBVIOUS
<1> QED
  BY <1>1, <1>2

\* The empty sequence has the type of every record.
LEMMA Nothing ==
    ASSUME NEW S
    PROVE  <<>> \in Seq(S) /\ Len(<<>>) = 0 /\ DOMAIN <<>> = {}
<1>1. DOMAIN <<>> = {}
  OBVIOUS
<1> QED
  BY <1>1, EmptySeq

\* The start of a run satisfies the invariant.
LEMMA InitInv == Init => IInv
<1> SUFFICES ASSUME Init PROVE IInv
  OBVIOUS
<1> USE DEF Init
<1>1. /\ <<>> \in Seq(TraceEntries) /\ <<>> \in Seq(AuditEntries)
      /\ <<>> \in Seq(SafeEventSummaries) /\ Len(<<>>) = 0 /\ DOMAIN <<>> = {}
  BY Nothing
<1>2. /\ reported \in Seq(SafeEventSummaries) /\ Len(reported) <= 1
      /\ \A i \in DOMAIN reported : reported[i] = <<"retrieval_started", "started">>
  <2> DEFINE p == <<"retrieval_started", "started">>
  <2>1. p \in SafeEventSummaries
    BY DEF SafeEventSummaries
  <2>2. reported = <<p>> \/ reported = <<>>
    OBVIOUS
  <2> HIDE DEF p
  <2>3. /\ <<p>> \in Seq(SafeEventSummaries) /\ Len(<<p>>) = 1
        /\ \A i \in DOMAIN <<p>> : <<p>>[i] = p
    BY <2>1, Singleton
  <2> HIDE DEF Init
  <2> QED
    <3>1. CASE reported = <<p>>
      <4>1. Len(reported) <= 1 /\ reported \in Seq(SafeEventSummaries)
        BY <2>3, <3>1
      <4>2. \A i \in DOMAIN reported : reported[i] = p
        BY <2>3, <3>1
      <4> QED
        BY <4>1, <4>2 DEF p
    <3>2. CASE reported = <<>>
      <4>1. Len(reported) <= 1 /\ reported \in Seq(SafeEventSummaries)
        BY <1>1, <3>2
      <4>2. \A i \in DOMAIN reported : reported[i] = p
        BY <1>1, <3>2
      <4> QED
        BY <4>1, <4>2 DEF p
    <3> QED
      BY <2>2, <3>1, <3>2
<1>3. TypeOK
  <2>1. Scalars
    BY DEF Scalars, Nodes, Candidates, NoResult
  <2> QED
    BY <1>1, <1>2, <2>1, TypeParts
<1>4. Budget /\ Pace
  <2>1. Budget
    BY LimitAssumption DEF Budget
  <2>2. Len(trace) = 0 /\ Len(reported) <= 1
    BY <1>1, <1>2
  <2>3. node = "retrieve_evidence" /\ sqlPlanAttempts = 0
    OBVIOUS
  <2> HIDE DEF Init
  <2> QED
    BY <1>3, <2>1, <2>2, <2>3, LengthTypes DEF Pace
<1>5. Ledger
  <2>1. {i \in DOMAIN trace : trace[i].node = "draft_analysis"} = {}
    BY <1>1
  <2> QED
    BY <1>1, <2>1, FS_EmptySet DEF Ledger, RunsOf
<1>6. ResultAudited /\ ConclusionMatchesResult /\ StatusTellsResult
  <2>1. DOMAIN sqlAudits = {} /\ queryResult = 0 /\ node = "retrieve_evidence"
    BY <1>1
  <2>2. result.status = "none"
    BY DEF NoResult
  <2> QED
    BY <2>1, <2>2 DEF ResultAudited, ConclusionMatchesResult, StatusTellsResult
<1>7. ReportedSignalsAccepted
  <2>1. ~IsTerminal(<<"retrieval_started", "started">>)
    BY DEF IsTerminal, TerminalStages
  <2>2. <<"retrieval_started", "started">> \in SafeEventSummaries
    BY DEF SafeEventSummaries
  <2> HIDE DEF Init
  <2> QED
    BY <1>2, <2>1, <2>2 DEF ReportedSignalsAccepted
<1> QED
  BY <1>3, <1>4, <1>5, <1>6, <1>7 DEF IInv

-----------------------------------------------------------------------------

\* Every step keeps the invariant.
LEMMA WorkflowStep ==
    ASSUME IInv, [Next]_workflowVars
    PROVE  IInv'
  BY TypeStep, BudgetStep, PaceStep, LedgerStep, ResultStep, ConclusionStep,
     StatusStep, ReportedStep DEF IInv

\* The inductive invariant of the workflow.
THEOREM WorkflowInvariance == Spec => []IInv
  BY InitInv, WorkflowStep, PTL DEF Spec

\* Type correctness of the graph state (agent_workflow.py:51-83).
THEOREM WorkflowTypeCorrect == Spec => []TypeOK
  BY WorkflowInvariance, PTL DEF IInv

\* What is left of each budget bounds the work.
LEMMA BudgetBounds ==
    ASSUME IInv
    PROVE  WorkBounded
<1>1. /\ sqlPlanAttempts \in Nat /\ draftAttempts \in Nat /\ RevisionLimit \in Nat
      /\ Len(trace) \in Nat /\ Len(reported) \in Nat
  BY LengthTypes, LimitAssumption DEF IInv, TypeOK
<1>2. sqlPlanAttempts <= RevisionLimit + 1 /\ draftAttempts <= 2 * RevisionLimit + 1
  BY <1>1 DEF IInv, Budget, TypeOK, Nodes
<1>3. Len(trace) <= 2 * sqlPlanAttempts + 2 * draftAttempts + 1
  BY <1>1 DEF IInv, Pace
<1>4. Len(reported) <= IF sqlPlanAttempts = 0 THEN Len(trace) + 1 ELSE Len(trace)
  BY DEF IInv, Pace
<1>5. sqlPlanAttempts = 0 => draftAttempts <= RevisionLimit
  BY <1>1 DEF IInv, Budget, TypeOK, Nodes
<1> QED
  BY <1>1, <1>2, <1>3, <1>4, <1>5 DEF WorkBounded

\* Whatever the roles answer, the work of a run is bounded by the revision limit
\* (agent_workflow.py:217-267).
THEOREM WorkflowBounded == Spec => []WorkBounded
  BY BudgetBounds, WorkflowInvariance, PTL

\* The persisted rows give the counters.
LEMMA LedgerCounts ==
    ASSUME IInv
    PROVE  ReportCountersAgree
  BY LengthTypes DEF IInv, TypeOK, Budget, Ledger, ReportCountersAgree,
                     ReportSqlRevisions, ReportConclusionRevisions

\* The report API recomputes the revisions the workflow counted
\* (routes.py:354-357).
THEOREM WorkflowReportCountersAgree == Spec => []ReportCountersAgree
  BY LedgerCounts, WorkflowInvariance, PTL

\* What the audits say of the result, against what the diagram says of it.
LEMMA ResultDocumented ==
    ASSUME IInv
    PROVE  ResultComesFromAudits
<1>0. PICK m \in Nat : m = Len(sqlAudits)
  BY LengthTypes DEF IInv, TypeOK
<1>1. /\ DOMAIN sqlAudits = 1 .. m /\ queryResult \in Nat
      /\ sqlAudits # <<>> <=> m # 0
  BY <1>0, LenProperties, EmptySeq DEF IInv, TypeOK
<1>2. /\ queryResult # 0 => queryResult \in 1 .. m /\ LastUsableAudit(queryResult)
      /\ \A k \in 1 .. m : LastUsableAudit(k) => queryResult = k
  BY <1>1 DEF IInv, ResultAudited
<1>3. LastUsableAudit(m) <=> sqlAudits[m].status = "executed"
  <2>1. \A j \in 1 .. m : ~(j > m)
    OBVIOUS
  <2> QED
    BY <1>1, <2>1 DEF LastUsableAudit
<1>4. DocumentedResult = IF m # 0 /\ LastUsableAudit(m) THEN m ELSE 0
  BY <1>0, <1>1, <1>3 DEF DocumentedResult
<1>5. EarlierResultKept <=> \E k \in 1 .. m : k < m /\ LastUsableAudit(k)
  BY <1>0, <1>1 DEF EarlierResultKept
<1>6. queryResult = DocumentedResult <=> ~EarlierResultKept
  <2>1. ASSUME NEW k \in 1 .. m, k < m, LastUsableAudit(k)
        PROVE  queryResult # DocumentedResult
    <3>1. queryResult = k
      BY <1>2, <2>1
    <3> QED
      BY <1>4, <2>1, <3>1
  <2>2. ASSUME ~EarlierResultKept
        PROVE  queryResult = DocumentedResult
    <3>1. CASE queryResult = 0
      BY <1>2, <1>4, <3>1
    <3>2. CASE queryResult # 0
      <4>1. PICK q \in 1 .. m : q = queryResult
        BY <1>2, <3>2
      <4>2. LastUsableAudit(q)
        BY <1>2, <3>2, <4>1 DEF LastUsableAudit
      <4>3. q = m
        BY <1>5, <2>2, <4>2
      <4> QED
        BY <1>4, <4>1, <4>2, <4>3 DEF LastUsableAudit
    <3> QED
      BY <3>1, <3>2
  <2> QED
    BY <1>5, <2>1, <2>2
<1>7. ASSUME node = "returned"
      PROVE  result.status = "completed" <=> DocumentedResult # 0 \/ EarlierResultKept
  <2>1. result.status = "completed" <=> queryResult # 0
    BY <1>7 DEF IInv, StatusTellsResult
  <2>2. EarlierResultKept => queryResult # 0
    <3>1. ASSUME NEW k \in 1 .. m, LastUsableAudit(k) PROVE queryResult # 0
      BY <1>2, <3>1
    <3> QED
      BY <1>5, <3>1
  <2>3. queryResult = 0 => DocumentedResult = 0
    BY <1>2, <1>4
  <2> QED
    BY <1>6, <2>1, <2>2, <2>3
<1> QED
  BY <1>1, <1>2, <1>6, <1>7 DEF ResultComesFromAudits

\* The query result is the one the diagram draws but for the history that keeps an
\* earlier one, in which it never is (agent_workflow.py:191-215, 311,
\* docs/diagrams.md:137-147).
THEOREM WorkflowResultIsAudited == Spec => []ResultComesFromAudits
  BY ResultDocumented, WorkflowInvariance, PTL

\* The persisted status agrees with the persisted audits
\* (agent_workflow.py:311, analysis_runs.py:49-80).
THEOREM WorkflowStatusMatchesAudits == Spec => []StatusMatchesAudits
<1>1. IInv => StatusMatchesAudits
  <2> SUFFICES ASSUME IInv, node = "returned"
               PROVE  result.status = "completed" <=> \E k \in DOMAIN sqlAudits : LastUsableAudit(k)
    BY DEF StatusMatchesAudits
  <2>1. DOMAIN sqlAudits = 1 .. Len(sqlAudits) /\ Len(sqlAudits) \in Nat
    BY LenProperties DEF IInv, TypeOK
  <2>2. result.status = "completed" <=> queryResult # 0
    BY DEF IInv, StatusTellsResult
  <2> QED
    BY <2>1, <2>2 DEF IInv, ResultAudited
<1> QED
  BY <1>1, WorkflowInvariance, PTL

\* The conclusion that is returned was drafted from the result returned with it
\* (agent_workflow.py:223-258, 307-326).
THEOREM WorkflowConclusionMatchesResult == Spec => []ConclusionMatchesResult
  BY WorkflowInvariance, PTL DEF IInv

\* Nothing the graph reports is refused by the store or closes a stream early
\* (agent_workflow.py:122-127, progress.py:67-68).
THEOREM WorkflowSignalsAccepted == Spec => []ReportedSignalsAccepted
  BY WorkflowInvariance, PTL DEF IInv

\* At the end of the graph the last trace entry is that of the last review, and a
\* revision it asks for has no budget left.
LastReview ==
    node = "END" =>
        /\ reviewDecision \in {"revise_sql", "revise_conclusion"} <=>
               trace[Len(trace)].status \in {"revise_sql", "revise_conclusion"}
        /\ trace[Len(trace)].status = "revise_sql" => sqlRevisions >= RevisionLimit
        /\ trace[Len(trace)].status = "revise_conclusion" => conclusionRevisions >= RevisionLimit

\* The last review decides where the graph goes, and the budgets what it may decide.
LEMMA LastReviewStep ==
    ASSUME IInv, LastReview, RefusedRevisionsDisclosed, [Next]_workflowVars
    PROVE  LastReview' /\ RefusedRevisionsDisclosed'
<1>0. TypeOK /\ RevisionLimit \in Nat /\ sqlRevisions \in Nat /\ conclusionRevisions \in Nat
  BY LimitAssumption DEF IInv, TypeOK
<1>1. CASE Retrieve \/ Plan \/ Execute \/ DraftAnalysis
  BY <1>0, <1>1, Positions DEF LastReview, RefusedRevisionsDisclosed
<1>2. ASSUME NEW decision \in Decisions, NEW status \in TraceStatuses, Traced("review", status),
             node' = AfterReview(decision), reviewDecision' = decision,
             UNCHANGED <<sqlRevisions, conclusionRevisions>>,
             decision = status \/ (decision = "approved" /\ status = "fallback")
      PROVE  LastReview' /\ RefusedRevisionsDisclosed'
  <2>1. trace'[Len(trace')] = [node |-> "review", status |-> status]
    BY <1>0, <1>2, TracedLength, Names
  <2>2. trace'[Len(trace')].status = status
    BY <2>1
  <2>3. node' = "END" => /\ status = "revise_sql" => sqlRevisions >= RevisionLimit
                         /\ status = "revise_conclusion" => conclusionRevisions >= RevisionLimit
    BY <1>0, <1>2 DEF AfterReview
  <2>4. node' # "returned"
    BY <1>2 DEF AfterReview
  <2> QED
    BY <1>2, <2>2, <2>3, <2>4 DEF LastReview, RefusedRevisionsDisclosed
<1>3. CASE ReviewUnavailable
  BY <1>2, <1>3, Names DEF ReviewUnavailable, planVars, draftVars
<1>4. ASSUME NEW decision \in Decisions, Reviewed(decision)
      PROVE  LastReview' /\ RefusedRevisionsDisclosed'
  <2>1. decision \in TraceStatuses
    BY Names
  <2> QED
    BY <1>2, <1>4, <2>1 DEF Reviewed, planVars, draftVars
<1>5. CASE Return
  BY <1>5 DEF Return, LastReview, RefusedRevisionsDisclosed, planVars, draftVars
<1>6. CASE UNCHANGED workflowVars
  BY <1>6 DEF workflowVars, planVars, draftVars, endVars, LastReview, RefusedRevisionsDisclosed
<1> QED
  BY <1>1, <1>3, <1>4, <1>5, <1>6 DEF Next, Review

\* A revision is refused only when its budget is used, and the refusal is noted
\* (agent_workflow.py:260-267, 309-310).
THEOREM WorkflowRefusalsDisclosed == Spec => []RefusedRevisionsDisclosed
<1>1. Init => LastReview /\ RefusedRevisionsDisclosed
  BY DEF Init, LastReview, RefusedRevisionsDisclosed
<1> QED
  BY <1>1, LastReviewStep, WorkflowInvariance, PTL DEF Spec

-----------------------------------------------------------------------------
(* The path of a run.                                                      *)

Seen(n) == \E i \in DOMAIN trace : trace[i].node = n

\* What lies behind a node has run, and no draft is followed by another node than
\* the review.
PathInv ==
    /\ node # "retrieve_evidence" => Seen("retrieve_evidence")
    /\ node \notin {"retrieve_evidence", "plan_sql"} => Seen("plan_sql")
    /\ node \in {"draft_analysis", "review", "END", "returned"} => Seen("execute_safe_sql")
    /\ node \in {"review", "END", "returned"} => Seen("draft_analysis")
    /\ node \in {"END", "returned"} => Seen("review")
    /\ \A i \in DOMAIN trace : trace[i].node = "draft_analysis" =>
          IF i = Len(trace) THEN node = "review" ELSE trace[i + 1].node = "review"

\* What an appended entry changes of the path.
LEMMA PathGrows ==
    ASSUME IInv, NEW n \in Nodes, NEW s \in TraceStatuses, Traced(n, s)
    PROVE  /\ Seen(n)' /\ \A m : Seen(m) => Seen(m)'
           /\ (/\ \A i \in DOMAIN trace : trace[i].node = "draft_analysis" =>
                     IF i = Len(trace) THEN n = "review" ELSE trace[i + 1].node = "review"
               /\ n = "draft_analysis" => node' = "review")
              => \A i \in DOMAIN trace' : trace'[i].node = "draft_analysis" =>
                     IF i = Len(trace') THEN node' = "review" ELSE trace'[i + 1].node = "review"
<1>1. PICK k \in Nat : k = Len(trace)
  BY LengthTypes DEF IInv
<1>2. /\ Len(trace') = k + 1 /\ \A i \in 1 .. k : trace'[i] = trace[i]
      /\ trace'[k + 1].node = n
  <2>1. /\ Len(trace') = k + 1 /\ \A i \in 1 .. k : trace'[i] = trace[i]
        /\ trace'[k + 1] = [node |-> n, status |-> s]
    BY <1>1, TracedLength DEF IInv
  <2> QED
    BY <2>1
<1>3. DOMAIN trace = 1 .. k /\ DOMAIN trace' = 1 .. (k + 1)
  BY <1>1, <1>2, TracedType, LenProperties DEF IInv, TypeOK
<1>4. Seen(n)' /\ \A m : Seen(m) => Seen(m)'
  BY <1>2, <1>3 DEF Seen
<1>5. ASSUME \A i \in 1 .. k : trace[i].node = "draft_analysis" =>
                 IF i = k THEN n = "review" ELSE trace[i + 1].node = "review",
             n = "draft_analysis" => node' = "review",
             NEW i \in 1 .. (k + 1), trace'[i].node = "draft_analysis"
      PROVE  IF i = k + 1 THEN node' = "review" ELSE trace'[i + 1].node = "review"
  <2>1. CASE i = k + 1
    BY <1>2, <1>5, <2>1
  <2>2. CASE i = k
    BY <1>2, <1>5, <2>2
  <2>3. CASE i \in 1 .. k - 1
    <3>1. i + 1 \in 1 .. k /\ i \in 1 .. k /\ i # k
      BY <1>1, <2>3
    <3> QED
      BY <1>2, <1>5, <3>1
  <2> QED
    BY <1>1, <1>5, <2>1, <2>2, <2>3
<1> QED
  BY <1>1, <1>2, <1>3, <1>4, <1>5

\* Every step keeps the path.
LEMMA PathStep ==
    ASSUME IInv, PathInv, [Next]_workflowVars
    PROVE  PathInv'
<1>0. TypeOK
  BY DEF IInv
<1>1. ASSUME NEW n \in Nodes, \E s \in TraceStatuses : Traced(n, s), node = n,
             /\ n = "retrieve_evidence" => node' = "plan_sql"
             /\ n = "plan_sql" => node' = "execute_safe_sql"
             /\ n = "execute_safe_sql" => node' \in {"plan_sql", "draft_analysis"}
             /\ n = "draft_analysis" => node' = "review"
             /\ n = "review" => node' \in {"plan_sql", "draft_analysis", "END"}
      PROVE  PathInv'
  <2>1. Seen(n)' /\ \A m : Seen(m) => Seen(m)'
    BY <1>1, PathGrows
  <2>2. \A i \in DOMAIN trace' : trace'[i].node = "draft_analysis" =>
            IF i = Len(trace') THEN node' = "review" ELSE trace'[i + 1].node = "review"
    BY <1>1, PathGrows DEF PathInv
  <2> QED
    BY <1>1, <2>1, <2>2 DEF PathInv, Nodes
<1>2. CASE Retrieve
  BY <1>0, <1>1, <1>2, Positions, TracedNodes, Names
<1>3. CASE Plan
  BY <1>0, <1>1, <1>3, Positions, TracedNodes, Names
<1>4. CASE Execute /\ ~GateRaised
  BY <1>0, <1>1, <1>4, Positions, TracedNodes, Names
<1>5. CASE DraftAnalysis
  BY <1>0, <1>1, <1>5, Positions, TracedNodes, Names
<1>6. CASE Review
  BY <1>0, <1>1, <1>6, Positions, TracedNodes, Names
<1>7. CASE GateRaised
  BY <1>7 DEF GateRaised, PathInv, Seen
<1>8. CASE Return
  BY <1>8 DEF Return, PathInv, Seen
<1>9. CASE UNCHANGED workflowVars
  BY <1>9 DEF workflowVars, PathInv, Seen
<1> QED
  BY <1>2, <1>3, <1>4, <1>5, <1>6, <1>7, <1>8, <1>9 DEF Next, Execute

LEMMA PathInit == Init => PathInv
  BY Nothing DEF Init, PathInv

\* A run that ended on its way out has been everywhere.
LEMMA PathOfRun ==
    ASSUME IInv, PathInv
    PROVE  FixedRolePath
<1>1. \A i \in DOMAIN trace : trace[i].node \in Nodes
  <2>1. trace \in Seq(TraceEntries)
    BY TypeParts DEF IInv
  <2>2. \A i \in DOMAIN trace : trace[i] \in TraceEntries
    BY <2>1
  <2> QED
    BY <2>2 DEF TraceEntries
<1>2. node \in {"END", "returned"} => \A n \in Nodes : Seen(n)
  BY DEF PathInv, Nodes
<1> QED
  BY <1>1, <1>2 DEF FixedRolePath, PathInv, Seen

\* Every returned run went through all roles, and no draft leaves the graph
\* unreviewed (agent_workflow.py:141-154, evaluation.py:127-128).
THEOREM WorkflowFixedRolePath == Spec => []FixedRolePath
  BY PathInit, PathStep, PathOfRun, WorkflowInvariance, PTL DEF Spec

-----------------------------------------------------------------------------
(* Signals and audits.                                                     *)

\* Appending to a sequence adds one to the positions of the elements it is one of.
LEMMA CountAppended ==
    ASSUME NEW S, NEW seq \in Seq(S), NEW e \in S, NEW before \in SUBSET DOMAIN seq,
           NEW after \in SUBSET DOMAIN Append(seq, e),
           \A i \in DOMAIN seq : i \in after <=> i \in before
    PROVE  /\ Cardinality(before) \in Nat
           /\ Cardinality(after) = IF Len(seq) + 1 \in after THEN Cardinality(before) + 1
                                   ELSE Cardinality(before)
<1>1. PICK k \in Nat : k = Len(seq) /\ DOMAIN seq = 1 .. k
  BY LenProperties
<1>2. DOMAIN Append(seq, e) = 1 .. (k + 1)
  BY <1>1, AppendProperties, LenProperties
<1>3. IsFiniteSet(before) /\ Cardinality(before) \in Nat /\ k + 1 \notin before
  <2>1. IsFiniteSet(1 .. k) /\ before \in SUBSET (1 .. k)
    BY <1>1, FS_Interval
  <2> QED
    BY <1>1, <2>1, FS_Subset, FS_CardinalityType
<1>4. CASE Len(seq) + 1 \in after
  <2>1. after = before \cup {k + 1}
    BY <1>1, <1>2, <1>4
  <2> QED
    BY <1>3, <1>4, <2>1, FS_AddElement
<1>5. CASE Len(seq) + 1 \notin after
  <2>1. after \subseteq DOMAIN seq
    BY <1>1, <1>2, <1>5
  <2>2. after = before
    BY <2>1
  <2> QED
    BY <1>3, <1>5, <2>2
<1> QED
  BY <1>4, <1>5

\* The positions of an appended sequence, and what they hold.
LEMMA Appended ==
    ASSUME NEW S, NEW seq \in Seq(S), NEW e \in S
    PROVE  /\ DOMAIN Append(seq, e) = DOMAIN seq \cup {Len(seq) + 1}
           /\ Len(seq) + 1 \notin DOMAIN seq
           /\ \A i \in DOMAIN seq : Append(seq, e)[i] = seq[i]
           /\ Append(seq, e)[Len(seq) + 1] = e
<1>1. PICK k \in Nat : k = Len(seq) /\ DOMAIN seq = 1 .. k
  BY LenProperties
<1> QED
  BY <1>1, AppendProperties, LenProperties

\* A reported signal counts once, for itself.
LEMMA SignalCounted ==
    ASSUME TypeOK, reporter, NEW stage, NEW status, <<stage, status>> \in SafeEventSummaries,
           Progress(stage, status), NEW signal
    PROVE  /\ SignalCount(signal) \in Nat
           /\ SignalCount(signal)' = IF signal = <<stage, status>> THEN SignalCount(signal) + 1
                                     ELSE SignalCount(signal)
<1> DEFINE e == <<stage, status>>
           before == {i \in DOMAIN reported : reported[i] = signal}
           after == {i \in DOMAIN Append(reported, e) : Append(reported, e)[i] = signal}
<1>1. /\ reported \in Seq(SafeEventSummaries) /\ reported' = Append(reported, e)
      /\ e \in SafeEventSummaries
  BY DEF TypeOK, Progress
<1>2. /\ SignalCount(signal) = Cardinality(before)
      /\ SignalCount(signal)' = Cardinality(after)
  BY <1>1 DEF SignalCount
<1>3. /\ before \in SUBSET DOMAIN reported /\ after \in SUBSET DOMAIN Append(reported, e)
      /\ \A i \in DOMAIN reported : i \in after <=> i \in before
      /\ Len(reported) + 1 \in after <=> (signal = e)
  BY <1>1, Appended
<1> HIDE DEF e, before, after
<1>4. /\ Cardinality(before) \in Nat
      /\ Cardinality(after) = IF Len(reported) + 1 \in after THEN Cardinality(before) + 1
                              ELSE Cardinality(before)
  BY <1>1, <1>3, CountAppended
<1> QED
  BY <1>2, <1>3, <1>4 DEF e

\* An audit counts once, for its status.
LEMMA AuditCounted ==
    ASSUME TypeOK, NEW status \in {"rejected", "executed", "failed"}, Audited(status), NEW other
    PROVE  /\ AuditCount(other) \in Nat
           /\ AuditCount(other)' = IF other = status THEN AuditCount(other) + 1 ELSE AuditCount(other)
<1> DEFINE e == [status |-> status, candidate |-> sqlCandidate]
           before == {i \in DOMAIN sqlAudits : sqlAudits[i].status = other}
           after == {i \in DOMAIN Append(sqlAudits, e) : Append(sqlAudits, e)[i].status = other}
<1>1. /\ sqlAudits \in Seq(AuditEntries) /\ sqlAudits' = Append(sqlAudits, e)
      /\ e \in AuditEntries
  BY AuditedType DEF TypeOK, AuditEntries, Audited
<1>2. /\ AuditCount(other) = Cardinality(before)
      /\ AuditCount(other)' = Cardinality(after)
  BY <1>1 DEF AuditCount
<1>3. /\ before \in SUBSET DOMAIN sqlAudits /\ after \in SUBSET DOMAIN Append(sqlAudits, e)
      /\ \A i \in DOMAIN sqlAudits : i \in after <=> i \in before
      /\ Len(sqlAudits) + 1 \in after <=> (other = status)
  BY <1>1, Appended
<1> HIDE DEF e, before, after
<1>4. /\ Cardinality(before) \in Nat
      /\ Cardinality(after) = IF Len(sqlAudits) + 1 \in after THEN Cardinality(before) + 1
                              ELSE Cardinality(before)
  BY <1>1, <1>3, CountAppended
<1> QED
  BY <1>2, <1>3, <1>4

\* A run that reported has a reporter until it ends.
Listening ==
    /\ reporter => reported # <<>>
    /\ reported # <<>> /\ node \notin {"returned", "raised"} => reporter

\* The signals that stand for an audit.
AuditSignals ==
    {<<"query_completed", "completed">>, <<"query_completed", "failed">>,
     <<"sql_validation_rejected", "rejected">>}

\* Every execution that audits reports the same outcome, and no other node does.
LEMMA MatchesStep ==
    ASSUME IInv, Listening, ProgressMatchesAudits, [Next]_workflowVars
    PROVE  Listening' /\ ProgressMatchesAudits'
<1>0. TypeOK /\ reported \in Seq(SafeEventSummaries) /\ reporter \in BOOLEAN
  BY DEF IInv, TypeOK
<1>1. ASSUME UNCHANGED <<reported, sqlAudits, reporter>>, node \notin {"returned", "raised"}
      PROVE  Listening' /\ ProgressMatchesAudits'
  BY <1>1 DEF Listening, ProgressMatchesAudits, SignalCount, AuditCount
<1>2. ASSUME NEW stage, NEW status, <<stage, status>> \in SafeEventSummaries,
             Progress(stage, status), UNCHANGED reporter, node \notin {"returned", "raised"}
      PROVE  /\ Listening'
             /\ ~reporter => reported' = <<>>
             /\ reporter => reported # <<>> /\ reported' # <<>>
  <2>1. Append(reported, <<stage, status>>) # <<>>
    BY <1>0, <1>2, AppendProperties
  <2> QED
    BY <1>2, <2>1 DEF Listening, Progress
<1>3. ASSUME NEW stage, NEW status, <<stage, status>> \in SafeEventSummaries \ AuditSignals,
             Progress(stage, status), UNCHANGED <<reporter, sqlAudits>>,
             node \notin {"returned", "raised"}
      PROVE  Listening' /\ ProgressMatchesAudits'
  <2>1. ASSUME reporter, NEW signal \in AuditSignals
        PROVE  SignalCount(signal)' = SignalCount(signal)
    BY <1>0, <1>3, <2>1, SignalCounted
  <2>2. ASSUME NEW other PROVE AuditCount(other)' = AuditCount(other)
    BY <1>3 DEF AuditCount
  <2> QED
    BY <1>2, <1>3, <2>1, <2>2 DEF ProgressMatchesAudits, AuditSignals
<1>4. ASSUME NEW stage, NEW signal, NEW audit,
             \/ <<stage, signal, audit>> = <<"query_completed", "completed", "executed">>
             \/ <<stage, signal, audit>> = <<"query_completed", "failed", "failed">>
             \/ <<stage, signal, audit>> = <<"sql_validation_rejected", "rejected", "rejected">>,
             Progress(stage, signal), Audited(audit), UNCHANGED reporter,
             node \notin {"returned", "raised"}
      PROVE  Listening' /\ ProgressMatchesAudits'
  <2>1. <<stage, signal>> \in SafeEventSummaries /\ audit \in {"rejected", "executed", "failed"}
    BY <1>4, Vocabulary
  <2>2. ASSUME reporter, NEW s \in AuditSignals
        PROVE  SignalCount(s)' = IF s = <<stage, signal>> THEN SignalCount(s) + 1 ELSE SignalCount(s)
    BY <1>0, <1>4, <2>1, <2>2, SignalCounted
  <2>3. ASSUME NEW other
        PROVE  AuditCount(other)' = IF other = audit THEN AuditCount(other) + 1 ELSE AuditCount(other)
    BY <1>0, <1>4, <2>1, AuditCounted
  <2>4. ASSUME reporter PROVE ProgressMatchesAudits'
    <3>1. ProgressMatchesAudits /\ reported # <<>>
      BY <1>2, <1>4, <2>1, <2>4
    <3> QED
      BY <1>4, <2>2, <2>3, <2>4, <3>1 DEF ProgressMatchesAudits, AuditSignals
  <2>5. Listening' /\ (~reporter => reported' = <<>>)
    BY <1>2, <1>4, <2>1
  <2> QED
    BY <2>4, <2>5 DEF ProgressMatchesAudits
<1>5. CASE Retrieve
  BY <1>3, <1>5, Vocabulary
     DEF Retrieve, EvidenceRetrieved, RetrievalUnavailable, endVars, AuditSignals
<1>6. CASE Plan
  <2>1. /\ node = "plan_sql" /\ UNCHANGED <<sqlAudits, reporter>>
        /\ Progress("sql_repair_started", "started") \/ UNCHANGED reported
    BY <1>6 DEF Plan, PlanProposed, PlannerUnavailable, CountPlan, NoProgress, endVars
  <2>2. <<"sql_repair_started", "started">> \in SafeEventSummaries \ AuditSignals
    BY Vocabulary DEF AuditSignals
  <2> QED
    BY <1>1, <1>3, <2>1, <2>2
<1>7. CASE CandidateMissing \/ CandidateRejected
  BY <1>4, <1>7 DEF CandidateMissing, CandidateRejected, SqlFailed, endVars
<1>8. CASE QueryExecuted
  BY <1>4, <1>8 DEF QueryExecuted, endVars
<1>9. ASSUME NEW ts \in {"blocked", "failed"}, QueryUnavailable(ts)
      PROVE  Listening' /\ ProgressMatchesAudits'
  BY <1>4, <1>9 DEF QueryUnavailable, SqlFailed, endVars
<1>10. CASE GateRaised \/ Return
  <2>1. UNCHANGED <<reported, sqlAudits>> /\ reporter' = FALSE /\ node' \in {"returned", "raised"}
    BY <1>10 DEF GateRaised, Return
  <2> QED
    BY <2>1 DEF Listening, ProgressMatchesAudits, SignalCount, AuditCount
<1>11. CASE DraftAnalysis
  BY <1>3, <1>11, Vocabulary DEF DraftAnalysis, Draft, endVars, AuditSignals
<1>12. CASE Review
  BY <1>3, <1>12, Vocabulary DEF Review, ReviewUnavailable, Reviewed, endVars, AuditSignals
<1>13. CASE UNCHANGED workflowVars
  BY <1>13 DEF workflowVars, endVars, Listening, ProgressMatchesAudits, SignalCount, AuditCount
<1> QED
  BY <1>5, <1>6, <1>7, <1>8, <1>9, <1>10, <1>11, <1>12, <1>13 DEF Next, Execute

\* No audit and no signal of one at first.
LEMMA MatchesInit ==
    ASSUME Init
    PROVE  Listening /\ ProgressMatchesAudits
<1> DEFINE first == <<"retrieval_started", "started">>
<1>1. sqlAudits = <<>> /\ reported \in {<<>>, <<first>>} /\ (reporter <=> reported # <<>>)
  <2>1. <<first>> # <<>>
    OBVIOUS
  <2> QED
    BY <2>1 DEF Init
<1>2. ASSUME NEW status PROVE AuditCount(status) = 0
  <2>1. DOMAIN sqlAudits = {}
    BY <1>1, Nothing
  <2>2. {i \in DOMAIN sqlAudits : sqlAudits[i].status = status} = {}
    BY <2>1
  <2> QED
    BY <2>2, FS_EmptySet DEF AuditCount
<1>3. ASSUME NEW signal \in AuditSignals, reported # <<>> PROVE SignalCount(signal) = 0
  <2>1. \A i \in DOMAIN reported : reported[i] = first
    BY <1>1, <1>3, Singleton
  <2>2. first \notin AuditSignals
    BY DEF AuditSignals
  <2>3. {i \in DOMAIN reported : reported[i] = signal} = {}
    BY <1>3, <2>1, <2>2
  <2> QED
    BY <2>3, FS_EmptySet DEF SignalCount
<1> QED
  BY <1>1, <1>2, <1>3 DEF Listening, ProgressMatchesAudits, AuditSignals

\* A subscriber sees one signal for each persisted audit, with the same outcome
\* (agent_workflow.py:191-215).
THEOREM WorkflowProgressMatchesAudits == Spec => []ProgressMatchesAudits
  BY MatchesInit, MatchesStep, WorkflowInvariance, PTL DEF Spec

-----------------------------------------------------------------------------

\* The safety part of the contract: the first state is one of the contract's, and
\* every step is one of its steps or a stutter (agent_workflow.py:269-326).
THEOREM WorkflowKeepsContract ==
    Spec => Contract!Init /\ [][Contract!Next]_(Contract!contractVars)
<1>1. Init => Contract!Init
  <2> SUFFICES ASSUME Init PROVE Contract!Init
    OBVIOUS
  <2>1. Len(reported) \in {0, 1}
    BY EmptySeq DEF Init
  <2>2. Len(reported) \in 0 .. (6 * RevisionLimit + 5)
    BY <2>1, LimitAssumption
  <2>3. result.status = "none" /\ node = "retrieve_evidence"
    BY DEF Init, NoResult
  <2> QED
    BY <2>1, <2>2, <2>3 DEF Contract!Init
<1>2. IInv /\ IInv' /\ WorkBounded' /\ [Next]_workflowVars => [Contract!Next]_(Contract!contractVars)
  <2> SUFFICES ASSUME IInv, IInv', WorkBounded', [Next]_workflowVars
               PROVE  [Contract!Next]_(Contract!contractVars)
    OBVIOUS
  <2>1. TypeOK /\ TypeOK' /\ Len(reported) \in Nat /\ Len(reported') \in Nat
    BY LengthTypes, LenProperties DEF IInv, TypeOK
  <2>2. ASSUME node \notin {"returned", "raised"}, node' \notin {"returned", "raised"},
               Len(reported') \in {Len(reported), Len(reported) + 1}
        PROVE  [Contract!Next]_(Contract!contractVars)
    <3>1. result.status = "none" /\ result'.status = "none"
      BY <2>2 DEF IInv, StatusTellsResult
    <3>2. Len(reported') <= 6 * RevisionLimit + 5
      BY DEF WorkBounded
    <3>3. CASE Len(reported') = Len(reported)
      BY <2>2, <3>1, <3>3 DEF Contract!contractVars
    <3>4. CASE Len(reported') = Len(reported) + 1
      BY <2>1, <2>2, <3>1, <3>2, <3>4, LimitAssumption DEF Contract!Next, Contract!Report
    <3> QED
      BY <2>2, <3>3, <3>4
  <2>3. ASSUME NEW stage, NEW status, <<stage, status>> \in SafeEventSummaries,
               Progress(stage, status)
        PROVE  Len(reported') \in {Len(reported), Len(reported) + 1}
    BY <2>1, <2>3, AppendProperties DEF TypeOK, Progress
  <2>4. CASE Retrieve
    BY <2>1, <2>2, <2>3, <2>4, Positions, Vocabulary
       DEF Retrieve, EvidenceRetrieved, RetrievalUnavailable
  <2>5. CASE Plan
    <3>1. Len(reported') \in {Len(reported), Len(reported) + 1}
      BY <2>3, <2>5, Vocabulary DEF Plan, PlanProposed, PlannerUnavailable, CountPlan, NoProgress
    <3> QED
      BY <2>1, <2>2, <2>5, <3>1, Positions
  <2>6. CASE Execute /\ ~GateRaised
    <3>1. CASE CandidateMissing \/ CandidateRejected
      BY <2>1, <2>2, <2>3, <2>6, <3>1, Positions, Vocabulary
         DEF CandidateMissing, CandidateRejected, SqlFailed
    <3>2. CASE QueryExecuted
      BY <2>1, <2>2, <2>3, <2>6, <3>2, Positions, Vocabulary DEF QueryExecuted
    <3>3. ASSUME NEW ts \in {"blocked", "failed"}, QueryUnavailable(ts)
          PROVE  Len(reported') \in {Len(reported), Len(reported) + 1}
      BY <2>3, <3>3, Vocabulary DEF QueryUnavailable, SqlFailed
    <3> QED
      BY <2>1, <2>2, <2>6, <3>1, <3>2, <3>3, Positions DEF Execute
  <2>7. CASE GateRaised
    BY <2>7 DEF GateRaised, endVars, Contract!Next, Contract!Raise
  <2>8. CASE DraftAnalysis
    BY <2>1, <2>2, <2>3, <2>8, Positions, Vocabulary DEF DraftAnalysis, Draft
  <2>9. CASE Review
    BY <2>1, <2>2, <2>3, <2>9, Positions, Vocabulary DEF Review, ReviewUnavailable, Reviewed
  <2>10. CASE Return
    BY <2>10 DEF Return, Contract!Next, Contract!Return
  <2>11. CASE UNCHANGED workflowVars
    BY <2>11 DEF workflowVars, endVars, Contract!contractVars
  <2> QED
    BY <2>4, <2>5, <2>6, <2>7, <2>8, <2>9, <2>10, <2>11 DEF Next
<1> QED
  BY <1>1, <1>2, WorkflowInvariance, WorkflowBounded, PTL DEF Spec
=============================================================================
