------------------------- MODULE RunEvaluationProofs -------------------------
(***************************************************************************)
(* Runs with whoever plays the roles, for every bound and every revision   *)
(* limit.  RunEvaluation refines its two layers: each of its steps is a    *)
(* step of QueryBounds, and that is a step of AgentWorkflow, so their      *)
(* inductive invariants carry over.  What is added: the row counts belong  *)
(* to the audits one by one, the calls of the model are counted by the     *)
(* attempts, and an outage and the fake each keep to a path of their own.  *)
(***************************************************************************)
EXTENDS RunEvaluation, AgentWorkflowProofs, WellFoundedInduction

-----------------------------------------------------------------------------
(* The quantities (QueryBounds): a candidate counts as safe together with  *)
(* the clause it came with, whichever node runs next, and the evidence of  *)
(* a run is never more than a search gives.                                *)

\* Candidate and clause change together, and the second pass of the gate agrees.
CandidateBounded == sqlCandidate = "safe" => LimitAccepted(clause, maxRows)

\* The types, and what a search gives at most.
Quantified == BoundsTypeOK /\ evidence \in 0 .. SearchLimit

BoundsInv ==
    /\ Quantified /\ CandidateBounded
    /\ BoundedOnServer /\ ShortResultComplete /\ ContextTellsResult

-----------------------------------------------------------------------------

\* The first pass of the gate and the second, with another bound, agree.
LEMMA BoundIsIrrelevant ==
  ASSUME NEW limit \in Clauses, NEW a \in Nat, NEW b \in Nat, LimitAccepted(limit, a)
  PROVE  LimitAccepted(limit, b)
  BY DEF LimitAccepted

\* The statement sent to MySQL asks for a number of rows within the bound and
\* within the candidate's own LIMIT.
LEMMA BoundLimitBounds ==
  ASSUME NEW limit \in Clauses, NEW bound \in Nat \ {0}, LimitAccepted(limit, bound)
  PROVE  /\ BoundLimit(limit, bound) \in 1 .. bound
         /\ limit.kind = "integer" => BoundLimit(limit, bound) <= limit.value
<1>1. limit.value \in Nat
  BY MaxClauseAssumption DEF Clauses
<1> QED
  BY <1>1 DEF BoundLimit, LimitAccepted

\* Fetching takes what the statement returns, when the statement is bounded.
LEMMA FetchedAll ==
  ASSUME NEW rows \in Nat, NEW bound \in Nat, NEW limit \in 1 .. bound
  PROVE  /\ Fetched(rows, limit, bound) \in 0 .. rows
         /\ Fetched(rows, limit, bound) < limit => Fetched(rows, limit, bound) = rows
  BY DEF Fetched, Least

\* What the advisor is shown when there are no more items than a search gives.
LEMMA AdvisorSees ==
  ASSUME NEW items \in 0 .. SearchLimit, NEW rows \in Nat
  PROVE  /\ AdvisorInput(items, rows).evidence = items
         /\ AdvisorInput(items, rows).shown = Least(rows, ContextRows)
         /\ AdvisorInput(items, rows).counted = rows
         /\ rows <= MaxMatching =>
                AdvisorInput(items, rows) \in [evidence : 0 .. EvidenceItems, shown : 0 .. ContextRows,
                                              counted : 0 .. MaxMatching]
<1>1. Least(items, EvidenceItems) = items /\ items \in 0 .. EvidenceItems
  BY BoundsAssumption DEF Least
<1>2. Least(rows, ContextRows) \in 0 .. ContextRows
  BY BoundsAssumption DEF Least
<1> QED
  BY <1>1, <1>2, BoundsAssumption DEF AdvisorInput

\* A search gives no more than its limit.
LEMMA SearchBounded ==
  ASSUME NEW points \in Nat
  PROVE  Found(points, SearchLimit) \in 0 .. SearchLimit
  BY BoundsAssumption DEF Found, Least

\* The counts of the attempts grow by counts.
LEMMA CountsGrow ==
  ASSUME rowCounts \in Seq(0 .. MaxMatching), NEW rows \in 0 .. MaxMatching,
         rowCounts' = Append(rowCounts, rows)
  PROVE  rowCounts' \in Seq(0 .. MaxMatching)
  OBVIOUS

-----------------------------------------------------------------------------

\* The end of the search.
LEMMA SearchStep ==
  ASSUME BoundsInv, SearchEnds
  PROVE  BoundsInv'
<1>1. /\ node' = "plan_sql" /\ UNCHANGED sqlCandidate
      /\ UNCHANGED <<maxRows, clause, resultRows, rowCounts, prompt, lastQuery>>
  BY DEF SearchEnds, EvidenceRetrieved, RetrievalUnavailable, planVars
<1>2. evidence' \in 0 .. SearchLimit
  BY SearchBounded, BoundsAssumption DEF SearchEnds
<1>3. Quantified'
  <2>1. evidence' \in 0 .. SearchCap
    BY <1>2, BoundsAssumption
  <2> QED
    BY <1>1, <1>2, <2>1 DEF BoundsInv, Quantified, BoundsTypeOK
<1> QED
  BY <1>1, <1>3 DEF BoundsInv, CandidateBounded, LimitAccepted, BoundedOnServer,
       ShortResultComplete, ContextTellsResult

\* A plan, with the verdict of the gate on it.
LEMMA PlanStep ==
  ASSUME BoundsInv, PlanEnds
  PROVE  BoundsInv'
<1>1. /\ node' = "execute_safe_sql"
      /\ UNCHANGED <<maxRows, evidence, resultRows, rowCounts, prompt, lastQuery>>
  BY DEF PlanEnds, PlannerUnavailable, PlanProposed, CountPlan
<1>2. clause' \in Clauses /\ CandidateBounded'
  <2>1. CASE PlannerUnavailable /\ UNCHANGED clause
    BY <2>1 DEF PlannerUnavailable, BoundsInv, Quantified, BoundsTypeOK, CandidateBounded
  <2>2. ASSUME NEW limit \in Clauses,
               PlanProposed(IF LimitAccepted(limit, GateRows) THEN "safe" ELSE "unsafe"),
               clause' = limit
        PROVE  clause' \in Clauses /\ CandidateBounded'
    <3>1. sqlCandidate' = "safe" => LimitAccepted(limit, GateRows)
      BY <2>2 DEF PlanProposed
    <3>2. maxRows' \in Nat
      BY <1>1, BoundsAssumption DEF BoundsInv, Quantified, BoundsTypeOK
    <3>3. LimitAccepted(limit, GateRows) => LimitAccepted(limit, maxRows')
      BY <3>2, BoundIsIrrelevant, BoundsAssumption
    <3> QED
      BY <2>2, <3>1, <3>3 DEF CandidateBounded, LimitAccepted
  <2>3. ASSUME NEW candidate \in Candidates \ {"safe"}, PlanProposed(candidate),
               clause' = NoClause
        PROVE  clause' \in Clauses /\ CandidateBounded'
    <3>1. sqlCandidate' # "safe"
      BY <2>3 DEF PlanProposed
    <3> QED
      BY <2>3, <3>1 DEF CandidateBounded, NoClause, Clauses
  <2> QED
    BY <2>1, <2>2, <2>3 DEF PlanEnds
<1> QED
  BY <1>1, <1>2 DEF BoundsInv, Quantified, BoundsTypeOK, BoundedOnServer, ShortResultComplete,
       ContextTellsResult

\* An attempt that ends without a row leaves the execution for the plan, for the
\* draft, or for good.
LEMMA NoRowsStep ==
  ASSUME BoundsInv, QueryRefused \/ QueryFails
  PROVE  BoundsInv'
<1>1. /\ node' \notin {"review", "END", "returned"}
      /\ UNCHANGED <<sqlCandidate, maxRows, clause, evidence, prompt, lastQuery>>
      /\ resultRows' \in {resultRows, 0}
      /\ rowCounts' \in {rowCounts, Append(rowCounts, 0)}
  <2>1. CASE CandidateMissing /\ UNCHANGED resultRows /\ NoRows
    BY <2>1 DEF CandidateMissing, SqlFailed, AfterSql, NoRows, planVars
  <2>2. CASE CandidateRejected /\ resultRows' = 0 /\ NoRows
    BY <2>2 DEF CandidateRejected, SqlFailed, AfterSql, NoRows, planVars
  <2>3. CASE GateRaised /\ UNCHANGED quantities
    BY <2>3 DEF GateRaised, quantities, planVars
  <2>4. CASE QueryFails
    BY <2>4 DEF QueryFails, QueryUnavailable, SqlFailed, AfterSql, NoRows, planVars
  <2> QED
    BY <2>1, <2>2, <2>3, <2>4 DEF QueryRefused
<1>2. Quantified'
  <2>1. 0 \in 0 .. MaxMatching
    BY BoundsAssumption
  <2>2. rowCounts' \in Seq(0 .. MaxMatching)
    BY <1>1, <2>1, CountsGrow DEF BoundsInv, Quantified, BoundsTypeOK
  <2> QED
    BY <1>1, <2>1, <2>2 DEF BoundsInv, Quantified, BoundsTypeOK
<1> QED
  BY <1>1, <1>2 DEF BoundsInv, CandidateBounded, LimitAccepted, BoundedOnServer,
       ShortResultComplete, ContextTellsResult

\* A query that runs.
LEMMA RunStep ==
  ASSUME BoundsInv, QueryRuns
  PROVE  BoundsInv'
<1>1. PICK matching \in 0 .. MaxMatching :
        /\ LimitAccepted(clause, maxRows)
        /\ QueryExecuted
        /\ resultRows' = Fetched(matching, BoundLimit(clause, maxRows), maxRows)
        /\ lastQuery' = [clause |-> clause, limit |-> BoundLimit(clause, maxRows),
                         matched |-> matching,
                         fetched |-> Fetched(matching, BoundLimit(clause, maxRows), maxRows)]
        /\ rowCounts' = Append(rowCounts, Fetched(matching, BoundLimit(clause, maxRows), maxRows))
        /\ UNCHANGED <<maxRows, clause, evidence, prompt>>
  BY DEF QueryRuns
<1>2. node' = "draft_analysis" /\ UNCHANGED sqlCandidate
  BY <1>1 DEF QueryExecuted, AfterSql, planVars
<1>3. /\ clause \in Clauses /\ maxRows \in Nat \ {0} /\ matching \in Nat
      /\ maxRows \in SettingsRows
  BY BoundsAssumption DEF BoundsInv, Quantified, BoundsTypeOK
<1> DEFINE limit == BoundLimit(clause, maxRows)
<1>4. limit \in 1 .. maxRows /\ (clause.kind = "integer" => limit <= clause.value)
  BY <1>1, <1>3, BoundLimitBounds
<1> HIDE DEF limit
<1>5. /\ Fetched(matching, limit, maxRows) \in 0 .. MaxMatching
      /\ Fetched(matching, limit, maxRows) < limit => Fetched(matching, limit, maxRows) = matching
  <2>1. /\ Fetched(matching, limit, maxRows) \in 0 .. matching
        /\ Fetched(matching, limit, maxRows) < limit => Fetched(matching, limit, maxRows) = matching
    BY <1>3, <1>4, FetchedAll
  <2> QED
    BY <2>1, BoundsAssumption
<1>6. /\ lastQuery'.clause = clause /\ lastQuery'.limit = limit
      /\ lastQuery'.matched = matching
      /\ lastQuery'.fetched = Fetched(matching, limit, maxRows)
  BY <1>1 DEF limit
<1>7. /\ resultRows' = Fetched(matching, limit, maxRows)
      /\ rowCounts' = Append(rowCounts, Fetched(matching, limit, maxRows))
      /\ lastQuery' = [clause |-> clause, limit |-> limit, matched |-> matching,
                       fetched |-> Fetched(matching, limit, maxRows)]
  BY <1>1 DEF limit
<1>8. Quantified'
  <2>1. rowCounts' \in Seq(0 .. MaxMatching)
    BY <1>5, <1>7, CountsGrow DEF BoundsInv, Quantified, BoundsTypeOK
  <2>2. lastQuery' \in [clause : Clauses, limit : Nat \ {0}, matched : 0 .. MaxMatching,
                        fetched : 0 .. MaxMatching]
    BY <1>3, <1>4, <1>5, <1>7
  <2> QED
    BY <1>1, <1>5, <1>7, <2>1, <2>2 DEF BoundsInv, Quantified, BoundsTypeOK
<1>9. BoundedOnServer' /\ ShortResultComplete'
  BY <1>1, <1>3, <1>4, <1>5, <1>6 DEF BoundedOnServer, ShortResultComplete
<1>10. CandidateBounded' /\ ContextTellsResult'
  BY <1>1, <1>2 DEF CandidateBounded, LimitAccepted, ContextTellsResult
<1> QED
  BY <1>8, <1>9, <1>10 DEF BoundsInv

\* A draft is asked for with the numbers of the moment.
LEMMA DraftStep ==
  ASSUME BoundsInv, DraftEnds
  PROVE  BoundsInv'
<1>1. /\ UNCHANGED <<sqlCandidate, maxRows, clause, evidence, resultRows, rowCounts, lastQuery>>
      /\ prompt' = AdvisorInput(evidence, resultRows)
  BY DEF DraftEnds, DraftAnalysis, Draft, planVars
<1>2. evidence \in 0 .. SearchLimit /\ resultRows \in Nat /\ resultRows <= MaxMatching
  BY BoundsAssumption DEF BoundsInv, Quantified, BoundsTypeOK
<1>3. ContextTellsResult'
  BY <1>1, <1>2, AdvisorSees DEF ContextTellsResult
<1>4. Quantified'
  BY <1>1, <1>2, AdvisorSees DEF BoundsInv, Quantified, BoundsTypeOK
<1> QED
  BY <1>1, <1>3, <1>4 DEF BoundsInv, CandidateBounded, LimitAccepted, BoundedOnServer,
       ShortResultComplete

\* Reviewing and returning follow a draft and leave the quantities alone.
LEMMA EndStep ==
  ASSUME BoundsInv, RunEnds
  PROVE  BoundsInv'
<1>1. UNCHANGED quantities /\ UNCHANGED sqlCandidate /\ node \in {"review", "END"}
  BY DEF RunEnds, Review, Reviewed, ReviewUnavailable, Return, planVars
<1> QED
  BY <1>1 DEF quantities, BoundsInv, Quantified, BoundsTypeOK, CandidateBounded, LimitAccepted, BoundedOnServer,
       ShortResultComplete, ContextTellsResult

\* The start satisfies the invariant.
LEMMA BoundsInitInv == BoundsInit => BoundsInv
<1> SUFFICES ASSUME BoundsInit PROVE BoundsInv
  OBVIOUS
<1>1. /\ maxRows \in SettingsRows /\ maxRows \in Nat \ {0}
      /\ clause = NoClause /\ evidence = 0 /\ resultRows = 0 /\ rowCounts = <<>>
      /\ prompt = [evidence |-> 0, shown |-> 0, counted |-> 0]
      /\ lastQuery = [clause |-> NoClause, limit |-> 1, matched |-> 0, fetched |-> 0]
  BY BoundsAssumption DEF BoundsInit
<1>2. NoClause \in Clauses /\ NoClause.kind = "none"
  BY DEF NoClause, Clauses
<1>3. node = "retrieve_evidence" /\ sqlCandidate = ""
  BY DEF BoundsInit, Init
<1>4. Quantified
  <2>1. /\ 0 \in 0 .. SearchLimit /\ 0 \in 0 .. SearchCap /\ 0 \in 0 .. MaxMatching
        /\ 0 \in 0 .. EvidenceItems /\ 0 \in 0 .. ContextRows
    BY BoundsAssumption
  <2>2. rowCounts \in Seq(0 .. MaxMatching)
    BY <1>1
  <2>3. prompt \in [evidence : 0 .. EvidenceItems, shown : 0 .. ContextRows, counted : 0 .. MaxMatching]
    BY <1>1, <2>1
  <2>4. lastQuery \in [clause : Clauses, limit : Nat \ {0}, matched : 0 .. MaxMatching,
                       fetched : 0 .. MaxMatching]
    BY <1>1, <1>2, <2>1
  <2> QED
    BY <1>1, <1>2, <2>1, <2>2, <2>3, <2>4 DEF Quantified, BoundsTypeOK
<1>5. BoundedOnServer /\ ShortResultComplete
  BY <1>1, <1>2 DEF BoundedOnServer, ShortResultComplete
<1>6. CandidateBounded /\ ContextTellsResult
  BY <1>3 DEF CandidateBounded, ContextTellsResult
<1> QED
  BY <1>4, <1>5, <1>6 DEF BoundsInv

\* Every step keeps the invariant.
LEMMA BoundsStep ==
  ASSUME BoundsInv, [BoundsNext]_<<workflowVars, quantities>>
  PROVE  BoundsInv'
<1>1. CASE BoundsNext
  BY <1>1, SearchStep, PlanStep, NoRowsStep, RunStep, DraftStep, EndStep DEF BoundsNext
<1>2. CASE UNCHANGED <<workflowVars, quantities>>
  BY <1>2 DEF workflowVars, planVars, quantities, BoundsInv, Quantified, BoundsTypeOK,
       CandidateBounded, LimitAccepted, BoundedOnServer, ShortResultComplete, ContextTellsResult
<1> QED
  BY <1>1, <1>2

\* The inductive invariant of the quantities.
THEOREM BoundsInvariance == BoundsSpec => []BoundsInv
  BY BoundsInitInv, BoundsStep, PTL DEF BoundsSpec

\* Type correctness of the quantities (agent_context.py:61-72, readonly_query.py:22-31).
THEOREM BoundsTypeCorrect == BoundsSpec => []BoundsTypeOK
  BY BoundsInvariance, PTL DEF BoundsInv, Quantified

\* A candidate that the workflow's gate accepted is accepted by the executor's,
\* whatever the two bounds are (agent_workflow.py:198-205, readonly_query.py:77).
THEOREM BoundsGatesAgree == BoundsSpec => []GatesAgree
<1>1. BoundsInv => GatesAgree
  BY DEF BoundsInv, CandidateBounded, GatesAgree
<1> QED
  BY BoundsInvariance, <1>1, PTL

\* MySQL is never asked for more rows than the setting or the candidate allows
\* (sql_safety.py:137-151).
THEOREM BoundsOnServer == BoundsSpec => []BoundedOnServer
  BY BoundsInvariance, PTL DEF BoundsInv

\* A result shorter than its LIMIT is complete, whatever the setting
\* (readonly_query.py:85, 91).
THEOREM BoundsShortResult == BoundsSpec => []ShortResultComplete
  BY BoundsInvariance, PTL DEF BoundsInv

\* The advisor is told the size of the result the run returns, also after every
\* kind of revision (agent_context.py:95-127, llm_advisor.py:103-109).
THEOREM BoundsContextTellsResult == BoundsSpec => []ContextTellsResult
  BY BoundsInvariance, PTL DEF BoundsInv

-----------------------------------------------------------------------------
(* The layers.                                                             *)

\* A step of the bounds is a step of the workflow.
LEMMA BoundsImplementWorkflow ==
    ASSUME [BoundsNext]_<<workflowVars, quantities>>
    PROVE  [Next]_workflowVars
<1>1. CASE SearchEnds
  BY <1>1 DEF SearchEnds, Next, Retrieve
<1>2. CASE PlanEnds
  <2>1. ASSUME NEW limit \in Clauses,
               PlanProposed(IF LimitAccepted(limit, GateRows) THEN "safe" ELSE "unsafe")
        PROVE  Plan
    BY <2>1 DEF Plan, Candidates
  <2> QED
    BY <1>2, <2>1 DEF PlanEnds, Plan, Next
<1>3. CASE QueryRefused \/ QueryRuns \/ QueryFails
  BY <1>3 DEF QueryRefused, QueryRuns, QueryFails, Execute, Next
<1>4. CASE DraftEnds \/ RunEnds
  BY <1>4 DEF DraftEnds, RunEnds, Next
<1>5. CASE UNCHANGED <<workflowVars, quantities>>
  BY <1>5
<1> QED
  BY <1>1, <1>2, <1>3, <1>4, <1>5 DEF BoundsNext

\* A step with a role player is a step of the bounds.
LEMMA RolesImplementBounds ==
    ASSUME [EvaluationNext]_evaluationVars
    PROVE  [BoundsNext]_<<workflowVars, quantities>>
<1>1. CASE ToolStep \/ RunReturns
  BY <1>1 DEF ToolStep, RunReturns, RunEnds, BoundsNext
<1>2. CASE PlannerCall \/ AdvisorCall \/ FakeDrafts
  BY <1>2 DEF PlannerCall, AdvisorCall, FakeDrafts, BoundsNext
<1>3. CASE FakePlans
  <2>1. NoClause \in Clauses /\ LimitAccepted(NoClause, GateRows)
    BY DEF NoClause, Clauses, LimitAccepted
  <2>2. PlanProposed("safe") /\ clause' = NoClause
    BY <1>3 DEF FakePlans
  <2>3. PlanEnds
    BY <1>3, <2>1, <2>2 DEF FakePlans, PlanEnds
  <2> QED
    BY <2>3 DEF BoundsNext
<1>4. CASE ReviewerCall \/ FakeReviews
  <2>1. Review
    BY <1>4 DEF ReviewerCall, FakeReviews, FakeDecision, MalformedDecision, Decisions, Review
  <2> QED
    BY <1>4, <2>1 DEF ReviewerCall, FakeReviews, RunEnds, BoundsNext
<1>5. CASE UNCHANGED evaluationVars
  BY <1>5 DEF evaluationVars
<1> QED
  BY <1>1, <1>2, <1>3, <1>4, <1>5 DEF EvaluationNext, RoleStep

\* A run is one of the bounds: the role players answer as the workflow expects of
\* any role, and add nothing to what it does (llm_advisor.py:84-130, fake_llm.py:10-35).
THEOREM RunImplementsBounds == EvaluationSpec => BoundsSpec
<1>1. EvaluationInit => BoundsInit
  BY DEF EvaluationInit
<1> QED
  BY <1>1, RolesImplementBounds, PTL DEF EvaluationSpec, BoundsSpec

\* The invariants of the layers hold of a run.
Layers == IInv /\ BoundsInv /\ provider \in Providers

LEMMA LayersStep ==
    ASSUME Layers, [EvaluationNext]_evaluationVars
    PROVE  Layers'
<1>1. [BoundsNext]_<<workflowVars, quantities>> /\ [Next]_workflowVars
  BY RolesImplementBounds, BoundsImplementWorkflow
<1>2. provider' = provider
  BY DEF EvaluationNext, evaluationVars
<1> QED
  BY <1>1, <1>2, WorkflowStep, BoundsStep DEF Layers

LEMMA LayersInit ==
    ASSUME EvaluationInit
    PROVE  Layers
  BY InitInv, BoundsInitInv DEF EvaluationInit, BoundsInit, Layers

\* The inductive invariants of the workflow and of the quantities.
THEOREM RunInvariance == EvaluationSpec => []Layers
  BY LayersInit, LayersStep, PTL DEF EvaluationSpec

\* Type correctness of a whole run (agent_workflow.py:51-83, agent_context.py:61-72).
THEOREM RunTypeCorrect == EvaluationSpec => []EvaluationTypeOK
<1>1. Layers => EvaluationTypeOK
  BY DEF Layers, IInv, BoundsInv, Quantified, EvaluationTypeOK
<1> QED
  BY <1>1, RunInvariance, PTL

\* Whoever plays the roles, the work is bounded, and result, conclusion and report
\* counters agree with the persisted rows (agent_workflow.py:191-267, routes.py:354-357).
THEOREM RunKeepsRecords ==
    EvaluationSpec => [](/\ WorkBounded /\ ReportCountersAgree
                         /\ ResultComesFromAudits /\ ConclusionMatchesResult)
<1>1. Layers => WorkBounded /\ ReportCountersAgree /\ ResultComesFromAudits /\ ConclusionMatchesResult
  BY BudgetBounds, LedgerCounts, ResultDocumented DEF Layers, IInv
<1> QED
  BY <1>1, RunInvariance, PTL

\* The advisor is told the size of the result that is returned
\* (agent_context.py:95-127, llm_advisor.py:103-109).
THEOREM RunContextTellsResult == EvaluationSpec => []ContextTellsResult
<1>1. Layers => ContextTellsResult
  BY DEF Layers, BoundsInv
<1> QED
  BY <1>1, RunInvariance, PTL

-----------------------------------------------------------------------------
(* The rows of the report.                                                 *)

\* Each count belongs to an audit, only an executed query has rows, and the
\* result's rows are those of the attempt it came from.
RowsOfAudits ==
    /\ Len(rowCounts) = Len(sqlAudits)
    /\ \A k \in 1 .. Len(rowCounts) : rowCounts[k] # 0 => sqlAudits[k].status = "executed"
    /\ resultRows = IF queryResult = 0 THEN 0 ELSE rowCounts[queryResult]

\* A set of numbers with an upper bound has a greatest one.
LEMMA GreatestOfBounded ==
    ASSUME NEW top \in Nat, NEW S \in SUBSET (0 .. top), S # {}
    PROVE  Greatest(S) \in S /\ \A n \in S : n <= Greatest(S)
<1> DEFINE T == {m \in Nat : top - m \in S}
<1>1. PICK n \in S : TRUE
  OBVIOUS
<1>2. top - n \in T
  BY <1>1
<1>3. T \subseteq Nat /\ T # {}
  BY <1>2
<1>4. \E x \in T : \A y \in T : ~(<<y, x>> \in OpToRel(<, Nat))
  <2> HIDE DEF T
  <2> QED
    BY <1>3, NatLessThanWellFounded, WFMin
<1>5. PICK x \in T : \A y \in T : ~(<<y, x>> \in OpToRel(<, Nat))
  BY <1>4
<1>6. \A y \in T : ~(y < x)
  BY <1>3, <1>5 DEF OpToRel
<1>7. top - x \in S
  BY <1>5
<1>8. \A m \in S : m <= top - x
  <2> SUFFICES ASSUME NEW m \in S PROVE m <= top - x
    OBVIOUS
  <2>1. top - m \in T
    OBVIOUS
  <2> QED
    BY <1>3, <1>6, <2>1
<1> QED
  BY <1>7, <1>8 DEF Greatest

\* Every step keeps the counts with their audits.
LEMMA RowsStep ==
    ASSUME Layers, RowsOfAudits, [BoundsNext]_<<workflowVars, quantities>>
    PROVE  RowsOfAudits'
<1>0. /\ TypeOK /\ rowCounts \in Seq(0 .. MaxMatching) /\ sqlAudits \in Seq(AuditEntries)
      /\ Len(sqlAudits) \in Nat /\ Len(rowCounts) \in Nat
      /\ DOMAIN sqlAudits = 1 .. Len(sqlAudits)
      /\ queryResult # 0 => queryResult \in 1 .. Len(sqlAudits)
      /\ 0 \in 0 .. MaxMatching
  BY TypeParts, LenProperties, BoundsAssumption
     DEF Layers, IInv, BoundsInv, Quantified, BoundsTypeOK, ResultAudited
<1>1. ASSUME NEW status \in {"rejected", "executed", "failed"}, NEW rows \in 0 .. MaxMatching,
             Audited(status), rowCounts' = Append(rowCounts, rows),
             rows # 0 => status = "executed",
             \/ queryResult' = 0 /\ resultRows' = 0
             \/ queryResult' = Len(sqlAudits) + 1 /\ resultRows' = rows
             \/ UNCHANGED <<queryResult, resultRows>>
      PROVE  RowsOfAudits'
  <2>1. PICK n \in Nat : n = Len(sqlAudits)
    BY <1>0
  <2>2. /\ Len(sqlAudits') = n + 1
        /\ \A i \in 1 .. n : sqlAudits'[i] = sqlAudits[i]
        /\ sqlAudits'[n + 1].status = status
    BY <1>0, <1>1, <2>1, AuditedLength
  <2>3. /\ Len(rowCounts') = n + 1
        /\ \A i \in 1 .. n : rowCounts'[i] = rowCounts[i]
        /\ rowCounts'[n + 1] = rows
    BY <1>0, <1>1, <2>1, AppendProperties DEF RowsOfAudits
  <2>4. ASSUME NEW k \in 1 .. (n + 1), rowCounts'[k] # 0
        PROVE  sqlAudits'[k].status = "executed"
    <3>1. CASE k = n + 1
      BY <1>1, <2>2, <2>3, <2>4, <3>1
    <3>2. CASE k \in 1 .. n
      BY <2>1, <2>2, <2>3, <2>4, <3>2 DEF RowsOfAudits
    <3> QED
      BY <3>1, <3>2
  <2>5. resultRows' = IF queryResult' = 0 THEN 0 ELSE rowCounts'[queryResult']
    <3>1. CASE queryResult' = 0 /\ resultRows' = 0
      BY <3>1
    <3>2. CASE queryResult' = Len(sqlAudits) + 1 /\ resultRows' = rows
      BY <2>1, <2>3, <3>2
    <3>3. CASE UNCHANGED <<queryResult, resultRows>>
      BY <1>0, <2>1, <2>3, <3>3 DEF RowsOfAudits
    <3> QED
      BY <1>1, <3>1, <3>2, <3>3
  <2> QED
    BY <2>2, <2>3, <2>4, <2>5 DEF RowsOfAudits
<1>2. ASSUME UNCHANGED <<sqlAudits, rowCounts, queryResult, resultRows>>
      PROVE  RowsOfAudits'
  BY <1>2 DEF RowsOfAudits
<1>3. CASE SearchEnds \/ PlanEnds \/ DraftEnds \/ RunEnds
  <2>1. UNCHANGED <<sqlAudits, rowCounts, queryResult, resultRows>>
    BY <1>3 DEF SearchEnds, EvidenceRetrieved, RetrievalUnavailable, PlanEnds, PlanProposed,
         PlannerUnavailable, CountPlan, DraftEnds, DraftAnalysis, Draft, RunEnds, Review,
         Reviewed, ReviewUnavailable, Return, quantities
  <2> QED
    BY <1>2, <2>1
<1>4. CASE QueryRefused
  <2>1. CASE CandidateMissing /\ UNCHANGED resultRows /\ NoRows
    BY <1>0, <1>1, <2>1 DEF CandidateMissing, SqlFailed, NoRows
  <2>2. CASE CandidateRejected /\ resultRows' = 0 /\ NoRows
    BY <1>0, <1>1, <2>2 DEF CandidateRejected, SqlFailed, NoRows
  <2>3. CASE GateRaised /\ UNCHANGED quantities
    BY <1>2, <2>3 DEF GateRaised, quantities
  <2> QED
    BY <1>4, <2>1, <2>2, <2>3 DEF QueryRefused
<1>5. CASE QueryFails
  <2>1. PICK ts \in {"blocked", "failed"} : QueryUnavailable(ts)
    BY <1>5 DEF QueryFails
  <2> QED
    BY <1>0, <1>1, <1>5, <2>1 DEF QueryFails, QueryUnavailable, SqlFailed, NoRows
<1>6. CASE QueryRuns
  <2>1. PICK rows : /\ QueryExecuted /\ resultRows' = rows
                    /\ rowCounts' = Append(rowCounts, rows)
    BY <1>6 DEF QueryRuns
  <2>2. rows \in 0 .. MaxMatching
    BY <1>6, <2>1, RunStep DEF Layers, BoundsInv, Quantified, BoundsTypeOK
  <2>3. queryResult' = Len(sqlAudits) + 1 /\ Audited("executed")
    BY <1>0, <2>1 DEF QueryExecuted, Layers, IInv, Ledger, TypeOK
  <2> QED
    BY <1>1, <2>1, <2>2, <2>3
<1>7. CASE UNCHANGED <<workflowVars, quantities>>
  BY <1>2, <1>7 DEF workflowVars, quantities
<1> QED
  BY <1>3, <1>4, <1>5, <1>6, <1>7 DEF BoundsNext

\* The report's row count is that of the result, unless a superseded query had more
\* rows; it is never below (routes.py:353, agent_context.py:143).
THEOREM RunReportCountsResult == EvaluationSpec => []ReportCountsResult
<1>1. EvaluationInit => RowsOfAudits
  <2> SUFFICES ASSUME EvaluationInit PROVE RowsOfAudits
    OBVIOUS
  <2>1. rowCounts = <<>> /\ sqlAudits = <<>> /\ resultRows = 0 /\ queryResult = 0
    BY DEF EvaluationInit, BoundsInit, Init
  <2> QED
    BY <2>1, EmptySeq DEF RowsOfAudits
<1>2. Layers /\ RowsOfAudits /\ [EvaluationNext]_evaluationVars => RowsOfAudits'
  BY RolesImplementBounds, RowsStep
<1>3. Layers /\ RowsOfAudits => ReportCountsResult
  <2> SUFFICES ASSUME Layers, RowsOfAudits PROVE ReportCountsResult
    OBVIOUS
  <2> DEFINE S == {rowCounts[k] : k \in DOMAIN rowCounts} \cup {0}
             top == Greatest(S)
  <2>1. /\ rowCounts \in Seq(0 .. MaxMatching) /\ MaxMatching \in Nat
        /\ DOMAIN rowCounts = 1 .. Len(sqlAudits) /\ DOMAIN sqlAudits = 1 .. Len(sqlAudits)
        /\ queryResult # 0 => queryResult \in DOMAIN sqlAudits
    BY TypeParts, LenProperties, BoundsAssumption
       DEF Layers, IInv, BoundsInv, Quantified, BoundsTypeOK, ResultAudited, RowsOfAudits
  <2>2. S \in SUBSET (0 .. MaxMatching) /\ S # {}
    <3>1. \A k \in DOMAIN rowCounts : rowCounts[k] \in 0 .. MaxMatching
      BY <2>1
    <3> QED
      BY <2>1, <3>1
  <2>3. top \in S /\ \A n \in S : n <= top
    <3> HIDE DEF S
    <3> QED
      BY <2>1, <2>2, GreatestOfBounded
  <2>4. resultRows \in S
    BY <2>1 DEF RowsOfAudits
  <2>5. top = resultRows \/ top > resultRows
    <3>1. top \in Int /\ resultRows \in Int /\ resultRows <= top
      <4> HIDE DEF S, top
      <4> QED
        BY <2>1, <2>2, <2>3, <2>4
    <3> HIDE DEF top
    <3> QED
      BY <3>1
  <2>6. ASSUME top > resultRows
        PROVE  \E k \in DOMAIN sqlAudits : k # queryResult /\ sqlAudits[k].status = "executed"
    <3>1. top # 0 /\ top # resultRows
      BY <2>2, <2>3, <2>4, <2>6
    <3>2. PICK k \in DOMAIN rowCounts : top = rowCounts[k]
      BY <2>3, <3>1
    <3>3. sqlAudits[k].status = "executed" /\ k \in DOMAIN sqlAudits
      BY <2>1, <3>1, <3>2 DEF RowsOfAudits
    <3>4. k # queryResult
      BY <2>1, <3>1, <3>2 DEF RowsOfAudits
    <3> QED
      BY <3>3, <3>4
  <2> QED
    BY <2>5, <2>6 DEF ReportCountsResult, ReportRows
<1> QED
  BY <1>1, <1>2, <1>3, RunInvariance, PTL DEF EvaluationSpec

-----------------------------------------------------------------------------
(* The calls of the model.                                                 *)

\* The trace counts the attempts, and the reviews follow the drafts.
CallsCounted ==
    /\ RunsOf("plan_sql") = sqlPlanAttempts
    /\ RunsOf("review") = IF node = "review" THEN draftAttempts - 1 ELSE draftAttempts

\* What is left of a run is only one draft, after the last plan.
OneDraft ==
    /\ node # "raised"
    /\ draftAttempts = IF node \in {"review", "END", "returned"} THEN 1 ELSE 0

\* Without a model no plan has a candidate, and nothing asks for a revision.
OutagePath ==
    provider = "down" =>
        /\ OneDraft /\ sqlCandidate = "" /\ queryResult = 0
        /\ node \in {"draft_analysis", "review", "END", "returned"} =>
               sqlPlanAttempts = RevisionLimit + 1
        /\ node = "returned" => result.status = "limited"

\* The fake plans until a query succeeds or the budget is used.
FakePath ==
    provider = "fake" =>
        /\ OneDraft /\ (node = "execute_safe_sql" => sqlCandidate = "safe")
        /\ node \in {"draft_analysis", "review", "END", "returned"} =>
               queryResult # 0 \/ sqlPlanAttempts = RevisionLimit + 1
        /\ node = "END" => reviewDecision = FakeDecision
        /\ node = "returned" => (result.status = "limited" <=> result.revisionRefused)

\* An entry of the trace is of one kind only.
LEMMA TracedOnce ==
    ASSUME TypeOK, NEW n \in Nodes, NEW s \in TraceStatuses, NEW t \in TraceStatuses,
           Traced(n, s), Traced(n, t)
    PROVE  s = t
<1>1. [node |-> n, status |-> s] = [node |-> n, status |-> t]
  BY TracedLength
<1> QED
  BY <1>1

\* Every step keeps the counts.
LEMMA CallsStep ==
    ASSUME Layers, CallsCounted, [Next]_workflowVars
    PROVE  CallsCounted'
<1>0. TypeOK /\ sqlPlanAttempts \in Nat /\ draftAttempts \in Nat
  BY DEF Layers, IInv, TypeOK
<1>1. ASSUME NEW n \in Nodes, \E s \in TraceStatuses : Traced(n, s), NEW m \in Nodes
      PROVE  RunsOf(m)' = IF n = m THEN RunsOf(m) + 1 ELSE RunsOf(m)
  BY <1>0, <1>1, RunsOfStep
<1>2. ASSUME UNCHANGED trace, NEW m PROVE RunsOf(m)' = RunsOf(m)
  BY <1>2 DEF RunsOf
<1>3. "plan_sql" \in Nodes /\ "review" \in Nodes
  BY Names
<1> USE <1>0, <1>3 DEF CallsCounted
<1>4. CASE Retrieve
  <2>1. UNCHANGED <<RunsOf("plan_sql"), RunsOf("review")>>
    BY <1>1, <1>4, TracedNodes, Names
  <2> QED
    BY <1>4, <2>1, Positions
<1>5. CASE Plan
  <2>1. RunsOf("plan_sql")' = RunsOf("plan_sql") + 1 /\ UNCHANGED RunsOf("review")
    BY <1>1, <1>5, TracedNodes
  <2> QED
    BY <1>5, <2>1, Positions
<1>6. CASE Execute /\ ~GateRaised
  <2>1. UNCHANGED <<RunsOf("plan_sql"), RunsOf("review")>>
    BY <1>1, <1>6, TracedNodes, Names
  <2> QED
    BY <1>6, <2>1, Positions
<1>7. CASE GateRaised
  <2>1. UNCHANGED <<RunsOf("plan_sql"), RunsOf("review")>>
    BY <1>2, <1>7, Positions
  <2> QED
    BY <1>7, <2>1, Positions DEF Execute
<1>8. CASE DraftAnalysis
  <2>1. UNCHANGED <<RunsOf("plan_sql"), RunsOf("review")>>
    BY <1>1, <1>8, TracedNodes, Names
  <2> QED
    BY <1>8, <2>1, Positions
<1>9. CASE Review
  <2>1. RunsOf("review")' = RunsOf("review") + 1 /\ UNCHANGED RunsOf("plan_sql")
    BY <1>1, <1>9, TracedNodes
  <2> QED
    BY <1>9, <2>1, Positions
<1>10. CASE Return
  <2>1. UNCHANGED <<RunsOf("plan_sql"), RunsOf("review")>>
    BY <1>2, <1>10, Positions
  <2> QED
    BY <1>10, <2>1, Positions
<1>11. CASE UNCHANGED workflowVars
  <2>1. UNCHANGED <<RunsOf("plan_sql"), RunsOf("review")>>
    BY <1>2, <1>11 DEF workflowVars
  <2> QED
    BY <1>11, <2>1 DEF workflowVars, planVars, draftVars
<1> QED
  BY <1>4, <1>5, <1>6, <1>7, <1>8, <1>9, <1>10, <1>11 DEF Next

\* An outage keeps its path.
LEMMA OutageStep ==
    ASSUME Layers, OutagePath, provider = "down", [EvaluationNext]_evaluationVars
    PROVE  OutagePath'
<1>0. /\ TypeOK /\ RevisionLimit \in Nat /\ provider' = provider
      /\ sqlPlanAttempts \in Nat /\ sqlRevisions \in Nat
      /\ sqlRevisions = IF sqlPlanAttempts = 0 THEN 0 ELSE sqlPlanAttempts - 1
      /\ node \in {"execute_safe_sql", "draft_analysis"} => /\ sqlPlanAttempts >= 1
                                                           /\ sqlPlanAttempts <= RevisionLimit + 1
  BY LimitAssumption DEF Layers, IInv, TypeOK, Budget, EvaluationNext, evaluationVars
<1>1. /\ OneDraft /\ sqlCandidate = "" /\ queryResult = 0
      /\ node \in {"draft_analysis", "review", "END", "returned"} =>
             sqlPlanAttempts = RevisionLimit + 1
      /\ node = "returned" => result.status = "limited"
  BY DEF OutagePath
<1>2. CASE SearchEnds
  <2>1. /\ node = "retrieve_evidence" /\ node' = "plan_sql"
        /\ UNCHANGED <<sqlCandidate, queryResult, draftAttempts>>
    BY <1>0, <1>1, <1>2 DEF SearchEnds, EvidenceRetrieved, RetrievalUnavailable, planVars, draftVars
  <2> QED
    BY <1>0, <1>1, <2>1 DEF OutagePath, OneDraft
<1>3. CASE PlannerCall
  <2>1. PlanEnds /\ Traced("plan_sql", "failed")
    BY <1>0, <1>1, <1>3 DEF PlannerCall, AnswersOf, Outcome, Usable
  <2>2. ASSUME NEW candidate, PlanProposed(candidate) PROVE FALSE
    <3>1. Traced("plan_sql", "passed")
      BY <1>0, <1>1, <2>2 DEF PlanProposed
    <3> QED
      BY <1>0, <1>1, <2>1, <3>1, TracedOnce, Names
  <2>3. PlannerUnavailable
    BY <1>0, <1>1, <2>1, <2>2 DEF PlanEnds
  <2>4. /\ node = "plan_sql" /\ node' = "execute_safe_sql" /\ sqlCandidate' = ""
        /\ UNCHANGED <<queryResult, draftAttempts>>
    BY <1>0, <1>1, <2>3 DEF PlannerUnavailable, CountPlan, draftVars
  <2> QED
    BY <1>0, <1>1, <2>4 DEF OutagePath, OneDraft
<1>4. CASE QueryRefused \/ QueryRuns \/ QueryFails
  <2>1. CandidateMissing
    BY <1>0, <1>1, <1>4 DEF QueryRefused, CandidateMissing, CandidateRejected, GateRaised, QueryRuns,
         QueryExecuted, QueryFails, QueryUnavailable
  <2>2. /\ node = "execute_safe_sql" /\ node' = AfterSql(TRUE, sqlRevisions)
        /\ UNCHANGED <<sqlCandidate, queryResult, sqlPlanAttempts, draftAttempts>>
    BY <1>0, <1>1, <2>1 DEF CandidateMissing, SqlFailed, planVars, draftVars
  <2>3. sqlRevisions = sqlPlanAttempts - 1 /\ draftAttempts = 0
    <3>1. sqlRevisions = sqlPlanAttempts - 1
      BY <1>0, <2>2
    <3>2. draftAttempts = 0
      BY <1>0, <1>1, <2>2 DEF OneDraft
    <3> QED
      BY <1>0, <1>1, <3>1, <3>2
  <2>4. node' = "plan_sql" \/ (node' = "draft_analysis" /\ sqlPlanAttempts = RevisionLimit + 1)
    <3>1. CASE sqlRevisions < RevisionLimit
      BY <1>0, <1>1, <2>2, <3>1 DEF AfterSql
    <3>2. CASE ~(sqlRevisions < RevisionLimit)
      <4>1. sqlPlanAttempts = RevisionLimit + 1
        BY <1>0, <2>2, <2>3, <3>2
      <4> QED
        BY <1>0, <1>1, <2>2, <3>2, <4>1 DEF AfterSql
    <3> QED
      BY <1>0, <1>1, <3>1, <3>2
  <2>5. draftAttempts' = 0 /\ sqlCandidate' = "" /\ queryResult' = 0
    BY <1>0, <1>1, <2>2, <2>3
  <2> QED
    BY <1>0, <1>1, <2>2, <2>4, <2>5 DEF OutagePath, OneDraft
<1>5. CASE AdvisorCall
  <2>1. /\ node = "draft_analysis" /\ node' = "review" /\ draftAttempts' = draftAttempts + 1
        /\ UNCHANGED <<sqlCandidate, queryResult, sqlPlanAttempts>>
    BY <1>0, <1>1, <1>5 DEF AdvisorCall, DraftEnds, DraftAnalysis, Draft, planVars
  <2>2. draftAttempts' = 1 /\ sqlPlanAttempts' = RevisionLimit + 1
    <3>1. draftAttempts = 0
      BY <1>0, <1>1, <2>1 DEF OneDraft
    <3>2. sqlPlanAttempts' = RevisionLimit + 1
      BY <1>1, <2>1
    <3> QED
      BY <2>1, <3>1, <3>2
  <2>3. sqlCandidate' = "" /\ queryResult' = 0
    BY <1>0, <1>1, <2>1
  <2> QED
    BY <1>0, <1>1, <2>1, <2>2, <2>3 DEF OutagePath, OneDraft
<1>6. CASE ReviewerCall
  <2>1. ReviewUnavailable
    BY <1>0, <1>1, <1>6 DEF ReviewerCall, AnswersOf, Completes, Usable
  <2>2. /\ node = "review" /\ node' = "END"
        /\ UNCHANGED <<sqlCandidate, queryResult, sqlPlanAttempts, draftAttempts>>
    BY <1>0, <1>1, <2>1 DEF ReviewUnavailable, AfterReview, planVars, draftVars
  <2> QED
    BY <1>0, <1>1, <2>2 DEF OutagePath, OneDraft
<1>7. CASE RunReturns
  <2>1. /\ node = "END" /\ node' = "returned" /\ result'.status = "limited"
        /\ UNCHANGED <<sqlCandidate, queryResult, sqlPlanAttempts, draftAttempts>>
    BY <1>0, <1>1, <1>7 DEF RunReturns, Return, planVars, draftVars
  <2> QED
    BY <1>0, <1>1, <2>1 DEF OutagePath, OneDraft
<1>8. CASE UNCHANGED evaluationVars
  BY <1>1, <1>8 DEF evaluationVars, workflowVars, planVars, draftVars, endVars, OutagePath, OneDraft
<1>9. ~FakePlans /\ ~FakeDrafts /\ ~FakeReviews
  BY DEF FakePlans, FakeDrafts, FakeReviews
<1> QED
  BY <1>2, <1>3, <1>4, <1>5, <1>6, <1>7, <1>8, <1>9 DEF EvaluationNext, ToolStep, RoleStep

\* The fake keeps to its path.
LEMMA FakeStep ==
    ASSUME Layers, FakePath, provider = "fake", [EvaluationNext]_evaluationVars
    PROVE  FakePath'
<1>0. /\ TypeOK /\ RevisionLimit \in Nat /\ provider' = provider
      /\ sqlPlanAttempts \in Nat /\ sqlRevisions \in Nat
      /\ sqlRevisions = IF sqlPlanAttempts = 0 THEN 0 ELSE sqlPlanAttempts - 1
      /\ node \in {"execute_safe_sql", "draft_analysis"} => /\ sqlPlanAttempts >= 1
                                                           /\ sqlPlanAttempts <= RevisionLimit + 1
      /\ node = "execute_safe_sql" => Len(sqlAudits) = sqlPlanAttempts - 1
  BY LimitAssumption DEF Layers, IInv, TypeOK, Budget, Ledger, EvaluationNext, evaluationVars
<1>1. /\ OneDraft /\ (node = "execute_safe_sql" => sqlCandidate = "safe")
      /\ node \in {"draft_analysis", "review", "END", "returned"} =>
             queryResult # 0 \/ sqlPlanAttempts = RevisionLimit + 1
      /\ node = "END" => reviewDecision = FakeDecision
      /\ node = "returned" => (result.status = "limited" <=> result.revisionRefused)
  BY DEF FakePath
<1>2. CASE SearchEnds
  <2>1. /\ node = "retrieve_evidence" /\ node' = "plan_sql" /\ UNCHANGED draftAttempts
    BY <1>2 DEF SearchEnds, EvidenceRetrieved, RetrievalUnavailable, draftVars
  <2>2. draftAttempts' = 0
    BY <1>1, <2>1 DEF OneDraft
  <2> QED
    BY <2>1, <2>2 DEF FakePath, OneDraft
<1>3. CASE FakePlans
  <2>1. /\ node = "plan_sql" /\ node' = "execute_safe_sql" /\ sqlCandidate' = "safe"
        /\ UNCHANGED draftAttempts
    BY <1>3 DEF FakePlans, PlanProposed, CountPlan, draftVars
  <2>2. draftAttempts' = 0
    BY <1>1, <2>1 DEF OneDraft
  <2> QED
    BY <2>1, <2>2 DEF FakePath, OneDraft
<1>4. CASE QueryRuns
  <2>1. /\ node = "execute_safe_sql" /\ node' = "draft_analysis" /\ queryResult' = sqlPlanAttempts
        /\ UNCHANGED draftAttempts
    BY <1>4 DEF QueryRuns, QueryExecuted, AfterSql, draftVars
  <2>2. draftAttempts' = 0 /\ queryResult' # 0
    BY <1>0, <1>1, <2>1 DEF OneDraft
  <2> QED
    BY <2>1, <2>2 DEF FakePath, OneDraft
<1>5. CASE QueryRefused \/ QueryFails
  <2>1. \E ts \in {"blocked", "failed"} : QueryUnavailable(ts)
    BY <1>1, <1>5 DEF QueryRefused, CandidateMissing, CandidateRejected, GateRaised, QueryFails
  <2>2. /\ node = "execute_safe_sql" /\ node' = AfterSql(TRUE, sqlRevisions)
        /\ UNCHANGED <<sqlPlanAttempts, draftAttempts>>
    BY <2>1 DEF QueryUnavailable, SqlFailed, planVars, draftVars
  <2>3. sqlRevisions = sqlPlanAttempts - 1 /\ draftAttempts' = 0
    BY <1>0, <1>1, <2>2 DEF OneDraft
  <2>4. node' = "plan_sql" \/ (node' = "draft_analysis" /\ sqlPlanAttempts' = RevisionLimit + 1)
    BY <1>0, <2>2, <2>3 DEF AfterSql
  <2> QED
    BY <2>3, <2>4 DEF FakePath, OneDraft
<1>6. CASE FakeDrafts
  <2>1. /\ node = "draft_analysis" /\ node' = "review" /\ draftAttempts' = draftAttempts + 1
        /\ UNCHANGED <<queryResult, sqlPlanAttempts>>
    BY <1>6 DEF FakeDrafts, DraftEnds, DraftAnalysis, Draft, planVars
  <2>2. draftAttempts' = 1
    BY <1>1, <2>1 DEF OneDraft
  <2>3. queryResult' # 0 \/ sqlPlanAttempts' = RevisionLimit + 1
    BY <1>1, <2>1
  <2> QED
    BY <2>1, <2>2, <2>3 DEF FakePath, OneDraft
<1>7. CASE FakeReviews
  <2>1. /\ node = "review" /\ node' = AfterReview(FakeDecision) /\ reviewDecision' = FakeDecision
        /\ UNCHANGED <<queryResult, sqlPlanAttempts, draftAttempts>>
    BY <1>7 DEF FakeReviews, Reviewed, planVars, draftVars
  <2>2. /\ draftAttempts' = 1 /\ reviewDecision' = FakeDecision'
        /\ queryResult' # 0 \/ sqlPlanAttempts' = RevisionLimit + 1
    BY <1>1, <2>1 DEF OneDraft, FakeDecision
  <2>3. node' = "END"
    <3>1. CASE queryResult # 0
      BY <2>1, <3>1 DEF AfterReview, FakeDecision
    <3>2. CASE sqlPlanAttempts = RevisionLimit + 1
      <4>1. ~(sqlRevisions < RevisionLimit)
        BY <1>0, <3>2
      <4> QED
        BY <2>1, <4>1 DEF AfterReview, FakeDecision
    <3> QED
      BY <1>1, <2>1, <3>1, <3>2
  <2> QED
    BY <2>2, <2>3 DEF FakePath, OneDraft
<1>8. CASE RunReturns
  <2>1. /\ node = "END" /\ node' = "returned"
        /\ result' = [status |-> IF queryResult # 0 THEN "completed" ELSE "limited",
                      revisionRefused |-> reviewDecision \in {"revise_sql", "revise_conclusion"}]
        /\ UNCHANGED <<queryResult, sqlPlanAttempts, draftAttempts>>
    BY <1>8 DEF RunReturns, Return, planVars, draftVars
  <2>2. result'.status = "limited" <=> result'.revisionRefused
    BY <1>1, <2>1 DEF FakeDecision
  <2>3. /\ draftAttempts' = 1 /\ (queryResult' # 0 \/ sqlPlanAttempts' = RevisionLimit + 1)
    BY <1>1, <2>1 DEF OneDraft
  <2> QED
    BY <2>1, <2>2, <2>3 DEF FakePath, OneDraft
<1>9. CASE UNCHANGED evaluationVars
  BY <1>1, <1>9 DEF evaluationVars, workflowVars, planVars, draftVars, endVars, FakePath, OneDraft,
                    FakeDecision
<1>10. ~PlannerCall /\ ~AdvisorCall /\ ~ReviewerCall
  BY DEF PlannerCall, AdvisorCall, ReviewerCall
<1> QED
  BY <1>2, <1>3, <1>4, <1>5, <1>6, <1>7, <1>8, <1>9, <1>10 DEF EvaluationNext, ToolStep, RoleStep

\* What the calls of a run add up to, for each who answers.
CallsInv == CallsCounted /\ OutagePath /\ FakePath

LEMMA CallsInit ==
    ASSUME EvaluationInit
    PROVE  CallsInv
<1>1. /\ node = "retrieve_evidence" /\ sqlCandidate = "" /\ queryResult = 0
      /\ sqlPlanAttempts = 0 /\ draftAttempts = 0 /\ trace = <<>>
  BY DEF EvaluationInit, BoundsInit, Init
<1>2. ASSUME NEW n PROVE RunsOf(n) = 0
  <2>1. DOMAIN trace = {}
    BY <1>1, Nothing
  <2>2. {i \in DOMAIN trace : trace[i].node = n} = {}
    BY <2>1
  <2> QED
    BY <2>2, FS_EmptySet DEF RunsOf
<1> QED
  BY <1>1, <1>2 DEF CallsInv, CallsCounted, OutagePath, FakePath, OneDraft

-----------------------------------------------------------------------------
(* Signals, audits and the evaluation of runs.                             *)

\* Whoever plays the roles, a subscriber sees one signal for each persisted audit,
\* with the same outcome (agent_workflow.py:191-215).
THEOREM RunProgressMatchesAudits == EvaluationSpec => []ProgressMatchesAudits
<1>1. EvaluationInit => Listening /\ ProgressMatchesAudits
  BY MatchesInit DEF EvaluationInit, BoundsInit
<1>2. Layers /\ Listening /\ ProgressMatchesAudits /\ [EvaluationNext]_evaluationVars
         => Listening' /\ ProgressMatchesAudits'
  BY MatchesStep, RolesImplementBounds, BoundsImplementWorkflow DEF Layers
<1> QED
  BY <1>1, <1>2, RunInvariance, PTL DEF EvaluationSpec

\* A returned run has one of the two statuses.
StatusGiven == node = "returned" => result.status # "none"

LEMMA StatusGivenStep ==
    ASSUME Layers, StatusGiven, [Next]_workflowVars
    PROVE  StatusGiven'
<1>1. CASE Return
  BY <1>1 DEF Return, StatusGiven
<1>2. CASE UNCHANGED workflowVars
  BY <1>2 DEF workflowVars, endVars, StatusGiven
<1> QED
  BY <1>1, <1>2, Positions DEF Next, Layers, IInv, StatusGiven

\* How many of two.
LEMMA OfTwo ==
    ASSUME NEW S \in SUBSET {1, 2}
    PROVE  Cardinality(S) = (IF 1 \in S THEN 1 ELSE 0) + (IF 2 \in S THEN 1 ELSE 0)
<1>1. S = {} \/ S = {1} \/ S = {2} \/ S = {1} \cup {2}
  OBVIOUS
<1>2. Cardinality({}) = 0 /\ Cardinality({1}) = 1 /\ Cardinality({2}) = 1
  BY FS_EmptySet, FS_Singleton
<1>3. Cardinality({1} \cup {2}) = 2
  <2>1. PICK one : one = {1}
    OBVIOUS
  <2>2. IsFiniteSet(one) /\ Cardinality(one) = 1
    BY <2>1, FS_Singleton, Zenon
  <2>3. 2 \notin one
    BY <2>1
  <2>4. Cardinality(one \cup {2}) = 2
    BY <2>2, <2>3, FS_AddElement
  <2> QED
    BY <2>1, <2>4
<1>4. CASE S = {}
  BY <1>2, <1>4
<1>5. CASE S = {1}
  BY <1>2, <1>5
<1>6. CASE S = {2}
  BY <1>2, <1>6
<1>7. CASE S = {1} \cup {2}
  BY <1>3, <1>7
<1> QED
  BY <1>1, <1>4, <1>5, <1>6, <1>7

\* The sums over two rows, field by field.
LEMMA SummaryOfTwo ==
    ASSUME NEW a, NEW b
    PROVE  LET sums == Summary(<<a, b>>)
               One(condition) == IF condition THEN 1 ELSE 0
           IN  /\ sums.total = 2
               /\ sums.completed = One(a.status = "completed") + One(b.status = "completed")
               /\ sums.limited = One(a.status = "limited") + One(b.status = "limited")
               /\ sums.failed = One(a.status = "failed") + One(b.status = "failed")
               /\ sums.evidenceScored = One(a.evidence # "unscored") + One(b.evidence # "unscored")
               /\ sums.hits = One(a.evidence = "yes") + One(b.evidence = "yes")
               /\ sums.sqlScored = One(a.tables # "unscored") + One(b.tables # "unscored")
               /\ sums.matches = One(a.tables = "yes") + One(b.tables = "yes")
               /\ sums.executions = One(a.executed) + One(b.executed)
<1> DEFINE rows == <<a, b>>
<1>1. DOMAIN rows = {1, 2} /\ rows[1] = a /\ rows[2] = b /\ Len(rows) = 2
  OBVIOUS
<1> HIDE DEF rows
<1>3. Cardinality({i \in DOMAIN rows : rows[i].status = "completed"})
         = (IF a.status = "completed" THEN 1 ELSE 0) + (IF b.status = "completed" THEN 1 ELSE 0)
  BY <1>1, OfTwo
<1>4. Cardinality({i \in DOMAIN rows : rows[i].status = "limited"})
         = (IF a.status = "limited" THEN 1 ELSE 0) + (IF b.status = "limited" THEN 1 ELSE 0)
  BY <1>1, OfTwo
<1>5. Cardinality({i \in DOMAIN rows : rows[i].status = "failed"})
         = (IF a.status = "failed" THEN 1 ELSE 0) + (IF b.status = "failed" THEN 1 ELSE 0)
  BY <1>1, OfTwo
<1>6. Cardinality({i \in DOMAIN rows : rows[i].evidence # "unscored"})
         = (IF a.evidence # "unscored" THEN 1 ELSE 0) + (IF b.evidence # "unscored" THEN 1 ELSE 0)
  BY <1>1, OfTwo
<1>7. Cardinality({i \in DOMAIN rows : rows[i].evidence = "yes"})
         = (IF a.evidence = "yes" THEN 1 ELSE 0) + (IF b.evidence = "yes" THEN 1 ELSE 0)
  BY <1>1, OfTwo
<1>8. Cardinality({i \in DOMAIN rows : rows[i].tables # "unscored"})
         = (IF a.tables # "unscored" THEN 1 ELSE 0) + (IF b.tables # "unscored" THEN 1 ELSE 0)
  BY <1>1, OfTwo
<1>9. Cardinality({i \in DOMAIN rows : rows[i].tables = "yes"})
         = (IF a.tables = "yes" THEN 1 ELSE 0) + (IF b.tables = "yes" THEN 1 ELSE 0)
  BY <1>1, OfTwo
<1>10. Cardinality({i \in DOMAIN rows : rows[i].executed})
         = (IF a.executed THEN 1 ELSE 0) + (IF b.executed THEN 1 ELSE 0)
  BY <1>1, OfTwo
<1>11. Summary(rows) =
         [total |-> Len(rows),
          completed |-> Cardinality({i \in DOMAIN rows : rows[i].status = "completed"}),
          limited |-> Cardinality({i \in DOMAIN rows : rows[i].status = "limited"}),
          failed |-> Cardinality({i \in DOMAIN rows : rows[i].status = "failed"}),
          evidenceScored |-> Cardinality({i \in DOMAIN rows : rows[i].evidence # "unscored"}),
          hits |-> Cardinality({i \in DOMAIN rows : rows[i].evidence = "yes"}),
          sqlScored |-> Cardinality({i \in DOMAIN rows : rows[i].tables # "unscored"}),
          matches |-> Cardinality({i \in DOMAIN rows : rows[i].tables = "yes"}),
          executions |-> Cardinality({i \in DOMAIN rows : rows[i].executed})]
  BY DEF Summary, RowsWhere
<1>12. /\ Summary(rows).total = 2
       /\ Summary(rows).completed = (IF a.status = "completed" THEN 1 ELSE 0) + (IF b.status = "completed" THEN 1 ELSE 0)
       /\ Summary(rows).limited = (IF a.status = "limited" THEN 1 ELSE 0) + (IF b.status = "limited" THEN 1 ELSE 0)
       /\ Summary(rows).failed = (IF a.status = "failed" THEN 1 ELSE 0) + (IF b.status = "failed" THEN 1 ELSE 0)
  BY <1>1, <1>3, <1>4, <1>5, <1>11
<1>13. /\ Summary(rows).evidenceScored = (IF a.evidence # "unscored" THEN 1 ELSE 0) + (IF b.evidence # "unscored" THEN 1 ELSE 0)
       /\ Summary(rows).hits = (IF a.evidence = "yes" THEN 1 ELSE 0) + (IF b.evidence = "yes" THEN 1 ELSE 0)
       /\ Summary(rows).sqlScored = (IF a.tables # "unscored" THEN 1 ELSE 0) + (IF b.tables # "unscored" THEN 1 ELSE 0)
       /\ Summary(rows).matches = (IF a.tables = "yes" THEN 1 ELSE 0) + (IF b.tables = "yes" THEN 1 ELSE 0)
       /\ Summary(rows).executions = (IF a.executed THEN 1 ELSE 0) + (IF b.executed THEN 1 ELSE 0)
  BY <1>6, <1>7, <1>8, <1>9, <1>10, <1>11
<1> QED
  BY <1>12, <1>13 DEF rows

\* What a row of the report is, for a run that returned and for one that raised.
RowOf(question, row) ==
    /\ row.status \in {"completed", "limited", "failed"}
    /\ row.executed \in BOOLEAN /\ (row.executed <=> row.status = "completed")
    /\ row.evidence # "unscored" <=> question.sources
    /\ row.tables # "unscored" <=> question.tables
    /\ row.tables = "yes" => row.executed

LEMMA FailureRowIs ==
    ASSUME NEW question \in Questions
    PROVE  RowOf(question, FailureRow(question)) /\ FailureRow(question).tables # "yes"
  BY DEF RowOf, FailureRow, Label, Questions

LEMMA EvaluationRowIs ==
    ASSUME Layers, StatusGiven, Ended, NEW question \in Questions, NEW met \in BOOLEAN
    PROVE  RowOf(question, EvaluationRow(question, met, met))
<1>1. CASE node = "returned"
  <2>1. /\ result.status \in {"completed", "limited"} /\ (queryResult # 0) \in BOOLEAN
        /\ queryResult # 0 <=> result.status = "completed"
    BY <1>1 DEF Layers, IInv, TypeOK, StatusGiven, StatusTellsResult
  <2> QED
    BY <1>1, <2>1 DEF EvaluationRow, ScoreRow, RowOf, Label, Questions
<1>2. CASE node # "returned"
  BY <1>2, FailureRowIs DEF EvaluationRow
<1> QED
  BY <1>1, <1>2

\* Whichever of two evaluated runs raised, the sums and the rates' denominators
\* add up (evaluate_live_agent.py:79-106, evaluation.py:55-111).
THEOREM RunSummaryAddsUp == EvaluationSpec => []SummaryAddsUp
<1>1. EvaluationInit => StatusGiven
  BY DEF EvaluationInit, BoundsInit, Init, StatusGiven
<1>2. Layers /\ StatusGiven /\ [EvaluationNext]_evaluationVars => StatusGiven'
  BY StatusGivenStep, RolesImplementBounds, BoundsImplementWorkflow DEF Layers
<1>3. Layers /\ StatusGiven => SummaryAddsUp
  <2> SUFFICES ASSUME Layers, StatusGiven, Ended, NEW question \in Questions, NEW met \in BOOLEAN
               PROVE  LET rows == <<EvaluationRow(question, met, met), FailureRow(question)>>
                          sums == Summary(rows)
                      IN  /\ sums.completed + sums.limited + sums.failed = sums.total
                          /\ sums.executions = sums.completed
                          /\ sums.evidenceScored = IF question.sources THEN 2 ELSE 0
                          /\ sums.sqlScored = IF question.tables THEN 2 ELSE 0
                          /\ sums.hits <= sums.evidenceScored /\ sums.matches <= sums.executions
    BY DEF SummaryAddsUp
  <2>1. PICK a : a = EvaluationRow(question, met, met)
    OBVIOUS
  <2>2. PICK b : b = FailureRow(question)
    OBVIOUS
  <2>3. RowOf(question, a) /\ RowOf(question, b) /\ question.sources \in BOOLEAN /\ question.tables \in BOOLEAN
    BY <2>1, <2>2, EvaluationRowIs, FailureRowIs DEF Questions
  <2>4. PICK sums : sums = Summary(<<a, b>>)
    OBVIOUS
  <2>5. /\ sums.total = 2
        /\ sums.completed = (IF a.status = "completed" THEN 1 ELSE 0) + (IF b.status = "completed" THEN 1 ELSE 0)
        /\ sums.limited = (IF a.status = "limited" THEN 1 ELSE 0) + (IF b.status = "limited" THEN 1 ELSE 0)
        /\ sums.failed = (IF a.status = "failed" THEN 1 ELSE 0) + (IF b.status = "failed" THEN 1 ELSE 0)
        /\ sums.evidenceScored = (IF a.evidence # "unscored" THEN 1 ELSE 0) + (IF b.evidence # "unscored" THEN 1 ELSE 0)
        /\ sums.hits = (IF a.evidence = "yes" THEN 1 ELSE 0) + (IF b.evidence = "yes" THEN 1 ELSE 0)
        /\ sums.sqlScored = (IF a.tables # "unscored" THEN 1 ELSE 0) + (IF b.tables # "unscored" THEN 1 ELSE 0)
        /\ sums.matches = (IF a.tables = "yes" THEN 1 ELSE 0) + (IF b.tables = "yes" THEN 1 ELSE 0)
        /\ sums.executions = (IF a.executed THEN 1 ELSE 0) + (IF b.executed THEN 1 ELSE 0)
    BY <2>4, SummaryOfTwo
  <2>6. sums.completed + sums.limited + sums.failed = sums.total
    BY <2>3, <2>5 DEF RowOf
  <2>7. sums.executions = sums.completed
    BY <2>3, <2>5 DEF RowOf
  <2>8. /\ sums.evidenceScored = IF question.sources THEN 2 ELSE 0
        /\ sums.sqlScored = IF question.tables THEN 2 ELSE 0
    BY <2>3, <2>5 DEF RowOf
  <2>9. sums.hits <= sums.evidenceScored /\ sums.matches <= sums.executions
    BY <2>3, <2>5 DEF RowOf
  <2> QED
    BY <2>1, <2>2, <2>4, <2>6, <2>7, <2>8, <2>9
<1> QED
  BY <1>1, <1>2, <1>3, RunInvariance, PTL DEF EvaluationSpec

-----------------------------------------------------------------------------
(* The schema of the report and the observables, for the limit the code    *)
(* has: one revision of each kind.                                         *)

\* The review at i wanted a revision, and got it.
WentOn(i, decision) ==
    /\ trace[i] = [node |-> "review", status |-> decision]
    /\ i < Len(trace) \/ node \notin {"END", "returned"}

ConclusionRevised == \E i \in DOMAIN trace : WentOn(i, "revise_conclusion")

\* ThirdDraft, as soon as it is settled.
SqlRevisedAfter ==
    \E i, j \in DOMAIN trace : i < j /\ WentOn(i, "revise_conclusion") /\ WentOn(j, "revise_sql")

\* A second draft is one of the conclusion, or of a second query; a third needs both,
\* the conclusion first.
DraftsExplained ==
    /\ draftAttempts >= 1 => sqlPlanAttempts >= 1
    /\ ConclusionRevised => draftAttempts >= 1
    /\ draftAttempts <= 1 => ~SqlRevisedAfter
    /\ draftAttempts = 1 =>
          IF ConclusionRevised THEN node = "draft_analysis"
          ELSE node \in {"execute_safe_sql", "draft_analysis"} => sqlPlanAttempts = 2
    /\ draftAttempts = 2 =>
          IF ConclusionRevised THEN SqlRevisedAfter <=> node \notin {"review", "END", "returned"}
          ELSE ~SqlRevisedAfter /\ sqlPlanAttempts = 2 /\ node \in {"review", "END", "returned"}
    /\ draftAttempts = 3 => SqlRevisedAfter

\* What an appended entry changes of the history of revisions.
LEMMA RevisionsGrow ==
    ASSUME IInv, NEW n \in Nodes, NEW s \in TraceStatuses, Traced(n, s),
           node \notin {"END", "returned"}
    PROVE  /\ ConclusionRevised' <=>
                 \/ ConclusionRevised
                 \/ n = "review" /\ s = "revise_conclusion" /\ node' \notin {"END", "returned"}
           /\ SqlRevisedAfter' <=>
                 \/ SqlRevisedAfter
                 \/ /\ n = "review" /\ s = "revise_sql" /\ node' \notin {"END", "returned"}
                    /\ ConclusionRevised
<1>1. PICK k \in Nat : k = Len(trace)
  BY LengthTypes DEF IInv
<1>2. /\ Len(trace') = k + 1 /\ \A i \in 1 .. k : trace'[i] = trace[i]
      /\ trace'[k + 1] = [node |-> n, status |-> s]
  BY <1>1, TracedLength DEF IInv
<1>3. DOMAIN trace = 1 .. k /\ DOMAIN trace' = 1 .. (k + 1)
  BY <1>1, <1>2, TracedType, LenProperties DEF IInv, TypeOK
<1>4. /\ \A i \in 1 .. k : trace'[i] = trace[i] /\ i < k + 1
      /\ ~(k + 1 < k + 1) /\ k < k + 1
      /\ trace'[k + 1].node = n /\ trace'[k + 1].status = s
  BY <1>1, <1>2
<1>5. /\ \A i \in 1 .. k : WentOn(i, "revise_conclusion")' <=> WentOn(i, "revise_conclusion")
      /\ WentOn(k + 1, "revise_conclusion")' <=>
             n = "review" /\ s = "revise_conclusion" /\ node' \notin {"END", "returned"}
  BY <1>2, <1>4 DEF WentOn
<1>6. /\ \A i \in 1 .. k : WentOn(i, "revise_sql")' <=> WentOn(i, "revise_sql")
      /\ WentOn(k + 1, "revise_sql")' <=>
             n = "review" /\ s = "revise_sql" /\ node' \notin {"END", "returned"}
  BY <1>2, <1>4 DEF WentOn
<1>7. ConclusionRevised' <=>
         \/ ConclusionRevised
         \/ n = "review" /\ s = "revise_conclusion" /\ node' \notin {"END", "returned"}
  BY <1>1, <1>3, <1>5, <1>6 DEF ConclusionRevised
<1>8. ASSUME SqlRevisedAfter'
      PROVE  \/ SqlRevisedAfter
             \/ /\ n = "review" /\ s = "revise_sql" /\ node' \notin {"END", "returned"}
                /\ ConclusionRevised
  <2>1. PICK i \in 1 .. (k + 1), j \in 1 .. (k + 1) :
          i < j /\ WentOn(i, "revise_conclusion")' /\ WentOn(j, "revise_sql")'
    BY <1>3, <1>8 DEF SqlRevisedAfter
  <2>2. i \in 1 .. k /\ WentOn(i, "revise_conclusion")
    BY <1>1, <1>5, <1>6, <2>1
  <2>3. CASE j \in 1 .. k
    BY <1>3, <1>5, <1>6, <2>1, <2>2, <2>3 DEF SqlRevisedAfter
  <2>4. CASE j = k + 1
    BY <1>3, <1>5, <1>6, <2>1, <2>2, <2>4 DEF ConclusionRevised
  <2> QED
    BY <1>1, <2>1, <2>3, <2>4
<1>9. ASSUME SqlRevisedAfter PROVE SqlRevisedAfter'
  <2>1. PICK i \in 1 .. k, j \in 1 .. k :
          i < j /\ WentOn(i, "revise_conclusion") /\ WentOn(j, "revise_sql")
    BY <1>3, <1>9 DEF SqlRevisedAfter
  <2>2. WentOn(i, "revise_conclusion")' /\ WentOn(j, "revise_sql")'
    BY <1>5, <1>6, <2>1
  <2> QED
    BY <1>1, <1>3, <2>1, <2>2 DEF SqlRevisedAfter
<1>10. ASSUME n = "review", s = "revise_sql", node' \notin {"END", "returned"}, ConclusionRevised
      PROVE  SqlRevisedAfter'
  <2>1. PICK i \in 1 .. k : WentOn(i, "revise_conclusion")
    BY <1>3, <1>10 DEF ConclusionRevised
  <2>2. WentOn(i, "revise_conclusion")' /\ WentOn(k + 1, "revise_sql")' /\ i < k + 1
    BY <1>1, <1>5, <1>6, <1>10, <2>1
  <2> QED
    BY <1>1, <1>3, <2>2 DEF SqlRevisedAfter
<1> QED
  BY <1>7, <1>8, <1>9, <1>10

\* Nothing changes the history where nothing is traced.
LEMMA RevisionsStay ==
    ASSUME UNCHANGED trace, node \in {"END", "returned"} <=> node' \in {"END", "returned"}
    PROVE  (ConclusionRevised' <=> ConclusionRevised) /\ (SqlRevisedAfter' <=> SqlRevisedAfter)
  BY DEF ConclusionRevised, SqlRevisedAfter, WentOn

\* Every step keeps the explanation.
LEMMA DraftsStep ==
    ASSUME RevisionLimit = 1, IInv, DraftsExplained, [Next]_workflowVars
    PROVE  DraftsExplained'
<1>0. /\ TypeOK /\ Budget /\ sqlPlanAttempts \in Nat /\ draftAttempts \in Nat
      /\ sqlRevisions = IF sqlPlanAttempts = 0 THEN 0 ELSE sqlPlanAttempts - 1
      /\ conclusionRevisions = IF draftAttempts = 0 THEN 0 ELSE draftAttempts - 1
  BY DEF IInv, TypeOK, Budget
<1>1. ASSUME NEW n \in Nodes \ {"review"}, \E s \in TraceStatuses : Traced(n, s),
             node \notin {"END", "returned"}
      PROVE  (ConclusionRevised' <=> ConclusionRevised) /\ (SqlRevisedAfter' <=> SqlRevisedAfter)
  <2>1. PICK s \in TraceStatuses : Traced(n, s)
    BY <1>1
  <2> QED
    BY <1>1, <2>1, RevisionsGrow
<1>2. CASE Retrieve
  <2>1. /\ (ConclusionRevised' <=> ConclusionRevised) /\ (SqlRevisedAfter' <=> SqlRevisedAfter)
        /\ node = "retrieve_evidence" /\ node' = "plan_sql"
        /\ UNCHANGED <<sqlPlanAttempts, draftAttempts>>
    BY <1>0, <1>1, <1>2, Positions, TracedNodes, Names
  <2>2. draftAttempts = 0
    BY <1>0, <2>1 DEF Budget
  <2> QED
    BY <2>1, <2>2 DEF DraftsExplained
<1>3. CASE Plan
  <2>1. /\ (ConclusionRevised' <=> ConclusionRevised) /\ (SqlRevisedAfter' <=> SqlRevisedAfter)
        /\ node = "plan_sql" /\ node' = "execute_safe_sql"
        /\ sqlPlanAttempts' = sqlPlanAttempts + 1 /\ UNCHANGED draftAttempts
    BY <1>0, <1>1, <1>3, Positions, TracedNodes, Names
  <2>2. sqlPlanAttempts <= 1
    BY <1>0, <2>1 DEF Budget
  <2> QED
    BY <1>0, <2>1, <2>2 DEF DraftsExplained
<1>4. CASE Execute /\ ~GateRaised
  <2>1. /\ (ConclusionRevised' <=> ConclusionRevised) /\ (SqlRevisedAfter' <=> SqlRevisedAfter)
        /\ node = "execute_safe_sql" /\ node' \in {"plan_sql", "draft_analysis"}
        /\ UNCHANGED <<sqlPlanAttempts, draftAttempts>>
    BY <1>0, <1>1, <1>4, Positions, TracedNodes, Names
  <2> QED
    BY <1>0, <2>1 DEF DraftsExplained
<1>5. CASE DraftAnalysis
  <2>1. /\ (ConclusionRevised' <=> ConclusionRevised) /\ (SqlRevisedAfter' <=> SqlRevisedAfter)
        /\ node = "draft_analysis" /\ node' = "review"
        /\ draftAttempts' = draftAttempts + 1 /\ UNCHANGED sqlPlanAttempts
    BY <1>0, <1>1, <1>5, Positions, TracedNodes, Names
  <2>2. 1 <= sqlPlanAttempts /\ draftAttempts <= 2
    BY <1>0, <2>1 DEF Budget
  <2> QED
    BY <1>0, <2>1, <2>2 DEF DraftsExplained
<1>6. ASSUME NEW decision \in Decisions, NEW s \in TraceStatuses, Traced("review", s),
             node = "review", node' = AfterReview(decision),
             UNCHANGED <<sqlPlanAttempts, draftAttempts>>,
             s = decision \/ (decision = "approved" /\ s = "fallback")
      PROVE  DraftsExplained'
  <2>1. /\ ConclusionRevised' <=>
              ConclusionRevised \/ (s = "revise_conclusion" /\ node' \notin {"END", "returned"})
        /\ SqlRevisedAfter' <=>
              \/ SqlRevisedAfter
              \/ s = "revise_sql" /\ node' \notin {"END", "returned"} /\ ConclusionRevised
    BY <1>6, RevisionsGrow, Names
  <2>2. /\ 1 <= draftAttempts /\ draftAttempts <= 3 /\ 1 <= sqlPlanAttempts /\ sqlPlanAttempts <= 2
        /\ draftAttempts <= sqlPlanAttempts + 1
        /\ sqlRevisions = sqlPlanAttempts - 1 /\ conclusionRevisions = draftAttempts - 1
    BY <1>0, <1>6 DEF Budget
  <2>3. CASE decision = "revise_sql" /\ sqlPlanAttempts = 1
    BY <1>0, <1>6, <2>1, <2>2, <2>3 DEF AfterReview, DraftsExplained
  <2>4. CASE decision = "revise_conclusion" /\ draftAttempts = 1
    BY <1>6, <2>1, <2>2, <2>4 DEF AfterReview, DraftsExplained
  <2>5. CASE ~(decision = "revise_sql" /\ sqlPlanAttempts = 1)
             /\ ~(decision = "revise_conclusion" /\ draftAttempts = 1)
    <3>1. node' = "END"
      BY <1>0, <1>6, <2>2, <2>5 DEF AfterReview
    <3> QED
      BY <1>6, <2>1, <2>2, <3>1 DEF DraftsExplained
  <2> QED
    BY <2>3, <2>4, <2>5
<1>7. CASE Review
  <2>1. CASE ReviewUnavailable
    BY <1>6, <2>1, Names DEF ReviewUnavailable, planVars, draftVars
  <2>2. ASSUME NEW decision \in Decisions, Reviewed(decision) PROVE DraftsExplained'
    BY <1>6, <2>2, Names DEF Reviewed, planVars, draftVars
  <2> QED
    BY <1>7, <2>1, <2>2 DEF Review
<1>8. CASE GateRaised
  <2>1. /\ (ConclusionRevised' <=> ConclusionRevised) /\ (SqlRevisedAfter' <=> SqlRevisedAfter)
        /\ node = "execute_safe_sql" /\ node' = "raised"
        /\ UNCHANGED <<sqlPlanAttempts, draftAttempts>>
    BY <1>8, RevisionsStay DEF GateRaised, planVars, draftVars
  <2> QED
    BY <1>0, <2>1 DEF DraftsExplained
<1>9. CASE Return
  <2>1. /\ (ConclusionRevised' <=> ConclusionRevised) /\ (SqlRevisedAfter' <=> SqlRevisedAfter)
        /\ node = "END" /\ node' = "returned"
        /\ UNCHANGED <<sqlPlanAttempts, draftAttempts>>
    BY <1>9, RevisionsStay DEF Return, planVars, draftVars
  <2> QED
    BY <1>0, <2>1 DEF DraftsExplained
<1>10. CASE UNCHANGED workflowVars
  <2>1. /\ (ConclusionRevised' <=> ConclusionRevised) /\ (SqlRevisedAfter' <=> SqlRevisedAfter)
        /\ UNCHANGED <<node, sqlPlanAttempts, draftAttempts>>
    BY <1>10, RevisionsStay DEF workflowVars, planVars, draftVars
  <2> QED
    BY <2>1 DEF DraftsExplained
<1> QED
  BY <1>2, <1>3, <1>4, <1>5, <1>7, <1>8, <1>9, <1>10 DEF Next, Execute

LEMMA DraftsInit == Init => DraftsExplained
<1> SUFFICES ASSUME Init PROVE DraftsExplained
  OBVIOUS
<1>1. DOMAIN trace = {} /\ draftAttempts = 0
  BY Nothing DEF Init
<1>2. ~ConclusionRevised /\ ~SqlRevisedAfter
  BY <1>1 DEF ConclusionRevised, SqlRevisedAfter
<1> QED
  BY <1>1, <1>2 DEF DraftsExplained

\* What a returned run with one revision of each kind has in its counters.
LEMMA ReturnedDrafts ==
    ASSUME RevisionLimit = 1, IInv, DraftsExplained, node = "returned"
    PROVE  /\ draftAttempts \in 1 .. 3 /\ sqlPlanAttempts \in 1 .. 2
           /\ sqlRevisions = sqlPlanAttempts - 1 /\ conclusionRevisions = draftAttempts - 1
           /\ ThirdDraft <=> draftAttempts = 3
<1>1. /\ draftAttempts \in Nat /\ sqlPlanAttempts \in Nat
      /\ 1 <= draftAttempts /\ 1 <= sqlPlanAttempts /\ sqlPlanAttempts <= 2
      /\ draftAttempts <= 3
      /\ sqlRevisions = sqlPlanAttempts - 1 /\ conclusionRevisions = draftAttempts - 1
  BY DEF IInv, TypeOK, Budget
<1>2. SqlRevisedAfter <=> draftAttempts = 3
  BY <1>1 DEF DraftsExplained
<1>3. SqlRevisedAfter <=> ThirdDraft
  BY DEF SqlRevisedAfter, ThirdDraft, WentOn, Granted
<1> QED
  BY <1>1, <1>2, <1>3

\* The counts in the report are natural numbers.
LEMMA CountsNatural ==
    ASSUME Layers
    PROVE  evidence \in Nat /\ ReportRows(rowCounts) \in Nat
<1> DEFINE S == {rowCounts[k] : k \in DOMAIN rowCounts} \cup {0}
<1>1. rowCounts \in Seq(0 .. MaxMatching) /\ MaxMatching \in Nat /\ evidence \in Nat
  BY BoundsAssumption DEF Layers, BoundsInv, Quantified, BoundsTypeOK
<1>2. S \in SUBSET (0 .. MaxMatching) /\ S # {}
  <2>1. \A k \in DOMAIN rowCounts : rowCounts[k] \in 0 .. MaxMatching
    BY <1>1
  <2> QED
    BY <1>1, <2>1
<1>3. Greatest(S) \in S
  <2> HIDE DEF S
  <2> QED
    BY <1>1, <1>2, GreatestOfBounded
<1>4. \A n \in S : n \in Nat
  BY <1>1, <1>2
<1> QED
  BY <1>1, <1>3, <1>4 DEF ReportRows

\* The report of a returned run fits its schema, but for the history with a third
\* draft (schemas.py:273-283, routes.py:350-359, agent_workflow.py:260-267).
THEOREM RunReportFitsSchema ==
    ASSUME RevisionLimit = 1
    PROVE  EvaluationSpec => []ReportFitsSchema
<1>1. EvaluationInit => DraftsExplained
  BY DraftsInit DEF EvaluationInit, BoundsInit
<1>2. Layers /\ DraftsExplained /\ [EvaluationNext]_evaluationVars => DraftsExplained'
  BY DraftsStep, RolesImplementBounds, BoundsImplementWorkflow DEF Layers
<1>3. Layers /\ DraftsExplained => ReportFitsSchema
  <2> SUFFICES ASSUME Layers, DraftsExplained, node = "returned"
               PROVE  FitsSchema(ReportContext) <=> ~ThirdDraft
    BY DEF ReportFitsSchema
  <2>1. /\ draftAttempts \in 1 .. 3 /\ sqlPlanAttempts \in 1 .. 2
        /\ sqlRevisions = sqlPlanAttempts - 1 /\ conclusionRevisions = draftAttempts - 1
        /\ ThirdDraft <=> draftAttempts = 3
    BY ReturnedDrafts DEF Layers
  <2>2. ReportSqlRevisions = sqlRevisions /\ ReportConclusionRevisions = conclusionRevisions
    BY LedgerCounts DEF Layers, ReportCountersAgree
  <2>3. /\ ReportContext.evidenceCount \in Nat /\ ReportContext.queryRowCount \in Nat
        /\ ReportContext.sqlRevisions = sqlRevisions
        /\ ReportContext.conclusionRevisions = conclusionRevisions
    BY <2>2, CountsNatural DEF ReportContext
  <2> QED
    BY <2>1, <2>3 DEF FitsSchema
<1> QED
  BY <1>1, <1>2, <1>3, RunInvariance, PTL DEF EvaluationSpec

\* The model is called a bounded number of times, and more often than the evaluation
\* publishes in the history with a third draft only, where revisions have the limit of
\* the code; an outage costs a fixed number of calls and limits the run, and the fake
\* says that it limits one (llm_advisor.py:84-130, fake_llm.py:10-35, agent_workflow.py:260-267).
THEOREM RunCallsByProvider == EvaluationSpec => []CallsByProvider
<1> DEFINE DraftsKnown == RevisionLimit = 1 => DraftsExplained
<1>0. EvaluationInit => CallsInv /\ DraftsKnown
  BY CallsInit, DraftsInit DEF EvaluationInit, BoundsInit
<1>1. Layers /\ CallsInv /\ DraftsKnown /\ [EvaluationNext]_evaluationVars => (CallsInv /\ DraftsKnown)'
  <2> SUFFICES ASSUME Layers, CallsInv, DraftsKnown, [EvaluationNext]_evaluationVars
               PROVE  CallsInv' /\ DraftsKnown'
    OBVIOUS
  <2>1. CallsCounted'
    BY CallsStep, RolesImplementBounds, BoundsImplementWorkflow DEF CallsInv
  <2>2. provider' = provider
    BY DEF EvaluationNext, evaluationVars
  <2>3. OutagePath'
    BY <2>2, OutageStep DEF CallsInv, OutagePath
  <2>4. FakePath'
    BY <2>2, FakeStep DEF CallsInv, FakePath
  <2>5. DraftsKnown'
    BY DraftsStep, RolesImplementBounds, BoundsImplementWorkflow DEF Layers
  <2> QED
    BY <2>1, <2>3, <2>4, <2>5 DEF CallsInv
<1>2. Layers /\ CallsInv /\ DraftsKnown => CallsByProvider
  <2> SUFFICES ASSUME Layers, CallsInv, DraftsKnown PROVE CallsByProvider
    OBVIOUS
  <2>1. /\ RevisionLimit \in Nat /\ sqlPlanAttempts \in Nat /\ draftAttempts \in Nat
        /\ sqlPlanAttempts <= RevisionLimit + 1 /\ draftAttempts <= 2 * RevisionLimit + 1
        /\ RunsOf("plan_sql") = sqlPlanAttempts /\ RunsOf("draft_analysis") = draftAttempts
        /\ RunsOf("review") = IF node = "review" THEN draftAttempts - 1 ELSE draftAttempts
    BY BudgetBounds, LimitAssumption
       DEF Layers, IInv, TypeOK, Ledger, WorkBounded, CallsInv, CallsCounted
  <2>2. ModelCalls = sqlPlanAttempts + draftAttempts
                        + (IF node = "review" THEN draftAttempts - 1 ELSE draftAttempts)
    BY <2>1 DEF ModelCalls
  <2>3. ModelCalls <= 5 * RevisionLimit + 3
    BY <2>1, <2>2
  <2>4. ASSUME provider = "down"
        PROVE  /\ node # "raised"
               /\ node = "returned" => ModelCalls = RevisionLimit + 3 /\ result.status = "limited"
    <3>1. OneDraft /\ (node = "returned" =>
                          sqlPlanAttempts = RevisionLimit + 1 /\ result.status = "limited")
      BY <2>4 DEF CallsInv, OutagePath
    <3>2. node = "returned" => draftAttempts = 1
      BY <3>1 DEF OneDraft
    <3>3. node = "returned" => ModelCalls = RevisionLimit + 3
      BY <2>1, <2>2, <3>1, <3>2
    <3> QED
      BY <3>1, <3>3 DEF OneDraft
  <2>5. ASSUME provider = "fake"
        PROVE  /\ node # "raised" /\ ModelCalls <= RevisionLimit + 3
               /\ node = "returned" => (result.status = "limited" <=> result.revisionRefused)
    <3>1. OneDraft /\ (node = "returned" => (result.status = "limited" <=> result.revisionRefused))
      BY <2>5 DEF CallsInv, FakePath
    <3>2. draftAttempts <= 1 /\ node # "raised"
      BY <2>1, <3>1 DEF OneDraft
    <3> QED
      BY <2>1, <2>2, <3>1, <3>2
  <2>6. ASSUME RevisionLimit = 1, node = "returned"
        PROVE  ModelCalls > PublishedCallBound <=> ThirdDraft
    <3>1. /\ draftAttempts \in 1 .. 3 /\ sqlPlanAttempts \in 1 .. 2
          /\ ThirdDraft <=> draftAttempts = 3
      BY <2>6, ReturnedDrafts DEF Layers
    <3>2. ModelCalls = sqlPlanAttempts + 2 * draftAttempts
      BY <2>2, <2>6, <3>1
    <3>3. ModelCalls > 6 <=> draftAttempts = 3
      BY <3>1, <3>2
    <3> QED
      BY <3>1, <3>3 DEF PublishedCallBound
  <2> QED
    BY <2>3, <2>4, <2>5, <2>6 DEF CallsByProvider
<1> QED
  BY <1>0, <1>1, <1>2, RunInvariance, PTL DEF EvaluationSpec

\* A result has no more rows than the setting allows.
LEMMA ResultBoundedStep ==
    ASSUME Layers, resultRows <= maxRows, [BoundsNext]_<<workflowVars, quantities>>
    PROVE  resultRows' <= maxRows'
<1>1. resultRows \in Nat /\ maxRows \in Nat
  BY BoundsAssumption DEF Layers, BoundsInv, Quantified, BoundsTypeOK
<1>2. CASE QueryRuns
  <2>1. PICK matching \in 0 .. MaxMatching :
          resultRows' = Fetched(matching, BoundLimit(clause, maxRows), maxRows) /\ UNCHANGED maxRows
    BY <1>2 DEF QueryRuns
  <2>2. resultRows' \in Nat
    BY <1>2, RunStep, BoundsAssumption DEF Layers, BoundsInv, Quantified, BoundsTypeOK
  <2> QED
    BY <1>1, <2>1, <2>2 DEF Fetched, Least
<1>3. CASE SearchEnds \/ PlanEnds \/ DraftEnds \/ RunEnds
  BY <1>3 DEF SearchEnds, PlanEnds, DraftEnds, RunEnds, quantities
<1>4. CASE QueryRefused \/ QueryFails
  BY <1>1, <1>4 DEF QueryRefused, QueryFails, NoRows, quantities
<1>5. CASE UNCHANGED <<workflowVars, quantities>>
  BY <1>5 DEF quantities
<1> QED
  BY <1>2, <1>3, <1>4, <1>5 DEF BoundsNext

\* The observables tell nothing but what the graph did: the path, the review and the
\* status always hold, the revision bounds fail with the third draft only, and the
\* context bounds only where the settings let a query return more rows than the
\* model is shown (evaluation.py:114-136, agent_context.py:130-148).
THEOREM RunObservablesMeasureTheGraph ==
    ASSUME RevisionLimit = 1
    PROVE  EvaluationSpec => []ObservablesMeasureTheGraph
<1> DEFINE Measured == DraftsExplained /\ CallsCounted /\ PathInv /\ resultRows <= maxRows
<1>1. EvaluationInit => Measured
  <2> SUFFICES ASSUME EvaluationInit PROVE Measured
    OBVIOUS
  <2>1. resultRows = 0 /\ maxRows \in Nat
    BY BoundsAssumption DEF EvaluationInit, BoundsInit
  <2> QED
    BY <2>1, DraftsInit, PathInit, CallsInit DEF EvaluationInit, BoundsInit, CallsInv
<1>2. Layers /\ Measured /\ [EvaluationNext]_evaluationVars => Measured'
  <2> SUFFICES ASSUME Layers, Measured, [EvaluationNext]_evaluationVars PROVE Measured'
    OBVIOUS
  <2>1. [BoundsNext]_<<workflowVars, quantities>> /\ [Next]_workflowVars
    BY RolesImplementBounds, BoundsImplementWorkflow
  <2>2. DraftsExplained' /\ PathInv'
    BY <2>1, DraftsStep, PathStep DEF Layers
  <2>3. CallsCounted'
    BY <2>1, CallsStep
  <2>4. (resultRows <= maxRows)'
    BY <2>1, ResultBoundedStep
  <2> QED
    BY <2>2, <2>3, <2>4
<1>3. Layers /\ Measured => ObservablesMeasureTheGraph
  <2> SUFFICES ASSUME Layers, Measured
               PROVE  ObservablesMeasureTheGraph
    OBVIOUS
  <2>1. FixedRolePath
    BY PathOfRun DEF Layers
  <2>2. ASSUME node = "returned"
        PROVE  /\ Observables.fixedRolePath /\ Observables.reviewed /\ Observables.statusAgrees
               /\ Observables.revisionBounds <=> ~ThirdDraft
               /\ Observables.contextBounds <=> resultRows <= ContextRows
               /\ ~Observables.contextBounds => maxRows > ContextRows /\ prompt.shown = ContextRows
    <3>1. /\ draftAttempts \in 1 .. 3 /\ sqlPlanAttempts \in 1 .. 2
          /\ sqlRevisions = sqlPlanAttempts - 1 /\ conclusionRevisions = draftAttempts - 1
          /\ ThirdDraft <=> draftAttempts = 3
      BY <2>2, ReturnedDrafts DEF Layers
    <3>2. /\ resultRows \in Nat /\ maxRows \in Nat /\ evidence \in 0 .. SearchLimit
          /\ ContextRows \in Nat /\ EvidenceItems \in Nat /\ SearchLimit \in Nat
          /\ EvidenceItems >= SearchLimit
      BY BoundsAssumption DEF Layers, BoundsInv, Quantified, BoundsTypeOK
    <3>a. /\ Observables.fixedRolePath = (Nodes \subseteq {trace[i].node : i \in DOMAIN trace})
          /\ Observables.reviewed = (RunsOf("review") > 0)
          /\ Observables.revisionBounds = (sqlRevisions <= 1 /\ conclusionRevisions <= 1)
          /\ Observables.statusAgrees = ((result.status = "completed") = (queryResult # 0))
          /\ Observables.contextBounds =
                 (Snapshot.evidence <= EvidenceItems /\ Snapshot.rows <= ContextRows)
      BY DEF Observables
    <3>3. Nodes \subseteq {trace[i].node : i \in DOMAIN trace}
      BY <2>1, <2>2 DEF FixedRolePath
    <3>4. RunsOf("review") > 0
      BY <2>2, <3>1 DEF CallsCounted
    <3>5. (result.status = "completed") = (queryResult # 0)
      BY <2>2 DEF Layers, IInv, StatusTellsResult
    <3>6. (sqlRevisions <= 1 /\ conclusionRevisions <= 1) <=> ~ThirdDraft
      BY <3>1
    <3>7. (Snapshot.evidence <= EvidenceItems /\ Snapshot.rows <= ContextRows) <=> resultRows <= ContextRows
      BY <3>2 DEF Snapshot
    <3>8. resultRows > ContextRows => maxRows > ContextRows /\ prompt.shown = ContextRows
      <4>1. prompt.shown = Least(resultRows, ContextRows)
        BY <2>2 DEF Layers, BoundsInv, ContextTellsResult
      <4> QED
        BY <3>2, <4>1 DEF Least
    <3>9. resultRows <= ContextRows \/ resultRows > ContextRows
      BY <3>2
    <3> QED
      BY <3>a, <3>3, <3>4, <3>5, <3>6, <3>7, <3>8, <3>9, Zenon
  <2> QED
    BY <2>1, <2>2 DEF ObservablesMeasureTheGraph
<1> QED
  BY <1>1, <1>2, <1>3, RunInvariance, PTL DEF EvaluationSpec
=============================================================================
