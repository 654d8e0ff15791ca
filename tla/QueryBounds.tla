----------------------------- MODULE QueryBounds -----------------------------
(***************************************************************************)
(* The quantities of one workflow run: AgentWorkflow, and with each of its *)
(* steps what happens to the number of evidence items and of query rows    *)
(* between the search, the two passes of the SQL gate, the executor, the   *)
(* context of the model, the snapshot and the report.                      *)
(*                                                                         *)
(* The workflow passes a candidate through the gate with the gate's own    *)
(* bound and hands the same text to the executor, which passes it through  *)
(* the gate again with the bound of the settings (TICKETINSIGHT_SQL_MAX_   *)
(* ROWS).  Other requests change the tables between two queries.           *)
(***************************************************************************)
EXTENDS AgentWorkflow, RowLimits

CONSTANTS
    GateRows,       \* max_rows of validate_readonly_select; 200 in the code
    SettingsRows,   \* values of the setting sql_max_rows
    ContextRows,    \* MAX_QUERY_ROWS; 50
    EvidenceItems,  \* MAX_EVIDENCE_ITEMS; 8
    SearchLimit,    \* default limit of search, which the workflow uses; 5
    SearchCap,      \* highest limit of search; 20
    MaxMatching     \* bound of the model: rows that match, points that match

ASSUME BoundsAssumption ==
    /\ GateRows \in Nat \ {0} /\ SettingsRows \subseteq Nat \ {0}
    /\ ContextRows \in Nat /\ MaxMatching \in Nat
    /\ SearchCap \in Nat /\ SearchLimit \in 1 .. SearchCap
    /\ EvidenceItems \in Nat /\ EvidenceItems >= SearchLimit

VARIABLES
    maxRows,      \* ReadonlyQueryExecutor.max_rows
    clause,       \* LIMIT clause of the candidate
    evidence,     \* len(state["evidence"])
    resultRows,   \* row_count of state["query_result"]; 0 when there is none
    rowCounts,    \* row_count of each audit; 0 for None
    prompt,       \* what the advisor was given last: [evidence, shown, counted]
    lastQuery     \* history: [clause, limit, matched, fetched] of the last query that ran

quantities == <<maxRows, clause, evidence, resultRows, rowCounts, prompt, lastQuery>>

Greatest(numbers) == CHOOSE n \in numbers : \A other \in numbers : other <= n

-----------------------------------------------------------------------------
(* The bounds.                                                             *)

\* The rows MySQL returns for the LIMIT, of which fetchmany(max_rows) takes.
Fetched(rows, limit, bound) == Least(Least(rows, limit), bound)

\* search: no more candidates than the limit, which is brought into 1 .. 20.
Found(points, limit) == Least(points, Least(IF limit < 1 THEN 1 ELSE limit, SearchCap))

\* Mutant: counts the rows that it shows.
AdvisorInputCut(items, rows) ==
    [evidence |-> Least(items, EvidenceItems),
     shown    |-> Least(rows, ContextRows),
     counted  |-> Least(rows, ContextRows)]

\* untrusted_evidence_payload and bounded_query_rows in the advisor's request.
AdvisorInput(items, rows) ==
    [evidence |-> Least(items, EvidenceItems),
     shown    |-> Least(rows, ContextRows),
     counted  |-> rows]

-----------------------------------------------------------------------------

BoundsInit ==
    /\ Init
    /\ maxRows \in SettingsRows
    /\ clause = NoClause
    /\ evidence = 0 /\ resultRows = 0 /\ rowCounts = <<>>
    /\ prompt = [evidence |-> 0, shown |-> 0, counted |-> 0]
    /\ lastQuery = [clause |-> NoClause, limit |-> 1, matched |-> 0, fetched |-> 0]

SearchEnds ==
    /\ \/ EvidenceRetrieved /\ \E points \in 0 .. MaxMatching :
              evidence' = Found(points, SearchLimit)
       \/ RetrievalUnavailable /\ evidence' = 0
    /\ UNCHANGED <<maxRows, clause, resultRows, rowCounts, prompt, lastQuery>>

\* The candidate's own LIMIT decides, or it is refused for another reason.
PlanEnds ==
    /\ \/ PlannerUnavailable /\ UNCHANGED clause
       \/ \E limit \in Clauses :
              /\ PlanProposed(IF LimitAccepted(limit, GateRows) THEN "safe" ELSE "unsafe")
              /\ clause' = limit
       \/ \E candidate \in Candidates \ {"safe"} : PlanProposed(candidate) /\ clause' = NoClause
    /\ UNCHANGED <<maxRows, evidence, resultRows, rowCounts, prompt, lastQuery>>

\* The attempt ends without an answer of the database.
NoRows ==
    /\ rowCounts' = Append(rowCounts, 0)
    /\ UNCHANGED <<maxRows, clause, evidence, prompt, lastQuery>>

QueryRefused ==
    \/ CandidateMissing /\ UNCHANGED resultRows /\ NoRows
    \/ CandidateRejected /\ resultRows' = 0 /\ NoRows
    \/ GateRaised /\ UNCHANGED quantities

\* The executor bounds the statement, runs it on the rows that match by then,
\* and fetches.
QueryRuns ==
    \E matching \in 0 .. MaxMatching :
    LET limit == BoundLimit(clause, maxRows)
        rows  == Fetched(matching, limit, maxRows)
    IN  /\ LimitAccepted(clause, maxRows)
        /\ QueryExecuted
        /\ resultRows' = rows
        /\ rowCounts' = Append(rowCounts, rows)
        /\ lastQuery' = [clause |-> clause, limit |-> limit, matched |-> matching, fetched |-> rows]
        /\ UNCHANGED <<maxRows, clause, evidence, prompt>>

\* The second pass through the gate refuses, or the database fails.
QueryFails ==
    /\ \E traceStatus \in {"blocked", "failed"} : QueryUnavailable(traceStatus)
    /\ resultRows' = 0
    /\ NoRows

\* The request to the model is built before the model answers or does not.
DraftEnds ==
    /\ DraftAnalysis
    /\ prompt' = AdvisorInput(evidence, resultRows)
    /\ UNCHANGED <<maxRows, clause, evidence, resultRows, rowCounts, lastQuery>>

RunEnds == (Review \/ Return) /\ UNCHANGED quantities

BoundsNext ==
    \/ SearchEnds \/ PlanEnds \/ QueryRefused \/ QueryRuns
    \/ QueryFails \/ DraftEnds \/ RunEnds

BoundsSpec == BoundsInit /\ [][BoundsNext]_<<workflowVars, quantities>>

-----------------------------------------------------------------------------

\* Mutant: takes the last attempt's count.
ReportRowsLast(counts) == IF counts = <<>> THEN 0 ELSE counts[Len(counts)]

\* query_row_count of _analysis_report.
ReportRows(counts) == Greatest({counts[k] : k \in DOMAIN counts} \cup {0})

-----------------------------------------------------------------------------

\* Type invariant of the quantities (agent_context.py:61-72, readonly_query.py:22-31).
BoundsTypeOK ==
    /\ maxRows \in SettingsRows /\ clause \in Clauses
    /\ evidence \in 0 .. SearchCap /\ resultRows \in 0 .. MaxMatching
    /\ rowCounts \in Seq(0 .. MaxMatching)
    /\ prompt \in [evidence : 0 .. EvidenceItems, shown : 0 .. ContextRows,
                   counted : 0 .. MaxMatching]
    /\ lastQuery \in [clause : Clauses, limit : Nat \ {0}, matched : 0 .. MaxMatching, fetched : 0 .. MaxMatching]

\* The workflow's pass and the executor's pass through the gate decide alike,
\* although their bounds differ: a candidate that was accepted is never refused
\* when it is executed (agent_workflow.py:198-205, readonly_query.py:77).
GatesAgree ==
    node = "execute_safe_sql" /\ sqlCandidate = "safe" => LimitAccepted(clause, maxRows)

\* MySQL is never asked for more rows than the setting allows or than the
\* candidate asked for (sql_safety.py:137-151).
BoundedOnServer ==
    /\ lastQuery.limit <= maxRows
    /\ lastQuery.clause.kind = "integer" => lastQuery.limit <= lastQuery.clause.value

\* A result with fewer rows than its LIMIT is complete: fetching cuts nothing that
\* the statement did not (readonly_query.py:85, 91).
ShortResultComplete ==
    lastQuery.fetched < lastQuery.limit => lastQuery.fetched = lastQuery.matched

\* The advisor is told the size of the very result the run returns, sees every
\* row and every evidence item that the context has room for, and no evidence
\* item that is counted is withheld (agent_context.py:95-127, llm_advisor.py:103-109).
ContextTellsResult ==
    node \in {"review", "END", "returned"} =>
        /\ prompt.counted = resultRows
        /\ prompt.shown = Least(resultRows, ContextRows)
        /\ prompt.evidence = evidence

\* The report's row count is read off the audits.  It is never below that of the
\* result the conclusion was drafted from, and only a superseded query explains a
\* higher one (routes.py:353, agent_context.py:143).
ReportCountsResult ==
    node = "returned" =>
        \/ ReportRows(rowCounts) = resultRows
        \/ /\ ReportRows(rowCounts) > resultRows
           /\ \E k \in DOMAIN sqlAudits : k # queryResult /\ sqlAudits[k].status = "executed"
=============================================================================
