--------------------------- MODULE GateEvaluation ---------------------------
(***************************************************************************)
(* scripts/evaluate_sql_safety.py: the fixed candidates go through the     *)
(* gate one after the other, each with the verdict the set expects of it;  *)
(* the report is written when all were judged.  The set is a file, so any  *)
(* statements in any order, expected to pass or not.                       *)
(***************************************************************************)
EXTENDS SqlGate

CONSTANTS
    Statements,   \* the candidates a case may hold
    Bounds,       \* values of max_rows: the default and the settings
    DefaultRows,  \* max_rows when the caller gives none; 200 in the code
    MaxCases      \* bound of the model: cases in the set

ASSUME EvaluationAssumption ==
    /\ Bounds \subseteq Nat \ {0} /\ DefaultRows \in Bounds
    /\ MaxCases \in Nat
    /\ Statements \subseteq StatementRecords

VARIABLES
    phase,     \* "running", "written" or "raised"
    judged,    \* the statements so far, with their verdicts
    passed     \* how many got the verdict the set expects

gateVars == <<phase, judged, passed>>

GateInit == phase = "running" /\ judged = <<>> /\ passed = 0

OutcomeOf(s) == Verdict(s, DefaultRows)

JudgeCase ==
    /\ phase = "running" /\ Len(judged) < MaxCases
    /\ \E s \in Statements, allowed \in BOOLEAN :
        LET verdict == OutcomeOf(s) IN
        /\ verdict # "escapes"
        /\ judged' = Append(judged, [statement |-> s, verdict |-> verdict])
        /\ passed' = IF allowed = (verdict = "accepted") THEN passed + 1 ELSE passed
    /\ UNCHANGED phase

\* What is no SQLSafetyError ends the script; nothing is written.
CaseEscapes ==
    /\ phase = "running" /\ Len(judged) < MaxCases
    /\ \E s \in Statements : OutcomeOf(s) = "escapes"
    /\ phase' = "raised"
    /\ UNCHANGED <<judged, passed>>

\* main: the exit status says whether passed is the total.
WriteReport ==
    /\ phase = "running" /\ phase' = "written"
    /\ UNCHANGED <<judged, passed>>

GateNext == JudgeCase \/ CaseEscapes \/ WriteReport

GateSpec == GateInit /\ [][GateNext]_gateVars

-----------------------------------------------------------------------------

\* The reference for names, README.md:85 "a column allow-list": what the name means
\* to MySQL is a label of the statement or one table's listed column.
NameFits(s, column) == MeansLabel(s, column) \/ DenotesAllowed(s, column)

\* A name that the gate lets pass as a label (sql_safety.py:92-93) although where it
\* stands MySQL takes it for something else: a column that is not listed, one of
\* several tables, or none at all.
MistakenForLabel(s, column) ==
    column.qualifier = "" /\ column.name \in s.labels /\ ~NameFits(s, column)

\* The gate compares names, through two dictionaries it builds on the way; the
\* database resolves them in its own way.  Where they differ is exactly this: every
\* name of an accepted statement is, to MySQL, a label or a listed column of one
\* table, or else is mistaken for a label, and the allow-list of README.md:85 does
\* not hold of it; and no statement is refused for any of these
\* (sql_safety.py:60-103).
VerdictFollowsTheDatabase ==
    \A i \in DOMAIN judged :
        LET s == judged[i].statement
            passes == \A column \in ColumnsOf(s) : NameFits(s, column) \/ MistakenForLabel(s, column)
        IN  /\ judged[i].verdict = "accepted" => passes
            /\ (/\ s.text = "plain" /\ s.parsed = "select" /\ s.parts = {} /\ s.calls = {}
                /\ s.limit.kind = "none" /\ TablesAccepted(s) /\ passes)
               => judged[i].verdict = "accepted"

\* The workflow's pass and the executor's decide alike whatever the bound of the
\* settings; what is executed would pass again, unchanged, and asks for no more
\* rows than that bound and its own LIMIT allow (agent_workflow.py:198-205,
\* readonly_query.py:77, sql_safety.py:137-151).
SecondPassAgrees ==
    \A i \in DOMAIN judged : \A bound \in Bounds :
        LET s == judged[i].statement
            t == ValidatedStatement(s, bound)
        IN  /\ Verdict(s, bound) = judged[i].verdict
            /\ judged[i].verdict = "accepted" =>
                  /\ Verdict(t, bound) = "accepted" /\ ValidatedStatement(t, bound) = t
                  /\ t.limit.value <= bound
                  /\ s.limit.kind = "integer" => t.limit.value <= s.limit.value

\* Durations are those of one table: the columns of an accepted TIMESTAMPDIFF are,
\* to MySQL too, timestamps of the same table, although the gate looks each up by
\* its alias (sql_safety.py:106-126).
DurationsOfOneTable ==
    \A i \in DOMAIN judged :
        LET s == judged[i].statement
        IN  judged[i].verdict = "accepted" =>
                \A call \in s.calls : \E t \in DOMAIN TimeColumns : \A k \in 1 .. 2 :
                    call.args[k].kind = "column" =>
                        /\ call.args[k].column.name \in TimeColumns[t]
                        /\ {item.table : item \in Denoted(s, call.args[k].column)} = {t}
=============================================================================
