------------------------ MODULE GateEvaluationProofs ------------------------
(***************************************************************************)
(* The gate against the database, for any tables, any lists of columns and *)
(* any statements: the names validate_readonly_select lets pass are those  *)
(* that MySQL resolves to a label or a listed column, and besides them     *)
(* those that the gate mistakes for a label, whichever bound it is given.  *)
(*                                                                         *)
(* The gate keeps nothing between two statements, so the invariant is only *)
(* that a verdict is the gate's (JudgedByGate); the work is in the lemmas  *)
(* about names.  They rest on ColumnsAssumption, which the two lists of    *)
(* the code and the models satisfy: without it an unqualified name could   *)
(* be listed in one table and withheld in another of the same statement.   *)
(***************************************************************************)
EXTENDS GateEvaluation, FiniteSetTheorems, TLAPS

\* What a case records is a statement of the set and the gate's verdict on it.
JudgedByGate ==
    /\ judged \in Seq([statement : Statements, verdict : {"accepted", "refused"}])
    /\ \A i \in DOMAIN judged : judged[i].verdict = OutcomeOf(judged[i].statement)

\* The tables whose columns a name can denote.
DenotedTables(s, column) == {item.table : item \in Denoted(s, column)}

-----------------------------------------------------------------------------
(* FROM items.                                                             *)

\* The items of a statement are finitely many, and so are their tables.
LEMMA FromTablesFinite ==
  ASSUME NEW s \in StatementRecords
  PROVE  IsFiniteSet(FromTables(s))
<1> DEFINE n == Len(s.from)
           f == [i \in 1 .. n |-> s.from[i].table]
<1>1. s.from \in Seq([table : STRING, alias : STRING, db : BOOLEAN])
  BY DEF StatementRecords
<1>2. n \in Nat /\ DOMAIN s.from = 1 .. n
  BY <1>1
<1>3. FromTables(s) = {s.from[i].table : i \in 1 .. n}
  BY <1>2 DEF FromTables, FromItems
<1>4. f \in Surjection(1 .. n, FromTables(s))
  BY <1>3 DEF Surjection
<1>5. IsFiniteSet(1 .. n)
  BY <1>2, FS_Interval
<1> HIDE DEF n, f
<1> QED
  BY <1>4, <1>5, FS_Surjection

\* An accepted statement calls no two tables the same.
LEMMA AliasesOfOneTable ==
  ASSUME NEW s, TablesAccepted(s), NEW alias, NEW t \in Aliased(s, alias)
  PROVE  /\ t \in DOMAIN AllowedColumns
         /\ \A u \in Aliased(s, alias) : u = t
  BY DEF Aliased, TablesAccepted

\* A qualified name denotes columns of the tables so called.
LEMMA QualifiedDenotes ==
  ASSUME NEW s, NEW column, column.qualifier # ""
  PROVE  DenotedTables(s, column)
            = {t \in Aliased(s, column.qualifier) : column.name \in Columns[t]}
  BY DEF DenotedTables, Denoted, Aliased

\* An unqualified name denotes columns of any table of the statement.
LEMMA UnqualifiedDenotes ==
  ASSUME NEW s, NEW column, column.qualifier = ""
  PROVE  DenotedTables(s, column) = {t \in FromTables(s) : column.name \in Columns[t]}
  BY DEF DenotedTables, Denoted, FromTables

-----------------------------------------------------------------------------
(* Names.                                                                  *)

\* A qualified name passes the gate exactly when MySQL takes it for a listed
\* column of one table.
LEMMA QualifiedAgrees ==
  ASSUME NEW s, TablesAccepted(s), NEW column, column.qualifier # ""
  PROVE  ColumnAccepted(s, column) <=> DenotesAllowed(s, column)
<1>1. ASSUME NEW t \in Aliased(s, column.qualifier), column.name \in AllowedColumns[t]
      PROVE  DenotesAllowed(s, column)
  <2>1. t \in DOMAIN AllowedColumns /\ \A u \in Aliased(s, column.qualifier) : u = t
    BY AliasesOfOneTable
  <2>2. column.name \in Columns[t]
    BY <1>1, <2>1, ColumnsAssumption
  <2>3. DenotedTables(s, column) = {t}
    BY <2>1, <2>2, QualifiedDenotes
  <2> QED
    BY <1>1, <2>1, <2>3 DEF DenotesAllowed, DenotedTables
<1>2. ASSUME NEW t, column.name \in AllowedColumns[t], DenotedTables(s, column) = {t}
      PROVE  ColumnAccepted(s, column)
  <2>1. t \in Aliased(s, column.qualifier)
    BY <1>2, QualifiedDenotes
  <2> QED
    BY <1>2, <2>1 DEF ColumnAccepted
<1> QED
  BY <1>1, <1>2 DEF ColumnAccepted, DenotesAllowed, DenotedTables

\* Nothing but the listed column can be meant by a name that some table lists.
LEMMA ListedMeansListed ==
  ASSUME NEW s, TablesAccepted(s), NEW name, NEW t \in FromTables(s), name \in AllowedColumns[t]
  PROVE  {u \in FromTables(s) : name \in Columns[u]} = {u \in FromTables(s) : name \in AllowedColumns[u]}
<1>1. FromTables(s) \subseteq DOMAIN AllowedColumns
  BY DEF TablesAccepted, FromTables
<1>2. \A u \in FromTables(s) : name \in Columns[u] <=> name \in AllowedColumns[u]
  BY <1>1, ColumnsAssumption
<1> QED
  BY <1>2

\* An unqualified name without the name of a label passes the gate exactly when MySQL
\* takes it for a listed column of one table.
LEMMA UnqualifiedAgrees ==
  ASSUME NEW s \in StatementRecords, TablesAccepted(s), NEW column, column.qualifier = ""
  PROVE  ColumnAccepted(s, column) <=> column.name \in s.labels \/ DenotesAllowed(s, column)
<1> DEFINE offering == {t \in FromTables(s) : column.name \in AllowedColumns[t]}
<1>1. ColumnAccepted(s, column) <=> column.name \in s.labels \/ Cardinality(offering) = 1
  BY DEF ColumnAccepted
<1>2. Cardinality(offering) = 1 <=> \E t : offering = {t}
  <2>1. IsFiniteSet(offering)
    BY FromTablesFinite, FS_Subset
  <2> HIDE DEF offering
  <2> QED
    BY <2>1, FS_Singleton
<1>3. ASSUME NEW t, offering = {t}
      PROVE  DenotesAllowed(s, column)
  <2>1. t \in FromTables(s) /\ column.name \in AllowedColumns[t]
    BY <1>3
  <2>2. DenotedTables(s, column) = {t}
    BY <1>3, <2>1, ListedMeansListed, UnqualifiedDenotes
  <2>3. t \in DOMAIN AllowedColumns
    BY <2>1 DEF TablesAccepted, FromTables
  <2> QED
    BY <2>1, <2>2, <2>3 DEF DenotesAllowed, DenotedTables
<1>4. ASSUME NEW t, column.name \in AllowedColumns[t], DenotedTables(s, column) = {t}
      PROVE  offering = {t}
  <2>1. t \in FromTables(s)
    BY <1>4, UnqualifiedDenotes
  <2> QED
    BY <1>4, <2>1, ListedMeansListed, UnqualifiedDenotes
<1> QED
  BY <1>1, <1>2, <1>3, <1>4 DEF DenotesAllowed, DenotedTables

\* The gate passes exactly the names that fit and those it mistakes for a label.
LEMMA NamesAgree ==
  ASSUME NEW s \in StatementRecords, TablesAccepted(s), NEW column
  PROVE  ColumnAccepted(s, column) <=> NameFits(s, column) \/ MistakenForLabel(s, column)
<1>1. CASE column.qualifier = ""
  BY <1>1, UnqualifiedAgrees DEF NameFits, MistakenForLabel, MeansLabel
<1>2. CASE column.qualifier # ""
  BY <1>2, QualifiedAgrees DEF NameFits, MistakenForLabel, MeansLabel
<1> QED
  BY <1>1, <1>2

-----------------------------------------------------------------------------
(* Verdicts.                                                               *)

\* What an accepted statement has passed.
LEMMA AcceptedPassed ==
  ASSUME NEW s, NEW bound, Verdict(s, bound) = "accepted"
  PROVE  /\ s.text = "plain" /\ s.parsed = "select" /\ s.parts \cap RefusedParts = {}
         /\ TablesAccepted(s) /\ \A column \in ColumnsOf(s) : ColumnAccepted(s, column)
         /\ \A call \in s.calls : CallAccepted(s, call)
         /\ LimitAccepted(s.limit, bound)
  BY DEF Verdict

\* The bound has no part in the verdict.
LEMMA BoundIsNoCondition ==
  ASSUME NEW s, NEW a, NEW b
  PROVE  Verdict(s, a) = Verdict(s, b)
  BY DEF Verdict, LimitAccepted

\* The LIMIT that the gate leaves in a statement it accepts.
LEMMA LimitLeft ==
  ASSUME NEW limit \in [kind : {"none", "offset", "expression", "integer"}, value : Nat],
         NEW bound \in Nat \ {0}, LimitAccepted(limit, bound)
  PROVE  /\ BoundLimit(limit, bound) \in 1 .. bound
         /\ limit.kind = "integer" => BoundLimit(limit, bound) <= limit.value
  BY DEF LimitAccepted, BoundLimit

\* The second pass finds what the first one left, and leaves it alone.
LEMMA ValidatedPassesAgain ==
  ASSUME NEW s \in StatementRecords, NEW bound \in Nat \ {0}, Verdict(s, bound) = "accepted"
  PROVE  LET t == ValidatedStatement(s, bound)
         IN  /\ Verdict(t, bound) = "accepted" /\ ValidatedStatement(t, bound) = t
             /\ t.limit.value <= bound
             /\ s.limit.kind = "integer" => t.limit.value <= s.limit.value
<1> DEFINE t == ValidatedStatement(s, bound)
           left == BoundLimit(s.limit, bound)
<1>1. LimitAccepted(s.limit, bound)
     /\ s.limit \in [kind : {"none", "offset", "expression", "integer"}, value : Nat]
  BY AcceptedPassed DEF StatementRecords
<1>2. left \in 1 .. bound /\ (s.limit.kind = "integer" => left <= s.limit.value)
  BY <1>1, LimitLeft
<1>3. t = [s EXCEPT !.limit = [kind |-> "integer", value |-> left]]
  BY DEF ValidatedStatement
<1> HIDE DEF left
<1>4. /\ t.text = s.text /\ t.parsed = s.parsed /\ t.parts = s.parts /\ t.from = s.from
      /\ t.labels = s.labels /\ t.columns = s.columns /\ t.calls = s.calls
      /\ t.limit = [kind |-> "integer", value |-> left]
  BY <1>3 DEF StatementRecords
<1> HIDE DEF t
<1>5. /\ FromItems(t) = FromItems(s) /\ FromTables(t) = FromTables(s)
      /\ TablesAccepted(t) <=> TablesAccepted(s)
      /\ ColumnsOf(t) = ColumnsOf(s)
      /\ \A alias : Aliased(t, alias) = Aliased(s, alias)
  BY <1>4 DEF FromItems, FromTables, TablesAccepted, ColumnsOf, Aliased
<1>6. \A column : ColumnAccepted(t, column) <=> ColumnAccepted(s, column)
  BY <1>4, <1>5 DEF ColumnAccepted
<1>7. \A call : CallAccepted(t, call) <=> CallAccepted(s, call)
  BY <1>5 DEF CallAccepted, ArgumentAccepted, ArgumentTables
<1>8. LimitAccepted(t.limit, bound) /\ BoundLimit(t.limit, bound) = left
  BY <1>2, <1>4 DEF LimitAccepted, BoundLimit
<1>9. Verdict(t, bound) = "accepted"
  BY <1>4, <1>5, <1>6, <1>7, <1>8, AcceptedPassed DEF Verdict
<1>10. ValidatedStatement(t, bound) = t
  BY <1>3, <1>8 DEF ValidatedStatement, StatementRecords
<1> QED
  BY <1>2, <1>4, <1>9, <1>10 DEF t

\* To MySQL, the columns of an accepted call are timestamps of one table.
LEMMA CallOfOneTable ==
  ASSUME NEW s \in StatementRecords, TablesAccepted(s), NEW call, CallAccepted(s, call)
  PROVE  \E t \in DOMAIN TimeColumns : \A k \in 1 .. 2 :
            call.args[k].kind = "column" =>
                /\ call.args[k].column.name \in TimeColumns[t]
                /\ {item.table : item \in Denoted(s, call.args[k].column)} = {t}
<1>1. ASSUME NEW k \in 1 .. 2, call.args[k].kind = "column"
      PROVE  \E t \in DOMAIN TimeColumns :
                /\ t \in ArgumentTables(s, call)
                /\ call.args[k].column.name \in TimeColumns[t]
                /\ DenotedTables(s, call.args[k].column) = {t}
  <2> DEFINE column == call.args[k].column
  <2>1. PICK t \in Aliased(s, column.qualifier) : t \in DOMAIN TimeColumns /\ column.name \in TimeColumns[t]
    BY <1>1 DEF CallAccepted, ArgumentAccepted
  <2>2. column.qualifier # ""
    BY <1>1 DEF CallAccepted, ArgumentAccepted
  <2>3. column.name \in Columns[t] /\ \A u \in Aliased(s, column.qualifier) : u = t
    BY <2>1, AliasesOfOneTable, ColumnsAssumption
  <2>4. DenotedTables(s, column) = {t}
    BY <2>1, <2>2, <2>3, QualifiedDenotes
  <2>5. t \in ArgumentTables(s, call)
    BY <1>1, <2>1 DEF ArgumentTables
  <2> QED
    BY <2>1, <2>4, <2>5
<1>2. \A t, u \in ArgumentTables(s, call) : t = u
  BY DEF CallAccepted
<1>3. CASE \E k \in 1 .. 2 : call.args[k].kind = "column"
  <2>1. PICK k \in 1 .. 2 : call.args[k].kind = "column"
    BY <1>3
  <2>2. PICK t \in DOMAIN TimeColumns : t \in ArgumentTables(s, call)
    BY <1>1, <2>1
  <2> WITNESS t \in DOMAIN TimeColumns
  <2> QED
    BY <1>1, <1>2, <2>2 DEF DenotedTables
<1>4. CASE ~ \E k \in 1 .. 2 : call.args[k].kind = "column"
  BY <1>4, ColumnsAssumption
<1> QED
  BY <1>3, <1>4

-----------------------------------------------------------------------------
(* The evaluation.                                                         *)

\* A judged case is a statement of the set, with the gate's verdict on it.
LEMMA JudgeKeeps ==
  ASSUME JudgedByGate, JudgeCase
  PROVE  JudgedByGate'
<1>1. PICK s \in Statements :
        /\ OutcomeOf(s) # "escapes"
        /\ judged' = Append(judged, [statement |-> s, verdict |-> OutcomeOf(s)])
  BY DEF JudgeCase
<1>2. OutcomeOf(s) \in {"accepted", "refused"}
  BY <1>1 DEF OutcomeOf, Verdict
<1> DEFINE case == [statement |-> s, verdict |-> OutcomeOf(s)]
           n == Len(judged)
<1>3. /\ case \in [statement : Statements, verdict : {"accepted", "refused"}]
      /\ case.statement = s /\ case.verdict = OutcomeOf(s)
  BY <1>2
<1>4. judged \in Seq([statement : Statements, verdict : {"accepted", "refused"}])
  BY DEF JudgedByGate
<1> HIDE DEF case
<1>5. judged' = Append(judged, case)
  BY <1>1 DEF case
<1>6. /\ judged' \in Seq([statement : Statements, verdict : {"accepted", "refused"}])
      /\ n \in Nat /\ DOMAIN judged = 1 .. n /\ DOMAIN judged' = 1 .. n + 1
      /\ judged'[n + 1] = case /\ \A i \in 1 .. n : judged'[i] = judged[i]
  BY <1>3, <1>4, <1>5
<1>7. ASSUME NEW i \in DOMAIN judged'
      PROVE  judged'[i].verdict = OutcomeOf(judged'[i].statement)
  <2>1. CASE i = n + 1
    BY <1>3, <1>6, <2>1
  <2>2. CASE i \in 1 .. n
    BY <1>6, <2>2 DEF JudgedByGate
  <2> QED
    BY <1>6, <1>7, <2>1, <2>2
<1> QED
  BY <1>6, <1>7 DEF JudgedByGate, OutcomeOf

\* The inductive invariant of the evaluation.
THEOREM GateInvariance == GateSpec => []JudgedByGate
<1>1. GateInit => JudgedByGate
  BY DEF GateInit, JudgedByGate
<1>2. JudgedByGate /\ [GateNext]_gateVars => JudgedByGate'
  <2> SUFFICES ASSUME JudgedByGate, [GateNext]_gateVars PROVE JudgedByGate'
    OBVIOUS
  <2>1. CASE JudgeCase
    BY <2>1, JudgeKeeps
  <2>2. CASE UNCHANGED judged
    BY <2>2 DEF JudgedByGate, OutcomeOf
  <2> QED
    BY <2>1, <2>2 DEF GateNext, CaseEscapes, WriteReport, gateVars
<1> QED
  BY <1>1, <1>2, PTL DEF GateSpec

\* What was judged was judged by the gate, on a statement it can be given.
LEMMA JudgedStatement ==
  ASSUME JudgedByGate, NEW i \in DOMAIN judged
  PROVE  /\ judged[i].statement \in StatementRecords
         /\ judged[i].verdict = Verdict(judged[i].statement, DefaultRows)
<1> DEFINE Judgements == [statement : Statements, verdict : {"accepted", "refused"}]
<1>1. judged[i].statement \in Statements
  <2>1. judged \in Seq(Judgements)
    BY DEF JudgedByGate
  <2> HIDE DEF Judgements
  <2>2. judged[i] \in Judgements
    BY <2>1
  <2> QED
    BY <2>2 DEF Judgements
<1>2. judged[i].verdict = OutcomeOf(judged[i].statement)
  BY DEF JudgedByGate
<1>3. judged[i].statement \in StatementRecords
  BY <1>1, EvaluationAssumption
<1> QED
  BY <1>2, <1>3 DEF OutcomeOf

\* Every name of an accepted statement means, to MySQL, a label of its own or a listed
\* column of one table, but for the names of labels that MySQL resolves to something
\* else where they stand: of those the theorem says nothing, they may be columns that
\* are not listed.  A statement with no other names is accepted where nothing else is
\* wrong.  For any tables and lists of columns that do not contradict each other
\* (sql_safety.py:60-103).
THEOREM GateFollowsTheDatabase == GateSpec => []VerdictFollowsTheDatabase
<1>1. JudgedByGate => VerdictFollowsTheDatabase
  <2> SUFFICES ASSUME JudgedByGate, NEW i \in DOMAIN judged
               PROVE  LET s == judged[i].statement
                          passes == \A column \in ColumnsOf(s) :
                                       NameFits(s, column) \/ MistakenForLabel(s, column)
                      IN  /\ judged[i].verdict = "accepted" => passes
                          /\ (/\ s.text = "plain" /\ s.parsed = "select" /\ s.parts = {} /\ s.calls = {}
                              /\ s.limit.kind = "none" /\ TablesAccepted(s) /\ passes)
                             => judged[i].verdict = "accepted"
    BY DEF VerdictFollowsTheDatabase
  <2> DEFINE s == judged[i].statement
             passes == \A column \in ColumnsOf(s) : NameFits(s, column) \/ MistakenForLabel(s, column)
  <2>1. s \in StatementRecords /\ judged[i].verdict = Verdict(s, DefaultRows)
    BY JudgedStatement
  <2> HIDE DEF s
  <2>2. ASSUME TablesAccepted(s)
        PROVE  passes <=> \A column \in ColumnsOf(s) : ColumnAccepted(s, column)
    BY <2>1, <2>2, NamesAgree
  <2> HIDE DEF passes
  <2>3. ASSUME judged[i].verdict = "accepted"
        PROVE  passes
    BY <2>1, <2>2, <2>3, AcceptedPassed
  <2>4. ASSUME s.text = "plain", s.parsed = "select", s.parts = {}, s.calls = {},
               s.limit.kind = "none", TablesAccepted(s), passes
        PROVE  judged[i].verdict = "accepted"
    BY <2>1, <2>2, <2>4 DEF Verdict, LimitAccepted
  <2> QED
    BY <2>3, <2>4 DEF s, passes
<1> QED
  BY <1>1, GateInvariance, PTL

\* The two passes of the gate decide alike whatever bounds they are given, and what
\* is executed stays within both (agent_workflow.py:198-205, readonly_query.py:77,
\* sql_safety.py:137-151).
THEOREM GateSecondPassAgrees == GateSpec => []SecondPassAgrees
<1>1. JudgedByGate => SecondPassAgrees
  <2> SUFFICES ASSUME JudgedByGate, NEW i \in DOMAIN judged, NEW bound \in Bounds
               PROVE  LET s == judged[i].statement
                          t == ValidatedStatement(s, bound)
                      IN  /\ Verdict(s, bound) = judged[i].verdict
                          /\ judged[i].verdict = "accepted" =>
                                /\ Verdict(t, bound) = "accepted" /\ ValidatedStatement(t, bound) = t
                                /\ t.limit.value <= bound
                                /\ s.limit.kind = "integer" => t.limit.value <= s.limit.value
    BY DEF SecondPassAgrees
  <2> DEFINE s == judged[i].statement
  <2>1. s \in StatementRecords /\ judged[i].verdict = Verdict(s, DefaultRows)
    BY JudgedStatement
  <2> HIDE DEF s
  <2>2. Verdict(s, bound) = judged[i].verdict
    BY <2>1, BoundIsNoCondition
  <2>3. bound \in Nat \ {0}
    BY EvaluationAssumption
  <2> QED
    BY <2>1, <2>2, <2>3, ValidatedPassesAgain DEF s
<1> QED
  BY <1>1, GateInvariance, PTL

\* The columns of an accepted TIMESTAMPDIFF are timestamps of one table, to MySQL
\* too, however many tables have timestamps (sql_safety.py:106-126).
THEOREM GateDurationsOfOneTable == GateSpec => []DurationsOfOneTable
<1>1. JudgedByGate => DurationsOfOneTable
  <2> SUFFICES ASSUME JudgedByGate, NEW i \in DOMAIN judged, judged[i].verdict = "accepted",
                      NEW call \in judged[i].statement.calls
               PROVE  \E t \in DOMAIN TimeColumns : \A k \in 1 .. 2 :
                         call.args[k].kind = "column" =>
                             /\ call.args[k].column.name \in TimeColumns[t]
                             /\ {item.table : item \in Denoted(judged[i].statement, call.args[k].column)} = {t}
    BY DEF DurationsOfOneTable
  <2> DEFINE s == judged[i].statement
  <2>1. s \in StatementRecords /\ Verdict(s, DefaultRows) = "accepted"
    BY JudgedStatement
  <2>2. TablesAccepted(s) /\ CallAccepted(s, call)
    BY <2>1, AcceptedPassed
  <2> HIDE DEF s
  <2> QED
    BY <2>1, <2>2, CallOfOneTable DEF s
<1> QED
  BY <1>1, GateInvariance, PTL
=============================================================================
