------------------------------- MODULE SqlGate -------------------------------
(***************************************************************************)
(* validate_readonly_select (app/services/sql_safety.py) on statements as  *)
(* sqlglot presents them: whether the text parses and into what, which     *)
(* parts the SELECT has, its tables, columns, functions and LIMIT.  Names  *)
(* are lower case: the gate lowers each before it compares.                *)
(***************************************************************************)
EXTENDS RowLimits, Sequences, FiniteSets

CONSTANTS
    Columns,          \* table of the database -> its columns (models.py)
    AllowedColumns,   \* ALLOWED_COLUMNS: table -> the columns a candidate may name
    TimeColumns       \* TIMESTAMPDIFF_TIME_COLUMNS: table -> its timestamps

\* No withheld column of a table has the name of one that another table offers.
ASSUME ColumnsAssumption ==
    /\ DOMAIN AllowedColumns \subseteq DOMAIN Columns
    /\ \A t \in DOMAIN AllowedColumns :
          /\ AllowedColumns[t] \subseteq Columns[t]
          /\ \A other \in DOMAIN AllowedColumns :
                (Columns[t] \ AllowedColumns[t]) \cap AllowedColumns[other] = {}
    /\ DOMAIN TimeColumns \subseteq DOMAIN AllowedColumns /\ DOMAIN TimeColumns # {}
    /\ \A t \in DOMAIN TimeColumns : TimeColumns[t] \subseteq AllowedColumns[t]

\* The clauses and literals that are refused wherever they stand, and the
\* stars and calls that are refused but for those the lists name.
RefusedParts == {"with", "subquery", "into", "locks", "personal data", "bare star", "other call"}

\* A statement: its text, what the parser makes of it, its parts, its FROM items
\* <<[table, alias, db], ...>> (alias is the name the item is known by), the
\* aliases of its select list, its columns {[qualifier, name, clause], ...}, its
\* TIMESTAMPDIFF calls {[unit, args], ...} and its LIMIT.  Qualifier "" is none.
\* The clause is where the name stands: "order" for ORDER BY, "groups" for GROUP BY
\* and HAVING, "rows" for the rest.  The gate does not look at it.
FromItems(s) == {s.from[i] : i \in DOMAIN s.from}

ColumnRefs == [qualifier : STRING, name : STRING, clause : {"rows", "groups", "order"}]

\* What the gate can be given.
StatementRecords ==
    [text    : {"plain", "empty", "flagged"},
     parsed  : {"select", "other", "syntax error", "token error"},
     parts   : SUBSET RefusedParts,
     from    : Seq([table : STRING, alias : STRING, db : BOOLEAN]),
     labels  : SUBSET STRING,
     columns : SUBSET ColumnRefs,
     calls   : SUBSET [unit : STRING, args : Seq([kind : {"column", "timestamp", "number"}, column : ColumnRefs])],
     limit   : [kind : {"none", "offset", "expression", "integer"}, value : Nat]]

\* A column among the arguments of a call is a column of the statement.
ColumnsOf(s) ==
    s.columns \cup
    UNION {{call.args[i].column : i \in {j \in 1 .. 2 : call.args[j].kind = "column"}} : call \in s.calls}

-----------------------------------------------------------------------------

FromTables(s) == {item.table : item \in FromItems(s)}

\* aliases[alias] of _validate_tables, as a set: what the items called so read from.
Aliased(s, alias) == {item.table : item \in {i \in FromItems(s) : i.alias = alias}}

\* _validate_tables raises nothing.
TablesAccepted(s) ==
    /\ s.from # <<>>
    /\ \A item \in FromItems(s) : ~item.db /\ item.table \in DOMAIN AllowedColumns
    /\ \A item, other \in FromItems(s) : item.alias = other.alias => item.table = other.table

\* Mutant: an unqualified name is fine when any table offers it.
ColumnAcceptedAnywhere(s, column) ==
    \/ column.qualifier = "" /\ column.name \in s.labels
    \/ \E t \in IF column.qualifier = "" THEN FromTables(s) ELSE Aliased(s, column.qualifier) :
          column.name \in AllowedColumns[t]

\* _validate_columns passes the column.
ColumnAccepted(s, column) ==
    IF column.qualifier # ""
    THEN \E t \in Aliased(s, column.qualifier) : column.name \in AllowedColumns[t]
    ELSE \/ column.name \in s.labels
         \/ Cardinality({t \in FromTables(s) : column.name \in AllowedColumns[t]}) = 1

\* Mutant: any listed column of any table will do.
ArgumentAcceptedListed(s, argument) ==
    \/ argument.kind = "timestamp"
    \/ /\ argument.kind = "column" /\ argument.column.qualifier # ""
       /\ \E t \in Aliased(s, argument.column.qualifier) : argument.column.name \in AllowedColumns[t]

\* _validate_timestampdiff: an argument is a column, a fixed timestamp or anything else.
ArgumentAccepted(s, argument) ==
    \/ argument.kind = "timestamp"
    \/ /\ argument.kind = "column" /\ argument.column.qualifier # ""
       /\ \E t \in Aliased(s, argument.column.qualifier) :
             t \in DOMAIN TimeColumns /\ argument.column.name \in TimeColumns[t]

\* argument_tables of _validate_timestampdiff.
ArgumentTables(s, call) ==
    UNION {Aliased(s, call.args[i].column.qualifier) : i \in {j \in 1 .. 2 : call.args[j].kind = "column"}}

CallAccepted(s, call) ==
    /\ call.unit \in {"MINUTE", "HOUR", "DAY"}
    /\ \A i \in 1 .. 2 : ArgumentAccepted(s, call.args[i])
    /\ \A t, u \in ArgumentTables(s, call) : t = u

\* Mutant: the bound is a condition.
VerdictWithin(s, bound) ==
    IF s.text # "plain" THEN "refused"
    ELSE IF s.parsed = "token error" THEN "escapes"
    ELSE IF /\ s.parsed = "select" /\ s.parts \cap RefusedParts = {}
            /\ TablesAccepted(s)
            /\ \A column \in ColumnsOf(s) : ColumnAccepted(s, column)
            /\ \A call \in s.calls : CallAccepted(s, call)
            /\ LimitAcceptedWithin(s.limit, bound)
         THEN "accepted" ELSE "refused"

(***************************************************************************)
(* The outcome of the whole function.  The text (empty or over-long, a     *)
(* comment, a high-risk word) is refused before it is parsed; an error of  *)
(* the tokenizer is no ParseError and escapes as it is; whatever check     *)
(* fails first, the others make no difference.                             *)
(***************************************************************************)
Verdict(s, bound) ==
    IF s.text # "plain" THEN "refused"
    ELSE IF s.parsed = "token error" THEN "escapes"
    ELSE IF /\ s.parsed = "select" /\ s.parts \cap RefusedParts = {}
            /\ TablesAccepted(s)
            /\ \A column \in ColumnsOf(s) : ColumnAccepted(s, column)
            /\ \A call \in s.calls : CallAccepted(s, call)
            /\ LimitAccepted(s.limit, bound)
         THEN "accepted" ELSE "refused"

\* ValidatedSQL.sql: the statement with its LIMIT bounded.
ValidatedStatement(s, bound) ==
    [s EXCEPT !.limit = [kind |-> "integer", value |-> BoundLimit(s.limit, bound)]]

-----------------------------------------------------------------------------
(* What MySQL makes of a name: the FROM items it can belong to.            *)

Denoted(s, column) ==
    {item \in FromItems(s) :
        /\ column.name \in Columns[item.table]
        /\ column.qualifier # "" => item.alias = column.qualifier}

\* The name is that of a label.  ORDER BY tries the labels first, GROUP BY and HAVING
\* after the columns of the FROM items, the other clauses not at all.
MeansLabel(s, column) ==
    /\ column.qualifier = "" /\ column.name \in s.labels
    /\ \/ column.clause = "order"
       \/ column.clause = "groups" /\ Denoted(s, column) = {}

\* The name belongs to one table, which offers it.
DenotesAllowed(s, column) ==
    \E t \in DOMAIN AllowedColumns :
        /\ column.name \in AllowedColumns[t]
        /\ {item.table : item \in Denoted(s, column)} = {t}
=============================================================================
