-------------------------- MODULE MCGateEvaluation --------------------------
(* Two tables, one of them without timestamps, a table that is not listed, and *)
(* statements that differ in one respect at a time or in their names.          *)
EXTENDS GateEvaluation

MCColumns ==
    [t \in {"tickets", "events"} |->
        IF t = "tickets" THEN {"id", "status", "created_at", "title"} ELSE {"id", "occurred_at", "note"}]

MCAllowedColumns ==
    [t \in {"tickets", "events"} |->
        IF t = "tickets" THEN {"id", "status", "created_at"} ELSE {"id", "occurred_at"}]

MCTimeColumns == [t \in {"tickets"} |-> {"created_at"}]

Item(table, alias) == [table |-> table, alias |-> alias, db |-> FALSE]

Items ==
    {Item("tickets", "tickets"), Item("tickets", "a"), Item("events", "events"),
     Item("events", "a"), Item("tickets", "events"), Item("users", "users"),
     [table |-> "tickets", alias |-> "tickets", db |-> TRUE]}

Froms == {<<>>} \cup {<<i>> : i \in Items} \cup {<<i, j>> : i, j \in Items}

Refs ==
    [qualifier : {"", "tickets", "events", "a"}, name : {"id", "status", "created_at", "title"},
     clause : {"rows", "groups", "order"}]

Selected(qualifier, name) == [qualifier |-> qualifier, name |-> name, clause |-> "rows"]

Plain ==
    [text |-> "plain", parsed |-> "select", parts |-> {}, from |-> <<Item("tickets", "tickets")>>,
     labels |-> {}, columns |-> {Selected("", "id")}, calls |-> {}, limit |-> NoClause]

Shapes ==
    {[Plain EXCEPT !.text = text, !.parsed = parsed, !.parts = parts, !.limit = limit] :
        text \in {"plain", "empty", "flagged"},
        parsed \in {"select", "other", "syntax error", "token error"},
        parts \in {{}} \cup {{p} : p \in RefusedParts}, limit \in Clauses}

Namings ==
    {[Plain EXCEPT !.from = from, !.columns = columns, !.labels = labels] :
        from \in Froms, columns \in {{}} \cup {{ref} : ref \in Refs}, labels \in {{}, {"status"}, {"title"}}}

Fixed(kind) == [kind |-> kind, column |-> Selected("", "id")]

Arguments ==
    {Fixed("timestamp"), Fixed("number")} \cup
    {[kind |-> "column", column |-> Selected(q, n)] :
        q \in {"", "tickets", "a"}, n \in {"created_at", "id"}}

Durations ==
    {[Plain EXCEPT !.from = from, !.calls = {[unit |-> unit, args |-> <<a, b>>]}] :
        from \in {f \in Froms : Len(f) = 2 /\ ~f[1].db /\ ~f[2].db}, unit \in {"HOUR", "SECOND"},
        a \in Arguments, b \in Arguments}

MCStatements == Shapes \cup Namings \cup Durations
=============================================================================
