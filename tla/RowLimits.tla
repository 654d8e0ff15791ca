------------------------------ MODULE RowLimits ------------------------------
(***************************************************************************)
(* The LIMIT of a statement and what _bound_limit (sql_safety.py) makes of *)
(* it: part of the SQL gate, and what the bounds of a query rest on.       *)
(***************************************************************************)
EXTENDS Naturals

CONSTANT MaxClause   \* bound of the model: integer in a LIMIT clause

ASSUME MaxClauseAssumption == MaxClause \in Nat

Least(a, b) == IF a < b THEN a ELSE b

\* The LIMIT of a SELECT as the parser hands it over: none, one whose own node
\* carries an OFFSET, one that is no integer literal, or an integer.  A parser that
\* keeps the OFFSET beside the LIMIT shows _bound_limit an integer, and the OFFSET
\* is not refused; sqlglot 29, which is pinned, seems to do so.
Clauses ==
    {[kind |-> kind, value |-> 0] : kind \in {"none", "offset", "expression"}}
        \cup {[kind |-> "integer", value |-> n] : n \in 0 .. MaxClause}

NoClause == [kind |-> "none", value |-> 0]

\* Mutant: refuses a limit above the bound instead of lowering it.
LimitAcceptedWithin(limit, bound) ==
    limit.kind = "none" \/ (limit.kind = "integer" /\ limit.value \in 1 .. bound)

\* _bound_limit raises no SQLSafetyError.
LimitAccepted(limit, bound) ==
    limit.kind = "none" \/ (limit.kind = "integer" /\ limit.value >= 1)

\* The LIMIT _bound_limit leaves in the statement.
BoundLimit(limit, bound) ==
    IF limit.kind = "none" \/ limit.value > bound THEN bound ELSE limit.value
=============================================================================
