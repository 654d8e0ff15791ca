\* One case: the gate keeps nothing between two of them.
CONSTANTS
    MaxClause = 4
    Columns <- MCColumns
    AllowedColumns <- MCAllowedColumns
    TimeColumns <- MCTimeColumns
    Statements <- MCStatements
    Bounds = {1, 2, 3}
    DefaultRows = 2
    MaxCases = 1
SPECIFICATION GateSpec
CHECK_DEADLOCK FALSE
INVARIANTS
    VerdictFollowsTheDatabase
    SecondPassAgrees
    DurationsOfOneTable
