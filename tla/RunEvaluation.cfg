\* 1, 200, 50, 8, 5, 20 of the code in the same order, settings on both sides of the gate's bound.
CONSTANTS
    RevisionLimit = 1
    GateRows = 2
    SettingsRows = {1, 3}
    ContextRows = 1
    EvidenceItems = 2
    SearchLimit = 1
    SearchCap = 3
    MaxMatching = 3
    MaxClause = 4
SPECIFICATION EvaluationSpec
CHECK_DEADLOCK FALSE
INVARIANTS
    EvaluationTypeOK
    WorkBounded
    ReportCountersAgree
    ResultComesFromAudits
    ConclusionMatchesResult
    ProgressMatchesAudits
    ContextTellsResult
    ReportCountsResult
    CallsByProvider
    ReportFitsSchema
    ObservablesMeasureTheGraph
    SummaryAddsUp
PROPERTIES
    ImplementsContract
