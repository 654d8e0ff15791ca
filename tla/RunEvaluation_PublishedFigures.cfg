\* The constants of RunEvaluation.cfg.
CONSTANTS
    RevisionLimit = 1
    GateRows = 2
    SettingsRows = {1, 3}
    ContextRows = 1
    EvidenceItems = 2
    SearchLimit = 1
    SearchCap = 3
    MaxMatching = 3
    MaxClause = 4
SPECIFICATION EvaluationSpec
CHECK_DEADLOCK FALSE
INVARIANTS
    PublishedFiguresHold
