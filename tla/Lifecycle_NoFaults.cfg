\* The database answers and the process lives; a tail holds all events of a run,
\* but the two runs still compete for the one place of the store.
CONSTANTS
    Runs = {r1, r2}
    Streams = {s1}
    Signals <- MCSignals
    MaxEventsPerRun = 4
    MaxTrackedRuns = 1
    MaxEmissions = 3
    DbFaults = FALSE
    MaxCrashes = 0
SPECIFICATION FairSpec
CHECK_DEADLOCK FALSE
INVARIANTS
    FailureIsDurable
    RunningRowHasJob
    GaplessUntilTerminal
PROPERTIES
    RunsSettle
    StreamsEnd
