\* One run whose commits may fail.
CONSTANTS
    Runs = {r1}
    Streams = {s1}
    Signals <- MCSignals
    MaxEventsPerRun = 2
    MaxTrackedRuns = 1
    MaxEmissions = 1
    DbFaults = TRUE
    MaxCrashes = 0
SPECIFICATION Spec
CHECK_DEADLOCK FALSE
INVARIANTS
    FinalStatusAvailable
