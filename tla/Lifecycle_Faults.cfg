\* A store with one place for two runs, so either evicts the other, together with
\* failing commits and one restart.
CONSTANTS
    Runs = {r1, r2}
    Streams = {s1}
    Signals <- MCSignals
    MaxEventsPerRun = 2
    MaxTrackedRuns = 1
    MaxEmissions = 2
    DbFaults = TRUE
    MaxCrashes = 1
SPECIFICATION Spec
CHECK_DEADLOCK FALSE
SYMMETRY LifecycleSymmetry
INVARIANTS
    TypeOK
    FramesInOrder
    OneTerminalFrame
    SuccessIsDurable
PROPERTIES
    SettledOnce
