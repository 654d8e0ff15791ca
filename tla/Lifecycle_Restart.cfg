\* One run, one restart, no other fault.
CONSTANTS
    Runs = {r1}
    Streams = {s1}
    Signals <- MCSignals
    MaxEventsPerRun = 2
    MaxTrackedRuns = 1
    MaxEmissions = 1
    DbFaults = FALSE
    MaxCrashes = 1
SPECIFICATION FairSpec
CHECK_DEADLOCK FALSE
PROPERTIES
    SubscriberAnsweredAfterRestart
