\* Three runs compete for two places; a deque of two overflows at three emissions and is renumbered at four.
CONSTANTS
    Runs = {r1, r2, r3}
    MaxEventsPerRun = 2
    MaxTrackedRuns = 2
    MaxEmissions = 4
    Signals <- MCSignals
SPECIFICATION StoreSpec
SYMMETRY RunSymmetry
INVARIANTS
    StoreTypeOK
    MemoryBounded
    TailIsWindow
PROPERTIES
    EmitDropsOnlyOldest
