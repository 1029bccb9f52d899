SPECIFICATION Spec
CONSTANTS
    IdealPeriod = 3
    ReadTime = 1
    ReadSpread = 1
    MaxFloat = 1000
    MaxSample = 4
    MaxCycles = 4
INVARIANTS
    StatsSound
    DriftMatchesSamples
    JitterFromDrift
CHECK_DEADLOCK FALSE
