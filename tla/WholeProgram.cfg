SPECIFICATION SystemFairSpec
CONSTANTS
    Sensors = {"Thermal", "Power", "Attitude"}
    Capacity = 4
    FaultInterval = 10
    RunDuration = 50
    Overrun = 10
    Prompt = {"Thermal", "Power", "Attitude", "injector", "downlink"}
    MaxBatch = 1
INVARIANTS
    SystemTypeOK
    CountersMatchLogs
    RecoveryBound
    OneNanPerFault
    StallDelaysOneReading
    SampledEveryPeriod
    OnlyLastReadingsStranded
    DeadDownlinkRaisesAlerts
    ReportsAgree
PROPERTIES
    ProgramEnds
CHECK_DEADLOCK FALSE
