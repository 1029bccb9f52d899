SPECIFICATION FairSpec
CONSTANTS
    Sensors = {"Thermal", "Power"}
    MaxReadings = 3
    Capacity = 2
    TcpCapacity = 1
    UdpCapacity = 1
    MaxBatch = 2
    ConnectTimeout = 1
    VisibilityDeadline = 0
    VisibilityPeriod = 2
    HeartbeatPeriod = 2
    RunDuration = 2
    Overrun = 0
INVARIANTS
    TypeOK
    PacketsAccounted
    WireInOrder
    ConnectedFlagIsTrue
PROPERTIES
    LoopTerminates
    ImplementsTelemetryLink
CHECK_DEADLOCK FALSE
