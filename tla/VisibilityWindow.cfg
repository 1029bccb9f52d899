SPECIFICATION Spec
CONSTANTS
    Sensors = {"Thermal"}
    MaxReadings = 1
    Capacity = 1
    TcpCapacity = 1
    UdpCapacity = 1
    MaxBatch = 1
    ConnectTimeout = 1
    VisibilityDeadline = 1
    VisibilityPeriod = 2
    HeartbeatPeriod = 2
    RunDuration = 7
    Overrun = 0
PROPERTIES
    EveryWindowServedOrMissed
CHECK_DEADLOCK FALSE
