SPECIFICATION Spec
CONSTANTS
    Sensors = {"Thermal", "Power", "Attitude"}
    Capacity = 4
    FaultInterval = 20
    RunDuration = 100
    Overrun = 10
    Prompt = {"Thermal", "Power", "Attitude", "injector", "downlink"}
INVARIANTS
    StallWithinRecoveryWindow
CHECK_DEADLOCK FALSE
