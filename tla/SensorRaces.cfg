SPECIFICATION Spec
CONSTANTS
    Sensors = {"Thermal"}
    Capacity = 1
    FaultInterval = 3
    RunDuration = 14
    Overrun = 1
    Prompt = {"injector"}
INVARIANTS
    AlertsMatchLosses
    AbortIffSlow
PROPERTIES
    RecoveryIsFinal
CHECK_DEADLOCK FALSE
VIEW WithoutLateness
