SPECIFICATION Spec
CONSTANTS
    Period <- ProgramPeriod
    Wcet <- ProgramWcet
    Tasks = {"ThermalControl", "DataCompression", "HealthMonitoring", "AntennaAlignment"}
    Slice = 5
    Poll = 1
    RunDuration = 1700
    PromptFrom = 0
    Overrun = 1000
PROPERTIES
    CpuTimeIsActiveTime
CHECK_DEADLOCK FALSE
