SPECIFICATION FairSpec
CONSTANTS
    Period <- SmallPeriod
    Wcet <- SmallWcet
    Tasks = {"ThermalControl", "DataCompression"}
    Slice = 1
    Poll = 1
    RunDuration = 4
    PromptFrom = 5
    Overrun = 10
INVARIANTS
    TypeOK
    OneSliceUnderThermal
    LateFinishDelaysNext
PROPERTIES
    AllTasksEnd
CHECK_DEADLOCK FALSE
