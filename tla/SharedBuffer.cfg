SPECIFICATION Spec
CONSTANTS
    Capacity = 2
    MaxCycle = 3
INVARIANTS
    TypeOK
    EveryReadingAccounted
    DeliveredInOrder
PROPERTIES
    NoPriorityInversion
    KeepsTheBest
CHECK_DEADLOCK FALSE
