SPECIFICATION Spec
CONSTANTS
    MaxUID = 1
    MaxVM = 1
    MaxNew = 2
    FaultSets = {{"hibernate", "stream"}}
PROPERTY HibernatedIsKept
CHECK_DEADLOCK FALSE
