SPECIFICATION Spec
CONSTANTS
    Keys = {a, b}
    MaxUID = 3
    MaxCrashes = 0
    MaxPort = 2
    MaxRestarts = 0
    Faults = {}
INVARIANT
    PortsUnique
CHECK_DEADLOCK FALSE
