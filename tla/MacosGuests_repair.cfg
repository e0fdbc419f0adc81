SPECIFICATION FairSpec
CONSTANTS
    Keys = {a}
    MaxUID = 2
    MaxCrashes = 1
    MaxPort = 1
    MaxRestarts = 1
    Faults = {"launch", "remove", "record", "inspect", "reinspect"}
INVARIANTS
    TypeOK
    NoGuestIsLost
PROPERTIES
    
    GuestGoesWithPod
CHECK_DEADLOCK FALSE
