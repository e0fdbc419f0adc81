SPECIFICATION FairSpec
CONSTANTS
    MaxUID = 2
    MaxVM = 2
    MaxNew = 3
    FaultSets = {{"start", "remove", "boot", "delete", "stream"},
                 {"inspect", "start", "remove", "boot", "delete", "early", "stream", "loss"},
                 {"inspect", "start", "remove", "boot", "delete", "early", "hibernate"}}
INVARIANTS
    TypeOK
    TablesAgree
    ClaimIsExclusive
    NoVMIsLost
PROPERTIES
    EvictedHasNoVM
    GoneIsEvicted
CHECK_DEADLOCK FALSE
