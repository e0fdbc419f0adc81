CONSTANTS
    Setups <- MCSetups
    MaxUID = 2
    MaxRestarts = 2
    Faults = {"patch", "clone", "remove", "orphan", "guest", "lease", "verb", "registry", "slow"}
SPECIFICATION FairSpec
INVARIANTS
    TypeOK
    FixupBeforeReady
    VMIsKnown
PROPERTIES
    
    PodSettles
CHECK_DEADLOCK FALSE
