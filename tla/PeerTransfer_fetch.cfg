CONSTANTS
    MaxSize = 3
    Tunings <- MCTunings
    MaxRestores = 2
    MaxRestarts = 1
    Faults = {"seek", "peer", "stall", "corrupt", "disk"}
SPECIFICATION FairSpec
INVARIANTS
    TypeOK
    PlanIsSound
    StagedIsWanted
    NoStagingLeak

    
CHECK_DEADLOCK FALSE
