SPECIFICATION FairSpec
CONSTANTS
    n1 = n1
    n2 = n2
    Nodes <- MCNodes
    Setups <- MCRestart
    MaxVer = 3
    MaxVM = 3
CHECK_DEADLOCK FALSE
PROPERTIES
    AdoptedBecomesReady
