SPECIFICATION FairSpec
CONSTANTS
    a1 = a1
    a2 = a2
    Agents = {a1, a2}
    Setups <- MCSetups
INVARIANTS
    TypeOK
    ResultIsCurrent
    ProbedWhenBound
PROPERTY StatusConverges
CHECK_DEADLOCK FALSE
