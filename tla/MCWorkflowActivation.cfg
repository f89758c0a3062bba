\* A workflow of five shapes that two users update or delete while it is
\* activated, retried and removed, with two faults of its nodes.
SPECIFICATION FairSpec
CONSTANTS
    Shapes <- MCShapes
    MaxUses = 2
    MaxFaults = 2
    MaxCalls = 2
INVARIANTS
    TypeOK
    ActiveAsSaved
    NothingStray
PROPERTIES
    Activates
CHECK_DEADLOCK FALSE
