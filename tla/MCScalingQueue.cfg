\* One execution, whose job may stall once before it fails, two workers, and three
\* troubles; other executions appear as jobs that keep the queue from being empty.
SPECIFICATION FairSpec
CONSTANTS
    Execution = {e1}
    Worker = {w1, w2}
    SavesProgress = {e1}
    MaxStalled = 1
    MaxTroubles = 3
INVARIANTS
    TypeOK
    RunsOnce
PROPERTIES
    StopHolds
    NothingLeft
CHECK_DEADLOCK FALSE
