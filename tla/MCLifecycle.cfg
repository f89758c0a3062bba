\* Two executions contend for one slot, with three troubles between them: each
\* execution may be stopped once, the process shut down or killed twice (one that was
\* found enqueued can be left enqueued again). One execution may time out and saves its
\* progress after each node.
SPECIFICATION FairSpec
CONSTANTS
    Execution = {e1, e2}
    WithResponse = {e1}
    Outcome = {"success"}
    Limit = 1
    MaxRuns = 1
    MaxStops = 1
    MaxRestarts = 2
    MaxTroubles = 3
    CanWait = FALSE
    TimesOut = {e1}
    SavesProgress = {e1}
INVARIANTS
    TypeOK
    SlotsReturned
    StartsBounded
PROPERTIES
    NothingStuck
    StopHolds
CHECK_DEADLOCK FALSE
