\* Two executions that may be stopped, one of which may wait, three more starts of the
\* process, in both recovery modes.
SPECIFICATION FairSpec
CONSTANTS
    Execution = {e1, e2}
    MaxBoots = 3
    MaxWaits = 1
    CanStop = TRUE
INVARIANTS
    TypeOK
    OrphansExplained
    WaitingLostOnlyIfBroken
PROPERTIES
    RowsSettle
CHECK_DEADLOCK FALSE
