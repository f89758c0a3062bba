\* Five executions for two slots: up to three wait, so that cancelling the
\* first, a middle and the last one differ.
SPECIFICATION FairSpec
CONSTANTS
    Execution = {e1, e2, e3, e4, e5}
    Limit = 2
INVARIANTS
    TypeOK
    SlotsExact
PROPERTIES
    FifoRelease
    EventuallyAdmitted
    ImplementsContract
CHECK_DEADLOCK FALSE
