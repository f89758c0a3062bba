\* Executions that wait and are resumed, one of which is stopped, at any moment.
SPECIFICATION Spec
CONSTANTS
    Execution = {e1, e2}
    WithResponse = {}
    Outcome = {"success"}
    Limit = 1
    MaxRuns = 3
    MaxStops = 1
    MaxRestarts = 0
    MaxTroubles = 1
    CanWait = TRUE
    TimesOut = {}
    SavesProgress = {e1, e2}
SYMMETRY Symmetry
VIEW NoHistory
PROPERTIES
    ImplementsQueue
    StopHolds
CHECK_DEADLOCK FALSE
