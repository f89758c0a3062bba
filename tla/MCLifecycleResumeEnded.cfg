\* A resumed execution waits in the queue across a poll.
SPECIFICATION Spec
CONSTANTS
    Execution = {e1, e2}
    WithResponse = {}
    Outcome = {"success", "error"}
    Limit = 1
    MaxRuns = 3
    MaxStops = 0
    MaxRestarts = 0
    MaxTroubles = 0
    CanWait = TRUE
    TimesOut = {}
    SavesProgress = {}
PROPERTIES
    SucceededNotRestarted
CHECK_DEADLOCK FALSE
