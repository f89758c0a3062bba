\* A restart while an execution waits.
SPECIFICATION Spec
CONSTANTS
    Execution = {e1}
    MaxBoots = 1
    MaxWaits = 1
    CanStop = FALSE
PROPERTIES
    WaitingNotCrashed
CHECK_DEADLOCK FALSE
