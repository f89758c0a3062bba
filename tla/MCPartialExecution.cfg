\* Every workflow of five nodes with a subset of the eleven connections of MCLinks,
\* a and b disabled or not, b pinned or not, and all run data.
SPECIFICATION Spec
CONSTANTS
    Names <- MCNames
    Trigger = "t"
    Destination = "d"
    Loops <- MCLoops
    Links <- MCLinks
    MayDisable = {"a", "b"}
    MayPin = {"b"}
INVARIANTS
    TypeOK
    AssertionsHold
    StartsAreFirst
    StackSound
PROPERTIES
    WaysKept
CHECK_DEADLOCK FALSE
