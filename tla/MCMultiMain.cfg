\* Two mains, one execution that waits; a connection that is lost, a crash and
\* a shutdown, at any moment.
SPECIFICATION FairSpec
CONSTANTS
    Main = {m1, m2}
    Execution = {e1}
    Unstable = {m1}
    Ttl = 2
    MaxPipe = 1
    MaxResumes = 1
    MaxCuts = 1
    MaxCrashes = 1
    MaxStops = 1
INVARIANTS
    TypeOK
    LeadershipSound
    ResumedOnce
PROPERTIES
    LeaderServes
CHECK_DEADLOCK FALSE
