\* Two requests contend for the one slot of an external runner, or one request
\* meets the process of the broker that is killed and started again.
SPECIFICATION FairSpec
CONSTANTS
    Request = {q1, q2}
    Runner = {r1, r2}
    Fleets <- MCLiveFleets
    MaxParties = 3
    MaxTask = 2
    MaxOffer = 2
    MaxLate = 1
PROPERTIES
    RequestAnswered
    TasksEnd
CHECK_DEADLOCK FALSE
