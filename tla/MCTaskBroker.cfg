\* Two requests and two runners of one slot, external, a launcher among them, or of
\* the broker itself, or one of two slots; runners crash, stop and answer late.
SPECIFICATION Spec
CONSTANTS
    Request = {q1, q2}
    Runner = {r1, r2}
    Fleets <- MCFleets
    MaxParties = 4
    MaxTask = 3
    MaxOffer = 3
    MaxLate = 1
SYMMETRY Symmetry
INVARIANTS
    TypeOK
    RequestsMatched
    TaskHasRequester
    RunnersBounded
    TasksAgree
CHECK_DEADLOCK FALSE
