\* Three calls of any kind on a bucket of two tokens, half a token per tick.
CONSTANTS
    Calls = {c1, c2, c3}
    Costs = {0, 1, 2}
    BucketSize = 2
    Unit = 2
    Rate = 1
    MaxTime = 4
SPECIFICATION Spec
SYMMETRY Symmetry
INVARIANTS
    TypeOK
    TotalBound
    WindowBound
    AnswersMatchCharges
    ClosedOnce
    StrandedUncharged
PROPERTIES
    ImplementsRateLimit
