\* Two calls on a bucket of three tokens: readings in whole seconds of two ticks,
\* clocks ahead by a tick, keys that expire as soon as the bucket must be full
\* again, and one command that is sent twice.
CONSTANTS
    Calls = {c1, c2}
    Costs = {0, 1, 3}
    BucketSize = 3
    Unit = 1
    Rate = 1
    Second = 2
    Ahead = 1
    Lag = 1
    Expiry = 5
    MaxRepeats = 1
    MaxTime = 5
SPECIFICATION Spec
SYMMETRY Symmetry
\* The clock stops at MaxTime.
CHECK_DEADLOCK FALSE
INVARIANTS
    TypeOK
    DebtBounded
    AnswersPaid
    ClosedOnce
    StrandedOnlyByError
PROPERTIES
    ImplementsRateLimit
    RefusalJustified
