\* Two calls on a bucket of one token, with clocks that agree: what limiter.go says
\* of the nil of Wait.
CONSTANTS
    Calls = {c1, c2}
    Costs = {1}
    BucketSize = 1
    Unit = 1
    Rate = 1
    Second = 1
    Ahead = 0
    Lag = 0
    Expiry = 5
    MaxRepeats = 0
    MaxTime = 5
SPECIFICATION Spec
SYMMETRY Symmetry
\* The clock stops at MaxTime.
CHECK_DEADLOCK FALSE
INVARIANTS
    NilMeansConsumed
