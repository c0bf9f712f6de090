\* Two calls on a bucket of one token: what limiter.go says of the nil of Wait.
CONSTANTS
    Calls = {c1, c2}
    Costs = {1}
    BucketSize = 1
    Unit = 2
    Rate = 1
    MaxTime = 4
SPECIFICATION Spec
SYMMETRY Symmetry
INVARIANTS
    NilMeansConsumed
