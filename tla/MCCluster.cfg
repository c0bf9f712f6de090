\* Two instances, the first with two slots, on a Redis that fails: two
\* pushes are sent again, an instance crashes once, and one of the requests cannot
\* be decoded.
CONSTANTS
    i1 = i1
    i2 = i2
    r1 = r1
    r2 = r2
    g1 = g1
    g2 = g2
    g3 = g3
    NoRequest = NoRequest
    Instances = {i1, i2}
    Requests = {r1, r2}
    Undecodable = {r2}
    Home <- MCHome
    Goroutines = {g1, g2, g3}
    On <- MCOn
    Faults = TRUE
    MaxRepeats = 2
    MaxCrashes = 1
SPECIFICATION Spec
SYMMETRY Symmetry
\* The system may be idle for ever once both requests are over.
CHECK_DEADLOCK FALSE
INVARIANTS
    TypeOK
    CallsWithinPushes
    AbandonedOnlyIfAstray
    BlockedOnlyIfCopied
