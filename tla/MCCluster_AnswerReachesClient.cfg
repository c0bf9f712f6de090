\* Two instances and a Redis that never fails.
CONSTANTS
    i1 = i1
    i2 = i2
    r1 = r1
    r2 = r2
    g1 = g1
    g2 = g2
    g3 = g3
    NoRequest = NoRequest
    Instances = {i1, i2}
    Requests = {r1, r2}
    Undecodable = {}
    Home <- MCHome
    Goroutines = {g1, g2, g3}
    On <- MCOn
    Faults = FALSE
    MaxRepeats = 0
    MaxCrashes = 0
SPECIFICATION Spec
SYMMETRY Symmetry
\* The system may be idle for ever once both requests are over.
CHECK_DEADLOCK FALSE
INVARIANTS
    AnswerReachesClient
