\* A producer and an instance on a Redis that fails; a push is sent twice at most.
CONSTANTS
    Ids = {x1, x2, x3}
    Producers = {p1}
    Consumers = {c1}
    MaxSize = 1
    NoItem = NoItem
    Faults = TRUE
    MaxRetries = 1
    MaxRepeats = 1
SPECIFICATION FairSpec
INVARIANTS
    TypeOK
    OverrunBound
    CopiesOnlyByRepeats
    KeyHasExpiry
PROPERTIES
    EventuallyLeaves
