\* Three items through a queue of two.
CONSTANTS
    Ids = {x1, x2, x3}
    MaxSize = 2
SPECIFICATION FairSpec
INVARIANTS
    TypeOK
    NoLostWakeup
    LeakPerItem
PROPERTIES
    EventuallyTaken
