\* Three requests, two slots and a queue of two: r1 is refused for ever, r2 can be
\* granted, r3 cannot be decoded.
CONSTANTS
    r1 = r1
    r2 = r2
    r3 = r3
    NoRequest = NoRequest
    Requests = {r1, r2, r3}
    Undecodable = {r3}
    Cost <- OneTooCostly
    Goroutines = {g1, g2}
    MaxConcurrent = 2
    MaxSize = 2
    BucketSize = 1
    Rate = 1
SPECIFICATION Spec
SYMMETRY Symmetry
INVARIANTS
    TypeOK
    NoSilentLoss
    LeakOnlyIfDropped
    SendNeverBlocks
    SingleHome
    SlotAccounting
    ChannelFound
PROPERTIES
    OvertakenOnlyIfRefused
