\* One slot, a request that needs the whole bucket (r2) and a cheap one (r1) that
\* takes tokens away from it.
CONSTANTS
    r1 = r1
    r2 = r2
    r3 = r3
    NoRequest = NoRequest
    Requests = {r1, r2}
    Undecodable = {}
    Cost <- MixedCosts
    Goroutines = {g1}
    MaxConcurrent = 1
    MaxSize = 2
    BucketSize = 2
    Rate = 1
SPECIFICATION FairSpec
PROPERTIES
    PatientClientServed
