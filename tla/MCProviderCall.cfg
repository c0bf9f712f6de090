\* A Duration of 4 bits: the fourth pause, of 1 * 2^3, overflows.
CONSTANTS
    openai = openai
    anthropic = anthropic
    broken = broken
    unknown = unknown
    m1 = m1
    m2 = m2
    Empty = Empty
    Providers <- MCProviders
    DefaultProvider = openai
    DefaultModel = m1
    Models <- MCModels
    RequestTimeout <- MCRequestTimeout
    MaxRetries <- MCMaxRetries
    MinBackoff <- MCMinBackoff
    MaxBackoff <- MCMaxBackoff
    ValidURL = {openai, anthropic}
    Timeout <- MCTimeout
    Requests <- MCRequests
    Statuses = {200, 429, 400}
    Modulus = 16
SPECIFICATION Spec
CHECK_DEADLOCK FALSE
INVARIANTS
    TypeOK
    ReturnsInTime
    AttemptsJustified
    PacedUntilOverflow
