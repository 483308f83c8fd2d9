CONSTANTS
    None = None
    Idle = Idle
    Threads = {h1}
    Concurrent = FALSE
    Housekeeping = FALSE
    TokenTTLs <- MCTokenTTLs
    UseLimits <- MCUseLimits
    LeaseTTLs <- MCLeaseTTLs
    Paths = {p1}
    DefaultTTL = 1
    MaxTTL = 2
    MaxTokens = 3
    MaxLeases = 1
    MaxTime = 2

SPECIFICATION Spec

INVARIANT LeasesFollowTokens

CHECK_DEADLOCK FALSE
