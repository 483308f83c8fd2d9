CONSTANTS
    None = None
    Idle = Idle
    Threads = {h1, h2}
    Concurrent = TRUE
    Housekeeping = FALSE
    TokenTTLs <- MCTokenTTLs
    UseLimits <- MCUseLimits
    LeaseTTLs <- MCLeaseTTLs
    Paths = {p1}
    DefaultTTL = 1
    MaxTTL = 2
    MaxTokens = 3
    MaxLeases = 1
    MaxTime = 2

SPECIFICATION Spec

INVARIANT CascadeRevocation

CHECK_DEADLOCK FALSE
