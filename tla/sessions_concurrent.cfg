CONSTANTS
    None = None
    Idle = Idle
    Threads = {h1, h2}
    Concurrent = TRUE
    Housekeeping = TRUE
    TokenTTLs <- MCTokenTTLs
    UseLimits <- MCUseLimits
    LeaseTTLs <- MCLeaseTTLs
    Paths = {p1}
    DefaultTTL = 1
    MaxTTL = 2
    MaxTokens = 2
    MaxLeases = 1
    MaxTime = 2

SPECIFICATION Spec

INVARIANTS
    UseCountBounded
    RevokedForever
    LeaseWithinMax

PROPERTIES
    ExpiredForGood
    LeaseNeverRevives

CHECK_DEADLOCK FALSE
