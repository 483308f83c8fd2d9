CONSTANTS
    None = None
    Erased = Erased
    Idle = Idle
    Failed = Failed
    Absent = Absent
    Torn = Torn
    Threads = {h1, h2}
    Concurrent = TRUE
    MaxVersions = 2
    MaxWrites = 3
    MaxRestarts = 0

SPECIFICATION Spec

INVARIANT WritesPreserved
