CONSTANTS
    None = None
    Erased = Erased
    Idle = Idle
    Failed = Failed
    Absent = Absent
    Torn = Torn
    Threads = {h1}
    Concurrent = FALSE
    MaxVersions = 2
    MaxWrites = 3
    MaxRestarts = 1

SPECIFICATION Spec

INVARIANTS
    TypeOK
    ReadReturnsWritten
    WritesPreserved
    DestroyedIsErased
