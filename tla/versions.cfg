CONSTANTS
    None = None
    Erased = Erased
    NotFound = NotFound
    Data <- MCData
    MaxVersions = 2
    MaxWrites = 5

SPECIFICATION Spec

INVARIANTS
    TypeOK
    NumberedInOrder
    DataKeptOrErased

PROPERTY
    KeepsPromise
