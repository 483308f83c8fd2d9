CONSTANTS
    None = None
    Ids <- MCIds

SPECIFICATION Spec

INVARIANTS
    TypeOK
    RevokesReached
    CountsRevoked

PROPERTY
    Terminates

\* the walk is over when nothing is pending
CHECK_DEADLOCK FALSE
