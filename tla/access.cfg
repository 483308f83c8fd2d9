CONSTANTS
    Contents = {"allow", "deny"}
    Genesis = Genesis
    MaxEntries = 3
    MaxLoads = 1
    Absent = Absent
    Star = Star
    StarStar = StarStar
    Idle = Idle
    Patterns <- MCPatterns
    Paths <- MCPaths
    Names <- MCNames
    Callers <- MCCallers
    PutRules <- MCPutRules
    Requests <- MCRequests
    Others <- MCOthers

SPECIFICATION AccessSpec

INVARIANTS
    TypeOK
    TamperEvident
    AccessTypeOK
    ActsAllowed
    DenialJustified
    GrantsAsDocumented
    

PROPERTY LogKeepsVerdict
