CONSTANTS
    None = None
    Configs <- MCConfigs

SPECIFICATION CeremonySpec

INVARIANTS
    TypeOK
    SealCoherent
    NoStaleShare

PROPERTIES
    AllSharesRequired
    BelowTotalTakesCombined
    AllSharesUnseal
    CeremonySucceeds
