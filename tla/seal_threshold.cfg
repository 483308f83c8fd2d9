CONSTANTS
    None = None
    Configs <- MCConfigs

SPECIFICATION CeremonySpec

PROPERTY
    ThresholdSharesUnseal
