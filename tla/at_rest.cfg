SPECIFICATION Spec
CONSTANTS
    StoreKeys = {k1, k2}
    Plaintexts <- MCTexts
    MasterKeys <- MCMasterKeys
    DrawnToSave <- MCDrawnToSave
    DrawnToWrap <- MCDrawnToWrap
    Texts <- MCTexts
    Saves <- SaveNumbers
    Keks <- KekNumbers
    Encrypted <- MCEncrypted
    SoundPayloads <- MCSoundPayloads
    Damaged <- MCDamaged
    Payloads <- MCPayloads
    Decrypted <- MCDecrypted
    Rewrapped <- MCRewrapped
    MaxDamages = 1
    Absent = Absent
    Torn = Torn
    NoRotation = NoRotation
    Nothing = Nothing
    Lost = Lost
    Refused = Refused
    ValueError = Refused
SYMMETRY Symmetry
INVARIANTS
    TypeOK
    StoredSoundly
    OnlyKeyInUseReads
PROPERTY
    KeepsValues
