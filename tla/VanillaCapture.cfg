SPECIFICATION CaptureSpec
CONSTANTS
    MaxPacketSize = 31
    MaxStringSize = 3
    MaxDepth = 3
    MaxModifiedUTF8Bytes = 8
    MaxCollectionEntries = 1024
    MaxRuns = 2
    MaxRegistryData = 3
    ReadValue <- ReadNetwork
    WriteValue <- WriteNetwork
    ValueOfJSON <- DecodeJSON
    JSONOfValue <- EncodeJSON
    NoValue <- NilValue
    NullJSON <- Null
    Identifiers <- MCIdentifiers
    SynchronizedRegistryKeys <- MCSynchronizedRegistryKeys
    DamageType <- MCDamageType
    IsFire <- MCIsFire
    WorldPreset <- Preset
    Hashes <- MCHashes
    Scenarios <- MCScenarios
    Older <- MCOlder
INVARIANTS
    CheckedInDataLoads
    FaithfulToVanilla
    ManifestNotAhead
    WellFormedIsCaptured
    IllFormedIsRefused
PROPERTIES
    Reproducible
    CaptureEnds
CHECK_DEADLOCK FALSE
