CONSTANTS
    SansA = SansA
    SansB = SansB
    SansBad = SansBad
    NoCert = NoCert
    Free = Free
    Conns = {c1, c2}
    SanSets <- MCSanSets
    Invalid <- MCInvalid
    MaxCalls = 3
    Faults = {"mkdir", "mkcert", "renameKey", "renameCert", "cancel", "kill", "age"}
SPECIFICATION FairSpec
INVARIANTS
    TypeOK
    CertNeverAheadOfKey
    SettledPairMatches
PROPERTIES
    ReissuedIsServable
    StatusNotMidRename
    EveryRequestEnds
    StoreSpec
