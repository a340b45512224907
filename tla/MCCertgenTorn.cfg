CONSTANTS
    SansA = SansA
    SansB = SansB
    SansBad = SansBad
    NoCert = NoCert
    Free = Free
    Conns = {c1, c2}
    SanSets <- MCSanSets
    Invalid <- MCInvalid
    MaxCalls = 3
    Faults = {"renameCert"}
SPECIFICATION Spec
PROPERTIES
    UnchangedMatches
