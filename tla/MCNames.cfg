CONSTANTS
    Mesh = Mesh
    Own = Own
    Off = Off
    Labels <- MCLabels
    Clean <- MCClean
    Dashed = {"x-"}
    Lower <- MCLower
    Suffixes <- MCSuffixes
    MachineName <- MCMachine
    TailnetDomain <- MCTailnet
    Containers <- MCContainers
    Networks = {Mesh, Own}
    MeshNetwork = Mesh
SPECIFICATION Spec
INVARIANTS
    TypeOK
    PublishedCovered
PROPERTIES
    WarnedWhenNew
