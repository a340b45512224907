CONSTANTS
    a = a
    b = b
    d = d
    PA = PA
    PB = PB
    PD = PD
    c1 = c1
    c2 = c2
    Containers = {a, b, d}
    Projects = {PA, PB, PD}
    Standalone = Standalone
    ProjectOf <- MCProjectOf
    Unsafe = {}
    MaxAttempts = 2
    MaxChanges = 3
    Faults = {"list", "inspect", "write", "stream", "sigterm", "crash", "shrink"}
    Conns = {c1, c2}
    None = None
    Rejected = {PD}
    LinkFaults = {"unreachable", "lostReply", "refusal", "certgenCrash"}
SPECIFICATION MeshSpec
INVARIANTS
    MeshTypeOK
    LoopCovered
PROPERTIES
    ReissueBeforePublish
    PublishCoveredUndrifted
SYMMETRY Symmetry
