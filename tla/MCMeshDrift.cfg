CONSTANTS
    a = a
    b = b
    d = d
    PA = PA
    PB = PB
    PD = PD
    c1 = c1
    c2 = c2
    Containers = {a, b, d}
    Projects = {PA, PB, PD}
    Standalone = Standalone
    ProjectOf <- MCProjectOf
    Unsafe = {}
    MaxAttempts = 2
    MaxChanges = 3
    Faults = {"write", "shrink"}
    Conns = {c1, c2}
    None = None
    Rejected = {PD}
    LinkFaults = {}
SPECIFICATION MeshSpec
PROPERTIES
    PublishCovered
SYMMETRY Symmetry
CHECK_DEADLOCK FALSE
