CONSTANTS
    a = a
    b = b
    PA = PA
    PB = PB
    c1 = c1
    c2 = c2
    Containers = {a, b}
    Projects = {PA, PB}
    Standalone = Standalone
    ProjectOf <- MCProjectOf
    Unsafe = {}
    MaxAttempts = 2
    MaxChanges = 4
    Faults = {"inspect"}
    Conns = {c1, c2}
    None = None
    Fallback = Fallback
    Rejected = {}
    LinkFaults = {}
SPECIFICATION EdgeSpec
INVARIANTS
    TraefikCovered
SYMMETRY Symmetry
