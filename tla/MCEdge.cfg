CONSTANTS
    a = a
    b = b
    PA = PA
    PB = PB
    c1 = c1
    c2 = c2
    Containers = {a, b}
    Projects = {PA, PB}
    Standalone = Standalone
    ProjectOf <- MCProjectOf
    Unsafe = {}
    MaxAttempts = 2
    MaxChanges = 4
    Faults = {"list", "write", "stream", "crash", "sigterm"}
    Conns = {c1, c2}
    None = None
    Fallback = Fallback
    Rejected = {}
    LinkFaults = {"unreachable", "lostReply", "refusal", "certgenCrash"}
SPECIFICATION EdgeSpec
INVARIANTS
    TraefikCovered
SYMMETRY Symmetry
