CONSTANTS
    a = a
    b = b
    u = u
    PA = PA
    PB = PB
    Containers = {a, b, u}
    Projects = {PA, PB}
    Standalone = Standalone
    ProjectOf <- MCProjectOf
    Unsafe = {u}
    MaxAttempts = 2
    MaxChanges = 3
    Faults = {"list", "inspect", "reissue", "write", "stream", "sigterm", "crash", "shrink"}
SPECIFICATION MCSpec
INVARIANTS
    RoutedRemembered
PROPERTIES
    PublishesSteady
    EventsConverge
    BackToEvents
    SigtermStops
