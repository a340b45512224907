CONSTANTS
    a1 = a1
    a2 = a2
    r1 = r1
    r2 = r2
    r3 = r3
    Addrs = {a1, a2}
    Requests = {r1, r2, r3}
    AddrOf <- MCAddrOf
    Deadline = 3
    Faults = {"listen", "serve"}
SPECIFICATION FairWelcomeSpec
INVARIANTS
    WelcomeTypeOK
    WholeWindow
PROPERTIES
    SignalEnds
