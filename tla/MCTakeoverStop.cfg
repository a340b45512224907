CONSTANTS
    main = main
    orbLocal = orbLocal
    Suffixes = {main, orbLocal}
    Primary = main
    Bad = Bad
    Comma = Comma
    Gap = Gap
    Lists <- MCLists
    MaxRuns = 2
    Faults = {"stop"}
SPECIFICATION Spec
PROPERTIES
    TeardownStops
CHECK_DEADLOCK FALSE
