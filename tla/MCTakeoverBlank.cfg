CONSTANTS
    main = main
    orbLocal = orbLocal
    Suffixes = {main, orbLocal}
    Primary = main
    Bad = Bad
    Comma = Comma
    Gap = Gap
    Lists <- MCLists
    MaxRuns = 2
    Faults = {"bash"}
SPECIFICATION Spec
PROPERTIES
    BlankDropsSuffixes
CHECK_DEADLOCK FALSE
