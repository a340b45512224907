CONSTANTS
    main = main
    orbLocal = orbLocal
    Suffixes = {main, orbLocal}
    Primary = main
    Bad = Bad
    Comma = Comma
    Gap = Gap
    Lists <- MCLists
    MaxRuns = 3
    Faults = {"interrupt", "orbstack", "foreign", "restart", "stop", "bash"}
SPECIFICATION Spec
INVARIANTS
    TypeOK
    ListSurvives
    NoneWrittenInConflict
PROPERTIES
    SetupAgrees
    TeardownRemoves
    RunRepeats
