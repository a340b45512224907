CONSTANTS
    Contents = {v1, v2, v3}
    Missing = Missing
    Empty = Empty
    Torn = Torn
    Faults = {"open", "write", "sync", "close", "rename", "kill", "power"}
SPECIFICATION Spec
PROPERTIES
    ResultIsTrue
    WholeFileSpec
