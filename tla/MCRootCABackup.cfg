CONSTANTS
    Peers = {p1}
    MaxCAs = 1
    MaxSans = 0
    Faults = {"backup"}
SPECIFICATION Spec
PROPERTIES
    BackupKeepsCA
CHECK_DEADLOCK FALSE
