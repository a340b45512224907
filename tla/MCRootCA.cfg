CONSTANTS
    Peers = {p1}
    MaxCAs = 3
    MaxSans = 1
    Faults = {"install", "kill", "timeout", "export", "backup", "volume"}
SPECIFICATION Spec
INVARIANTS
    TrustSurvives
    InstalledWasLive
    BackupNotEmpty
