CONSTANTS
    Window = 6
    MaxQueued = 3
SPECIFICATION FairSpec
INVARIANTS
    PromptlyReconciled
PROPERTIES
    QuietBeforeReconcile
    PausesSuffice
