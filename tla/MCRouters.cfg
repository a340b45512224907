CONSTANTS
    Containers <- MCContainers
    Unsafe <- MCUnsafe
    Http = 2
SPECIFICATION FairSpec
INVARIANTS
    NeverCrossed
PROPERTIES
    NoChurn
    ClashesHeal
