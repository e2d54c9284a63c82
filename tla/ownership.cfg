SPECIFICATION FairSpec
CONSTANTS
    PlatformNames <- TwoNames
    Kinds = {"CollectorConfig", "Collector", "Child"}
    Faults = {"apply", "reply", "crash"}
    MaxPlatforms = 2
    MaxFaults = 1
INVARIANTS Inductive NothingLeftToCollect
PROPERTIES Converges LivePlatformKeepsObjects
CHECK_DEADLOCK FALSE
