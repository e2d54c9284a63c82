SPECIFICATION FairSpec
CONSTANTS
    Specs <- ConvergingSpecs
    Nodes = 0
    Sealing = {}
    Faults = {"apply", "reply", "status", "pod", "crash"}
    MaxGen = 2
    MaxFaults = 1
    MaxTouched = 2
INVARIANTS HonestStatus NoLostWakeup ReadyUnlessPodFailed ReadyInvariant
PROPERTY Converges
CHECK_DEADLOCK FALSE
