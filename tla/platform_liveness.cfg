SPECIFICATION EmptiedOrFilled
CONSTANTS
    Specs <- EmptyingSpecs
    Faults = {"infra", "crash"}
    MaxGen = 2
    MaxFaults = 1
    MaxVersions = 3
INVARIANT RollupCoversCollector
PROPERTY Converges
CHECK_DEADLOCK FALSE
