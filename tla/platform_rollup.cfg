SPECIFICATION Spec
CONSTANTS
    Specs <- ChildSpecs
    Faults = {"apply", "reply", "status", "crash"}
    MaxGen = 2
    MaxFaults = 1
    MaxVersions = 3
INVARIANTS Inductive HonestStatus NoLostWakeup RollupIsTrue
CHECK_DEADLOCK FALSE
