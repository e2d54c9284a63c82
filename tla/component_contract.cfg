SPECIFICATION Spec
CONSTANTS
    Specs <- ContractSpecs
    Nodes = 2
    Sealing = {"PVC"}
    Faults = {"apply", "reply", "status", "pod", "crash"}
    MaxGen = 2
    MaxFaults = 1
    MaxTouched = 2
INVARIANT Inductive
PROPERTY KeepsContract
CHECK_DEADLOCK FALSE
