SPECIFICATION FairSpec
CONSTANTS
    Specs <- MCPSpecs
    Nodes = 0
    Sealing = {"PVC"}
    Faults = {}
    MaxGen = 1
    MaxFaults = 0
    MaxTouched = 0
PROPERTY Converges
CHECK_DEADLOCK FALSE
