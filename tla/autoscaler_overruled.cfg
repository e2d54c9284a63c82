SPECIFICATION Spec
CONSTANTS
    Specs <- ScalingSpecs
    Nodes = 0
    Sealing = {}
    Faults = {}
    MaxGen = 1
    MaxFaults = 0
    MaxTouched = 3
PROPERTY ScalingKept
CHECK_DEADLOCK FALSE
