SPECIFICATION ScaledDown
CONSTANTS
    UmbrellaSpecs <- Resized
    BackplaneSpecs <- Contents
    Specs <- ContentSet
    Nodes = 0
    Sealing = {}
    UmbrellaFaults = {}
    Faults = {}
    UmbrellaGen = 2
    MaxGen = 3
    MaxFaults = 1
    MaxTouched = 0
    MaxVersions = 30
INVARIANTS InductiveSystem ReadyEndToEnd
PROPERTY UmbrellaRefined
CHECK_DEADLOCK FALSE
