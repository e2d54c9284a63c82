SPECIFICATION MovedAway
CONSTANTS
    UmbrellaSpecs <- Moved
    BackplaneSpecs <- Contents
    Specs <- ContentSet
    Nodes = 0
    Sealing = {}
    UmbrellaFaults = {"crash"}
    Faults = {"crash"}
    UmbrellaGen = 2
    MaxGen = 3
    MaxFaults = 1
    MaxTouched = 0
    MaxVersions = 30
PROPERTIES ConvergesSystem BackplaneRefined
CHECK_DEADLOCK FALSE
