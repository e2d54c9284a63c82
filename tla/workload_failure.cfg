SPECIFICATION Spec
CONSTANTS
    Specs <- BrokerSpecs
    Nodes = 0
    Sealing = {}
    Faults = {"pod"}
    MaxGen = 1
    MaxFaults = 1
    MaxTouched = 0
INVARIANT ReadyIsTrue
CHECK_DEADLOCK FALSE
