SPECIFICATION Spec
CONSTANTS
    Name = "dev"
    PlatformSpecs <- ExternalSpecs
    EnvKey <- Keys
    MaxEdits = 1
INVARIANT PodsFindSubstrate
