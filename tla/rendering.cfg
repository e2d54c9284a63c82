SPECIFICATION FairSpec
CONSTANTS
    Name = "dev"
    PlatformSpecs <- RenderedSpecs
    EnvKey <- Keys
    MaxEdits = 2
INVARIANTS Inductive ReferencesResolve SelectorsAreExact FreshConfig SettingsReachPods
PROPERTY Converges
