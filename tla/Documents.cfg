SPECIFICATION ConfigSpec
CONSTANTS
    Fields <- DocumentFields
    MaxFields = 3
    Env <- Environment
    EnvLists <- Nothing
    Index <- NumericKeys
    Dots <- Nothing
    MaxDepth = 9
    ResolveOptions <- CallOptions
    MaxHanded = 2
    MaxCalls = 3
INVARIANTS
    PriorsAreFolded
    MeaningAgrees
    IncludeInlines
    MountedAlike
    PathNests
    LenientAgrees
    FallbackPrepends
    FlagIsSound
    LateFallback
    ResolveWithLooksUp
    Grouping
CHECK_DEADLOCK FALSE
