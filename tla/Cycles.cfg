SPECIFICATION ConfigSpec
CONSTANTS
    Fields <- CycleFields
    MaxFields = 4
    Env <- Environment
    EnvLists <- Nothing
    Index <- NumericKeys
    Dots <- Nothing
    MaxDepth = 9
    ResolveOptions <- CallOptions
    MaxHanded = 0
    MaxCalls = 0
INVARIANT CyclesEnd
CHECK_DEADLOCK FALSE
