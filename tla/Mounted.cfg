SPECIFICATION HeapSpec
CONSTANTS
    Fields <- SourceFields
    MaxFields = 3
    Env <- NoNames
    EnvLists <- NoNames
    Index <- NoNames
    Dots <- NoNames
    MaxDepth = 9
INVARIANTS
    MountedInMemory
CHECK_DEADLOCK FALSE
