SPECIFICATION HeapSpec
CONSTANTS
    Fields <- HeapFields
    MaxFields = 4
    Env <- NoNames
    EnvLists <- NoNames
    Index <- NoNames
    Dots <- NoNames
    MaxDepth = 9
INVARIANTS
    HeapIsTree
    ValuesUntouched
CHECK_DEADLOCK FALSE
