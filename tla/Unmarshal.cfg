SPECIFICATION MCSpec
CONSTANTS
  Half = 128
  IntHalf = 32
  MaxDigits = 3
  ExponentHalf = 6
  Truth <- Truths
  Index <- Indices
  KeyNumber <- KeyNumbers
  Holds <- ContainsPlaceholders
  Measure <- Measured
  Configs <- Loaded
  Trees <- MCTrees
  Paths <- MCPaths
  Types <- MCTypes
INVARIANTS
  FormsAgree
  ConfigScopes
  UnmarshalReads
  UnresolvedNeverRead
