SPECIFICATION Spec
CONSTANTS
  NUL = "NUL"
  NoFault = NoFault
  Inputs <- MCInputs
  Fold <- MCFold
  Order <- MCOrder
  BadByte = "?"
  Probes <- MCProbes
  Texts <- MCTexts
  MaxPathSegments = 3
INVARIANTS
  NoClash
  LastWins
  ObjectsWin
  EnvironIsMounted
  SameOnEveryRun
  QuotedValueSurvives
  OnlyMountedLinesFail
PROPERTIES
  BuildsPathMap
CHECK_DEADLOCK FALSE
