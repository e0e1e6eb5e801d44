SPECIFICATION Spec
CONSTANTS
  NUL = "NUL"
  NoFault = NoFault
  Inputs <- NULInputs
  Fold <- MCFold
  Order <- MCOrder
  BadByte = "?"
  Probes <- MCProbes
  Texts <- MCTexts
  MaxPathSegments = 3
INVARIANT
  EnvironIsMounted
CHECK_DEADLOCK FALSE
