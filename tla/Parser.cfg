SPECIFICATION MCSpec
CONSTANTS
  KeyLength = 5
  NoiseLength = 4
INVARIANTS
  KeyAsWritten
  PathsReadAlike
  ReadsBack
  NothingDropped
