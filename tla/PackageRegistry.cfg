SPECIFICATION FairSpec
CONSTANTS
  Procs = {p1, p2}
  Blocks = {b1, b2, b3}
  Packages = {"k"}
  Contents = {"x", "y"}
  Missing = Missing
  NoCall = NoCall
  Nil = Nil
  None = None
PROPERTIES
  ImplementsMap
  FirstContentStays
  CallsReturn
