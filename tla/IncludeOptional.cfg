SPECIFICATION Spec
CONSTANTS
  Absent = Absent
  Unreadable = Unreadable
  Hidden = Hidden
  TopKey = TopKey
  Refused = Refused
  lib = lib
  Dirs <- MCDirs
  Cwd = "root"
  Paths <- MCPaths
  Stems <- MCStems
  Locate <- MCLocate
  DirOf <- MCDirOf
  Packages = {lib}
  Fields <- MCFields
  Contents <- MCContents
  Malformed = {"bad"}
  Body <- MCBody
  Props <- MCProps
  Top <- MCTop
  FileSystems <- MCFileSystems
  Registries <- MCRegistries
  Volatile <- VolatileFileSystems
INVARIANTS
  MissingOptionalIgnored
CHECK_DEADLOCK FALSE
