SPECIFICATION Spec
CONSTANTS
  Types = {"URL", "Document", "other"}
  DataLen = 2
  NameLen = 1
INVARIANT FaultsAreErrors
CHECK_DEADLOCK FALSE
