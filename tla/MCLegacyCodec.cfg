SPECIFICATION Spec
CONSTANTS
  Types = {"URL", "Document", "other"}
  DataLen = 4
  NameLen = 2
INVARIANT PlainIsExact
CHECK_DEADLOCK FALSE
