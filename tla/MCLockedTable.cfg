SPECIFICATION FairSpec
CONSTANTS
  p1 = p1
  p2 = p2
  p3 = p3
  URL = URL
  custom = custom
  nameURL = nameURL
  name = name
  Procs = {p1, p2, p3}
  Codes = {URL, custom}
  Entries = {nameURL, name}
  Absent = Absent
  Unknown = Unknown
  NoProc = NoProc
  BuiltInName <- builtInName
  MaxCalls = 3
INVARIANTS
  MapExclusive
  OneWinner
PROPERTIES
  Linearizable
  EveryCallReturns
CHECK_DEADLOCK FALSE
