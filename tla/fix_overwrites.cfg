CONSTANTS
  safe = safe
  risky = risky
  lib = lib
  flag = flag
  extra = extra
  None = None
  Torn = Torn
  Files = {safe, risky}
  Target = {lib}
  Edge = {}
  Req = {flag, extra}
  Graph <- MCGraph
  Configures <- MCConfigures
  MaxEdits = 2
  Faults = {}
  EditsDuring = TRUE
SPECIFICATION Spec
PROPERTY NeverOverwritesAnEdit
CHECK_DEADLOCK FALSE
