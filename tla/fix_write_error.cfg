CONSTANTS
  safe = safe
  risky = risky
  lib = lib
  flag = flag
  extra = extra
  None = None
  Torn = Torn
  Files = {safe, risky}
  Target = {lib}
  Edge = {}
  Req = {flag, extra}
  Graph <- MCGraph
  Configures <- MCConfigures
  MaxEdits = 2
  Faults = {"write"}
  EditsDuring = FALSE
SPECIFICATION Spec
INVARIANT OnlyVerifiedStays
CHECK_DEADLOCK FALSE
