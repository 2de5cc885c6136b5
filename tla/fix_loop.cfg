CONSTANTS
  safe = safe
  risky = risky
  lib = lib
  flag = flag
  extra = extra
  None = None
  Torn = Torn
  Files = {safe, risky}
  Target = {lib}
  Edge = {}
  Req = {flag, extra}
  Graph <- MCGraph
  Configures <- MCConfigures
  MaxEdits = 2
  Faults = {"configure", "ingest", "write", "open", "rename", "rollback", "crash"}
  EditsDuring = FALSE
SPECIFICATION Spec
INVARIANT FixInv
PROPERTIES PromotesSameGraph NeverOverwritesAnEdit PromiseSpec
CHECK_DEADLOCK FALSE
