\* Three recordings, killed at any step, with files that cannot be removed and a reader.
SPECIFICATION Spec
CONSTANTS
    first = first
    again = again
    other = other
    mainDb = mainDb
    otherDb = otherDb
    buildA = buildA
    buildB = buildB
    traceFile = traceFile
    None = None
    Blank = Blank
    Schema = Schema
    Jobs = {first, again, other}
    DbOf <- MCDbOf
    TraceOf <- MCTraceOf
    BuildOf <- MCBuildOf
    Stray = {}
    Polled = {otherDb}
    Stuck = {otherDb}
    Killed = {first, again, other}
    MaxEdits = 2
CHECK_DEADLOCK FALSE
INVARIANTS
    RecorderInv
    OneConfigure
    SuccessStays
    FailureShows
PROPERTIES
    StoreSpec
