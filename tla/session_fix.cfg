\* A file of the fix is not open and changes on disk.
SPECIFICATION Spec
CONSTANTS
    rootFile = rootFile
    subFile = subFile
    textA = textA
    textB = textB
    Fixed = Fixed
    Garbled = Garbled
    None = None
    Empty = Empty
    Files = {rootFile, subFile}
    FixFiles = {rootFile, subFile}
    Primary = rootFile
    Plain = {textA, textB}
    First = textA
    Outside = {subFile}
    Discards = FALSE
    MaxInbox = 1
    MaxEdits = 2
    MaxRuns = 1
INVARIANTS
    NothingGarbled
