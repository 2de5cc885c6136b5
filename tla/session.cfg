\* Two open files, a fix that edits both, a recorder at any time.
SPECIFICATION Spec
CONSTANTS
    rootFile = rootFile
    subFile = subFile
    textA = textA
    textB = textB
    Fixed = Fixed
    Garbled = Garbled
    None = None
    Empty = Empty
    Files = {rootFile, subFile}
    FixFiles = {rootFile, subFile}
    Primary = rootFile
    Plain = {textA, textB}
    First = textA
    Outside = {}
    Discards = FALSE
    MaxInbox = 1
    MaxEdits = 2
    MaxRuns = 1
INVARIANTS
    TypeOK
    OneRecording
    MarksHonest
    NothingGarbled
PROPERTIES
    OffersExact
    ChangesAnswered
