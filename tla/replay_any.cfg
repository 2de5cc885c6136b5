\* Any trace of up to four events.
SPECIFICATION RSpec
CONSTANTS
    x = x
    p = p
    srcFile = srcFile
    genFile = genFile
    node = node
    None = None
    Names = {x}
    Procs = {p}
    Files = {srcFile, genFile}
    Unparsed = {genFile}
    Nodes = {node}
    NodeFile <- MCNodeFile
    NodeVars <- MCNodeVars
    Preseeded = {x}
    Events <- MCEvents
    MaxEvents = 4
CHECK_DEADLOCK FALSE
INVARIANTS
    TypeOK
    StackDisciplined
    TablesMatchRows
