\* A loop whose body starts with block().
SPECIFICATION Spec
CONSTANTS
    x = x
    y = y
    p = p
    q = q
    rootFile = rootFile
    subFile = subFile
    genFile = genFile
    outerBlock = outerBlock
    innerBlock = innerBlock
    subBlock = subBlock
    None = None
    Names = {x, y}
    Procs = {p, q}
    Files = {rootFile, subFile, genFile}
    RootFile = rootFile
    Unparsed = {genFile}
    Nodes = {outerBlock, innerBlock, subBlock}
    NodeFile <- MCNodeFile
    NodeVars <- MCNodeVars
    NodeOuter <- MCNodeOuter
    ProcFile <- MCProcFile
    ProcDefs <- MCProcDefs
    Preseeded = {}
    Projects <- MCLoop
    Events <- NoEvents
    Irregular = {"block_again"}
    MaxEvents = 5
    MaxDepth = 3
CHECK_DEADLOCK FALSE
INVARIANTS
    ReadsResolve
