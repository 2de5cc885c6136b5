\* Calls, blocks, and the cache.
SPECIFICATION Spec
CONSTANTS
    x = x
    y = y
    p = p
    q = q
    rootFile = rootFile
    subFile = subFile
    genFile = genFile
    outerBlock = outerBlock
    innerBlock = innerBlock
    subBlock = subBlock
    None = None
    Names = {x, y}
    Procs = {p, q}
    Files = {rootFile, subFile, genFile}
    RootFile = rootFile
    Unparsed = {genFile}
    Nodes = {outerBlock, innerBlock, subBlock}
    NodeFile <- MCNodeFile
    NodeVars <- MCNodeVars
    NodeOuter <- MCNodeOuter
    ProcFile <- MCProcFile
    ProcDefs <- MCProcDefs
    Preseeded = {x}
    Projects <- MCProjects
    Events <- NoEvents
    Irregular = {}
    MaxEvents = 6
    MaxDepth = 3
CHECK_DEADLOCK FALSE
INVARIANTS
    ReadsResolve
    ScopeTreeNests
    TryCompileContained
    VariableFindingsHold
PROPERTIES
    NoFalseAlarm
