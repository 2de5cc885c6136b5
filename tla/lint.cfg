\* lint with and without a baseline, single passes, and matrix over presets
\* two of which share a database file.
SPECIFICATION Spec
CONSTANTS
    unused = unused
    leak = leak
    glob = glob
    site = site
    elsewhere = elsewhere
    dir = dir
    plain = plain
    reserved = reserved
    slashDb = slashDb
    otherDb = otherDb
    slash = slash
    colon = colon
    debug = debug
    None = None
    Builtin = {unused, leak}
    User = {glob}
    Sites = {site, elsewhere}
    Prefixes = {dir}
    Below <- MCBelow
    Reserved = {reserved}
    Findings <- MCFindings
    Recordings <- MCRecordings
    Options <- MCOptions
    Configs <- MCConfigs
    DbFiles = {slashDb, otherDb}
    TraceDb = slashDb
    Presets = {slash, colon, debug}
    DbOf <- MCDbOf
    PresetLists <- MCPresetLists
INVARIANTS
    MatrixReportsCommon
    ZeroMeansClean
    SinglePassAgrees
PROPERTIES
    Ratchet
    RefreshShowsTheSuppressed
