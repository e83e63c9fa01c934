CONSTANTS
    Sessions = {s1}
    Shells = {s1}
    MaxChunks = 0
    Terminals = {}
    FileOps = {}
    Listings = {}
    OutUnits = 1
    ErrUnits = 0
    InUnits = 1
    PipeSize = 1
    Window = 1
    HookSessions = {}
    HookPlugins <- TwoPlugins
    MaxToggles = 0
    Migrators = {p1, p2}
    KeyList <- TwoKeys
    MaxKills = 0
    None = None
    Conns = {}
    Machines = {}
    MachineOf <- MachineOfConn
    MaxDrops = 0
    MaxAdmin = 0

SPECIFICATION SessionsSpec

INVARIANT RewrittenOnce

CHECK_DEADLOCK FALSE
