CONSTANTS
    Sessions = {s1}
    Shells = {s1}
    MaxChunks = 2
    Terminals = {w1}
    FileOps = {f1, f2}
    Listings = {f2}
    OutUnits = 3
    ErrUnits = 3
    InUnits = 2
    PipeSize = 1
    Window = 2
    HookSessions = {h1}
    HookPlugins <- TwoPlugins
    MaxToggles = 1
    Migrators = {p1, p2}
    KeyList <- TwoKeys
    MaxKills = 1
    None = None
    Conns = {"c1", "c2", "c3"}
    Machines = {"m1", "m2"}
    MachineOf <- MachineOfConn
    MaxDrops = 1
    MaxAdmin = 1

SPECIFICATION SessionsSpec

INVARIANT RegistryIsSound
INVARIANT RowFollowsRegistry
INVARIANT RecordingsAreKept
INVARIANT WebWorkIsAccounted
INVARIANT ExecIsSound
INVARIANT PluginsHearInOrder
INVARIANT MigrationIsSafe
PROPERTY ReplacedHandlerFinishes
PROPERTY StoppedWorkFinishes
PROPERTY ExecFinishes
PROPERTY HooksAndStartsFinish

CHECK_DEADLOCK FALSE
