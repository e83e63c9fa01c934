CONSTANTS
    None = None
    Work = {w1, w2}
    DrainCmds = {d1}
    Updates = {u1, u2}
    MaxUndrains = 1
    Admins = {a1, a2}
    Secrets = {k1, k2}
    Short = {k2}
    Addresses = {m1}
    NoKey = NoKey
    Stars = Stars
    MaxEdits = 2
    MaxRestarts = 1
    Clicks = {c1, c2}
    LinkTTL = 1
    ChatTime = 1
    Events = {"approved", "rejected"}
    Deliveries = {n1}
    MaxPolicies = 1
    MaxSaves = 1
    Pollers = {q1, q2}
    NoticePage = 2
    MaxNotices = 4
    Registrations = {r1}
    Scripts = {i1}
    Locals = {l1}
    Creations = {e1}
    Editors = {e2, e3}
    Deleters = {x1}
    LocalDeletes = {x2}
    Bootstraps = {b1, b2}
    Callers = {b3}
    Adders = {b4}
    Commands = {b5}
    Setups = {b6}
    TagValues = {t1}
    NoTags = NoTags
    AgentIDs = {Nobody, r1}
    Nobody = Nobody
    DirSessions = {s1}
    Logins = {s2, s3}
    Targets = {h1, h2}
    Sensitive = {h1}
    DayHours = 4
    HistoryLimit = 2
    MinHistory = 1
    HourTolerance = 1

SPECIFICATION ManagementSpec

INVARIANT DrainIsOrderly
INVARIANT PluginSettingsHold
INVARIANT ChatIsSound
INVARIANT NoticesAreHonest
INVARIANT DirectoryIsConsistent
INVARIANT FlagsCanBeTrusted
PROPERTY LoneUpdateIsVerified

CHECK_DEADLOCK FALSE
