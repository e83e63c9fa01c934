CONSTANTS
    TunnelIds = {t1, t2}
    Kubectl = {t2}
    MaxTunnels = 1
    AgentSlots = 1
    GrantTTL = 1
    TunnelTime = 0
    Streams = {s1}
    MaxConns = 3
    Main = main
    MaxAgentConns = 6
    MaxOutages = 2
    Watchers = {w1, w2}
    Cap = 1
    MaxOutput = 2
    Scopes = {g1}
    Reconcilers = {loop, async}
    Loop = loop
    KubeTime = 1
    MaxChanges = 1
    MaxDrops = 1
    MaxFaults = 0

SPECIFICATION LinksSpec

INVARIANT ClientLinkIsSound
INVARIANT WatchIsSafe
INVARIANT LinkIsWatched
PROPERTY SlotsComeBack
PROPERTY LinkComesBack
PROPERTY AgentRecovers
PROPERTY WatchersEnd
PROPERTY KubeConverges

CHECK_DEADLOCK FALSE
