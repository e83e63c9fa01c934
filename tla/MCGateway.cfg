CONSTANTS
    Sessions = {s1, s2}
    Shells = {s1}
    MaxChunks = 0
    TunnelIds = {t1, t2}
    Kubectl = {}
    MaxTunnels = 1
    AgentSlots = 1
    GrantTTL = 1
    TunnelTime = 2
    Scopes = {g1}
    Reconcilers = {loop, async}
    Loop = loop
    KubeTime = 2
    MaxChanges = 2
    MaxDrops = 1
    MaxFaults = 1

SPECIFICATION GatewaySpec

INVARIANT DrainIsWhole
INVARIANT TunnelGrantsHold
INVARIANT ReconcileIsSound

CHECK_DEADLOCK FALSE
