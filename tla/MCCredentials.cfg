CONSTANTS
    Challenges = {c1, c2}
    Verifiers = {v1, v2, v3}
    Tickets = {t1, t2}
    Codes = {b1, b2}
    Clients = {k1, k2}
    TokenTTL = 1
    MaxRedeemed = 1
    RateLimit = 2
    RateWindow = 2
    MaxTime = 5
    None = None
    AccountCalls = {a1, a2, a3}
    OldSecret = s0
    OldPasskey = p0
    Nothing = Nothing
    Requests = {r1}
    CredTTL = 1
    CredTime = 2
    NoTime = NoTime
    Gateways = {g1, g2}
    Serials = {n1, n2}
    DefTTL = 1
    MaxTTL = 1
    HostTTL = 2
    RenewWithin = 2
    CertTime = 1
    NoneYet = NoneYet
    People = {p1}
    Agents = {m1}
    CertLife = 1
    RenewBelow = 1
    EntryTime = 1
    MaxRestarts = 1

SPECIFICATION CredentialsSpec

INVARIANT LoginIsLimited
INVARIANT AccountIsGuarded
INVARIANT CredentialsAreJudgedRight
INVARIANT CertificatesHold
INVARIANT EntryIsRight
PROPERTY OneTimeUse

CHECK_DEADLOCK FALSE
