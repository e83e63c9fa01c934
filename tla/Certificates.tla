---------------------------- MODULE Certificates ----------------------------
(***************************************************************************)
(* The SSH certificate authority (pkg/ca/ca.go) in gateway processes that   *)
(* share one store (pkg/database/postgres_ca.go): each loads or creates the *)
(* CA key when it starts, issues certificates, and decides on revocation    *)
(* from a cache of its own that a loop reloads (pkg/server/server.go).  The *)
(* reload lists the revoked serials, then swaps the cache, and a revocation *)
(* can fall in between.  One agent presents its host certificate, renews it *)
(* over its live connection, and installs the renewed one                   *)
(* (pkg/agent/agent.go).                                                    *)
(***************************************************************************)
EXTENDS Naturals

CONSTANTS
    Gateways, Serials,
    DefTTL, MaxTTL,  \* userCertTTLs: default and maximum
    HostTTL,         \* HostCertTTL
    RenewWithin,     \* NeedsRenewal: the remaining time that asks for renewal
    CertTime,        \* bound of the clock
    NoneYet

ASSUME CertAssumption ==
    /\ {DefTTL, MaxTTL, HostTTL, CertTime} \subseteq Nat
    /\ RenewWithin \in 0 .. HostTTL
    /\ NoneYet \notin Gateways \cup Serials

VARIABLES
    day,       \* the clock
    activeKey, \* ssh_ca_keys: the active key, named by the gateway that made it
    certs,     \* ssh_certificates: kind, expiry, revoked
    gateway,   \* each process: where its start is, its signer, the pending calls
    cache,     \* Authority.revoked of each process
    agent,     \* the agent: its installed certificate, and its connection
    \* what the properties remember
    knew,      \* what was revoked when a gateway's last reload listed
    told       \* what a gateway has been told of for good

certVars == <<day, activeKey, certs, gateway, cache, agent, knew, told>>

Unissued == [kind |-> "none", until |-> 0, revoked |-> FALSE, key |-> NoneYet]
Issued(c) == certs[c].kind # "none"
Expired(c) == day >= certs[c].until
Revoked == {c \in Serials : certs[c].revoked /\ ~Expired(c)}

\* A row of ssh_certificates, and the state of a gateway process.
CertRows == [kind : {"none", "user", "host"}, until : Nat, revoked : BOOLEAN,
             key : Gateways \cup {NoneYet}]
Processes == [pc : {"down", "generate", "up"}, signer : Gateways \cup {NoneYet},
              listed : SUBSET Serials, refresh : {"idle", "swap"},
              revoking : Serials \cup {NoneYet}]

CertTypeOK ==
    /\ day \in 0 .. CertTime
    /\ activeKey \in Gateways \cup {NoneYet}
    /\ certs \in [Serials -> CertRows]
    /\ gateway \in [Gateways -> Processes]
    /\ cache \in [Gateways -> SUBSET Serials]
    /\ agent \in [cert : Serials \cup {NoneYet}, link : Gateways \cup {NoneYet}]
    /\ knew \in [Gateways -> SUBSET Serials]
    /\ told \in [Gateways -> SUBSET Serials]

CertInit ==
    /\ day = 0
    /\ activeKey = NoneYet
    /\ certs = [c \in Serials |-> Unissued]
    /\ gateway = [g \in Gateways |-> [pc |-> "down", signer |-> NoneYet, listed |-> {},
                                      refresh |-> "idle", revoking |-> NoneYet]]
    /\ cache = [g \in Gateways |-> {}]
    /\ agent = [cert |-> NoneYet, link |-> NoneYet]
    /\ knew = [g \in Gateways |-> {}]
    /\ told = [g \in Gateways |-> {}]

CertTick ==
    /\ day < CertTime
    /\ day' = day + 1
    /\ UNCHANGED <<activeKey, certs, gateway, cache, agent, knew, told>>

-----------------------------------------------------------------------------
\* Starting

\* bootstrap reads the active key: a gateway that finds one uses it and loads
\* the cache, another generates its own.
bootstrap(g) ==
    /\ gateway[g].pc = "down"
    /\ IF activeKey = NoneYet
       THEN gateway' = [gateway EXCEPT ![g].pc = "generate"] /\ UNCHANGED cache
       ELSE /\ gateway' = [gateway EXCEPT ![g].pc = "up", ![g].signer = activeKey]
            /\ cache' = [cache EXCEPT ![g] = Revoked]
    /\ UNCHANGED <<day, activeKey, certs, agent, knew, told>>

\* Mutant: the store has no unique index on the active key.
CreateCAKey_Any(g) == TRUE

\* CreateCAKey succeeds only while no key of the type is active.
CreateCAKey(g) == activeKey = NoneYet

\* bootstrap stores the key it generated; when another gateway was first, the
\* start fails and the process has to be started again.
bootstrapPersist(g) ==
    /\ gateway[g].pc = "generate"
    /\ IF CreateCAKey(g)
       THEN /\ activeKey' = g
            /\ gateway' = [gateway EXCEPT ![g].pc = "up", ![g].signer = g]
            /\ cache' = [cache EXCEPT ![g] = Revoked]
       ELSE gateway' = [gateway EXCEPT ![g].pc = "down"] /\ UNCHANGED <<activeKey, cache>>
    /\ UNCHANGED <<day, certs, agent, knew, told>>

Up(g) == gateway[g].pc = "up"

-----------------------------------------------------------------------------
\* Issuing

\* clampRequestedTTL.
clampRequestedTTL(asked) ==
    IF asked = 0 THEN DefTTL ELSE IF asked > MaxTTL THEN MaxTTL ELSE asked

Sign(g, c, kind, ttl) ==
    certs' = [certs EXCEPT ![c] = [kind |-> kind, until |-> day + ttl, revoked |-> FALSE,
                                   key |-> gateway[g].signer]]

\* issueUserCert, IssueUserCert: sign with the clamped lifetime, then record;
\* a certificate that cannot be recorded is not handed out.
IssueUserCert(g, c, asked) ==
    /\ Up(g) /\ ~Issued(c)
    /\ Sign(g, c, "user", clampRequestedTTL(asked))
    /\ UNCHANGED <<day, activeKey, gateway, cache, agent, knew, told>>

\* IssueHostCert at registration: the agent gets its first certificate.
IssueHostCert(g, c) ==
    /\ Up(g) /\ ~Issued(c) /\ agent.cert = NoneYet
    /\ Sign(g, c, "host", HostTTL)
    /\ agent' = [agent EXCEPT !.cert = c]
    /\ UNCHANGED <<day, activeKey, gateway, cache, knew, told>>

-----------------------------------------------------------------------------
\* Revoking

\* RevokeCertificate marks the row (an error when it is revoked already),
RevokeCertificate(g, c) ==
    /\ Up(g) /\ gateway[g].revoking = NoneYet
    /\ Issued(c) /\ ~certs[c].revoked
    /\ certs' = [certs EXCEPT ![c].revoked = TRUE]
    /\ gateway' = [gateway EXCEPT ![g].revoking = c]
    /\ UNCHANGED <<day, activeKey, cache, agent, knew, told>>

\* ... and then adds the serial to this process's cache.
RevokeInCache(g) ==
    /\ gateway[g].revoking # NoneYet
    /\ cache' = [cache EXCEPT ![g] = @ \cup {gateway[g].revoking}]
    /\ gateway' = [gateway EXCEPT ![g].revoking = NoneYet]
    /\ told' = IF gateway[g].refresh = "idle"
               THEN [told EXCEPT ![g] = @ \cup {gateway[g].revoking}] ELSE told
    /\ UNCHANGED <<day, activeKey, certs, agent, knew>>

\* ListRevokedCertSerials: revoked and not yet expired.
ListRevokedCertSerials == {c \in Serials : certs[c].revoked /\ ~Expired(c)}

\* RefreshRevocationCache, run by runCARevocationRefreshLoop: the store is
\* listed,
RefreshList(g) ==
    /\ Up(g) /\ gateway[g].refresh = "idle"
    /\ gateway' = [gateway EXCEPT ![g].refresh = "swap", ![g].listed = ListRevokedCertSerials]
    /\ knew' = [knew EXCEPT ![g] = {c \in Serials : certs[c].revoked}]
    /\ UNCHANGED <<day, activeKey, certs, cache, agent, told>>

\* ... and the list replaces the cache, with whatever was added to that since.
RefreshSwap(g) ==
    /\ gateway[g].refresh = "swap"
    /\ cache' = [cache EXCEPT ![g] = gateway[g].listed]
    /\ gateway' = [gateway EXCEPT ![g].refresh = "idle", ![g].listed = {}]
    /\ told' = [told EXCEPT ![g] = @ \cup knew[g]]
    /\ knew' = [knew EXCEPT ![g] = {}]
    /\ UNCHANGED <<day, activeKey, certs, agent>>

-----------------------------------------------------------------------------
\* Presenting a certificate

\* CertChecker: the authority, the validity, and the cache of this process.
CheckCert(g, c) == certs[c].key = gateway[g].signer /\ ~Expired(c) /\ c \notin cache[g]

\* handleAgentCertAuth.
handleAgentCertAuth(g) ==
    /\ Up(g) /\ agent.cert # NoneYet /\ agent.link = NoneYet
    /\ CheckCert(g, agent.cert)
    /\ agent' = [agent EXCEPT !.link = g]
    /\ UNCHANGED <<day, activeKey, certs, gateway, cache, knew, told>>

\* NeedsRenewal.
NeedsRenewal(c) == day >= certs[c].until \/ certs[c].until - day < RenewWithin

\* maybeRenewHostCert and handleAgentCertRenewal: over the live connection the
\* gateway issues a new certificate for the key the connection authenticated
\* with, without looking at revocation; the agent writes it beside its key and
\* presents it from the next connection on, unless the reply or the file is
\* lost.
maybeRenewHostCert(c, installed) ==
    /\ agent.link # NoneYet /\ NeedsRenewal(agent.cert) /\ ~Issued(c)
    /\ Sign(agent.link, c, "host", HostTTL)
    /\ agent' = IF installed THEN [agent EXCEPT !.cert = c] ELSE agent
    /\ UNCHANGED <<day, activeKey, gateway, cache, knew, told>>

agentDrops ==
    /\ agent.link # NoneYet
    /\ agent' = [agent EXCEPT !.link = NoneYet]
    /\ UNCHANGED <<day, activeKey, certs, gateway, cache, knew, told>>

-----------------------------------------------------------------------------
CertNext ==
    \/ CertTick \/ agentDrops
    \/ \E g \in Gateways :
          \/ bootstrap(g) \/ bootstrapPersist(g)
          \/ RevokeInCache(g) \/ RefreshList(g) \/ RefreshSwap(g) \/ handleAgentCertAuth(g)
          \/ \E c \in Serials :
                \/ IssueHostCert(g, c) \/ RevokeCertificate(g, c)
                \/ \E asked \in 0 .. MaxTTL + 1 : IssueUserCert(g, c, asked)
    \/ \E c \in Serials, installed \in BOOLEAN : maybeRenewHostCert(c, installed)

CertSpec == CertInit /\ [][CertNext]_certVars

-----------------------------------------------------------------------------
\* Properties

\* However the starts of the gateways interleave, every running gateway signs
\* with the one active key, so a certificate one of them issued is recognised
\* by all (ca.go:115-163 reads, generates and stores in separate steps).
OneAuthority ==
    /\ \A g \in Gateways : Up(g) => gateway[g].signer = activeKey
    /\ \A c \in Serials : Issued(c) => certs[c].key = activeKey

\* A gateway that has been told of a revocation refuses the certificate for
\* good: told by a reload that listed after the revocation, or by a revocation
\* it handled itself while no reload was between its list and its swap.  A
\* reload that listed before can undo only the latter, until the next one
\* (ca.go:376-403, server.go:1398).
RevocationSticks ==
    \A g \in Gateways : \A c \in told[g] : ~CheckCert(g, c)

\* The certificate authority over several gateways: one key, and revocations
\* that are not forgotten.
CertificatesHold == CertTypeOK /\ OneAuthority /\ RevocationSticks
===============================================================================
