---------------------------- MODULE AccessViews ----------------------------
(***************************************************************************)
(* Who may reach what, and what the gateway tells people about it: the     *)
(* access decision (pkg/auth/auth.go), its explanation                     *)
(* (pkg/auth/explain.go), the list of a user's effective access            *)
(* (pkg/auth/effective.go) and the catalog of what a user can ask for      *)
(* (pkg/api/capabilities.go).                                              *)
(*                                                                         *)
(* One user.  Grants, requests, sessions and the user's role change while  *)
(* a call reads them one store query after the other.  Every listing but   *)
(* that of the grants stops at a limit.  The inventory does not change     *)
(* here (Directory has its changes), so a call lists the machines in the   *)
(* step of another query.  Which login and which other machines the        *)
(* catalog suggests is left open, and so is the order of equals in it.     *)
(***************************************************************************)
EXTENDS Naturals, Sequences, FiniteSets, Functions

CONSTANTS
    MachineList,       \* the machines, the newest first
    Target,            \* the machine an explanation is about
    Logins,            \* remote accounts
    GrantTypes,        \* bound: the access types that are granted and asked for
    MaxGrants,         \* bound: grants that exist, and requests
    MaxEvents,         \* bound: changes to the store
    ExplainRequests,   \* explainRequestHistory, 50
    EffectiveMachines, \* effectiveListLimit, 10000
    CapRequests,       \* capRequestHistoryLimit, 200
    CapSessions,       \* capSessionHistoryLimit, 200
    CapMachines,       \* capMachineLimit, 5000
    CatalogLimit       \* capMaxEntries, 500

Machines == Range(MachineList)
AnyLogin == "any"

ASSUME ViewsAssumption ==
    /\ GrantTypes \subseteq {"ssh", "scp", "both", "rdp"}
    /\ Target \in Machines /\ AnyLogin \notin Logins
    /\ MaxGrants \in Nat /\ MaxEvents \in Nat
    /\ {ExplainRequests, EffectiveMachines, CapRequests, CapSessions, CapMachines, CatalogLimit} \subseteq Nat

VARIABLES
    urole,     \* users.role
    fga,       \* "off" without OpenFGA; else its answer for this user: allow, deny, error
    grants,    \* the user's permissions rows
    asked,     \* the user's access requests
    sessions,  \* the user's sessions
    events,    \* changes so far
    view       \* the call in progress

viewVars == <<urole, fga, grants, asked, sessions, events, view>>

AccessTypes == {"ssh", "scp", "both", "rdp"}   \* vnc and k8s are decided as rdp is
SSHTypes    == {"ssh", "scp"}

\* Rows carry the time they were made (granted_at, requested_at, start_time).
\* A grant past its expires_at stays in the table; a request that expired is
\* shown as one that was rejected is.
Grant   == [machine : Machines, type : AccessTypes, logins : SUBSET Logins, lapsed : BOOLEAN,
            at : 1 .. MaxEvents]
Request == [machine : Machines, type : AccessTypes, logins : SUBSET Logins,
            status : {"pending", "approved", "rejected"}, at : 1 .. MaxEvents]
Session == [machine : Machines, login : Logins, at : 1 .. MaxEvents]

\* A call: which it is and the query it makes next, what it asks about and has
\* read, and what it answers.  The properties remember whether a query of the
\* decision failed, how often the store changed under the call, and what it
\* decided by as an explanation began.
NoCall == [kind |-> "none", at |-> "idle", wanted |-> "ssh", as |-> AnyLogin,
           role |-> "user", allowed |-> FALSE, rows |-> {}, reqs |-> {}, used |-> {}, answer |-> {},
           failed |-> FALSE, changed |-> 0, old |-> [role |-> "user", fga |-> "off", rows |-> {}]]

\* ORDER BY ... DESC LIMIT n.
Newest(rows, n) == {r \in rows : Cardinality({q \in rows : q.at > r.at}) < n}

listMachines(n) == {MachineList[i] : i \in {j \in DOMAIN MachineList : j <= n}}

-----------------------------------------------------------------------------
\* The decision.

\* admins and operators reach every machine as any account.
privilegedAccess(r) == r \in {"admin", "operator"}

\* "both" is ssh and scp, never a tunnel protocol.
AccessTypeCovers(granted, wanted) ==
    granted = wanted \/ (granted = "both" /\ wanted \in SSHTypes)

IsTunnelAccessType(type) == type = "rdp"

\* HasPermission and HasPermissionWithRemoteUser: the COUNT(*) queries.
HasPermission(rows, m, type) ==
    \E g \in rows : g.machine = m /\ ~g.lapsed /\ AccessTypeCovers(g.type, type)

HasPermissionWithRemoteUser(rows, m, type, login) ==
    \E g \in rows : /\ g.machine = m /\ ~g.lapsed
                     /\ AccessTypeCovers(g.type, type) /\ login \in g.logins

\* CheckPermissionWithRemoteUser on an unchanging store: OpenFGA may only
\* refuse; an error of OpenFGA leaves the decision to the grants.
Decision(role, says, rows, m, type, login) ==
    \/ privilegedAccess(role)
    \/ says # "deny" /\ HasPermissionWithRemoteUser(rows, m, type, login)

Allows(m, type, login) == Decision(urole, fga, grants, m, type, login)

\* CheckExactAccess, and CheckTunnelPermission behind its protocol test.
CheckExactAccess(m, type) ==
    privilegedAccess(urole) \/ (fga # "deny" /\ HasPermission(grants, m, type))

-----------------------------------------------------------------------------
\* ExplainAccess, one action per query.

Ask(k) == view' = [view EXCEPT !.at = k]
Stay == UNCHANGED <<urole, fga, grants, asked, sessions, events>>

\* explainAccess: the user asks, or a privileged viewer does, about ssh or scp.
explainAccess ==
    /\ view = NoCall
    /\ \E type \in SSHTypes, login \in Logins :
         view' = [NoCall EXCEPT !.kind = "explain", !.at = "check", !.role = urole,
                                !.wanted = type, !.as = login,
                                !.old = [role |-> urole, fga |-> fga, rows |-> grants]]
    /\ Stay

\* The decision reads the user again, and stops there for a privileged one.
checkUser ==
    /\ view.at = "check"
    /\ IF privilegedAccess(urole)
       THEN view' = [view EXCEPT !.at = "grants", !.allowed = TRUE]
       ELSE Ask(IF fga = "off" THEN "local" ELSE "authorizer")
    /\ Stay

\* It cannot be read, which denies.
checkFails ==
    /\ view.at = "check"
    /\ view' = [view EXCEPT !.at = "grants", !.failed = TRUE]
    /\ Stay

\* A refusal is final; an approval, like an error, leads to the local check.
authorizerCheck ==
    /\ view.at = "authorizer"
    /\ Ask(IF fga = "deny" THEN "grants" ELSE "local")
    /\ Stay

\* The local check, or a store error, which denies.
checkLocal ==
    /\ view.at = "local"
    /\ \E ok \in BOOLEAN :
         view' = [view EXCEPT !.at = "grants", !.failed = ~ok,
                    !.allowed = ok /\ HasPermissionWithRemoteUser(grants, Target, view.wanted, view.as)]
    /\ Stay

\* ListPairPermissions: every row of the pair, the lapsed ones too.
listPairPermissions ==
    /\ view.kind = "explain" /\ view.at = "grants"
    /\ view' = [view EXCEPT !.at = "requests",
                            !.rows = {g \in grants : g.machine = Target}]
    /\ Stay

\* A grant's link holds when it is current and covers type and account.
grantLink(g, type, login) ==
    ~g.lapsed /\ AccessTypeCovers(g.type, type) /\ (IsTunnelAccessType(type) \/ login \in g.logins)

\* Mutant: a pending request is named before the grants are looked at.
summarize_PendingFirst(allowed, priv, rows, pending) ==
    IF pending THEN "pending" ELSE
    IF allowed THEN IF priv THEN "role" ELSE "grant"
    ELSE IF rows = {} THEN "none" ELSE "grant refuses"

\* The decisive link of the chain: a role, the grants, OpenFGA, a request.
summarize(allowed, priv, rows, pending) ==
    LET holds == \E g \in rows : grantLink(g, view.wanted, view.as) IN
    IF allowed THEN CASE priv -> "role" [] ~priv /\ holds -> "grant" [] OTHER -> "fga allows"
    ELSE CASE holds -> "fga refuses" [] ~holds /\ pending -> "pending"
           [] ~holds /\ ~pending /\ rows # {} -> "grant refuses" [] OTHER -> "none"

\* ListUserAccessRequests, and the answer.  Approved requests are shown
\* through the grant they created.
listRequests ==
    /\ view.at = "requests"
    /\ view' = [view EXCEPT !.at = "done",
         !.answer = {summarize(view.allowed, privilegedAccess(view.role), view.rows,
             \E r \in Newest(asked, ExplainRequests) : r.machine = Target /\ r.status = "pending")}]
    /\ Stay

\* Any other query that fails ends its call with an error.
queryFails ==
    /\ view.at \in {"grants", "requests", "effective", "capRequests", "capSessions", "capMachines"}
    /\ view' = NoCall
    /\ Stay

-----------------------------------------------------------------------------
\* Effective access: a role row covers every type and account.

roleAccess(m) == [machine |-> m, type |-> "*", logins |-> Logins]

\* "both" is an ssh and an scp row.
grantAccess(g) ==
    {[machine |-> g.machine, type |-> t, logins |-> g.logins] :
        t \in IF g.type = "both" THEN SSHTypes ELSE {g.type}}

\* ListUserPermissions: the rows in force.
listUserPermissions(rows) == {g \in rows : ~g.lapsed}

\* EffectiveForUser reads the user and the machines, then the grants.
effectiveUser ==
    /\ view = NoCall
    /\ view' = [NoCall EXCEPT !.kind = "effective", !.at = "effective", !.role = urole]
    /\ Stay

effectiveGrants ==
    /\ view.at = "effective"
    /\ view' = [view EXCEPT !.at = "done", !.answer =
         (IF privilegedAccess(view.role) THEN {roleAccess(m) : m \in listMachines(EffectiveMachines)} ELSE {})
         \cup UNION {grantAccess(g) : g \in listUserPermissions(grants)}]
    /\ Stay

-----------------------------------------------------------------------------
\* The catalog.

Entry(m, login, type, reqStatus, source) ==
    [machine |-> m, login |-> login, type |-> type, status |-> reqStatus, source |-> source]

\* remoteUsersOrAny, for every entry of a relationship.
Entries(r, reqStatus, source) ==
    {Entry(r.machine, l, r.type, reqStatus, source) : l \in IF r.logins = {} THEN {AnyLogin} ELSE r.logins}

\* addGrants and addRequests: the candidates of rows.
EntriesOf(rows, reqStatus, source) == UNION {Entries(r, reqStatus, source) : r \in rows}

PendingOf(reqs) == {r \in reqs : r.status = "pending"}

\* addSessions.
SessionEntries(used) == {Entry(p.machine, p.login, "both", "requestable", "session") : p \in used}

\* addTagPeers and addDirectory: machines found by a tag or in the inventory,
\* with the suggested login.
Discoveries(ms, login) == {Entry(m, login, "both", "requestable", "discovery") : m \in ms}

\* A candidate is dropped when what is kept covers it, and a discovery when
\* anything is kept for its machine and login.
Dropped(kept, e) ==
    \E k \in kept : /\ k.machine = e.machine /\ k.login = e.login
                    /\ AccessTypeCovers(k.type, e.type) \/ e.source = "discovery"

\* add, for the candidates of one tier in some order: what may be kept after it.
\* A candidate for a machine that was not listed is passed over.
add(kept, offered, ms) ==
    {kept \cup more : more \in
        {S \in SUBSET offered :
            /\ \A e \in S : e.machine \in ms /\ ~Dropped(kept, e)
            /\ \A e \in offered \ S : e.machine \in ms => Dropped(kept \cup S, e)}}

addTo(keeps, offered, ms) == UNION {add(kept, offered, ms) : kept \in keeps}

\* What may be kept of the candidates, the strongest relationship first;
\* pending requests come before the finished ones.
Collected(rows, reqs, used, ms, found) ==
    LET granted == addTo({{}}, EntriesOf(rows, "granted", "grant"), ms)
        waiting == addTo(granted, EntriesOf(PendingOf(reqs), "pending", "request"), ms)
        ended   == addTo(waiting, EntriesOf(reqs \ PendingOf(reqs), "requestable", "request"), ms)
        visited == addTo(ended, SessionEntries(used), ms)
    IN  addTo(visited, found, ms)

capStatusRank(e) == CASE e.status = "granted" -> 0 [] e.status = "pending" -> 1 [] OTHER -> 2

\* Status first; what orders equals is left open.
lessCapability(a, b) == capStatusRank(a) < capStatusRank(b)

\* All that was kept, or as much as the limit in the order of the sort.
Shown(kept) ==
    {shown \in SUBSET kept :
        /\ Cardinality(shown) = IF Cardinality(kept) < CatalogLimit THEN Cardinality(kept) ELSE CatalogLimit
        /\ \A e \in shown, k \in kept \ shown : ~lessCapability(k, e)}

\* listCapabilities reads the grants, the requests, the sessions and the
\* machines, one after the other (capabilityInputsFor), and builds the catalog.
listCapabilities ==
    /\ view = NoCall
    /\ view' = [NoCall EXCEPT !.kind = "catalog", !.at = "capRequests", !.rows = listUserPermissions(grants)]
    /\ Stay

capabilityRequests ==
    /\ view.at = "capRequests"
    /\ view' = [view EXCEPT !.at = "capSessions", !.reqs = Newest(asked, CapRequests)]
    /\ Stay

capabilitySessions ==
    /\ view.at = "capSessions"
    /\ view' = [view EXCEPT !.at = "capMachines", !.used = Newest(sessions, CapSessions)]
    /\ Stay

buildCapabilities ==
    /\ view.at = "capMachines"
    /\ LET ms == listMachines(CapMachines) IN
       \E login \in Logins, found \in SUBSET ms :
         \E kept \in Collected(view.rows, view.reqs, view.used, ms, Discoveries(found, login)) :
           \E shown \in Shown(kept) :
             view' = [view EXCEPT !.at = "done", !.answer = shown]
    /\ Stay

-----------------------------------------------------------------------------
\* What changes meanwhile.

Change ==
    /\ events < MaxEvents
    /\ events' = events + 1
    /\ view' = IF view = NoCall \/ view.at = "done" THEN NoCall
               ELSE [view EXCEPT !.changed = @ + 1]

\* The role is changed, OpenFGA answers otherwise, a session is opened.
changeRole == Change /\ urole' \in {"user", "operator", "admin"} \ {urole}
                     /\ UNCHANGED <<fga, grants, asked, sessions>>
changeFGA  == Change /\ fga # "off" /\ fga' \in {"allow", "deny", "error"} \ {fga}
                     /\ UNCHANGED <<urole, grants, asked, sessions>>
useAccess  == Change /\ \E m \in Machines, login \in Logins :
                          sessions' = sessions \cup {[machine |-> m, login |-> login, at |-> events + 1]}
                     /\ UNCHANGED <<urole, fga, grants, asked>>

\* A grant is made, lapses, or is revoked.  Tunnel grants name no account,
\* and every other names at least one.
AskRows == {a \in [machine : Machines, type : GrantTypes, logins : SUBSET Logins] :
            a.logins = {} <=> IsTunnelAccessType(a.type)}

GrantOf(a) == [machine |-> a.machine, type |-> a.type, logins |-> a.logins, lapsed |-> FALSE, at |-> events + 1]

makeGrant   == Change /\ Cardinality(grants) < MaxGrants
                      /\ \E a \in AskRows : grants' = grants \cup {GrantOf(a)}
                      /\ UNCHANGED <<urole, fga, asked, sessions>>
lapseGrant  == Change /\ \E g \in grants : grants' = (grants \ {g}) \cup {[g EXCEPT !.lapsed = TRUE]}
                      /\ UNCHANGED <<urole, fga, asked, sessions>>
revokeGrant == Change /\ \E g \in grants : grants' = grants \ {g}
                      /\ UNCHANGED <<urole, fga, asked, sessions>>

\* A request is made; it is decided.  Approval writes the grant as well.
makeRequest   == Change /\ Cardinality(asked) < MaxGrants
                        /\ \E a \in AskRows :
                             asked' = asked \cup {[machine |-> a.machine, type |-> a.type, logins |-> a.logins,
                                                  status |-> "pending", at |-> events + 1]}
                        /\ UNCHANGED <<urole, fga, grants, sessions>>
decideRequest == Change /\ \E r \in asked, decision \in {"approved", "rejected"} :
                             /\ r.status = "pending"
                             /\ asked' = (asked \ {r}) \cup {[r EXCEPT !.status = decision]}
                             /\ IF decision = "rejected" THEN UNCHANGED grants
                                ELSE Cardinality(grants) < MaxGrants /\ grants' = grants \cup {GrantOf(r)}
                        /\ UNCHANGED <<urole, fga, sessions>>

-----------------------------------------------------------------------------
ViewsInit ==
    /\ urole = "user"
    /\ fga \in {"off", "allow"}
    /\ grants = {} /\ asked = {} /\ sessions = {} /\ events = 0
    /\ view = NoCall

ViewsNext ==
    \/ explainAccess \/ checkUser \/ checkFails \/ authorizerCheck \/ checkLocal
    \/ listPairPermissions \/ listRequests \/ queryFails
    \/ effectiveUser \/ effectiveGrants
    \/ listCapabilities \/ capabilityRequests \/ capabilitySessions \/ buildCapabilities
    \/ changeRole \/ changeFGA \/ useAccess
    \/ makeGrant \/ lapseGrant \/ revokeGrant \/ makeRequest \/ decideRequest

ViewsSpec == ViewsInit /\ [][ViewsNext]_viewVars

\* Every variable keeps its type.
ViewsTypeOK ==
    /\ urole \in {"user", "operator", "admin"}
    /\ fga \in {"off", "allow", "deny", "error"}
    /\ grants \subseteq Grant
    /\ asked \subseteq Request
    /\ sessions \subseteq Session
    /\ events \in 0..MaxEvents

-----------------------------------------------------------------------------
\* Properties.

InForce(m, type, login) == HasPermissionWithRemoteUser(grants, m, type, login)

Answered(kind) == view.kind = kind /\ view.at = "done" /\ ~view.failed

\* "the explanation can never disagree with enforcement": when no query of the
\* decision failed and the store changed at most once under the call, its
\* verdict is the decision as the call began or as it answers.  When nothing
\* changed, the reason given is the one that decides; a pending request is
\* named when it is among the requests that are read.
ExplanationIsTrue ==
    Answered("explain") =>
        /\ view.changed <= 1 =>
             view.allowed \in {Decision(view.old.role, view.old.fga, view.old.rows,
                                        Target, view.wanted, view.as),
                               Allows(Target, view.wanted, view.as)}
        /\ view.changed = 0 => view.answer =
             {IF view.allowed THEN IF privilegedAccess(urole) THEN "role" ELSE "grant"
              ELSE IF InForce(Target, view.wanted, view.as) THEN "fga refuses"
              ELSE IF \E r \in Newest(asked, ExplainRequests) : r.machine = Target /\ r.status = "pending"
                   THEN "pending"
              ELSE IF \E g \in grants : g.machine = Target THEN "grant refuses" ELSE "none"}

\* "The decision is taken by CheckPermissionWithRemoteUser, ... the chain only
\* describes it": the reason given is one that could decide.  Without OpenFGA
\* it is never OpenFGA, whatever changes between the queries.
ReasonIsReal ==
    Answered("explain") /\ fga = "off" => view.answer \cap {"fga allows", "fga refuses"} = {}

\* "one thing a user can actually do on a machine, after roles and grants are
\* resolved": when nothing changed under the call and OpenFGA does not refuse,
\* a row is there only for what the decision allows, and what it allows has a
\* row, unless a role allows it on a machine beyond the limit of the listing.
EffectiveAgrees ==
    Answered("effective") /\ view.changed = 0 /\ fga # "deny" =>
        \A m \in Machines, login \in Logins :
          LET Has(type) == \E r \in view.answer : r.machine = m /\ r.type \in {type, "*"}
                                                  /\ (login \in r.logins \/ IsTunnelAccessType(type))
              listed == privilegedAccess(urole) => m \in listMachines(EffectiveMachines)
          IN  /\ \A type \in SSHTypes :
                   /\ Has(type) => Allows(m, type, login)
                   /\ listed /\ Allows(m, type, login) => Has(type)
              /\ Has("rdp") => CheckExactAccess(m, "rdp")
              /\ listed /\ CheckExactAccess(m, "rdp") => Has("rdp")

\* What grants, and pending requests, amount to in the catalog.
Mine          == EntriesOf(listUserPermissions(grants), "granted", "grant")
Waiting(reqs) == EntriesOf(PendingOf(reqs), "pending", "request")

Covers(k, e) == k.machine = e.machine /\ k.login = e.login /\ AccessTypeCovers(k.type, e.type)

\* The catalog offers nothing that the user's grants already cover, offers
\* nothing again that a pending request covers that was read, and leaves a
\* grant on a listed machine out only when another covers it or the limit is
\* full of grants.
CatalogIsHonest ==
    Answered("catalog") /\ view.changed = 0 =>
        /\ \A e \in view.answer, g \in Mine : e.status # "granted" => ~Covers(g, e)
        /\ \A e \in view.answer, w \in Waiting(Newest(asked, CapRequests)) :
             e.status = "requestable" => ~Covers(w, e)
        /\ \A g \in Mine : g.machine \in listMachines(CapMachines) =>
             \/ \E e \in view.answer : e.status = "granted" /\ Covers(e, g)
             \/ \A e \in view.answer : e.status = "granted"

\* "a user needs to see that a request is already in flight before being
\* offered the same thing again": nothing a pending request covers is offered.
PendingIsNotOffered ==
    Answered("catalog") /\ view.changed = 0 =>
        \A e \in view.answer, w \in Waiting(asked) : e.status = "requestable" => ~Covers(w, e)

\* The three views of access agree with the decision that is enforced.
ViewsAgree == ViewsTypeOK /\ ExplanationIsTrue /\ EffectiveAgrees /\ CatalogIsHonest
=============================================================================
