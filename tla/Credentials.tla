----------------------------- MODULE Credentials -----------------------------
(***************************************************************************)
(* The three credentials of the HTTP API for one user (API key, session     *)
(* token, JWT) and the requests that present them: pkg/api/middelware.go,   *)
(* pkg/api/auth_endpoint.go, pkg/auth/auth.go and the api_keys and          *)
(* http_sessions statements of pkg/database/postgres.go.  A request is a    *)
(* goroutine; it looks a credential up, loads its user, loads the user      *)
(* again for the role, and only then reaches the role check and the handler,*)
(* so revocations, demotions and expiries fall between its steps.           *)
(***************************************************************************)
EXTENDS Naturals

CONSTANTS
    Requests,
    CredTTL,   \* lifetime of a key that has one, a session and a JWT
    CredTime,  \* bound of the clock
    NoTime

ASSUME CredentialAssumption == CredTTL \in Nat \ {0} /\ CredTime \in Nat /\ NoTime \notin Nat

VARIABLES
    hour,       \* the clock
    role,       \* the user's role in the store; "deleted" without a row
    apiKey,     \* the api_keys row: its state and expiry (NoTime: none)
    session,    \* the http_sessions row: its expiry, NoTime without one
    jwt,        \* the signed token: its expiry and its is_admin claim
    request,    \* each request
    \* what the properties remember
    held,       \* the roles the user had since a request came in
    good        \* the credentials that were good since a request came in

credVars == <<hour, role, apiKey, session, jwt, request, held, good>>

Kinds == {"api_key", "session", "bearer"}
Privileged == {"admin", "operator"}

KeyGood     == role # "deleted" /\ apiKey.state = "live" /\ (apiKey.until = NoTime \/ hour <= apiKey.until)
SessionGood == role # "deleted" /\ session # NoTime /\ hour < session
JwtGood     == role # "deleted" /\ jwt.until # NoTime /\ hour <= jwt.until
GoodNow == {k \in Kinds : \/ k = "api_key" /\ KeyGood
                          \/ k = "session" /\ SessionGood
                          \/ k = "bearer" /\ JwtGood}

Roles == {"user", "operator", "admin", "deleted"}
RequestStates ==
    [pc : {"idle", "api_key", "session", "bearer", "load", "context", "checked", "acted", "refused"},
     via : Kinds \cup {"none"}, isAdmin : BOOLEAN,
     role : {"none", "user", "operator", "admin"}]

CredTypeOK ==
    /\ hour \in 0 .. CredTime
    /\ role \in Roles
    /\ apiKey \in [state : {"none", "live", "revoked", "deleted"}, until : Nat \cup {NoTime}]
    /\ session \in Nat \cup {NoTime}
    /\ jwt \in [until : Nat \cup {NoTime}, isAdmin : BOOLEAN]
    /\ request \in [Requests -> RequestStates]
    /\ held \in [Requests -> SUBSET Roles]
    /\ good \in [Requests -> SUBSET Kinds]

CredInit ==
    /\ hour = 0
    /\ role \in {"user", "admin"}
    /\ apiKey = [state |-> "none", until |-> NoTime]
    /\ session = NoTime
    /\ jwt = [until |-> NoTime, isAdmin |-> FALSE]
    /\ request = [r \in Requests |->
                     [pc |-> "idle", via |-> "none", isAdmin |-> FALSE, role |-> "none"]]
    /\ held = [r \in Requests |-> {}]
    /\ good = [r \in Requests |-> {}]

Active(r) == request[r].pc \notin {"idle", "acted", "refused"}

\* What the requests in flight have seen, after a step that changes the user
\* or a credential.
Remember ==
    /\ held' = [r \in Requests |-> IF Active(r) THEN held[r] \cup {role'} ELSE held[r]]
    /\ good' = [r \in Requests |-> IF Active(r) THEN good[r] \cup GoodNow' ELSE good[r]]

Move(r, l) == request' = [request EXCEPT ![r].pc = l]

-----------------------------------------------------------------------------
\* Credentials come and go

\* The clock.
CredTick ==
    /\ hour < CredTime
    /\ hour' = hour + 1
    /\ UNCHANGED <<role, apiKey, session, jwt, request>>
    /\ Remember

\* GenerateAPIKey stores the hash of a new key.
GenerateAPIKey(until) ==
    /\ role # "deleted" /\ apiKey.state = "none"
    /\ apiKey' = [state |-> "live", until |-> until]
    /\ UNCHANGED <<hour, role, session, jwt, request>>
    /\ Remember

\* createAPIKey: with or without an expiry.
createAPIKey == GenerateAPIKey(NoTime) \/ GenerateAPIKey(hour + CredTTL)

\* loginWithKey: a key for the command-line tools, always with an expiry.
loginWithKey == GenerateAPIKey(hour + CredTTL)

\* revokeAPIKey sets revoked_at on a key that exists.
RevokeAPIKey ==
    /\ apiKey.state \in {"live", "revoked"}
    /\ apiKey' = [apiKey EXCEPT !.state = "revoked"]
    /\ UNCHANGED <<hour, role, session, jwt, request>>
    /\ Remember

\* deleteAPIKey removes the row.
DeleteAPIKey ==
    /\ apiKey.state \in {"live", "revoked"}
    /\ apiKey' = [apiKey EXCEPT !.state = "deleted"]
    /\ UNCHANGED <<hour, role, session, jwt, request>>
    /\ Remember

\* CreateSession stores a session; Issue signs a token with the role the
\* login read at its start.
CreateSession == session' = hour + CredTTL
Issue(admin) == jwt' = [until |-> hour + CredTTL, isAdmin |-> admin]

\* login, and the ends of the password, passkey and bootstrap logins: a
\* session, and a token where JWTs are configured.
login(admin) ==
    /\ role # "deleted"
    /\ CreateSession
    /\ Issue(admin) \/ UNCHANGED jwt
    /\ UNCHANGED <<hour, role, apiKey, request>>
    /\ Remember

\* loginJWT: a token alone.
loginJWT(admin) ==
    /\ role # "deleted"
    /\ Issue(admin)
    /\ UNCHANGED <<hour, role, apiKey, session, request>>
    /\ Remember

\* logout deletes the session; the JWT of the same login stays good.
logout ==
    /\ SessionGood
    /\ session' = NoTime
    /\ UNCHANGED <<hour, role, apiKey, jwt, request>>
    /\ Remember

\* CleanupExpiredSessions.
DeleteExpiredHTTPSessions ==
    /\ session # NoTime /\ session < hour
    /\ session' = NoTime
    /\ UNCHANGED <<hour, role, apiKey, jwt, request>>
    /\ Remember

\* An administrator changes the role, or deletes the user with the rows that
\* hang on it.
changeRole(new) ==
    /\ role # "deleted" /\ role # new
    /\ role' = new
    /\ apiKey' = IF new = "deleted" THEN [apiKey EXCEPT !.state = "deleted"] ELSE apiKey
    /\ session' = IF new = "deleted" THEN NoTime ELSE session
    /\ UNCHANGED <<hour, jwt, request>>
    /\ Remember

-----------------------------------------------------------------------------
\* Requests

\* authenticate tries the API key, the session and the bearer token, each if
\* the request carries one; a credential the request does not carry is one
\* that never validates.
authenticate(r) ==
    /\ request[r].pc = "idle"
    /\ Move(r, "api_key")
    /\ held' = [held EXCEPT ![r] = {role}]
    /\ good' = [good EXCEPT ![r] = GoodNow]
    /\ UNCHANGED <<hour, role, apiKey, session, jwt>>

Fallback(k) == IF k = "api_key" THEN "session" ELSE IF k = "session" THEN "bearer" ELSE "refused"

\* GetAPIKeyByHash leaves revoked keys out.
GetAPIKeyByHash == apiKey.state = "live"

\* The lookup of validateAPIKey.
validateAPIKey ==
    /\ GetAPIKeyByHash
    /\ apiKey.state # "revoked"
    /\ apiKey.until = NoTime \/ hour <= apiKey.until

\* The lookup of validateSession: GetHTTPSessionByToken leaves out what has
\* expired.
GetHTTPSessionByToken == session # NoTime /\ hour < session
validateSession == GetHTTPSessionByToken

\* validateBearerToken: signature and expiry, nothing stored.
validateBearerToken == jwt.until # NoTime /\ hour <= jwt.until

Validates(k) == \/ k = "api_key" /\ validateAPIKey
                \/ k = "session" /\ validateSession
                \/ k = "bearer" /\ validateBearerToken

\* One credential is looked up; one that does not validate (or is not
\* carried) gives way to the next.
lookUp(r, carries) ==
    LET k == request[r].pc IN
    /\ k \in Kinds
    /\ request' = [request EXCEPT ![r].via = k,
                                  ![r].pc = IF carries /\ Validates(k) THEN "load" ELSE Fallback(k)]
    /\ UNCHANGED <<hour, role, apiKey, session, jwt, held, good>>

\* The user the credential names is loaded; without one the next credential
\* is tried.
loadUser(r) ==
    /\ request[r].pc = "load"
    /\ request' = [request EXCEPT ![r].isAdmin = (role = "admin"),
                                  ![r].pc = IF role = "deleted" THEN Fallback(request[r].via) ELSE "context"]
    /\ UNCHANGED <<hour, role, apiKey, session, jwt, held, good>>

\* Mutant: a JWT's own claim decides.
setAuthContext_Claim(r) ==
    LET stored == IF role = "deleted" THEN (IF request[r].isAdmin THEN "admin" ELSE "user") ELSE role
    IN /\ request[r].pc = "context"
       /\ request' = [request EXCEPT ![r].pc = "checked",
              ![r].role = IF request[r].via = "bearer" /\ jwt.isAdmin THEN "admin" ELSE stored]
       /\ UNCHANGED <<hour, role, apiKey, session, jwt, held, good>>

\* setAuthContext loads the user once more and takes the role from the row;
\* when that fails the user loaded before decides.
setAuthContext(r) ==
    /\ request[r].pc = "context"
    /\ request' = [request EXCEPT ![r].pc = "checked",
           ![r].role = IF role # "deleted" THEN role
                       ELSE IF request[r].isAdmin THEN "admin" ELSE "user"]
    /\ UNCHANGED <<hour, role, apiKey, session, jwt, held, good>>

\* adminMiddleware (callerIsAdmin and isPrivilegedViewer look at the same
\* role), then the handler.
adminMiddleware(r) ==
    /\ request[r].pc = "checked"
    /\ Move(r, IF request[r].role \in Privileged THEN "acted" ELSE "refused")
    /\ UNCHANGED <<hour, role, apiKey, session, jwt, held, good>>

-----------------------------------------------------------------------------
CredNext ==
    \/ CredTick \/ createAPIKey \/ loginWithKey \/ RevokeAPIKey \/ DeleteAPIKey
    \/ \E admin \in BOOLEAN : login(admin) \/ loginJWT(admin)
    \/ logout \/ DeleteExpiredHTTPSessions
    \/ \E new \in {"user", "admin", "deleted"} : changeRole(new)
    \/ \E r \in Requests :
          \/ authenticate(r) \/ loadUser(r) \/ setAuthContext(r) \/ adminMiddleware(r)
          \/ \E carries \in BOOLEAN : lookUp(r, carries)

CredSpec == CredInit /\ [][CredNext]_credVars

\* A request gets through with a credential only if that credential was good
\* at some moment since the request came in: one revoked, expired, logged out
\* or deleted before admits nothing (middelware.go:182-257).
GoodCredentialAdmits ==
    \A r \in Requests : request[r].pc \in {"context", "checked", "acted"} => request[r].via \in good[r]

\* A request passes the role check only if the user held a privileged role at
\* some moment since the request came in, whatever an older JWT claims
\* (middelware.go:164-180).
PrivilegeWasHeld ==
    \A r \in Requests : request[r].pc = "acted" => held[r] \cap Privileged # {}

\* authMiddleware and adminMiddleware judge a request by what was true while
\* it was being served.
CredentialsAreJudgedRight == CredTypeOK /\ GoodCredentialAdmits /\ PrivilegeWasHeld
===============================================================================
