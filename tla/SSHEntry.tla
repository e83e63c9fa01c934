------------------------------ MODULE SSHEntry ------------------------------
(***************************************************************************)
(* Who comes in at the gateway's SSH port, and as what.  A person's client *)
(* picks a certificate or the plain key, an agent presents the certificate *)
(* it was given or its key; the gateway authenticates the connection,      *)
(* decides whether it is an agent or a client, and for each session reads  *)
(* the machine, checks the person's grant or role and looks for the agent. *)
(* Between these steps administrators change accounts, machines and        *)
(* certificates, and the gateway restarts with another configuration.      *)
(*                                                                         *)
(* There is one person, who may have the name of the one machine.          *)
(***************************************************************************)
EXTENDS Integers

CONSTANTS
    People,         \* connections of the person
    Agents,         \* connections of the machine's agent
    CertLife,       \* lifetime of a certificate
    RenewBelow,     \* NeedsRenewal: the remaining time that asks for renewal
    EntryTime,      \* bound of the clock
    MaxRestarts     \* bound on restarts of the gateway

ASSUME EntryAssumption ==
    /\ People \cap Agents = {}
    /\ CertLife \in Nat \ {0} /\ RenewBelow \in Nat
    /\ EntryTime \in Nat /\ MaxRestarts \in Nat

Entries == People \cup Agents

VARIABLES
    tick,       \* the clock
    caOn,       \* the gateway has a certificate authority
    mfaOn,      \* auth.mfa_required
    restarts,   \* restarts of the gateway so far
    person,     \* the person's row: key registered, enrolled in MFA, granted,
                \* and whether it is an admin or an operator
    namesake,   \* the person has the machine's name
    node,       \* the machine's row, its active flag, how its agent is known
    certFile,   \* the certificate file of the person and of the agent
    entry,      \* each connection
    claim,      \* what each connection stood on when it authenticated
    ask         \* the session each client connection last asked for

entryVars == <<tick, caOn, mfaOn, restarts, person, namesake, node, certFile, entry, claim, ask>>

NoCert == [there |-> FALSE, until |-> 0, revoked |-> FALSE]
Certs == [there : BOOLEAN, until : 0 .. EntryTime + CertLife, revoked : BOOLEAN]
Owner(c) == IF c \in People THEN "person" ELSE "agent"

Fresh == [at |-> "out", cert |-> NoCert, aged |-> FALSE, uid |-> "none"]

EntryStates ==
    [at : {"out", "dialled", "admitted", "refused", "client", "agent"},
     cert : Certs, aged : BOOLEAN, uid : {"none", "person", "account", "host"}]

\* A session: the flag of the machine record it read, and what has been so at
\* some moment since it was asked for.
Facts == {"machine", "active", "agent", "grant", "role"}
NoAsk == [at |-> "none", active |-> FALSE, since |-> {}]
AskStates ==
    [at : {"none", "usage", "denied", "read", "permitted", "unavailable", "proxied"},
     active : BOOLEAN, since : SUBSET Facts]
Reasons == {"key", "mfa", "service account", "machine", "revoked", "no authority",
            "time passed", "agent was away"}

EntryTypeOK ==
    /\ tick \in 0 .. EntryTime /\ caOn \in BOOLEAN /\ mfaOn \in BOOLEAN
    /\ restarts \in 0 .. MaxRestarts /\ namesake \in BOOLEAN
    /\ person \in [key : BOOLEAN, mfa : BOOLEAN, grant : BOOLEAN, role : BOOLEAN]
    /\ node \in [there : BOOLEAN, active : BOOLEAN, by : {"account", "host"}]
    /\ certFile \in [{"person", "agent"} -> Certs]
    /\ entry \in [Entries -> EntryStates]
    /\ claim \in [Entries -> SUBSET Reasons]
    /\ ask \in [Entries -> AskStates]

\* An agent registered while there is an authority gets a host certificate,
\* one registered before it a service account.
EntryInit ==
    /\ tick = 0 /\ caOn \in BOOLEAN /\ mfaOn \in BOOLEAN /\ restarts = 0
    /\ person = [key |-> TRUE, mfa |-> FALSE, grant |-> TRUE, role |-> FALSE]
    /\ node \in [there : {TRUE}, active : {FALSE}, by : {"account", "host"}]
    /\ node.by = "host" => caOn
    /\ namesake \in BOOLEAN /\ (namesake => node.by = "host")
    /\ certFile = [o \in {"person", "agent"} |->
                 IF o = "agent" /\ node.by = "host"
                 THEN [there |-> TRUE, until |-> CertLife, revoked |-> FALSE] ELSE NoCert]
    /\ entry = [c \in Entries |-> Fresh]
    /\ claim = [c \in Entries |-> {}]
    /\ ask = [c \in Entries |-> NoAsk]

-----------------------------------------------------------------------------
(* What changes meanwhile. *)

EntryTick ==
    /\ tick < EntryTime /\ tick' = tick + 1
    /\ entry' = [c \in Entries |-> [entry[c] EXCEPT !.aged = entry[c].at = "dialled"]]
    /\ UNCHANGED <<caOn, mfaOn, restarts, person, namesake, node, certFile, claim>>

\* A restart ends every connection.
gatewayRestarts ==
    /\ restarts < MaxRestarts /\ restarts' = restarts + 1
    /\ caOn' \in BOOLEAN /\ mfaOn' \in BOOLEAN
    /\ entry' = [c \in Entries |-> Fresh] /\ claim' = [c \in Entries |-> {}]
    /\ UNCHANGED <<tick, person, namesake, node, certFile>>

personChanges ==
    /\ person' \in {[person EXCEPT !.key = ~@], [person EXCEPT !.mfa = TRUE],
                    [person EXCEPT !.grant = ~@], [person EXCEPT !.role = ~@]}
    /\ UNCHANGED <<tick, caOn, mfaOn, restarts, namesake, node, certFile, entry, claim>>

\* The handlers of the agent's connections and administrators write the flag,
\* also late (see AgentRegistry).  Deleting a machine deletes its service
\* account and its grants.
machineChanges ==
    /\ node.there /\ node' \in {[node EXCEPT !.active = ~@], [node EXCEPT !.there = FALSE]}
    /\ UNCHANGED <<tick, caOn, mfaOn, restarts, person, namesake, certFile, entry, claim>>

\* Every certificate of the person, or of the agent, so far.
certsRevoked(o) ==
    /\ caOn
    /\ certFile' = [certFile EXCEPT ![o].revoked = certFile[o].there]
    /\ entry' = [c \in Entries |->
                   IF Owner(c) = o THEN [entry[c] EXCEPT !.cert.revoked = entry[c].cert.there]
                   ELSE entry[c]]
    /\ UNCHANGED <<tick, caOn, mfaOn, restarts, person, namesake, node, claim>>

closed(c) ==
    /\ entry[c].at # "out"
    /\ entry' = [entry EXCEPT ![c] = Fresh] /\ claim' = [claim EXCEPT ![c] = {}]
    /\ UNCHANGED <<tick, caOn, mfaOn, restarts, person, namesake, node, certFile>>

-----------------------------------------------------------------------------
(* The client and the agent choose what to present. *)

renewalDue(cert) == cert.until <= tick \/ cert.until - tick < RenewBelow

Dial(c, cert) == entry' = [entry EXCEPT ![c] = [Fresh EXCEPT !.at = "dialled", !.cert = cert]]

\* The cached certificate, while it needs no renewal.  Revocation is not
\* looked at, nor whether the server still has an authority.
loadCachedCertSigner(cert) == cert.there /\ ~renewalDue(cert)

\* A new certificate needs a login with the key, and a code when MFA is
\* required; the file may fail to be written.
refreshCertSigner(c) ==
    /\ caOn /\ person.key /\ (mfaOn => person.mfa)
    /\ LET new == [there |-> TRUE, until |-> tick + CertLife, revoked |-> FALSE] IN
       /\ Dial(c, new)
       /\ \/ certFile' = [certFile EXCEPT !.person = new]
          \/ UNCHANGED certFile

\* Anything that goes wrong with the refresh leaves the plain key.
LoadSigner(c) ==
    /\ entry[c].at = "out"
    /\ IF loadCachedCertSigner(certFile.person)
       THEN Dial(c, certFile.person) /\ UNCHANGED certFile
       ELSE \/ refreshCertSigner(c)
            \/ Dial(c, NoCert) /\ UNCHANGED certFile
    /\ UNCHANGED <<tick, caOn, mfaOn, restarts, person, namesake, node, claim>>

\* The agent presents the certificate in its file, whatever its age.
connectToServer(c) ==
    /\ entry[c].at = "out"
    /\ Dial(c, certFile.agent)
    /\ UNCHANGED <<tick, caOn, mfaOn, restarts, person, namesake, node, certFile, claim>>

-----------------------------------------------------------------------------
(* Authentication. *)

CertIsGood(cert) == cert.until > tick /\ ~cert.revoked
MFASatisfied(enrolled) == mfaOn => enrolled

\* The user need not have the key any more.
handleUserCertAuth(c) == CertIsGood(entry[c].cert) /\ MFASatisfied(person.mfa)

agentCertAuth(c) == CertIsGood(entry[c].cert) /\ node.there

\* A service account is a user that never enrols.
handleLegacyPublicKeyAuth(c) ==
    IF c \in People THEN person.key /\ MFASatisfied(person.mfa)
    ELSE node.there /\ node.by = "account" /\ MFASatisfied(FALSE)

Accepts(c) ==
    IF ~entry[c].cert.there THEN handleLegacyPublicKeyAuth(c)
    ELSE caOn /\ (IF c \in People THEN handleUserCertAuth(c) ELSE agentCertAuth(c))

\* Why a registered key may still not let its owner in.
Causes(c) ==
    (IF c \in People /\ ~person.key THEN {"key"} ELSE {})
    \cup (IF mfaOn /\ c \in People /\ ~person.mfa THEN {"mfa"} ELSE {})
    \cup (IF mfaOn /\ c \in Agents /\ ~entry[c].cert.there THEN {"service account"} ELSE {})
    \cup (IF c \in Agents /\ (~node.there \/ (node.by = "host" /\ ~entry[c].cert.there))
          THEN {"machine"} ELSE {})
    \cup (IF entry[c].cert.there /\ entry[c].cert.revoked THEN {"revoked"} ELSE {})
    \cup (IF entry[c].cert.there /\ ~caOn THEN {"no authority"} ELSE {})
    \cup (IF entry[c].cert.there /\ entry[c].aged THEN {"time passed"} ELSE {})
    \cup (IF c \in Agents /\ entry[c].cert.there /\ renewalDue(entry[c].cert)
          THEN {"agent was away"} ELSE {})

handlePublicKeyAuth(c) ==
    /\ entry[c].at = "dialled"
    /\ entry' = [entry EXCEPT
         ![c].at = IF Accepts(c) THEN "admitted" ELSE "refused",
         ![c].uid = IF ~Accepts(c) THEN "none" ELSE IF c \in People THEN "person"
                    ELSE IF entry[c].cert.there THEN "host" ELSE "account"]
    /\ claim' = [claim EXCEPT ![c] = Causes(c)]
    /\ UNCHANGED <<tick, caOn, mfaOn, restarts, person, namesake, node, certFile>>

-----------------------------------------------------------------------------
(* Agent or client?  Decided from the rows as they are after the handshake. *)

\* Mutant: the machine's name is enough.
handleConnection_Name(c) ==
    LET e == entry[c] IN
    IF node.there /\ (e.uid \in {"host", "account"} \/ namesake) THEN "agent" ELSE "client"

\* By certificate, or because the machine of that name has this account as its
\* agent.  A certified agent whose machine is gone goes on as a client without
\* a user.
handleConnection(c) ==
    LET e == entry[c] IN
    IF node.there /\ (e.uid = "host" \/ (e.uid = "account" /\ node.by = "account"))
    THEN "agent" ELSE "client"

enter(c) ==
    /\ entry[c].at = "admitted"
    /\ entry' = [entry EXCEPT ![c].at = handleConnection(c),
                              ![c].uid = IF @ = "host" /\ ~node.there THEN "none" ELSE @]
    /\ UNCHANGED <<tick, caOn, mfaOn, restarts, person, namesake, node, certFile, claim>>

-----------------------------------------------------------------------------
(* A session of a client: the requests on the channel up to the one that   *)
(* starts it, and the checks before anything is proxied.                   *)

\* CheckPermissionWithRemoteUser knows only users.  A role is enough; without
\* it the grant of this machine is needed.  Accounts have neither.
Permitted(uid) == uid = "person" /\ (person.role \/ (person.grant /\ node.there))

FactsNow ==
    (IF node.there THEN {"machine"} ELSE {})
    \cup (IF node.there /\ node.active THEN {"active"} ELSE {})
    \cup (IF \E a \in Agents : entry[a].at = "agent" THEN {"agent"} ELSE {})
    \cup (IF person.grant THEN {"grant"} ELSE {})
    \cup (IF person.role THEN {"role"} ELSE {})

\* The user name or the command's first word names the machine, whose record is
\* read; a shell without either gets the usage.
handleClientSession(c, wanted, named) ==
    /\ entry[c].at = "client" /\ ask[c].at \notin {"read", "permitted"}
    /\ ask' = [ask EXCEPT ![c] =
         IF wanted = "subsystem" \/ (wanted = "shell" /\ ~named) THEN [NoAsk EXCEPT !.at = "usage"]
         ELSE IF ~node.there THEN [NoAsk EXCEPT !.at = "denied"]
         ELSE [at |-> "read", active |-> node.active, since |-> FactsNow]]
    /\ UNCHANGED <<tick, caOn, mfaOn, restarts, person, namesake, node, certFile, entry, claim>>

\* The check may also fail for want of an answer.
checkPermission(c) ==
    /\ ask[c].at = "read"
    /\ \/ Permitted(entry[c].uid) /\ ask' = [ask EXCEPT ![c].at = "permitted"]
       \/ ask' = [ask EXCEPT ![c] = [NoAsk EXCEPT !.at = "denied"]]
    /\ UNCHANGED <<tick, caOn, mfaOn, restarts, person, namesake, node, certFile, entry, claim>>

\* The agent is looked up now, the flag is the one that was read.
findAgent(c) ==
    /\ ask[c].at = "permitted"
    /\ ask' = [ask EXCEPT ![c].at =
         IF ask[c].active /\ \E a \in Agents : entry[a].at = "agent" THEN "proxied"
         ELSE "unavailable"]
    /\ UNCHANGED <<tick, caOn, mfaOn, restarts, person, namesake, node, certFile, entry, claim>>

proxyToTarget(c) == checkPermission(c) \/ findAgent(c)

\* While a session is being set up, what becomes so is remembered; a connection
\* that ends takes its session with it.
Remembered ==
    ask' = [c \in Entries |->
              IF entry'[c].at # "client" THEN NoAsk
              ELSE IF ask[c].at \in {"read", "permitted"}
                   THEN [ask[c] EXCEPT !.since = @ \cup FactsNow'] ELSE ask[c]]

-----------------------------------------------------------------------------
OtherSteps ==
    \/ EntryTick \/ gatewayRestarts \/ personChanges \/ machineChanges
    \/ \E o \in {"person", "agent"} : certsRevoked(o)
    \/ \E c \in People : LoadSigner(c)
    \/ \E c \in Agents : connectToServer(c)
    \/ \E c \in Entries : closed(c) \/ handlePublicKeyAuth(c) \/ enter(c)

SessionSteps(c) ==
    \/ \E r \in {"exec", "shell", "subsystem"}, named \in BOOLEAN :
          handleClientSession(c, r, named)
    \/ proxyToTarget(c)

EntryNext == (OtherSteps /\ Remembered) \/ \E c \in Entries : SessionSteps(c)

EntrySpec == EntryInit /\ [][EntryNext]_entryVars

-----------------------------------------------------------------------------
(* Only the agent is served as the machine's agent, whoever has its name   *)
(* and whatever was deleted since the handshake.  Only the person gets     *)
(* past the check of a session, and only with a grant or a role held at    *)
(* some moment since the session was asked for; and what is then proxied   *)
(* goes to a machine that was there and active, and had an agent, in that  *)
(* time.                                                                   *)
EntersAsItself ==
    \A c \in Entries :
        /\ entry[c].at = "agent" => c \in Agents
        /\ ask[c].at \in {"permitted", "unavailable", "proxied"} =>
              c \in People /\ ask[c].since \cap {"grant", "role"} # {}
        /\ ask[c].at = "proxied" => {"machine", "active", "agent"} \subseteq ask[c].since

(* Who is refused has a reason: the person's key was removed or MFA is not *)
(* enrolled, the machine is gone, or the certificate presented was revoked *)
(* or issued by an authority that is no longer there.  Age alone is one    *)
(* only for an agent, or when time passed between the choice and the check.*)
RefusedForCause ==
    \A c \in Entries : entry[c].at = "refused" => claim[c] # {}

(* What the documentation of the authority says: an agent with a service   *)
(* account keeps connecting with it.                                       *)
ServiceAccountsConnect ==
    \A c \in Agents : (entry[c].at = "refused" /\ node.by = "account") => "machine" \in claim[c]

(* What the comment of LoadSigner says: with the authority disabled the    *)
(* client falls back to the plain key.                                     *)
PlainKeyStillWorks ==
    \A c \in People :
        entry[c].at = "refused" => claim[c] \cap {"key", "mfa", "revoked", "time passed"} # {}

(* Who connects over SSH is taken for what it is, and refused with reason. *)
EntryIsRight == EntryTypeOK /\ EntersAsItself /\ RefusedForCause
=============================================================================
