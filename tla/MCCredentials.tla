---------------------------- MODULE MCCredentials ----------------------------
(***************************************************************************)
(* How people, programs and agents prove who they are, checked in one run.  *)
(* The parts share no state, so a behaviour chooses one of them and only    *)
(* that one moves.                                                          *)
(***************************************************************************)
EXTENDS OneTimeCodes, Accounts, Credentials, Certificates, SSHEntry

VARIABLE part

credentialsVars == <<part, tokenVars, accountVars, credVars, certVars, entryVars>>

\* Any two calls on an account are one part, three of those that set up the
\* second factor and the password another.  Over SSH, a person connects in one
\* part, an agent in another, and both, with nothing but grants, roles and
\* machines changing meanwhile, in a third, where sessions are asked for.
Parts == {"challenges", "tickets", "bootstrap", "limiter",
          "account", "factors", "api", "ca",
          "person", "agent", "both"}

CredentialsInit ==
    /\ part \in Parts
    /\ TokensInit
    /\ AccountsInit
    /\ part = "factors" => row.role = "user" /\ ~row.passkey
    /\ part \notin {"account", "factors"} => row = [NoRow EXCEPT !.exists = TRUE]
    /\ CredInit /\ (part # "api" => role = "user")
    /\ CertInit
    /\ EntryInit /\ (part \notin {"person", "agent", "both"} => ~caOn /\ ~mfaOn)

TokensNext ==
    \/ part \in {"challenges", "tickets", "bootstrap", "limiter"} /\ Tick
    \/ part = "challenges" /\ ChallengeNext
    \/ part = "tickets" /\ TicketNext
    \/ part = "bootstrap" /\ BootstrapNext
    \/ part = "limiter" /\ LimiterNext

Spare == CHOOSE c \in AccountCalls : TRUE
FactorWorks == {"mfaEnroll", "mfaConfirm", "mfaDisable", "setPassword", "loginWithPassword"}

AccountNext ==
    /\ AccountsNext
    /\ part = "account" => call'[Spare] = Unused
    /\ part = "factors" => \A c \in AccountCalls : call'[c] = Unused \/ call'[c].work \in FactorWorks

\* One of the gateways reloads its revocations.
Reloading == CHOOSE g \in Gateways : TRUE
CANext == CertNext /\ \A g \in Gateways \ {Reloading} : gateway'[g].refresh = "idle"

SSHNext ==
    /\ part \in {"person", "agent", "both"}
    /\ EntryNext
    /\ part = "person" => \A c \in Agents : entry'[c] = Fresh
    /\ part = "agent" => person' = person /\ \A c \in People : entry'[c] = Fresh
    /\ part # "both" => UNCHANGED ask /\ node'.active = node.active
    /\ part = "both" => /\ UNCHANGED <<tick, restarts>>
                        /\ person' \in {person, [person EXCEPT !.grant = ~@], [person EXCEPT !.role = ~@]}

CredentialsNext ==
    /\ UNCHANGED part
    /\ \/ TokensNext /\ UNCHANGED <<accountVars, credVars, certVars, entryVars>>
       \/ /\ part \in {"account", "factors"} /\ AccountNext
          /\ UNCHANGED <<tokenVars, credVars, certVars, entryVars>>
       \/ part = "api" /\ CredNext /\ UNCHANGED <<tokenVars, accountVars, certVars, entryVars>>
       \/ part = "ca" /\ CANext /\ UNCHANGED <<tokenVars, accountVars, credVars, entryVars>>
       \/ SSHNext /\ UNCHANGED <<tokenVars, accountVars, credVars, certVars>>

CredentialsSpec == CredentialsInit /\ [][CredentialsNext]_credentialsVars
==============================================================================
