----------------------------- MODULE OneTimeCodes -----------------------------
(***************************************************************************)
(* The short-lived secrets of the login endpoints, all kept in the memory   *)
(* of one server process, each behind a mutex of its own:                   *)
(*   - challengeStore (pkg/api/challenge.go): challenges carry their own    *)
(*     expiry and are not stored; only the redeemed ones are remembered;    *)
(*   - passwordTicketStore (pkg/api/password.go);                           *)
(*   - bootstrapStore (pkg/api/browser_bootstrap.go);                       *)
(*   - rateLimiter (pkg/api/jwt_agents.go).                                 *)
(* Requests run concurrently; what a request reads before it takes the      *)
(* mutex may be out of date when it holds it.  Time is a counter.           *)
(***************************************************************************)
EXTENDS Naturals, Sequences, FiniteSets

CONSTANTS
    Challenges,   \* challenge values issued to one user name
    Verifiers,    \* login requests that present a challenge
    Tickets,      \* password login tickets
    Codes,        \* browser bootstrap codes
    Clients,      \* rate limiter keys
    TokenTTL,     \* challengeTTL, passwordLoginTicketTTL, bootstrapCodeTTL
    MaxRedeemed,  \* maxRedeemedChallenges
    RateLimit, RateWindow,
    MaxTime,      \* bound of the clock
    None

ASSUME CodeAssumption ==
    /\ {TokenTTL, MaxRedeemed, RateLimit, RateWindow} \subseteq Nat \ {0}
    /\ MaxTime \in Nat \ {0}
    /\ None \notin Nat

VARIABLES
    clock,
    chalUntil,    \* the expiry a challenge carries, or None before it is issued
    redeemed,     \* challengeStore.redeemed: the challenges remembered as used
    verifying,    \* what each login request presents, and the time it read
    ticketUntil,  \* passwordTicketStore.tickets
    codeUntil,    \* bootstrapStore.codes
    limiter,      \* rateLimiter.requests: the times kept for each key
    lastSweep,
    \* what the properties remember
    chalUses,     \* how often a challenge was accepted
    ticketLife, codeLife,  \* what happened to a ticket and to a code
    admitted      \* the times at which the limiter let each key pass

tokenVars ==
    <<clock, chalUntil, redeemed, verifying, ticketUntil, codeUntil, limiter,
      lastSweep, chalUses, ticketLife, codeLife, admitted>>

Idle == [chal |-> None, read |-> 0, pc |-> "idle"]
Times == 0 .. (MaxTime + TokenTTL)

TokensTypeOK ==
    /\ clock \in 0 .. MaxTime
    /\ chalUntil \in [Challenges -> Times \cup {None}]
    /\ redeemed \subseteq Challenges
    /\ verifying \in [Verifiers -> [chal : Challenges \cup {None}, read : Times,
                                    pc : {"idle", "lock", "accepted", "refused"}]]
    /\ ticketUntil \in [Tickets -> Times \cup {None}]
    /\ codeUntil \in [Codes -> Times \cup {None}]
    /\ DOMAIN limiter \subseteq Clients
    /\ \A k \in DOMAIN limiter : limiter[k] \in Seq(Times)
    /\ lastSweep \in Times \cup {None}
    /\ chalUses \in [Challenges -> Nat]

TokensInit ==
    /\ clock = 1
    /\ chalUntil = [c \in Challenges |-> None]
    /\ redeemed = {}
    /\ verifying = [v \in Verifiers |-> Idle]
    /\ ticketUntil = [t \in Tickets |-> None]
    /\ codeUntil = [c \in Codes |-> None]
    /\ limiter = << >>
    /\ lastSweep = None
    /\ chalUses = [c \in Challenges |-> 0]
    /\ ticketLife = [t \in Tickets |-> "not issued"]
    /\ codeLife = [c \in Codes |-> "not issued"]
    /\ admitted = [k \in Clients |-> << >>]

challengeVars == <<chalUntil, redeemed, verifying, chalUses>>
ticketVars    == <<ticketUntil, ticketLife>>
codeVars      == <<codeUntil, codeLife>>
limiterVars   == <<limiter, lastSweep, admitted>>

Tick ==
    /\ clock < MaxTime
    /\ clock' = clock + 1
    /\ UNCHANGED <<challengeVars, ticketVars, codeVars, limiterVars>>

-----------------------------------------------------------------------------
\* Challenges

\* POST /public/auth/challenge: Issue stores nothing, the value holds a nonce
\* and its expiry under the server's MAC.
issueChallenge(c) ==
    /\ chalUntil[c] = None
    /\ chalUntil' = [chalUntil EXCEPT ![c] = clock + TokenTTL]
    /\ UNCHANGED <<clock, redeemed, verifying, chalUses>>

\* verify before the mutex: the MAC and the expiry, against the time read here.
verifyExpiry(v, c) ==
    /\ verifying[v].pc = "idle" /\ chalUntil[c] # None
    /\ verifying' = [verifying EXCEPT ![v] =
                        [chal |-> c, read |-> clock,
                         pc |-> IF clock < chalUntil[c] THEN "lock" ELSE "refused"]]
    /\ UNCHANGED <<clock, chalUntil, redeemed, chalUses>>

\* Mutant: everything is dropped, expired or not.
gcLocked_All(kept, t) == {}

\* gcLocked: the challenges still remembered at time t.
gcLocked(kept, t) == {c \in kept : t < chalUntil[c]}

\* verify under the mutex, with the time read before it.  A full table is
\* swept first, and a table that stays full refuses the login.  The signature
\* check of verifyPossession follows and may still fail the login; the
\* challenge is used up either way.
verifyPossession(v) ==
    LET c    == verifying[v].chal
        room == IF Cardinality(redeemed) >= MaxRedeemed
                THEN gcLocked(redeemed, verifying[v].read) ELSE redeemed
        ok   == c \notin redeemed /\ Cardinality(room) < MaxRedeemed
    IN /\ verifying[v].pc = "lock"
       /\ redeemed' = IF c \in redeemed THEN redeemed
                      ELSE IF ok THEN room \cup {c} ELSE room
       /\ chalUses' = [chalUses EXCEPT ![c] = @ + (IF ok THEN 1 ELSE 0)]
       /\ verifying' = [verifying EXCEPT ![v].pc = IF ok THEN "accepted" ELSE "refused"]
       /\ UNCHANGED <<clock, chalUntil>>

ChallengeNext ==
    /\ \/ \E c \in Challenges : issueChallenge(c)
       \/ \E v \in Verifiers, c \in Challenges : verifyExpiry(v, c)
       \/ \E v \in Verifiers : verifyPossession(v)
    /\ UNCHANGED <<ticketVars, codeVars, limiterVars>>

-----------------------------------------------------------------------------
\* Password login tickets

Swept(until) == [x \in DOMAIN until |-> IF until[x] # None /\ clock > until[x]
                                        THEN None ELSE until[x]]

\* How the history of a token goes on when it is accepted.
Accepted(life, x) == [life EXCEPT ![x] = IF @ = "redeemed" THEN "redeemed again" ELSE "redeemed"]

\* passwordTicketStore.issue sweeps the expired tickets and stores a new one.
issueTicket(t) ==
    /\ ticketLife[t] = "not issued"
    /\ ticketUntil' = [Swept(ticketUntil) EXCEPT ![t] = clock + TokenTTL]
    /\ ticketLife' = [ticketLife EXCEPT ![t] = "live"]
    /\ UNCHANGED clock

\* Mutant: the ticket is left in the table.
consumeTicket_Kept(t) ==
    /\ ticketUntil' = Swept(ticketUntil)
    /\ ticketLife' = IF ticketUntil'[t] = None THEN ticketLife ELSE Accepted(ticketLife, t)
    /\ UNCHANGED clock

\* passwordTicketStore.consume: sweep, then a ticket that is there, for this
\* user and unexpired is taken out.  The login's code is checked after it, so
\* a mistyped code costs the ticket.
consumeTicket(t) ==
    /\ ticketUntil' = [Swept(ticketUntil) EXCEPT ![t] = None]
    /\ ticketLife' = IF Swept(ticketUntil)[t] = None THEN ticketLife ELSE Accepted(ticketLife, t)
    /\ UNCHANGED clock

TicketNext ==
    /\ \E t \in Tickets : issueTicket(t) \/ consumeTicket(t)
    /\ UNCHANGED <<challengeVars, codeVars, limiterVars>>

-----------------------------------------------------------------------------
\* Browser bootstrap codes

\* issueBrowserBootstrap: Issue sweeps and stores the code.
issueBrowserBootstrap(c) ==
    /\ codeLife[c] = "not issued"
    /\ codeUntil' = [Swept(codeUntil) EXCEPT ![c] = clock + TokenTTL]
    /\ codeLife' = [codeLife EXCEPT ![c] = "live"]
    /\ UNCHANGED clock

\* redeemBrowserBootstrap: Redeem takes the code out whatever the outcome, and
\* nothing sweeps first.  The user, the session and the JWT follow, and may
\* fail without giving the code back.
redeemBrowserBootstrap(c) ==
    /\ codeUntil' = [codeUntil EXCEPT ![c] = None]
    /\ codeLife' = IF codeUntil[c] = None \/ clock > codeUntil[c]
                   THEN codeLife ELSE Accepted(codeLife, c)
    /\ UNCHANGED clock

BootstrapNext ==
    /\ \E c \in Codes : issueBrowserBootstrap(c) \/ redeemBrowserBootstrap(c)
    /\ UNCHANGED <<challengeVars, ticketVars, limiterVars>>

-----------------------------------------------------------------------------
\* The rate limiter

\* The requests after the cutoff.  The times are in order, so the others come
\* first.
Recent(times, cutoff) ==
    SubSeq(times, Cardinality({i \in DOMAIN times : times[i] <= cutoff}) + 1, Len(times))

\* sweepLocked drops the keys whose newest request is at or before the cutoff.
sweepLocked(reqs, cutoff) ==
    LET kept == {k \in DOMAIN reqs : reqs[k] # << >> /\ reqs[k][Len(reqs[k])] > cutoff}
    IN [k \in kept |-> reqs[k]]

\* allow, called by rateLimitMiddleware and publicRateLimitMiddleware under
\* the limiter's mutex: sweep once per window (and on the first call), keep
\* the key's requests of the window, and let the request pass while there is
\* room.
allow(k) ==
    LET cutoff == IF clock >= RateWindow THEN clock - RateWindow ELSE 0
        sweep  == lastSweep = None \/ clock - lastSweep >= RateWindow
        reqs   == IF sweep THEN sweepLocked(limiter, cutoff) ELSE limiter
        recent == Recent(IF k \in DOMAIN reqs THEN reqs[k] ELSE << >>, cutoff)
        ok     == Len(recent) < RateLimit
    IN /\ limiter' = [x \in DOMAIN reqs \cup {k} |->
                         IF x # k THEN reqs[x] ELSE IF ok THEN Append(recent, clock) ELSE recent]
       /\ lastSweep' = IF sweep THEN clock ELSE lastSweep
       /\ admitted' = IF ok THEN [admitted EXCEPT ![k] = Append(@, clock)] ELSE admitted
       /\ UNCHANGED clock

LimiterNext ==
    /\ \E k \in Clients : allow(k)
    /\ UNCHANGED <<challengeVars, ticketVars, codeVars>>

-----------------------------------------------------------------------------
CodesNext == Tick \/ ChallengeNext \/ TicketNext \/ BootstrapNext \/ LimiterNext

CodesSpec == TokensInit /\ [][CodesNext]_tokenVars

-----------------------------------------------------------------------------
\* Properties

\* A challenge is accepted a second time only by a request that read the
\* clock before the challenge expired and took the mutex after the table had
\* been swept of it (challenge.go:101 reads the time before line 107 locks).
\* No request that began after the expiry is ever accepted.
ChallengeReusedOnlyLate ==
    \A c \in Challenges :
        chalUses[c] > 1 => \E v \in Verifiers :
            /\ verifying[v].chal = c /\ verifying[v].pc = "accepted"
            /\ verifying[v].read < chalUntil[c] /\ clock >= chalUntil[c]

\* No window of RateWindow time units ever holds more than RateLimit admitted
\* requests of one key, whatever the sweeps removed in between
\* (jwt_agents.go:47-68).
RateIsBounded ==
    \A k \in Clients : LET a == admitted[k] IN
        \A i \in DOMAIN a :
            i + RateLimit \in DOMAIN a => a[i + RateLimit] - a[i] >= RateWindow

\* A token's life: one that was issued, not redeemed, and is out of the table
\* or past its expiry, is gone.
LifeOf(life, until) ==
    [x \in DOMAIN life |-> IF life[x] = "live" /\ (until[x] = None \/ clock > until[x])
                           THEN "gone" ELSE life[x]]

\* A password login ticket is a one-time token: sweeps, expiry and repeated
\* presentation never let it be redeemed twice, redeemed late or brought back
\* (password.go:33-69).
TicketToken == INSTANCE OneTimeToken
    WITH Tokens <- Tickets, token <- LifeOf(ticketLife, ticketUntil)
TicketsAreOneTime == TicketToken!Spec

\* So is a browser bootstrap code (browser_bootstrap.go:42-84).
CodeToken == INSTANCE OneTimeToken
    WITH Tokens <- Codes, token <- LifeOf(codeLife, codeUntil)
CodesAreOneTime == CodeToken!Spec

\* Both kinds of token implement the abstract one-time token.
OneTimeUse == TicketsAreOneTime /\ CodesAreOneTime

\* What stands between a guesser and the login endpoints: a challenge is not
\* replayed and the rate limit holds (challengeStore.Verify, rateLimiter.allow).
LoginIsLimited == TokensTypeOK /\ ChallengeReusedOnlyLate /\ RateIsBounded
===============================================================================
