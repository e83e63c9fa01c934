-------------------------- MODULE CredentialProofs ---------------------------
(***************************************************************************)
(* How people, programs and agents prove who they are, proved for any number*)
(* of codes, calls, gateways, certificates and connections.                *)
(***************************************************************************)
EXTENDS OneTimeCodes, Accounts, Certificates, Credentials, SSHEntry, SequenceTheorems, FiniteSetTheorems,
        TLAPS

(**** One-time codes and challenges ****)

\* What a store of tokens keeps: whatever is in the table was issued and not
\* redeemed.
StoreHolds(X, life, until) ==
    /\ life \in [X -> {"not issued", "live", "redeemed"}]
    /\ until \in [X -> Nat \cup {None}]
    /\ \A x \in X : until[x] # None => life[x] = "live"

StoresInv ==
    /\ clock \in Nat
    /\ StoreHolds(Tickets, ticketLife, ticketUntil)
    /\ StoreHolds(Codes, codeLife, codeUntil)

\* The bounds as facts about numbers.
LEMMA CodeNumbers ==
    /\ TokenTTL \in Nat /\ TokenTTL > 0 /\ MaxRedeemed \in Nat /\ MaxRedeemed > 0
    /\ RateWindow \in Nat /\ RateLimit \in Nat /\ MaxTime \in Nat /\ None \notin Nat
<1>1. \A n \in {TokenTTL, MaxRedeemed, RateLimit, RateWindow} : n \in Nat \ {0}
  BY CodeAssumption
<1>2. QED
  BY <1>1, CodeAssumption

\* The sweep takes out only tokens that are past their expiry.
LEMMA SweepKeepsLives ==
    ASSUME NEW X, NEW life, NEW until, StoreHolds(X, life, until)
    PROVE  /\ Swept(until) \in [X -> Nat \cup {None}]
           /\ StoreHolds(X, life, Swept(until))
           /\ LifeOf(life, Swept(until)) = LifeOf(life, until)
  BY DEF StoreHolds, Swept, LifeOf

\* Tokens lapse as time passes, and nothing else happens to them.
LEMMA TickLapses ==
    ASSUME NEW X, NEW life, NEW until, StoreHolds(X, life, until), clock \in Nat,
           clock' = clock + 1,
           NEW a, a = LifeOf(life, until), NEW b,
           b = [x \in X |-> IF life[x] = "live" /\ (until[x] = None \/ clock' > until[x])
                            THEN "gone" ELSE life[x]]
    PROVE  \E T \in SUBSET {t \in X : a[t] = "live"} : b = [t \in X |-> IF t \in T THEN "gone" ELSE a[t]]
<1> DEFINE T == {t \in X : a[t] = "live" /\ b[t] = "gone"}
<1>1. T \in SUBSET {t \in X : a[t] = "live"}
  OBVIOUS
<1>2. ASSUME NEW t \in X
      PROVE  b[t] = IF t \in T THEN "gone" ELSE a[t]
  <2>1. a[t] = IF life[t] = "live" /\ (until[t] = None \/ clock > until[t]) THEN "gone" ELSE life[t]
    BY DEF LifeOf, StoreHolds
  <2>2. b[t] = IF life[t] = "live" /\ (until[t] = None \/ clock' > until[t]) THEN "gone" ELSE life[t]
    OBVIOUS
  <2>3. until[t] = None \/ until[t] \in Nat
    BY DEF StoreHolds
  <2>4. a[t] = "gone" => b[t] = "gone"
    <3>1. life[t] # "gone"
      BY DEF StoreHolds
    <3>2. a[t] = "gone" => life[t] = "live" /\ (until[t] = None \/ clock > until[t])
      BY <2>1, <3>1
    <3>3. clock > until[t] /\ until[t] \in Nat => clock' > until[t]
      OBVIOUS
    <3>4. QED
      BY <2>2, <2>3, <3>2, <3>3
  <2>5. a[t] = "live" \/ b[t] = a[t]
    BY <2>1, <2>2, <2>4 DEF StoreHolds
  <2>6. b[t] = "gone" \/ b[t] = a[t]
    BY <2>1, <2>2, <2>4 DEF StoreHolds
  <2>7. QED
    BY <2>4, <2>5, <2>6
<1>3. b = [t \in X |-> IF t \in T THEN "gone" ELSE a[t]]
  BY <1>2
<1>4. QED
  BY <1>1, <1>3

\* A new token is good for some time.
LEMMA ExpiryIsAhead ==
    ASSUME clock \in Nat
    PROVE  clock + TokenTTL \in Nat /\ clock + TokenTTL # None /\ ~(clock > clock + TokenTTL)
<1>1. clock + TokenTTL \in Nat /\ ~(clock > clock + TokenTTL)
  BY CodeNumbers
<1>2. QED
  BY <1>1, CodeNumbers, Zenon

\* What issuing a token and taking one out do to a store.
Issues(X, life, until, t, e, l2, u2) ==
    /\ e \in Nat /\ e # None /\ ~(clock > e)
    /\ life[t] = "not issued" /\ l2 = [life EXCEPT ![t] = "live"]
    /\ u2 = [x \in X |-> IF x = t THEN e ELSE Swept(until)[x]]

Takes(X, life, until, t, l2, u2) ==
    /\ until[t] = None \/ clock > until[t] => l2 = life
    /\ ~(until[t] = None \/ clock > until[t]) => l2 = Accepted(life, t)
    /\ u2 = [x \in X |-> IF x = t THEN None ELSE until[x]]

\* The life of one token moves on.
Moves(a, b, t, from, to) == a[t] = from /\ b = [a EXCEPT ![t] = to]

\* A token is issued once, and lives.
LEMMA IssueIssues ==
    ASSUME NEW X, NEW life, NEW until, StoreHolds(X, life, until), clock \in Nat,
           NEW t \in X, NEW e, NEW l2, NEW u2,
           Issues(X, life, until, t, e, l2, u2)
    PROVE  /\ StoreHolds(X, l2, u2)
           /\ Moves(LifeOf(life, until), LifeOf(l2, u2), t, "not issued", "live")
<1> DEFINE sw == Swept(until)
<1>1. StoreHolds(X, life, sw) /\ LifeOf(life, sw) = LifeOf(life, until)
  BY SweepKeepsLives
<1>2. /\ e \in Nat /\ e # None /\ ~(clock > e)
      /\ life[t] = "not issued" /\ l2 = [life EXCEPT ![t] = "live"]
      /\ u2 = [x \in X |-> IF x = t THEN e ELSE sw[x]]
  BY DEF Issues
<1> HIDE DEF sw
<1>3. StoreHolds(X, l2, u2)
  <2>1. l2 \in [X -> {"not issued", "live", "redeemed"}]
    BY <1>1, <1>2 DEF StoreHolds
  <2>2. u2 \in [X -> Nat \cup {None}]
    BY <1>1, <1>2 DEF StoreHolds
  <2>3. \A x \in X : u2[x] # None => l2[x] = "live"
    BY <1>1, <1>2 DEF StoreHolds
  <2>4. QED
    BY <2>1, <2>2, <2>3 DEF StoreHolds
<1>4. LifeOf(life, until)[t] = "not issued"
  BY <1>2 DEF LifeOf, StoreHolds
<1>5. LifeOf(l2, u2) = [LifeOf(life, sw) EXCEPT ![t] = "live"]
  BY <1>1, <1>2 DEF LifeOf, StoreHolds
<1>6. QED
  BY <1>1, <1>3, <1>4, <1>5 DEF Moves

\* A token that is taken out while it lives is redeemed; one that was out, or
\* expired, stays what it was.
LEMMA TakeRedeems ==
    ASSUME NEW X, NEW life, NEW until, StoreHolds(X, life, until), clock \in Nat, NEW t \in X,
           NEW l2, NEW u2, Takes(X, life, until, t, l2, u2)
    PROVE  /\ StoreHolds(X, l2, u2)
           /\ \/ LifeOf(l2, u2) = LifeOf(life, until)
              \/ /\ LifeOf(life, until)[t] = "live"
                 /\ LifeOf(l2, u2) = [LifeOf(life, until) EXCEPT ![t] = "redeemed"]
<1>1. CASE until[t] = None \/ clock > until[t]
  BY <1>1 DEF StoreHolds, LifeOf, Takes
<1>2. CASE ~(until[t] = None \/ clock > until[t])
  BY <1>2 DEF StoreHolds, LifeOf, Accepted, Takes
<1>3. QED
  BY <1>1, <1>2

\* After the sweep whatever is in the table is unexpired.
LEMMA SweptAreAhead ==
    ASSUME NEW X, NEW life, NEW until, StoreHolds(X, life, until), clock \in Nat, NEW t \in X
    PROVE  Swept(until)[t] # None => ~(clock > Swept(until)[t])
  BY DEF Swept, StoreHolds

\* Every step keeps the stores, and is a step of the one-time token, or none,
\* on either side.
LEMMA StoresStep ==
    ASSUME StoresInv, [CodesNext]_tokenVars
    PROVE  StoresInv' /\ [TicketToken!Next]_(LifeOf(ticketLife, ticketUntil))
                      /\ [CodeToken!Next]_(LifeOf(codeLife, codeUntil))
<1> DEFINE TT == LifeOf(ticketLife, ticketUntil)
           CC == LifeOf(codeLife, codeUntil)
<1> USE DEF StoresInv, TicketToken!Next, CodeToken!Next, TicketToken!Issue, TicketToken!Redeem,
        TicketToken!Becomes,
        TicketToken!NotYet, TicketToken!Live, TicketToken!Redeemed, TicketToken!Gone,
        TicketToken!Lapse,
        CodeToken!Issue, CodeToken!Redeem, CodeToken!Becomes,
        CodeToken!NotYet, CodeToken!Live, CodeToken!Redeemed, CodeToken!Gone, CodeToken!Lapse
<1>1. CASE UNCHANGED <<clock, ticketVars, codeVars>>
  BY <1>1 DEF ticketVars, codeVars, LifeOf
<1>2. CASE Tick
  <2>1. /\ clock' = clock + 1 /\ clock' \in Nat
        /\ UNCHANGED <<ticketLife, ticketUntil, codeLife, codeUntil>>
    BY <1>2 DEF Tick, ticketVars, codeVars
  <2>2. StoresInv'
    BY <2>1
  <2>3. TT' = [x \in Tickets |-> IF ticketLife[x] = "live" /\ (ticketUntil[x] = None \/ clock' > ticketUntil[x])
                                 THEN "gone" ELSE ticketLife[x]]
    BY <2>1 DEF LifeOf, StoreHolds
  <2>4. CC' = [x \in Codes |-> IF codeLife[x] = "live" /\ (codeUntil[x] = None \/ clock' > codeUntil[x])
                               THEN "gone" ELSE codeLife[x]]
    BY <2>1 DEF LifeOf, StoreHolds
  <2>5. TicketToken!Lapse
    BY <2>1, <2>3, TickLapses
  <2>6. CodeToken!Lapse
    BY <2>1, <2>4, TickLapses
  <2>7. QED
    BY <2>2, <2>5, <2>6
<1>3. CASE TicketNext
  <2>1. UNCHANGED <<clock, codeLife, codeUntil>> /\ CC' = CC
    BY <1>3 DEF TicketNext, issueTicket, consumeTicket, codeVars, LifeOf
  <2>2. PICK t \in Tickets : issueTicket(t) \/ consumeTicket(t)
    BY <1>3 DEF TicketNext
  <2>3. CASE issueTicket(t)
    <3>0. PICK e \in Nat : e = clock + TokenTTL /\ e # None /\ ~(clock > e)
      BY ExpiryIsAhead
    <3>1. Issues(Tickets, ticketLife, ticketUntil, t, e, ticketLife', ticketUntil')
      BY <2>3, <3>0 DEF issueTicket, Issues, Swept, StoreHolds
    <3>2. /\ StoreHolds(Tickets, ticketLife', ticketUntil')
          /\ Moves(TT, LifeOf(ticketLife', ticketUntil'), t, "not issued", "live")
      BY <3>1, IssueIssues
    <3>3. TT' = LifeOf(ticketLife', ticketUntil')
      BY <2>1 DEF LifeOf
    <3>4. QED
      BY <2>1, <3>2, <3>3 DEF Moves
  <2>4. CASE consumeTicket(t)
    <3>1. /\ StoreHolds(Tickets, ticketLife, Swept(ticketUntil))
          /\ LifeOf(ticketLife, Swept(ticketUntil)) = TT
      BY SweepKeepsLives
    <3>2. Swept(ticketUntil)[t] # None => ~(clock > Swept(ticketUntil)[t])
      BY SweptAreAhead
    <3>3. Takes(Tickets, ticketLife, Swept(ticketUntil), t, ticketLife', ticketUntil')
      <4>1. ticketUntil' = [x \in Tickets |-> IF x = t THEN None ELSE Swept(ticketUntil)[x]]
        BY <2>4 DEF consumeTicket, Swept, StoreHolds
      <4>2. ticketLife' = IF Swept(ticketUntil)[t] = None THEN ticketLife ELSE Accepted(ticketLife, t)
        BY <2>4 DEF consumeTicket
      <4>3. QED
        BY <3>2, <4>1, <4>2 DEF Takes
    <3>4. /\ StoreHolds(Tickets, ticketLife', ticketUntil')
          /\ \/ LifeOf(ticketLife', ticketUntil') = TT
             \/ TT[t] = "live" /\ LifeOf(ticketLife', ticketUntil') = [TT EXCEPT ![t] = "redeemed"]
      BY <3>1, <3>3, TakeRedeems
    <3>5. TT' = LifeOf(ticketLife', ticketUntil')
      BY <2>1 DEF LifeOf
    <3>6. QED
      BY <2>1, <3>4, <3>5
  <2>5. QED
    BY <2>2, <2>3, <2>4
<1>4. CASE BootstrapNext
  <2>1. UNCHANGED <<clock, ticketLife, ticketUntil>> /\ TT' = TT
    BY <1>4 DEF BootstrapNext, issueBrowserBootstrap, redeemBrowserBootstrap, ticketVars, LifeOf
  <2>2. PICK t \in Codes : issueBrowserBootstrap(t) \/ redeemBrowserBootstrap(t)
    BY <1>4 DEF BootstrapNext
  <2>3. CASE issueBrowserBootstrap(t)
    <3>0. PICK e \in Nat : e = clock + TokenTTL /\ e # None /\ ~(clock > e)
      BY ExpiryIsAhead
    <3>1. Issues(Codes, codeLife, codeUntil, t, e, codeLife', codeUntil')
      BY <2>3, <3>0 DEF issueBrowserBootstrap, Issues, Swept, StoreHolds
    <3>2. /\ StoreHolds(Codes, codeLife', codeUntil')
          /\ Moves(CC, LifeOf(codeLife', codeUntil'), t, "not issued", "live")
      BY <3>1, IssueIssues
    <3>3. CC' = LifeOf(codeLife', codeUntil')
      BY <2>1 DEF LifeOf
    <3>4. QED
      BY <2>1, <3>2, <3>3 DEF Moves
  <2>4. CASE redeemBrowserBootstrap(t)
    <3>1. Takes(Codes, codeLife, codeUntil, t, codeLife', codeUntil')
      BY <2>4 DEF redeemBrowserBootstrap, Takes, StoreHolds
    <3>2. /\ StoreHolds(Codes, codeLife', codeUntil')
          /\ \/ LifeOf(codeLife', codeUntil') = CC
             \/ CC[t] = "live" /\ LifeOf(codeLife', codeUntil') = [CC EXCEPT ![t] = "redeemed"]
      BY <3>1, TakeRedeems
    <3>3. CC' = LifeOf(codeLife', codeUntil')
      BY <2>1 DEF LifeOf
    <3>4. QED
      BY <2>1, <3>2, <3>3 DEF Moves
  <2>5. QED
    BY <2>2, <2>3, <2>4
<1>5. ChallengeNext \/ LimiterNext \/ UNCHANGED tokenVars => UNCHANGED <<clock, ticketVars, codeVars>>
  BY DEF ChallengeNext, LimiterNext, issueChallenge, verifyExpiry, verifyPossession, allow,
     tokenVars, ticketVars, codeVars
<1>6. QED
  BY <1>1, <1>2, <1>3, <1>4, <1>5 DEF CodesNext

\* The stores of tickets and codes implement the one-time token.
THEOREM OneTimeUseHolds == CodesSpec => OneTimeUse
<1>1. TokensInit => StoresInv /\ TicketToken!Init /\ CodeToken!Init
  <2> SUFFICES ASSUME TokensInit PROVE StoresInv /\ TicketToken!Init /\ CodeToken!Init
    OBVIOUS
  <2> USE DEF TokensInit
  <2>1. StoreHolds(Tickets, ticketLife, ticketUntil) /\ StoreHolds(Codes, codeLife, codeUntil)
    BY DEF StoreHolds
  <2>2. TicketToken!Init
    BY DEF LifeOf, TicketToken!Init, TicketToken!NotYet
  <2>3. CodeToken!Init
    BY DEF LifeOf, CodeToken!Init, CodeToken!NotYet
  <2>4. QED
    BY <2>1, <2>2, <2>3 DEF StoresInv
<1>2. StoresInv /\ [CodesNext]_tokenVars => StoresInv'
  BY StoresStep
<1>3. CodesSpec => []StoresInv
  BY <1>1, <1>2, PTL DEF CodesSpec
<1>4. StoresInv /\ [CodesNext]_tokenVars => [TicketToken!Next]_(LifeOf(ticketLife, ticketUntil))
                                          /\ [CodeToken!Next]_(LifeOf(codeLife, codeUntil))
  BY StoresStep
<1>5. QED
  BY <1>1, <1>3, <1>4, PTL DEF CodesSpec, OneTimeUse, TicketsAreOneTime, CodesAreOneTime,
     TicketToken!Spec, CodeToken!Spec

\* A request that got past the expiry check read the clock while its challenge
\* was good; a challenge that was accepted is remembered until it expires.
Verifications == [chal : Challenges \cup {None}, read : Nat, pc : {"idle", "lock", "accepted", "refused"}]
Waiting(v) == verifying[v].pc \in {"lock", "accepted"}
ChallengeTypeOK ==
    /\ clock \in Nat /\ chalUntil \in [Challenges -> Nat \cup {None}]
    /\ redeemed \subseteq Challenges
    /\ verifying \in [Verifiers -> Verifications] /\ chalUses \in [Challenges -> Nat]
ReadInTime ==
    \A v \in Verifiers : Waiting(v) =>
        LET c == verifying[v].chal IN
        /\ c \in Challenges /\ chalUntil[c] # None /\ verifying[v].read < chalUntil[c]
        /\ verifying[v].read <= clock
UsedIsRemembered ==
    /\ \A c \in redeemed : chalUntil[c] # None
    /\ \A c \in Challenges : chalUses[c] > 0 =>
          chalUntil[c] # None /\ (c \in redeemed \/ clock >= chalUntil[c])

ChallengeInv == ChallengeTypeOK /\ ReadInTime /\ UsedIsRemembered /\ ChallengeReusedOnlyLate

\* Every step keeps the invariant.
LEMMA ChallengeStep ==
    ASSUME ChallengeInv, [CodesNext]_tokenVars
    PROVE  ChallengeInv'
<1> USE DEF ChallengeInv
<1>1. CASE UNCHANGED <<clock, challengeVars>>
  BY <1>1 DEF challengeVars, ChallengeTypeOK, ReadInTime, UsedIsRemembered, ChallengeReusedOnlyLate,
     Waiting
<1>2. CASE Tick
  <2> USE <1>2 DEF Tick, challengeVars
  <2>1. clock' = clock + 1 /\ clock' \in Nat
    BY DEF ChallengeTypeOK
  <2>t. ChallengeTypeOK'
    BY <2>1 DEF ChallengeTypeOK
  <2>2. ReadInTime'
    BY <2>1 DEF ChallengeTypeOK, Verifications, ReadInTime, Waiting
  <2>3. UsedIsRemembered'
    BY <2>1 DEF ChallengeTypeOK, UsedIsRemembered
  <2>4. ChallengeReusedOnlyLate'
    BY <2>1 DEF ChallengeTypeOK, ChallengeReusedOnlyLate, ReadInTime, Waiting
  <2>5. QED
    BY <2>t, <2>2, <2>3, <2>4
<1>3. ASSUME NEW c \in Challenges, issueChallenge(c)
      PROVE  ChallengeInv'
  <2> USE <1>3 DEF issueChallenge
  <2>0. clock \in Nat
    BY DEF ChallengeTypeOK
  <2>1. PICK e \in Nat : e = clock + TokenTTL /\ e # None /\ ~(clock > e)
    BY <2>0, ExpiryIsAhead
  <2>2. /\ chalUntil[c] = None /\ chalUntil' = [chalUntil EXCEPT ![c] = e]
        /\ UNCHANGED <<clock, redeemed, verifying, chalUses>>
    BY <2>1
  <2>3. ChallengeTypeOK'
    BY <2>2 DEF ChallengeTypeOK
  <2>4. ReadInTime'
    BY <2>2 DEF ChallengeTypeOK, Verifications, ReadInTime, Waiting
  <2>5. UsedIsRemembered'
    BY <2>1, <2>2 DEF ChallengeTypeOK, UsedIsRemembered
  <2>6. ChallengeReusedOnlyLate'
    BY <2>2 DEF ChallengeTypeOK, ChallengeReusedOnlyLate, UsedIsRemembered
  <2>7. QED
    BY <2>3, <2>4, <2>5, <2>6
<1>4. ASSUME NEW v \in Verifiers, NEW c \in Challenges, verifyExpiry(v, c)
      PROVE  ChallengeInv'
  <2> DEFINE y == [chal |-> c, read |-> clock, pc |-> IF clock < chalUntil[c] THEN "lock" ELSE "refused"]
  <2>1. /\ y \in Verifications /\ y.chal = c /\ y.read = clock
        /\ y.pc \in {"lock", "refused"} /\ (y.pc = "lock" => clock < chalUntil[c])
    BY DEF ChallengeTypeOK, Verifications
  <2>2. /\ verifying[v].pc = "idle" /\ chalUntil[c] # None
        /\ verifying' = [verifying EXCEPT ![v] = y]
        /\ UNCHANGED <<clock, chalUntil, redeemed, chalUses>>
    BY <1>4 DEF verifyExpiry
  <2> HIDE DEF y
  <2>3. ChallengeTypeOK'
    BY <2>1, <2>2 DEF ChallengeTypeOK
  <2>4. ReadInTime'
    BY <2>1, <2>2 DEF ChallengeTypeOK, Verifications, ReadInTime, Waiting
  <2>5. UsedIsRemembered'
    BY <2>2 DEF UsedIsRemembered
  <2>6. ChallengeReusedOnlyLate'
    BY <2>2 DEF ChallengeTypeOK, ChallengeReusedOnlyLate
  <2>7. QED
    BY <2>3, <2>4, <2>5, <2>6
<1>5. ASSUME NEW v \in Verifiers, verifyPossession(v)
      PROVE  ChallengeInv'
  <2> DEFINE c == verifying[v].chal
             r == verifying[v].read
  <2>1. /\ c \in Challenges /\ chalUntil[c] \in Nat /\ r \in Nat /\ r < chalUntil[c] /\ r <= clock
        /\ verifying[v].pc = "lock" /\ verifying[v] \in Verifications
    BY <1>5 DEF verifyPossession, ReadInTime, Waiting, ChallengeTypeOK, Verifications
  <2>2. PICK room \in SUBSET redeemed, ok \in BOOLEAN :
          /\ \A d \in redeemed \ room : ~(r < chalUntil[d])
          /\ ok => c \notin redeemed
          /\ redeemed' = IF c \in redeemed THEN redeemed ELSE IF ok THEN room \cup {c} ELSE room
          /\ chalUses' = [chalUses EXCEPT ![c] = @ + (IF ok THEN 1 ELSE 0)]
          /\ verifying' = [verifying EXCEPT ![v].pc = IF ok THEN "accepted" ELSE "refused"]
          /\ UNCHANGED <<clock, chalUntil>>
    <3> DEFINE room == IF Cardinality(redeemed) >= MaxRedeemed THEN gcLocked(redeemed, r) ELSE redeemed
               ok == c \notin redeemed /\ Cardinality(room) < MaxRedeemed
    <3>1. room \in SUBSET redeemed /\ \A d \in redeemed \ room : ~(r < chalUntil[d])
      BY DEF gcLocked
    <3>2. /\ redeemed' = IF c \in redeemed THEN redeemed ELSE IF ok THEN room \cup {c} ELSE room
          /\ chalUses' = [chalUses EXCEPT ![c] = @ + (IF ok THEN 1 ELSE 0)]
          /\ verifying' = [verifying EXCEPT ![v].pc = IF ok THEN "accepted" ELSE "refused"]
          /\ UNCHANGED <<clock, chalUntil>>
      BY <1>5 DEF verifyPossession
    <3>3. ok \in BOOLEAN /\ (ok => c \notin redeemed)
      OBVIOUS
    <3> HIDE DEF room, ok
    <3>4. QED
      BY <3>1, <3>2, <3>3
  <2> DEFINE y == [verifying[v] EXCEPT !.pc = IF ok THEN "accepted" ELSE "refused"]
  <2>3. /\ y \in Verifications /\ y.chal = c /\ y.read = r
        /\ y.pc \in {"accepted", "refused"} /\ (ok <=> y.pc = "accepted")
    BY <2>1 DEF Verifications
  <2>4. verifying' = [verifying EXCEPT ![v] = y]
    BY <2>2
  <2>5. /\ \A d \in Challenges : d # c => chalUses'[d] = chalUses[d]
        /\ ok => chalUses'[c] = chalUses[c] + 1
        /\ ~ok => chalUses'[c] = chalUses[c]
        /\ chalUses' \in [Challenges -> Nat]
    BY <2>1, <2>2 DEF ChallengeTypeOK
  <2>6. \A d \in redeemed \ redeemed' : chalUntil[d] \in Nat /\ clock >= chalUntil[d]
    <3> SUFFICES ASSUME NEW d \in redeemed,
            d \notin redeemed' PROVE chalUntil[d] \in Nat /\ clock >= chalUntil[d]
      OBVIOUS
    <3>1. ~(r < chalUntil[d])
      BY <2>2
    <3>2. chalUntil[d] \in Nat /\ clock \in Nat
      BY DEF ChallengeTypeOK, UsedIsRemembered
    <3>3. QED
      BY <2>1, <3>1, <3>2
  <2>7. redeemed' \subseteq redeemed \cup {c} /\ (ok => c \in redeemed' /\ c \notin redeemed)
    BY <2>2
  <2>8. UNCHANGED <<clock, chalUntil>>
    BY <2>2
  <2> HIDE DEF y, c, r
  <2>9. ChallengeTypeOK'
    BY <2>1, <2>3, <2>4, <2>5, <2>7, <2>8 DEF ChallengeTypeOK
  <2>10. ReadInTime'
    BY <2>1, <2>3, <2>4, <2>8, CodeNumbers DEF ReadInTime, Waiting, ChallengeTypeOK
  <2>11. UsedIsRemembered'
    <3>1. ASSUME NEW d \in Challenges, chalUses'[d] > 0
          PROVE  chalUntil[d] # None /\ (d \in redeemed' \/ clock >= chalUntil[d])
      <4>1. CASE d = c /\ ok
        BY <2>1, <2>7, <4>1, CodeNumbers
      <4>2. CASE ~(d = c /\ ok)
        <5>1. chalUses[d] > 0
          BY <2>5, <3>1, <4>2
        <5>2. QED
          BY <2>6, <5>1 DEF UsedIsRemembered
      <4>3. QED
        BY <4>1, <4>2
    <3>2. \A d \in redeemed' : chalUntil[d] # None
      BY <2>1, <2>7, CodeNumbers DEF UsedIsRemembered
    <3>3. QED
      BY <2>8, <3>1, <3>2 DEF UsedIsRemembered
  <2>12. ChallengeReusedOnlyLate'
    <3> SUFFICES ASSUME NEW d \in Challenges, chalUses'[d] > 1
                 PROVE  \E w \in Verifiers :
                           /\ verifying'[w].chal = d /\ verifying'[w].pc = "accepted"
                           /\ verifying'[w].read < chalUntil[d] /\ clock >= chalUntil[d]
      BY <2>8 DEF ChallengeReusedOnlyLate
    <3>1. CASE d = c /\ ok
      <4>1. chalUses[c] > 0
        BY <2>1, <2>5, <3>1 DEF ChallengeTypeOK
      <4>2. clock >= chalUntil[c]
        BY <2>1, <2>7, <3>1, <4>1 DEF UsedIsRemembered
      <4>3. verifying'[v] = y
        BY <2>4 DEF ChallengeTypeOK
      <4>4. QED
        BY <2>1, <2>3, <3>1, <4>2, <4>3
    <3>2. CASE ~(d = c /\ ok)
      <4>1. chalUses[d] > 1
        BY <2>5, <3>2
      <4>2. PICK w \in Verifiers :
              /\ verifying[w].chal = d /\ verifying[w].pc = "accepted"
              /\ verifying[w].read < chalUntil[d] /\ clock >= chalUntil[d]
        BY <4>1 DEF ChallengeReusedOnlyLate
      <4>3. verifying'[w] = verifying[w]
        BY <2>1, <2>4, <4>2 DEF ChallengeTypeOK
      <4>4. QED
        BY <4>2, <4>3
    <3>3. QED
      BY <3>1, <3>2
  <2>13. QED
    BY <2>9, <2>10, <2>11, <2>12
<1>6. TicketNext \/ BootstrapNext \/ LimiterNext \/ UNCHANGED tokenVars => UNCHANGED <<clock, challengeVars>>
  BY DEF TicketNext, BootstrapNext, LimiterNext, issueTicket, consumeTicket, issueBrowserBootstrap,
     redeemBrowserBootstrap, allow, tokenVars, challengeVars
<1>7. QED
  BY <1>1, <1>2, <1>3, <1>4, <1>5, <1>6 DEF CodesNext, ChallengeNext

\* The invariant of the challenges holds.
THEOREM ChallengeInvariant == CodesSpec => []ChallengeInv
<1>1. TokensInit => ChallengeInv
  <2> SUFFICES ASSUME TokensInit PROVE ChallengeInv
    OBVIOUS
  <2>1. Idle \in Verifications /\ Idle.pc = "idle"
    BY DEF Idle, Verifications
  <2>2. ChallengeTypeOK
    BY <2>1 DEF ChallengeTypeOK, TokensInit
  <2>3. ReadInTime
    BY <2>1 DEF ReadInTime, Waiting, TokensInit
  <2>4. UsedIsRemembered /\ ChallengeReusedOnlyLate
    <3>1. redeemed = {} /\ \A c \in Challenges : chalUses[c] = 0
      BY DEF TokensInit
    <3>2. \A c \in Challenges : ~(chalUses[c] > 0) /\ ~(chalUses[c] > 1)
      BY <3>1
    <3>3. QED
      BY <3>1, <3>2 DEF UsedIsRemembered, ChallengeReusedOnlyLate
  <2>5. QED
    BY <2>2, <2>3, <2>4 DEF ChallengeInv
<1>2. QED
  BY <1>1, ChallengeStep, PTL DEF CodesSpec

\* ChallengeReusedOnlyLate: only a request that read the clock in time and got
\* the mutex late is accepted with a used challenge, whatever the table holds
\* and whenever it is swept (challenge.go:92-136).
THEOREM ChallengesAreUsedOnce == CodesSpec => []ChallengeReusedOnlyLate
  BY ChallengeInvariant, PTL DEF ChallengeInv

(**** The rate limiter ****)

\* Times a are in order, from 1 up to time t.
Ordered(a, t) ==
    /\ a \in Seq(Nat)
    /\ \A i \in 1 .. Len(a) : 1 <= a[i] /\ a[i] <= t
    /\ \A i, j \in 1 .. Len(a) : i <= j => a[i] <= a[j]

\* The times s kept are the last of the times a, and what was dropped is out of the window
\* that ends at t.
IsTail(s, a, t) ==
    /\ s \in Seq(Nat) /\ Len(s) <= Len(a)
    /\ \A j \in 1 .. Len(s) : s[j] = a[Len(a) - Len(s) + j]
    /\ \A i \in 1 .. (Len(a) - Len(s)) : a[i] + RateWindow <= t

\* RateLimit requests on, at least a window has passed.
Spaced(a) ==
    \A i \in 1 .. Len(a) : i + RateLimit <= Len(a) => a[i] + RateWindow <= a[i + RateLimit]

Kept(reqs, k) == IF k \in DOMAIN reqs THEN reqs[k] ELSE << >>
Cutoff(t) == IF t >= RateWindow THEN t - RateWindow ELSE 0

LimiterInv ==
    /\ clock \in Nat /\ clock >= 1
    /\ DOMAIN limiter \subseteq Clients
    /\ lastSweep \in Nat \cup {None} /\ (lastSweep # None => lastSweep <= clock)
    /\ admitted \in [Clients -> Seq(Nat)]
    /\ \A k \in Clients : /\ Ordered(admitted[k], clock) /\ Spaced(admitted[k])
                          /\ IsTail(Kept(limiter, k), admitted[k], clock)

\* Positions that come before all others are counted by the last of them.
LEMMA FirstOnes ==
    ASSUME NEW n \in Nat, NEW S \in SUBSET (1 .. n),
           \A i \in S, j \in 1 .. n : j <= i => j \in S
    PROVE  Cardinality(S) \in 0 .. n /\ S = 1 .. Cardinality(S)
<1>1. IsFiniteSet(1 .. n) /\ Cardinality(1 .. n) = n
  BY FS_Interval
<1>2. IsFiniteSet(S) /\ Cardinality(S) <= n /\ Cardinality(S) \in Nat
  BY <1>1, FS_Subset, FS_CardinalityType
<1> DEFINE c == Cardinality(S)
<1>3. ASSUME NEW i \in S PROVE i \in 1 .. c
  <2>1. 1 .. i \in SUBSET S
    OBVIOUS
  <2>2. Cardinality(1 .. i) = i
    BY FS_Interval
  <2>3. Cardinality(1 .. i) <= c
    BY <1>2, <2>1, FS_Subset
  <2>4. QED
    BY <1>2, <2>2, <2>3
<1>4. S \in SUBSET (1 .. c)
  BY <1>3
<1>5. IsFiniteSet(1 .. c) /\ Cardinality(1 .. c) = c
  BY <1>2, FS_Interval
<1>6. S = 1 .. c
  BY <1>4, <1>5, FS_Subset
<1>7. QED
  BY <1>2, <1>6

\* What is at or before the cutoff is out of the window.
LEMMA CutoffIsPast ==
    ASSUME NEW t \in Nat, NEW x \in Nat, x >= 1, x <= Cutoff(t)
    PROVE  x + RateWindow <= t
  BY CodeNumbers DEF Cutoff

\* Dropping a tail's times up to the cutoff leaves a tail.
LEMMA RecentIsTail ==
    ASSUME NEW t \in Nat, NEW a, NEW s, Ordered(a, t), IsTail(s, a, t)
    PROVE  IsTail(Recent(s, Cutoff(t)), a, t)
<1> DEFINE old == {i \in DOMAIN s : s[i] <= Cutoff(t)}
           n == Len(s)
           m == Len(a) - Len(s)
           c == Cardinality(old)
           r == SubSeq(s, c + 1, n)
<1>0. /\ s \in Seq(Nat) /\ n \in Nat /\ Len(a) \in Nat /\ m \in Nat /\ DOMAIN s = 1 .. n
      /\ a \in Seq(Nat) /\ m + n = Len(a)
  BY DEF Ordered, IsTail
<1>1. \A j \in 1 .. n : s[j] = a[m + j] /\ s[j] \in Nat /\ s[j] >= 1 /\ m + j \in 1 .. Len(a)
  <2>1. ASSUME NEW j \in 1 .. n PROVE s[j] = a[m + j] /\ m + j \in 1 .. Len(a)
    BY <1>0 DEF IsTail
  <2>2. QED
    BY <1>0, <2>1 DEF Ordered
<1>c. Cutoff(t) \in Nat
  BY CodeNumbers DEF Cutoff
<1>2. \A i \in old, j \in 1 .. n : j <= i => j \in old
  <2> SUFFICES ASSUME NEW i \in old, NEW j \in 1 .. n, j <= i PROVE s[j] <= Cutoff(t)
    BY <1>0
  <2>1. s[i] <= Cutoff(t) /\ i \in 1 .. n
    BY <1>0
  <2>2. a[m + j] <= a[m + i]
    <3>1. m + j \in 1 .. Len(a) /\ m + i \in 1 .. Len(a) /\ m + j <= m + i
      BY <1>0, <2>1
    <3>2. QED
      BY <3>1 DEF Ordered
  <2>3. QED
    BY <1>1, <1>c, <2>1, <2>2
<1>3. c \in 0 .. n /\ old = 1 .. c
  BY <1>0, <1>2, FirstOnes
<1>4. \A j \in 1 .. c : s[j] <= Cutoff(t)
  BY <1>3
<1> HIDE DEF old, c
<1>5. r \in Seq(Nat) /\ Len(r) = n - c /\ \A j \in 1 .. (n - c) : r[j] = s[c + j]
  <2>0. c + 1 \in Int /\ n \in Int /\ \A i \in c + 1 .. n : s[i] \in Nat
    BY <1>0, <1>3
  <2>1. r \in Seq(Nat) /\ Len(r) = IF c + 1 <= n THEN n - (c + 1) + 1 ELSE 0
    BY <2>0, SubSeqProperties
  <2> HIDE DEF r
  <2>2. Len(r) = n - c
    <3>1. c \in Nat /\ n \in Nat /\ c <= n
      BY <1>0, <1>3
    <3> HIDE DEF n
    <3>2. QED
      BY <2>1, <3>1
  <2>3. ASSUME NEW j \in 1 .. (n - c) PROVE r[j] = s[c + j]
    <3>1. j \in 1 .. (n - (c + 1) + 1) /\ (c + 1) + j - 1 = c + j
      BY <1>0, <1>3
    <3>2. QED
      BY <2>0, <3>1, SubSeqProperties DEF r
  <2>4. QED
    BY <2>1, <2>2, <2>3
<1>6. \A j \in 1 .. (n - c) : r[j] = a[Len(a) - (n - c) + j]
  <2> SUFFICES ASSUME NEW j \in 1 .. (n - c) PROVE r[j] = a[Len(a) - (n - c) + j]
    OBVIOUS
  <2>1. c + j \in 1 .. n /\ m + (c + j) = Len(a) - (n - c) + j
    BY <1>0, <1>3
  <2>2. QED
    BY <1>1, <1>5, <2>1
<1>7. \A i \in 1 .. (Len(a) - (n - c)) : a[i] + RateWindow <= t
  <2> SUFFICES ASSUME NEW i \in 1 .. (Len(a) - (n - c)) PROVE a[i] + RateWindow <= t
    OBVIOUS
  <2>1. CASE i <= m
    BY <1>0, <2>1 DEF IsTail
  <2>2. CASE i > m
    <3>1. i - m \in 1 .. c /\ i - m \in 1 .. n /\ m + (i - m) = i
      BY <1>0, <1>3, <2>2
    <3>2. s[i - m] = a[i] /\ s[i - m] \in Nat /\ s[i - m] >= 1 /\ s[i - m] <= Cutoff(t)
      BY <1>1, <1>4, <3>1
    <3>3. QED
      BY <3>2, CutoffIsPast
  <2>3. QED
    BY <1>0, <2>1, <2>2
<1>8. Recent(s, Cutoff(t)) = r
  BY <1>0 DEF Recent, old, c
<1> HIDE DEF r
<1>9. n - c <= Len(a)
  BY <1>0, <1>3
<1>10. IsTail(r, a, t)
  BY <1>5, <1>6, <1>7, <1>9 DEF IsTail
<1>11. QED
  BY <1>8, <1>10

\* A key whose newest time is at or before the cutoff keeps nothing in the window.
LEMMA ForgottenIsPast ==
    ASSUME NEW t \in Nat, NEW a, NEW s, Ordered(a, t), IsTail(s, a, t),
           s = << >> \/ ~(s[Len(s)] > Cutoff(t))
    PROVE  IsTail(<< >>, a, t)
<1>1. CASE s = << >>
  BY <1>1
<1>2. CASE s # << >> /\ ~(s[Len(s)] > Cutoff(t))
  <2>1. /\ s \in Seq(Nat) /\ Len(s) \in Nat /\ Len(s) >= 1 /\ a \in Seq(Nat) /\ Len(a) \in Nat
        /\ Len(s) <= Len(a) /\ Len(s) \in 1 .. Len(s)
    BY <1>2 DEF Ordered, IsTail
  <2>2. s[Len(s)] = a[Len(a)] /\ a[Len(a)] \in Nat /\ 1 <= a[Len(a)]
    BY <2>1 DEF Ordered, IsTail
  <2>3. Cutoff(t) \in Nat
    BY CodeNumbers DEF Cutoff
  <2>4. a[Len(a)] + RateWindow <= t
    BY <1>2, <2>2, <2>3, CutoffIsPast
  <2>5. \A i \in 1 .. Len(a) : a[i] + RateWindow <= t
    <3> SUFFICES ASSUME NEW i \in 1 .. Len(a) PROVE a[i] + RateWindow <= t
      OBVIOUS
    <3>1. a[i] <= a[Len(a)] /\ a[i] \in Nat
      BY <2>1 DEF Ordered
    <3>2. QED
      BY <2>2, <2>4, <3>1, CodeNumbers
  <2>6. QED
    BY <2>1, <2>5 DEF IsTail
<1>3. QED
  BY <1>1, <1>2

\* With room in the window the times stay spaced when one is added.
LEMMA AdmittedIsSpaced ==
    ASSUME NEW t \in Nat, t >= 1, NEW a, NEW s, Ordered(a, t), IsTail(s, a, t), Spaced(a),
           Len(s) < RateLimit
    PROVE  /\ Ordered(Append(a, t), t) /\ Spaced(Append(a, t))
           /\ IsTail(Append(s, t), Append(a, t), t)
<1> DEFINE b == Append(a, t)
           r == Append(s, t)
<1>0. /\ a \in Seq(Nat) /\ Len(a) \in Nat /\ b \in Seq(Nat) /\ Len(b) = Len(a) + 1
      /\ b[Len(a) + 1] = t /\ \A i \in 1 .. Len(a) : b[i] = a[i] /\ a[i] \in Nat
  BY DEF Ordered
<1>1. /\ s \in Seq(Nat) /\ Len(s) \in Nat /\ r \in Seq(Nat) /\ Len(r) = Len(s) + 1
      /\ r[Len(s) + 1] = t /\ \A i \in 1 .. Len(s) : r[i] = s[i]
      /\ Len(s) <= Len(a)
  BY DEF IsTail
<1> HIDE DEF b, r
<1>2. Ordered(b, t)
  <2>1. \A i \in 1 .. Len(b) : 1 <= b[i] /\ b[i] <= t
    BY <1>0 DEF Ordered
  <2>2. ASSUME NEW i \in 1 .. Len(b), NEW j \in 1 .. Len(b), i <= j PROVE b[i] <= b[j]
    <3>1. CASE j = Len(a) + 1
      BY <1>0, <2>1, <3>1
    <3>2. CASE j \in 1 .. Len(a)
      <4>1. i \in 1 .. Len(a)
        BY <1>0, <2>2, <3>2
      <4>2. QED
        BY <1>0, <2>2, <3>2, <4>1 DEF Ordered
    <3>3. QED
      BY <1>0, <3>1, <3>2
  <2>3. QED
    BY <1>0, <2>1, <2>2 DEF Ordered
<1>3. Spaced(b)
  <2> SUFFICES ASSUME NEW i \in 1 .. Len(b), i + RateLimit <= Len(b)
               PROVE  b[i] + RateWindow <= b[i + RateLimit]
    BY DEF Spaced
  <2>0. i \in 1 .. Len(a)
    BY <1>0, <1>1, CodeNumbers
  <2>1. CASE i + RateLimit <= Len(a)
    <3>1. i + RateLimit \in 1 .. Len(a)
      BY <1>0, <2>0, <2>1, CodeNumbers
    <3>2. QED
      BY <1>0, <2>0, <2>1, <3>1 DEF Spaced
  <2>2. CASE i + RateLimit = Len(a) + 1
    <3>1. i \in 1 .. (Len(a) - Len(s))
      BY <1>0, <1>1, <2>0, <2>2, CodeNumbers
    <3>2. a[i] + RateWindow <= t
      BY <3>1 DEF IsTail
    <3>3. QED
      BY <1>0, <2>0, <2>2, <3>2
  <2>3. i + RateLimit <= Len(a) \/ i + RateLimit = Len(a) + 1
    <3>1. i \in Nat /\ RateLimit \in Nat /\ Len(a) \in Nat /\ i + RateLimit <= Len(a) + 1
      BY <1>0, <2>0, CodeNumbers
    <3>2. QED
      BY <3>1
  <2>4. QED
    BY <2>1, <2>2, <2>3
<1>4. IsTail(r, b, t)
  <2>1. Len(b) - Len(r) = Len(a) - Len(s) /\ Len(r) <= Len(b)
    BY <1>0, <1>1
  <2>2. \A j \in 1 .. Len(r) : r[j] = b[Len(a) - Len(s) + j]
    <3> SUFFICES ASSUME NEW j \in 1 .. Len(r) PROVE r[j] = b[Len(a) - Len(s) + j]
      OBVIOUS
    <3>1. CASE j \in 1 .. Len(s)
      <4>1. Len(a) - Len(s) + j \in 1 .. Len(a)
        BY <1>0, <1>1, <3>1
      <4>2. QED
        BY <1>0, <1>1, <3>1, <4>1 DEF IsTail
    <3>2. CASE j = Len(s) + 1
      <4>1. Len(a) - Len(s) + j = Len(a) + 1
        BY <1>0, <1>1, <3>2
      <4>2. QED
        BY <1>0, <1>1, <3>2, <4>1
    <3>3. QED
      BY <1>1, <3>1, <3>2
  <2>3. \A i \in 1 .. (Len(a) - Len(s)) : b[i] + RateWindow <= t
    <3> SUFFICES ASSUME NEW i \in 1 .. (Len(a) - Len(s)) PROVE b[i] + RateWindow <= t
      OBVIOUS
    <3>1. i \in 1 .. Len(a)
      BY <1>0, <1>1
    <3>2. QED
      BY <1>0, <3>1 DEF IsTail
  <2>4. QED
    BY <1>1, <2>1, <2>2, <2>3 DEF IsTail
<1>5. QED
  BY <1>2, <1>3, <1>4 DEF b, r

\* Nothing is undone by time.
LEMMA LaterIsStillTail ==
    ASSUME NEW t \in Nat, NEW a, NEW s, Ordered(a, t), IsTail(s, a, t)
    PROVE  Ordered(a, t + 1) /\ IsTail(s, a, t + 1)
<1>1. Len(a) \in Nat /\ Len(s) \in Nat /\ \A i \in 1 .. Len(a) : a[i] \in Nat
  BY DEF Ordered, IsTail
<1>2. Ordered(a, t + 1)
  BY <1>1 DEF Ordered
<1>3. IsTail(s, a, t + 1)
  BY <1>1, CodeNumbers DEF IsTail
<1>4. QED
  BY <1>2, <1>3

\* A call of the limiter keeps what it knows.
LEMMA AllowKeepsTails ==
    ASSUME LimiterInv, NEW k \in Clients, allow(k)
    PROVE  LimiterInv'
<1> DEFINE cutoff == IF clock >= RateWindow THEN clock - RateWindow ELSE 0
           sweep  == lastSweep = None \/ clock - lastSweep >= RateWindow
           reqs   == IF sweep THEN sweepLocked(limiter, cutoff) ELSE limiter
           recent == Recent(IF k \in DOMAIN reqs THEN reqs[k] ELSE << >>, cutoff)
           ok     == Len(recent) < RateLimit
<1>0. /\ limiter' = [x \in DOMAIN reqs \cup {k} |->
                       IF x # k THEN reqs[x] ELSE IF ok THEN Append(recent, clock) ELSE recent]
      /\ lastSweep' = (IF sweep THEN clock ELSE lastSweep) /\ clock' = clock
      /\ admitted' = IF ok THEN [admitted EXCEPT ![k] = Append(@, clock)] ELSE admitted
  BY DEF allow
<1>1. cutoff = Cutoff(clock) /\ clock \in Nat /\ clock >= 1 /\ admitted \in [Clients -> Seq(Nat)]
      /\ DOMAIN limiter \subseteq Clients /\ lastSweep \in Nat \cup {None}
  BY DEF Cutoff, LimiterInv
<1>2. DOMAIN reqs \subseteq Clients /\ \A x \in Clients : IsTail(Kept(reqs, x), admitted[x], clock)
  <2>1. CASE ~sweep
    BY <2>1 DEF LimiterInv
  <2>2. CASE sweep
    <3> DEFINE kept == {x \in DOMAIN limiter : limiter[x] # << >> /\ limiter[x][Len(limiter[x])] > cutoff}
    <3>1. reqs = [x \in kept |-> limiter[x]] /\ DOMAIN reqs = kept
      BY <2>2 DEF sweepLocked
    <3>2. ASSUME NEW x \in Clients PROVE IsTail(Kept(reqs, x), admitted[x], clock)
      <4>1. Ordered(admitted[x], clock) /\ IsTail(Kept(limiter, x), admitted[x], clock)
        BY DEF LimiterInv
      <4>2. CASE x \in kept
        BY <3>1, <4>1, <4>2 DEF Kept
      <4>3. CASE x \notin kept
        <5>1. Kept(reqs, x) = << >>
          BY <3>1, <4>3 DEF Kept
        <5>2. Kept(limiter, x) = << >> \/ ~(Kept(limiter, x)[Len(Kept(limiter, x))] > Cutoff(clock))
          BY <1>1, <4>3 DEF Kept
        <5>3. QED
          BY <1>1, <4>1, <5>1, <5>2, ForgottenIsPast
      <4>4. QED
        BY <4>2, <4>3
    <3>3. QED
      BY <1>1, <3>1, <3>2
  <2>3. QED
    BY <2>1, <2>2
<1>3. Ordered(admitted[k], clock) /\ Spaced(admitted[k]) /\ IsTail(recent, admitted[k], clock)
  <2>1. IsTail(Recent(Kept(reqs, k), Cutoff(clock)), admitted[k], clock)
    BY <1>1, <1>2, RecentIsTail DEF LimiterInv
  <2>2. QED
    BY <1>1, <2>1 DEF Kept, LimiterInv
<1>4. lastSweep' \in Nat \cup {None} /\ (lastSweep' # None => lastSweep' <= clock')
  BY <1>0, <1>1 DEF LimiterInv
<1> HIDE DEF cutoff, sweep, reqs, recent, ok
<1>5. DOMAIN limiter' \subseteq Clients /\ Kept(limiter', k) = IF ok THEN Append(recent, clock) ELSE recent
  BY <1>0, <1>2 DEF Kept
<1>6. \A x \in Clients : x # k => Kept(limiter', x) = Kept(reqs, x)
  BY <1>0 DEF Kept
<1>7. CASE ok
  <2>1. /\ Ordered(Append(admitted[k], clock), clock) /\ Spaced(Append(admitted[k], clock))
        /\ IsTail(Append(recent, clock), Append(admitted[k], clock), clock)
    BY <1>1, <1>3, <1>7, AdmittedIsSpaced DEF ok
  <2>2. admitted' = [admitted EXCEPT ![k] = Append(admitted[k], clock)]
    BY <1>0, <1>7
  <2>3. Append(admitted[k], clock) \in Seq(Nat)
    BY <1>1
  <2>4. /\ admitted' \in [Clients -> Seq(Nat)] /\ admitted'[k] = Append(admitted[k], clock)
        /\ \A x \in Clients : x # k => admitted'[x] = admitted[x]
    BY <1>1, <2>2, <2>3
  <2>5. ASSUME NEW x \in Clients
        PROVE  /\ Ordered(admitted'[x], clock') /\ Spaced(admitted'[x])
               /\ IsTail(Kept(limiter', x), admitted'[x], clock')
    <3>1. CASE x = k
      BY <1>0, <1>5, <1>7, <2>1, <2>4, <3>1
    <3>2. CASE x # k
      BY <1>0, <1>2, <1>6, <2>4, <3>2 DEF LimiterInv
    <3>3. QED
      BY <3>1, <3>2
  <2>6. QED
    BY <1>0, <1>1, <1>4, <1>5, <2>4, <2>5 DEF LimiterInv
<1>8. CASE ~ok
  <2>1. admitted' = admitted
    BY <1>0, <1>8
  <2>2. ASSUME NEW x \in Clients
        PROVE  /\ Ordered(admitted'[x], clock') /\ Spaced(admitted'[x])
               /\ IsTail(Kept(limiter', x), admitted'[x], clock')
    BY <1>0, <1>2, <1>3, <1>5, <1>6, <1>8, <2>1 DEF LimiterInv
  <2>3. QED
    BY <1>0, <1>1, <1>4, <1>5, <2>1, <2>2 DEF LimiterInv
<1>9. QED
  BY <1>7, <1>8

\* The types of the stores and of what verifies.
LEMMA CodesTyped ==
    ASSUME TokensTypeOK, LimiterInv, LimiterInv', ChallengeInv', [CodesNext]_tokenVars
    PROVE  TokensTypeOK'
<1> USE CodeNumbers
<1> DEFINE Verified == [chal : Challenges \cup {None}, read : Times,
                        pc : {"idle", "lock", "accepted", "refused"}]
           Ends == Times \cup {None}
           ChalOK == /\ chalUntil \in [Challenges -> Ends] /\ redeemed \subseteq Challenges
                     /\ verifying \in [Verifiers -> Verified] /\ chalUses \in [Challenges -> Nat]
           LimitOK == /\ DOMAIN limiter \subseteq Clients /\ \A k \in DOMAIN limiter : limiter[k] \in Seq(Times)
                      /\ lastSweep \in Ends
<1>0. /\ clock \in 0 .. MaxTime /\ ChalOK /\ ticketUntil \in [Tickets -> Ends]
      /\ codeUntil \in [Codes -> Ends] /\ LimitOK
  BY DEF TokensTypeOK
<1>1. clock \in Times /\ clock + TokenTTL \in Times /\ None \in Ends
  BY <1>0 DEF Times
<1>2. clock' \in 0 .. MaxTime
  <2>1. clock' = clock \/ (clock < MaxTime /\ clock' = clock + 1)
    BY DEF CodesNext, Tick, ChallengeNext, TicketNext, BootstrapNext, LimiterNext, issueChallenge,
       verifyExpiry, verifyPossession, issueTicket, consumeTicket, issueBrowserBootstrap,
       redeemBrowserBootstrap, allow, tokenVars
  <2>2. QED
    BY <1>0, <2>1
<1>3. LimitOK'
  <2>1. ASSUME NEW k \in Clients, k \in DOMAIN limiter' PROVE limiter'[k] \in Seq(Times)
    <3> DEFINE s == limiter'[k]
               a == admitted'[k]
    <3>1. Ordered(a, clock') /\ IsTail(s, a, clock')
      BY <2>1 DEF LimiterInv, Kept
    <3> HIDE DEF s, a
    <3>2. s \in Seq(Nat) /\ Len(s) \in Nat /\ Len(a) \in Nat /\ Len(s) <= Len(a)
      BY <3>1 DEF Ordered, IsTail
    <3>3. ASSUME NEW j \in 1 .. Len(s) PROVE s[j] \in Times
      <4>1. Len(a) - Len(s) + j \in 1 .. Len(a)
        BY <3>2
      <4>2. s[j] = a[Len(a) - Len(s) + j] /\ s[j] \in Nat
        BY <3>1, <3>2 DEF IsTail
      <4>3. s[j] <= clock'
        BY <3>1, <4>1, <4>2 DEF Ordered
      <4>4. QED
        BY <1>2, <4>2, <4>3 DEF Times
    <3>4. s \in Seq(Times)
      BY <3>2, <3>3
    <3>5. QED
      BY <3>4 DEF s
  <2>2. lastSweep' \in Ends
    <3>1. lastSweep' \in Nat \cup {None} /\ (lastSweep' # None => lastSweep' <= clock')
      BY DEF LimiterInv
    <3>2. QED
      BY <1>2, <3>1 DEF Times
  <2>3. QED
    BY <2>1, <2>2 DEF LimiterInv
<1>4. ASSUME NEW X, NEW until \in [X -> Ends] PROVE Swept(until) \in [X -> Ends]
  BY <1>1 DEF Swept
<1>5. ChalOK' /\ ticketUntil' \in [Tickets -> Ends] /\ codeUntil' \in [Codes -> Ends]
  <2>1. CASE Tick \/ LimiterNext \/ UNCHANGED tokenVars
    BY <1>0, <2>1 DEF Tick, LimiterNext, tokenVars, challengeVars, ticketVars, codeVars
  <2>2. CASE TicketNext
    <3>1. UNCHANGED <<challengeVars, codeVars>> /\ Swept(ticketUntil) \in [Tickets -> Ends]
      BY <1>0, <1>4, <2>2 DEF TicketNext
    <3>2. ticketUntil' \in [Tickets -> Ends]
      BY <1>1, <2>2, <3>1 DEF TicketNext, issueTicket, consumeTicket
    <3>3. QED
      BY <1>0, <3>1, <3>2 DEF challengeVars, codeVars
  <2>3. CASE BootstrapNext
    <3>1. UNCHANGED <<challengeVars, ticketVars>> /\ Swept(codeUntil) \in [Codes -> Ends]
      BY <1>0, <1>4, <2>3 DEF BootstrapNext
    <3>2. codeUntil' \in [Codes -> Ends]
      BY <1>0, <1>1, <2>3, <3>1 DEF BootstrapNext, issueBrowserBootstrap, redeemBrowserBootstrap
    <3>3. QED
      BY <1>0, <3>1, <3>2 DEF challengeVars, ticketVars
  <2>4. CASE ChallengeNext
    <3>1. UNCHANGED <<ticketVars, codeVars>>
      BY <2>4 DEF ChallengeNext
    <3>2. ASSUME NEW c \in Challenges, issueChallenge(c) PROVE ChalOK'
      BY <1>0, <1>1, <3>2 DEF issueChallenge
    <3>3. ASSUME NEW v \in Verifiers, NEW c \in Challenges, verifyExpiry(v, c) PROVE ChalOK'
      <4> DEFINE y == [chal |-> c, read |-> clock, pc |-> IF clock < chalUntil[c] THEN "lock" ELSE "refused"]
      <4>1. y \in Verified /\ verifying' = [verifying EXCEPT ![v] = y]
        BY <1>1, <3>3 DEF verifyExpiry
      <4> HIDE DEF y
      <4>2. verifying' \in [Verifiers -> Verified]
        BY <1>0, <4>1
      <4>3. QED
        BY <1>0, <3>3, <4>2 DEF verifyExpiry
    <3>4. ASSUME NEW v \in Verifiers, verifyPossession(v) PROVE ChalOK'
      <4>1. /\ UNCHANGED chalUntil /\ redeemed' \subseteq Challenges
            /\ chalUses' \in [Challenges -> Nat]
        BY <3>4 DEF verifyPossession, ChallengeInv, ChallengeTypeOK
      <4>2. verifying' \in [Verifiers -> Verified]
        BY <1>0, <3>4 DEF verifyPossession
      <4>3. QED
        BY <1>0, <4>1, <4>2
    <3>5. QED
      BY <1>0, <2>4, <3>1, <3>2, <3>3, <3>4 DEF ChallengeNext, ticketVars, codeVars
  <2>5. QED
    BY <2>1, <2>2, <2>3, <2>4 DEF CodesNext
<1>6. QED
  BY <1>2, <1>3, <1>5 DEF TokensTypeOK

\* No step lets more requests of a key through in a window than the limit.
LEMMA LimiterStep ==
    ASSUME LimiterInv, [CodesNext]_tokenVars
    PROVE  LimiterInv'
<1>1. CASE Tick
  <2>1. clock' = clock + 1 /\ UNCHANGED <<limiter, lastSweep, admitted>>
    BY <1>1 DEF Tick, limiterVars
  <2>2. ASSUME NEW k \in Clients
        PROVE  Ordered(admitted[k], clock + 1) /\ IsTail(Kept(limiter, k), admitted[k], clock + 1)
    BY LaterIsStillTail DEF LimiterInv
  <2>3. clock' \in Nat /\ clock' >= 1 /\ (lastSweep # None => lastSweep <= clock')
    BY <2>1 DEF LimiterInv
  <2>4. QED
    BY <2>1, <2>2, <2>3 DEF LimiterInv
<1>2. CASE LimiterNext
  BY <1>2, AllowKeepsTails DEF LimiterNext
<1>3. CASE ChallengeNext \/ TicketNext \/ BootstrapNext \/ UNCHANGED tokenVars
  <2>1. UNCHANGED <<clock, limiter, lastSweep, admitted>>
    BY <1>3 DEF ChallengeNext, TicketNext, BootstrapNext, issueChallenge, verifyExpiry,
       verifyPossession,
       issueTicket, consumeTicket, issueBrowserBootstrap, redeemBrowserBootstrap, tokenVars,
       limiterVars
  <2>2. QED
    BY <2>1 DEF LimiterInv
<1>4. QED
  BY <1>1, <1>2, <1>3 DEF CodesNext

\* For any limit, any window and any number of challenges: no window holds more requests of a
\* key than the limit, whatever the sweeps dropped, and a challenge is not replayed
\* (rateLimiter.allow, challengeStore.Verify).
THEOREM LoginStaysLimited == CodesSpec => []LoginIsLimited
<1>1. TokensInit => TokensTypeOK /\ LimiterInv
  <2> SUFFICES ASSUME TokensInit PROVE TokensTypeOK /\ LimiterInv
    OBVIOUS
  <2>1. LimiterInv
    <3>1. IsTail(<< >>, << >>, 1) /\ Ordered(<< >>, 1) /\ Spaced(<< >>)
      BY DEF IsTail, Ordered, Spaced
    <3>2. DOMAIN limiter = {} /\ clock = 1 /\ lastSweep = None
      <4>1. limiter = << >> /\ clock = 1 /\ lastSweep = None
        BY DEF TokensInit
      <4>2. QED
        BY <4>1
    <3>3. admitted \in [Clients -> Seq(Nat)] /\ \A k \in Clients : admitted[k] = << >>
      <4>1. admitted = [k \in Clients |-> << >>]
        BY DEF TokensInit
      <4>2. << >> \in Seq(Nat)
        OBVIOUS
      <4>3. QED
        BY <4>1, <4>2
    <3>4. \A k \in Clients : Kept(limiter, k) = << >>
      BY <3>2 DEF Kept
    <3>5. QED
      BY <3>1, <3>2, <3>3, <3>4 DEF LimiterInv
  <2>2. TokensTypeOK
    <3>1. 1 \in 0 .. MaxTime /\ 0 \in Times
      BY CodeAssumption, CodeNumbers DEF Times
    <3>2. verifying \in [Verifiers -> [chal : Challenges \cup {None}, read : Times,
                                       pc : {"idle", "lock", "accepted", "refused"}]]
      BY <3>1 DEF TokensInit, Idle
    <3>3. DOMAIN limiter = {}
      <4>1. limiter = << >>
        BY DEF TokensInit
      <4>2. QED
        BY <4>1
    <3>4. chalUses \in [Challenges -> Nat]
      BY DEF TokensInit
    <3>5. QED
      BY <3>1, <3>2, <3>3, <3>4 DEF TokensInit, TokensTypeOK
  <2>3. QED
    BY <2>1, <2>2
<1>2. TokensTypeOK /\ LimiterInv /\ ChallengeInv' /\ [CodesNext]_tokenVars => TokensTypeOK' /\ LimiterInv'
  BY CodesTyped, LimiterStep
<1>3. LimiterInv => RateIsBounded
  <2> SUFFICES ASSUME LimiterInv, NEW k \in Clients, NEW i \in DOMAIN admitted[k],
                      i + RateLimit \in DOMAIN admitted[k]
               PROVE  admitted[k][i + RateLimit] - admitted[k][i] >= RateWindow
    BY DEF RateIsBounded
  <2> DEFINE a == admitted[k]
  <2>1. a \in Seq(Nat) /\ DOMAIN a = 1 .. Len(a) /\ Spaced(a) /\ Len(a) \in Nat
    BY DEF LimiterInv
  <2>2. a[i] \in Nat /\ a[i + RateLimit] \in Nat /\ i \in 1 .. Len(a) /\ i + RateLimit <= Len(a)
    BY <2>1, CodeNumbers
  <2>3. a[i] + RateWindow <= a[i + RateLimit]
    BY <2>1, <2>2 DEF Spaced
  <2>4. QED
    BY <2>2, <2>3, CodeNumbers
<1>4. TokensTypeOK /\ LimiterInv /\ ChallengeInv => LoginIsLimited
  BY <1>3 DEF ChallengeInv, LoginIsLimited
<1>5. QED
  BY <1>1, <1>2, <1>4, ChallengeInvariant, PTL DEF CodesSpec

(**** The account ****)

\* Every copy of the row is well formed: a password needs the factor, the
\* factor its secret.
WellFormed(u) ==
    /\ u \in Row
    /\ u.password => u.mfa
    /\ u.mfa <=> u.secret # Nothing
    /\ u.backup => u.mfa

\* What a call holds by itself: an offer it has loaded, the passkey it was
\* asked to delete.
Holds(y) ==
    /\ y \in CallStates /\ WellFormed(y.mine) /\ IsFiniteSet(y.keys)
    /\ y.pc \in {"get", "take", "store"} => y.pending # Nothing
    /\ y.pc = "got" /\ y.work = "mfaConfirm" => y.pending # Nothing
    /\ y.pc = "remove" => y.key \in y.keys

\* A call no write has overtaken has the row and the passkeys as they are.
Flagging == {"flag", "reread", "unflag"}
UpToDate(y, v, r, ks) ==
    y.version = v =>
        /\ y.pc \in {"got", "take", "store", "verified", "create", "flag", "unflag"} => y.mine = r
        /\ y.pc = "remove" => y.keys = ks
        /\ y.pc = "flag" => ks # {}
        /\ y.pc \in {"reread", "unflag"} => ks = {}

CallsHold == \A c \in AccountCalls : Holds(call[c])
CallsAreUpToDate ==
    ~stale => \A c \in AccountCalls : UpToDate(call[c], version, row, passkeys)

\* A code the account still has was not accepted yet.
Unspent(a, r) ==
    \A s \in Secrets : a[s] <= 1 /\ (r.secret = s /\ r.backup => a[s] = 0)
CodesLeft == ~stale /\ ~failed => Unspent(accepts, row)

AccountInv ==
    /\ AccountsTypeOK /\ WellFormed(row) /\ CallsHold /\ CallsAreUpToDate
    /\ CodesLeft /\ PasskeyFlagAgrees /\ AdminRoleWasGiven

\* The rest of the state has its types.
RestTypeOK ==
    /\ pending \in Secrets \cup {Nothing}
    /\ ceremony \in [reg : BOOLEAN, login : AccountCalls \cup {Nothing}]

\* The secrets are named by calls, and Nothing is none of them.
LEMMA SecretNames == Nothing \notin Secrets /\ AccountCalls \subseteq Secrets
  BY AccountAssumption DEF Secrets

\* One call moves on and the account is left alone, or its write fails: nothing
\* that other calls have read gets old.
LEMMA CallMoves ==
    ASSUME AccountInv, NEW c \in AccountCalls, NEW y, Holds(y), y.version <= version,
           call' = [call EXCEPT ![c] = y], RestTypeOK',
           UNCHANGED <<row, passkeys, version, stale, given>>,
           failed' \in BOOLEAN, failed => failed',
           accepts' \in [Secrets -> Nat], ~failed' => accepts' = accepts,
           ~stale => UpToDate(y, version, row, passkeys),
           call[c].pc \in Flagging => y.pc \in Flagging \/ ~row.exists \/ failed'
    PROVE  AccountInv'
<1>1. /\ call' \in [AccountCalls -> CallStates] /\ call'[c] = y
      /\ \A d \in AccountCalls : d # c => call'[d] = call[d]
  BY DEF AccountInv, AccountsTypeOK, Holds
<1>2. AccountsTypeOK'
  <2>1. \A d \in AccountCalls : call'[d].version <= version
    BY <1>1 DEF AccountInv, AccountsTypeOK
  <2>2. QED
    BY <1>1, <2>1 DEF AccountInv, AccountsTypeOK, RestTypeOK
<1>3. WellFormed(row)' /\ AdminRoleWasGiven'
  BY DEF AccountInv, WellFormed, AdminRoleWasGiven
<1>4. CallsHold'
  BY <1>1 DEF AccountInv, CallsHold, Holds
<1>5. CallsAreUpToDate'
  BY <1>1 DEF AccountInv, CallsAreUpToDate
<1>6. CodesLeft'
  BY DEF AccountInv, CodesLeft
<1>7. PasskeyFlagAgrees'
  <2> SUFFICES ASSUME ~stale, ~failed', row.exists,
          \A d \in AccountCalls : call'[d].pc \notin Flagging
               PROVE  row.passkey = (passkeys # {})
    BY DEF PasskeyFlagAgrees, Flagging
  <2>1. \A d \in AccountCalls : call[d].pc \notin Flagging
    BY <1>1
  <2>2. QED
    BY <2>1 DEF AccountInv, PasskeyFlagAgrees, Flagging
<1>8. QED
  BY <1>2, <1>3, <1>4, <1>5, <1>6, <1>7 DEF AccountInv

\* One call writes the row or the passkeys.  A write from an old copy is
\* remembered as one; every other call's copies are old from then on.
LEMMA AccountWritten ==
    ASSUME AccountInv, NEW c \in AccountCalls, NEW y, Holds(y), y.version <= version + 1,
           call' = [call EXCEPT ![c] = y], RestTypeOK', Touch(c), UNCHANGED failed,
           WellFormed(row'), passkeys' \subseteq Passkeys, IsFiniteSet(passkeys'),
           accepts' \in [Secrets -> Nat], given' \in BOOLEAN,
           ~stale /\ call[c].version = version =>
               /\ UpToDate(y, version + 1, row', passkeys')
               /\ ~failed => Unspent(accepts', row')
               /\ /\ ~failed /\ row'.exists
                  /\ \A d \in AccountCalls : call'[d].pc \notin Flagging
                  => row'.passkey = (passkeys' # {})
               /\ row'.exists /\ row'.role = "admin" => given'
    PROVE  AccountInv'
<1>1. /\ call' \in [AccountCalls -> CallStates] /\ call'[c] = y
      /\ \A d \in AccountCalls : d # c => call'[d] = call[d]
  BY DEF AccountInv, AccountsTypeOK, Holds
<1>2. version \in Nat /\ version' = version + 1 /\ stale' \in BOOLEAN
  BY DEF AccountInv, AccountsTypeOK, Touch
<1>3. ~stale' => ~stale /\ call[c].version = version
  BY DEF Touch
<1>4. AccountsTypeOK'
  <2>1. \A d \in AccountCalls : call'[d].version <= version'
    <3> SUFFICES ASSUME NEW d \in AccountCalls PROVE call'[d].version <= version'
      OBVIOUS
    <3>1. call[d].version \in Nat /\ call[d].version <= version
      BY DEF AccountInv, AccountsTypeOK, CallStates
    <3>2. QED
      BY <1>1, <1>2, <3>1
  <2>2. failed' \in BOOLEAN /\ row' \in Row
    BY DEF AccountInv, AccountsTypeOK, WellFormed
  <2>3. QED
    BY <1>1, <1>2, <2>1, <2>2 DEF AccountsTypeOK, RestTypeOK
<1>5. CallsHold'
  BY <1>1 DEF AccountInv, CallsHold, Holds
<1>6. CallsAreUpToDate'
  <2> SUFFICES ASSUME ~stale', NEW d \in AccountCalls
               PROVE  UpToDate(call'[d], version', row', passkeys')
    BY DEF CallsAreUpToDate
  <2>1. CASE d = c
    BY <1>1, <1>2, <1>3, <2>1
  <2>2. CASE d # c
    <3>1. call[d].version \in Nat /\ call[d].version <= version
      BY DEF AccountInv, AccountsTypeOK, CallStates
    <3>2. call'[d].version # version'
      BY <1>1, <1>2, <2>2, <3>1
    <3>3. QED
      BY <3>2 DEF UpToDate
  <2>3. QED
    BY <2>1, <2>2
<1>7. CodesLeft' /\ AdminRoleWasGiven'
  BY <1>3 DEF CodesLeft, AdminRoleWasGiven
<1>8. PasskeyFlagAgrees'
  BY <1>3 DEF PasskeyFlagAgrees, Flagging
<1>9. QED
  BY <1>4, <1>5, <1>6, <1>7, <1>8 DEF AccountInv, WellFormed

\* What is known of a call, and that a copy no write has overtaken is the row.
LEMMA CallFields ==
    ASSUME AccountInv, NEW c \in AccountCalls
    PROVE  /\ Holds(call[c]) /\ call[c] \in CallStates /\ call[c].version \in Nat
           /\ call[c].version <= version /\ version \in Nat
           /\ WellFormed(call[c].mine) /\ call[c].mine \in Row
           /\ /\ ~stale /\ call[c].version = version
              /\ call[c].pc \in {"got", "take", "store", "verified", "create", "flag", "unflag"}
              => call[c].mine = row
<1>1. /\ Holds(call[c]) /\ call[c] \in CallStates
      /\ call[c].version <= version /\ version \in Nat
  BY DEF AccountInv, CallsHold, AccountsTypeOK
<1>2. ~stale => UpToDate(call[c], version, row, passkeys)
  BY DEF AccountInv, CallsAreUpToDate
<1>3. call[c].version \in Nat
  BY <1>1 DEF CallStates
<1>4. WellFormed(call[c].mine) /\ call[c].mine \in Row
  BY <1>1 DEF Holds, WellFormed
<1>5. QED
  BY <1>1, <1>2, <1>3, <1>4 DEF UpToDate

\* A call that is over.
Done == [Unused EXCEPT !.pc = "done"]

\* It holds nothing.
LEMMA DoneHolds == Holds(Done) /\ Done.pc = "done" /\ Done.version = 0 /\ WellFormed(NoRow)
<1>1. WellFormed(NoRow)
  BY DEF NoRow, Row, WellFormed
<1>2. NoRow \in Row
  BY <1>1 DEF WellFormed
<1>3. /\ Done \in CallStates /\ Done.pc = "done" /\ Done.version = 0
      /\ Done.mine = NoRow /\ Done.keys = {}
  BY <1>2 DEF Done, Unused, CallStates, CallPcs
<1>4. IsFiniteSet({})
  BY FS_EmptySet
<1>5. QED
  BY <1>1, <1>3, <1>4 DEF Holds

\* UpdateUser of what a call has made of its copy, which ends the call.
LEMMA RowWritten ==
    ASSUME AccountInv, NEW c \in AccountCalls, NEW y, Holds(y), y.pc \in {"done", "forget"},
           y.version <= version', call' = [call EXCEPT ![c] = y], RestTypeOK',
           NEW u, NEW ok \in BOOLEAN, WellFormed(u), UpdateUser(c, u, ok), UNCHANGED passkeys,
           accepts' \in [Secrets -> Nat], given' \in BOOLEAN, ~ok => given' = given,
           ~stale /\ call[c].version = version /\ ok =>
               /\ ~failed => Unspent(accepts', u)
               /\ IF call[c].pc \in Flagging THEN u.passkey = (passkeys # {})
                                             ELSE u.passkey = row.passkey
               /\ u.exists /\ u.role = "admin" => given'
    PROVE  AccountInv'
<1>1. CASE ok
  <2>1. row' = u /\ Touch(c) /\ UNCHANGED failed /\ version' = version + 1 /\ row.exists
    BY <1>1 DEF UpdateUser, Touch
  <2>2. \A v, r, ks : UpToDate(y, v, r, ks)
    BY DEF UpToDate
  <2>3. passkeys' \subseteq Passkeys /\ IsFiniteSet(passkeys')
    BY DEF AccountInv, AccountsTypeOK
  <2>4. ASSUME ~stale, call[c].version = version, ~failed,
               \A d \in AccountCalls : call'[d].pc \notin Flagging
        PROVE  u.passkey = (passkeys # {})
    <3>1. CASE call[c].pc \in Flagging
      BY <1>1, <2>4, <3>1
    <3>2. CASE call[c].pc \notin Flagging
      <4>1. \A d \in AccountCalls : call[d].pc \notin Flagging
        <5>1. \A d \in AccountCalls : d # c => call'[d] = call[d]
          BY DEF AccountInv, AccountsTypeOK
        <5>2. QED
          BY <2>4, <3>2, <5>1
      <4>2. row.passkey = (passkeys # {})
        BY <2>1, <2>4, <4>1 DEF AccountInv, PasskeyFlagAgrees, Flagging
      <4>3. u.passkey = row.passkey
        BY <1>1, <2>4, <3>2
      <4>4. QED
        BY <4>2, <4>3
    <3>3. QED
      BY <3>1, <3>2
  <2>5. y.version <= version + 1 /\ WellFormed(row')
    BY <2>1
  <2>6. QED
    BY <1>1, <2>1, <2>2, <2>3, <2>4, <2>5, AccountWritten
<1>2. CASE ~ok
  <2>1. failed' = TRUE /\ UNCHANGED <<row, version, stale>>
    BY <1>2 DEF UpdateUser
  <2>2. \A v, r, ks : UpToDate(y, v, r, ks)
    BY DEF UpToDate
  <2>3. UNCHANGED <<row, passkeys, version, stale, given>> /\ failed' \in BOOLEAN
    BY <1>2, <2>1
  <2>4. QED
    BY <2>1, <2>2, <2>3, CallMoves
<1>3. QED
  BY <1>1, <1>2

\* What a code is found to be.
LEMMA CodeJudged ==
    ASSUME NEW c \in AccountCalls, call[c].mine \in Row
    PROVE  /\ Validated(c).left \in BOOLEAN
           /\ Validated(c).left <=> call[c].mine.backup /\ call[c].code # "backup"
           /\ Validated(c).ok <=> \/ call[c].code = "totp"
                                  \/ call[c].code = "backup" /\ call[c].mine.backup
  BY DEF Validated, ValidateMFACode, Row

\* A code is counted for the secret of the copy; from the row itself it is
\* then no longer left.
LEMMA CodeCounted ==
    ASSUME AccountInv, NEW c \in AccountCalls, call[c].mine.mfa, Validated(c).ok, Count(c),
           NEW u \in Row, u.backup => u.secret = call[c].mine.secret /\ Validated(c).left
    PROVE  /\ accepts' \in [Secrets -> Nat]
           /\ ~stale /\ ~failed /\ call[c].mine = row => Unspent(accepts', u)
<1>0. call[c].mine \in Row /\ call[c].mine.secret \in Secrets
  BY CallFields DEF WellFormed, Row
<1>1. accepts \in [Secrets -> Nat]
  BY DEF AccountInv, AccountsTypeOK
<1>2. CASE call[c].code # "backup"
  <2>1. accepts' = accepts
    BY <1>2 DEF Count
  <2>2. u.backup => call[c].mine.backup
    BY <1>0, CodeJudged
  <2>3. QED
    BY <1>1, <2>1, <2>2 DEF AccountInv, CodesLeft, Unspent
<1>3. CASE call[c].code = "backup"
  <2> DEFINE s == call[c].mine.secret
  <2>1. accepts' = [accepts EXCEPT ![s] = @ + 1]
    BY <1>3 DEF Count
  <2>2. call[c].mine.backup /\ ~u.backup
    BY <1>0, <1>3, CodeJudged
  <2>3. accepts' \in [Secrets -> Nat] /\ accepts'[s] = accepts[s] + 1
        /\ \A t \in Secrets : t # s => accepts'[t] = accepts[t]
    BY <1>0, <1>1, <2>1
  <2>4. ASSUME ~stale, ~failed, call[c].mine = row PROVE Unspent(accepts', u)
    <3>1. accepts[s] = 0 /\ \A t \in Secrets : accepts[t] <= 1
      BY <1>0, <2>2, <2>4 DEF AccountInv, CodesLeft, Unspent
    <3>2. \A t \in Secrets : accepts'[t] <= 1
      BY <2>3, <3>1
    <3>3. QED
      BY <2>2, <3>2 DEF Unspent
  <2>5. QED
    BY <2>3, <2>4
<1>4. QED
  BY <1>2, <1>3

\* A call ends without touching the account.
LEMMA CallEnds ==
    ASSUME AccountInv, NEW c \in AccountCalls, call[c].pc \notin Flagging, Finish(c),
           RestTypeOK', UNCHANGED <<row, passkeys, accountMemory>>
    PROVE  AccountInv'
<1>1. call' = [call EXCEPT ![c] = Done]
  BY DEF Finish, Done
<1>2. Done.version <= version
  BY DoneHolds, CallFields
<1>3. \A v, r, ks : UpToDate(Done, v, r, ks)
  BY DoneHolds DEF UpToDate
<1>4. failed' \in BOOLEAN /\ accepts' \in [Secrets -> Nat]
  BY DEF AccountInv, AccountsTypeOK, accountMemory
<1>5. UNCHANGED <<row, passkeys, version, stale, given, failed, accepts>>
  BY DEF accountMemory
<1>6. QED
  BY <1>1, <1>2, <1>3, <1>4, <1>5, DoneHolds, CallMoves

\* A call reads or moves on, touching nothing of the account.
LEMMA CallReads ==
    ASSUME AccountInv, NEW c \in AccountCalls, NEW y, Holds(y), y.version <= version,
           call' = [call EXCEPT ![c] = y], RestTypeOK',
           UNCHANGED <<row, passkeys, accountMemory>>,
           ~stale => UpToDate(y, version, row, passkeys),
           call[c].pc \in Flagging => y.pc \in Flagging \/ ~row.exists
    PROVE  AccountInv'
<1>1. failed' \in BOOLEAN /\ accepts' \in [Secrets -> Nat]
  BY DEF AccountInv, AccountsTypeOK, accountMemory
<1>2. UNCHANGED <<row, passkeys, version, stale, given, failed, accepts>>
  BY DEF accountMemory
<1>3. QED
  BY <1>1, <1>2, CallMoves

\* UpdateUser by a call that then is over, with the offers and ceremonies left
\* alone.
LEMMA RowWrittenLast ==
    ASSUME AccountInv, NEW c \in AccountCalls, Finish(c), UNCHANGED <<pending, ceremony, passkeys>>,
           NEW u, NEW ok \in BOOLEAN, WellFormed(u), UpdateUser(c, u, ok),
           accepts' \in [Secrets -> Nat], given' \in BOOLEAN, ~ok => given' = given,
           ~stale /\ call[c].version = version /\ ok =>
               /\ ~failed => Unspent(accepts', u)
               /\ IF call[c].pc \in Flagging THEN u.passkey = (passkeys # {})
                                             ELSE u.passkey = row.passkey
               /\ u.exists /\ u.role = "admin" => given'
    PROVE  AccountInv'
<1>1. call' = [call EXCEPT ![c] = Done]
  BY DEF Finish, Done
<1>2. RestTypeOK'
  BY DEF RestTypeOK, AccountInv, AccountsTypeOK
<1>3. version' \in Nat
  BY CallFields DEF UpdateUser, Touch
<1>4. Done.version <= version'
  BY <1>3, DoneHolds
<1>5. QED
  BY <1>1, <1>2, <1>4, DoneHolds, RowWritten

\* A code is spent on a copy and the copy written back.
LEMMA CodeSpent ==
    ASSUME AccountInv, NEW c \in AccountCalls, call[c].pc = "got", call[c].mine.mfa,
           Validated(c).ok, Finish(c), UNCHANGED <<pending, ceremony, passkeys, given>>,
           NEW u, NEW ok \in BOOLEAN, WellFormed(u), UpdateUser(c, u, ok),
           Count(c) \/ (~ok /\ UNCHANGED accepts),
           u.exists = call[c].mine.exists, u.role = call[c].mine.role,
           u.passkey = call[c].mine.passkey,
           u.backup => u.secret = call[c].mine.secret /\ Validated(c).left
    PROVE  AccountInv'
<1>1. u \in Row /\ accepts \in [Secrets -> Nat] /\ given \in BOOLEAN
  BY DEF WellFormed, AccountInv, AccountsTypeOK
<1>2. accepts' \in [Secrets -> Nat]
  BY <1>1, CodeCounted
<1>3. ASSUME ~stale, call[c].version = version, ok
      PROVE  /\ ~failed => Unspent(accepts', u)
             /\ u.passkey = row.passkey
             /\ u.exists /\ u.role = "admin" => given'
  <2>1. call[c].mine = row
    BY <1>3, CallFields
  <2>2. row.exists /\ row.role = "admin" => given
    BY <1>3 DEF AccountInv, AdminRoleWasGiven
  <2>3. ~failed => Unspent(accepts', u)
    BY <1>1, <1>3, <2>1, CodeCounted
  <2>4. QED
    BY <2>1, <2>2, <2>3
<1>4. call[c].pc \notin Flagging
  BY DEF Flagging
<1>5. QED
  BY <1>1, <1>2, <1>3, <1>4, RowWrittenLast

\* The account gets an offered secret with its codes, none of them accepted.
LEMMA OfferRenews ==
    ASSUME AccountInv, NEW c \in AccountCalls, call[c].pc \in {"got", "store"},
           call[c].pending \in Secrets, Renew(call[c].pending, TRUE), UNCHANGED given,
           ~stale, call[c].version = version,
           NEW u, u.exists = call[c].mine.exists, u.role = call[c].mine.role,
           u.passkey = call[c].mine.passkey, u.secret = call[c].pending
    PROVE  /\ ~failed => Unspent(accepts', u)
           /\ u.passkey = row.passkey
           /\ u.exists /\ u.role = "admin" => given'
<1>1. call[c].mine = row
  BY CallFields
<1>2. row.exists /\ row.role = "admin" => given
  BY DEF AccountInv, AdminRoleWasGiven
<1>3. accepts \in [Secrets -> Nat] /\ accepts' = [accepts EXCEPT ![call[c].pending] = 0]
  BY DEF AccountInv, AccountsTypeOK, Renew
<1>4. ASSUME ~failed PROVE Unspent(accepts', u)
  <2>1. \A s \in Secrets : accepts[s] <= 1
    BY <1>4 DEF AccountInv, CodesLeft, Unspent
  <2>2. QED
    BY <1>3, <2>1 DEF Unspent
<1>5. QED
  BY <1>1, <1>2, <1>4

\* A login accepts a code and writes back what is left, if it has changed.
LEMMA LoginSpends ==
    ASSUME AccountInv, NEW c \in AccountCalls, call[c].pc = "got", call[c].mine.mfa,
           Validated(c).ok, SpendAtLogin(c)
    PROVE  AccountInv'
<1>0. WellFormed(call[c].mine) /\ call[c].mine \in Row
  BY CallFields
<1>1. /\ Finish(c) /\ Count(c) /\ UNCHANGED <<pending, passkeys, ceremony, given>>
      /\ Validated(c).left \in BOOLEAN
      /\ Validated(c).left <=> call[c].mine.backup /\ call[c].code # "backup"
  BY <1>0, CodeJudged DEF SpendAtLogin
<1>2. CASE Validated(c).left = call[c].mine.backup
  <2>1. call[c].code # "backup"
    BY <1>0, <1>2, CodeJudged
  <2>2. UNCHANGED <<row, passkeys, accountMemory>>
    BY <1>1, <1>2, <2>1 DEF SpendAtLogin, Count, accountMemory
  <2>3. RestTypeOK'
    BY <1>1 DEF RestTypeOK, AccountInv, AccountsTypeOK
  <2>4. QED
    BY <1>1, <2>2, <2>3, CallEnds DEF Flagging
<1>3. CASE Validated(c).left # call[c].mine.backup
  <2> DEFINE u == [call[c].mine EXCEPT !.backup = Validated(c).left]
  <2>1. PICK ok \in BOOLEAN : UpdateUser(c, u, ok)
    BY <1>3 DEF SpendAtLogin
  <2>2. /\ WellFormed(u) /\ u.exists = call[c].mine.exists /\ u.role = call[c].mine.role
        /\ u.passkey = call[c].mine.passkey
        /\ u.backup => u.secret = call[c].mine.secret /\ Validated(c).left
    BY <1>0, <1>1 DEF WellFormed, Row
  <2> HIDE DEF u
  <2>3. QED
    BY <1>1, <2>1, <2>2, CodeSpent
<1>4. QED
  BY <1>2, <1>3

\* Of a list that shows the passkey to delete, what is left is empty exactly
\* when the list has no other.
LEMMA LastIsLast ==
    ASSUME NEW K, IsFiniteSet(K), NEW k \in K
    PROVE  LastPasskey(K) <=> K \ {k} = {}
<1>1. IsFiniteSet(K \ {k}) /\ Cardinality(K \ {k}) = Cardinality(K) - 1
  BY FS_RemoveElement
<1>2. Cardinality(K) \in Nat /\ Cardinality(K \ {k}) \in Nat
  BY <1>1, FS_CardinalityType
<1>3. Cardinality(K \ {k}) = 0 <=> K \ {k} = {}
  BY <1>1, FS_EmptySet
<1>4. QED
  BY <1>1, <1>2, <1>3 DEF LastPasskey

\* Every step keeps the account guarded.
LEMMA AccountStep ==
    ASSUME AccountInv, [AccountsNext]_accountVars
    PROVE  AccountInv'
<1>0. /\ row \in Row /\ WellFormed(row) /\ pending \in Secrets \cup {Nothing}
      /\ passkeys \subseteq Passkeys /\ IsFiniteSet(passkeys)
      /\ ceremony \in [reg : BOOLEAN, login : AccountCalls \cup {Nothing}]
      /\ version \in Nat /\ accepts \in [Secrets -> Nat]
      /\ given \in BOOLEAN /\ failed \in BOOLEAN /\ stale \in BOOLEAN
  BY DEF AccountInv, AccountsTypeOK
<1>1. ASSUME webauthnRegisterBegin PROVE AccountInv'
  <2>1. ceremony' \in [reg : BOOLEAN, login : AccountCalls \cup {Nothing}]
    BY <1>0, <1>1 DEF webauthnRegisterBegin
  <2>2. UNCHANGED <<row, pending, passkeys, call, version, stale, failed, accepts, given>>
    BY <1>1 DEF webauthnRegisterBegin, accountMemory
  <2>3. QED
    BY <2>1, <2>2 DEF AccountInv, AccountsTypeOK, CallsHold, CallsAreUpToDate, CodesLeft,
       PasskeyFlagAgrees, AdminRoleWasGiven
<1>2. ASSUME NEW c \in AccountCalls, NEW w \in Works, NEW code \in {"totp", "backup"},
        GetUser(c, w, code) PROVE AccountInv'
  <2>0. /\ Holds(call[c]) /\ call[c] \in CallStates /\ call[c].version \in Nat
        /\ call[c].version <= version
        /\ WellFormed(call[c].mine) /\ IsFiniteSet(call[c].keys) /\ version \in Nat
    BY CallFields DEF Holds
  <2> DEFINE y == [call[c] EXCEPT !.work = w, !.code = code, !.mine = row, !.version = version,
                         !.pc = IF row.exists THEN "got" ELSE "done"]
  <2>1. /\ call' = [call EXCEPT ![c] = y] /\ UNCHANGED <<row, passkeys, accountMemory>>
        /\ call[c].pc \notin Flagging
    BY <1>2, <2>0 DEF GetUser, Flagging, CallStates
  <2>2. RestTypeOK'
    BY <1>0, <1>2 DEF GetUser, RestTypeOK
  <2>3. y \in CallStates /\ y.work = w /\ y.keys = call[c].keys /\ y.mine = row
        /\ y.version = version /\ y.pc \in {"got", "done"}
    BY <1>0, <1>2, <2>0 DEF GetUser, CallStates, CallPcs
  <2> HIDE DEF y
  <2>4. Holds(y) /\ y.version <= version
    BY <1>0, <1>2, <2>0, <2>3 DEF Holds, Works, GetUser
  <2>5. ~stale => UpToDate(y, version, row, passkeys)
    BY <2>0, <2>3 DEF UpToDate
  <2>6. QED
    BY <2>1, <2>2, <2>4, <2>5, CallReads
<1>3. ASSUME NEW c \in AccountCalls, mfaEnroll(c) PROVE AccountInv'
  <2>1. call[c].pc \notin Flagging /\ Finish(c) /\ UNCHANGED <<row, passkeys, accountMemory>>
    BY <1>3 DEF mfaEnroll, At, Flagging
  <2>2. RestTypeOK'
    BY <1>0, <1>3, SecretNames DEF mfaEnroll, RestTypeOK
  <2>3. QED
    BY <2>1, <2>2, CallEnds
<1>4. ASSUME NEW c \in AccountCalls, mfaConfirmLoad(c) PROVE AccountInv'
  <2>0. /\ Holds(call[c]) /\ call[c] \in CallStates /\ call[c].version \in Nat
        /\ call[c].version <= version
        /\ WellFormed(call[c].mine) /\ IsFiniteSet(call[c].keys) /\ version \in Nat
    BY CallFields DEF Holds
  <2> DEFINE y == [call[c] EXCEPT !.work = "mfaConfirm", !.pc = "get", !.pending = pending, !.version = version]
  <2>1. /\ call' = [call EXCEPT ![c] = y] /\ UNCHANGED <<row, passkeys, accountMemory>>
        /\ call[c].pc \notin Flagging
    BY <1>4, <2>0 DEF mfaConfirmLoad, Flagging, CallStates
  <2>2. RestTypeOK'
    BY <1>0, <1>4 DEF mfaConfirmLoad, RestTypeOK
  <2>3. y \in CallStates /\ y.pending = pending /\ y.keys = call[c].keys /\ y.mine = call[c].mine
        /\ y.version = version /\ y.pc = "get"
    BY <1>0, <1>4, <2>0 DEF mfaConfirmLoad, CallStates, CallPcs
  <2> HIDE DEF y
  <2>4. Holds(y) /\ y.version <= version
    BY <1>0, <1>4, <2>0, <2>3 DEF Holds, Works, mfaConfirmLoad
  <2>5. ~stale => UpToDate(y, version, row, passkeys)
    BY <2>0, <2>3 DEF UpToDate
  <2>6. QED
    BY <2>1, <2>2, <2>4, <2>5, CallReads
<1>5. ASSUME NEW c \in AccountCalls, mfaConfirmGet(c) PROVE AccountInv'
  <2>0. /\ Holds(call[c]) /\ call[c] \in CallStates /\ call[c].version \in Nat
        /\ call[c].version <= version
        /\ WellFormed(call[c].mine) /\ IsFiniteSet(call[c].keys) /\ version \in Nat
    BY CallFields DEF Holds
  <2> DEFINE y == [call[c] EXCEPT !.mine = row, !.pc = IF row.exists THEN "got" ELSE "done"]
  <2>1. /\ call' = [call EXCEPT ![c] = y] /\ UNCHANGED <<row, passkeys, accountMemory>>
        /\ call[c].pc \notin Flagging
    BY <1>5, <2>0 DEF mfaConfirmGet, Flagging, CallStates
  <2>2. RestTypeOK'
    BY <1>0, <1>5 DEF mfaConfirmGet, RestTypeOK
  <2>3. y \in CallStates /\ y.pending = call[c].pending /\ y.keys = call[c].keys /\ y.mine = row
        /\ y.version = call[c].version /\ y.pc \in {"got", "done"}
    BY <1>0, <1>5, <2>0 DEF mfaConfirmGet, CallStates, CallPcs
  <2> HIDE DEF y
  <2>4. Holds(y) /\ y.version <= version
    BY <1>0, <1>5, <2>0, <2>3 DEF Holds, Works, mfaConfirmGet
  <2>5. ~stale => UpToDate(y, version, row, passkeys)
    BY <2>0, <2>3 DEF UpToDate
  <2>6. QED
    BY <2>1, <2>2, <2>4, <2>5, CallReads
<1>6. ASSUME NEW c \in AccountCalls, mfaConfirm(c) PROVE AccountInv'
  <2>0. /\ Holds(call[c]) /\ call[c] \in CallStates /\ call[c].version \in Nat
        /\ call[c].version <= version
        /\ WellFormed(call[c].mine) /\ IsFiniteSet(call[c].keys) /\ version \in Nat
    BY CallFields DEF Holds
  <2>1. PICK ok \in BOOLEAN :
            /\ UpdateUser(c, [call[c].mine EXCEPT !.mfa = TRUE, !.secret = call[c].pending,
                                                  !.backup = TRUE], ok)
            /\ Renew(call[c].pending, ok)
            /\ GoOn(c, IF ok THEN "forget" ELSE "done")
    BY <1>6 DEF mfaConfirm
  <2>2. /\ call[c].pc = "got" /\ call[c].pending \in Secrets
        /\ UNCHANGED <<pending, passkeys, ceremony, given>>
    BY <1>6, <2>0 DEF mfaConfirm, At, Holds, CallStates
  <2> DEFINE u == [call[c].mine EXCEPT !.mfa = TRUE, !.secret = call[c].pending, !.backup = TRUE]
             y == [call[c] EXCEPT !.pc = IF ok THEN "forget" ELSE "done", !.version = version']
  <2>3. WellFormed(u) /\ u.exists = call[c].mine.exists /\ u.role = call[c].mine.role
        /\ u.passkey = call[c].mine.passkey /\ u.secret = call[c].pending
    BY <2>0, <2>2, SecretNames DEF WellFormed, Row
  <2>4. UpdateUser(c, u, ok) /\ call' = [call EXCEPT ![c] = y]
    BY <2>0, <2>1 DEF GoOn, CallStates
  <2> HIDE DEF u
  <2>5. version' \in Nat
    BY <2>0, <2>4 DEF UpdateUser, Touch
  <2>6. y \in CallStates /\ y.pc \in {"done", "forget"} /\ y.version = version'
        /\ y.mine = call[c].mine /\ y.keys = call[c].keys
    BY <2>0, <2>5 DEF CallStates, CallPcs
  <2> HIDE DEF y
  <2>7. Holds(y) /\ y.version <= version'
    BY <2>0, <2>5, <2>6 DEF Holds
  <2>8. accepts' \in [Secrets -> Nat] /\ given' \in BOOLEAN /\ RestTypeOK'
    BY <1>0, <2>1, <2>2 DEF Renew, RestTypeOK
  <2>9. ASSUME ~stale, call[c].version = version, ok
        PROVE  /\ ~failed => Unspent(accepts', u)
               /\ u.passkey = row.passkey
               /\ u.exists /\ u.role = "admin" => given'
    BY <2>1, <2>2, <2>3, <2>9, OfferRenews
  <2>10. call[c].pc \notin Flagging
    BY <2>2 DEF Flagging
  <2>11. QED
    BY <2>2, <2>3, <2>4, <2>6, <2>7, <2>8, <2>9, <2>10, RowWritten
<1>7. ASSUME NEW c \in AccountCalls, mfaConfirmForget(c) PROVE AccountInv'
  <2>1. call[c].pc \notin Flagging /\ Finish(c) /\ UNCHANGED <<row, passkeys, accountMemory>>
    BY <1>7 DEF mfaConfirmForget, Flagging
  <2>2. RestTypeOK'
    BY <1>0, <1>7 DEF mfaConfirmForget, RestTypeOK
  <2>3. QED
    BY <2>1, <2>2, CallEnds
<1>8. ASSUME NEW c \in AccountCalls, mfaDisable(c) PROVE AccountInv'
  <2>0. /\ Holds(call[c]) /\ call[c] \in CallStates /\ call[c].version \in Nat
        /\ call[c].version <= version
        /\ WellFormed(call[c].mine) /\ IsFiniteSet(call[c].keys) /\ version \in Nat
    BY CallFields DEF Holds
  <2>1. call[c].pc = "got" /\ Finish(c) /\ UNCHANGED <<pending, passkeys, ceremony>>
    BY <1>8 DEF mfaDisable, At
  <2>2. CASE UNCHANGED <<row, accountMemory>>
    BY <1>0, <2>1, <2>2, CallEnds DEF RestTypeOK, Flagging
  <2> DEFINE m == call[c].mine
             u == IF m.password THEN [m EXCEPT !.backup = Validated(c).left]
                  ELSE [m EXCEPT !.mfa = FALSE, !.secret = Nothing, !.backup = FALSE]
  <2>3. ASSUME m.mfa, Validated(c).ok, NEW ok \in BOOLEAN, UpdateUser(c, u, ok),
               IF ok THEN Count(c) ELSE UNCHANGED accepts, UNCHANGED given
        PROVE  AccountInv'
    <3>1. call[c].mine \in Row /\ (Validated(c).left => m.backup) /\ Validated(c).left \in BOOLEAN
      BY <2>0, CodeJudged DEF WellFormed
    <3>2. /\ WellFormed(u) /\ u.exists = m.exists /\ u.role = m.role /\ u.passkey = m.passkey
          /\ u.backup => u.secret = m.secret /\ Validated(c).left
      BY <2>0, <2>3, <3>1 DEF WellFormed, Row
    <3> HIDE DEF u
    <3>3. QED
      BY <2>1, <2>3, <3>2, CodeSpent
  <2>4. QED
    BY <1>8, <2>2, <2>3 DEF mfaDisable
<1>9. ASSUME NEW c \in AccountCalls, enforceMFAAfterPubkey(c) PROVE AccountInv'
  <2>1. /\ At(c, "enforceMFAAfterPubkey")
        /\ (Refuse(c) \/ (call[c].mine.mfa /\ Validated(c).ok /\ SpendAtLogin(c)))
    BY <1>9 DEF enforceMFAAfterPubkey
  <2>2. CASE Refuse(c)
    BY <1>0, <2>1, <2>2, CallEnds DEF RestTypeOK, Flagging, At, Refuse
  <2>3. CASE call[c].mine.mfa /\ Validated(c).ok /\ SpendAtLogin(c)
    BY <2>1, <2>3, LoginSpends DEF At
  <2>4. QED
    BY <2>1, <2>2, <2>3
<1>10. ASSUME NEW c \in AccountCalls, loginWithPassword(c) PROVE AccountInv'
  <2>1. /\ At(c, "loginWithPassword")
        /\ (Refuse(c) \/ (call[c].mine.mfa /\ Validated(c).ok /\ SpendAtLogin(c)))
    BY <1>10 DEF loginWithPassword
  <2>2. CASE Refuse(c)
    BY <1>0, <2>1, <2>2, CallEnds DEF RestTypeOK, Flagging, At, Refuse
  <2>3. CASE call[c].mine.mfa /\ Validated(c).ok /\ SpendAtLogin(c)
    BY <2>1, <2>3, LoginSpends DEF At
  <2>4. QED
    BY <2>1, <2>2, <2>3
<1>11. ASSUME NEW c \in AccountCalls, setPassword(c) PROVE AccountInv'
  <2>0. /\ Holds(call[c]) /\ call[c] \in CallStates /\ call[c].version \in Nat
        /\ call[c].version <= version
        /\ WellFormed(call[c].mine) /\ IsFiniteSet(call[c].keys) /\ version \in Nat
    BY CallFields DEF Holds
  <2> DEFINE m == call[c].mine
             u == [m EXCEPT !.backup = Validated(c).left, !.password = TRUE]
  <2>1. call[c].pc = "got"
    BY <1>11 DEF setPassword, At
  <2>2. CASE Refuse(c)
    BY <1>0, <2>1, <2>2, CallEnds DEF RestTypeOK, Flagging, Refuse
  <2>3. ASSUME m.mfa, Validated(c).ok, NEW ok \in BOOLEAN, UpdateUser(c, u, ok),
               IF ok THEN Count(c) ELSE UNCHANGED accepts, Finish(c),
               UNCHANGED <<pending, passkeys, ceremony, given>>
        PROVE  AccountInv'
    <3>1. call[c].mine \in Row /\ (Validated(c).left => m.backup) /\ Validated(c).left \in BOOLEAN
      BY <2>0, CodeJudged DEF WellFormed
    <3>2. /\ WellFormed(u) /\ u.exists = m.exists /\ u.role = m.role /\ u.passkey = m.passkey
          /\ u.backup => u.secret = m.secret /\ Validated(c).left
      BY <2>0, <2>3, <3>1 DEF WellFormed, Row
    <3> HIDE DEF u
    <3>3. QED
      BY <2>1, <2>3, <3>2, CodeSpent
  <2>4. QED
    BY <1>11, <2>2, <2>3 DEF setPassword
<1>12. ASSUME NEW c \in AccountCalls, clearPassword(c) PROVE AccountInv'
  <2>0. /\ Holds(call[c]) /\ call[c] \in CallStates /\ call[c].version \in Nat
        /\ call[c].version <= version
        /\ WellFormed(call[c].mine) /\ IsFiniteSet(call[c].keys) /\ version \in Nat
    BY CallFields DEF Holds
  <2> DEFINE m == call[c].mine
             u == [m EXCEPT !.backup = Validated(c).left, !.password = FALSE]
  <2>1. call[c].pc = "got"
    BY <1>12 DEF clearPassword, At
  <2>2. CASE Refuse(c)
    BY <1>0, <2>1, <2>2, CallEnds DEF RestTypeOK, Flagging, Refuse
  <2>3. ASSUME m.mfa, Validated(c).ok, NEW ok \in BOOLEAN, UpdateUser(c, u, ok),
               IF ok THEN Count(c) ELSE UNCHANGED accepts, Finish(c),
               UNCHANGED <<pending, passkeys, ceremony, given>>
        PROVE  AccountInv'
    <3>1. call[c].mine \in Row /\ (Validated(c).left => m.backup) /\ Validated(c).left \in BOOLEAN
      BY <2>0, CodeJudged DEF WellFormed
    <3>2. /\ WellFormed(u) /\ u.exists = m.exists /\ u.role = m.role /\ u.passkey = m.passkey
          /\ u.backup => u.secret = m.secret /\ Validated(c).left
      BY <2>0, <2>3, <3>1 DEF WellFormed, Row
    <3> HIDE DEF u
    <3>3. QED
      BY <2>1, <2>3, <3>2, CodeSpent
  <2>4. QED
    BY <1>12, <2>2, <2>3 DEF clearPassword
<1>13. ASSUME NEW c \in AccountCalls, setPasswordLoad(c) PROVE AccountInv'
  <2>0. /\ Holds(call[c]) /\ call[c] \in CallStates /\ call[c].version \in Nat
        /\ call[c].version <= version
        /\ WellFormed(call[c].mine) /\ IsFiniteSet(call[c].keys) /\ version \in Nat
    BY CallFields DEF Holds
  <2>1. call[c].pc = "got" /\ UNCHANGED <<row, passkeys, accountMemory>>
    BY <1>13 DEF setPasswordLoad, At
  <2>2. RestTypeOK'
    BY <1>0, <1>13 DEF setPasswordLoad, RestTypeOK
  <2>3. CASE Finish(c)
    BY <2>1, <2>2, <2>3, CallEnds DEF Flagging
  <2> DEFINE y == [call[c] EXCEPT !.pending = pending, !.pc = "take"]
  <2>4. ASSUME pending # Nothing, call' = [call EXCEPT ![c].pending = pending, ![c].pc = "take"]
        PROVE  AccountInv'
    <3>1. call' = [call EXCEPT ![c] = y]
      BY <2>0, <2>4 DEF CallStates
    <3>2. y \in CallStates /\ y.pending = pending /\ y.keys = call[c].keys
          /\ y.mine = call[c].mine /\ y.version = call[c].version /\ y.pc = "take"
      BY <1>0, <2>0 DEF CallStates, CallPcs
    <3> HIDE DEF y
    <3>3. Holds(y) /\ y.version <= version
      BY <2>0, <2>4, <3>2 DEF Holds
    <3>4. ~stale => UpToDate(y, version, row, passkeys)
      BY <2>1, <3>2, CallFields DEF UpToDate
    <3>5. QED
      BY <2>1, <2>2, <3>1, <3>3, <3>4, CallReads DEF Flagging
  <2>5. QED
    BY <1>13, <2>3, <2>4 DEF setPasswordLoad
<1>14. ASSUME NEW c \in AccountCalls, setPasswordTake(c) PROVE AccountInv'
  <2>0. /\ Holds(call[c]) /\ call[c] \in CallStates /\ call[c].version \in Nat
        /\ call[c].version <= version
        /\ WellFormed(call[c].mine) /\ IsFiniteSet(call[c].keys) /\ version \in Nat
    BY CallFields DEF Holds
  <2> DEFINE y == [call[c] EXCEPT !.pc = "store"]
  <2>1. /\ call' = [call EXCEPT ![c] = y] /\ UNCHANGED <<row, passkeys, accountMemory>>
        /\ call[c].pc \notin Flagging
    BY <1>14, <2>0 DEF setPasswordTake, Flagging, GoTo, CallStates
  <2>2. RestTypeOK'
    BY <1>0, <1>14 DEF setPasswordTake, RestTypeOK
  <2>3. y \in CallStates /\ y.pending = call[c].pending /\ y.keys = call[c].keys
        /\ y.mine = call[c].mine /\ y.version = call[c].version /\ y.pc = "store"
    BY <1>0, <1>14, <2>0 DEF setPasswordTake, CallStates, CallPcs, GoTo
  <2> HIDE DEF y
  <2>4. Holds(y) /\ y.version <= version
    BY <1>0, <1>14, <2>0, <2>3 DEF Holds, Works, setPasswordTake, GoTo
  <2>5. ~stale => UpToDate(y, version, row, passkeys)
    BY <2>0, <2>3, <1>14, CallFields DEF UpToDate, setPasswordTake
  <2>6. QED
    BY <2>1, <2>2, <2>4, <2>5, CallReads
<1>15. ASSUME NEW c \in AccountCalls, setPasswordStore(c) PROVE AccountInv'
  <2>0. /\ Holds(call[c]) /\ call[c] \in CallStates /\ call[c].version \in Nat
        /\ call[c].version <= version
        /\ WellFormed(call[c].mine) /\ IsFiniteSet(call[c].keys) /\ version \in Nat
    BY CallFields DEF Holds
  <2> DEFINE u == [call[c].mine EXCEPT !.mfa = TRUE, !.secret = call[c].pending,
                                       !.backup = TRUE, !.password = TRUE]
  <2>1. PICK ok \in BOOLEAN : UpdateUser(c, u, ok) /\ Renew(call[c].pending, ok)
    BY <1>15 DEF setPasswordStore
  <2>2. /\ call[c].pc = "store" /\ call[c].pending \in Secrets /\ Finish(c)
        /\ UNCHANGED <<pending, passkeys, ceremony, given>>
    BY <1>15, <2>0 DEF setPasswordStore, Holds, CallStates
  <2>3. WellFormed(u) /\ u.exists = call[c].mine.exists /\ u.role = call[c].mine.role
        /\ u.passkey = call[c].mine.passkey /\ u.secret = call[c].pending
    BY <2>0, <2>2, SecretNames DEF WellFormed, Row
  <2> HIDE DEF u
  <2>4. accepts' \in [Secrets -> Nat] /\ given' \in BOOLEAN
    BY <1>0, <2>1, <2>2 DEF Renew
  <2>5. ASSUME ~stale, call[c].version = version, ok
        PROVE  /\ ~failed => Unspent(accepts', u)
               /\ u.passkey = row.passkey
               /\ u.exists /\ u.role = "admin" => given'
    BY <2>1, <2>2, <2>3, <2>5, OfferRenews
  <2>6. call[c].pc \notin Flagging
    BY <2>2 DEF Flagging
  <2>7. QED
    BY <2>1, <2>2, <2>3, <2>4, <2>5, <2>6, RowWrittenLast
<1>16. ASSUME NEW c \in AccountCalls, updateUser(c) PROVE AccountInv'
  <2>0. /\ Holds(call[c]) /\ call[c] \in CallStates /\ call[c].version \in Nat
        /\ call[c].version <= version
        /\ WellFormed(call[c].mine) /\ IsFiniteSet(call[c].keys) /\ version \in Nat
    BY CallFields DEF Holds
  <2>1. call[c].pc = "got" /\ Finish(c) /\ UNCHANGED <<pending, passkeys, ceremony>>
    BY <1>16 DEF updateUser, At
  <2>2. CASE UNCHANGED <<row, accountMemory>>
    BY <1>0, <2>1, <2>2, CallEnds DEF RestTypeOK, Flagging
  <2> DEFINE u(to) == [call[c].mine EXCEPT !.role = IF to = "keep" THEN @ ELSE to]
  <2>3. ASSUME NEW admin \in BOOLEAN, NEW ok \in BOOLEAN, NEW to \in {"keep", "user", "admin"},
               MayEdit(admin, call[c].mine, to), UpdateUser(c, u(to), ok),
               given' = IF ok /\ to # "keep" THEN to = "admin" /\ admin ELSE given,
               UNCHANGED accepts
        PROVE  AccountInv'
    <3> DEFINE v == u(to)
    <3>1. /\ WellFormed(v) /\ v.exists = call[c].mine.exists /\ v.passkey = call[c].mine.passkey
          /\ v.backup = call[c].mine.backup /\ v.secret = call[c].mine.secret
          /\ v.role = IF to = "keep" THEN call[c].mine.role ELSE to
      BY <2>0, <2>3 DEF WellFormed, Row
    <3>2. UpdateUser(c, v, ok)
      BY <2>3
    <3> HIDE DEF v, u
    <3>3. accepts' \in [Secrets -> Nat] /\ given' \in BOOLEAN /\ (~ok => given' = given)
      BY <1>0, <2>3
    <3>4. ASSUME ~stale, call[c].version = version, ok
          PROVE  /\ ~failed => Unspent(accepts', v)
                 /\ v.passkey = row.passkey
                 /\ v.exists /\ v.role = "admin" => given'
      <4>1. call[c].mine = row
        BY <2>1, <3>4, CallFields
      <4>2. row.exists /\ row.role = "admin" => given
        BY <3>4 DEF AccountInv, AdminRoleWasGiven
      <4>3. ~failed => Unspent(accepts, row)
        BY <3>4 DEF AccountInv, CodesLeft
      <4>4. ~failed => Unspent(accepts', v)
        BY <2>3, <3>1, <4>1, <4>3 DEF Unspent
      <4>5. ASSUME v.exists, v.role = "admin" PROVE given'
        <5>1. CASE to = "keep"
          BY <2>3, <3>1, <4>1, <4>2, <4>5, <5>1
        <5>2. CASE to # "keep"
          BY <2>3, <3>1, <3>4, <4>5, <5>2 DEF MayEdit
        <5>3. QED
          BY <5>1, <5>2
      <4>6. QED
        BY <3>1, <4>1, <4>4, <4>5
    <3>5. call[c].pc \notin Flagging
      BY <2>1 DEF Flagging
    <3>6. QED
      BY <2>1, <3>1, <3>2, <3>3, <3>4, <3>5, RowWrittenLast
  <2>4. QED
    BY <1>16, <2>2, <2>3 DEF updateUser
<1>17. ASSUME NEW c \in AccountCalls, deleteUser(c) PROVE AccountInv'
  <2>0. /\ Holds(call[c]) /\ call[c] \in CallStates /\ call[c].version \in Nat
        /\ call[c].version <= version
        /\ WellFormed(call[c].mine) /\ IsFiniteSet(call[c].keys) /\ version \in Nat
    BY CallFields DEF Holds
  <2>1. /\ call[c].pc = "got" /\ Finish(c)
        /\ UNCHANGED <<pending, ceremony, failed, accepts, given>>
        /\ RestTypeOK'
    BY <1>0, <1>17 DEF deleteUser, At, RestTypeOK
  <2>2. CASE UNCHANGED <<row, passkeys, version, stale>>
    BY <2>1, <2>2, CallEnds DEF Flagging, accountMemory
  <2>3. ASSUME row' = [row EXCEPT !.exists = FALSE], passkeys' = {}, Touch(c) PROVE AccountInv'
    <3>1. WellFormed(row') /\ ~row'.exists /\ row'.secret = row.secret /\ row'.backup = row.backup
      BY <1>0, <2>3 DEF WellFormed, Row
    <3>2. call' = [call EXCEPT ![c] = Done] /\ Done.version <= version + 1
      BY <1>0, <2>1, DoneHolds DEF Finish, Done
    <3>3. \A v, r, ks : UpToDate(Done, v, r, ks)
      BY DoneHolds DEF UpToDate
    <3>4. IsFiniteSet(passkeys') /\ passkeys' \subseteq Passkeys
      BY <2>3, FS_EmptySet
    <3>5. ~stale /\ ~failed => Unspent(accepts', row')
      BY <2>1, <3>1 DEF AccountInv, CodesLeft, Unspent
    <3>6. accepts' \in [Secrets -> Nat] /\ given' \in BOOLEAN
      BY <1>0, <2>1
    <3>7. QED
      BY <2>1, <2>3, <3>1, <3>2, <3>3, <3>4, <3>5, <3>6, DoneHolds, AccountWritten
  <2>4. QED
    BY <1>17, <2>2, <2>3 DEF deleteUser
<1>18. ASSUME NEW c \in AccountCalls, webauthnRegisterFinish(c) PROVE AccountInv'
  <2>0. /\ Holds(call[c]) /\ call[c] \in CallStates /\ call[c].version \in Nat
        /\ call[c].version <= version
        /\ WellFormed(call[c].mine) /\ IsFiniteSet(call[c].keys) /\ version \in Nat
    BY CallFields DEF Holds
  <2>1. call[c].pc = "create" /\ UNCHANGED <<row, pending, failed, accepts, given>>
    BY <1>18 DEF webauthnRegisterFinish
  <2>2. RestTypeOK'
    BY <1>0, <1>18 DEF webauthnRegisterFinish, RestTypeOK
  <2>3. CASE Finish(c) /\ UNCHANGED <<passkeys, version, stale>>
    BY <2>1, <2>2, <2>3, CallEnds DEF Flagging, accountMemory
  <2>4. ASSUME passkeys' = passkeys \cup {c}, Touch(c), GoOn(c, "flag") PROVE AccountInv'
    <3> DEFINE v == version + 1
               y == [call[c] EXCEPT !.pc = "flag", !.version = v]
    <3>0. v \in Nat
      BY <2>0
    <3>1. call' = [call EXCEPT ![c] = y]
      BY <2>0, <2>4 DEF CallStates, GoOn, Touch
    <3>2. y \in CallStates /\ y.keys = call[c].keys /\ y.mine = call[c].mine
          /\ y.version = v /\ y.pc = "flag"
      <4> HIDE DEF v
      <4> QED
        BY <2>0, <3>0 DEF CallStates, CallPcs
    <3> HIDE DEF y
    <3>3. Holds(y) /\ y.version <= version + 1
      BY <2>0, <3>2 DEF Holds
    <3>4. passkeys' \subseteq Passkeys /\ IsFiniteSet(passkeys') /\ passkeys' # {}
      BY <1>0, <2>4, FS_AddElement DEF Passkeys
    <3>5. ~stale /\ call[c].version = version => UpToDate(y, version + 1, row', passkeys')
      BY <2>1, <3>2, <3>4, CallFields DEF UpToDate
    <3>6. WellFormed(row') /\ accepts' \in [Secrets -> Nat] /\ given' \in BOOLEAN
      BY <1>0, <2>1
    <3>7. ~stale /\ ~failed => Unspent(accepts', row')
      BY <2>1 DEF AccountInv, CodesLeft
    <3>8. ~stale /\ row'.exists /\ row'.role = "admin" => given'
      BY <2>1 DEF AccountInv, AdminRoleWasGiven
    <3>9. call'[c].pc \in Flagging
      BY <2>0, <3>1, <3>2 DEF Flagging, AccountInv, AccountsTypeOK
    <3>10. QED
      BY <2>1, <2>2, <2>4, <3>1, <3>3, <3>4, <3>5, <3>6, <3>7, <3>8, <3>9, AccountWritten
  <2>5. QED
    BY <1>18, <2>3, <2>4 DEF webauthnRegisterFinish
<1>19. ASSUME NEW c \in AccountCalls, webauthnRegisterFlag(c) PROVE AccountInv'
  <2>0. /\ Holds(call[c]) /\ call[c] \in CallStates /\ call[c].version \in Nat
        /\ call[c].version <= version
        /\ WellFormed(call[c].mine) /\ IsFiniteSet(call[c].keys) /\ version \in Nat
    BY CallFields DEF Holds
  <2> DEFINE u == [call[c].mine EXCEPT !.passkey = TRUE]
  <2>1. /\ call[c].pc = "flag" /\ Finish(c)
        /\ UNCHANGED <<pending, passkeys, ceremony, accepts, given>>
    BY <1>19 DEF webauthnRegisterFlag
  <2>2. PICK ok \in BOOLEAN : UpdateUser(c, u, ok)
    BY <1>19 DEF webauthnRegisterFlag
  <2>3. /\ WellFormed(u) /\ u.exists = call[c].mine.exists /\ u.role = call[c].mine.role
        /\ u.secret = call[c].mine.secret /\ u.backup = call[c].mine.backup /\ u.passkey = TRUE
    BY <2>0 DEF WellFormed, Row
  <2> HIDE DEF u
  <2>4. ASSUME ~stale, call[c].version = version
        PROVE  /\ ~failed => Unspent(accepts', u)
               /\ u.passkey = (passkeys # {})
               /\ u.exists /\ u.role = "admin" => given'
    <3>1. call[c].mine = row
      BY <2>1, <2>4, CallFields
    <3>2. passkeys # {}
      BY <2>1, <2>4 DEF AccountInv, CallsAreUpToDate, UpToDate
    <3>3. ~failed => Unspent(accepts, row)
      BY <2>4 DEF AccountInv, CodesLeft
    <3>4. row.exists /\ row.role = "admin" => given
      BY <2>4 DEF AccountInv, AdminRoleWasGiven
    <3>5. ~failed => Unspent(accepts', u)
      BY <2>1, <2>3, <3>1, <3>3 DEF Unspent
    <3>6. QED
      BY <2>1, <2>3, <3>1, <3>2, <3>4, <3>5
  <2>5. call[c].pc \in Flagging /\ accepts' \in [Secrets -> Nat] /\ given' \in BOOLEAN
        /\ given' = given
    BY <1>0, <2>1 DEF Flagging
  <2>6. QED
    BY <2>1, <2>2, <2>3, <2>4, <2>5, RowWrittenLast
<1>20. ASSUME NEW c \in AccountCalls, webauthnDeleteFlag(c) PROVE AccountInv'
  <2>0. /\ Holds(call[c]) /\ call[c] \in CallStates /\ call[c].version \in Nat
        /\ call[c].version <= version
        /\ WellFormed(call[c].mine) /\ IsFiniteSet(call[c].keys) /\ version \in Nat
    BY CallFields DEF Holds
  <2> DEFINE u == [call[c].mine EXCEPT !.passkey = FALSE]
  <2>1. /\ call[c].pc = "unflag" /\ Finish(c)
        /\ UNCHANGED <<pending, passkeys, ceremony, accepts, given>>
    BY <1>20 DEF webauthnDeleteFlag
  <2>2. PICK ok \in BOOLEAN : UpdateUser(c, u, ok)
    BY <1>20 DEF webauthnDeleteFlag
  <2>3. /\ WellFormed(u) /\ u.exists = call[c].mine.exists /\ u.role = call[c].mine.role
        /\ u.secret = call[c].mine.secret /\ u.backup = call[c].mine.backup /\ u.passkey = FALSE
    BY <2>0 DEF WellFormed, Row
  <2> HIDE DEF u
  <2>4. ASSUME ~stale, call[c].version = version
        PROVE  /\ ~failed => Unspent(accepts', u)
               /\ u.passkey = (passkeys # {})
               /\ u.exists /\ u.role = "admin" => given'
    <3>1. call[c].mine = row
      BY <2>1, <2>4, CallFields
    <3>2. passkeys = {}
      BY <2>1, <2>4 DEF AccountInv, CallsAreUpToDate, UpToDate
    <3>3. ~failed => Unspent(accepts, row)
      BY <2>4 DEF AccountInv, CodesLeft
    <3>4. row.exists /\ row.role = "admin" => given
      BY <2>4 DEF AccountInv, AdminRoleWasGiven
    <3>5. ~failed => Unspent(accepts', u)
      BY <2>1, <2>3, <3>1, <3>3 DEF Unspent
    <3>6. QED
      BY <2>1, <2>3, <3>1, <3>2, <3>4, <3>5
  <2>5. call[c].pc \in Flagging /\ accepts' \in [Secrets -> Nat] /\ given' \in BOOLEAN
        /\ given' = given
    BY <1>0, <2>1 DEF Flagging
  <2>6. QED
    BY <2>1, <2>2, <2>3, <2>4, <2>5, RowWrittenLast
<1>21. ASSUME NEW c \in AccountCalls, NEW k \in Passkeys, webauthnDeleteList(c, k) PROVE AccountInv'
  <2>0. /\ Holds(call[c]) /\ call[c] \in CallStates /\ call[c].version \in Nat
        /\ call[c].version <= version
        /\ WellFormed(call[c].mine) /\ IsFiniteSet(call[c].keys) /\ version \in Nat
    BY CallFields DEF Holds
  <2> DEFINE y == [call[c] EXCEPT !.work = "webauthnDelete", !.pc = "remove", !.key = k,
                         !.keys = passkeys, !.version = version]
  <2>1. /\ call' = [call EXCEPT ![c] = y] /\ UNCHANGED <<row, passkeys, accountMemory>>
        /\ call[c].pc \notin Flagging
    BY <1>21, <2>0 DEF webauthnDeleteList, Flagging, CallStates
  <2>2. RestTypeOK'
    BY <1>0, <1>21 DEF webauthnDeleteList, RestTypeOK
  <2>3. y \in CallStates /\ y.keys = passkeys /\ y.key = k /\ y.mine = call[c].mine
        /\ y.version = version /\ y.pc = "remove"
    BY <1>0, <1>21, <2>0 DEF webauthnDeleteList, CallStates, CallPcs
  <2> HIDE DEF y
  <2>4. Holds(y) /\ y.version <= version
    BY <1>0, <1>21, <2>0, <2>3 DEF Holds, Works, webauthnDeleteList
  <2>5. ~stale => UpToDate(y, version, row, passkeys)
    BY <2>0, <2>3 DEF UpToDate
  <2>6. QED
    BY <2>1, <2>2, <2>4, <2>5, CallReads
<1>22. ASSUME NEW c \in AccountCalls, webauthnDelete(c) PROVE AccountInv'
  <2>0. /\ Holds(call[c]) /\ call[c] \in CallStates /\ call[c].version \in Nat
        /\ call[c].version <= version
        /\ WellFormed(call[c].mine) /\ IsFiniteSet(call[c].keys) /\ version \in Nat
    BY CallFields DEF Holds
  <2>1. /\ call[c].pc = "remove" /\ UNCHANGED <<row, pending, ceremony, failed, accepts, given>>
        /\ call[c].key \in call[c].keys /\ RestTypeOK'
    BY <1>0, <1>22, <2>0 DEF webauthnDelete, Holds, RestTypeOK
  <2>2. CASE Finish(c) /\ UNCHANGED <<passkeys, version, stale>>
    BY <2>1, <2>2, CallEnds DEF Flagging, accountMemory
  <2> DEFINE last == LastPasskey(call[c].keys)
             v == version + 1
             l == IF last THEN "reread" ELSE "done"
             y == [call[c] EXCEPT !.pc = l, !.version = v]
  <2>3. ASSUME call[c].key \in passkeys, passkeys' = passkeys \ {call[c].key}, Touch(c),
               GoOn(c, IF last THEN "reread" ELSE "done")
        PROVE  AccountInv'
    <3>0. v \in Nat /\ l \in {"reread", "done"}
      BY <2>0
    <3>1. call' = [call EXCEPT ![c] = y]
      BY <2>0, <2>3 DEF CallStates, GoOn, Touch
    <3>2. y \in CallStates /\ y.keys = call[c].keys /\ y.mine = call[c].mine
          /\ y.version = v /\ y.pc = l
      <4> HIDE DEF v, l
      <4> QED
        BY <2>0, <3>0 DEF CallStates, CallPcs
    <3> HIDE DEF y
    <3>3. Holds(y) /\ y.version <= version + 1
      BY <2>0, <3>2 DEF Holds
    <3>4. passkeys' \subseteq Passkeys /\ IsFiniteSet(passkeys')
      BY <1>0, <2>3, FS_RemoveElement
    <3>5. ~stale /\ call[c].version = version => call[c].keys = passkeys
      BY <2>1 DEF AccountInv, CallsAreUpToDate, UpToDate
    <3>6. ~stale /\ call[c].version = version => (last <=> passkeys' = {})
      BY <1>0, <2>3, <3>5, LastIsLast
    <3>7. ~stale /\ call[c].version = version => UpToDate(y, version + 1, row', passkeys')
      BY <3>2, <3>6 DEF UpToDate
    <3>8. WellFormed(row') /\ accepts' \in [Secrets -> Nat] /\ given' \in BOOLEAN
      BY <1>0, <2>1
    <3>9. ~stale /\ ~failed => Unspent(accepts', row')
      BY <2>1 DEF AccountInv, CodesLeft
    <3>10. ~stale /\ row'.exists /\ row'.role = "admin" => given'
      BY <2>1 DEF AccountInv, AdminRoleWasGiven
    <3>11. ASSUME ~stale, call[c].version = version, ~failed, row'.exists,
                  \A d \in AccountCalls : call'[d].pc \notin Flagging
           PROVE  row'.passkey = (passkeys' # {})
      <4>1. call'[c] = y /\ \A d \in AccountCalls : d # c => call'[d] = call[d]
        BY <3>1 DEF AccountInv, AccountsTypeOK
      <4>2. ~last /\ passkeys' # {}
        BY <3>2, <3>6, <3>11, <4>1 DEF Flagging
      <4>3. \A d \in AccountCalls : call[d].pc \notin Flagging
        BY <2>1, <3>11, <4>1 DEF Flagging
      <4>4. row.passkey = (passkeys # {})
        BY <2>1, <3>11, <4>3 DEF AccountInv, PasskeyFlagAgrees, Flagging
      <4>5. passkeys # {}
        BY <2>3
      <4>6. QED
        BY <2>1, <4>2, <4>4, <4>5
    <3>12. QED
      BY <2>1, <2>3, <3>1, <3>3, <3>4, <3>7, <3>8, <3>9, <3>10, <3>11, AccountWritten
  <2>4. QED
    BY <1>22, <2>2, <2>3 DEF webauthnDelete
<1>23. ASSUME NEW c \in AccountCalls, webauthnDeleteGet(c) PROVE AccountInv'
  <2>0. /\ Holds(call[c]) /\ call[c] \in CallStates /\ call[c].version \in Nat
        /\ call[c].version <= version
        /\ WellFormed(call[c].mine) /\ IsFiniteSet(call[c].keys) /\ version \in Nat
    BY CallFields DEF Holds
  <2> DEFINE y == [call[c] EXCEPT !.mine = row, !.pc = IF row.exists THEN "unflag" ELSE "done"]
  <2>1. /\ call[c].pc = "reread" /\ call' = [call EXCEPT ![c] = y]
        /\ UNCHANGED <<row, passkeys, accountMemory>>
    BY <1>23, <2>0 DEF webauthnDeleteGet, CallStates
  <2>2. RestTypeOK'
    BY <1>0, <1>23 DEF webauthnDeleteGet, RestTypeOK
  <2>3. y \in CallStates /\ y.keys = call[c].keys /\ y.mine = row
        /\ y.version = call[c].version /\ y.pc = IF row.exists THEN "unflag" ELSE "done"
    BY <1>0, <2>0 DEF CallStates, CallPcs
  <2> HIDE DEF y
  <2>4. Holds(y) /\ y.version <= version
    BY <1>0, <2>0, <2>3 DEF Holds
  <2>5. ~stale => UpToDate(call[c], version, row, passkeys)
    BY DEF AccountInv, CallsAreUpToDate
  <2>6. ~stale => UpToDate(y, version, row, passkeys)
    BY <2>1, <2>3, <2>5 DEF UpToDate
  <2>7. QED
    BY <2>1, <2>2, <2>3, <2>4, <2>6, CallReads DEF Flagging
<1>24. ASSUME NEW c \in AccountCalls, webauthnLoginBegin(c) PROVE AccountInv'
  <2>0. /\ Holds(call[c]) /\ call[c] \in CallStates /\ call[c].version \in Nat
        /\ call[c].version <= version
        /\ WellFormed(call[c].mine) /\ IsFiniteSet(call[c].keys) /\ version \in Nat
    BY CallFields DEF Holds
  <2> DEFINE y == [call[c] EXCEPT !.work = "webauthnLoginBegin", !.pc = "done"]
  <2>1. /\ call' = [call EXCEPT ![c] = y] /\ UNCHANGED <<row, passkeys, accountMemory>>
        /\ call[c].pc \notin Flagging
    BY <1>24, <2>0 DEF webauthnLoginBegin, Flagging, CallStates
  <2>2. RestTypeOK'
    BY <1>0, <1>24 DEF webauthnLoginBegin, RestTypeOK
  <2>3. y \in CallStates /\ y.keys = call[c].keys /\ y.mine = call[c].mine
        /\ y.version = call[c].version /\ y.pc = "done"
    BY <1>0, <1>24, <2>0 DEF webauthnLoginBegin, CallStates, CallPcs
  <2> HIDE DEF y
  <2>4. Holds(y) /\ y.version <= version
    BY <1>0, <1>24, <2>0, <2>3 DEF Holds, Works, webauthnLoginBegin
  <2>5. ~stale => UpToDate(y, version, row, passkeys)
    BY <2>0, <2>3 DEF UpToDate
  <2>6. QED
    BY <2>1, <2>2, <2>4, <2>5, CallReads
<1>25. ASSUME NEW c \in AccountCalls, webauthnLoginLoad(c) PROVE AccountInv'
  <2>0. /\ Holds(call[c]) /\ call[c] \in CallStates /\ call[c].version \in Nat
        /\ call[c].version <= version
        /\ WellFormed(call[c].mine) /\ IsFiniteSet(call[c].keys) /\ version \in Nat
    BY CallFields DEF Holds
  <2> DEFINE y == [call[c] EXCEPT !.work = "webauthnLoginFinish", !.pc = "validated",
                         !.mine = row, !.keys = passkeys, !.version = version]
  <2>1. /\ call' = [call EXCEPT ![c] = y] /\ UNCHANGED <<row, passkeys, accountMemory>>
        /\ call[c].pc \notin Flagging
    BY <1>25, <2>0 DEF webauthnLoginLoad, Flagging, CallStates
  <2>2. RestTypeOK'
    BY <1>0, <1>25 DEF webauthnLoginLoad, RestTypeOK
  <2>3. y \in CallStates /\ y.keys = passkeys /\ y.mine = row
        /\ y.version = version /\ y.pc = "validated"
    BY <1>0, <1>25, <2>0 DEF webauthnLoginLoad, CallStates, CallPcs
  <2> HIDE DEF y
  <2>4. Holds(y) /\ y.version <= version
    BY <1>0, <1>25, <2>0, <2>3 DEF Holds, Works, webauthnLoginLoad
  <2>5. ~stale => UpToDate(y, version, row, passkeys)
    BY <2>0, <2>3 DEF UpToDate
  <2>6. QED
    BY <2>1, <2>2, <2>4, <2>5, CallReads
<1>26. ASSUME NEW c \in AccountCalls, webauthnLoginFinish(c) PROVE AccountInv'
  <2>0. /\ Holds(call[c]) /\ call[c] \in CallStates /\ call[c].version \in Nat
        /\ call[c].version <= version
        /\ WellFormed(call[c].mine) /\ IsFiniteSet(call[c].keys) /\ version \in Nat
    BY CallFields DEF Holds
  <2> DEFINE y == [call[c] EXCEPT !.pc = IF row.exists THEN "session" ELSE "done"]
  <2>1. /\ call' = [call EXCEPT ![c] = y] /\ UNCHANGED <<row, passkeys, accountMemory>>
        /\ call[c].pc \notin Flagging
    BY <1>26, <2>0 DEF webauthnLoginFinish, Flagging, GoTo, CallStates
  <2>2. RestTypeOK'
    BY <1>0, <1>26 DEF webauthnLoginFinish, RestTypeOK
  <2>3. y \in CallStates /\ y.keys = call[c].keys /\ y.mine = call[c].mine
        /\ y.version = call[c].version /\ y.pc \in {"session", "done"}
    BY <1>0, <1>26, <2>0 DEF webauthnLoginFinish, CallStates, CallPcs, GoTo
  <2> HIDE DEF y
  <2>4. Holds(y) /\ y.version <= version
    BY <1>0, <1>26, <2>0, <2>3 DEF Holds, Works, webauthnLoginFinish, GoTo
  <2>5. ~stale => UpToDate(y, version, row, passkeys)
    BY <2>0, <2>3 DEF UpToDate
  <2>6. QED
    BY <2>1, <2>2, <2>4, <2>5, CallReads
<1>27. ASSUME NEW c \in AccountCalls, webauthnRegisterLoad(c) PROVE AccountInv'
  <2>0. /\ Holds(call[c]) /\ call[c] \in CallStates /\ call[c].version \in Nat
        /\ call[c].version <= version
        /\ WellFormed(call[c].mine) /\ IsFiniteSet(call[c].keys) /\ version \in Nat
    BY CallFields DEF Holds
  <2>1. call[c].pc = "got" /\ UNCHANGED <<row, passkeys, accountMemory>>
    BY <1>27 DEF webauthnRegisterLoad, At
  <2>2. RestTypeOK'
    BY <1>0, <1>27 DEF webauthnRegisterLoad, RestTypeOK
  <2>3. CASE Finish(c)
    BY <2>1, <2>2, <2>3, CallEnds DEF Flagging
  <2>4. CASE GoTo(c, "verified")
    <3> DEFINE y == [call[c] EXCEPT !.pc = "verified"]
    <3>1. call' = [call EXCEPT ![c] = y]
      BY <2>0, <2>4 DEF GoTo, CallStates
    <3>2. y \in CallStates /\ y.keys = call[c].keys /\ y.mine = call[c].mine
          /\ y.version = call[c].version /\ y.pc = "verified"
      BY <2>0 DEF CallStates, CallPcs
    <3> HIDE DEF y
    <3>3. Holds(y) /\ y.version <= version
      BY <2>0, <3>2 DEF Holds
    <3>4. ~stale => UpToDate(call[c], version, row, passkeys)
      BY DEF AccountInv, CallsAreUpToDate
    <3>5. ~stale => UpToDate(y, version, row, passkeys)
      BY <2>1, <3>2, <3>4 DEF UpToDate
    <3>6. QED
      BY <2>1, <2>2, <3>1, <3>3, <3>5, CallReads DEF Flagging
  <2>5. QED
    BY <1>27, <2>3, <2>4 DEF webauthnRegisterLoad
<1>28. ASSUME NEW c \in AccountCalls, webauthnRegisterForget(c) PROVE AccountInv'
  <2>0. /\ Holds(call[c]) /\ call[c] \in CallStates /\ call[c].version \in Nat
        /\ call[c].version <= version
        /\ WellFormed(call[c].mine) /\ IsFiniteSet(call[c].keys) /\ version \in Nat
    BY CallFields DEF Holds
  <2> DEFINE y == [call[c] EXCEPT !.pc = "create"]
  <2>1. /\ call[c].pc = "verified" /\ call' = [call EXCEPT ![c] = y]
        /\ UNCHANGED <<row, passkeys, accountMemory>>
    BY <1>28, <2>0 DEF webauthnRegisterForget, GoTo, CallStates
  <2>2. RestTypeOK'
    BY <1>0, <1>28 DEF webauthnRegisterForget, RestTypeOK
  <2>3. y \in CallStates /\ y.keys = call[c].keys /\ y.mine = call[c].mine
        /\ y.version = call[c].version /\ y.pc = "create"
    BY <2>0 DEF CallStates, CallPcs
  <2> HIDE DEF y
  <2>4. Holds(y) /\ y.version <= version
    BY <2>0, <2>3 DEF Holds
  <2>5. ~stale => UpToDate(call[c], version, row, passkeys)
    BY DEF AccountInv, CallsAreUpToDate
  <2>6. ~stale => UpToDate(y, version, row, passkeys)
    BY <2>1, <2>3, <2>5 DEF UpToDate
  <2>7. QED
    BY <2>1, <2>2, <2>4, <2>6, CallReads DEF Flagging
<1>29. UNCHANGED accountVars => AccountInv'
  BY DEF accountVars, AccountInv, AccountsTypeOK, CallsHold, CallsAreUpToDate, CodesLeft,
     PasskeyFlagAgrees, AdminRoleWasGiven
<1>30. QED
  BY <1>1, <1>2, <1>3, <1>4, <1>5, <1>6, <1>7, <1>8, <1>9, <1>10, <1>11, <1>12, <1>13, <1>14, <1>15,
     <1>16, <1>17, <1>18, <1>19, <1>20, <1>21, <1>22, <1>23, <1>24, <1>25, <1>26,
     <1>27, <1>28, <1>29 DEF AccountsNext, Passkeys

\* AccountIsGuarded: for any number of calls on an account, in any order
\* (mfa.go, password.go, webauthn.go, api.go).
THEOREM AccountStaysGuarded == AccountsSpec => []AccountIsGuarded
<1>1. AccountsInit => AccountInv
  <2> SUFFICES ASSUME AccountsInit PROVE AccountInv
    OBVIOUS
  <2>1. PICK mfa \in BOOLEAN, pw \in BOOLEAN, key \in BOOLEAN, r \in {"user", "admin"} :
          /\ pw => mfa
          /\ row = [exists |-> TRUE, role |-> r, mfa |-> mfa,
                    secret |-> IF mfa THEN OldSecret ELSE Nothing,
                    backup |-> mfa, password |-> pw, passkey |-> key]
          /\ passkeys = IF key THEN {OldPasskey} ELSE {}
          /\ given = (r = "admin")
    BY DEF AccountsInit
  <2>2. WellFormed(row) /\ row.exists /\ row.role = r /\ row.passkey = key
    BY <2>1, AccountAssumption DEF WellFormed, Row, Secrets
  <2>3. passkeys \subseteq Passkeys /\ IsFiniteSet(passkeys)
    BY <2>1, FS_EmptySet, FS_Singleton DEF Passkeys
  <2>4. row.passkey = (passkeys # {})
    BY <2>1, <2>2
  <2>5. call = [c \in AccountCalls |-> Unused]
    BY DEF AccountsInit
  <2>6. Holds(Unused) /\ Unused.pc = "idle" /\ Unused.version = 0
    BY DoneHolds, FS_EmptySet DEF Holds, Unused, CallStates, CallPcs, WellFormed
  <2>7. \A c \in AccountCalls : call[c] = Unused
    BY <2>5
  <2>8. call \in [AccountCalls -> CallStates]
    BY <2>5, <2>6 DEF Holds
  <2>9. version = 0 /\ stale = FALSE /\ failed = FALSE /\ accepts = [s \in Secrets |-> 0]
    BY DEF AccountsInit
  <2>10. pending \in Secrets \cup {Nothing}
         /\ ceremony \in [reg : BOOLEAN, login : AccountCalls \cup {Nothing}]
    BY DEF AccountsInit
  <2>11. \A c \in AccountCalls : call[c].version <= version
    BY <2>6, <2>7, <2>9
  <2>12. given \in BOOLEAN /\ row \in Row
    BY <2>1, <2>2 DEF WellFormed
  <2>13. AccountsTypeOK
    BY <2>3, <2>8, <2>9, <2>10, <2>11, <2>12 DEF AccountsTypeOK
  <2>14. CallsHold
    BY <2>6, <2>7 DEF CallsHold
  <2>15. CallsAreUpToDate
    BY <2>6, <2>7 DEF CallsAreUpToDate, UpToDate
  <2>16. CodesLeft
    BY <2>9 DEF CodesLeft, Unspent
  <2>17. PasskeyFlagAgrees
    BY <2>4 DEF PasskeyFlagAgrees
  <2>18. AdminRoleWasGiven
    BY <2>1, <2>2 DEF AdminRoleWasGiven
  <2>19. QED
    BY <2>2, <2>13, <2>14, <2>15, <2>16, <2>17, <2>18 DEF AccountInv
<1>2. AccountsSpec => []AccountInv
  BY <1>1, AccountStep, PTL DEF AccountsSpec
<1>3. AccountInv => AccountIsGuarded
  <2> SUFFICES ASSUME AccountInv PROVE AccountIsGuarded
    OBVIOUS
  <2>1. PasswordNeedsMFA
    BY DEF AccountInv, WellFormed, PasswordNeedsMFA
  <2>2. BackupCodeAcceptedOnce
    BY DEF AccountInv, CodesLeft, Unspent, BackupCodeAcceptedOnce
  <2>3. QED
    BY <2>1, <2>2 DEF AccountInv, AccountIsGuarded
<1>4. QED
  BY <1>2, <1>3, PTL

(**** The certificate authority ****)

\* Without an active key nobody runs and nothing is issued, and who serves the
\* agent runs.
NothingWithoutKey ==
    /\ activeKey = NoneYet => \A g \in Gateways : ~Up(g)
    /\ activeKey = NoneYet => \A c \in Serials : ~Issued(c)
    /\ agent.link # NoneYet => Up(agent.link)

\* What is told, listed or being revoked is revoked in the store, and a
\* revoked certificate was issued.
ToldIsRevoked ==
    /\ \A c \in Serials : certs[c].revoked => Issued(c)
    /\ \A g \in Gateways : \A c \in told[g] \cup knew[g] : certs[c].revoked
    /\ \A g \in Gateways : gateway[g].revoking # NoneYet => certs[gateway[g].revoking].revoked

\* What a gateway was told of is in its cache until it expires, and in the list
\* that is about to replace the cache.
ToldIsKept ==
    \A g \in Gateways :
        /\ \A c \in told[g] : c \in cache[g] \/ Expired(c)
        /\ gateway[g].refresh = "swap" =>
              \A c \in told[g] \cup knew[g] : c \in gateway[g].listed \/ Expired(c)

CertInv == CertTypeOK /\ OneAuthority /\ NothingWithoutKey /\ ToldIsRevoked /\ ToldIsKept

\* The lifetimes as facts about numbers.
LEMMA CertNumbers ==
    /\ DefTTL \in Nat /\ MaxTTL \in Nat /\ HostTTL \in Nat /\ CertTime \in Nat
    /\ NoneYet \notin Gateways /\ NoneYet \notin Serials
<1>1. \A n \in {DefTTL, MaxTTL, HostTTL, CertTime} : n \in Nat
  BY CertAssumption
<1>2. QED
  BY <1>1, CertAssumption

\* The fields of a row and of a process.
LEMMA CertFields ==
    /\ \A x \in CertRows : x.kind \in {"none", "user", "host"} /\ x.until \in Nat /\ x.revoked \in BOOLEAN
                           /\ x.key \in Gateways \cup {NoneYet}
    /\ \A p \in Processes : p.pc \in {"down", "generate", "up"} /\ p.signer \in Gateways \cup {NoneYet}
                            /\ p.listed \subseteq Serials /\ p.refresh \in {"idle", "swap"}
                            /\ p.revoking \in Serials \cup {NoneYet}
  BY DEF CertRows, Processes

\* A process that changes is a process, and the others stay what they are.
LEMMA GatewayMoves ==
    ASSUME CertTypeOK, NEW g \in Gateways, NEW y \in Processes, gateway' = [gateway EXCEPT ![g] = y]
    PROVE  gateway' \in [Gateways -> Processes] /\ gateway'[g] = y
           /\ \A h \in Gateways : h # g => gateway'[h] = gateway[h]
  BY DEF CertTypeOK

\* Time only makes certificates expire.
LEMMA ExpiredStays ==
    ASSUME CertTypeOK, day' \in Nat, day' >= day, NEW c \in Serials,
           certs'[c].until = certs[c].until
    PROVE  Expired(c) => Expired(c)'
<1>1. day \in Nat /\ certs[c].until \in Nat
  BY CertNumbers, CertFields DEF CertTypeOK
<1>2. QED
  BY <1>1 DEF Expired

\* Every step keeps the invariant.
LEMMA CertStep ==
    ASSUME CertInv
    PROVE  [CertNext]_certVars => CertInv'
<1> USE CertNumbers DEF CertInv
<1>1. ASSUME CertTick
      PROVE  CertInv'
  BY <1>1 DEF CertTick, CertTypeOK, OneAuthority, NothingWithoutKey, ToldIsRevoked, ToldIsKept,
     CertRows, Processes, Up, Issued, Expired
<1>2. ASSUME agentDrops
      PROVE  CertInv'
  BY <1>2 DEF agentDrops, CertTypeOK, OneAuthority, NothingWithoutKey, ToldIsRevoked, ToldIsKept,
     CertRows, Processes, Up, Issued, Expired
<1>3. ASSUME NEW g \in Gateways, bootstrap(g)
      PROVE  CertInv'
  <2> USE <1>3 DEF bootstrap
  <2>1. CASE activeKey = NoneYet
    <3> DEFINE y == [gateway[g] EXCEPT !.pc = "generate"]
    <3>1. gateway[g] \in Processes
      BY DEF CertTypeOK
    <3>2. /\ gateway' = [gateway EXCEPT ![g] = y] /\ cache' = cache /\ UNCHANGED activeKey
          /\ UNCHANGED <<day, certs, agent, knew, told>>
      BY <2>1
    <3>3. y \in Processes /\ y.pc = "generate" /\ y.signer = gateway[g].signer
          /\ y.listed = gateway[g].listed /\ y.refresh = gateway[g].refresh
          /\ y.revoking = gateway[g].revoking
      BY <3>1, <3>2 DEF Processes, CertTypeOK
    <3> HIDE DEF y, bootstrap
    <3>4. /\ gateway' \in [Gateways -> Processes] /\ gateway'[g] = y
          /\ \A h \in Gateways : h # g => gateway'[h] = gateway[h]
      BY <3>2, <3>3, GatewayMoves
    <3>5. gateway[g].pc # "up"
      BY <1>3 DEF bootstrap
    <3>6. CertTypeOK'
      BY <3>2, <3>4 DEF CertTypeOK, Revoked
    <3>7. OneAuthority'
      BY <2>1, <3>2, <3>3, <3>4 DEF OneAuthority, NothingWithoutKey, Up, Issued
    <3>8. NothingWithoutKey'
      BY <2>1, <3>2, <3>3, <3>4, <3>5 DEF NothingWithoutKey, Up, Issued, CertTypeOK
    <3>9. ToldIsRevoked'
      BY <3>2, <3>3, <3>4 DEF ToldIsRevoked, Issued
    <3>10. ToldIsKept'
      BY <3>2, <3>3, <3>4 DEF ToldIsKept, ToldIsRevoked, Revoked, Expired, CertTypeOK
    <3>11. QED
      BY <3>6, <3>7, <3>8, <3>9, <3>10
  <2>2. CASE activeKey # NoneYet
    <3> DEFINE y == [gateway[g] EXCEPT !.pc = "up", !.signer = activeKey]
    <3>1. gateway[g] \in Processes
      BY DEF CertTypeOK
    <3>2. /\ gateway' = [gateway EXCEPT ![g] = y] /\ cache' = [cache EXCEPT ![g] = Revoked]
          /\ UNCHANGED activeKey /\ UNCHANGED <<day, certs, agent, knew, told>>
      BY <2>2
    <3>3. y \in Processes /\ y.pc = "up" /\ y.signer = activeKey
          /\ y.listed = gateway[g].listed /\ y.refresh = gateway[g].refresh
          /\ y.revoking = gateway[g].revoking
      BY <3>1, <3>2 DEF Processes, CertTypeOK
    <3> HIDE DEF y, bootstrap
    <3>4. /\ gateway' \in [Gateways -> Processes] /\ gateway'[g] = y
          /\ \A h \in Gateways : h # g => gateway'[h] = gateway[h]
      BY <3>2, <3>3, GatewayMoves
    <3>5. gateway[g].pc # "up"
      BY <1>3 DEF bootstrap
    <3>6. CertTypeOK'
      BY <3>2, <3>4 DEF CertTypeOK, Revoked
    <3>7. OneAuthority'
      BY <2>2, <3>2, <3>3, <3>4 DEF OneAuthority, NothingWithoutKey, Up, Issued
    <3>8. NothingWithoutKey'
      BY <2>2, <3>2, <3>3, <3>4, <3>5 DEF NothingWithoutKey, Up, Issued, CertTypeOK
    <3>9. ToldIsRevoked'
      BY <3>2, <3>3, <3>4 DEF ToldIsRevoked, Issued
    <3>10. ToldIsKept'
      BY <3>2, <3>3, <3>4 DEF ToldIsKept, ToldIsRevoked, Revoked, Expired, CertTypeOK
    <3>11. QED
      BY <3>6, <3>7, <3>8, <3>9, <3>10
  <2>3. QED
    BY <2>1, <2>2
<1>4. ASSUME NEW g \in Gateways, bootstrapPersist(g)
      PROVE  CertInv'
  <2> USE <1>4 DEF bootstrapPersist
  <2>1. CASE activeKey # NoneYet
    <3> DEFINE y == [gateway[g] EXCEPT !.pc = "down"]
    <3>1. gateway[g] \in Processes
      BY DEF CertTypeOK
    <3>2. /\ gateway' = [gateway EXCEPT ![g] = y] /\ cache' = cache /\ UNCHANGED activeKey
          /\ UNCHANGED <<day, certs, agent, knew, told>>
      BY <2>1 DEF CreateCAKey
    <3>3. y \in Processes /\ y.pc = "down" /\ y.signer = gateway[g].signer
          /\ y.listed = gateway[g].listed /\ y.refresh = gateway[g].refresh
          /\ y.revoking = gateway[g].revoking
      BY <3>1, <3>2 DEF Processes, CertTypeOK
    <3> HIDE DEF y, bootstrapPersist
    <3>4. /\ gateway' \in [Gateways -> Processes] /\ gateway'[g] = y
          /\ \A h \in Gateways : h # g => gateway'[h] = gateway[h]
      BY <3>2, <3>3, GatewayMoves
    <3>5. gateway[g].pc # "up"
      BY <1>4 DEF bootstrapPersist
    <3>6. CertTypeOK'
      BY <3>2, <3>4 DEF CertTypeOK, Revoked
    <3>7. OneAuthority'
      BY <2>1, <3>2, <3>3, <3>4 DEF OneAuthority, NothingWithoutKey, Up, Issued
    <3>8. NothingWithoutKey'
      BY <2>1, <3>2, <3>3, <3>4, <3>5 DEF NothingWithoutKey, Up, Issued, CertTypeOK
    <3>9. ToldIsRevoked'
      BY <3>2, <3>3, <3>4 DEF ToldIsRevoked, Issued
    <3>10. ToldIsKept'
      BY <3>2, <3>3, <3>4 DEF ToldIsKept, ToldIsRevoked, Revoked, Expired, CertTypeOK
    <3>11. QED
      BY <3>6, <3>7, <3>8, <3>9, <3>10
  <2>2. CASE activeKey = NoneYet
    <3> DEFINE y == [gateway[g] EXCEPT !.pc = "up", !.signer = g]
    <3>1. gateway[g] \in Processes
      BY DEF CertTypeOK
    <3>2. /\ gateway' = [gateway EXCEPT ![g] = y] /\ cache' = [cache EXCEPT ![g] = Revoked]
          /\ activeKey' = g /\ UNCHANGED <<day, certs, agent, knew, told>>
      BY <2>2 DEF CreateCAKey
    <3>3. y \in Processes /\ y.pc = "up" /\ y.signer = activeKey'
          /\ y.listed = gateway[g].listed /\ y.refresh = gateway[g].refresh
          /\ y.revoking = gateway[g].revoking
      BY <3>1, <3>2 DEF Processes, CertTypeOK
    <3> HIDE DEF y, bootstrapPersist
    <3>4. /\ gateway' \in [Gateways -> Processes] /\ gateway'[g] = y
          /\ \A h \in Gateways : h # g => gateway'[h] = gateway[h]
      BY <3>2, <3>3, GatewayMoves
    <3>5. gateway[g].pc # "up"
      BY <1>4 DEF bootstrapPersist
    <3>6. CertTypeOK'
      BY <3>2, <3>4 DEF CertTypeOK, Revoked
    <3>7. OneAuthority'
      BY <2>2, <3>2, <3>3, <3>4 DEF OneAuthority, NothingWithoutKey, Up, Issued
    <3>8. NothingWithoutKey'
      BY <2>2, <3>2, <3>3, <3>4, <3>5 DEF NothingWithoutKey, Up, Issued, CertTypeOK
    <3>9. ToldIsRevoked'
      BY <3>2, <3>3, <3>4 DEF ToldIsRevoked, Issued
    <3>10. ToldIsKept'
      BY <3>2, <3>3, <3>4 DEF ToldIsKept, ToldIsRevoked, Revoked, Expired, CertTypeOK
    <3>11. QED
      BY <3>6, <3>7, <3>8, <3>9, <3>10
  <2>3. QED
    BY <2>1, <2>2
<1>5. ASSUME NEW g \in Gateways, RevokeInCache(g)
      PROVE  CertInv'
  BY <1>5 DEF RevokeInCache, CertTypeOK, OneAuthority, NothingWithoutKey, ToldIsRevoked, ToldIsKept,
     CertRows, Processes, Up, Issued, Expired
<1>6. ASSUME NEW g \in Gateways, RefreshList(g)
      PROVE  CertInv'
  <2> USE <1>6 DEF RefreshList
  <2>1. CertTypeOK'
    <3> DEFINE y == [gateway[g] EXCEPT !.refresh = "swap", !.listed = ListRevokedCertSerials]
    <3>1. gateway[g] \in Processes
      BY DEF CertTypeOK
    <3>2. y \in Processes
      BY <3>1 DEF ListRevokedCertSerials, Processes, CertTypeOK
    <3>3. gateway' = [gateway EXCEPT ![g] = y]
      OBVIOUS
    <3> HIDE DEF y
    <3>4. gateway' \in [Gateways -> Processes]
      BY <3>2, <3>3, GatewayMoves
    <3>5. knew' \in [Gateways -> SUBSET Serials]
      BY DEF CertTypeOK
    <3>6. QED
      BY <3>4, <3>5 DEF CertTypeOK
  <2>2. OneAuthority'
    BY DEF OneAuthority, CertTypeOK, NothingWithoutKey, Up, Issued, CertRows, Processes,
       ListRevokedCertSerials, Expired
  <2>3. NothingWithoutKey'
    BY DEF NothingWithoutKey, CertTypeOK, OneAuthority, Up, Issued, CertRows, Processes,
       ListRevokedCertSerials, Expired
  <2>4. ToldIsRevoked'
    BY DEF ToldIsRevoked, CertTypeOK, Issued, CertRows, Processes, ListRevokedCertSerials, Expired
  <2>5. ToldIsKept'
    BY DEF ToldIsKept, CertTypeOK, ToldIsRevoked, Expired, CertRows, Processes, Issued,
       ListRevokedCertSerials
  <2>6. QED
    BY <2>1, <2>2, <2>3, <2>4, <2>5
<1>7. ASSUME NEW g \in Gateways, RefreshSwap(g)
      PROVE  CertInv'
  <2> USE <1>7 DEF RefreshSwap
  <2>1. CertTypeOK'
    <3> DEFINE y == [gateway[g] EXCEPT !.refresh = "idle", !.listed = {}]
    <3>1. gateway[g] \in Processes
      BY DEF CertTypeOK
    <3>2. y \in Processes
      BY <3>1 DEF Processes, CertTypeOK
    <3>3. gateway' = [gateway EXCEPT ![g] = y]
      OBVIOUS
    <3> HIDE DEF y
    <3>4. gateway' \in [Gateways -> Processes]
      BY <3>2, <3>3, GatewayMoves
    <3>5. /\ cache' \in [Gateways -> SUBSET Serials] /\ knew' \in [Gateways -> SUBSET Serials]
          /\ told' \in [Gateways -> SUBSET Serials]
      BY DEF CertTypeOK, Processes
    <3>6. QED
      BY <3>4, <3>5 DEF CertTypeOK
  <2>2. OneAuthority'
    BY DEF OneAuthority, CertTypeOK, NothingWithoutKey, Up, Issued, CertRows, Processes
  <2>3. NothingWithoutKey'
    BY DEF NothingWithoutKey, CertTypeOK, OneAuthority, Up, Issued, CertRows, Processes
  <2>4. ToldIsRevoked'
    BY DEF ToldIsRevoked, CertTypeOK, Issued, CertRows, Processes
  <2>5. ToldIsKept'
    BY DEF ToldIsKept, CertTypeOK, ToldIsRevoked, Expired, CertRows, Processes, Issued
  <2>6. QED
    BY <2>1, <2>2, <2>3, <2>4, <2>5
<1>8. ASSUME NEW g \in Gateways, handleAgentCertAuth(g)
      PROVE  CertInv'
  BY <1>8 DEF handleAgentCertAuth, CertTypeOK, OneAuthority, NothingWithoutKey, ToldIsRevoked,
     ToldIsKept, CertRows, Processes, Up, Issued, Expired
<1>9. ASSUME NEW g \in Gateways, NEW c \in Serials, IssueHostCert(g, c)
      PROVE  CertInv'
  BY <1>9 DEF IssueHostCert, CertTypeOK, OneAuthority, NothingWithoutKey, ToldIsRevoked, ToldIsKept,
     CertRows, Processes, Up, Issued, Expired, Sign
<1>10. ASSUME NEW g \in Gateways, NEW c \in Serials, RevokeCertificate(g, c)
      PROVE  CertInv'
  <2> USE <1>10 DEF RevokeCertificate
  <2>1. CertTypeOK'
    <3> DEFINE y == [gateway[g] EXCEPT !.revoking = c]
    <3>1. gateway[g] \in Processes
      BY DEF CertTypeOK
    <3>2. y \in Processes
      BY <3>1 DEF Processes, CertTypeOK
    <3>3. gateway' = [gateway EXCEPT ![g] = y]
      OBVIOUS
    <3> HIDE DEF y
    <3>4. gateway' \in [Gateways -> Processes]
      BY <3>2, <3>3, GatewayMoves
    <3> DEFINE z == [certs[c] EXCEPT !.revoked = TRUE]
    <3>5. certs[c] \in CertRows
      BY DEF CertTypeOK
    <3>6. z \in CertRows
      BY <3>5 DEF CertRows
    <3>7. certs' = [certs EXCEPT ![c] = z]
      OBVIOUS
    <3> HIDE DEF z
    <3>8. certs' \in [Serials -> CertRows]
      BY <3>6, <3>7 DEF CertTypeOK
    <3>9. QED
      BY <3>4, <3>8 DEF CertTypeOK
  <2>2. OneAuthority'
    BY DEF OneAuthority, CertTypeOK, NothingWithoutKey, Up, Issued, CertRows, Processes
  <2>3. NothingWithoutKey'
    BY DEF NothingWithoutKey, CertTypeOK, OneAuthority, Up, Issued, CertRows, Processes
  <2>4. ToldIsRevoked'
    BY DEF ToldIsRevoked, CertTypeOK, Issued, CertRows, Processes
  <2>5. ToldIsKept'
    BY DEF ToldIsKept, CertTypeOK, ToldIsRevoked, Expired, CertRows, Processes, Issued
  <2>6. QED
    BY <2>1, <2>2, <2>3, <2>4, <2>5
<1>11. ASSUME NEW g \in Gateways, NEW c \in Serials, NEW asked \in 0 .. MaxTTL + 1,
        IssueUserCert(g, c, asked)
      PROVE  CertInv'
  BY <1>11 DEF IssueUserCert, CertTypeOK, OneAuthority, NothingWithoutKey, ToldIsRevoked,
     ToldIsKept, CertRows, Processes, Up, Issued, Expired, Sign, clampRequestedTTL
<1>12. ASSUME NEW c \in Serials, NEW installed \in BOOLEAN, maybeRenewHostCert(c, installed)
      PROVE  CertInv'
  BY <1>12 DEF maybeRenewHostCert, CertTypeOK, OneAuthority, NothingWithoutKey, ToldIsRevoked,
     ToldIsKept, CertRows, Processes, Up, Issued, Expired, Sign
<1>13. UNCHANGED certVars => CertInv'
  BY DEF certVars, CertTypeOK, OneAuthority, NothingWithoutKey, ToldIsRevoked, ToldIsKept, CertRows,
     Processes, Up, Issued, Expired
<1>14. QED
  BY <1>1, <1>2, <1>3, <1>4, <1>5, <1>6, <1>7, <1>8, <1>9, <1>10, <1>11, <1>12, <1>13 DEF CertNext
\* The invariant holds however the gateways start, reload and revoke.
THEOREM CertInvariant == CertSpec => []CertInv
<1>1. CertInit => CertInv
  <2> SUFFICES ASSUME CertInit PROVE CertInv
    OBVIOUS
  <2> USE CertNumbers DEF CertInit
  <2>1. Unissued \in CertRows /\ Unissued.kind = "none" /\ Unissued.revoked = FALSE
    BY DEF Unissued, CertRows
  <2>2. \A g \in Gateways : gateway[g] \in Processes /\ gateway[g].pc = "down" /\ gateway[g].refresh = "idle"
                            /\ gateway[g].revoking = NoneYet
    BY DEF Processes
  <2>3. certs \in [Serials -> CertRows] /\ gateway \in [Gateways -> Processes]
    BY <2>1, <2>2
  <2>h. /\ cache \in [Gateways -> SUBSET Serials] /\ knew \in [Gateways -> SUBSET Serials]
        /\ told \in [Gateways -> SUBSET Serials] /\ day \in 0 .. CertTime /\ activeKey = NoneYet
        /\ agent \in [cert : Serials \cup {NoneYet}, link : Gateways \cup {NoneYet}]
    OBVIOUS
  <2>4. CertTypeOK
    BY <2>3, <2>h DEF CertTypeOK
  <2>5. OneAuthority /\ NothingWithoutKey
    BY <2>1, <2>2 DEF OneAuthority, NothingWithoutKey, Up, Issued
  <2>6. ToldIsRevoked /\ ToldIsKept
    BY <2>1, <2>2 DEF ToldIsRevoked, ToldIsKept
  <2>7. QED
    BY <2>4, <2>5, <2>6 DEF CertInv
<1>2. QED
  BY <1>1, CertStep, PTL DEF CertSpec

\* CertificatesHold: one key signs for every gateway, and a revocation a
\* gateway has been told of is never forgotten, for any number of gateways and
\* certificates (ca.go:115-163, 376-403).
THEOREM CertificatesStayHeld == CertSpec => []CertificatesHold
<1>1. CertInv => CertificatesHold
  BY DEF CertInv, CertificatesHold, RevocationSticks, CheckCert, ToldIsKept
<1>2. QED
  BY <1>1, CertInvariant, PTL

(**** Credentials of the API ****)

\* A request in flight has been told of what is good now.
RequestsRemember ==
    \A r \in Requests : Active(r) => role \in held[r] /\ GoodNow \subseteq good[r]

\* The credential that was looked up was good, unless the user is gone, for
\* good; the role a request goes by was held.
JudgedByHeld ==
    \A r \in Requests :
        /\ request[r].pc = "load" => request[r].via \in good[r] \/ role = "deleted"
        /\ request[r].pc = "context" /\ request[r].isAdmin => "admin" \in held[r]
        /\ request[r].pc = "checked" /\ request[r].role \in Privileged => request[r].role \in held[r]

CredInv == CredTypeOK /\ GoodCredentialAdmits /\ PrivilegeWasHeld /\ RequestsRemember /\ JudgedByHeld

\* The fields of a request.
LEMMA RequestFields ==
    ASSUME NEW x \in RequestStates
    PROVE  /\ x.pc \in {"idle", "api_key", "session", "bearer", "load", "context", "checked", "acted", "refused"}
           /\ x.via \in Kinds \cup {"none"} /\ x.isAdmin \in BOOLEAN
           /\ x.role \in {"none", "user", "operator", "admin"}
  BY DEF RequestStates

\* What is stored of the user.
Stored == <<hour, role, apiKey, session, jwt>>
StoredTypeOK ==
    /\ hour \in 0 .. CredTime /\ role \in Roles
    /\ apiKey \in [state : {"none", "live", "revoked", "deleted"}, until : Nat \cup {NoTime}]
    /\ session \in Nat \cup {NoTime}
    /\ jwt \in [until : Nat \cup {NoTime}, isAdmin : BOOLEAN]

\* A step that changes the user or a credential tells the requests in flight.
LEMMA RememberKeeps ==
    ASSUME CredInv, Remember, UNCHANGED request, StoredTypeOK',
           role = "deleted" => role' = "deleted"
    PROVE  CredInv'
<1> USE DEF CredInv
<1>1. \A r \in Requests : Active(r)' = Active(r)
  BY DEF Active
<1>2. /\ \A r \in Requests : held[r] \subseteq held'[r] /\ good[r] \subseteq good'[r]
      /\ \A r \in Requests : Active(r) => role' \in held'[r] /\ GoodNow' \subseteq good'[r]
  BY DEF CredTypeOK, Remember
<1>3. GoodNow' \subseteq Kinds
  BY DEF GoodNow
<1>4. held' \in [Requests -> SUBSET Roles] /\ good' \in [Requests -> SUBSET Kinds]
  BY <1>3 DEF CredTypeOK, Remember, StoredTypeOK
<1>5. CredTypeOK'
  BY <1>4 DEF CredTypeOK, StoredTypeOK
<1>6. GoodCredentialAdmits' /\ PrivilegeWasHeld'
  BY <1>2 DEF GoodCredentialAdmits, PrivilegeWasHeld
<1>7. RequestsRemember'
  BY <1>1, <1>2 DEF RequestsRemember
<1>8. JudgedByHeld'
  BY <1>2 DEF JudgedByHeld
<1>9. QED
  BY <1>5, <1>6, <1>7, <1>8

\* A request that moves leaves what is stored alone, and the other requests.
LEMMA RequestMoves ==
    ASSUME CredInv, NEW r \in Requests, NEW y \in RequestStates,
           request' = [request EXCEPT ![r] = y],
           UNCHANGED Stored, UNCHANGED <<held, good>>, Active(r),
           y.pc \in {"context", "checked", "acted"} => y.via \in good[r],
           y.pc = "acted" => held[r] \cap Privileged # {},
           y.pc = "load" => y.via \in good[r] \/ role = "deleted",
           y.pc = "context" /\ y.isAdmin => "admin" \in held[r],
           y.pc = "checked" /\ y.role \in Privileged => y.role \in held[r]
    PROVE  CredInv'
<1> USE DEF CredInv
<1>1. request' \in [Requests -> RequestStates] /\ request'[r] = y /\ \A q \in Requests : q # r => request'[q] = request[q]
  BY DEF CredTypeOK
<1>2. UNCHANGED <<hour, role, apiKey, session, jwt>>
  BY DEF Stored
<1>3. GoodNow' = GoodNow
  BY <1>2 DEF GoodNow, KeyGood, SessionGood, JwtGood
<1>4. CredTypeOK'
  BY <1>1, <1>2 DEF CredTypeOK
<1>5. GoodCredentialAdmits' /\ PrivilegeWasHeld'
  BY <1>1 DEF GoodCredentialAdmits, PrivilegeWasHeld
<1>6. RequestsRemember'
  BY <1>1, <1>2, <1>3 DEF RequestsRemember, Active
<1>7. JudgedByHeld'
  BY <1>1, <1>2 DEF JudgedByHeld
<1>8. QED
  BY <1>4, <1>5, <1>6, <1>7

\* A time from now is a time.
LEMMA CredTimes ==
    ASSUME CredTypeOK
    PROVE  hour + CredTTL \in Nat
  BY CredentialAssumption DEF CredTypeOK

\* Every step keeps the invariant.
LEMMA CredStep ==
    ASSUME CredInv
    PROVE  [CredNext]_credVars => CredInv'
<1> USE DEF CredInv
<1>0. StoredTypeOK
  BY DEF CredTypeOK, StoredTypeOK
<1>1. ASSUME CredTick PROVE CredInv'
  <2>1. hour' \in 0 .. CredTime /\ UNCHANGED <<role, apiKey, session, jwt, request>> /\ Remember
    BY <1>1, CredentialAssumption DEF CredTick, CredTypeOK
  <2>2. QED
    BY <1>0, <2>1, RememberKeeps DEF StoredTypeOK
<1>2. ASSUME NEW until \in Nat \cup {NoTime}, GenerateAPIKey(until) PROVE CredInv'
  <2>1. StoredTypeOK' /\ Remember /\ UNCHANGED <<role, request>>
    BY <1>0, <1>2 DEF GenerateAPIKey, StoredTypeOK
  <2>2. QED
    BY <2>1, RememberKeeps
<1>3. ASSUME createAPIKey \/ loginWithKey PROVE CredInv'
  BY <1>2, <1>3, CredTimes DEF createAPIKey, loginWithKey
<1>4. ASSUME RevokeAPIKey \/ DeleteAPIKey PROVE CredInv'
  <2>1. StoredTypeOK' /\ Remember /\ UNCHANGED <<role, request>>
    BY <1>0, <1>4 DEF RevokeAPIKey, DeleteAPIKey, StoredTypeOK
  <2>2. QED
    BY <2>1, RememberKeeps
<1>5. ASSUME NEW admin \in BOOLEAN, login(admin) \/ loginJWT(admin) PROVE CredInv'
  <2>1. PICK t \in Nat : t = hour + CredTTL
    BY CredTimes
  <2>2. [until |-> t, isAdmin |-> admin] \in [until : Nat \cup {NoTime}, isAdmin : BOOLEAN]
    OBVIOUS
  <2>3. /\ session' \in {session, t} /\ jwt' \in {jwt, [until |-> t, isAdmin |-> admin]}
        /\ UNCHANGED <<hour, role, apiKey, request>> /\ Remember
    BY <1>5, <2>1 DEF login, loginJWT, CreateSession, Issue
  <2>4. StoredTypeOK'
    BY <1>0, <2>2, <2>3 DEF StoredTypeOK
  <2>5. QED
    BY <2>3, <2>4, RememberKeeps
<1>6. ASSUME logout \/ DeleteExpiredHTTPSessions PROVE CredInv'
  <2>1. StoredTypeOK' /\ Remember /\ UNCHANGED <<role, request>>
    BY <1>0, <1>6 DEF logout, DeleteExpiredHTTPSessions, StoredTypeOK
  <2>2. QED
    BY <2>1, RememberKeeps
<1>7. ASSUME NEW new \in {"user", "admin", "deleted"}, changeRole(new) PROVE CredInv'
  <2>1. StoredTypeOK' /\ Remember /\ UNCHANGED request /\ role # "deleted"
    BY <1>0, <1>7 DEF changeRole, StoredTypeOK, Roles
  <2>2. QED
    BY <2>1, RememberKeeps
<1>8. ASSUME NEW r \in Requests, authenticate(r) PROVE CredInv'
  <2> DEFINE y == [request[r] EXCEPT !.pc = "api_key"]
  <2>1. request[r] \in RequestStates
    BY DEF CredTypeOK
  <2>2. y \in RequestStates /\ y.pc = "api_key"
    BY <2>1 DEF RequestStates
  <2>3. /\ request' = [request EXCEPT ![r] = y] /\ UNCHANGED <<hour, role, apiKey, session, jwt>>
        /\ held' = [held EXCEPT ![r] = {role}] /\ good' = [good EXCEPT ![r] = GoodNow]
    BY <1>8 DEF authenticate, Move
  <2> HIDE DEF y
  <2>4. GoodNow' = GoodNow /\ GoodNow \subseteq Kinds
    BY <2>3 DEF GoodNow, KeyGood, SessionGood, JwtGood
  <2>5. /\ request' \in [Requests -> RequestStates] /\ request'[r] = y /\ held'[r] = {role}
        /\ good'[r] = GoodNow
        /\ \A q \in Requests : q # r => request'[q] = request[q] /\ held'[q] = held[q] /\ good'[q] = good[q]
        /\ held' \in [Requests -> SUBSET Roles] /\ good' \in [Requests -> SUBSET Kinds]
    BY <2>2, <2>3, <2>4 DEF CredTypeOK
  <2>6. CredTypeOK'
    BY <2>3, <2>5 DEF CredTypeOK
  <2>7. GoodCredentialAdmits' /\ PrivilegeWasHeld'
    BY <2>2, <2>5 DEF GoodCredentialAdmits, PrivilegeWasHeld
  <2>8. RequestsRemember'
    BY <2>3, <2>4, <2>5 DEF RequestsRemember, Active
  <2>9. JudgedByHeld'
    BY <2>2, <2>3, <2>5 DEF JudgedByHeld
  <2>10. QED
    BY <2>6, <2>7, <2>8, <2>9
<1>9. ASSUME NEW r \in Requests, NEW carries \in BOOLEAN, lookUp(r, carries) PROVE CredInv'
  <2> DEFINE k == request[r].pc
             l == IF carries /\ Validates(k) THEN "load" ELSE Fallback(k)
             y == [request[r] EXCEPT !.via = k, !.pc = l]
  <2>1. request[r] \in RequestStates /\ k \in Kinds
    BY <1>9 DEF CredTypeOK, lookUp
  <2>2. l \in {"load", "session", "bearer", "refused"} /\ (l = "load" => Validates(k))
    BY DEF Fallback
  <2>3. request' = [request EXCEPT ![r] = y] /\ UNCHANGED Stored /\ UNCHANGED <<held, good>>
    BY <1>9 DEF lookUp, Stored
  <2>4. Validates(k) => k \in GoodNow \/ role = "deleted"
    BY <2>1 DEF Validates, GoodNow, Kinds, KeyGood, SessionGood, JwtGood, validateAPIKey,
       validateSession,
       validateBearerToken, GetAPIKeyByHash, GetHTTPSessionByToken
  <2>5. Active(r)
    BY <2>1 DEF Active, Kinds
  <2>6. y \in RequestStates /\ y.pc = l /\ y.via = k
    <3> HIDE DEF l
    <3>1. QED
      BY <2>1, <2>2 DEF RequestStates
  <2> HIDE DEF k, l, y
  <2>7. l = "load" => k \in good[r] \/ role = "deleted"
    BY <2>2, <2>4, <2>5 DEF RequestsRemember
  <2>8. QED
    BY <2>2, <2>3, <2>5, <2>6, <2>7, RequestMoves
<1>10. ASSUME NEW r \in Requests, loadUser(r) PROVE CredInv'
  <2> DEFINE l == IF role = "deleted" THEN Fallback(request[r].via) ELSE "context"
             y == [request[r] EXCEPT !.isAdmin = (role = "admin"), !.pc = l]
  <2>1. request[r] \in RequestStates /\ request[r].pc = "load" /\ Active(r)
    BY <1>10 DEF CredTypeOK, loadUser, Active
  <2>2. l \in {"context", "session", "bearer", "refused"} /\ (l = "context" => role # "deleted")
    BY DEF Fallback
  <2>3. request' = [request EXCEPT ![r] = y] /\ UNCHANGED Stored /\ UNCHANGED <<held, good>>
    BY <1>10 DEF loadUser, Stored
  <2>4. y \in RequestStates /\ y.pc = l /\ y.via = request[r].via /\ (y.isAdmin => role = "admin")
    <3> HIDE DEF l
    <3>1. QED
      BY <2>1, <2>2 DEF RequestStates
  <2> HIDE DEF l, y
  <2>5. l = "context" => y.via \in good[r]
    BY <2>1, <2>2, <2>4 DEF JudgedByHeld
  <2>6. y.isAdmin => "admin" \in held[r]
    BY <2>1, <2>4 DEF RequestsRemember
  <2>7. QED
    BY <2>1, <2>2, <2>3, <2>4, <2>5, <2>6, RequestMoves
<1>11. ASSUME NEW r \in Requests, setAuthContext(r) PROVE CredInv'
  <2> DEFINE o == IF role # "deleted" THEN role ELSE IF request[r].isAdmin THEN "admin" ELSE "user"
             y == [request[r] EXCEPT !.pc = "checked", !.role = o]
  <2>1. request[r] \in RequestStates /\ request[r].pc = "context" /\ Active(r)
    BY <1>11 DEF CredTypeOK, setAuthContext, Active
  <2>2. o \in {"user", "operator", "admin"}
    BY DEF CredTypeOK, Roles
  <2>3. o \in Privileged => o \in held[r]
    BY <2>1 DEF Privileged, RequestsRemember, JudgedByHeld
  <2>4. request' = [request EXCEPT ![r] = y] /\ UNCHANGED Stored /\ UNCHANGED <<held, good>>
    BY <1>11 DEF setAuthContext, Stored
  <2>5. y \in RequestStates /\ y.pc = "checked" /\ y.via = request[r].via /\ y.role = o
    <3> HIDE DEF o
    <3>1. QED
      BY <2>1, <2>2 DEF RequestStates
  <2> HIDE DEF o, y
  <2>6. y.via \in good[r]
    BY <2>1, <2>5 DEF GoodCredentialAdmits
  <2>7. QED
    BY <2>1, <2>3, <2>4, <2>5, <2>6, RequestMoves
<1>12. ASSUME NEW r \in Requests, adminMiddleware(r) PROVE CredInv'
  <2> DEFINE l == IF request[r].role \in Privileged THEN "acted" ELSE "refused"
             y == [request[r] EXCEPT !.pc = l]
  <2>1. request[r] \in RequestStates /\ request[r].pc = "checked" /\ Active(r)
    BY <1>12 DEF CredTypeOK, adminMiddleware, Active
  <2>2. l \in {"acted", "refused"} /\ (l = "acted" => held[r] \cap Privileged # {})
    BY <2>1 DEF JudgedByHeld
  <2>3. request' = [request EXCEPT ![r] = y] /\ UNCHANGED Stored /\ UNCHANGED <<held, good>>
    BY <1>12 DEF adminMiddleware, Move, Stored
  <2>4. y \in RequestStates /\ y.pc = l /\ y.via = request[r].via
    <3> HIDE DEF l
    <3>1. QED
      BY <2>1, <2>2 DEF RequestStates
  <2> HIDE DEF l, y
  <2>5. y.via \in good[r]
    BY <2>1, <2>4 DEF GoodCredentialAdmits
  <2>6. QED
    BY <2>1, <2>2, <2>3, <2>4, <2>5, RequestMoves
<1>13. UNCHANGED credVars => CredInv'
  BY DEF credVars, CredTypeOK, GoodCredentialAdmits, PrivilegeWasHeld, RequestsRemember,
     JudgedByHeld, Active,
     GoodNow, KeyGood, SessionGood, JwtGood
<1>14. QED
  BY <1>1, <1>3, <1>4, <1>5, <1>6, <1>7, <1>8, <1>9, <1>10, <1>11, <1>12, <1>13 DEF CredNext

\* CredentialsAreJudgedRight: however revocations, logouts, expiries and role
\* changes fall between the steps of any number of requests
\* (middelware.go:164-257).
THEOREM CredentialsStayJudgedRight == CredSpec => []CredentialsAreJudgedRight
<1>1. CredInit => CredInv
  <2> SUFFICES ASSUME CredInit PROVE CredInv
    OBVIOUS
  <2> USE CredentialAssumption DEF CredInit
  <2>1. \A r \in Requests : request[r] \in RequestStates /\ request[r].pc = "idle"
    BY DEF RequestStates
  <2>2. /\ request \in [Requests -> RequestStates] /\ held \in [Requests -> SUBSET Roles]
        /\ good \in [Requests -> SUBSET Kinds]
    BY <2>1
  <2>3. hour \in 0 .. CredTime /\ role \in Roles /\ session \in Nat \cup {NoTime}
    BY DEF Roles
  <2>4. /\ apiKey \in [state : {"none", "live", "revoked", "deleted"}, until : Nat \cup {NoTime}]
        /\ jwt \in [until : Nat \cup {NoTime}, isAdmin : BOOLEAN]
    OBVIOUS
  <2>5. CredTypeOK
    BY <2>2, <2>3, <2>4 DEF CredTypeOK
  <2>6. QED
    BY <2>1, <2>5 DEF CredInv, GoodCredentialAdmits, PrivilegeWasHeld, RequestsRemember,
       JudgedByHeld, Active
<1>2. CredSpec => []CredInv
  BY <1>1, CredStep, PTL DEF CredSpec
<1>3. CredInv => CredentialsAreJudgedRight
  BY DEF CredInv, CredentialsAreJudgedRight
<1>4. QED
  BY <1>2, <1>3, PTL

(**** Connections over SSH ****)

\* What the configuration and the rows are.
RowsTypeOK ==
    /\ tick \in 0 .. EntryTime /\ caOn \in BOOLEAN /\ mfaOn \in BOOLEAN
    /\ restarts \in 0 .. MaxRestarts /\ namesake \in BOOLEAN
    /\ person \in [key : BOOLEAN, mfa : BOOLEAN, grant : BOOLEAN, role : BOOLEAN]
    /\ node \in [there : BOOLEAN, active : BOOLEAN, by : {"account", "host"}]
    /\ certFile \in [{"person", "agent"} -> Certs]

\* ... and the connections.
ConnTypeOK ==
    RowsTypeOK /\ entry \in [Entries -> EntryStates] /\ claim \in [Entries -> SUBSET Reasons]

\* A connection stands for its owner.
StandsForOwner ==
    \A c \in Entries :
        /\ entry[c].uid \in {"host", "account"} => c \notin People
        /\ entry[c].uid = "person" => c \in People
        /\ entry[c].at = "agent" => entry[c].uid \in {"host", "account"}

\* The person's client presents a certificate that is good for longer than
\* this moment, so one that has expired was overtaken by time.
PersonDialsInTime ==
    \A c \in People : entry[c].at = "dialled" /\ entry[c].cert.there /\ ~entry[c].aged
        => entry[c].cert.until > tick

EntryInv == ConnTypeOK /\ RefusedForCause /\ StandsForOwner /\ PersonDialsInTime

\* What the rest of the invariant says of one connection.
Sound(c, e, k, t) ==
    /\ e.at = "refused" => k # {}
    /\ e.uid \in {"host", "account"} => c \notin People
    /\ e.uid = "person" => c \in People
    /\ e.at = "agent" => e.uid \in {"host", "account"}
    /\ c \in People /\ e.at = "dialled" /\ e.cert.there /\ ~e.aged => e.cert.until > t

\* The invariant, connection by connection.
LEMMA EntryInvByConnection ==
    EntryInv <=> ConnTypeOK /\ \A c \in Entries : Sound(c, entry[c], claim[c], tick)
  BY DEF EntryInv, RefusedForCause, StandsForOwner, PersonDialsInTime, Sound, Entries

\* A connection that has not begun is sound.
LEMMA FreshIsSound ==
    /\ Fresh \in EntryStates /\ Fresh.at = "out" /\ Fresh.uid = "none"
    /\ \A c \in Entries : \A k, t : Sound(c, Fresh, k, t)
<1>1. NoCert \in Certs
  BY EntryAssumption DEF NoCert, Certs
<1>2. Fresh \in EntryStates
  BY <1>1 DEF Fresh, EntryStates
<1>3. Fresh.at = "out" /\ Fresh.uid = "none"
  BY DEF Fresh
<1>4. QED
  BY <1>2, <1>3 DEF Sound

\* One connection moves.
LEMMA EntryMoves ==
    ASSUME EntryInv, RowsTypeOK', NEW c \in Entries, NEW y \in EntryStates,
           NEW k \in SUBSET Reasons,
           entry' = [entry EXCEPT ![c] = y], claim' = [claim EXCEPT ![c] = k],
           UNCHANGED tick, Sound(c, y, k, tick)
    PROVE  EntryInv'
<1>1. /\ entry' \in [Entries -> EntryStates] /\ claim' \in [Entries -> SUBSET Reasons]
      /\ entry'[c] = y /\ claim'[c] = k
      /\ \A d \in Entries : d # c => entry'[d] = entry[d] /\ claim'[d] = claim[d]
  BY DEF EntryInv, ConnTypeOK, RowsTypeOK
<1>2. ConnTypeOK'
  BY <1>1 DEF ConnTypeOK, RowsTypeOK
<1>3. \A d \in Entries : Sound(d, entry[d], claim[d], tick)
  BY EntryInvByConnection
<1>4. \A d \in Entries : Sound(d, entry'[d], claim'[d], tick')
  BY <1>1, <1>3
<1>5. QED
  BY <1>2, <1>4, EntryInvByConnection DEF EntryInv, RefusedForCause, StandsForOwner,
     PersonDialsInTime, Sound, Entries

\* The same with the reasons left alone.
LEMMA EntryMovesOn ==
    ASSUME EntryInv, RowsTypeOK', NEW c \in Entries, NEW y \in EntryStates,
           entry' = [entry EXCEPT ![c] = y], UNCHANGED <<tick, claim>>, Sound(c, y, claim[c], tick)
    PROVE  EntryInv'
<1>1. claim[c] \in SUBSET Reasons /\ claim' = [claim EXCEPT ![c] = claim[c]]
  BY DEF EntryInv, ConnTypeOK, RowsTypeOK
<1>2. QED
  BY <1>1, EntryMoves

\* A refusal has a cause.
LEMMA RefusalHasCause ==
    ASSUME EntryInv, NEW c \in Entries, entry[c].at = "dialled", ~Accepts(c)
    PROVE  Causes(c) # {}
<1> USE DEF Causes
<1>0. /\ entry[c] \in EntryStates /\ tick \in Nat /\ entry[c].cert \in Certs
      /\ entry[c].cert.until \in Nat
      /\ entry[c].cert.revoked \in BOOLEAN /\ entry[c].cert.there \in BOOLEAN
      /\ entry[c].aged \in BOOLEAN
      /\ mfaOn \in BOOLEAN /\ caOn \in BOOLEAN /\ person.key \in BOOLEAN /\ person.mfa \in BOOLEAN
      /\ node.there \in BOOLEAN /\ node.by \in {"account", "host"}
  BY EntryAssumption DEF EntryInv, ConnTypeOK, RowsTypeOK, EntryStates, Certs
<1>1. CASE ~entry[c].cert.there
  <2>1. CASE c \in People
    BY <1>0, <1>1, <2>1 DEF Accepts, handleLegacyPublicKeyAuth, MFASatisfied
  <2>2. CASE c \in Agents /\ c \notin People
    BY <1>0, <1>1, <2>2 DEF Accepts, handleLegacyPublicKeyAuth, MFASatisfied
  <2>3. QED
    BY <2>1, <2>2 DEF Entries
<1>2. CASE entry[c].cert.there /\ ~caOn
  BY <1>2
<1>3. CASE entry[c].cert.there /\ caOn /\ entry[c].cert.revoked
  BY <1>3
<1>4. CASE entry[c].cert.there /\ caOn /\ ~entry[c].cert.revoked
  <2>1. CASE c \in People
    <3>1. ~(entry[c].cert.until > tick) \/ ~MFASatisfied(person.mfa)
      BY <1>4, <2>1 DEF Accepts, handleUserCertAuth, CertIsGood
    <3>2. ~(entry[c].cert.until > tick) => entry[c].aged
      BY <1>0, <1>4, <2>1 DEF EntryInv, PersonDialsInTime
    <3>3. QED
      BY <1>0, <1>4, <2>1, <3>1, <3>2 DEF MFASatisfied
  <2>2. CASE c \in Agents /\ c \notin People
    <3>1. ~(entry[c].cert.until > tick) \/ ~node.there
      BY <1>4, <2>2 DEF Accepts, agentCertAuth, CertIsGood
    <3>2. ~(entry[c].cert.until > tick) => renewalDue(entry[c].cert)
      BY <1>0 DEF renewalDue
    <3>3. QED
      BY <1>0, <1>4, <2>2, <3>1, <3>2
  <2>3. QED
    BY <2>1, <2>2 DEF Entries
<1>5. QED
  BY <1>0, <1>1, <1>2, <1>3, <1>4

\* A connection that dials with a certificate that is good for longer.
LEMMA DialIsSound ==
    ASSUME EntryInv, RowsTypeOK', UNCHANGED <<tick, claim>>, NEW c \in Entries, NEW cert \in Certs,
           Dial(c, cert),
           c \in People /\ cert.there => cert.until > tick
    PROVE  EntryInv'
<1> DEFINE y == [Fresh EXCEPT !.at = "dialled", !.cert = cert]
<1>1. y \in EntryStates /\ y.at = "dialled" /\ y.cert = cert /\ y.uid = "none"
  BY FreshIsSound DEF EntryStates
<1>2. entry' = [entry EXCEPT ![c] = y]
  BY DEF Dial
<1> HIDE DEF y
<1>3. Sound(c, y, claim[c], tick)
  BY <1>1 DEF Sound
<1>4. QED
  BY <1>1, <1>2, <1>3, EntryMovesOn

\* Every step keeps the invariant.
LEMMA EntryStep ==
    ASSUME EntryInv
    PROVE  [EntryNext]_entryVars => EntryInv'
<1>0. /\ RowsTypeOK /\ ConnTypeOK /\ \A c \in Entries : Sound(c, entry[c], claim[c], tick)
      /\ \A c \in Entries : entry[c] \in EntryStates
      /\ \A c \in People : c \in Entries
      /\ \A c \in Agents : c \in Entries /\ c \notin People
  BY EntryInvByConnection, EntryAssumption DEF EntryInv, ConnTypeOK, RowsTypeOK, Entries
<1>1. ASSUME EntryTick PROVE EntryInv'
  <2>1. /\ tick' \in 0 .. EntryTime
        /\ \A c \in Entries : entry'[c] = [entry[c] EXCEPT !.aged = (entry[c].at = "dialled")]
        /\ entry' = [c \in Entries |-> [entry[c] EXCEPT !.aged = (entry[c].at = "dialled")]]
        /\ UNCHANGED <<caOn, mfaOn, restarts, person, namesake, node, certFile, claim>>
    BY <1>1, EntryAssumption DEF EntryTick, EntryInv, ConnTypeOK, RowsTypeOK
  <2>2. ASSUME NEW c \in Entries PROVE entry'[c] \in EntryStates /\ Sound(c, entry'[c], claim[c], tick')
    <3>1. /\ entry'[c] \in EntryStates /\ entry'[c].at = entry[c].at /\ entry'[c].uid = entry[c].uid
          /\ (entry'[c].at = "dialled" => entry'[c].aged)
      BY <1>0, <2>1 DEF EntryStates
    <3>2. QED
      BY <1>0, <3>1 DEF Sound
  <2>3. ConnTypeOK'
    BY <1>0, <2>1, <2>2 DEF ConnTypeOK, RowsTypeOK
  <2>4. QED
    BY <2>1, <2>2, <2>3 DEF EntryInv, RefusedForCause, StandsForOwner, PersonDialsInTime, Sound,
       Entries
<1>2. ASSUME gatewayRestarts PROVE EntryInv'
  <2>1. /\ restarts' \in 0 .. MaxRestarts /\ caOn' \in BOOLEAN /\ mfaOn' \in BOOLEAN
        /\ entry' = [c \in Entries |-> Fresh] /\ claim' = [c \in Entries |-> {}]
        /\ UNCHANGED <<tick, person, namesake, node, certFile>>
    BY <1>2, EntryAssumption DEF gatewayRestarts, EntryInv, ConnTypeOK, RowsTypeOK
  <2>2. ConnTypeOK'
    BY <1>0, <2>1, FreshIsSound DEF ConnTypeOK, RowsTypeOK
  <2>3. \A c \in Entries : entry'[c] = Fresh
    BY <2>1
  <2>4. \A c \in Entries : Sound(c, entry'[c], claim'[c], tick')
    BY <2>3, FreshIsSound
  <2>5. QED
    BY <2>2, <2>4 DEF EntryInv, RefusedForCause, StandsForOwner, PersonDialsInTime, Sound, Entries
<1>3. ASSUME personChanges \/ machineChanges PROVE EntryInv'
  <2>1. /\ person' \in [key : BOOLEAN, mfa : BOOLEAN, grant : BOOLEAN, role : BOOLEAN]
        /\ node' \in [there : BOOLEAN, active : BOOLEAN, by : {"account", "host"}]
        /\ UNCHANGED <<tick, caOn, mfaOn, restarts, namesake, certFile, entry, claim>>
    BY <1>0, <1>3 DEF personChanges, machineChanges, RowsTypeOK
  <2>2. ConnTypeOK'
    BY <1>0, <2>1 DEF ConnTypeOK, RowsTypeOK
  <2>3. QED
    BY <2>1, <2>2 DEF EntryInv, RefusedForCause, StandsForOwner, PersonDialsInTime
<1>4. ASSUME NEW o \in {"person", "agent"}, certsRevoked(o) PROVE EntryInv'
  <2> DEFINE z == [certFile[o] EXCEPT !.revoked = certFile[o].there]
             e(c) == [entry[c] EXCEPT !.cert = [entry[c].cert EXCEPT !.revoked = entry[c].cert.there]]
  <2>1. /\ certFile' = [certFile EXCEPT ![o] = z]
        /\ entry' = [c \in Entries |-> IF Owner(c) = o THEN e(c) ELSE entry[c]]
        /\ UNCHANGED <<tick, caOn, mfaOn, restarts, person, namesake, node, claim>>
    BY <1>4 DEF certsRevoked
  <2>2. z \in Certs
    BY <1>0 DEF RowsTypeOK, Certs
  <2>3. ASSUME NEW c \in Entries
        PROVE  e(c) \in EntryStates /\ Sound(c, e(c), claim[c], tick)
    <3>1. entry[c] \in EntryStates /\ entry[c].cert \in Certs
      BY <1>0 DEF EntryStates
    <3> DEFINE w == [entry[c].cert EXCEPT !.revoked = entry[c].cert.there]
    <3>2. w \in Certs /\ w.there = entry[c].cert.there /\ w.until = entry[c].cert.until
      BY <3>1 DEF Certs
    <3> HIDE DEF w
    <3>3. e(c) = [entry[c] EXCEPT !.cert = w]
      BY DEF w
    <3> HIDE DEF e
    <3>4. /\ e(c) \in EntryStates /\ e(c).cert = w /\ e(c).at = entry[c].at
          /\ e(c).uid = entry[c].uid
          /\ e(c).aged = entry[c].aged
      BY <3>1, <3>2, <3>3 DEF EntryStates
    <3>5. QED
      BY <1>0, <3>2, <3>4 DEF Sound
  <2> HIDE DEF z, e
  <2>4. \A c \in Entries : entry'[c] \in EntryStates /\ Sound(c, entry'[c], claim'[c], tick')
    BY <1>0, <2>1, <2>3
  <2>5. ConnTypeOK'
    BY <1>0, <2>1, <2>2, <2>4 DEF ConnTypeOK, RowsTypeOK
  <2>6. QED
    BY <2>4, <2>5 DEF EntryInv, RefusedForCause, StandsForOwner, PersonDialsInTime, Sound, Entries
<1>5. ASSUME NEW c \in People, LoadSigner(c) PROVE EntryInv'
  <2> DEFINE new == [there |-> TRUE, until |-> tick + CertLife, revoked |-> FALSE]
  <2>1. UNCHANGED <<tick, caOn, mfaOn, restarts, person, namesake, node, claim>>
    BY <1>5 DEF LoadSigner
  <2>2. new \in Certs /\ new.until > tick
    BY <1>0, EntryAssumption DEF RowsTypeOK, Certs
  <2>3. NoCert \in Certs /\ ~NoCert.there
    BY EntryAssumption DEF NoCert, Certs
  <2>4. certFile.person = certFile["person"] /\ certFile["person"] \in Certs
    BY <1>0 DEF RowsTypeOK
  <2>5. CASE loadCachedCertSigner(certFile.person)
    <3>1. Dial(c, certFile["person"]) /\ UNCHANGED certFile
      BY <1>5, <2>4, <2>5 DEF LoadSigner
    <3>2. certFile["person"].until > tick
      BY <1>0, <2>4, <2>5, EntryAssumption DEF loadCachedCertSigner, renewalDue, RowsTypeOK, Certs
    <3>3. RowsTypeOK'
      BY <1>0, <2>1, <3>1 DEF RowsTypeOK
    <3>4. QED
      BY <1>0, <2>1, <2>4, <3>1, <3>2, <3>3, DialIsSound
  <2>6. CASE refreshCertSigner(c)
    <3>1. Dial(c, new) /\ (certFile' = [certFile EXCEPT !["person"] = new] \/ UNCHANGED certFile)
      BY <2>6 DEF refreshCertSigner
    <3> HIDE DEF new
    <3>2. RowsTypeOK'
      BY <1>0, <2>1, <2>2, <3>1 DEF RowsTypeOK
    <3>3. QED
      BY <1>0, <2>1, <2>2, <3>1, <3>2, DialIsSound
  <2>7. CASE Dial(c, NoCert) /\ UNCHANGED certFile
    <3>1. RowsTypeOK'
      BY <1>0, <2>1, <2>7 DEF RowsTypeOK
    <3>2. QED
      BY <1>0, <2>1, <2>3, <2>7, <3>1, DialIsSound
  <2>8. QED
    BY <1>5, <2>5, <2>6, <2>7 DEF LoadSigner
<1>6. ASSUME NEW c \in Agents, connectToServer(c) PROVE EntryInv'
  <2>1. /\ Dial(c, certFile["agent"])
        /\ UNCHANGED <<tick, caOn, mfaOn, restarts, person, namesake, node, certFile, claim>>
    BY <1>6 DEF connectToServer
  <2>2. RowsTypeOK' /\ certFile["agent"] \in Certs
    BY <1>0, <2>1 DEF RowsTypeOK
  <2>3. QED
    BY <1>0, <2>1, <2>2, DialIsSound
<1>7. ASSUME NEW c \in Entries, closed(c) PROVE EntryInv'
  <2>1. RowsTypeOK'
    BY <1>0, <1>7 DEF closed, RowsTypeOK
  <2>2. entry' = [entry EXCEPT ![c] = Fresh] /\ claim' = [claim EXCEPT ![c] = {}] /\ UNCHANGED tick
    BY <1>7 DEF closed
  <2>3. QED
    BY <2>1, <2>2, FreshIsSound, EntryMoves
<1>8. ASSUME NEW c \in Entries, handlePublicKeyAuth(c) PROVE EntryInv'
  <2> DEFINE l == IF Accepts(c) THEN "admitted" ELSE "refused"
             u == IF ~Accepts(c) THEN "none" ELSE IF c \in People THEN "person"
                  ELSE IF entry[c].cert.there THEN "host" ELSE "account"
             y == [entry[c] EXCEPT !.at = l, !.uid = u]
  <2>1. /\ entry[c].at = "dialled" /\ entry' = [entry EXCEPT ![c] = y]
        /\ claim' = [claim EXCEPT ![c] = Causes(c)]
        /\ UNCHANGED <<tick, caOn, mfaOn, restarts, person, namesake, node, certFile>>
    BY <1>8 DEF handlePublicKeyAuth
  <2>2. RowsTypeOK'
    BY <1>0, <2>1 DEF RowsTypeOK
  <2>3. Causes(c) \in SUBSET Reasons
    BY DEF Causes, Reasons
  <2>4. l \in {"admitted", "refused"} /\ (l = "refused" => Causes(c) # {})
    BY <2>1, RefusalHasCause
  <2>5. /\ u \in {"none", "person", "host", "account"}
        /\ (u \in {"host", "account"} => c \notin People)
        /\ (u = "person" => c \in People)
    OBVIOUS
  <2> HIDE DEF l, u
  <2>6. y \in EntryStates /\ y.at = l /\ y.uid = u
    BY <1>0, <2>4, <2>5 DEF EntryStates
  <2> HIDE DEF y
  <2>7. Sound(c, y, Causes(c), tick)
    BY <1>0, <2>4, <2>5, <2>6 DEF Sound
  <2>8. QED
    BY <2>1, <2>2, <2>3, <2>6, <2>7, EntryMoves
<1>9. ASSUME NEW c \in Entries, enter(c) PROVE EntryInv'
  <2> DEFINE l == handleConnection(c)
             u == IF entry[c].uid = "host" /\ ~node.there THEN "none" ELSE entry[c].uid
             y == [entry[c] EXCEPT !.at = l, !.uid = u]
  <2>1. /\ entry' = [entry EXCEPT ![c] = y]
        /\ UNCHANGED <<tick, caOn, mfaOn, restarts, person, namesake, node, certFile, claim>>
    BY <1>9 DEF enter
  <2>2. RowsTypeOK'
    BY <1>0, <2>1 DEF RowsTypeOK
  <2>3. /\ l \in {"agent", "client"} /\ u \in {"none", entry[c].uid}
        /\ (l = "agent" => u \in {"host", "account"})
    BY DEF handleConnection
  <2> HIDE DEF l, u
  <2>4. y \in EntryStates /\ y.at = l /\ y.uid = u
    BY <1>0, <2>3 DEF EntryStates
  <2> HIDE DEF y
  <2>5. Sound(c, y, claim[c], tick)
    BY <1>0, <2>3, <2>4 DEF Sound
  <2>6. QED
    BY <2>1, <2>2, <2>4, <2>5, EntryMovesOn
<1>10. ASSUME NEW c \in Entries, SessionSteps(c) PROVE EntryInv'
  <2>1. UNCHANGED <<tick, caOn, mfaOn, restarts, person, namesake, node, certFile, entry, claim>>
    BY <1>10 DEF SessionSteps, handleClientSession, proxyToTarget, checkPermission, findAgent
  <2>2. QED
    BY <2>1 DEF EntryInv, ConnTypeOK, RowsTypeOK, RefusedForCause, StandsForOwner, PersonDialsInTime
<1>11. UNCHANGED entryVars => EntryInv'
  BY DEF entryVars, EntryInv, ConnTypeOK, RowsTypeOK, RefusedForCause, StandsForOwner, PersonDialsInTime
<1>12. QED
  BY <1>1, <1>2, <1>3, <1>4, <1>5, <1>6, <1>7, <1>8, <1>9, <1>10, <1>11 DEF EntryNext, OtherSteps

\* A session of connection c that has got this far, when the facts are f.
AskOK(c, a, f) ==
    /\ a \in AskStates
    /\ a.at \in {"permitted", "unavailable", "proxied"} =>
          c \in People /\ a.since \cap {"grant", "role"} # {}
    /\ a.at \in {"read", "permitted"} =>
          /\ f \subseteq a.since /\ "machine" \in a.since
          /\ a.active => "active" \in a.since
    /\ a.at = "proxied" => {"machine", "active", "agent"} \subseteq a.since

\* While a session is being set up it remembers the facts of this moment too.
AskInv ==
    /\ ask \in [Entries -> AskStates]
    /\ \A c \in Entries : AskOK(c, ask[c], FactsNow)

\* A session that is not being set up.
LEMMA IdleAsk ==
    ASSUME NEW c, NEW f, NEW l \in {"none", "usage", "denied"}
    PROVE  AskOK(c, [NoAsk EXCEPT !.at = l], f) /\ NoAsk = [NoAsk EXCEPT !.at = "none"]
<1> DEFINE y == [NoAsk EXCEPT !.at = l]
<1>a. NoAsk \in AskStates /\ NoAsk.at = "none"
  BY DEF NoAsk, AskStates
<1>b. NoAsk = [NoAsk EXCEPT !.at = "none"]
  BY <1>a DEF AskStates
<1>c. y \in AskStates /\ y.at = l
  BY <1>a DEF AskStates
<1>1. y \in AskStates /\ y.at = l /\ NoAsk = [NoAsk EXCEPT !.at = "none"]
  BY <1>b, <1>c
<1> HIDE DEF y
<1>2. AskOK(c, y, f)
  BY <1>1 DEF AskOK
<1>3. QED
  BY <1>1, <1>2 DEF y

\* One session moves.
LEMMA AskMoves ==
    ASSUME AskInv, NEW c \in Entries, NEW y, AskOK(c, y, FactsNow),
           ask' = [ask EXCEPT ![c] = y], UNCHANGED <<person, node, entry>>
    PROVE  AskInv'
<1>1. FactsNow' = FactsNow
  BY DEF FactsNow
<1>2. y \in AskStates
  BY DEF AskOK
<1>3. /\ ask' \in [Entries -> AskStates] /\ ask'[c] = y
      /\ \A d \in Entries : d # c => ask'[d] = ask[d]
  BY <1>2 DEF AskInv
<1>4. \A d \in Entries : AskOK(d, ask'[d], FactsNow)
  BY <1>3 DEF AskInv
<1>5. QED
  BY <1>1, <1>3, <1>4 DEF AskInv

\* What is remembered stays true.
LEMMA AskStep ==
    ASSUME EntryInv, AskInv
    PROVE  [EntryNext]_entryVars => AskInv'
<1>0. FactsNow \subseteq Facts /\ FactsNow' \subseteq Facts
  BY DEF FactsNow, Facts
<1>1. ASSUME Remembered PROVE AskInv'
  <2>1. ASSUME NEW c \in Entries PROVE AskOK(c, ask'[c], FactsNow')
    <3>1. CASE entry'[c].at # "client"
      <4>1. ask'[c] = NoAsk
        BY <1>1, <3>1 DEF Remembered
      <4>2. QED
        BY <4>1, IdleAsk
    <3>2. CASE entry'[c].at = "client" /\ ask[c].at \in {"read", "permitted"}
      <4> DEFINE y == [ask[c] EXCEPT !.since = ask[c].since \cup FactsNow']
      <4>1. ask'[c] = y /\ AskOK(c, ask[c], FactsNow)
        BY <1>1, <3>2 DEF Remembered, AskInv
      <4>2. /\ y \in AskStates /\ y.at = ask[c].at /\ y.active = ask[c].active
            /\ y.since = ask[c].since \cup FactsNow'
        BY <1>0, <4>1 DEF AskOK, AskStates
      <4> HIDE DEF y
      <4>3. QED
        BY <3>2, <4>1, <4>2 DEF AskOK
    <3>3. CASE entry'[c].at = "client" /\ ask[c].at \notin {"read", "permitted"}
      <4>1. ask'[c] = ask[c] /\ AskOK(c, ask[c], FactsNow)
        BY <1>1, <3>3 DEF Remembered, AskInv
      <4>2. QED
        BY <3>3, <4>1 DEF AskOK
    <3>4. QED
      BY <3>1, <3>2, <3>3
  <2>2. ask' = [c \in Entries |-> ask'[c]]
    BY <1>1 DEF Remembered
  <2>3. ask' \in [Entries -> AskStates]
    BY <2>1, <2>2 DEF AskOK
  <2>4. QED
    BY <2>1, <2>3 DEF AskInv
<1>2. ASSUME NEW c \in Entries, NEW r \in {"exec", "shell", "subsystem"}, NEW named \in BOOLEAN,
             handleClientSession(c, r, named)
      PROVE  AskInv'
  <2>0. UNCHANGED <<person, node, entry>>
    BY <1>2 DEF handleClientSession
  <2>1. CASE \E l \in {"usage", "denied"} : ask' = [ask EXCEPT ![c] = [NoAsk EXCEPT !.at = l]]
    BY <2>0, <2>1, IdleAsk, AskMoves
  <2>2. CASE /\ ask' = [ask EXCEPT ![c] = [at |-> "read", active |-> node.active, since |-> FactsNow]]
             /\ node.there
    <3> DEFINE y == [at |-> "read", active |-> node.active, since |-> FactsNow]
    <3>1. /\ y \in AskStates /\ y.at = "read" /\ y.since = FactsNow /\ y.active = node.active
          /\ "machine" \in FactsNow /\ (node.active => "active" \in FactsNow)
      <4>1. node.active \in BOOLEAN
        BY DEF EntryInv, ConnTypeOK, RowsTypeOK
      <4>2. "machine" \in FactsNow /\ (node.active => "active" \in FactsNow)
        BY <2>2 DEF FactsNow
      <4>3. QED
        BY <1>0, <4>1, <4>2 DEF AskStates
    <3> HIDE DEF y
    <3>2. AskOK(c, y, FactsNow)
      BY <3>1 DEF AskOK
    <3>3. QED
      BY <2>0, <2>2, <3>2, AskMoves DEF y
  <2> DEFINE odd == r = "subsystem" \/ (r = "shell" /\ ~named)
  <2>3. CASE odd
    BY <1>2, <2>1, <2>3 DEF handleClientSession
  <2>4. CASE ~odd /\ ~node.there
    BY <1>2, <2>1, <2>4 DEF handleClientSession
  <2>5. CASE ~odd /\ node.there
    BY <1>2, <2>2, <2>5 DEF handleClientSession
  <2>6. QED
    BY <2>3, <2>4, <2>5
<1>3. ASSUME NEW c \in Entries, checkPermission(c) PROVE AskInv'
  <2>0. UNCHANGED <<person, node, entry>> /\ ask[c].at = "read" /\ AskOK(c, ask[c], FactsNow)
    BY <1>3 DEF checkPermission, AskInv
  <2>1. CASE ask' = [ask EXCEPT ![c] = [NoAsk EXCEPT !.at = "denied"]]
    BY <2>0, <2>1, IdleAsk, AskMoves
  <2>2. CASE Permitted(entry[c].uid) /\ ask' = [ask EXCEPT ![c].at = "permitted"]
    <3> DEFINE y == [ask[c] EXCEPT !.at = "permitted"]
    <3>1. /\ y \in AskStates /\ y.at = "permitted" /\ y.since = ask[c].since
          /\ y.active = ask[c].active /\ ask' = [ask EXCEPT ![c] = y]
      BY <2>0, <2>2 DEF AskOK, AskStates, AskInv
    <3> HIDE DEF y
    <3>2. c \in People
      BY <2>2 DEF Permitted, EntryInv, StandsForOwner
    <3>3. FactsNow \cap {"grant", "role"} # {}
      BY <2>2 DEF Permitted, FactsNow
    <3>4. AskOK(c, y, FactsNow)
      BY <2>0, <3>1, <3>2, <3>3 DEF AskOK
    <3>5. QED
      BY <2>0, <3>1, <3>4, AskMoves
  <2>3. QED
    BY <1>3, <2>1, <2>2 DEF checkPermission
<1>4. ASSUME NEW c \in Entries, findAgent(c) PROVE AskInv'
  <2>0. UNCHANGED <<person, node, entry>> /\ ask[c].at = "permitted" /\ AskOK(c, ask[c], FactsNow)
    BY <1>4 DEF findAgent, AskInv
  <2>1. PICK l \in {"proxied", "unavailable"} :
          /\ ask' = [ask EXCEPT ![c].at = l]
          /\ l = "proxied" => ask[c].active /\ \E a \in Agents : entry[a].at = "agent"
    BY <1>4 DEF findAgent
  <2> DEFINE y == [ask[c] EXCEPT !.at = l]
  <2>2. /\ y \in AskStates /\ y.at = l /\ y.since = ask[c].since /\ ask' = [ask EXCEPT ![c] = y]
    BY <2>0, <2>1 DEF AskOK, AskStates, AskInv
  <2> HIDE DEF y
  <2>3. l = "proxied" => "agent" \in FactsNow
    BY <2>1 DEF FactsNow
  <2>4. AskOK(c, y, FactsNow)
    BY <2>0, <2>1, <2>2, <2>3 DEF AskOK
  <2>5. QED
    BY <2>0, <2>2, <2>4, AskMoves
<1>5. UNCHANGED entryVars => AskInv'
  BY DEF entryVars, AskInv, FactsNow
<1>6. QED
  BY <1>1, <1>2, <1>3, <1>4, <1>5 DEF EntryNext, SessionSteps, proxyToTarget

\* EntryIsRight: whoever connects, and whatever is deleted, revoked or
\* reconfigured between the handshake and a session (server.go, ca.go).
THEOREM EntryStaysRight == EntrySpec => []EntryIsRight
<1>1. EntryInit => EntryInv
  <2> SUFFICES ASSUME EntryInit PROVE EntryInv
    OBVIOUS
  <2>1. \A c \in Entries : entry[c] = Fresh /\ claim[c] = {}
    BY DEF EntryInit
  <2>2. entry \in [Entries -> EntryStates] /\ claim \in [Entries -> SUBSET Reasons]
    BY FreshIsSound DEF EntryInit
  <2>3. NoCert \in Certs /\ [there |-> TRUE, until |-> CertLife, revoked |-> FALSE] \in Certs
    BY EntryAssumption DEF NoCert, Certs
  <2>4. certFile \in [{"person", "agent"} -> Certs]
    BY <2>3 DEF EntryInit
  <2>5. tick \in 0 .. EntryTime /\ restarts \in 0 .. MaxRestarts
    <3>1. tick = 0 /\ restarts = 0
      BY DEF EntryInit
    <3>2. QED
      BY <3>1, EntryAssumption
  <2>6. caOn \in BOOLEAN /\ mfaOn \in BOOLEAN /\ namesake \in BOOLEAN
    BY DEF EntryInit
  <2>7. person \in [key : BOOLEAN, mfa : BOOLEAN, grant : BOOLEAN, role : BOOLEAN]
    <3>1. person = [key |-> TRUE, mfa |-> FALSE, grant |-> TRUE, role |-> FALSE]
      BY DEF EntryInit
    <3>2. QED
      BY <3>1
  <2>8. node \in [there : BOOLEAN, active : BOOLEAN, by : {"account", "host"}]
    <3>1. node \in [there : {TRUE}, active : {FALSE}, by : {"account", "host"}]
      BY DEF EntryInit
    <3>2. QED
      BY <3>1
  <2>9. ConnTypeOK
    BY <2>2, <2>4, <2>5, <2>6, <2>7, <2>8 DEF ConnTypeOK, RowsTypeOK
  <2>10. \A c \in Entries : Sound(c, entry[c], claim[c], tick)
    BY <2>1, FreshIsSound
  <2>11. QED
    BY <2>9, <2>10, EntryInvByConnection
<1>2. EntryInit => AskInv
  <2> SUFFICES ASSUME EntryInit PROVE AskInv
    OBVIOUS
  <2>1. \A c \in Entries : ask[c] = NoAsk
    BY DEF EntryInit
  <2>2. \A c \in Entries : AskOK(c, NoAsk, FactsNow)
    BY IdleAsk
  <2>3. NoAsk \in AskStates
    BY DEF NoAsk, AskStates
  <2>4. QED
    BY <2>1, <2>2, <2>3 DEF EntryInit, AskInv
<1>3. EntrySpec => [](EntryInv /\ AskInv)
  BY <1>1, <1>2, EntryStep, AskStep, PTL DEF EntrySpec
<1>4. EntryInv /\ AskInv => EntryIsRight
  <2> SUFFICES ASSUME EntryInv, AskInv PROVE EntryIsRight
    OBVIOUS
  <2>1. EntryTypeOK
    BY DEF EntryInv, AskInv, ConnTypeOK, RowsTypeOK, EntryTypeOK
  <2>2. EntersAsItself
    BY DEF EntryInv, AskInv, AskOK, EntersAsItself, StandsForOwner, Entries
  <2>3. QED
    BY <2>1, <2>2 DEF EntryInv, EntryIsRight
<1>5. QED
  BY <1>3, <1>4, PTL

==============================================================================
