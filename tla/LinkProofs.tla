----------------------------- MODULE LinkProofs ------------------------------
(***************************************************************************)
(* What is kept open and has to come back or be given back, proved for any *)
(* number of tunnels, connections, callers and grants: the slots and cached*)
(* grants of tunnels, the client's link, the agent's link and the bindings of*)
(* Kubernetes grants.                                                      *)
(***************************************************************************)
EXTENDS Tunnels, ClientLink, AgentLink, KubeReconcile, FiniteSetTheorems, TLAPS

(**** Tunnels ****)

\* The handlers that hold a slot of the client connection, and of the agent.
GatewayHolds == {t \in TunnelIds : gw[t] \notin {"idle", "done"}}
AgentHolds == {t \in TunnelIds \ Kubectl : ag[t] \in {"dial", "accepted", "relay"}}

\* The counters count the holders, and the agent hears of a tunnel only from
\* the gateway's request for a channel.
SlotsAreCounted ==
    /\ slots = Cardinality(GatewayHolds)
    /\ aslots = Cardinality(AgentHolds)
    /\ \A t \in TunnelIds : gw[t] \in {"idle", "lookup", "check", "remember", "agent"} => ag[t] = "none"

\* The cache never promises more than GrantTTL after the store last held the
\* grant, unless a grant went under a check.
CacheIsFresh ==
    /\ last \in [GrantKeys -> Nat] /\ worst \in Nat
    /\ \A k \in GrantKeys : last[k] <= now /\ (k \in tgrant => last[k] = now)
    /\ ~late => /\ \A k \in GrantKeys : cached[k] <= last[k] + GrantTTL
                /\ \A t \in TunnelIds : gw[t] = "remember" => grantKey(t) \in tgrant

TunnelInv == TunnelGrantsHold /\ SlotsAreCounted /\ CacheIsFresh

\* The bounds as facts about numbers.
LEMMA TunnelNumbers ==
    /\ MaxTunnels \in Nat /\ MaxTunnels > 0
    /\ AgentSlots \in Nat /\ AgentSlots > 0
    /\ GrantTTL \in Nat /\ GrantTTL > 0
    /\ TunnelTime \in Nat
  BY TunnelAssumption

\* There are finitely many tunnels, so their holders can be counted.
LEMMA HoldersFinite ==
    /\ IsFiniteSet(GatewayHolds) /\ Cardinality(GatewayHolds) \in Nat
    /\ IsFiniteSet(AgentHolds) /\ Cardinality(AgentHolds) \in Nat
  BY TunnelAssumption, FS_Subset, FS_CardinalityType DEF GatewayHolds, AgentHolds

\* A handler that moves on keeps its slot, one that returns gives up one.
LEMMA GatewayCount ==
    ASSUME NEW t \in TunnelIds, NEW l, TunnelsTypeOK, Gateway(t, l)
    PROVE  /\ gw[t] = "idle" /\ l \notin {"idle", "done"}
                => Cardinality(GatewayHolds') = Cardinality(GatewayHolds) + 1
           /\ gw[t] \notin {"idle", "done"} /\ l \notin {"idle", "done"}
                => GatewayHolds' = GatewayHolds
           /\ gw[t] \notin {"idle", "done"} /\ l = "done"
                => Cardinality(GatewayHolds') = Cardinality(GatewayHolds) - 1
           /\ gw[t] \in {"idle", "done"} /\ l \in {"idle", "done"}
                => GatewayHolds' = GatewayHolds
<1> USE DEF TunnelsTypeOK, Gateway
<1>1. CASE gw[t] = "idle" /\ l \notin {"idle", "done"}
  <2>1. GatewayHolds' = GatewayHolds \cup {t} /\ t \notin GatewayHolds
    BY <1>1 DEF GatewayHolds
  <2>2. QED
    BY <1>1, <2>1, HoldersFinite, FS_AddElement
<1>2. CASE gw[t] \notin {"idle", "done"} /\ l = "done"
  <2>1. GatewayHolds' = GatewayHolds \ {t} /\ t \in GatewayHolds
    BY <1>2 DEF GatewayHolds
  <2>2. QED
    BY <1>2, <2>1, HoldersFinite, FS_RemoveElement
<1>3. CASE gw[t] \notin {"idle", "done"} /\ l \notin {"idle", "done"}
  BY <1>3 DEF GatewayHolds
<1>4. CASE gw[t] \in {"idle", "done"} /\ l \in {"idle", "done"}
  BY <1>4 DEF GatewayHolds
<1>5. QED
  BY <1>1, <1>2, <1>3, <1>4

\* The same at the agent, where only tunnels count.
LEMMA AgentCount ==
    ASSUME NEW t \in TunnelIds, NEW l, TunnelsTypeOK, Agent(t, l)
    PROVE  /\ t \notin Kubectl /\ ag[t] = "asked" /\ l = "dial"
                => Cardinality(AgentHolds') = Cardinality(AgentHolds) + 1
           /\ t \notin Kubectl /\ ag[t] \in {"dial", "accepted", "relay"} /\ l = "done"
                => Cardinality(AgentHolds') = Cardinality(AgentHolds) - 1
           /\ t \in Kubectl \/ (ag[t] \in {"dial", "accepted", "relay"} <=> l \in {"dial", "accepted", "relay"})
                => AgentHolds' = AgentHolds
<1> USE DEF TunnelsTypeOK, Agent
<1>1. CASE t \notin Kubectl /\ ag[t] = "asked" /\ l = "dial"
  <2>1. AgentHolds' = AgentHolds \cup {t} /\ t \notin AgentHolds
    BY <1>1 DEF AgentHolds
  <2>2. QED
    BY <1>1, <2>1, HoldersFinite, FS_AddElement
<1>2. CASE t \notin Kubectl /\ ag[t] \in {"dial", "accepted", "relay"} /\ l = "done"
  <2>1. AgentHolds' = AgentHolds \ {t} /\ t \in AgentHolds
    BY <1>2 DEF AgentHolds
  <2>2. QED
    BY <1>2, <2>1, HoldersFinite, FS_RemoveElement
<1>3. CASE t \in Kubectl \/ (ag[t] \in {"dial", "accepted", "relay"} <=> l \in {"dial", "accepted",
   "relay"})
  BY <1>3 DEF AgentHolds
<1>4. QED
  BY <1>1, <1>2, <1>3

\* A slot that is held is counted, so giving it back leaves a number.
LEMMA HeldIsCounted ==
    ASSUME SlotsAreCounted
    PROVE  /\ \A t \in GatewayHolds : slots > 0
           /\ \A t \in AgentHolds : aslots > 0
  BY HoldersFinite, FS_EmptySet DEF SlotsAreCounted

\* A handler of the gateway that goes on keeps its slot.
LEMMA GatewayKeepsSlot ==
    ASSUME TunnelsTypeOK, SlotsAreCounted, NEW t \in TunnelIds, NEW l,
           gw[t] \notin {"idle", "done"}, l \notin {"idle", "done"}, Gateway(t, l),
           UNCHANGED <<slots, aslots, ag>>,
           l \in {"lookup", "check", "remember", "agent"} => ag[t] = "none"
    PROVE  SlotsAreCounted'
<1>1. GatewayHolds' = GatewayHolds
  BY GatewayCount
<1>2. AgentHolds' = AgentHolds
  BY DEF AgentHolds
<1>3. \A u \in TunnelIds : gw'[u] \in {"idle", "lookup", "check", "remember",
   "agent"} => ag'[u] = "none"
  BY DEF Gateway, TunnelsTypeOK, SlotsAreCounted
<1>4. QED
  BY <1>1, <1>2, <1>3 DEF SlotsAreCounted

\* One that returns gives it back.
LEMMA GatewayGivesSlot ==
    ASSUME TunnelsTypeOK, SlotsAreCounted, NEW t \in TunnelIds,
           gw[t] \notin {"idle", "done"}, Leave(t), UNCHANGED <<aslots, ag>>
    PROVE  SlotsAreCounted' /\ slots' \in 0 .. MaxTunnels
<1> USE DEF Leave, release
<1>1. Cardinality(GatewayHolds') = Cardinality(GatewayHolds) - 1
  BY GatewayCount
<1>2. AgentHolds' = AgentHolds
  BY DEF AgentHolds
<1>3. \A u \in TunnelIds : gw'[u] \in {"idle", "lookup", "check", "remember",
   "agent"} => ag'[u] = "none"
  BY DEF Gateway, TunnelsTypeOK, SlotsAreCounted
<1>4. slots > 0
  BY HeldIsCounted DEF GatewayHolds
<1>5. QED
  BY <1>1, <1>2, <1>3, <1>4, TunnelNumbers DEF SlotsAreCounted, TunnelsTypeOK

\* The agent's handlers keep and give back the slots of the agent likewise.
LEMMA AgentKeepsSlot ==
    ASSUME TunnelsTypeOK, SlotsAreCounted, NEW t \in TunnelIds, NEW l,
           ag[t] # "none", Agent(t, l), UNCHANGED <<slots, aslots, gw>>,
           t \in Kubectl \/ (ag[t] \in {"dial", "accepted", "relay"} <=> l \in {"dial", "accepted", "relay"})
    PROVE  SlotsAreCounted'
<1>1. AgentHolds' = AgentHolds
  BY AgentCount
<1>2. GatewayHolds' = GatewayHolds
  BY DEF GatewayHolds
<1>3. \A u \in TunnelIds : gw'[u] \in {"idle", "lookup", "check", "remember",
   "agent"} => ag'[u] = "none"
  BY DEF Agent, TunnelsTypeOK, SlotsAreCounted
<1>4. QED
  BY <1>1, <1>2, <1>3 DEF SlotsAreCounted

\* A relay of the agent that ends gives its slot back, a kubectl proxy has none.
LEMMA AgentGivesSlot ==
    ASSUME TunnelsTypeOK, SlotsAreCounted, NEW t \in TunnelIds,
           ag[t] \in {"dial", "accepted", "relay"}, AgentLeave(t), UNCHANGED <<slots, gw>>
    PROVE  SlotsAreCounted' /\ aslots' \in 0 .. AgentSlots
<1>1. CASE t \in Kubectl
  BY <1>1, AgentKeepsSlot DEF AgentLeave, TunnelsTypeOK
<1>2. CASE t \notin Kubectl
  <2> USE <1>2 DEF AgentLeave
  <2>1. Cardinality(AgentHolds') = Cardinality(AgentHolds) - 1
    BY AgentCount
  <2>2. GatewayHolds' = GatewayHolds
    BY DEF GatewayHolds
  <2>3. \A u \in TunnelIds : gw'[u] \in {"idle", "lookup", "check", "remember",
     "agent"} => ag'[u] = "none"
    BY DEF Agent, TunnelsTypeOK, SlotsAreCounted
  <2>4. aslots > 0
    BY HeldIsCounted DEF AgentHolds
  <2>5. QED
    BY <2>1, <2>2, <2>3, <2>4, TunnelNumbers DEF SlotsAreCounted, TunnelsTypeOK
<1>3. QED
  BY <1>1, <1>2

\* Every step keeps the invariant: the slots, the types, and the age of what
\* the cache allows.
LEMMA TunnelStep ==
    ASSUME TunnelInv
    PROVE  [TunnelsNext]_tunnelVars => TunnelInv'
<1> USE TunnelNumbers, HoldersFinite DEF TunnelInv, TunnelGrantsHold, TunnelsTypeOK,
   StaleGrantIsBounded, GrantKeys, permVars
<1>1. ASSUME TunnelTick
      PROVE  TunnelInv'
  <2> USE <1>1 DEF TunnelTick
  <2>1. SlotsAreCounted' /\ slots' \in 0 .. MaxTunnels /\ aslots' \in 0 .. AgentSlots
    BY DEF SlotsAreCounted, GatewayHolds, AgentHolds
  <2>2. TunnelsTypeOK'
    BY <2>1 DEF Gateway, Agent
  <2>3. StaleGrantIsBounded' /\ CacheIsFresh'
    BY DEF CacheIsFresh, Gateway, Agent, grantKey
  <2>4. QED
    BY <2>1, <2>2, <2>3
<1>2. ASSUME NEW k \in GrantKeys, grantChanges(k)
      PROVE  TunnelInv'
  <2> USE <1>2 DEF grantChanges
  <2>1. SlotsAreCounted' /\ slots' \in 0 .. MaxTunnels /\ aslots' \in 0 .. AgentSlots
    BY DEF SlotsAreCounted, GatewayHolds, AgentHolds
  <2>2. TunnelsTypeOK'
    BY <2>1 DEF Gateway, Agent
  <2>3. StaleGrantIsBounded' /\ CacheIsFresh'
    <3>1. last' \in [GrantKeys -> Nat] /\ \A j \in GrantKeys : last'[j] <= now /\ last'[j] >= last[j]
      BY DEF CacheIsFresh
    <3>2. \A j \in GrantKeys : j \in tgrant' => last'[j] = now
      BY DEF CacheIsFresh
    <3>3. ASSUME ~late'
          PROVE  /\ worst < GrantTTL
                 /\ \A j \in GrantKeys : cached[j] <= last'[j] + GrantTTL
                 /\ \A t \in TunnelIds : gw[t] = "remember" => grantKey(t) \in tgrant'
      <4>1. ~late
        BY <3>3
      <4>2. \A t \in TunnelIds : gw[t] = "remember" => grantKey(t) \in tgrant /\ (k \in tgrant => grantKey(t) # k)
        BY <3>3, <4>1 DEF CacheIsFresh
      <4>3. \A j \in GrantKeys : cached[j] <= last'[j] + GrantTTL
        BY <3>1, <4>1 DEF CacheIsFresh
      <4>4. QED
        BY <4>1, <4>2, <4>3
    <3>4. QED
      BY <3>1, <3>2, <3>3 DEF CacheIsFresh
  <2>4. QED
    BY <2>1, <2>2, <2>3
<1>3. ASSUME drainStarts
      PROVE  TunnelInv'
  <2> USE <1>3 DEF drainStarts
  <2>1. SlotsAreCounted' /\ slots' \in 0 .. MaxTunnels /\ aslots' \in 0 .. AgentSlots
    BY DEF SlotsAreCounted, GatewayHolds, AgentHolds
  <2>2. TunnelsTypeOK'
    BY <2>1 DEF Gateway, Agent
  <2>3. StaleGrantIsBounded' /\ CacheIsFresh'
    BY DEF CacheIsFresh, Gateway, Agent, grantKey
  <2>4. QED
    BY <2>1, <2>2, <2>3
<1>4. ASSUME agentLost
      PROVE  TunnelInv'
  <2> USE <1>4 DEF agentLost
  <2>1. SlotsAreCounted' /\ slots' \in 0 .. MaxTunnels /\ aslots' \in 0 .. AgentSlots
    BY DEF SlotsAreCounted, GatewayHolds, AgentHolds
  <2>2. TunnelsTypeOK'
    BY <2>1 DEF Gateway, Agent
  <2>3. StaleGrantIsBounded' /\ CacheIsFresh'
    BY DEF CacheIsFresh, Gateway, Agent, grantKey
  <2>4. QED
    BY <2>1, <2>2, <2>3
<1>5. ASSUME NEW t \in TunnelIds, clientEnds(t)
      PROVE  TunnelInv'
  <2> USE <1>5 DEF clientEnds
  <2>1. SlotsAreCounted' /\ slots' \in 0 .. MaxTunnels /\ aslots' \in 0 .. AgentSlots
    BY DEF SlotsAreCounted, GatewayHolds, AgentHolds
  <2>2. TunnelsTypeOK'
    BY <2>1 DEF Gateway, Agent
  <2>3. StaleGrantIsBounded' /\ CacheIsFresh'
    BY DEF CacheIsFresh, Gateway, Agent, grantKey
  <2>4. QED
    BY <2>1, <2>2, <2>3
<1>6. ASSUME NEW t \in TunnelIds, serviceEnds(t)
      PROVE  TunnelInv'
  <2> USE <1>6 DEF serviceEnds
  <2>1. SlotsAreCounted' /\ slots' \in 0 .. MaxTunnels /\ aslots' \in 0 .. AgentSlots
    BY DEF SlotsAreCounted, GatewayHolds, AgentHolds
  <2>2. TunnelsTypeOK'
    BY <2>1 DEF Gateway, Agent
  <2>3. StaleGrantIsBounded' /\ CacheIsFresh'
    BY DEF CacheIsFresh, Gateway, Agent, grantKey
  <2>4. QED
    BY <2>1, <2>2, <2>3
<1>7. ASSUME NEW t \in TunnelIds, acquire(t)
      PROVE  TunnelInv'
  <2> USE <1>7 DEF acquire
  <2>1. SlotsAreCounted' /\ slots' \in 0 .. MaxTunnels /\ aslots' \in 0 .. AgentSlots
    <3>1. AgentHolds' = AgentHolds /\ ag[t] = "none"
      BY DEF AgentHolds, SlotsAreCounted
    <3>2. \A u \in TunnelIds : gw'[u] \in {"idle", "lookup", "check", "remember",
       "agent"} => ag'[u] = "none"
      BY <3>1 DEF Gateway, SlotsAreCounted
    <3>3. CASE slots < MaxTunnels
      <4>1. Cardinality(GatewayHolds') = Cardinality(GatewayHolds) + 1
        BY <3>3, GatewayCount
      <4>2. QED
        BY <3>1, <3>2, <3>3, <4>1 DEF SlotsAreCounted
    <3>4. CASE ~(slots < MaxTunnels)
      <4>1. GatewayHolds' = GatewayHolds
        BY <3>4, GatewayCount
      <4>2. QED
        BY <3>1, <3>2, <3>4, <4>1 DEF SlotsAreCounted
    <3>5. QED
      BY <3>3, <3>4
  <2>2. TunnelsTypeOK'
    BY <2>1 DEF Gateway, Agent
  <2>3. StaleGrantIsBounded' /\ CacheIsFresh'
    BY DEF CacheIsFresh, Gateway, Agent, grantKey
  <2>4. QED
    BY <2>1, <2>2, <2>3
<1>8. ASSUME NEW t \in TunnelIds, tryAgain(t)
      PROVE  TunnelInv'
  <2> USE <1>8 DEF tryAgain
  <2>1. SlotsAreCounted' /\ slots' \in 0 .. MaxTunnels /\ aslots' \in 0 .. AgentSlots
    <3>1. AgentHolds' = AgentHolds
      BY AgentCount
    <3>2. GatewayHolds' = GatewayHolds
      BY GatewayCount
    <3>3. \A u \in TunnelIds : gw'[u] \in {"idle", "lookup", "check", "remember",
       "agent"} => ag'[u] = "none"
      BY DEF Gateway, Agent, SlotsAreCounted
    <3>4. QED
      BY <3>1, <3>2, <3>3 DEF SlotsAreCounted
  <2>2. TunnelsTypeOK'
    BY <2>1 DEF Gateway, Agent
  <2>3. StaleGrantIsBounded' /\ CacheIsFresh'
    BY DEF CacheIsFresh, Gateway, Agent, grantKey
  <2>4. QED
    BY <2>1, <2>2, <2>3
<1>9. ASSUME NEW t \in TunnelIds, agentWriteFails(t)
      PROVE  TunnelInv'
  <2> USE <1>9 DEF agentWriteFails
  <2>1. SlotsAreCounted' /\ slots' \in 0 .. MaxTunnels /\ aslots' \in 0 .. AgentSlots
    BY DEF SlotsAreCounted, GatewayHolds, AgentHolds, EndHalf
  <2>2. TunnelsTypeOK'
    BY <2>1 DEF Gateway, Agent, EndHalf
  <2>3. StaleGrantIsBounded' /\ CacheIsFresh'
    BY DEF CacheIsFresh, Gateway, Agent, grantKey, EndHalf
  <2>4. QED
    BY <2>1, <2>2, <2>3
<1>10. ASSUME NEW t \in TunnelIds, lookUpMachine(t)
      PROVE  TunnelInv'
  <2> USE <1>10 DEF lookUpMachine
  <2>1. SlotsAreCounted' /\ slots' \in 0 .. MaxTunnels /\ aslots' \in 0 .. AgentSlots
    <3>0. ag[t] = "none"
      BY DEF SlotsAreCounted
    <3>1. CASE Leave(t)
      BY <3>1, GatewayGivesSlot
    <3>2. CASE Gateway(t, "agent") /\ UNCHANGED slots
      BY <3>2, <3>0, GatewayKeepsSlot
    <3>3. CASE Gateway(t, "check") /\ UNCHANGED slots
      BY <3>3, <3>0, GatewayKeepsSlot
    <3>4. QED
      BY <3>1, <3>2, <3>3
  <2>2. TunnelsTypeOK'
    BY <2>1 DEF Gateway, Agent, Leave, release, LetIn, allowed
  <2>3. StaleGrantIsBounded' /\ CacheIsFresh'
    BY DEF CacheIsFresh, Gateway, Agent, grantKey, Leave, release, LetIn, allowed
  <2>4. QED
    BY <2>1, <2>2, <2>3
<1>11. ASSUME NEW t \in TunnelIds, checkPermission(t)
      PROVE  TunnelInv'
  <2> USE <1>11 DEF checkPermission
  <2>1. SlotsAreCounted' /\ slots' \in 0 .. MaxTunnels /\ aslots' \in 0 .. AgentSlots
    <3>0. ag[t] = "none"
      BY DEF SlotsAreCounted
    <3>1. CASE Leave(t)
      BY <3>1, GatewayGivesSlot
    <3>2. CASE Gateway(t, "remember") /\ UNCHANGED slots
      BY <3>2, <3>0, GatewayKeepsSlot
    <3>3. QED
      BY <3>1, <3>2
  <2>2. TunnelsTypeOK'
    BY <2>1 DEF Gateway, Agent, Leave, release
  <2>3. StaleGrantIsBounded' /\ CacheIsFresh'
    BY DEF CacheIsFresh, Gateway, Agent, grantKey, Leave, release
  <2>4. QED
    BY <2>1, <2>2, <2>3
<1>12. ASSUME NEW t \in TunnelIds, remember(t)
      PROVE  TunnelInv'
  <2> USE <1>12 DEF remember
  <2>1. SlotsAreCounted' /\ slots' \in 0 .. MaxTunnels /\ aslots' \in 0 .. AgentSlots
    <3>0. ag[t] = "none"
      BY DEF SlotsAreCounted
    <3>1. QED
      BY <3>0, GatewayKeepsSlot
  <2>2. TunnelsTypeOK'
    <3>1. cached' \in [GrantKeys -> 0 .. TunnelTime + GrantTTL]
      BY DEF grantKey
    <3>2. gw' \in [TunnelIds -> {"idle", "lookup", "check", "remember", "agent", "opening",
                                 "accept", "relay", "done"}]
      BY DEF Gateway
    <3>3. QED
      BY <2>1, <3>1, <3>2
  <2>3. StaleGrantIsBounded' /\ CacheIsFresh'
    BY DEF CacheIsFresh, Gateway, Agent, grantKey, LetIn
  <2>4. QED
    BY <2>1, <2>2, <2>3
<1>13. ASSUME NEW t \in TunnelIds, openAgentChannel(t)
      PROVE  TunnelInv'
  <2> USE <1>13 DEF openAgentChannel
  <2>1. SlotsAreCounted' /\ slots' \in 0 .. MaxTunnels /\ aslots' \in 0 .. AgentSlots
    <3>1. CASE Leave(t) /\ UNCHANGED ag
      BY <3>1, GatewayGivesSlot
    <3>2. CASE Gateway(t, "opening") /\ Agent(t, "asked") /\ UNCHANGED slots
      <4>1. GatewayHolds' = GatewayHolds
        BY <3>2, GatewayCount
      <4>2. ag[t] = "none"
        BY DEF SlotsAreCounted
      <4>3. AgentHolds' = AgentHolds
        BY <3>2, <4>2, AgentCount
      <4>4. \A u \in TunnelIds : gw'[u] \in {"idle", "lookup", "check", "remember",
         "agent"} => ag'[u] = "none"
        BY <3>2 DEF Gateway, Agent, SlotsAreCounted
      <4>5. QED
        BY <3>2, <4>1, <4>3, <4>4 DEF SlotsAreCounted
    <3>3. QED
      BY <3>1, <3>2
  <2>2. TunnelsTypeOK'
    BY <2>1 DEF Gateway, Agent, Leave, release
  <2>3. StaleGrantIsBounded' /\ CacheIsFresh'
    BY DEF CacheIsFresh, Gateway, Agent, grantKey, Leave, release
  <2>4. QED
    BY <2>1, <2>2, <2>3
<1>14. ASSUME NEW t \in TunnelIds, agentAnswered(t)
      PROVE  TunnelInv'
  <2> USE <1>14 DEF agentAnswered
  <2>1. SlotsAreCounted' /\ slots' \in 0 .. MaxTunnels /\ aslots' \in 0 .. AgentSlots
    <3>1. CASE Leave(t)
      BY <3>1, GatewayGivesSlot
    <3>2. CASE Gateway(t, "accept") /\ UNCHANGED slots
      BY <3>2, GatewayKeepsSlot
    <3>3. QED
      BY <3>1, <3>2
  <2>2. TunnelsTypeOK'
    BY <2>1 DEF Gateway, Agent, Leave, release
  <2>3. StaleGrantIsBounded' /\ CacheIsFresh'
    BY DEF CacheIsFresh, Gateway, Agent, grantKey, Leave, release
  <2>4. QED
    BY <2>1, <2>2, <2>3
<1>15. ASSUME NEW t \in TunnelIds, acceptClient(t)
      PROVE  TunnelInv'
  <2> USE <1>15 DEF acceptClient
  <2>1. SlotsAreCounted' /\ slots' \in 0 .. MaxTunnels /\ aslots' \in 0 .. AgentSlots
    <3>1. CASE Leave(t)
      BY <3>1, GatewayGivesSlot
    <3>2. CASE Gateway(t, "relay") /\ UNCHANGED slots
      BY <3>2, GatewayKeepsSlot
    <3>3. QED
      BY <3>1, <3>2
  <2>2. TunnelsTypeOK'
    BY <2>1 DEF Gateway, Agent, Leave, release
  <2>3. StaleGrantIsBounded' /\ CacheIsFresh'
    BY DEF CacheIsFresh, Gateway, Agent, grantKey, Leave, release
  <2>4. QED
    BY <2>1, <2>2, <2>3
<1>16. ASSUME NEW t \in TunnelIds, relayChannels(t)
      PROVE  TunnelInv'
  <2> USE <1>16 DEF relayChannels
  <2>1. SlotsAreCounted' /\ slots' \in 0 .. MaxTunnels /\ aslots' \in 0 .. AgentSlots
    BY GatewayGivesSlot
  <2>2. TunnelsTypeOK'
    BY <2>1 DEF Gateway, Agent, Leave, release
  <2>3. StaleGrantIsBounded' /\ CacheIsFresh'
    BY DEF CacheIsFresh, Gateway, Agent, grantKey, Leave, release
  <2>4. QED
    BY <2>1, <2>2, <2>3
<1>17. ASSUME NEW t \in TunnelIds, NEW h \in {"gwUp", "gwDown"}, copyHalf(t, h)
      PROVE  TunnelInv'
  <2> USE <1>17 DEF copyHalf
  <2>1. SlotsAreCounted' /\ slots' \in 0 .. MaxTunnels /\ aslots' \in 0 .. AgentSlots
    BY DEF SlotsAreCounted, GatewayHolds, AgentHolds, EndHalf
  <2>2. TunnelsTypeOK'
    BY <2>1 DEF Gateway, Agent, EndHalf
  <2>3. StaleGrantIsBounded' /\ CacheIsFresh'
    BY DEF CacheIsFresh, Gateway, Agent, grantKey, EndHalf
  <2>4. QED
    BY <2>1, <2>2, <2>3
<1>18. ASSUME NEW t \in TunnelIds, takeAgentSlot(t)
      PROVE  TunnelInv'
  <2> USE <1>18 DEF takeAgentSlot
  <2>1. SlotsAreCounted' /\ slots' \in 0 .. MaxTunnels /\ aslots' \in 0 .. AgentSlots
    <3>1. CASE Agent(t, "dial") /\ t \in Kubectl /\ UNCHANGED aslots
      BY <3>1, AgentKeepsSlot
    <3>2. CASE Agent(t, "done") /\ UNCHANGED aslots
      BY <3>2, AgentKeepsSlot
    <3>3. CASE Agent(t, "dial") /\ t \notin Kubectl /\ aslots < AgentSlots /\ aslots' = aslots + 1
      <4>1. Cardinality(AgentHolds') = Cardinality(AgentHolds) + 1
        BY <3>3, AgentCount
      <4>2. GatewayHolds' = GatewayHolds
        BY DEF GatewayHolds
      <4>3. \A u \in TunnelIds : gw'[u] \in {"idle", "lookup", "check", "remember",
         "agent"} => ag'[u] = "none"
        BY <3>3 DEF Agent, SlotsAreCounted
      <4>4. QED
        BY <3>3, <4>1, <4>2, <4>3 DEF SlotsAreCounted
    <3>4. QED
      BY <3>1, <3>2, <3>3
  <2>2. TunnelsTypeOK'
    BY <2>1 DEF Gateway, Agent
  <2>3. StaleGrantIsBounded' /\ CacheIsFresh'
    BY DEF CacheIsFresh, Gateway, Agent, grantKey
  <2>4. QED
    BY <2>1, <2>2, <2>3
<1>19. ASSUME NEW t \in TunnelIds, dialService(t)
      PROVE  TunnelInv'
  <2> USE <1>19 DEF dialService
  <2>1. SlotsAreCounted' /\ slots' \in 0 .. MaxTunnels /\ aslots' \in 0 .. AgentSlots
    <3>1. CASE AgentLeave(t)
      BY <3>1, AgentGivesSlot
    <3>2. CASE Agent(t, "accepted") /\ UNCHANGED aslots
      BY <3>2, AgentKeepsSlot
    <3>3. QED
      BY <3>1, <3>2
  <2>2. TunnelsTypeOK'
    BY <2>1 DEF Gateway, Agent, AgentLeave
  <2>3. StaleGrantIsBounded' /\ CacheIsFresh'
    BY DEF CacheIsFresh, Gateway, Agent, grantKey, AgentLeave
  <2>4. QED
    BY <2>1, <2>2, <2>3
<1>20. ASSUME NEW t \in TunnelIds, beginWork(t)
      PROVE  TunnelInv'
  <2> USE <1>20 DEF beginWork
  <2>1. SlotsAreCounted' /\ slots' \in 0 .. MaxTunnels /\ aslots' \in 0 .. AgentSlots
    <3>1. CASE AgentLeave(t)
      BY <3>1, AgentGivesSlot
    <3>2. CASE Agent(t, "relay") /\ UNCHANGED aslots
      BY <3>2, AgentKeepsSlot
    <3>3. QED
      BY <3>1, <3>2
  <2>2. TunnelsTypeOK'
    BY <2>1 DEF Gateway, Agent, AgentLeave
  <2>3. StaleGrantIsBounded' /\ CacheIsFresh'
    BY DEF CacheIsFresh, Gateway, Agent, grantKey, AgentLeave
  <2>4. QED
    BY <2>1, <2>2, <2>3
<1>21. ASSUME NEW t \in TunnelIds, agentRelayEnds(t)
      PROVE  TunnelInv'
  <2> USE <1>21 DEF agentRelayEnds
  <2>1. SlotsAreCounted' /\ slots' \in 0 .. MaxTunnels /\ aslots' \in 0 .. AgentSlots
    BY AgentGivesSlot
  <2>2. TunnelsTypeOK'
    BY <2>1 DEF Gateway, Agent, AgentLeave
  <2>3. StaleGrantIsBounded' /\ CacheIsFresh'
    BY DEF CacheIsFresh, Gateway, Agent, grantKey, AgentLeave
  <2>4. QED
    BY <2>1, <2>2, <2>3
<1>22. ASSUME NEW t \in TunnelIds, NEW h \in {"agUp", "agDown"}, agentCopies(t, h)
      PROVE  TunnelInv'
  <2> USE <1>22 DEF agentCopies
  <2>1. SlotsAreCounted' /\ slots' \in 0 .. MaxTunnels /\ aslots' \in 0 .. AgentSlots
    BY DEF SlotsAreCounted, GatewayHolds, AgentHolds, EndHalf
  <2>2. TunnelsTypeOK'
    BY <2>1 DEF Gateway, Agent, EndHalf
  <2>3. StaleGrantIsBounded' /\ CacheIsFresh'
    BY DEF CacheIsFresh, Gateway, Agent, grantKey, EndHalf
  <2>4. QED
    BY <2>1, <2>2, <2>3
<1>23. UNCHANGED tunnelVars => TunnelInv'
  BY DEF tunnelVars, SlotsAreCounted, CacheIsFresh, GatewayHolds, AgentHolds
<1>24. QED
  BY <1>1, <1>2, <1>3, <1>4, <1>5, <1>6, <1>7, <1>8, <1>9, <1>10, <1>11, <1>12, <1>13, <1>14,
     <1>15, <1>16, <1>17, <1>18, <1>19, <1>20, <1>21, <1>22, <1>23
     DEF TunnelsNext, TunnelSteps, handleClientTunnel, handleClientKube, handleTunnel, handleKube,
         GatewaySteps, AgentSteps

\* The invariant holds of every behaviour of the tunnels.
THEOREM TunnelInvariant == TunnelsSpec => []TunnelInv
<1>1. TunnelsInit => TunnelInv
  <2> SUFFICES ASSUME TunnelsInit PROVE TunnelInv
    OBVIOUS
  <2> USE TunnelNumbers DEF TunnelsInit
  <2>1. GatewayHolds = {} /\ AgentHolds = {}
    BY DEF GatewayHolds, AgentHolds
  <2>2. SlotsAreCounted
    BY <2>1, FS_EmptySet DEF SlotsAreCounted
  <2>3. TunnelGrantsHold /\ CacheIsFresh
    BY DEF TunnelGrantsHold, TunnelsTypeOK, StaleGrantIsBounded, CacheIsFresh, GrantKeys
  <2>4. QED
    BY <2>2, <2>3 DEF TunnelInv
<1>2. QED
  BY <1>1, TunnelStep, PTL DEF TunnelsSpec

\* TunnelGrantsHold: a grant that is gone lets tunnels in for less than
\* GrantTTL, unless it went under a check (resilience.go:27-32, 136-141).
THEOREM TunnelGrantsAreFresh == TunnelsSpec => []TunnelGrantsHold
  BY TunnelInvariant, PTL DEF TunnelInv

\* Both counters are the number of handlers that hold a slot: no path through
\* the gateway or the agent loses or invents one (resilience.go:119-128,
\* agent/tunnel.go:26-91).
THEOREM SlotsMatchHandlers == TunnelsSpec => []SlotsAreCounted
  BY TunnelInvariant, PTL DEF TunnelInv

(**** The client's link ****)

\* Who dials, waits to dial again or has dialled holds dialMu, and there is no
\* live connection meanwhile.
DialsAlone ==
    \A c \in Callers : caller[c].pc \in {"dial", "adopt", "backoff"} => dialMu = c /\ client = 0

\* Only connections that were dialled are live, watched or used.
ConnsWereDialled ==
    /\ client # 0 => net[client] # "none"
    /\ \A k \in watching : net[k] # "none"
    /\ \A c \in Callers : At(c, "open") => caller[c].conn # 0 /\ net[caller[c].conn] # "none"

\* A connection that its dialler has not handed over is open, and nobody else
\* knows it.
AdoptedFirst ==
    \A c \in Callers : At(c, "adopt") =>
        /\ caller[c].conn # 0 /\ net[caller[c].conn] \in {"up", "dead"}
        /\ caller[c].conn \notin watching
        /\ \A d \in Callers : At(d, "open") => caller[d].conn # caller[c].conn

\* A connection is replaced once, after it was closed and retired.
RedialsOnce ==
    \A k \in Conns : caller[k].pc # "idle" => net[k] = "closed" /\ client # k

\* A closed link stays without a connection, and the local connections ended
\* before it was closed.
LinkStaysClosed ==
    /\ closedLink => client = 0
    /\ fwd \in {"closing", "done"} => closedLink /\ \A s \in Streams \cup {Main} : Through(s)

ClientLinkInv ==
    ClientLinkIsSound /\ DialsAlone /\ ConnsWereDialled /\ AdoptedFirst /\ RedialsOnce /\ LinkStaysClosed

\* The goroutines; 0 stands for no connection and for nobody.
LEMMA CallerSets ==
    /\ Streams \subseteq Callers /\ Conns \subseteq Callers /\ Main \in Callers
    /\ 0 \notin Conns /\ 0 \notin Callers
    /\ \A c \in Callers : c \in Conns \/ c \in Streams \cup {Main}
  BY ClientLinkAssumption DEF Callers, Conns

\* Every step keeps the invariant.
LEMMA ClientLinkStep ==
    ASSUME ClientLinkInv
    PROVE  [ClientLinkNext]_linkVars => ClientLinkInv'
<1> USE ClientLinkAssumption, CallerSets DEF ClientLinkInv, ClientLinkIsSound, At
<1>1. ASSUME gatewayComesAndGoes
      PROVE  ClientLinkInv'
  <2> USE <1>1 DEF gatewayComesAndGoes
    <2>1. ClientLinkTypeOK'
      BY DEF ClientLinkTypeOK, ConnsWereDialled, AdoptedFirst
    <2>2. OneConnection'
      BY DEF OneConnection, DialsAlone, AdoptedFirst, LinkStaysClosed, ConnsWereDialled,
         RedialsOnce, ClientLinkTypeOK, Through
    <2>3. DialsAlone'
      BY DEF DialsAlone, RedialsOnce, AdoptedFirst, ClientLinkTypeOK
    <2>4. ConnsWereDialled'
      BY DEF ConnsWereDialled, AdoptedFirst, ClientLinkTypeOK
    <2>5. AdoptedFirst'
      BY DEF AdoptedFirst, DialsAlone, ConnsWereDialled, RedialsOnce, ClientLinkTypeOK
    <2>6. RedialsOnce'
      BY DEF RedialsOnce, AdoptedFirst, ConnsWereDialled, OneConnection, ClientLinkTypeOK
    <2>7. LinkStaysClosed'
      BY DEF LinkStaysClosed, DialsAlone, ClientLinkTypeOK, Through
    <2>8. QED
      BY <2>1, <2>2, <2>3, <2>4, <2>5, <2>6, <2>7
<1>2. ASSUME cancel
      PROVE  ClientLinkInv'
  <2> USE <1>2 DEF cancel
    <2>1. ClientLinkTypeOK'
      BY DEF ClientLinkTypeOK, ConnsWereDialled, AdoptedFirst
    <2>2. OneConnection'
      BY DEF OneConnection, DialsAlone, AdoptedFirst, LinkStaysClosed, ConnsWereDialled,
         RedialsOnce, ClientLinkTypeOK, Through
    <2>3. DialsAlone'
      BY DEF DialsAlone, RedialsOnce, AdoptedFirst, ClientLinkTypeOK
    <2>4. ConnsWereDialled'
      BY DEF ConnsWereDialled, AdoptedFirst, ClientLinkTypeOK
    <2>5. AdoptedFirst'
      BY DEF AdoptedFirst, DialsAlone, ConnsWereDialled, RedialsOnce, ClientLinkTypeOK
    <2>6. RedialsOnce'
      BY DEF RedialsOnce, AdoptedFirst, ConnsWereDialled, OneConnection, ClientLinkTypeOK
    <2>7. LinkStaysClosed'
      BY DEF LinkStaysClosed, DialsAlone, ClientLinkTypeOK, Through
    <2>8. QED
      BY <2>1, <2>2, <2>3, <2>4, <2>5, <2>6, <2>7
<1>3. ASSUME NEW k \in Conns, keepClientAlive(k)
      PROVE  ClientLinkInv'
  <2> USE <1>3 DEF keepClientAlive
    <2>1. ClientLinkTypeOK'
      BY DEF ClientLinkTypeOK, ConnsWereDialled, AdoptedFirst, Close
    <2>2. OneConnection'
      BY DEF OneConnection, DialsAlone, AdoptedFirst, LinkStaysClosed, ConnsWereDialled,
         RedialsOnce, ClientLinkTypeOK, Close, Through
    <2>3. DialsAlone'
      BY DEF DialsAlone, RedialsOnce, AdoptedFirst, ClientLinkTypeOK, Close
    <2>4. ConnsWereDialled'
      BY DEF ConnsWereDialled, AdoptedFirst, ClientLinkTypeOK, Close
    <2>5. AdoptedFirst'
      BY DEF AdoptedFirst, DialsAlone, ConnsWereDialled, RedialsOnce, ClientLinkTypeOK, Close
    <2>6. RedialsOnce'
      BY DEF RedialsOnce, AdoptedFirst, ConnsWereDialled, OneConnection, ClientLinkTypeOK, Close
    <2>7. LinkStaysClosed'
      BY DEF LinkStaysClosed, DialsAlone, ClientLinkTypeOK, Close, Through
    <2>8. QED
      BY <2>1, <2>2, <2>3, <2>4, <2>5, <2>6, <2>7
<1>4. ASSUME NEW k \in Conns, watcher(k)
      PROVE  ClientLinkInv'
  <2> USE <1>4 DEF watcher
  <2>1. CASE redials(k)
      <3>1. ClientLinkTypeOK'
        BY <2>1 DEF ClientLinkTypeOK, ConnsWereDialled, AdoptedFirst, Close, lostConn, redials, Over
      <3>2. OneConnection'
        BY <2>1 DEF OneConnection, DialsAlone, AdoptedFirst, LinkStaysClosed, ConnsWereDialled,
           RedialsOnce, ClientLinkTypeOK, Close, lostConn, redials, Through, Over
      <3>3. DialsAlone'
        BY <2>1 DEF DialsAlone, RedialsOnce, AdoptedFirst, ClientLinkTypeOK, Close, lostConn,
           redials, Over
      <3>4. ConnsWereDialled'
        BY <2>1 DEF ConnsWereDialled, AdoptedFirst, ClientLinkTypeOK, Close, lostConn, redials, Over
      <3>5. AdoptedFirst'
        BY <2>1 DEF AdoptedFirst, DialsAlone, ConnsWereDialled, RedialsOnce, ClientLinkTypeOK,
           Close, lostConn, redials, Over
      <3>6. RedialsOnce'
        BY <2>1 DEF RedialsOnce, AdoptedFirst, ConnsWereDialled, OneConnection, ClientLinkTypeOK,
           Close, lostConn, redials, Over
      <3>7. LinkStaysClosed'
        BY <2>1 DEF LinkStaysClosed, DialsAlone, ClientLinkTypeOK, Close, lostConn, redials,
           Through, Over
      <3>8. QED
        BY <3>1, <3>2, <3>3, <3>4, <3>5, <3>6, <3>7
  <2>2. CASE ~redials(k)
      <3>1. ClientLinkTypeOK'
        BY <2>2 DEF ClientLinkTypeOK, ConnsWereDialled, AdoptedFirst, Close, lostConn, redials, Over
      <3>2. OneConnection'
        BY <2>2 DEF OneConnection, DialsAlone, AdoptedFirst, LinkStaysClosed, ConnsWereDialled,
           RedialsOnce, ClientLinkTypeOK, Close, lostConn, redials, Through, Over
      <3>3. DialsAlone'
        BY <2>2 DEF DialsAlone, RedialsOnce, AdoptedFirst, ClientLinkTypeOK, Close, lostConn,
           redials, Over
      <3>4. ConnsWereDialled'
        BY <2>2 DEF ConnsWereDialled, AdoptedFirst, ClientLinkTypeOK, Close, lostConn, redials, Over
      <3>5. AdoptedFirst'
        BY <2>2 DEF AdoptedFirst, DialsAlone, ConnsWereDialled, RedialsOnce, ClientLinkTypeOK,
           Close, lostConn, redials, Over
      <3>6. RedialsOnce'
        BY <2>2 DEF RedialsOnce, AdoptedFirst, ConnsWereDialled, OneConnection, ClientLinkTypeOK,
           Close, lostConn, redials, Over
      <3>7. LinkStaysClosed'
        BY <2>2 DEF LinkStaysClosed, DialsAlone, ClientLinkTypeOK, Close, lostConn, redials,
           Through, Over
      <3>8. QED
        BY <3>1, <3>2, <3>3, <3>4, <3>5, <3>6, <3>7
  <2>3. QED
    BY <2>1, <2>2
<1>5. ASSUME NEW k \in Conns, redialled(k)
      PROVE  ClientLinkInv'
  <2> USE <1>5 DEF redialled
    <2>1. ClientLinkTypeOK'
      BY DEF ClientLinkTypeOK, ConnsWereDialled, AdoptedFirst, Step
    <2>2. OneConnection'
      BY DEF OneConnection, DialsAlone, AdoptedFirst, LinkStaysClosed, ConnsWereDialled,
         RedialsOnce, ClientLinkTypeOK, Step, Through
    <2>3. DialsAlone'
      BY DEF DialsAlone, RedialsOnce, AdoptedFirst, ClientLinkTypeOK, Step
    <2>4. ConnsWereDialled'
      BY DEF ConnsWereDialled, AdoptedFirst, ClientLinkTypeOK, Step
    <2>5. AdoptedFirst'
      BY DEF AdoptedFirst, DialsAlone, ConnsWereDialled, RedialsOnce, ClientLinkTypeOK, Step
    <2>6. RedialsOnce'
      BY DEF RedialsOnce, AdoptedFirst, ConnsWereDialled, OneConnection, ClientLinkTypeOK, Step
    <2>7. LinkStaysClosed'
      BY DEF LinkStaysClosed, DialsAlone, ClientLinkTypeOK, Step, Through
    <2>8. QED
      BY <2>1, <2>2, <2>3, <2>4, <2>5, <2>6, <2>7
<1>6. ASSUME NEW c \in Callers, get(c)
      PROVE  ClientLinkInv'
  <2> USE <1>6 DEF get
  <2>1. CASE client # 0
      <3>1. ClientLinkTypeOK'
        BY <2>1 DEF ClientLinkTypeOK, ConnsWereDialled, AdoptedFirst, Step
      <3>2. OneConnection'
        BY <2>1 DEF OneConnection, DialsAlone, AdoptedFirst, LinkStaysClosed, ConnsWereDialled,
           RedialsOnce, ClientLinkTypeOK, Step, Through
      <3>3. DialsAlone'
        BY <2>1 DEF DialsAlone, RedialsOnce, AdoptedFirst, ClientLinkTypeOK, Step
      <3>4. ConnsWereDialled'
        BY <2>1 DEF ConnsWereDialled, AdoptedFirst, ClientLinkTypeOK, Step
      <3>5. AdoptedFirst'
        BY <2>1 DEF AdoptedFirst, DialsAlone, ConnsWereDialled, RedialsOnce, ClientLinkTypeOK, Step
      <3>6. RedialsOnce'
        BY <2>1 DEF RedialsOnce, AdoptedFirst, ConnsWereDialled, OneConnection, ClientLinkTypeOK,
           Step
      <3>7. LinkStaysClosed'
        BY <2>1 DEF LinkStaysClosed, DialsAlone, ClientLinkTypeOK, Step, Through
      <3>8. QED
        BY <3>1, <3>2, <3>3, <3>4, <3>5, <3>6, <3>7
  <2>2. CASE client = 0
      <3>1. ClientLinkTypeOK'
        BY <2>2 DEF ClientLinkTypeOK, ConnsWereDialled, AdoptedFirst, Step
      <3>2. OneConnection'
        BY <2>2 DEF OneConnection, DialsAlone, AdoptedFirst, LinkStaysClosed, ConnsWereDialled,
           RedialsOnce, ClientLinkTypeOK, Step, Through
      <3>3. DialsAlone'
        BY <2>2 DEF DialsAlone, RedialsOnce, AdoptedFirst, ClientLinkTypeOK, Step
      <3>4. ConnsWereDialled'
        BY <2>2 DEF ConnsWereDialled, AdoptedFirst, ClientLinkTypeOK, Step
      <3>5. AdoptedFirst'
        BY <2>2 DEF AdoptedFirst, DialsAlone, ConnsWereDialled, RedialsOnce, ClientLinkTypeOK, Step
      <3>6. RedialsOnce'
        BY <2>2 DEF RedialsOnce, AdoptedFirst, ConnsWereDialled, OneConnection, ClientLinkTypeOK,
           Step
      <3>7. LinkStaysClosed'
        BY <2>2 DEF LinkStaysClosed, DialsAlone, ClientLinkTypeOK, Step, Through
      <3>8. QED
        BY <3>1, <3>2, <3>3, <3>4, <3>5, <3>6, <3>7
  <2>3. QED
    BY <2>1, <2>2
<1>7. ASSUME NEW c \in Callers, getLocked(c)
      PROVE  ClientLinkInv'
  <2> USE <1>7 DEF getLocked
  <2>1. CASE client # 0
      <3>1. ClientLinkTypeOK'
        BY <2>1 DEF ClientLinkTypeOK, ConnsWereDialled, AdoptedFirst, Step
      <3>2. OneConnection'
        BY <2>1 DEF OneConnection, DialsAlone, AdoptedFirst, LinkStaysClosed, ConnsWereDialled,
           RedialsOnce, ClientLinkTypeOK, Step, Through
      <3>3. DialsAlone'
        BY <2>1 DEF DialsAlone, RedialsOnce, AdoptedFirst, ClientLinkTypeOK, Step
      <3>4. ConnsWereDialled'
        BY <2>1 DEF ConnsWereDialled, AdoptedFirst, ClientLinkTypeOK, Step
      <3>5. AdoptedFirst'
        BY <2>1 DEF AdoptedFirst, DialsAlone, ConnsWereDialled, RedialsOnce, ClientLinkTypeOK, Step
      <3>6. RedialsOnce'
        BY <2>1 DEF RedialsOnce, AdoptedFirst, ConnsWereDialled, OneConnection, ClientLinkTypeOK,
           Step
      <3>7. LinkStaysClosed'
        BY <2>1 DEF LinkStaysClosed, DialsAlone, ClientLinkTypeOK, Step, Through
      <3>8. QED
        BY <3>1, <3>2, <3>3, <3>4, <3>5, <3>6, <3>7
  <2>2. CASE client = 0
      <3>1. ClientLinkTypeOK'
        BY <2>2 DEF ClientLinkTypeOK, ConnsWereDialled, AdoptedFirst, Step
      <3>2. OneConnection'
        BY <2>2 DEF OneConnection, DialsAlone, AdoptedFirst, LinkStaysClosed, ConnsWereDialled,
           RedialsOnce, ClientLinkTypeOK, Step, Through
      <3>3. DialsAlone'
        BY <2>2 DEF DialsAlone, RedialsOnce, AdoptedFirst, ClientLinkTypeOK, Step
      <3>4. ConnsWereDialled'
        BY <2>2 DEF ConnsWereDialled, AdoptedFirst, ClientLinkTypeOK, Step
      <3>5. AdoptedFirst'
        BY <2>2 DEF AdoptedFirst, DialsAlone, ConnsWereDialled, RedialsOnce, ClientLinkTypeOK, Step
      <3>6. RedialsOnce'
        BY <2>2 DEF RedialsOnce, AdoptedFirst, ConnsWereDialled, OneConnection, ClientLinkTypeOK,
           Step
      <3>7. LinkStaysClosed'
        BY <2>2 DEF LinkStaysClosed, DialsAlone, ClientLinkTypeOK, Step, Through
      <3>8. QED
        BY <3>1, <3>2, <3>3, <3>4, <3>5, <3>6, <3>7
  <2>3. QED
    BY <2>1, <2>2
<1>8. ASSUME NEW c \in Callers, dialGateway(c)
      PROVE  ClientLinkInv'
  <2> USE <1>8 DEF dialGateway
  <2>1. CASE reach /\ \E k \in Conns : net[k] = "none" /\ net' = [net EXCEPT ![k] = "up"] /\ Step(c, "adopt", k) /\ UNCHANGED <<dialMu, fwd>>
      <3>1. ClientLinkTypeOK'
        BY <2>1 DEF ClientLinkTypeOK, ConnsWereDialled, AdoptedFirst, Step, GiveUp, Over
      <3>2. OneConnection'
        BY <2>1 DEF OneConnection, DialsAlone, AdoptedFirst, LinkStaysClosed, ConnsWereDialled,
           RedialsOnce, ClientLinkTypeOK, Step, GiveUp, Through, Over
      <3>3. DialsAlone'
        BY <2>1 DEF DialsAlone, RedialsOnce, AdoptedFirst, ClientLinkTypeOK, Step, GiveUp, Over
      <3>4. ConnsWereDialled'
        BY <2>1 DEF ConnsWereDialled, AdoptedFirst, ClientLinkTypeOK, Step, GiveUp, Over
      <3>5. AdoptedFirst'
        BY <2>1 DEF AdoptedFirst, DialsAlone, ConnsWereDialled, RedialsOnce, ClientLinkTypeOK,
           Step, GiveUp, Over
      <3>6. RedialsOnce'
        BY <2>1 DEF RedialsOnce, AdoptedFirst, ConnsWereDialled, OneConnection, ClientLinkTypeOK,
           Step, GiveUp, Over
      <3>7. LinkStaysClosed'
        BY <2>1 DEF LinkStaysClosed, DialsAlone, ClientLinkTypeOK, Step, GiveUp, Through, Over
      <3>8. QED
        BY <3>1, <3>2, <3>3, <3>4, <3>5, <3>6, <3>7
  <2>2. CASE Step(c, "backoff", 0) /\ UNCHANGED <<dialMu, fwd, net>>
      <3>1. ClientLinkTypeOK'
        BY <2>2 DEF ClientLinkTypeOK, ConnsWereDialled, AdoptedFirst, Step, GiveUp, Over
      <3>2. OneConnection'
        BY <2>2 DEF OneConnection, DialsAlone, AdoptedFirst, LinkStaysClosed, ConnsWereDialled,
           RedialsOnce, ClientLinkTypeOK, Step, GiveUp, Through, Over
      <3>3. DialsAlone'
        BY <2>2 DEF DialsAlone, RedialsOnce, AdoptedFirst, ClientLinkTypeOK, Step, GiveUp, Over
      <3>4. ConnsWereDialled'
        BY <2>2 DEF ConnsWereDialled, AdoptedFirst, ClientLinkTypeOK, Step, GiveUp, Over
      <3>5. AdoptedFirst'
        BY <2>2 DEF AdoptedFirst, DialsAlone, ConnsWereDialled, RedialsOnce, ClientLinkTypeOK,
           Step, GiveUp, Over
      <3>6. RedialsOnce'
        BY <2>2 DEF RedialsOnce, AdoptedFirst, ConnsWereDialled, OneConnection, ClientLinkTypeOK,
           Step, GiveUp, Over
      <3>7. LinkStaysClosed'
        BY <2>2 DEF LinkStaysClosed, DialsAlone, ClientLinkTypeOK, Step, GiveUp, Through, Over
      <3>8. QED
        BY <3>1, <3>2, <3>3, <3>4, <3>5, <3>6, <3>7
  <2>3. CASE c = Main /\ GiveUp(c, FALSE) /\ dialMu' = 0 /\ UNCHANGED net
      <3>1. ClientLinkTypeOK'
        BY <2>3 DEF ClientLinkTypeOK, ConnsWereDialled, AdoptedFirst, Step, GiveUp, Over
      <3>2. OneConnection'
        BY <2>3 DEF OneConnection, DialsAlone, AdoptedFirst, LinkStaysClosed, ConnsWereDialled,
           RedialsOnce, ClientLinkTypeOK, Step, GiveUp, Through, Over
      <3>3. DialsAlone'
        BY <2>3 DEF DialsAlone, RedialsOnce, AdoptedFirst, ClientLinkTypeOK, Step, GiveUp, Over
      <3>4. ConnsWereDialled'
        BY <2>3 DEF ConnsWereDialled, AdoptedFirst, ClientLinkTypeOK, Step, GiveUp, Over
      <3>5. AdoptedFirst'
        BY <2>3 DEF AdoptedFirst, DialsAlone, ConnsWereDialled, RedialsOnce, ClientLinkTypeOK,
           Step, GiveUp, Over
      <3>6. RedialsOnce'
        BY <2>3 DEF RedialsOnce, AdoptedFirst, ConnsWereDialled, OneConnection, ClientLinkTypeOK,
           Step, GiveUp, Over
      <3>7. LinkStaysClosed'
        BY <2>3 DEF LinkStaysClosed, DialsAlone, ClientLinkTypeOK, Step, GiveUp, Through, Over
      <3>8. QED
        BY <3>1, <3>2, <3>3, <3>4, <3>5, <3>6, <3>7
  <2>4. CASE GiveUp(c, TRUE) /\ dialMu' = 0 /\ UNCHANGED net
      <3>1. ClientLinkTypeOK'
        BY <2>4 DEF ClientLinkTypeOK, ConnsWereDialled, AdoptedFirst, Step, GiveUp, Over
      <3>2. OneConnection'
        BY <2>4 DEF OneConnection, DialsAlone, AdoptedFirst, LinkStaysClosed, ConnsWereDialled,
           RedialsOnce, ClientLinkTypeOK, Step, GiveUp, Through, Over
      <3>3. DialsAlone'
        BY <2>4 DEF DialsAlone, RedialsOnce, AdoptedFirst, ClientLinkTypeOK, Step, GiveUp, Over
      <3>4. ConnsWereDialled'
        BY <2>4 DEF ConnsWereDialled, AdoptedFirst, ClientLinkTypeOK, Step, GiveUp, Over
      <3>5. AdoptedFirst'
        BY <2>4 DEF AdoptedFirst, DialsAlone, ConnsWereDialled, RedialsOnce, ClientLinkTypeOK,
           Step, GiveUp, Over
      <3>6. RedialsOnce'
        BY <2>4 DEF RedialsOnce, AdoptedFirst, ConnsWereDialled, OneConnection, ClientLinkTypeOK,
           Step, GiveUp, Over
      <3>7. LinkStaysClosed'
        BY <2>4 DEF LinkStaysClosed, DialsAlone, ClientLinkTypeOK, Step, GiveUp, Through, Over
      <3>8. QED
        BY <3>1, <3>2, <3>3, <3>4, <3>5, <3>6, <3>7
  <2>5. QED
    BY <2>1, <2>2, <2>3, <2>4
<1>9. ASSUME NEW c \in Callers, backoff(c)
      PROVE  ClientLinkInv'
  <2> USE <1>9 DEF backoff
  <2>1. CASE CtxDone(c)
      <3>1. ClientLinkTypeOK'
        BY <2>1 DEF ClientLinkTypeOK, ConnsWereDialled, AdoptedFirst, Step, GiveUp, Over
      <3>2. OneConnection'
        BY <2>1 DEF OneConnection, DialsAlone, AdoptedFirst, LinkStaysClosed, ConnsWereDialled,
           RedialsOnce, ClientLinkTypeOK, Step, GiveUp, Through, Over
      <3>3. DialsAlone'
        BY <2>1 DEF DialsAlone, RedialsOnce, AdoptedFirst, ClientLinkTypeOK, Step, GiveUp, Over
      <3>4. ConnsWereDialled'
        BY <2>1 DEF ConnsWereDialled, AdoptedFirst, ClientLinkTypeOK, Step, GiveUp, Over
      <3>5. AdoptedFirst'
        BY <2>1 DEF AdoptedFirst, DialsAlone, ConnsWereDialled, RedialsOnce, ClientLinkTypeOK,
           Step, GiveUp, Over
      <3>6. RedialsOnce'
        BY <2>1 DEF RedialsOnce, AdoptedFirst, ConnsWereDialled, OneConnection, ClientLinkTypeOK,
           Step, GiveUp, Over
      <3>7. LinkStaysClosed'
        BY <2>1 DEF LinkStaysClosed, DialsAlone, ClientLinkTypeOK, Step, GiveUp, Through, Over
      <3>8. QED
        BY <3>1, <3>2, <3>3, <3>4, <3>5, <3>6, <3>7
  <2>2. CASE ~CtxDone(c)
      <3>1. ClientLinkTypeOK'
        BY <2>2 DEF ClientLinkTypeOK, ConnsWereDialled, AdoptedFirst, Step, GiveUp, Over
      <3>2. OneConnection'
        BY <2>2 DEF OneConnection, DialsAlone, AdoptedFirst, LinkStaysClosed, ConnsWereDialled,
           RedialsOnce, ClientLinkTypeOK, Step, GiveUp, Through, Over
      <3>3. DialsAlone'
        BY <2>2 DEF DialsAlone, RedialsOnce, AdoptedFirst, ClientLinkTypeOK, Step, GiveUp, Over
      <3>4. ConnsWereDialled'
        BY <2>2 DEF ConnsWereDialled, AdoptedFirst, ClientLinkTypeOK, Step, GiveUp, Over
      <3>5. AdoptedFirst'
        BY <2>2 DEF AdoptedFirst, DialsAlone, ConnsWereDialled, RedialsOnce, ClientLinkTypeOK,
           Step, GiveUp, Over
      <3>6. RedialsOnce'
        BY <2>2 DEF RedialsOnce, AdoptedFirst, ConnsWereDialled, OneConnection, ClientLinkTypeOK,
           Step, GiveUp, Over
      <3>7. LinkStaysClosed'
        BY <2>2 DEF LinkStaysClosed, DialsAlone, ClientLinkTypeOK, Step, GiveUp, Through, Over
      <3>8. QED
        BY <3>1, <3>2, <3>3, <3>4, <3>5, <3>6, <3>7
  <2>3. QED
    BY <2>1, <2>2
<1>10. ASSUME NEW c \in Callers, adopt(c)
      PROVE  ClientLinkInv'
  <2> USE <1>10 DEF adopt
  <2>1. CASE closedLink
      <3>1. ClientLinkTypeOK'
        BY <2>1 DEF ClientLinkTypeOK, ConnsWereDialled, AdoptedFirst, Step, Close
      <3>2. OneConnection'
        <4>1. \A d \in Callers : At(d, "adopt") => d = c
          BY DEF DialsAlone
        <4>2. \A k \in Conns : net'[k] \in {"up",
           "dead"} => k # caller[c].conn /\ net[k] \in {"up", "dead"}
          BY <2>1 DEF AdoptedFirst, Close, ClientLinkTypeOK
        <4>3. \A k \in Conns : ~(net'[k] \in {"up", "dead"})
          BY <4>1, <4>2, <2>1 DEF OneConnection, LinkStaysClosed
        <4>4. fwd # "done"
          BY DEF OneConnection, Through
        <4>5. QED
          BY <4>3, <4>4 DEF OneConnection
      <3>3. DialsAlone'
        BY <2>1 DEF DialsAlone, RedialsOnce, AdoptedFirst, ClientLinkTypeOK, Step, Close
      <3>4. ConnsWereDialled'
        BY <2>1 DEF ConnsWereDialled, AdoptedFirst, ClientLinkTypeOK, Step, Close
      <3>5. AdoptedFirst'
        BY <2>1 DEF AdoptedFirst, DialsAlone, ConnsWereDialled, RedialsOnce, ClientLinkTypeOK,
           Step, Close
      <3>6. RedialsOnce'
        BY <2>1 DEF RedialsOnce, AdoptedFirst, ConnsWereDialled, OneConnection, ClientLinkTypeOK,
           Step, Close
      <3>7. LinkStaysClosed'
        BY <2>1 DEF LinkStaysClosed, DialsAlone, ClientLinkTypeOK, Step, Close, Through
      <3>8. QED
        BY <3>1, <3>2, <3>3, <3>4, <3>5, <3>6, <3>7
  <2>2. CASE ~closedLink
      <3>1. ClientLinkTypeOK'
        BY <2>2 DEF ClientLinkTypeOK, ConnsWereDialled, AdoptedFirst, Step, Close
      <3>2. OneConnection'
        BY <2>2 DEF OneConnection, DialsAlone, AdoptedFirst, LinkStaysClosed, ConnsWereDialled,
           RedialsOnce, ClientLinkTypeOK, Step, Close, Through
      <3>3. DialsAlone'
        BY <2>2 DEF DialsAlone, RedialsOnce, AdoptedFirst, ClientLinkTypeOK, Step, Close
      <3>4. ConnsWereDialled'
        BY <2>2 DEF ConnsWereDialled, AdoptedFirst, ClientLinkTypeOK, Step, Close
      <3>5. AdoptedFirst'
        BY <2>2 DEF AdoptedFirst, DialsAlone, ConnsWereDialled, RedialsOnce, ClientLinkTypeOK,
           Step, Close
      <3>6. RedialsOnce'
        BY <2>2 DEF RedialsOnce, AdoptedFirst, ConnsWereDialled, OneConnection, ClientLinkTypeOK,
           Step, Close
      <3>7. LinkStaysClosed'
        BY <2>2 DEF LinkStaysClosed, DialsAlone, ClientLinkTypeOK, Step, Close, Through
      <3>8. QED
        BY <3>1, <3>2, <3>3, <3>4, <3>5, <3>6, <3>7
  <2>3. QED
    BY <2>1, <2>2
<1>11. ASSUME NEW s \in Streams, openStream(s)
      PROVE  ClientLinkInv'
  <2> USE <1>11 DEF openStream
  <2>1. CASE Step(s, "pipe", caller[s].conn) /\ UNCHANGED <<net, client, fwd>>
      <3>1. ClientLinkTypeOK'
        BY <2>1 DEF ClientLinkTypeOK, ConnsWereDialled, AdoptedFirst, Step, GiveUp, lostConn,
           redials, Close, Over
      <3>2. OneConnection'
        BY <2>1 DEF OneConnection, DialsAlone, AdoptedFirst, LinkStaysClosed, ConnsWereDialled,
           RedialsOnce, ClientLinkTypeOK, Step, GiveUp, lostConn, redials, Close, Through, Over
      <3>3. DialsAlone'
        BY <2>1 DEF DialsAlone, RedialsOnce, AdoptedFirst, ClientLinkTypeOK, Step, GiveUp,
           lostConn, redials, Close, Over
      <3>4. ConnsWereDialled'
        BY <2>1 DEF ConnsWereDialled, AdoptedFirst, ClientLinkTypeOK, Step, GiveUp, lostConn,
           redials, Close, Over
      <3>5. AdoptedFirst'
        BY <2>1 DEF AdoptedFirst, DialsAlone, ConnsWereDialled, RedialsOnce, ClientLinkTypeOK,
           Step, GiveUp, lostConn, redials, Close, Over
      <3>6. RedialsOnce'
        BY <2>1 DEF RedialsOnce, AdoptedFirst, ConnsWereDialled, OneConnection, ClientLinkTypeOK,
           Step, GiveUp, lostConn, redials, Close, Over
      <3>7. LinkStaysClosed'
        BY <2>1 DEF LinkStaysClosed, DialsAlone, ClientLinkTypeOK, Step, GiveUp, lostConn, redials,
           Close, Through, Over
      <3>8. QED
        BY <3>1, <3>2, <3>3, <3>4, <3>5, <3>6, <3>7
  <2>2. CASE GiveUp(s, TRUE) /\ UNCHANGED <<net, client>>
      <3>1. ClientLinkTypeOK'
        BY <2>2 DEF ClientLinkTypeOK, ConnsWereDialled, AdoptedFirst, Step, GiveUp, lostConn,
           redials, Close, Over
      <3>2. OneConnection'
        BY <2>2 DEF OneConnection, DialsAlone, AdoptedFirst, LinkStaysClosed, ConnsWereDialled,
           RedialsOnce, ClientLinkTypeOK, Step, GiveUp, lostConn, redials, Close, Through, Over
      <3>3. DialsAlone'
        BY <2>2 DEF DialsAlone, RedialsOnce, AdoptedFirst, ClientLinkTypeOK, Step, GiveUp,
           lostConn, redials, Close, Over
      <3>4. ConnsWereDialled'
        BY <2>2 DEF ConnsWereDialled, AdoptedFirst, ClientLinkTypeOK, Step, GiveUp, lostConn,
           redials, Close, Over
      <3>5. AdoptedFirst'
        BY <2>2 DEF AdoptedFirst, DialsAlone, ConnsWereDialled, RedialsOnce, ClientLinkTypeOK,
           Step, GiveUp, lostConn, redials, Close, Over
      <3>6. RedialsOnce'
        BY <2>2 DEF RedialsOnce, AdoptedFirst, ConnsWereDialled, OneConnection, ClientLinkTypeOK,
           Step, GiveUp, lostConn, redials, Close, Over
      <3>7. LinkStaysClosed'
        BY <2>2 DEF LinkStaysClosed, DialsAlone, ClientLinkTypeOK, Step, GiveUp, lostConn, redials,
           Close, Through, Over
      <3>8. QED
        BY <3>1, <3>2, <3>3, <3>4, <3>5, <3>6, <3>7
  <2>3. CASE Step(s, "wait", 0) /\ UNCHANGED <<net, client, fwd>>
      <3>1. ClientLinkTypeOK'
        BY <2>3 DEF ClientLinkTypeOK, ConnsWereDialled, AdoptedFirst, Step, GiveUp, lostConn,
           redials, Close, Over
      <3>2. OneConnection'
        BY <2>3 DEF OneConnection, DialsAlone, AdoptedFirst, LinkStaysClosed, ConnsWereDialled,
           RedialsOnce, ClientLinkTypeOK, Step, GiveUp, lostConn, redials, Close, Through, Over
      <3>3. DialsAlone'
        BY <2>3 DEF DialsAlone, RedialsOnce, AdoptedFirst, ClientLinkTypeOK, Step, GiveUp,
           lostConn, redials, Close, Over
      <3>4. ConnsWereDialled'
        BY <2>3 DEF ConnsWereDialled, AdoptedFirst, ClientLinkTypeOK, Step, GiveUp, lostConn,
           redials, Close, Over
      <3>5. AdoptedFirst'
        BY <2>3 DEF AdoptedFirst, DialsAlone, ConnsWereDialled, RedialsOnce, ClientLinkTypeOK,
           Step, GiveUp, lostConn, redials, Close, Over
      <3>6. RedialsOnce'
        BY <2>3 DEF RedialsOnce, AdoptedFirst, ConnsWereDialled, OneConnection, ClientLinkTypeOK,
           Step, GiveUp, lostConn, redials, Close, Over
      <3>7. LinkStaysClosed'
        BY <2>3 DEF LinkStaysClosed, DialsAlone, ClientLinkTypeOK, Step, GiveUp, lostConn, redials,
           Close, Through, Over
      <3>8. QED
        BY <3>1, <3>2, <3>3, <3>4, <3>5, <3>6, <3>7
  <2>4. CASE redials(caller[s].conn) /\ lostConn(caller[s].conn,
     [caller EXCEPT ![s] = [pc |-> "wait", conn |-> 0]]) /\ UNCHANGED fwd
      <3>1. ClientLinkTypeOK'
        BY <2>4 DEF ClientLinkTypeOK, ConnsWereDialled, AdoptedFirst, Step, GiveUp, lostConn,
           redials, Close, Over
      <3>2. OneConnection'
        BY <2>4 DEF OneConnection, DialsAlone, AdoptedFirst, LinkStaysClosed, ConnsWereDialled,
           RedialsOnce, ClientLinkTypeOK, Step, GiveUp, lostConn, redials, Close, Through, Over
      <3>3. DialsAlone'
        BY <2>4 DEF DialsAlone, RedialsOnce, AdoptedFirst, ClientLinkTypeOK, Step, GiveUp,
           lostConn, redials, Close, Over
      <3>4. ConnsWereDialled'
        BY <2>4 DEF ConnsWereDialled, AdoptedFirst, ClientLinkTypeOK, Step, GiveUp, lostConn,
           redials, Close, Over
      <3>5. AdoptedFirst'
        BY <2>4 DEF AdoptedFirst, DialsAlone, ConnsWereDialled, RedialsOnce, ClientLinkTypeOK,
           Step, GiveUp, lostConn, redials, Close, Over
      <3>6. RedialsOnce'
        BY <2>4 DEF RedialsOnce, AdoptedFirst, ConnsWereDialled, OneConnection, ClientLinkTypeOK,
           Step, GiveUp, lostConn, redials, Close, Over
      <3>7. LinkStaysClosed'
        BY <2>4 DEF LinkStaysClosed, DialsAlone, ClientLinkTypeOK, Step, GiveUp, lostConn, redials,
           Close, Through, Over
      <3>8. QED
        BY <3>1, <3>2, <3>3, <3>4, <3>5, <3>6, <3>7
  <2>5. CASE ~redials(caller[s].conn) /\ lostConn(caller[s].conn,
     [caller EXCEPT ![s] = [pc |-> "wait", conn |-> 0]]) /\ UNCHANGED fwd
      <3>1. ClientLinkTypeOK'
        BY <2>5 DEF ClientLinkTypeOK, ConnsWereDialled, AdoptedFirst, Step, GiveUp, lostConn,
           redials, Close, Over
      <3>2. OneConnection'
        BY <2>5 DEF OneConnection, DialsAlone, AdoptedFirst, LinkStaysClosed, ConnsWereDialled,
           RedialsOnce, ClientLinkTypeOK, Step, GiveUp, lostConn, redials, Close, Through, Over
      <3>3. DialsAlone'
        BY <2>5 DEF DialsAlone, RedialsOnce, AdoptedFirst, ClientLinkTypeOK, Step, GiveUp,
           lostConn, redials, Close, Over
      <3>4. ConnsWereDialled'
        BY <2>5 DEF ConnsWereDialled, AdoptedFirst, ClientLinkTypeOK, Step, GiveUp, lostConn,
           redials, Close, Over
      <3>5. AdoptedFirst'
        BY <2>5 DEF AdoptedFirst, DialsAlone, ConnsWereDialled, RedialsOnce, ClientLinkTypeOK,
           Step, GiveUp, lostConn, redials, Close, Over
      <3>6. RedialsOnce'
        BY <2>5 DEF RedialsOnce, AdoptedFirst, ConnsWereDialled, OneConnection, ClientLinkTypeOK,
           Step, GiveUp, lostConn, redials, Close, Over
      <3>7. LinkStaysClosed'
        BY <2>5 DEF LinkStaysClosed, DialsAlone, ClientLinkTypeOK, Step, GiveUp, lostConn, redials,
           Close, Through, Over
      <3>8. QED
        BY <3>1, <3>2, <3>3, <3>4, <3>5, <3>6, <3>7
  <2>6. QED
    BY <2>1, <2>2, <2>3, <2>4, <2>5
<1>12. ASSUME NEW s \in Streams, openWait(s)
      PROVE  ClientLinkInv'
  <2> USE <1>12 DEF openWait
  <2>1. CASE CtxDone(s)
      <3>1. ClientLinkTypeOK'
        BY <2>1 DEF ClientLinkTypeOK, ConnsWereDialled, AdoptedFirst, Step
      <3>2. OneConnection'
        BY <2>1 DEF OneConnection, DialsAlone, AdoptedFirst, LinkStaysClosed, ConnsWereDialled,
           RedialsOnce, ClientLinkTypeOK, Step, Through
      <3>3. DialsAlone'
        BY <2>1 DEF DialsAlone, RedialsOnce, AdoptedFirst, ClientLinkTypeOK, Step
      <3>4. ConnsWereDialled'
        BY <2>1 DEF ConnsWereDialled, AdoptedFirst, ClientLinkTypeOK, Step
      <3>5. AdoptedFirst'
        BY <2>1 DEF AdoptedFirst, DialsAlone, ConnsWereDialled, RedialsOnce, ClientLinkTypeOK, Step
      <3>6. RedialsOnce'
        BY <2>1 DEF RedialsOnce, AdoptedFirst, ConnsWereDialled, OneConnection, ClientLinkTypeOK,
           Step
      <3>7. LinkStaysClosed'
        BY <2>1 DEF LinkStaysClosed, DialsAlone, ClientLinkTypeOK, Step, Through
      <3>8. QED
        BY <3>1, <3>2, <3>3, <3>4, <3>5, <3>6, <3>7
  <2>2. CASE ~CtxDone(s)
      <3>1. ClientLinkTypeOK'
        BY <2>2 DEF ClientLinkTypeOK, ConnsWereDialled, AdoptedFirst, Step
      <3>2. OneConnection'
        BY <2>2 DEF OneConnection, DialsAlone, AdoptedFirst, LinkStaysClosed, ConnsWereDialled,
           RedialsOnce, ClientLinkTypeOK, Step, Through
      <3>3. DialsAlone'
        BY <2>2 DEF DialsAlone, RedialsOnce, AdoptedFirst, ClientLinkTypeOK, Step
      <3>4. ConnsWereDialled'
        BY <2>2 DEF ConnsWereDialled, AdoptedFirst, ClientLinkTypeOK, Step
      <3>5. AdoptedFirst'
        BY <2>2 DEF AdoptedFirst, DialsAlone, ConnsWereDialled, RedialsOnce, ClientLinkTypeOK, Step
      <3>6. RedialsOnce'
        BY <2>2 DEF RedialsOnce, AdoptedFirst, ConnsWereDialled, OneConnection, ClientLinkTypeOK,
           Step
      <3>7. LinkStaysClosed'
        BY <2>2 DEF LinkStaysClosed, DialsAlone, ClientLinkTypeOK, Step, Through
      <3>8. QED
        BY <3>1, <3>2, <3>3, <3>4, <3>5, <3>6, <3>7
  <2>3. QED
    BY <2>1, <2>2
<1>13. ASSUME probe
      PROVE  ClientLinkInv'
  <2> USE <1>13 DEF probe
    <2>1. ClientLinkTypeOK'
      BY DEF ClientLinkTypeOK, ConnsWereDialled, AdoptedFirst, Step
    <2>2. OneConnection'
      BY DEF OneConnection, DialsAlone, AdoptedFirst, LinkStaysClosed, ConnsWereDialled,
         RedialsOnce, ClientLinkTypeOK, Step, Through
    <2>3. DialsAlone'
      BY DEF DialsAlone, RedialsOnce, AdoptedFirst, ClientLinkTypeOK, Step
    <2>4. ConnsWereDialled'
      BY DEF ConnsWereDialled, AdoptedFirst, ClientLinkTypeOK, Step
    <2>5. AdoptedFirst'
      BY DEF AdoptedFirst, DialsAlone, ConnsWereDialled, RedialsOnce, ClientLinkTypeOK, Step
    <2>6. RedialsOnce'
      BY DEF RedialsOnce, AdoptedFirst, ConnsWereDialled, OneConnection, ClientLinkTypeOK, Step
    <2>7. LinkStaysClosed'
      BY DEF LinkStaysClosed, DialsAlone, ClientLinkTypeOK, Step, Through
    <2>8. QED
      BY <2>1, <2>2, <2>3, <2>4, <2>5, <2>6, <2>7
<1>14. ASSUME closeLink
      PROVE  ClientLinkInv'
  <2> USE <1>14 DEF closeLink
    <2>1. ClientLinkTypeOK'
      BY DEF ClientLinkTypeOK, ConnsWereDialled, AdoptedFirst, Close, Through
    <2>2. OneConnection'
      BY DEF OneConnection, DialsAlone, AdoptedFirst, LinkStaysClosed, ConnsWereDialled,
         RedialsOnce, ClientLinkTypeOK, Close, Through
    <2>3. DialsAlone'
      BY DEF DialsAlone, RedialsOnce, AdoptedFirst, ClientLinkTypeOK, Close, Through
    <2>4. ConnsWereDialled'
      BY DEF ConnsWereDialled, AdoptedFirst, ClientLinkTypeOK, Close, Through
    <2>5. AdoptedFirst'
      BY DEF AdoptedFirst, DialsAlone, ConnsWereDialled, RedialsOnce, ClientLinkTypeOK, Close,
         Through
    <2>6. RedialsOnce'
      BY DEF RedialsOnce, AdoptedFirst, ConnsWereDialled, OneConnection, ClientLinkTypeOK, Close,
         Through
    <2>7. LinkStaysClosed'
      BY DEF LinkStaysClosed, DialsAlone, ClientLinkTypeOK, Close, Through
    <2>8. QED
      BY <2>1, <2>2, <2>3, <2>4, <2>5, <2>6, <2>7
<1>15. ASSUME closeReturns
      PROVE  ClientLinkInv'
  <2> USE <1>15 DEF closeReturns
    <2>1. ClientLinkTypeOK'
      BY DEF ClientLinkTypeOK, ConnsWereDialled, AdoptedFirst, Through
    <2>2. OneConnection'
      BY DEF OneConnection, DialsAlone, AdoptedFirst, LinkStaysClosed, ConnsWereDialled,
         RedialsOnce, ClientLinkTypeOK, Through
    <2>3. DialsAlone'
      BY DEF DialsAlone, RedialsOnce, AdoptedFirst, ClientLinkTypeOK, Through
    <2>4. ConnsWereDialled'
      BY DEF ConnsWereDialled, AdoptedFirst, ClientLinkTypeOK, Through
    <2>5. AdoptedFirst'
      BY DEF AdoptedFirst, DialsAlone, ConnsWereDialled, RedialsOnce, ClientLinkTypeOK, Through
    <2>6. RedialsOnce'
      BY DEF RedialsOnce, AdoptedFirst, ConnsWereDialled, OneConnection, ClientLinkTypeOK, Through
    <2>7. LinkStaysClosed'
      BY DEF LinkStaysClosed, DialsAlone, ClientLinkTypeOK, Through
    <2>8. QED
      BY <2>1, <2>2, <2>3, <2>4, <2>5, <2>6, <2>7
<1>16. ASSUME NEW k \in Conns, connectionDies(k)
      PROVE  ClientLinkInv'
  <2> USE <1>16 DEF connectionDies
    <2>1. ClientLinkTypeOK'
      BY DEF ClientLinkTypeOK, ConnsWereDialled, AdoptedFirst
    <2>2. OneConnection'
      BY DEF OneConnection, DialsAlone, AdoptedFirst, LinkStaysClosed, ConnsWereDialled,
         RedialsOnce, ClientLinkTypeOK, Through
    <2>3. DialsAlone'
      BY DEF DialsAlone, RedialsOnce, AdoptedFirst, ClientLinkTypeOK
    <2>4. ConnsWereDialled'
      BY DEF ConnsWereDialled, AdoptedFirst, ClientLinkTypeOK
    <2>5. AdoptedFirst'
      BY DEF AdoptedFirst, DialsAlone, ConnsWereDialled, RedialsOnce, ClientLinkTypeOK
    <2>6. RedialsOnce'
      BY DEF RedialsOnce, AdoptedFirst, ConnsWereDialled, OneConnection, ClientLinkTypeOK
    <2>7. LinkStaysClosed'
      BY DEF LinkStaysClosed, DialsAlone, ClientLinkTypeOK, Through
    <2>8. QED
      BY <2>1, <2>2, <2>3, <2>4, <2>5, <2>6, <2>7
<1>17. ASSUME NEW s \in Streams, accept(s)
      PROVE  ClientLinkInv'
  <2> USE <1>17 DEF accept
    <2>1. ClientLinkTypeOK'
      BY DEF ClientLinkTypeOK, ConnsWereDialled, AdoptedFirst, Step
    <2>2. OneConnection'
      BY DEF OneConnection, DialsAlone, AdoptedFirst, LinkStaysClosed, ConnsWereDialled,
         RedialsOnce, ClientLinkTypeOK, Step, Through
    <2>3. DialsAlone'
      BY DEF DialsAlone, RedialsOnce, AdoptedFirst, ClientLinkTypeOK, Step
    <2>4. ConnsWereDialled'
      BY DEF ConnsWereDialled, AdoptedFirst, ClientLinkTypeOK, Step
    <2>5. AdoptedFirst'
      BY DEF AdoptedFirst, DialsAlone, ConnsWereDialled, RedialsOnce, ClientLinkTypeOK, Step
    <2>6. RedialsOnce'
      BY DEF RedialsOnce, AdoptedFirst, ConnsWereDialled, OneConnection, ClientLinkTypeOK, Step
    <2>7. LinkStaysClosed'
      BY DEF LinkStaysClosed, DialsAlone, ClientLinkTypeOK, Step, Through
    <2>8. QED
      BY <2>1, <2>2, <2>3, <2>4, <2>5, <2>6, <2>7
<1>18. ASSUME NEW s \in Streams, redialWaitOver(s)
      PROVE  ClientLinkInv'
  <2> USE <1>18 DEF redialWaitOver
    <2>1. ClientLinkTypeOK'
      BY DEF ClientLinkTypeOK, ConnsWereDialled, AdoptedFirst
    <2>2. OneConnection'
      BY DEF OneConnection, DialsAlone, AdoptedFirst, LinkStaysClosed, ConnsWereDialled,
         RedialsOnce, ClientLinkTypeOK, Through
    <2>3. DialsAlone'
      BY DEF DialsAlone, RedialsOnce, AdoptedFirst, ClientLinkTypeOK
    <2>4. ConnsWereDialled'
      BY DEF ConnsWereDialled, AdoptedFirst, ClientLinkTypeOK
    <2>5. AdoptedFirst'
      BY DEF AdoptedFirst, DialsAlone, ConnsWereDialled, RedialsOnce, ClientLinkTypeOK
    <2>6. RedialsOnce'
      BY DEF RedialsOnce, AdoptedFirst, ConnsWereDialled, OneConnection, ClientLinkTypeOK
    <2>7. LinkStaysClosed'
      BY DEF LinkStaysClosed, DialsAlone, ClientLinkTypeOK, Through
    <2>8. QED
      BY <2>1, <2>2, <2>3, <2>4, <2>5, <2>6, <2>7
<1>19. ASSUME NEW s \in Streams, pipe(s)
      PROVE  ClientLinkInv'
  <2> USE <1>19 DEF pipe
    <2>1. ClientLinkTypeOK'
      BY DEF ClientLinkTypeOK, ConnsWereDialled, AdoptedFirst, Step
    <2>2. OneConnection'
      BY DEF OneConnection, DialsAlone, AdoptedFirst, LinkStaysClosed, ConnsWereDialled,
         RedialsOnce, ClientLinkTypeOK, Step, Through
    <2>3. DialsAlone'
      BY DEF DialsAlone, RedialsOnce, AdoptedFirst, ClientLinkTypeOK, Step
    <2>4. ConnsWereDialled'
      BY DEF ConnsWereDialled, AdoptedFirst, ClientLinkTypeOK, Step
    <2>5. AdoptedFirst'
      BY DEF AdoptedFirst, DialsAlone, ConnsWereDialled, RedialsOnce, ClientLinkTypeOK, Step
    <2>6. RedialsOnce'
      BY DEF RedialsOnce, AdoptedFirst, ConnsWereDialled, OneConnection, ClientLinkTypeOK, Step
    <2>7. LinkStaysClosed'
      BY DEF LinkStaysClosed, DialsAlone, ClientLinkTypeOK, Step, Through
    <2>8. QED
      BY <2>1, <2>2, <2>3, <2>4, <2>5, <2>6, <2>7
<1>20. UNCHANGED linkVars => ClientLinkInv'
  BY DEF linkVars, ClientLinkTypeOK, OneConnection, DialsAlone, ConnsWereDialled, AdoptedFirst,
     RedialsOnce, LinkStaysClosed, Through
<1>21. QED
  BY <1>1, <1>2, <1>3, <1>4, <1>5, <1>6, <1>7, <1>8, <1>9, <1>10, <1>11, <1>12, <1>13, <1>14,
     <1>15, <1>16, <1>17, <1>18, <1>19, <1>20
     DEF ClientLinkNext, LinkSteps

\* The invariant holds of every behaviour of the link.
THEOREM ClientLinkInvariant == ClientLinkSpec => []ClientLinkInv
<1>1. ClientLinkInit => ClientLinkInv
  <2> SUFFICES ASSUME ClientLinkInit PROVE ClientLinkInv
    OBVIOUS
  <2> USE ClientLinkAssumption, CallerSets DEF ClientLinkInit, ClientLinkInv, ClientLinkIsSound, At
  <2>1. ClientLinkTypeOK
    BY DEF ClientLinkTypeOK
  <2>2. OneConnection /\ DialsAlone /\ ConnsWereDialled /\ AdoptedFirst /\ RedialsOnce /\ LinkStaysClosed
    BY DEF OneConnection, DialsAlone, ConnsWereDialled, AdoptedFirst, RedialsOnce, LinkStaysClosed,
       Conns
  <2>3. QED
    BY <2>1, <2>2
<1>2. QED
  BY <1>1, ClientLinkStep, PTL DEF ClientLinkSpec

\* ClientLinkIsSound: at most one connection is open, but for one its dialler
\* has not handed over, and none when forward has returned (link.go:59-97,
\* 190-201).
THEOREM ClientLinkStaysSound == ClientLinkSpec => []ClientLinkIsSound
  BY ClientLinkInvariant, PTL DEF ClientLinkInv

(**** The agent's link ****)

\* Connections are stored in the order they are made, and only stored ones
\* are watched.
ConnsInOrder ==
    /\ sshConn <= made
    /\ \A c \in up : c <= made
    /\ \A c \in AgentConns : waiter[c] # "none" => c <= sshConn
    /\ loop \in {"starting", "failed"} => made = 0
    /\ loop = "returned" => stopped
    /\ loop = "dialed" => sshConn < made
    /\ loop = "stored" => sshConn = made /\ waiter[sshConn] = "none"
    /\ loop \in {"stored", "select", "reconnect", "returned"} => sshConn # 0

\* Until Stop there is one signal per lost connection: while it is in the
\* channel, or on its way there, the loop waits for it; once it is taken, the
\* connection's waiter has nothing more to say.
SignalsOnce ==
    ~stopped =>
        /\ dropped => loop = "select" /\ waiter[sshConn] = "done"
        /\ \A c \in AgentConns : waiter[c] = "lost" => loop = "select"
        /\ loop = "select" => dropped \/ waiter[sshConn] \in {"waiting", "lost"}
        /\ loop \in {"reconnect", "dialed"} /\ sshConn # 0 => waiter[sshConn] = "done"

LinkInv == LinkIsWatched /\ ConnsInOrder /\ SignalsOnce /\ (stopping # "no" => stopped)

\* Every step keeps the invariant.
LEMMA LinkStep ==
    ASSUME LinkInv
    PROVE  [LinkNext]_allLinkVars => LinkInv'
<1> USE LinkAssumption DEF LinkInv, LinkIsWatched, LinkTypeOK, NoNeedlessReconnect, NoDropMissed,
        ConnsInOrder, SignalsOnce, CloseConn, agentLinkVars, stopVars, gatewayVars
<1>1. Handshake => LinkInv'
  BY DEF Handshake, AgentConns
<1>2. ConnectFails => LinkInv'
  BY DEF ConnectFails
<1>3. Store => LinkInv'
  BY DEF Store, AgentConns
<1>4. WatchConn => LinkInv'
  BY DEF WatchConn, AgentConns
<1>5. ASSUME TakeSignal PROVE LinkInv'
  <2>1. CASE stopped
    BY <1>5, <2>1 DEF TakeSignal
  <2>2. CASE ~stopped
    BY <1>5, <2>2 DEF TakeSignal
  <2>3. QED
    BY <2>1, <2>2
<1>6. HeartbeatFails => LinkInv'
  BY DEF HeartbeatFails
<1>7. ASSUME NEW c \in AgentConns, Ended(c)
      PROVE  LinkInv'
  <2>1. CASE Lost(c)
    BY <1>7, <2>1 DEF Ended, Lost, AgentConns
  <2>2. CASE ~Lost(c)
    BY <1>7, <2>2 DEF Ended, Lost
  <2>3. QED
    BY <2>1, <2>2
<1>8. ASSUME NEW c \in AgentConns, SignalDropped(c)
      PROVE  LinkInv'
  BY <1>8 DEF SignalDropped
<1>9. Stop => LinkInv'
  BY DEF Stop
<1>10. StopCloses => LinkInv'
  BY DEF StopCloses
<1>11. StopSignals => LinkInv'
  BY DEF StopSignals
<1>12. ASSUME Outage PROVE LinkInv'
  <2>1. outages' \in 0 .. MaxOutages
    BY <1>12 DEF Outage
  <2>2. reachable' = FALSE
    BY <1>12 DEF Outage
  <2>3. LinkTypeOK'
    BY <1>12, <2>1, <2>2 DEF Outage
  <2>4. QED
    BY <1>12, <2>3 DEF Outage
<1>13. Recovery => LinkInv'
  BY DEF Recovery
<1>14. ASSUME NEW c \in AgentConns, HalfCloses(c)
       PROVE  LinkInv'
  BY <1>14 DEF HalfCloses
<1>15. ASSUME NEW c \in AgentConns, Break(c, TRUE)
       PROVE  LinkInv'
  BY <1>15 DEF Break
<1>16. ASSUME NEW c \in AgentConns, Break(c, FALSE)
       PROVE  LinkInv'
  BY <1>16 DEF Break
<1>17. UNCHANGED allLinkVars => LinkInv'
  BY DEF allLinkVars
<1>18. QED
  BY <1>1, <1>2, <1>3, <1>4, <1>5, <1>6, <1>7, <1>8, <1>9, <1>10, <1>11, <1>12, <1>13, <1>14,
     <1>15, <1>16, <1>17 DEF LinkNext, StartLoop, Stopping

\* One signal per lost connection, in the agent's loop, its waiters and Stop.
THEOREM LinkInvariant == LinkSpec => []LinkInv
<1>1. LinkInit => LinkInv
  <2> SUFFICES ASSUME LinkInit PROVE LinkInv
    OBVIOUS
  <2> USE LinkAssumption DEF LinkInit
  <2>0. /\ dropped \in BOOLEAN /\ stopped \in BOOLEAN /\ reachable \in BOOLEAN
        /\ waiter \in [AgentConns -> {"none", "waiting", "lost", "done"}]
    OBVIOUS
  <2>1. LinkTypeOK
    BY <2>0 DEF LinkTypeOK
  <2>2. NoNeedlessReconnect
    BY DEF NoNeedlessReconnect
  <2>3. NoDropMissed
    BY DEF NoDropMissed
  <2>4. ConnsInOrder
    BY DEF ConnsInOrder
  <2>5. SignalsOnce
    BY DEF SignalsOnce
  <2>6. QED
    BY <2>1, <2>2, <2>3, <2>4, <2>5 DEF LinkInv, LinkIsWatched
<1>2. LinkInv /\ [LinkNext]_allLinkVars => LinkInv'
  BY LinkStep
<1>3. QED
  BY <1>1, <1>2, PTL DEF LinkSpec

\* The agent never gives up a connection that works, and never waits on one
\* that has ended: for any number of connections and outages, until Stop.
THEOREM LinkStaysWatched == LinkSpec => []LinkIsWatched
<1>1. LinkInv => LinkIsWatched
  BY DEF LinkInv
<1>2. QED
  BY <1>1, LinkInvariant, PTL

(**** Kubernetes bindings ****)

\* A reconcile that got past the lock has it.
OneReconcile ==
    \A r \in Reconcilers : recon[r].pc \in {"grants", "list", "apply", "sent", "landed", "finish"} => klock = r

\* What a reconcile read is what the store lists, but for what changed since
\* and what it missed.
Settled(r) == Scopes \ (since[r] \cup astray[r])
Applying(r) == recon[r].pc \in {"apply", "sent", "landed"}
WantIsListed ==
    \A r \in Reconcilers : recon[r].pc = "list" \/ Applying(r) \/ (recon[r].pc = "finish" /\ ~recon[r].failed) =>
        \A g \in Settled(r) : recon[r].want[g] = ListMachinePermissions[g]

\* While it applies its plan without a failure, a binding is what was read, or
\* the plan still holds the operation that makes it so, or that operation is
\* at the agent.
Planned(r) == recon[r].plan.create \cup recon[r].plan.update \cup recon[r].plan.delete
UnderWay(r, g) == recon[r].pc = "sent" /\ recon[r].op.scope = g
PlanLeadsThere ==
    \A r \in Reconcilers : Applying(r) =>
        \A g \in Settled(r) :
            /\ g \in recon[r].plan.delete => recon[r].want[g] = 0
            /\ UnderWay(r, g) => recon[r].op.end = recon[r].want[g]
            /\ g \notin Planned(r) /\ ~recon[r].failed /\ ~UnderWay(r, g) => bound[g] = recon[r].want[g]

\* What is at the agent is an operation.
SentIsOperation == \A r \in Reconcilers : recon[r].pc = "sent" => recon[r].op \in Operations

KubeInv == ReconcileIsSound /\ OneReconcile /\ WantIsListed /\ PlanLeadsThere /\ SentIsOperation

\* The bounds as facts about numbers.
LEMMA KubeNumbers ==
    /\ KubeTime \in Nat /\ MaxChanges \in Nat /\ MaxDrops \in Nat /\ MaxFaults \in Nat
    /\ Loop \in Reconcilers /\ Nobody \notin Reconcilers
    /\ 0 \in Ends /\ \A e \in Ends : e \in Nat
  BY KubeAssumption DEF Ends

\* The fields of a reconcile, and those of one whose position changes.
LEMMA ReconcileFields ==
    ASSUME NEW x \in Reconciles
    PROVE  /\ x.pc \in ReconcilePcs /\ x.conn \in 0 .. MaxDrops + 1
           /\ x.want \in [Scopes -> Ends] /\ x.failed \in BOOLEAN
           /\ x.plan \in Plans /\ x.op \in Operations \cup {NoOp}
           /\ x.plan.create \subseteq Scopes /\ x.plan.update \subseteq Scopes /\ x.plan.delete \subseteq Scopes
  BY DEF Reconciles, Plans

\* A reconcile that moves on keeps what it has read and planned.
LEMMA ReconcileGoes ==
    ASSUME NEW x \in Reconciles, NEW l \in ReconcilePcs
    PROVE  /\ [x EXCEPT !.pc = l] \in Reconciles
           /\ [x EXCEPT !.pc = l].pc = l /\ [x EXCEPT !.pc = l].want = x.want
           /\ [x EXCEPT !.pc = l].plan = x.plan /\ [x EXCEPT !.pc = l].failed = x.failed
           /\ [x EXCEPT !.pc = l].op = x.op
  BY DEF Reconciles

\* One reconcile moves, the others stay where they are.
LEMMA OneMoves ==
    ASSUME KubeTypeOK, NEW r \in Reconcilers, NEW y \in Reconciles, recon' = [recon EXCEPT ![r] = y]
    PROVE  /\ recon' \in [Reconcilers -> Reconciles]
           /\ recon'[r] = y /\ \A q \in Reconcilers : q # r => recon'[q] = recon[q]
  BY DEF KubeTypeOK

\* What the rest of the invariant needs of a step: a reconcile that moves is
\* not past the lock, and of every grant or binding that changes the
\* reconciles are told.
Early(q) == recon'[q].pc \in {"idle", "conn", "lock"}
StepIsOutside(gs) ==
    /\ \A q \in Reconcilers : Early(q) \/ (recon'[q] = recon[q] /\ klock' = klock)
    /\ \A q \in Reconcilers : since'[q] \cup astray'[q] = since[q] \cup astray[q] \cup gs
    /\ \A g \in Scopes \ gs : bound'[g] = bound[g] /\ ListMachinePermissions'[g] = ListMachinePermissions[g]
Others == OneReconcile /\ WantIsListed /\ PlanLeadsThere /\ SentIsOperation /\ ReconciledIsInSync

\* A step outside the lock leaves every reconcile right about what it has read.
LEMMA OutsideSteps ==
    ASSUME KubeInv, NEW gs \in SUBSET Scopes, StepIsOutside(gs)
    PROVE  Others'
<1> USE DEF KubeInv, ReconcileIsSound, StepIsOutside, Early
<1>1. OneReconcile' /\ WantIsListed' /\ SentIsOperation'
  BY DEF OneReconcile, WantIsListed, Settled, Applying, SentIsOperation
<1>2. PlanLeadsThere' /\ ReconciledIsInSync'
  BY DEF PlanLeadsThere, Planned, Settled, Applying, UnderWay, ReconciledIsInSync, InSync
<1>3. QED
  BY <1>1, <1>2 DEF Others

\* A step that leaves the grants and the bindings alone tells nobody anything.
LEMMA QuietSteps ==
    ASSUME KubeInv, UNCHANGED <<minute, granted, bound, since, astray>>,
           \A q \in Reconcilers : Early(q) \/ (recon'[q] = recon[q] /\ klock' = klock)
    PROVE  Others'
<1>1. ListMachinePermissions' = ListMachinePermissions
  BY DEF ListMachinePermissions
<1>2. StepIsOutside({})
  BY <1>1 DEF StepIsOutside
<1>3. QED
  BY <1>2, OutsideSteps

\* reconcileKubeAsync starts a reconcile or none.
LEMMA AsyncMoves ==
    ASSUME KubeTypeOK, reconcileKubeAsync(recon)
    PROVE  /\ recon' \in [Reconcilers -> Reconciles]
           /\ \A q \in Reconcilers : Early(q) \/ recon'[q] = recon[q]
<1>1. ASSUME NEW r \in Reconcilers, recon' = [recon EXCEPT ![r].pc = "conn"]
      PROVE  /\ recon' \in [Reconcilers -> Reconciles]
             /\ \A q \in Reconcilers : Early(q) \/ recon'[q] = recon[q]
  <2>1. recon[r] \in Reconciles
    BY DEF KubeTypeOK
  <2>2. recon' = [recon EXCEPT ![r] = [recon[r] EXCEPT !.pc = "conn"]]
    BY <1>1
  <2>3. QED
    BY <2>1, <2>2, ReconcileGoes, OneMoves DEF ReconcilePcs, Early
<1>2. QED
  BY <1>1 DEF reconcileKubeAsync, KubeTypeOK

\* The reconcile that holds the lock moves on: what the others are right about
\* stays, because they have not got the lock.
LEMMA InsideSteps ==
    ASSUME KubeInv, NEW r \in Reconcilers, NEW y \in Reconciles, recon' = [recon EXCEPT ![r] = y],
           recon[r].pc \in {"grants", "list", "apply", "sent", "landed", "finish"}, klock' = klock
    PROVE  /\ recon' \in [Reconcilers -> Reconciles] /\ recon'[r] = y
           /\ \A q \in Reconcilers : q # r => recon'[q].pc \in {"idle", "conn", "lock"}
           /\ OneReconcile'
<1>1. /\ recon' \in [Reconcilers -> Reconciles] /\ recon'[r] = y
      /\ \A q \in Reconcilers : q # r => recon'[q] = recon[q]
  BY OneMoves DEF KubeInv, ReconcileIsSound
<1>2. \A q \in Reconcilers : q # r => recon[q].pc \in {"idle", "conn", "lock"}
  BY ReconcileFields DEF KubeInv, ReconcileIsSound, KubeTypeOK, OneReconcile, ReconcilePcs
<1>3. OneReconcile'
  BY <1>1, <1>2 DEF KubeInv, OneReconcile
<1>4. QED
  BY <1>1, <1>2, <1>3

\* An operation that failed, or whose answer is lost, is reported and the plan
\* goes on.
LEMMA GivesUpStep ==
    ASSUME KubeInv, NEW r \in Reconcilers, recon[r].pc \in {"sent", "landed"},
           recon' = [recon EXCEPT ![r].pc = "apply", ![r].failed = TRUE],
           UNCHANGED <<surroundings, bound, klock, since, astray>>, adrift' \subseteq Operations
    PROVE  KubeTypeOK' /\ Others'
<1> DEFINE y == [recon[r] EXCEPT !.pc = "apply", !.failed = TRUE]
<1>1. recon[r] \in Reconciles /\ recon' = [recon EXCEPT ![r] = y]
  BY DEF KubeInv, ReconcileIsSound, KubeTypeOK
<1>2. y \in Reconciles /\ y.pc = "apply" /\ y.want = recon[r].want /\ y.failed /\ y.plan = recon[r].plan
  BY <1>1 DEF Reconciles, ReconcilePcs
<1> HIDE DEF y
<1>3. /\ recon' \in [Reconcilers -> Reconciles] /\ recon'[r] = y
      /\ \A q \in Reconcilers : q # r => recon'[q].pc \in {"idle", "conn", "lock"}
      /\ OneReconcile'
  BY <1>1, <1>2, InsideSteps
<1>4. ListMachinePermissions' = ListMachinePermissions
  BY DEF ListMachinePermissions, surroundings
<1>5. WantIsListed' /\ PlanLeadsThere' /\ SentIsOperation' /\ ReconciledIsInSync'
  BY <1>2, <1>3, <1>4 DEF KubeInv, WantIsListed, PlanLeadsThere, UnderWay, Applying, Settled,
     SentIsOperation, ReconciledIsInSync
<1>6. KubeTypeOK'
  BY <1>3 DEF KubeInv, ReconcileIsSound, surroundings, KubeTypeOK
<1>7. QED
  BY <1>3, <1>5, <1>6 DEF Others

\* Every step keeps the invariant.
LEMMA KubeStep ==
    ASSUME KubeInv
    PROVE  [KubeNext]_kubeVars => KubeInv'
<1> USE KubeNumbers
<1> SUFFICES ASSUME [KubeNext]_kubeVars PROVE KubeTypeOK' /\ Others'
  BY DEF KubeInv, ReconcileIsSound, Others
<1>0. KubeTypeOK /\ OneReconcile /\ WantIsListed /\ PlanLeadsThere /\ ReconciledIsInSync /\ SentIsOperation
  BY DEF KubeInv, ReconcileIsSound
<1>1. ASSUME KubeTick PROVE KubeTypeOK' /\ Others'
  <2> DEFINE gs == {g \in Scopes : granted[g] = minute + 1}
  <2>1. \A g \in Scopes \ gs : ListMachinePermissions'[g] = ListMachinePermissions[g]
    BY <1>0, <1>1 DEF KubeTick, ListMachinePermissions, ExpiredAt, KubeTypeOK
  <2>2. StepIsOutside(gs)
    BY <1>1, <2>1 DEF KubeTick, StepIsOutside, Since
  <2>3. KubeTypeOK'
    BY <1>0, <1>1 DEF KubeTick, KubeTypeOK, Since
  <2>4. QED
    BY <2>2, <2>3, OutsideSteps
<1>2. ASSUME NEW g \in Scopes, NEW end \in Ends, KubeGrantChanged(g,
   end) PROVE KubeTypeOK' /\ Others'
  <2>1. \A h \in Scopes \ {g} : ListMachinePermissions'[h] = ListMachinePermissions[h]
    BY <1>0, <1>2 DEF KubeGrantChanged, ListMachinePermissions, ExpiredAt, KubeTypeOK
  <2>2. StepIsOutside({g})
    BY <1>0, <1>2, <2>1, AsyncMoves DEF KubeGrantChanged, StepIsOutside, Since
  <2>3. KubeTypeOK'
    BY <1>0, <1>2, AsyncMoves DEF KubeGrantChanged, KubeTypeOK, Since
  <2>4. QED
    BY <2>2, <2>3, OutsideSteps
<1>3. ASSUME NEW g \in Scopes, sweepDelete(g) PROVE KubeTypeOK' /\ Others'
  <2>1. ListMachinePermissions' = ListMachinePermissions
    BY <1>3 DEF sweepDelete, ListMachinePermissions
  <2>2. StepIsOutside({g})
    BY <1>0, <1>3, <2>1 DEF sweepDelete, StepIsOutside, Since, KubeTypeOK
  <2>3. KubeTypeOK'
    BY <1>0, <1>3 DEF sweepDelete, KubeTypeOK, Since
  <2>4. QED
    BY <2>2, <2>3, OutsideSteps
<1>4. ASSUME agentConnects \/ agentDisconnects \/ sweepKube PROVE KubeTypeOK' /\ Others'
  <2>1. Others'
    BY <1>4, QuietSteps DEF agentConnects, agentDisconnects, sweepKube
  <2>2. KubeTypeOK'
    <3>1. CASE agentConnects
      <4>1. marked' \in BOOLEAN
        BY <3>1 DEF agentConnects
      <4>2. QED
        BY <1>0, <3>1, <4>1 DEF agentConnects, KubeTypeOK
    <3>2. CASE agentDisconnects
      BY <1>0, <3>2 DEF agentDisconnects, KubeTypeOK
    <3>3. CASE sweepKube
      BY <1>0, <3>3 DEF sweepKube, KubeTypeOK
    <3>4. QED
      BY <1>4, <3>1, <3>2, <3>3
  <2>3. QED
    BY <2>1, <2>2
<1>5. ASSUME NEW k \in announce, markKubernetes(k) PROVE KubeTypeOK' /\ Others'
  <2>1. Others'
    BY <1>0, <1>5, AsyncMoves, QuietSteps DEF markKubernetes
  <2>2. marked' \in BOOLEAN
    BY <1>5 DEF markKubernetes
  <2>3. KubeTypeOK'
    BY <1>0, <1>5, <2>2, AsyncMoves DEF markKubernetes, KubeTypeOK
  <2>4. QED
    BY <2>1, <2>3
<1>6. ASSUME runKubeReconcileLoop PROVE KubeTypeOK' /\ Others'
  <2>1. recon[Loop] \in Reconciles /\ recon' = [recon EXCEPT ![Loop] = [recon[Loop] EXCEPT !.pc = "conn"]]
    BY <1>0, <1>6 DEF runKubeReconcileLoop, Go, KubeTypeOK
  <2>2. /\ recon' \in [Reconcilers -> Reconciles]
        /\ \A q \in Reconcilers : Early(q) \/ recon'[q] = recon[q]
    BY <1>0, <2>1, ReconcileGoes, OneMoves DEF ReconcilePcs, Early
  <2>3. QED
    BY <1>0, <1>6, <2>2, QuietSteps DEF runKubeReconcileLoop, surroundings, KubeTypeOK
<1>7. ASSUME NEW r \in Reconcilers, kubeAgent(r) PROVE KubeTypeOK' /\ Others'
  <2> DEFINE y == IF kconn # 0 /\ marked THEN [Idle EXCEPT !.pc = "lock", !.conn = kconn] ELSE Idle
  <2>1. y \in Reconciles /\ y.pc \in {"idle", "lock"}
    <3>1. kconn \in 0 .. MaxDrops + 1
      BY <1>0 DEF KubeTypeOK
    <3>2. CASE kconn # 0 /\ marked
      BY <3>1, <3>2 DEF Idle, NoPlan, NoOp, Reconciles, Plans, ReconcilePcs
    <3>3. CASE ~(kconn # 0 /\ marked)
      BY <3>3 DEF Idle, NoPlan, NoOp, Reconciles, Plans, ReconcilePcs
    <3>4. QED
      BY <3>2, <3>3
  <2>2. recon' = [recon EXCEPT ![r] = y]
    BY <1>7 DEF kubeAgent
  <2> HIDE DEF y
  <2>3. /\ recon' \in [Reconcilers -> Reconciles]
        /\ \A q \in Reconcilers : Early(q) \/ recon'[q] = recon[q]
    BY <1>0, <2>1, <2>2, OneMoves DEF Early
  <2>4. QED
    BY <1>0, <1>7, <2>3, QuietSteps DEF kubeAgent, surroundings, KubeTypeOK
<1>8. ASSUME NEW r \in Reconcilers, unlockCluster(r) PROVE KubeTypeOK' /\ Others'
  <2>1. Idle \in Reconciles /\ Idle.pc = "idle"
    BY DEF Idle, NoPlan, NoOp, Reconciles, Plans, ReconcilePcs
  <2>2. recon' = [recon EXCEPT ![r] = Idle]
    BY <1>8 DEF unlockCluster
  <2>3. recon' \in [Reconcilers -> Reconciles] /\ \A q \in Reconcilers : Early(q)
    <3>1. recon' \in [Reconcilers -> Reconciles] /\ recon'[r].pc = "idle"
          /\ \A q \in Reconcilers : q # r => recon'[q] = recon[q]
      BY <1>0, <2>1, <2>2, OneMoves
    <3>2. \A q \in Reconcilers : q # r => recon[q].pc \in {"idle", "conn", "lock"}
      BY <1>0, <1>8, ReconcileFields DEF unlockCluster, surroundings, KubeTypeOK, OneReconcile, ReconcilePcs
    <3>3. QED
      BY <3>1, <3>2 DEF Early
  <2>4. QED
    BY <1>0, <1>8, <2>3, QuietSteps DEF unlockCluster, surroundings, KubeTypeOK
<1>9. ASSUME NEW r \in Reconcilers, lockCluster(r) PROVE KubeTypeOK' /\ Others'
  <2>1. recon[r] \in Reconciles /\ recon' = [recon EXCEPT ![r] = [recon[r] EXCEPT !.pc = "grants"]]
    BY <1>0, <1>9 DEF lockCluster, Go, KubeTypeOK
  <2>2. recon' \in [Reconcilers -> Reconciles] /\ recon'[r].pc = "grants"
        /\ \A q \in Reconcilers : q # r => recon'[q] = recon[q]
    BY <1>0, <2>1, ReconcileGoes, OneMoves DEF ReconcilePcs
  <2>3. \A q \in Reconcilers : q # r => recon[q].pc \in {"idle", "conn", "lock"}
    BY <1>0, <1>9, ReconcileFields DEF lockCluster, lock, KubeTypeOK, OneReconcile, ReconcilePcs
  <2>4. OneReconcile' /\ WantIsListed' /\ PlanLeadsThere' /\ SentIsOperation' /\ ReconciledIsInSync'
    BY <1>9, <2>2, <2>3 DEF lockCluster, OneReconcile, WantIsListed, PlanLeadsThere, Applying,
       SentIsOperation, ReconciledIsInSync
  <2>5. KubeTypeOK'
    BY <1>0, <1>9, <2>2 DEF lockCluster, surroundings, KubeTypeOK
  <2>6. QED
    BY <2>4, <2>5 DEF Others
<1>10. ASSUME NEW r \in Reconcilers, desiredKubeBindings(r) PROVE KubeTypeOK' /\ Others'
  <2>1. ListMachinePermissions \in [Scopes -> Ends] /\ recon[r] \in Reconciles
    BY <1>0 DEF ListMachinePermissions, KubeTypeOK
  <2>2. ListMachinePermissions' = ListMachinePermissions /\ recon[r].pc = "grants"
        /\ UNCHANGED <<surroundings, bound, klock, adrift>> /\ since' = [since EXCEPT ![r] = {}]
    BY <1>10 DEF desiredKubeBindings, ListMachinePermissions, surroundings
  <2>3. CASE Fails(r) /\ UNCHANGED astray
    <3> DEFINE y == [recon[r] EXCEPT !.pc = "finish", !.failed = TRUE]
    <3>1. y \in Reconciles /\ y.pc = "finish" /\ y.failed /\ recon' = [recon EXCEPT ![r] = y]
      BY <2>1, <2>3 DEF Fails, Reconciles, ReconcilePcs
    <3> HIDE DEF y
    <3>2. /\ recon' \in [Reconcilers -> Reconciles] /\ recon'[r] = y
          /\ \A q \in Reconcilers : q # r => recon'[q].pc \in {"idle", "conn", "lock"}
          /\ OneReconcile'
      BY <2>2, <3>1, InsideSteps
    <3>3. WantIsListed' /\ PlanLeadsThere' /\ SentIsOperation' /\ ReconciledIsInSync'
      BY <3>1, <3>2 DEF WantIsListed, PlanLeadsThere, Applying, SentIsOperation, ReconciledIsInSync
    <3>4. KubeTypeOK'
      BY <1>0, <2>2, <2>3, <3>2 DEF surroundings, KubeTypeOK
    <3>5. QED
      BY <3>2, <3>3, <3>4 DEF Others
  <2>4. ASSUME NEW missed \in SUBSET Scopes,
               recon' = [recon EXCEPT
                 ![r].want = [g \in Scopes |-> IF g \in missed THEN 0 ELSE ListMachinePermissions[g]],
                 ![r].pc = "list"],
               astray' = [astray EXCEPT ![r] = missed]
        PROVE  KubeTypeOK' /\ Others'
    <3> DEFINE w == [g \in Scopes |-> IF g \in missed THEN 0 ELSE ListMachinePermissions[g]]
               y == [recon[r] EXCEPT !.want = w, !.pc = "list"]
    <3>1. w \in [Scopes -> Ends] /\ \A g \in Scopes \ missed : w[g] = ListMachinePermissions[g]
      BY <2>1
    <3>2. recon' = [recon EXCEPT ![r] = y]
      BY <2>4
    <3> HIDE DEF w
    <3>3. y \in Reconciles /\ y.pc = "list" /\ y.want = w
      BY <2>1, <3>1 DEF Reconciles, ReconcilePcs
    <3> HIDE DEF y
    <3>4. /\ recon' \in [Reconcilers -> Reconciles] /\ recon'[r] = y
          /\ \A q \in Reconcilers : q # r => recon'[q].pc \in {"idle", "conn", "lock"}
          /\ OneReconcile'
      BY <2>2, <3>2, <3>3, InsideSteps
    <3>5. since'[r] \cup astray'[r] = missed
      BY <1>0, <2>2, <2>4 DEF KubeTypeOK
    <3>6. WantIsListed' /\ PlanLeadsThere' /\ SentIsOperation' /\ ReconciledIsInSync'
      BY <2>2, <3>1, <3>3, <3>4, <3>5 DEF WantIsListed, Settled, PlanLeadsThere, Applying, SentIsOperation, ReconciledIsInSync
    <3>7. KubeTypeOK'
      BY <1>0, <2>2, <2>4, <3>4 DEF surroundings, KubeTypeOK
    <3>8. QED
      BY <3>4, <3>6, <3>7 DEF Others
  <2>5. QED
    BY <1>10, <2>3, <2>4 DEF desiredKubeBindings
<1>11. ASSUME NEW r \in Reconcilers, listBindings(r) PROVE KubeTypeOK' /\ Others'
  <2>1. recon[r] \in Reconciles
    BY <1>0 DEF KubeTypeOK
  <2>2. ListMachinePermissions' = ListMachinePermissions /\ recon[r].pc = "list"
        /\ UNCHANGED <<surroundings, bound, klock, adrift, since, astray>>
    BY <1>11 DEF listBindings, ListMachinePermissions, surroundings
  <2>3. CASE Fails(r)
    <3> DEFINE y == [recon[r] EXCEPT !.pc = "finish", !.failed = TRUE]
    <3>1. y \in Reconciles /\ y.pc = "finish" /\ y.failed /\ recon' = [recon EXCEPT ![r] = y]
      BY <2>1, <2>3 DEF Fails, Reconciles, ReconcilePcs
    <3> HIDE DEF y
    <3>2. /\ recon' \in [Reconcilers -> Reconciles] /\ recon'[r] = y
          /\ \A q \in Reconcilers : q # r => recon'[q].pc \in {"idle", "conn", "lock"}
          /\ OneReconcile'
      BY <2>2, <3>1, InsideSteps
    <3>3. WantIsListed' /\ PlanLeadsThere' /\ SentIsOperation' /\ ReconciledIsInSync'
      BY <3>1, <3>2 DEF WantIsListed, PlanLeadsThere, Applying, SentIsOperation, ReconciledIsInSync
    <3>4. KubeTypeOK'
      BY <1>0, <2>2, <3>2 DEF surroundings, KubeTypeOK
    <3>5. QED
      BY <3>2, <3>3, <3>4 DEF Others
  <2>4. CASE recon' = [recon EXCEPT ![r].plan = Diff(recon[r].want, bound), ![r].pc = "apply"]
    <3> DEFINE p == Diff(recon[r].want, bound)
               y == [recon[r] EXCEPT !.plan = p, !.pc = "apply"]
    <3>1. p \in Plans
      BY DEF Diff, Plans
    <3>2. recon' = [recon EXCEPT ![r] = y]
      BY <2>4
    <3>3. y \in Reconciles /\ y.pc = "apply" /\ y.want = recon[r].want /\ y.plan = p
      <4> HIDE DEF p
      <4>1. QED
        BY <2>1, <3>1 DEF Reconciles, ReconcilePcs
    <3> HIDE DEF y
    <3>4. /\ recon' \in [Reconcilers -> Reconciles] /\ recon'[r] = y
          /\ \A q \in Reconcilers : q # r => recon'[q].pc \in {"idle", "conn", "lock"}
          /\ OneReconcile'
      BY <2>2, <3>2, <3>3, InsideSteps
    <3>5. WantIsListed' /\ SentIsOperation' /\ ReconciledIsInSync'
      BY <1>0, <2>2, <3>3, <3>4 DEF WantIsListed, Settled, Applying, SentIsOperation, ReconciledIsInSync
    <3>6. ASSUME NEW g \in Settled(r)
          PROVE  /\ g \in p.delete => recon[r].want[g] = 0
                 /\ g \notin p.create \cup p.update \cup p.delete => bound[g] = recon[r].want[g]
      <4>1. recon[r].want[g] = IF ExpiredAt(granted[g], minute) THEN 0 ELSE granted[g]
        BY <1>0, <2>2 DEF WantIsListed, ListMachinePermissions, Settled
      <4>2. recon[r].want[g] = 0 \/ ~ExpiredAt(recon[r].want[g], minute)
        BY <4>1
      <4>3. g \in Scopes /\ recon[r].want[g] \in Ends /\ minute \in Nat
        BY <1>0, <2>1, ReconcileFields DEF Settled, KubeTypeOK
      <4>4. QED
        BY <1>0, <4>2, <4>3 DEF Diff, ExpiredAt, KubeTypeOK
    <3>7. PlanLeadsThere'
      <4> HIDE DEF p
      <4>1. QED
        BY <2>2, <3>3, <3>4, <3>6 DEF PlanLeadsThere, Planned, UnderWay, Applying, Settled
    <3>8. KubeTypeOK'
      BY <1>0, <2>2, <3>4 DEF surroundings, KubeTypeOK
    <3>9. QED
      BY <3>4, <3>5, <3>7, <3>8 DEF Others
  <2>5. QED
    BY <1>11, <2>3, <2>4 DEF listBindings
<1>12. ASSUME NEW r \in Reconcilers, NEW g \in Scopes, applyOne(r, g) PROVE KubeTypeOK' /\ Others'
  <2> DEFINE p == recon[r].plan
             kind == Kind(p)
             end == IF kind = "delete" THEN 0 ELSE recon[r].want[g]
             o == [scope |-> g, end |-> end]
             f == recon[r].failed \/ ~Reaches(r)
             l == IF Reaches(r) THEN "sent" ELSE "apply"
             y == [recon[r] EXCEPT !.plan[kind] = @ \ {g}, !.op = o, !.failed = f, !.pc = l]
  <2>1. recon[r] \in Reconciles /\ recon[r].want[g] \in Ends /\ p \in Plans
    BY <1>0, ReconcileFields DEF KubeTypeOK
  <2>2. recon[r].pc = "apply" /\ g \in p[kind] /\ recon' = [recon EXCEPT ![r] = y]
        /\ UNCHANGED <<surroundings, bound, klock, adrift, faults, since, astray>>
    BY <1>12 DEF applyOne
  <2>3. kind \in {"create", "update", "delete"} /\ [p EXCEPT ![kind] = @ \ {g}] \in Plans
    BY <2>1 DEF Plans, Kind
  <2>4. o \in Operations /\ o.scope = g /\ o.end = end /\ end \in Ends
    BY <2>1 DEF Operations
  <2>5. f \in BOOLEAN /\ l \in ReconcilePcs /\ l \in {"sent", "apply"} /\ (l = "apply" => f)
    BY DEF ReconcilePcs
  <2>6. \A h \in Scopes : h # g => ((h \in [p EXCEPT ![kind] = @ \ {g}].create <=> h \in p.create)
              /\ (h \in [p EXCEPT ![kind] = @ \ {g}].update <=> h \in p.update)
              /\ (h \in [p EXCEPT ![kind] = @ \ {g}].delete <=> h \in p.delete))
    BY <2>1, <2>3 DEF Plans
  <2>7. (g \in [p EXCEPT ![kind] = @ \ {g}].delete => g \in p.delete) /\ (kind = "delete" => g \in p.delete)
    BY <2>1, <2>2, <2>3 DEF Plans
  <2>8. y \in Reconciles /\ y.pc = l /\ y.want = recon[r].want /\ y.op = o /\ y.failed = f
        /\ y.plan = [p EXCEPT ![kind] = @ \ {g}]
    <3> HIDE DEF kind, o, f, l
    <3>1. QED
      BY <2>1, <2>3, <2>4, <2>5 DEF Reconciles
  <2> HIDE DEF y, kind, o, f, l
  <2>9. /\ recon' \in [Reconcilers -> Reconciles] /\ recon'[r] = y
        /\ \A q \in Reconcilers : q # r => recon'[q].pc \in {"idle", "conn", "lock"}
        /\ OneReconcile'
    BY <2>2, <2>8, InsideSteps
  <2>10. ListMachinePermissions' = ListMachinePermissions
    BY <2>2 DEF ListMachinePermissions, surroundings
  <2>11. WantIsListed'
    BY <1>0, <2>2, <2>5, <2>8, <2>9, <2>10 DEF WantIsListed, Settled, Applying
  <2>12. PlanLeadsThere'
    <3>1. ASSUME NEW h \in Settled(r)
          PROVE  /\ h \in y.plan.delete => recon[r].want[h] = 0
                 /\ l = "sent" /\ g = h => end = recon[r].want[h]
                 /\ h \notin y.plan.create \cup y.plan.update \cup y.plan.delete /\ ~f /\ ~(l = "sent" /\ g = h)
                      => bound[h] = recon[r].want[h]
      <4>1. /\ h \in p.delete => recon[r].want[h] = 0
            /\ h \notin p.create \cup p.update \cup p.delete /\ ~recon[r].failed => bound[h] = recon[r].want[h]
        BY <1>0, <2>2 DEF PlanLeadsThere, Planned, Applying, UnderWay
      <4>2. CASE h = g
        BY <2>5, <2>7, <2>8, <4>1, <4>2
      <4>3. CASE h # g
        BY <2>6, <2>8, <4>1, <4>3 DEF Settled, f
      <4>4. QED
        BY <4>2, <4>3
    <3>2. Settled(r)' = Settled(r) /\ (Planned(r))' = y.plan.create \cup y.plan.update \cup y.plan.delete
          /\ \A h : UnderWay(r, h)' <=> l = "sent" /\ g = h
      BY <2>2, <2>4, <2>8, <2>9 DEF Planned, UnderWay, Settled
    <3>3. /\ recon'[r].op.end = end /\ recon'[r].want = recon[r].want /\ recon'[r].failed = f
          /\ recon'[r].plan = y.plan /\ bound' = bound
          /\ \A q \in Reconcilers : Applying(q)' => q = r
      BY <2>2, <2>4, <2>8, <2>9 DEF Applying
    <3> HIDE DEF end
    <3>4. QED
      BY <3>1, <3>2, <3>3 DEF PlanLeadsThere
  <2>13. ReconciledIsInSync' /\ SentIsOperation'
    BY <1>0, <2>4, <2>5, <2>8, <2>9 DEF ReconciledIsInSync, SentIsOperation
  <2>14. KubeTypeOK'
    BY <1>0, <2>2, <2>9 DEF surroundings, KubeTypeOK
  <2>15. QED
    BY <2>9, <2>11, <2>12, <2>13, <2>14 DEF Others
<1>13. ASSUME NEW r \in Reconcilers, planDone(r) PROVE KubeTypeOK' /\ Others'
  <2> DEFINE y == [recon[r] EXCEPT !.pc = "finish"]
  <2>1. recon[r] \in Reconciles /\ recon' = [recon EXCEPT ![r] = y]
    BY <1>0, <1>13 DEF planDone, Go, KubeTypeOK
  <2>2. y \in Reconciles /\ y.pc = "finish" /\ y.want = recon[r].want /\ y.failed = recon[r].failed
    BY <2>1, ReconcileGoes DEF ReconcilePcs
  <2> HIDE DEF y
  <2>3. /\ recon' \in [Reconcilers -> Reconciles] /\ recon'[r] = y
        /\ \A q \in Reconcilers : q # r => recon'[q].pc \in {"idle", "conn", "lock"}
        /\ OneReconcile'
    BY <1>13, <2>1, <2>2, InsideSteps DEF planDone
  <2>4. ListMachinePermissions' = ListMachinePermissions /\ since' = since /\ astray' = astray /\ bound' = bound
    BY <1>13 DEF planDone, ListMachinePermissions, surroundings
  <2>5. WantIsListed' /\ PlanLeadsThere' /\ SentIsOperation'
    BY <1>0, <1>13, <2>2, <2>3, <2>4 DEF WantIsListed, PlanLeadsThere, planDone, Applying, Settled, SentIsOperation
  <2>6. Planned(r) = {}
    BY <1>13 DEF planDone, Planned, NoPlan
  <2>7. ReconciledIsInSync'
    BY <1>0, <1>13, <2>2, <2>3, <2>4, <2>6 DEF WantIsListed, PlanLeadsThere, ReconciledIsInSync,
       InSync, planDone, Applying, Settled, UnderWay
  <2>8. KubeTypeOK'
    BY <1>0, <1>13, <2>3 DEF planDone, surroundings, KubeTypeOK
  <2>9. QED
    BY <2>3, <2>5, <2>7, <2>8 DEF Others
<1>16. ASSUME NEW r \in Reconcilers, runKubeOp(r) PROVE KubeTypeOK' /\ Others'
  <2>1. recon[r] \in Reconciles /\ recon[r].op \in Operations /\ recon[r].pc = "sent"
        /\ recon[r].op.scope \in Scopes /\ recon[r].op.end \in Ends
    BY <1>0, <1>16 DEF runKubeOp, KubeTypeOK, SentIsOperation, Operations
  <2>2. UNCHANGED <<surroundings, klock, adrift, since, astray>> /\ ListMachinePermissions' = ListMachinePermissions
    BY <1>16 DEF runKubeOp, surroundings, ListMachinePermissions
  <2>3. CASE Written(recon[r].op) /\ Go(r, "landed")
    <3> DEFINE y == [recon[r] EXCEPT !.pc = "landed"]
    <3>1. y \in Reconciles /\ y.pc = "landed" /\ y.want = recon[r].want /\ y.failed = recon[r].failed /\ y.plan = recon[r].plan
      BY <2>1, ReconcileGoes DEF ReconcilePcs
    <3>2. recon' = [recon EXCEPT ![r] = y]
      BY <2>3 DEF Go
    <3> HIDE DEF y
    <3>3. /\ recon' \in [Reconcilers -> Reconciles] /\ recon'[r] = y
          /\ \A q \in Reconcilers : q # r => recon'[q].pc \in {"idle", "conn", "lock"}
          /\ OneReconcile'
      BY <2>1, <2>2, <3>1, <3>2, InsideSteps
    <3>4. bound' \in [Scopes -> Ends] /\ bound'[recon[r].op.scope] = recon[r].op.end
          /\ \A h \in Scopes : h # recon[r].op.scope => bound'[h] = bound[h]
      BY <1>0, <2>1, <2>3 DEF Written, KubeTypeOK
    <3>5. WantIsListed' /\ SentIsOperation' /\ ReconciledIsInSync'
      BY <1>0, <2>1, <2>2, <3>1, <3>3 DEF WantIsListed, Applying, Settled, SentIsOperation, ReconciledIsInSync
    <3>6. PlanLeadsThere'
      BY <1>0, <2>1, <2>2, <3>1, <3>3, <3>4 DEF PlanLeadsThere, Planned, UnderWay, Applying, Settled
    <3>7. KubeTypeOK'
      BY <1>0, <2>2, <3>3, <3>4 DEF surroundings, KubeTypeOK
    <3>8. QED
      BY <3>3, <3>5, <3>6, <3>7 DEF Others
  <2>4. CASE UNCHANGED bound /\ recon' = [recon EXCEPT ![r].pc = "apply", ![r].failed = TRUE]
    <3>1. UNCHANGED <<surroundings, bound, klock, since, astray>> /\ adrift' \subseteq Operations
      BY <1>0, <2>2, <2>4 DEF KubeTypeOK
    <3>2. QED
      BY <2>1, <2>4, <3>1, GivesUpStep
  <2>5. QED
    BY <1>16, <2>3, <2>4 DEF runKubeOp
<1>17. ASSUME NEW r \in Reconcilers, opLost(r) PROVE KubeTypeOK' /\ Others'
  <2>1. UNCHANGED <<surroundings, bound, klock, since, astray>> /\ adrift' \subseteq Operations
    BY <1>0, <1>17 DEF opLost, KubeTypeOK, SentIsOperation
  <2>2. QED
    BY <1>17, <2>1, GivesUpStep DEF opLost
<1>18. ASSUME NEW r \in Reconcilers, opAnswered(r) PROVE KubeTypeOK' /\ Others'
  <2> DEFINE y == [recon[r] EXCEPT !.pc = "apply"]
  <2>1. recon[r] \in Reconciles /\ recon[r].pc = "landed" /\ recon' = [recon EXCEPT ![r] = y]
        /\ UNCHANGED <<surroundings, bound, klock, adrift, since, astray>>
    BY <1>0, <1>18 DEF opAnswered, Go, KubeTypeOK
  <2>2. y \in Reconciles /\ y.pc = "apply" /\ y.want = recon[r].want /\ y.failed = recon[r].failed /\ y.plan = recon[r].plan
    BY <2>1, ReconcileGoes DEF ReconcilePcs
  <2> HIDE DEF y
  <2>3. /\ recon' \in [Reconcilers -> Reconciles] /\ recon'[r] = y
        /\ \A q \in Reconcilers : q # r => recon'[q].pc \in {"idle", "conn", "lock"}
        /\ OneReconcile'
    BY <2>1, <2>2, InsideSteps
  <2>4. ListMachinePermissions' = ListMachinePermissions
    BY <2>1 DEF ListMachinePermissions, surroundings
  <2>5. WantIsListed' /\ PlanLeadsThere' /\ SentIsOperation' /\ ReconciledIsInSync'
    BY <1>0, <2>1, <2>2, <2>3, <2>4 DEF WantIsListed, PlanLeadsThere, Planned, UnderWay, Applying, Settled,
       SentIsOperation, ReconciledIsInSync
  <2>6. KubeTypeOK'
    BY <1>0, <2>1, <2>3 DEF surroundings, KubeTypeOK
  <2>7. QED
    BY <2>3, <2>5, <2>6 DEF Others
<1>19. ASSUME NEW op \in adrift, adriftEnds(op) PROVE KubeTypeOK' /\ Others'
  <2>1. op.scope \in Scopes /\ op.end \in Ends
    BY <1>0 DEF KubeTypeOK, Operations
  <2>2. ListMachinePermissions' = ListMachinePermissions /\ UNCHANGED <<surroundings, recon, klock, since>>
    BY <1>19 DEF adriftEnds, ListMachinePermissions, surroundings
  <2>3. adrift' \subseteq Operations /\ bound' \in [Scopes -> Ends] /\ astray' \in [Reconcilers -> SUBSET Scopes]
    BY <1>0, <1>19, <2>1 DEF adriftEnds, Written, KubeTypeOK
  <2>4. StepIsOutside({op.scope}) \/ StepIsOutside({})
    BY <1>0, <1>19, <2>1, <2>2 DEF adriftEnds, Written, StepIsOutside, KubeTypeOK
  <2>5. Others'
    BY <2>1, <2>4, OutsideSteps
  <2>6. KubeTypeOK'
    BY <1>0, <2>2, <2>3 DEF surroundings, KubeTypeOK
  <2>7. QED
    BY <2>5, <2>6
<1>14. CASE UNCHANGED kubeVars
  BY <1>0, <1>14, QuietSteps DEF kubeVars, surroundings, KubeTypeOK
<1>15. QED
  BY <1>1, <1>2, <1>3, <1>4, <1>5, <1>6, <1>7, <1>8, <1>9, <1>10, <1>11, <1>12, <1>13, <1>14,
     <1>16, <1>17, <1>18, <1>19 DEF KubeNext, ReconcileSteps

\* The invariant holds of every behaviour of the reconciler.
THEOREM KubeInvariant == KubeSpec => []KubeInv
<1>1. KubeInit => KubeInv
  <2> SUFFICES ASSUME KubeInit PROVE KubeInv
    OBVIOUS
  <2> USE KubeNumbers DEF KubeInit
  <2>1. Idle \in Reconciles /\ Idle.pc = "idle"
    BY DEF Idle, NoPlan, NoOp, Reconciles, Plans, ReconcilePcs
  <2>2. recon \in [Reconcilers -> Reconciles] /\ \A r \in Reconcilers : recon[r].pc = "idle"
    BY <2>1
  <2>3. KubeTypeOK
    <3>1. {0, KubeTime} \subseteq Ends /\ {0, KubeTime + 1} \subseteq Ends
      BY DEF Ends
    <3>2. granted \in [Scopes -> Ends] /\ bound \in [Scopes -> Ends]
      BY <3>1
    <3>3. marked \in BOOLEAN
      OBVIOUS
    <3>4. /\ minute \in 0 .. KubeTime /\ drops \in 0 .. MaxDrops /\ kconn \in 0 .. MaxDrops + 1
          /\ announce \subseteq 1 .. MaxDrops + 1 /\ sweep \subseteq Scopes
          /\ klock \in Reconcilers \cup {Nobody}
      OBVIOUS
    <3>5. since \in [Reconcilers -> SUBSET Scopes] /\ astray \in [Reconcilers -> SUBSET Scopes]
          /\ adrift \subseteq Operations
      OBVIOUS
    <3>6. QED
      BY <2>2, <3>2, <3>3, <3>4, <3>5 DEF KubeTypeOK
  <2>4. QED
    BY <2>2, <2>3 DEF KubeInv, ReconcileIsSound, OneReconcile, WantIsListed, PlanLeadsThere, Applying,
       SentIsOperation, ReconciledIsInSync
<1>2. QED
  BY <1>1, KubeStep, PTL DEF KubeSpec

\* ReconcileIsSound: a reconcile that ends without an error leaves every
\* binding as its grant says, whatever ran beside it (kube.go:111-160).
THEOREM ReconcileStaysSound == KubeSpec => []ReconcileIsSound
  BY KubeInvariant, PTL DEF KubeInv

==============================================================================
