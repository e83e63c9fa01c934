------------------------------- MODULE Tunnels -------------------------------
(***************************************************************************)
(* Relayed connections (RDP, VNC and kubectl) of one client SSH connection  *)
(* to one machine: the gateway's handler and relay (pkg/server/tunnel.go,   *)
(* handleClientKube in pkg/server/kube.go), the slots and the grant cache   *)
(* of the client connection (pkg/server/resilience.go), and the agent's     *)
(* handler, slots and relay (pkg/agent/tunnel.go, pkg/agent/kube.go).  Each *)
(* tunnel has a goroutine at the gateway and one at the agent, and each     *)
(* relay two copying goroutines.  A peer may end its direction and never    *)
(* close the other, and the agent's connection may go at any moment.        *)
(***************************************************************************)
EXTENDS Naturals, FiniteSets

CONSTANTS
    TunnelIds,
    Kubectl,      \* those that are kubectl connections
    MaxTunnels,   \* maxClientTunnels: slots of the client connection
    AgentSlots,   \* maxTunnels: slots of the agent
    GrantTTL,     \* grantCacheTTL
    TunnelTime    \* bound of the clock

ASSUME TunnelAssumption ==
    /\ IsFiniteSet(TunnelIds) /\ Kubectl \subseteq TunnelIds
    /\ {MaxTunnels, AgentSlots, GrantTTL} \subseteq Nat \ {0}
    /\ TunnelTime \in Nat

VARIABLES
    now,          \* the clock
    tgrant,       \* the access types of which the store holds a grant
    cached,       \* clientConn.grants: until when a grant counts as confirmed
    slots,        \* clientConn.slots in use
    aslots,       \* the agent's tunnelSlots in use
    adraining,    \* the agent drains
    gw,           \* the gateway's handler of each tunnel
    ag,           \* the agent's handler of each tunnel
    lost,         \* the tunnels whose agent connection has gone
    ended,        \* the peers that ended their direction: "client", "service"
    half,         \* the copying goroutines that ended
    \* what the properties remember
    last,         \* when the store last held the grant of an access type
    late,         \* a grant went while a check of it was on its way to the cache
    worst         \* the longest time after which a gone grant still let one in

tunnelVars == <<now, tgrant, cached, slots, aslots, adraining, gw, ag, lost, ended, half, last, late, worst>>
permVars == <<tgrant, cached, last, late, worst>>

\* The access types, by which the cache is keyed for one machine.
GrantKeys == {"rdp", "k8s"}
grantKey(t) == IF t \in Kubectl THEN "k8s" ELSE "rdp"

TunnelsTypeOK ==
    /\ now \in 0 .. TunnelTime /\ tgrant \subseteq GrantKeys
    /\ cached \in [GrantKeys -> 0 .. TunnelTime + GrantTTL]
    /\ slots \in 0 .. MaxTunnels /\ aslots \in 0 .. AgentSlots
    /\ gw \in [TunnelIds -> {"idle", "lookup", "check", "remember", "agent", "opening",
                             "accept", "relay", "done"}]
    /\ ag \in [TunnelIds -> {"none", "asked", "dial", "accepted", "relay", "done"}]
    /\ ended \in [TunnelIds -> SUBSET {"client", "service"}]
    /\ half \in [TunnelIds -> SUBSET {"gwUp", "gwDown", "agUp", "agDown"}]
    /\ lost \subseteq TunnelIds

TunnelsInit ==
    /\ now = 0 /\ tgrant = GrantKeys /\ cached = [k \in GrantKeys |-> 0]
    /\ slots = 0 /\ aslots = 0 /\ adraining = FALSE
    /\ gw = [t \in TunnelIds |-> "idle"]
    /\ ag = [t \in TunnelIds |-> "none"]
    /\ lost = {}
    /\ ended = [t \in TunnelIds |-> {}]
    /\ half = [t \in TunnelIds |-> {}]
    /\ last = [k \in GrantKeys |-> 0] /\ late = FALSE /\ worst = 0

Gateway(t, l) == gw' = [gw EXCEPT ![t] = l]
Agent(t, l) == ag' = [ag EXCEPT ![t] = l]

\* Mutant: the slot is kept.
release_Kept(t) == UNCHANGED slots

\* The deferred release of the slot.
release(t) == slots' = slots - 1

\* The gateway's handler returns; the channels it opened are closed.
Leave(t) == Gateway(t, "done") /\ release(t)

GatewayClosed(t) == gw[t] = "done" \/ t \in lost
AgentClosed(t) == ag[t] = "done" \/ t \in lost

-----------------------------------------------------------------------------
\* The surroundings

TunnelTick ==
    /\ now < TunnelTime
    /\ now' = now + 1
    /\ last' = [k \in GrantKeys |-> IF k \in tgrant THEN now + 1 ELSE last[k]]
    /\ UNCHANGED <<tgrant, cached, slots, aslots, adraining, gw, ag, lost, ended, half, late, worst>>

\* A grant is revoked or runs out, or is given again.
grantChanges(k) ==
    /\ tgrant' = IF k \in tgrant THEN tgrant \ {k} ELSE tgrant \cup {k}
    /\ late' = (late \/ (k \in tgrant /\ \E t \in TunnelIds : grantKey(t) = k /\ gw[t] = "remember"))
    /\ last' = [last EXCEPT ![k] = now]
    /\ UNCHANGED <<now, cached, slots, aslots, adraining, gw, ag, lost, ended, half, worst>>

drainStarts ==
    /\ ~adraining /\ adraining' = TRUE
    /\ UNCHANGED <<now, permVars, slots, aslots, gw, ag, lost, ended, half>>

\* The agent's connection goes, with every channel on it.
agentLost ==
    /\ lost' = lost \cup {t \in TunnelIds : ag[t] \notin {"none", "done"} \/ gw[t] = "opening"}
    /\ lost' # lost
    /\ UNCHANGED <<now, permVars, slots, aslots, adraining, gw, ag, ended, half>>

\* The client ends its direction; it need not close.
clientEnds(t) ==
    /\ "client" \notin ended[t]
    /\ ended' = [ended EXCEPT ![t] = @ \cup {"client"}]
    /\ UNCHANGED <<now, permVars, slots, aslots, adraining, gw, ag, lost, half>>

serviceEnds(t) ==
    /\ ag[t] = "relay" /\ "service" \notin ended[t]
    /\ ended' = [ended EXCEPT ![t] = @ \cup {"service"}]
    /\ UNCHANGED <<now, permVars, slots, aslots, adraining, gw, ag, lost, half>>

-----------------------------------------------------------------------------
\* The gateway: handleClientTunnel and handleClientKube

\* acquire takes a slot, or the channel is rejected.
acquire(t) ==
    /\ gw[t] = "idle" /\ "client" \notin ended[t]
    /\ IF slots < MaxTunnels THEN slots' = slots + 1 /\ Gateway(t, "lookup")
                             ELSE Gateway(t, "done") /\ UNCHANGED slots
    /\ UNCHANGED <<now, permVars, aslots, adraining, ag, lost, ended, half>>

\* A connection that was refused is tried again.
tryAgain(t) ==
    /\ gw[t] = "done" /\ ag[t] \in {"none", "done"} /\ ended[t] = {}
    /\ Gateway(t, "idle") /\ Agent(t, "none")
    /\ half' = [half EXCEPT ![t] = {}]
    /\ lost' = lost \ {t}
    /\ UNCHANGED <<now, permVars, slots, aslots, adraining, ended>>

\* Mutant: what was allowed once stays allowed.
allowed_Ever(k) == cached[k] > 0

\* allowed: the grant was confirmed less than GrantTTL ago.
allowed(k) == now < cached[k]

\* A tunnel is let through: how long ago the store held the grant.
LetIn(k) == worst' = IF now - last[k] > worst THEN now - last[k] ELSE worst

\* The machine is looked up, which may fail; a grant in the cache spares the
\* check.
lookUpMachine(t) ==
    /\ gw[t] = "lookup"
    /\ \/ Leave(t) /\ UNCHANGED worst
       \/ /\ IF allowed(grantKey(t)) THEN Gateway(t, "agent") /\ LetIn(grantKey(t))
                                 ELSE Gateway(t, "check") /\ UNCHANGED worst
          /\ UNCHANGED slots
    /\ UNCHANGED <<now, tgrant, cached, last, late, aslots, adraining, ag, lost, ended, half>>

\* CheckTunnelPermission, CheckExactAccess: the store decides.
checkPermission(t) ==
    /\ gw[t] = "check"
    /\ IF grantKey(t) \in tgrant THEN Gateway(t, "remember") /\ UNCHANGED slots ELSE Leave(t)
    /\ UNCHANGED <<now, permVars, aslots, adraining, ag, lost, ended, half>>

\* remember: from now on, not from when the store was asked.
remember(t) ==
    /\ gw[t] = "remember"
    /\ cached' = [cached EXCEPT ![grantKey(t)] = now + GrantTTL]
    /\ Gateway(t, "agent") /\ LetIn(grantKey(t))
    /\ UNCHANGED <<now, tgrant, last, late, slots, aslots, adraining, ag, lost, ended, half>>

\* The registry is asked for the agent, and the agent for a channel.
openAgentChannel(t) ==
    /\ gw[t] = "agent"
    /\ \/ Leave(t) /\ UNCHANGED ag
       \/ Gateway(t, "opening") /\ Agent(t, "asked") /\ UNCHANGED slots
    /\ UNCHANGED <<now, permVars, aslots, adraining, lost, ended, half>>

\* The agent answers, or its connection goes.
agentAnswered(t) ==
    /\ gw[t] = "opening"
    /\ \/ ag[t] \in {"accepted", "relay"} /\ ~AgentClosed(t) /\ Gateway(t, "accept") /\ UNCHANGED slots
       \/ AgentClosed(t) /\ Leave(t)
    /\ UNCHANGED <<now, permVars, aslots, adraining, ag, lost, ended, half>>

\* The client's channel is accepted, or its connection has gone and the
\* agent's channel is closed.
acceptClient(t) ==
    /\ gw[t] = "accept"
    /\ \/ Gateway(t, "relay") /\ UNCHANGED slots
       \/ Leave(t)
    /\ UNCHANGED <<now, permVars, aslots, adraining, ag, lost, ended, half>>

EndHalf(t, h) == half' = [half EXCEPT ![t] = @ \cup {h}]

\* copyHalf: from the client to the agent, and back.
copyHalf(t, h) ==
    /\ gw[t] = "relay" /\ h \notin half[t]
    /\ \/ h = "gwUp" /\ ("client" \in ended[t] \/ AgentClosed(t))
       \/ h = "gwDown" /\ ("agDown" \in half[t] \/ AgentClosed(t))
    /\ EndHalf(t, h)
    /\ UNCHANGED <<now, permVars, slots, aslots, adraining, gw, ag, lost, ended>>

\* One direction ended: the other ends too or the drain timer fires.
relayEnds(mine) == mine # {}

\* relayChannels closes both channels, and the handler returns.
relayChannels(t) ==
    /\ gw[t] = "relay" /\ relayEnds(half[t] \cap {"gwUp", "gwDown"})
    /\ Leave(t)
    /\ UNCHANGED <<now, permVars, aslots, adraining, ag, lost, ended, half>>

-----------------------------------------------------------------------------
\* The agent: handleTunnel and handleKube

AgentLeave(t) == Agent(t, "done") /\ aslots' = IF t \in Kubectl THEN aslots ELSE aslots - 1

\* handleTunnel takes a slot, or refuses; a kubectl connection takes none.
takeAgentSlot(t) ==
    /\ ag[t] = "asked"
    /\ IF t \in Kubectl THEN Agent(t, "dial") /\ UNCHANGED aslots
       ELSE IF aslots < AgentSlots THEN Agent(t, "dial") /\ aslots' = aslots + 1
       ELSE Agent(t, "done") /\ UNCHANGED aslots
    /\ UNCHANGED <<now, permVars, slots, adraining, gw, lost, ended, half>>

\* A draining agent refuses, and so does one without the service; the others
\* connect to it and accept the channel.
dialService(t) ==
    /\ ag[t] = "dial"
    /\ \/ AgentLeave(t)
       \/ ~adraining /\ t \notin lost /\ Agent(t, "accepted") /\ UNCHANGED aslots
    /\ UNCHANGED <<now, permVars, slots, adraining, gw, lost, ended, half>>

\* begin counts the tunnel as work, or finds that a drain began meanwhile.
beginWork(t) ==
    /\ ag[t] = "accepted"
    /\ IF adraining THEN AgentLeave(t) ELSE Agent(t, "relay") /\ UNCHANGED aslots
    /\ UNCHANGED <<now, permVars, slots, adraining, gw, lost, ended, half>>

\* The agent's copies: from the gateway to the service, and back.
agentCopies(t, h) ==
    /\ ag[t] = "relay" /\ h \notin half[t]
    /\ \/ h = "agUp" /\ ("gwUp" \in half[t] \/ GatewayClosed(t))
       \/ h = "agDown" /\ "service" \in ended[t]
    /\ EndHalf(t, h)
    /\ UNCHANGED <<now, permVars, slots, aslots, adraining, gw, ag, lost, ended>>

\* The service sends and the channel is closed.
agentWriteFails(t) ==
    /\ ag[t] = "relay" /\ "agDown" \notin half[t] /\ GatewayClosed(t)
    /\ EndHalf(t, "agDown")
    /\ UNCHANGED <<now, permVars, slots, aslots, adraining, gw, ag, lost, ended>>

\* Both directions ended, or one has and the timer fires.  kubectl's server
\* ends with its stream.
agentRelayEnds(t) ==
    /\ ag[t] = "relay" /\ relayEnds(half[t] \cap {"agUp", "agDown"})
    /\ AgentLeave(t)
    /\ UNCHANGED <<now, permVars, slots, adraining, gw, lost, ended, half>>

-----------------------------------------------------------------------------
\* The steps of the gateway's handlers after the slot is taken, and of the
\* agent's: a kubectl connection goes through the same ones.
GatewaySteps(t) ==
    \/ lookUpMachine(t) \/ checkPermission(t) \/ remember(t) \/ openAgentChannel(t)
    \/ agentAnswered(t) \/ acceptClient(t) \/ relayChannels(t)
    \/ \E h \in {"gwUp", "gwDown"} : copyHalf(t, h)
AgentSteps(t) ==
    \/ takeAgentSlot(t) \/ dialService(t) \/ beginWork(t) \/ agentRelayEnds(t)
    \/ \E h \in {"agUp", "agDown"} : agentCopies(t, h)

handleClientTunnel(t) == t \notin Kubectl /\ GatewaySteps(t)
handleClientKube(t)   == t \in Kubectl /\ GatewaySteps(t)
handleTunnel(t)       == t \notin Kubectl /\ AgentSteps(t)
handleKube(t)         == t \in Kubectl /\ AgentSteps(t)

TunnelSteps(t) ==
    handleClientTunnel(t) \/ handleClientKube(t) \/ handleTunnel(t) \/ handleKube(t)

TunnelsNext ==
    \/ TunnelTick \/ (\E k \in GrantKeys : grantChanges(k)) \/ drainStarts \/ agentLost
    \/ \E t \in TunnelIds :
          clientEnds(t) \/ serviceEnds(t) \/ acquire(t) \/ tryAgain(t)
          \/ agentWriteFails(t) \/ TunnelSteps(t)

TunnelsSpec == TunnelsInit /\ [][TunnelsNext]_tunnelVars

-----------------------------------------------------------------------------
\* Properties

\* While every client that came has ended its direction, or was turned away,
\* all slots of the connection and of the agent come back, although the
\* services and the clients never close: no path through either handler keeps
\* a slot, and a half-closed relay does not last (resilience.go:119-128,
\* tunnel.go:139-161, agent/tunnel.go:26-91).
Quiet == \A t \in TunnelIds : gw[t] = "idle" \/ "client" \in ended[t]
SlotsComeBack == Quiet ~> ((slots = 0 /\ aslots = 0) \/ ~Quiet)

\* A grant that is gone lets tunnels in for less than GrantTTL, unless it went
\* between a check and the writing of its result into the cache: then the
\* cache starts to count when it is written (resilience.go:27-32, 136-141).
StaleGrantIsBounded == ~late => worst < GrantTTL

\* What the gateway's cache of grants may let in.
TunnelGrantsHold == TunnelsTypeOK /\ StaleGrantIsBounded
===============================================================================
