------------------------------- MODULE MCLinks -------------------------------
(***************************************************************************)
(* What is kept open and has to come back or be given back, checked in one *)
(* run: tunnels and their slots, the client's link, the agent's link, the   *)
(* viewers of a live session, and the bindings of Kubernetes grants.  The   *)
(* parts share no state, so a behaviour chooses one of them and only that   *)
(* one moves.                                                               *)
(***************************************************************************)
EXTENDS Tunnels, ClientLink, AgentLink, LiveWatch, KubeReconcile

VARIABLE part

linksVars == <<part, tunnelVars, linkVars, allLinkVars, vars, kubeVars>>

Parts == {"tunnel", "kubectl", "client", "agent", "watch", "kube"}

LinksInit ==
    /\ part \in Parts
    /\ TunnelsInit /\ ClientLinkInit /\ LinkInit /\ Init /\ KubeInit
    /\ part # "kube" => \A g \in Scopes : granted[g] = 0 /\ bound[g] = 0

\* One tunnel moves; grants that come and go, and tunnels that compete for
\* slots, are for the run of the gateway.
RelaysNext(ts) ==
    /\ TunnelsNext /\ UNCHANGED <<now, tgrant>>
    /\ \A t \in TunnelIds \ ts : gw'[t] = "idle"

LinksNext ==
    \/ part = "tunnel" /\ RelaysNext(TunnelIds \ Kubectl) /\ UNCHANGED <<part, linkVars, allLinkVars, vars, kubeVars>>
    \/ part = "kubectl" /\ RelaysNext(Kubectl) /\ UNCHANGED <<part, linkVars, allLinkVars, vars, kubeVars>>
    \/ part = "client" /\ ClientLinkNext /\ UNCHANGED <<part, tunnelVars, allLinkVars, vars, kubeVars>>
    \/ part = "agent" /\ LinkNext /\ UNCHANGED <<part, tunnelVars, linkVars, vars, kubeVars>>
    \/ part = "watch" /\ Next /\ UNCHANGED <<part, tunnelVars, linkVars, allLinkVars, kubeVars>>
    \/ part = "kube" /\ KubeNext /\ UNCHANGED <<part, tunnelVars, linkVars, allLinkVars, vars>>

\* Every goroutine of the chosen part that can move does; a connection that
\* is tried again and again while the other side answers is made.
TunnelFairness ==
    \A t \in TunnelIds : WF_tunnelVars(part \in {"tunnel", "kubectl"} /\ TunnelSteps(t))

ClientFairness ==
    /\ \A k \in Conns :
          /\ WF_linkVars(part = "client" /\ keepClientAlive(k))
          /\ WF_linkVars(part = "client" /\ watcher(k))
          /\ WF_linkVars(part = "client" /\ redialled(k))
    /\ \A c \in Callers : WF_linkVars(part = "client" /\ CallerSteps(c))
    /\ \A s \in Streams : WF_linkVars(part = "client" /\ (openStream(s) \/ openWait(s)))
    /\ WF_linkVars(part = "client" /\ probe)
    /\ WF_linkVars(part = "client" /\ closeLink) /\ WF_linkVars(part = "client" /\ closeReturns)

AgentFairness ==
    /\ WF_allLinkVars(part = "agent" /\ StartLoop)
    /\ WF_allLinkVars(part = "agent" /\ Stopping)
    /\ \A c \in AgentConns : WF_allLinkVars(part = "agent" /\ (Ended(c) \/ SignalDropped(c)))
    /\ WF_allLinkVars(part = "agent" /\ Recovery)

WatchFairness ==
    /\ WF_vars(part = "watch" /\ (StopRecording \/ CloseSession \/ DeleteRecorder))
    /\ \A w \in Watchers : WF_vars(part = "watch" /\ Watch(w))

KubeFairness ==
    /\ WF_kubeVars(part = "kube" /\ KubeTick) /\ WF_kubeVars(part = "kube" /\ agentConnects)
    /\ WF_kubeVars(part = "kube" /\ runKubeReconcileLoop)
    /\ WF_kubeVars(part = "kube" /\ sweepKube)
    /\ \A r \in Reconcilers : WF_kubeVars(part = "kube" /\ ReconcileSteps(r))
    /\ \A g \in Scopes : WF_kubeVars(part = "kube" /\ sweepDelete(g))
    /\ WF_kubeVars(part = "kube" /\ \E k \in announce : markKubernetes(k))
    /\ WF_kubeVars(part = "kube" /\ \E op \in adrift : adriftEnds(op))

LinksSpec ==
    /\ LinksInit /\ [][LinksNext]_linksVars
    /\ TunnelFairness /\ ClientFairness /\ AgentFairness /\ WatchFairness /\ KubeFairness
==============================================================================
