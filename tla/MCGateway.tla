------------------------------ MODULE MCGateway ------------------------------
(***************************************************************************)
(* What the gateway does for its clients' connections, checked for safety  *)
(* in one run: sessions and their drain, tunnels with the grants that open  *)
(* them and the slots they take, and the bindings of Kubernetes grants.     *)
(* The parts share no state, so a behaviour chooses one of them and only    *)
(* that one moves.                                                          *)
(***************************************************************************)
EXTENDS GatewaySession, Tunnels, KubeReconcile

VARIABLE part

gatewayVars == <<part, vars, tunnelVars, kubeVars>>

\* A tunnel's grant is checked in one part and its relay in another.
Parts == {"sessions", "grants", "relays", "kube"}

GatewayInit ==
    /\ part \in Parts
    /\ Init /\ TunnelsInit /\ KubeInit
    /\ part # "kube" => \A g \in Scopes : granted[g] = 0 /\ bound[g] = 0

GrantsNext == TunnelsNext /\ UNCHANGED <<ag, lost, ended, adraining>>
RelaysNext == TunnelsNext /\ UNCHANGED <<now, tgrant>>

GatewayNext ==
    /\ UNCHANGED part
    /\ \/ part = "sessions" /\ Next /\ UNCHANGED <<tunnelVars, kubeVars>>
       \/ part = "grants" /\ GrantsNext /\ UNCHANGED <<vars, kubeVars>>
       \/ part = "relays" /\ RelaysNext /\ UNCHANGED <<vars, kubeVars>>
       \/ part = "kube" /\ KubeNext /\ UNCHANGED <<vars, tunnelVars>>

GatewaySpec == GatewayInit /\ [][GatewayNext]_gatewayVars
==============================================================================
