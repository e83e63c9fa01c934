------------------------------- MODULE MCAccess -------------------------------
(***************************************************************************)
(* Access to machines, checked for safety in one run: requests and grants   *)
(* as calls change them, what users and administrators are shown of them,   *)
(* and the policy that decides requests.  The parts share no state, so a    *)
(* behaviour chooses one of them and only that one moves.                   *)
(***************************************************************************)
EXTENDS AccessGrants, AccessViews, RequestRouting

VARIABLE part

accessVars == <<part, vars, viewVars, routingVars>>

\* Calls on grants without a rejection, and decisions without an edit, are
\* parts of their own; the pair's other access types, which touch only the
\* tuple, go with the decisions, since no edit touches it.
Parts == {"grants", "decisions", "views", "routing"}

\* Two machines.
TwoMachines == <<"m1", "m2">>

\* Rules that ask for nothing but a level and a duration, rules that use every
\* condition, one without a duration, and one that is switched off.
PlainAuto == [enabled |-> TRUE, maxSens |-> "medium", maxDuration |-> 1, hours |-> <<>>,
              networks |-> FALSE, mfa |-> FALSE, logins |-> FALSE]
FullAuto == [enabled |-> TRUE, maxSens |-> "low", maxDuration |-> 1, hours |-> <<1, 0>>,
             networks |-> TRUE, mfa |-> TRUE, logins |-> TRUE]
SomeAutoRules ==
    {PlainAuto, FullAuto, [PlainAuto EXCEPT !.maxSens = "high"], [PlainAuto EXCEPT !.maxDuration = 0]}

PlainEscalate == [enabled |-> TRUE, levels |-> {"high", "low"}, hours |-> <<>>,
                  networks |-> FALSE, mfa |-> FALSE]
FullEscalate == [enabled |-> TRUE, levels |-> {}, hours |-> <<0, 1>>, networks |-> TRUE, mfa |-> TRUE]
SomeEscalateRules == {PlainEscalate, FullEscalate, [FullEscalate EXCEPT !.enabled = FALSE]}

\* A request that meets every condition, and each way to miss one of them.
GoodAsk == [duration |-> 1, hour |-> 1, inside |-> TRUE, listed |-> TRUE]
SomeAsks ==
    {GoodAsk, [GoodAsk EXCEPT !.duration = 0], [GoodAsk EXCEPT !.duration = 2],
     [GoodAsk EXCEPT !.hour = 0], [GoodAsk EXCEPT !.inside = FALSE], [GoodAsk EXCEPT !.listed = FALSE]}

AccessInit ==
    /\ part \in Parts
    /\ Init /\ ViewsInit /\ RoutingInit
    /\ part # "views" => fga = "off"
    /\ part # "routing" => tags = [level |-> "none", pci |-> FALSE]

GrantsNext ==
    /\ Next
    /\ part = "grants" => /\ \A c \in Rejecters : pc'[c] = "idle"
                          /\ pc' # pc \/ lapsed' # lapsed
    /\ part = "decisions" => \A c \in Editors : pc'[c] = "idle"

AccessNext ==
    /\ UNCHANGED part
    /\ \/ part \in {"grants", "decisions"} /\ GrantsNext /\ UNCHANGED <<viewVars, routingVars>>
       \/ part = "views" /\ ViewsNext /\ UNCHANGED <<vars, routingVars>>
       \/ part = "routing" /\ RoutingNext /\ UNCHANGED <<vars, viewVars>>

AccessSpec == AccessInit /\ [][AccessNext]_accessVars
===============================================================================
