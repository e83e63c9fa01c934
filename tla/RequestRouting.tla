--------------------------- MODULE RequestRouting ---------------------------
(***************************************************************************)
(* How an access request is routed: the risk policy                        *)
(* (pkg/common/risk.go, risk_policy.go, pkg/api/risk.go), the creation of  *)
(* a request, and who may approve it (pkg/api/api.go).  One request; the   *)
(* policy, the target's tags and the requester's account change meanwhile. *)
(***************************************************************************)
EXTENDS Naturals, FiniteSets

CONSTANTS
    Cap,            \* maxAutoApproveDuration
    Asks,           \* bound: duration, hour, network and accounts of a request
    Hours,          \* the hours of a day, 0..n
    AutoRules,      \* bound: the auto-approval rules an admin may send
    EscalateRules,  \* bound: the escalation rules
    Operator,       \* an operator's approval and rejection calls
    Admin,          \* an administrator's
    MaxEdits,       \* bound: changes of policy and tags
    NoPolicy        \* no policy has been stored

Reviewers == {Operator, Admin}
NoHours == <<>>

ASSUME RoutingAssumption ==
    /\ Cap \in Nat /\ MaxEdits \in Nat /\ Operator # Admin
    /\ Reviewers \cap {"nobody", "policy"} = {}
    /\ 0 \in Hours
    /\ Asks \subseteq [duration : Nat, hour : Hours, inside : BOOLEAN, listed : BOOLEAN]

VARIABLES
    policy,     \* the risk_policy row
    tags,       \* the target's sensitivity and pci tags
    mfaOn,      \* the requester has TOTP or a passkey
    req,        \* the request: what it asks, its signals, decision, status and approver
    reading,    \* where createAccessRequest is
    review,     \* where each reviewer's call is
    edits,      \* changes so far
    \* what the properties remember
    judged,     \* the policy the request was judged by
    blind       \* reviewers whose first read of the request failed

routingVars == <<policy, tags, mfaOn, req, reading, review, edits, judged, blind>>

Levels == {"low", "medium", "high"}
NoReq == [sensitivity |-> "unset", mfa |-> FALSE, hour |-> 0, inside |-> FALSE,
          listed |-> FALSE, duration |-> 0, decision |-> "manual", status |-> "none", by |-> "nobody"]

-----------------------------------------------------------------------------
\* The policy.

\* Hours from the first, inclusive, to the second, exclusive; it may wrap.
HourContains(range, hour) ==
    IF range[1] <= range[2] THEN range[1] <= hour /\ hour < range[2]
    ELSE hour >= range[1] \/ hour < range[2]

validHours(range) ==
    range # NoHours =>
        range[1] \in Hours /\ range[2] \in Hours \cup {Cardinality(Hours)} /\ range[1] # range[2]

\* An enabled rule must not approve more than intended.
Validate(p) ==
    /\ p.auto.enabled => /\ p.auto.maxSens \in {"low", "medium"}
                         /\ p.auto.maxDuration \in 1..Cap
                         /\ validHours(p.auto.hours)
    /\ p.escalate.enabled => /\ p.escalate.levels \subseteq Levels \cup {"unset"}
                             /\ validHours(p.escalate.hours)

\* Only what changes before the request is judged is of interest.
Unjudged == reading \in {"idle", "evaluate"}

\* putRiskPolicy, by an administrator.
putRiskPolicy ==
    /\ Unjudged
    /\ edits < MaxEdits /\ edits' = edits + 1
    /\ \E a \in AutoRules, e \in EscalateRules :
         Validate([auto |-> a, escalate |-> e]) /\ policy' = [auto |-> a, escalate |-> e]
    /\ UNCHANGED <<tags, mfaOn, req, reading, review, judged, blind>>

\* The sensitivity tag, or high for an untagged machine in PCI scope.
MachineSensitivity(t) ==
    IF t.level \in Levels THEN t.level ELSE IF t.pci THEN "high" ELSE "unset"

rank(level) == CASE level = "low" -> 1 [] level = "medium" -> 2 [] level = "high" -> 3

\* Escalation: any condition that is set.
escalates(e, r) ==
    /\ e.enabled
    /\ \/ r.sensitivity \in e.levels
       \/ e.hours # NoHours /\ ~HourContains(e.hours, r.hour)
       \/ e.mfa /\ ~r.mfa
       \/ e.networks /\ ~r.inside

\* Auto-approval: every condition.  "unset" has no rank and never passes.
autoApproves(a, r) ==
    /\ a.enabled
    /\ r.sensitivity \in Levels /\ rank(r.sensitivity) <= rank(a.maxSens)
    /\ r.duration > 0 /\ r.duration <= a.maxDuration
    /\ a.hours # NoHours => HourContains(a.hours, r.hour)
    /\ a.networks => r.inside
    /\ a.mfa => r.mfa
    /\ a.logins => r.listed

\* Escalation is checked first.
EvaluateRisk(p, r) ==
    IF p = NoPolicy THEN "manual"
    ELSE IF escalates(p.escalate, r) THEN "escalate"
    ELSE IF autoApproves(p.auto, r) THEN "auto_approve" ELSE "manual"

-----------------------------------------------------------------------------
\* createAccessRequest.

\* collectRiskSignals: a user or machine that cannot be read leaves its
\* signals empty.
collectRiskSignals ==
    /\ reading = "idle"
    /\ reading' = "evaluate"
    /\ \E a \in Asks, userRead \in BOOLEAN, machineRead \in BOOLEAN :
         req' = [NoReq EXCEPT !.duration = a.duration, !.hour = a.hour,
                   !.inside = a.inside, !.listed = a.listed,
                   !.mfa = userRead /\ mfaOn,
                   !.sensitivity = IF machineRead THEN MachineSensitivity(tags) ELSE "unset"]
    /\ UNCHANGED <<policy, tags, mfaOn, review, edits, judged, blind>>

\* evaluateRisk: a policy that cannot be read means manual review.
evaluateRisk ==
    /\ reading = "evaluate"
    /\ reading' = "create"
    /\ \E p \in {policy, NoPolicy} : judged' = p /\ req' = [req EXCEPT !.decision = EvaluateRisk(p, req)]
    /\ UNCHANGED <<policy, tags, mfaOn, review, edits, blind>>

\* CreateAccessRequest; a failure ends the call.
storeRequest ==
    /\ reading = "create"
    /\ \/ reading' = "apply" /\ req' = [req EXCEPT !.status = "pending"]
       \/ reading' = "done" /\ UNCHANGED req
    /\ UNCHANGED <<policy, tags, mfaOn, review, edits, judged, blind>>

\* applyRiskPolicy approves without a reviewer: the request is read again, and
\* left alone when it was decided meanwhile or cannot be read,
applyRiskPolicy ==
    /\ reading = "apply"
    /\ \/ req.decision = "auto_approve" /\ req.status = "pending" /\ reading' = "approve"
       \/ reading' = "done"
    /\ UNCHANGED <<policy, tags, mfaOn, req, review, edits, judged, blind>>

\* ... and written, or the write fails.
policyApproves ==
    /\ reading = "approve"
    /\ reading' = "done"
    /\ UNCHANGED req \/ req' = [req EXCEPT !.status = "approved", !.by = "policy"]
    /\ UNCHANGED <<policy, tags, mfaOn, review, edits, judged, blind>>

-----------------------------------------------------------------------------
\* approveAccessRequest and rejectAccessRequest.

\* Mutant: the escalation is not looked at.
mayApprove_Anyone(r) == TRUE

\* A request the policy escalated needs an administrator.
mayApprove(r) == req.decision = "escalate" => r = Admin

\* The handler's own read.  When it fails the check is skipped.
readForReview(r) ==
    /\ review[r] = "idle" /\ req.status # "none"
    /\ \E ok \in BOOLEAN :
         /\ review' = [review EXCEPT ![r] = IF ok /\ ~mayApprove(r) THEN "refused" ELSE "decide"]
         /\ blind' = IF ok THEN blind ELSE blind \cup {r}
    /\ UNCHANGED <<policy, tags, mfaOn, req, reading, edits, judged>>

\* ApproveAccessRequestWithTTL and RejectAccessRequest read the request, stop
\* when it is not pending,
readPending(r, from, to) ==
    /\ review[r] = from /\ req.status # "none"
    /\ review' = [review EXCEPT ![r] = IF req.status = "pending" THEN to ELSE "done"]
    /\ UNCHANGED <<policy, tags, mfaOn, req, reading, edits, judged, blind>>

\* ... and write whatever it has become meanwhile, or fail to.
decideRequestAs(r, decision) ==
    /\ review' = [review EXCEPT ![r] = "done"]
    /\ UNCHANGED req \/ req' = [req EXCEPT !.status = decision, !.by = r]
    /\ UNCHANGED <<policy, tags, mfaOn, reading, edits, judged, blind>>

approveRequest(r) ==
    \/ readPending(r, "decide", "approve")
    \/ review[r] = "approve" /\ decideRequestAs(r, "approved")

\* Either kind of reviewer may reject.
rejectRequest(r) ==
    \/ readPending(r, "idle", "reject")
    \/ review[r] = "reject" /\ decideRequestAs(r, "rejected")

-----------------------------------------------------------------------------
\* The target is tagged anew, the requester enrols or disables a factor.
retag ==
    /\ Unjudged
    /\ edits < MaxEdits /\ edits' = edits + 1
    /\ tags' \in [level : Levels \cup {"none"}, pci : BOOLEAN]
    /\ mfaOn' \in BOOLEAN
    /\ UNCHANGED <<policy, req, reading, review, judged, blind>>

RoutingInit ==
    /\ policy = NoPolicy
    /\ tags \in [level : {"low", "none"}, pci : BOOLEAN]
    /\ mfaOn = TRUE
    /\ req = NoReq /\ reading = "idle"
    /\ review = [r \in Reviewers |-> "idle"]
    /\ edits = 0 /\ judged = NoPolicy /\ blind = {}

RoutingNext ==
    \/ putRiskPolicy \/ retag
    \/ collectRiskSignals \/ evaluateRisk \/ storeRequest
    \/ applyRiskPolicy \/ policyApproves
    \/ \E r \in Reviewers : readForReview(r) \/ approveRequest(r) \/ rejectRequest(r)

RoutingSpec == RoutingInit /\ [][RoutingNext]_routingVars

Requests ==
    [sensitivity : Levels \cup {"unset"}, mfa : BOOLEAN, hour : Hours, inside : BOOLEAN, listed : BOOLEAN,
     duration : Nat, decision : {"manual", "escalate", "auto_approve"},
     status : {"none", "pending", "approved", "rejected"}, by : Reviewers \cup {"nobody", "policy"}]

RoutingTypeOK ==
    /\ policy = NoPolicy \/ policy \in [auto : AutoRules, escalate : EscalateRules]
    /\ tags \in [level : Levels \cup {"none"}, pci : BOOLEAN]
    /\ mfaOn \in BOOLEAN
    /\ req \in Requests
    /\ reading \in {"idle", "evaluate", "create", "apply", "approve", "done"}
    /\ review \in [Reviewers -> {"idle", "decide", "approve", "reject", "refused", "done"}]
    /\ edits \in 0..MaxEdits

-----------------------------------------------------------------------------
\* Properties.

\* "a broken policy must never approve anything" and "high-sensitivity targets
\* can never be auto-approved": a request nobody reviewed is for a target
\* tagged low or medium, has an end, and meets no escalation condition of the
\* policy it was judged by.
UnattendedIsLowRisk ==
    req.by = "policy" =>
        /\ req.sensitivity \in {"low", "medium"}
        /\ req.duration \in 1..Cap
        /\ judged # NoPolicy /\ ~escalates(judged.escalate, req)

\* "A request the risk policy escalated needs an admin, not an operator":
\* whatever reviewers and the policy race for, unless the reviewer's own read
\* of the request failed.
EscalatedNeedsAdmin ==
    req.status = "approved" /\ req.decision = "escalate" => req.by = Admin \/ req.by \in blind

\* The policy decides alone only what is low risk, and what it escalates is
\* decided by an admin.
RoutingIsSafe == RoutingTypeOK /\ UnattendedIsLowRisk /\ EscalatedNeedsAdmin
=============================================================================
