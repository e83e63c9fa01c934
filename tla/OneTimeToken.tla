----------------------------- MODULE OneTimeToken -----------------------------
(***************************************************************************)
(* What the gateway promises of a login ticket or a browser code: it is     *)
(* issued once, it can be redeemed at most once and only while it lives,    *)
(* and it never comes back.  The stores of OneTimeCodes implement it.       *)
(***************************************************************************)
CONSTANT Tokens

VARIABLE token  \* the life of each token

NotYet   == "not issued"
Live     == "live"
Redeemed == "redeemed"
Gone     == "gone"

Init == token = [t \in Tokens |-> NotYet]

Becomes(t, from, to) ==
    /\ token[t] = from
    /\ token' = [token EXCEPT ![t] = to]

Issue(t)  == Becomes(t, NotYet, Live)
Redeem(t) == Becomes(t, Live, Redeemed)

\* Tokens lapse, several together when time passes.
Lapse ==
    \E T \in SUBSET {t \in Tokens : token[t] = Live} :
        token' = [t \in Tokens |-> IF t \in T THEN Gone ELSE token[t]]

Next ==
    \/ \E t \in Tokens : Issue(t) \/ Redeem(t)
    \/ Lapse

Spec == Init /\ [][Next]_token
===============================================================================
