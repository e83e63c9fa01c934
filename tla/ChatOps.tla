------------------------------ MODULE ChatOps -------------------------------
(***************************************************************************)
(* The chatops-access-request plugin: one access request posted to chat    *)
(* platforms, and the approvers who click.  Slack and Discord call back    *)
(* with signed button presses; Teams and Rocket.Chat carry signed links    *)
(* that expire.  Every click becomes a call to the gateway's own approve   *)
(* or reject endpoint and a message that says how it went.                 *)
(***************************************************************************)
EXTENDS Naturals, FiniteSets

CONSTANTS
    Clicks,     \* clicks on the posts
    LinkTTL,    \* magicLinkTTL
    ChatTime    \* bound on the clock

ASSUME ChatAssumption == LinkTTL \in Nat /\ ChatTime \in Nat

Buttons == {"slack", "discord"}
Links == {"teams", "rocketchat"}
Platforms == Buttons \cup Links

VARIABLES
    clock,     \* time
    chatOn,    \* platforms the config enables
    secretNo,  \* how often approval_secret was changed
    posts,     \* platform -> <<[secret, exp]>> once posted, <<>> before
    posting,   \* platforms OnHook has still to try
    requestStatus,    \* the access request: pending, approved or rejected
    chatGrant, \* a grant was written for it
    click,     \* click -> [at, action, said]
    gaveUp,    \* clicks whose client stopped waiting for the gateway
    crossed    \* ghost: two calls overlapped between their read and their write

chatVars == <<clock, chatOn, secretNo, posts, posting, requestStatus, chatGrant, click, gaveUp, crossed>>

ClickAt(c, from, to) == click[c].at = from /\ click' = [click EXCEPT ![c].at = to]

-----------------------------------------------------------------------------
\* Posting.

\* A link is signed with the secret and the time of posting.
signMagicLink == [secret |-> secretNo, exp |-> clock + LinkTTL]

\* What a platform's post carries: buttons with the request's id, or links.
\* The call to the platform may fail.
postSlack      == {<< >>, <<[secret |-> 0, exp |-> 0]>>}
postDiscord    == {<< >>, <<[secret |-> 0, exp |-> 0]>>}
postTeams      == {<< >>, <<signMagicLink>>}
postRocketChat == {<< >>, <<signMagicLink>>}

\* OnHook: every enabled platform is tried, a failure is logged and the next
\* one follows.
OnHook(p) ==
    /\ p \in posting
    /\ posting' = posting \ {p}
    /\ \E post \in CASE p = "slack" -> postSlack     [] p = "discord" -> postDiscord
                    [] p = "teams" -> postTeams     [] p = "rocketchat" -> postRocketChat :
          posts' = [posts EXCEPT ![p] = post]
    /\ UNCHANGED <<clock, chatOn, secretNo, requestStatus, chatGrant, click, gaveUp, crossed>>

\* Initialize with another approval_secret, from the settings page.
rotateSecret ==
    /\ secretNo = 0
    /\ secretNo' = 1
    /\ UNCHANGED <<clock, chatOn, posts, posting, requestStatus, chatGrant, click, gaveUp, crossed>>

chatTick ==
    /\ clock < ChatTime
    /\ clock' = clock + 1
    /\ UNCHANGED <<chatOn, secretNo, posts, posting, requestStatus, chatGrant, click, gaveUp, crossed>>

-----------------------------------------------------------------------------
\* A click.

\* verifyMagicLink: signed with the secret of now, not expired.
verifyMagicLink(p) == posts[p][1].secret = secretNo /\ clock <= posts[p][1].exp

\* A button press comes with the platform's own signature over it.
pressButton(c, p, action) ==
    /\ posts[p] # <<>>
    /\ click[c].at = "idle"
    /\ click' = [click EXCEPT ![c].at = "read", ![c].action = action]
    /\ UNCHANGED <<clock, chatOn, secretNo, posts, posting, requestStatus, chatGrant, gaveUp, crossed>>

handleSlackInteraction(c, action) == pressButton(c, "slack", action)
handleDiscordComponent(c, action) == pressButton(c, "discord", action)

\* handleMagicLink: a bad or expired link is refused.
handleMagicLink(c, p, action) ==
    /\ posts[p] # <<>>
    /\ click[c].at = "idle"
    /\ click' = [click EXCEPT ![c] = IF verifyMagicLink(p)
                                     THEN [at |-> "read", action |-> action, said |-> "nothing"]
                                     ELSE [at |-> "over", action |-> action, said |-> "refused"]]
    /\ UNCHANGED <<clock, chatOn, secretNo, posts, posting, requestStatus, chatGrant, gaveUp, crossed>>

\* The gateway: the request is read and must be pending.
readRequest(c) ==
    /\ \/ requestStatus = "pending" /\ ClickAt(c, "read", "write")
       \/ ClickAt(c, "read", "error")
    /\ UNCHANGED <<clock, chatOn, secretNo, posts, posting, requestStatus, chatGrant, gaveUp, crossed>>

\* UpdateAccessRequest overwrites whatever another call stored since.
writeRequest(c) ==
    /\ \/ /\ ClickAt(c, "write", IF click[c].action = "approve" THEN "grant" ELSE "ok")
          /\ requestStatus' = IF click[c].action = "approve" THEN "approved" ELSE "rejected"
          /\ crossed' = (crossed \/ requestStatus # "pending")
       \/ ClickAt(c, "write", "error") /\ UNCHANGED <<requestStatus, crossed>>
    /\ UNCHANGED <<clock, chatOn, secretNo, posts, posting, chatGrant, gaveUp>>

\* GrantPermission; when it fails the request stays approved.
grantRequest(c) ==
    /\ \/ ClickAt(c, "grant", "ok") /\ chatGrant' = TRUE
       \/ ClickAt(c, "grant", "error") /\ UNCHANGED chatGrant
    /\ UNCHANGED <<clock, chatOn, secretNo, posts, posting, requestStatus, gaveUp, crossed>>

\* The client's 10 s timeout: the gateway may still be at work.
giveUp(c) ==
    /\ click[c].at \in {"read", "write", "grant"} /\ c \notin gaveUp
    /\ gaveUp' = gaveUp \cup {c}
    /\ click' = [click EXCEPT ![c].said = "failed"]
    /\ UNCHANGED <<clock, chatOn, secretNo, posts, posting, requestStatus, chatGrant, crossed>>

\* Mutant: any answer counts as success.
resolveAction_AnyStatus(c) == c \notin gaveUp

\* resolveAction: success is a 2xx answer that came in time.
resolveAction(c) == click[c].at = "ok" /\ c \notin gaveUp

\* The message replaces the post, or the link's page shows it.
say(c) ==
    /\ click[c].at \in {"ok", "error"}
    /\ click' = [click EXCEPT ![c].at = "over",
                   ![c].said = IF resolveAction(c) THEN click[c].action ELSE "failed"]
    /\ UNCHANGED <<clock, chatOn, secretNo, posts, posting, requestStatus, chatGrant, gaveUp, crossed>>

-----------------------------------------------------------------------------
ChatInit ==
    /\ clock = 0 /\ secretNo = 0
    /\ chatOn \in {{p, q} : p \in Buttons, q \in Links}
    /\ posting = chatOn
    /\ posts = [p \in Platforms |-> <<>>]
    /\ requestStatus = "pending" /\ chatGrant = FALSE
    /\ click = [c \in Clicks |-> [at |-> "idle", action |-> "approve", said |-> "nothing"]]
    /\ gaveUp = {} /\ crossed = FALSE

ChatNext ==
    \/ chatTick \/ rotateSecret
    \/ \E p \in Platforms : OnHook(p)
    \/ \E c \in Clicks :
          \/ \E action \in {"approve", "deny"} :
                \/ handleSlackInteraction(c, action) \/ handleDiscordComponent(c, action)
                \/ \E p \in Links : handleMagicLink(c, p, action)
          \/ readRequest(c) \/ writeRequest(c) \/ grantRequest(c) \/ giveUp(c) \/ say(c)

ChatSpec == ChatInit /\ [][ChatNext]_chatVars

-----------------------------------------------------------------------------
ClickStates == [at : {"idle", "read", "write", "grant", "ok", "error", "over"},
                action : {"approve", "deny"},
                said : {"nothing", "refused", "failed", "approve", "deny"}]

\* Every variable keeps its type.
ChatTypeOK ==
    /\ clock \in 0..ChatTime /\ secretNo \in 0..1
    /\ chatOn \subseteq Platforms /\ posting \subseteq chatOn
    /\ requestStatus \in {"pending", "approved", "rejected"} /\ chatGrant \in BOOLEAN
    /\ click \in [Clicks -> ClickStates]
    /\ gaveUp \subseteq Clicks /\ crossed \in BOOLEAN

\* What the channel is told is what happened: an approval it reports has its grant, and,
\* unless two calls overlapped inside the gateway, the request is still what
\* the message says and no two messages contradict each other (resolveAction and its callers).
ChatTellsTheTruth ==
    \A c \in Clicks :
        /\ click[c].said = "approve" => chatGrant /\ (crossed \/ requestStatus = "approved")
        /\ click[c].said = "deny" => crossed \/ (requestStatus = "rejected" /\ ~chatGrant)

(* The chat's answer can be relied on.                                     *)
ChatIsSound == ChatTypeOK /\ ChatTellsTheTruth
=============================================================================
