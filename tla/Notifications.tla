--------------------------- MODULE Notifications ----------------------------
(***************************************************************************)
(* In-app notifications (pkg/api/notifications.go, pkg/common/             *)
(* notification_policy.go, notification_prefs.go): what a user asked for,  *)
(* what the administrator forbids or imposes, and what is delivered.       *)
(* Second part: the notice that WebAuthn is misconfigured, which every     *)
(* administrator is to have once.                                          *)
(***************************************************************************)
EXTENDS Naturals, FiniteSets, Sequences

CONSTANTS
    Events,        \* notification types
    Deliveries,    \* notifications raised
    MaxPolicies,   \* times the policy is replaced
    MaxSaves,      \* times the user saves
    Pollers,       \* calls that list an administrator's notifications
    NoticePage,    \* notifications the duplicate check looks at
    MaxNotices     \* notifications in the administrator's list

ASSUME NotifyAssumption == Events # {} /\ NoticePage \in Nat /\ MaxNotices \in Nat

Channels == {"in_app", "email"}

VARIABLES
    policy,    \* the notification_policy row
    prefs,     \* the user's notification_prefs row
    policies, saves, \* changes so far
    saving,    \* putNotificationPrefs between its read and its write: <<prefs, policy>> or <<>>
    shownPrefs, \* what the last response showed, until the policy changes: <<prefs>> or <<>>
    dlv,       \* delivery -> [at, event, prefs]
    inbox,     \* deliveries stored
    imposed,   \* ghost: deliveries whose event was mandatory all the while
    denied,    \* ghost: deliveries that lost a store call
    notices,   \* an administrator's notifications, newest first: [fault, unread]
    polls,     \* poller -> idle, create or over
    crowded    \* ghost: two polls overlapped, or the unread notice is beyond the page

noticeVars == <<notices, polls, crowded>>
prefVars == <<policy, prefs, policies, saves, saving, shownPrefs, dlv, inbox, imposed, denied>>
notifyVars == <<prefVars, noticeVars>>

Policies == [allowed : SUBSET Channels, mandatory : [Events -> SUBSET Channels]]
Prefs == [on : SUBSET Channels, events : SUBSET Events]

DefaultNotificationPolicy == [allowed |-> {}, mandatory |-> [e \in Events |-> {}]]
DefaultNotificationPrefs  == [on |-> {"in_app"}, events |-> {}]

-----------------------------------------------------------------------------
\* The decision.

ChannelAllowed(p, ch) == p.allowed = {} \/ ch \in p.allowed
IsMandatory(p, ch, e) == ch \in p.mandatory[e]
MandatoryEventsForChannel(p, ch) == {e \in Events : IsMandatory(p, ch, e)}
Allows(pr, ch, e) == ch \in pr.on /\ (pr.events = {} \/ e \in pr.events)

\* A mandatory event, else an allowed channel and the user's wish.
Deliver(p, pr, ch, e) ==
    IsMandatory(p, ch, e) \/ (ChannelAllowed(p, ch) /\ Allows(pr, ch, e))

\* Channels are switched off or on; mandatory events are folded into a narrow list.
ClampPrefs(p, pr) ==
    LET carried(ch) == MandatoryEventsForChannel(p, ch) # {}
        on == {ch \in Channels : IF ch \in pr.on THEN ChannelAllowed(p, ch) \/ carried(ch) ELSE carried(ch)}
    IN [on |-> on,
        events |-> IF pr.events = {} THEN {}
                   ELSE pr.events \cup UNION {MandatoryEventsForChannel(p, ch) : ch \in Channels}]

\* Mandatory channels are promoted into a non-empty allow-list.
Normalize(p) ==
    [p EXCEPT !.allowed = IF @ = {} THEN {} ELSE @ \cup UNION {p.mandatory[e] : e \in Events}]

-----------------------------------------------------------------------------
\* The policy and the preferences.

\* PUT notification policy; a mandate that is lifted no longer binds what is under way.
putNotificationPolicy ==
    /\ policies < MaxPolicies
    /\ policies' = policies + 1
    /\ \E p \in Policies : policy' = Normalize(p)
    /\ imposed' = {d \in imposed : IsMandatory(policy', "in_app", dlv[d].event)}
    /\ shownPrefs' = <<>>
    /\ UNCHANGED <<prefs, saves, saving, dlv, inbox, denied, noticeVars>>

\* GET preferences: clamped as they are shown, stored as they were.
getNotificationPrefs ==
    /\ shownPrefs' = <<ClampPrefs(policy, prefs)>>
    /\ UNCHANGED <<policy, prefs, policies, saves, saving, dlv, inbox, imposed, denied, noticeVars>>

\* PUT preferences: clamped to the policy read now, stored later.
putNotificationPrefs ==
    /\ saving = <<>> /\ saves < MaxSaves
    /\ saves' = saves + 1
    /\ \E pr \in Prefs : saving' = <<ClampPrefs(policy, pr), policy>>
    /\ UNCHANGED <<policy, prefs, policies, shownPrefs, dlv, inbox, imposed, denied, noticeVars>>

UpsertNotificationPrefs ==
    /\ saving # <<>>
    /\ \/ prefs' = saving[1] /\ shownPrefs' = IF saving[2] = policy THEN <<saving[1]>> ELSE <<>>
       \/ UNCHANGED <<prefs, shownPrefs>>
    /\ saving' = <<>>
    /\ UNCHANGED <<policy, policies, saves, dlv, inbox, imposed, denied, noticeVars>>

-----------------------------------------------------------------------------
\* deliverNotification: preferences, policy, notification.

\* GetNotificationPrefs; its error is ignored and leaves the defaults.
deliverNotification(d) ==
    /\ dlv[d].at = "idle"
    /\ \E e \in Events, pr \in {prefs, DefaultNotificationPrefs} :
          /\ dlv' = [dlv EXCEPT ![d] = [at |-> "policy", event |-> e, prefs |-> pr]]
          /\ imposed' = IF IsMandatory(policy, "in_app", e) THEN imposed \cup {d} ELSE imposed
    /\ UNCHANGED <<policy, prefs, policies, saves, saving, shownPrefs, inbox, denied, noticeVars>>

\* GetNotificationPolicy; when it fails the permissive default decides.
readPolicy(d) ==
    /\ dlv[d].at = "policy"
    /\ \E failed \in BOOLEAN :
          LET p == IF failed THEN DefaultNotificationPolicy ELSE policy
          IN /\ dlv' = [dlv EXCEPT ![d].at =
                          IF Deliver(p, dlv[d].prefs, "in_app", dlv[d].event) THEN "create" ELSE "over"]
             /\ denied' = IF failed THEN denied \cup {d} ELSE denied
    /\ UNCHANGED <<policy, prefs, policies, saves, saving, shownPrefs, inbox, imposed, noticeVars>>

\* CreateNotification; its error is only logged.
CreateNotification(d) ==
    /\ dlv[d].at = "create"
    /\ dlv' = [dlv EXCEPT ![d].at = "over"]
    /\ \/ inbox' = inbox \cup {d} /\ UNCHANGED denied
       \/ denied' = denied \cup {d} /\ UNCHANGED inbox
    /\ UNCHANGED <<policy, prefs, policies, saves, saving, shownPrefs, imposed, noticeVars>>

-----------------------------------------------------------------------------
\* ensureWebAuthnConfigNotification.

IsOpenNotice(n) == n.fault /\ n.unread
OpenNotices == {i \in DOMAIN notices : IsOpenNotice(notices[i])}
Page == SubSeq(notices, 1, IF Len(notices) < NoticePage THEN Len(notices) ELSE NoticePage)

\* Mutant: only the newest notice is looked at.
HasUnreadNotice_Newest == notices # <<>> /\ IsOpenNotice(notices[1])

\* ListUserNotifications, newest first, at most a page.
HasUnreadNotice == \E i \in DOMAIN Page : IsOpenNotice(Page[i])

pollNotices(p) ==
    /\ polls[p] = "idle"
    /\ polls' = [polls EXCEPT ![p] = IF HasUnreadNotice THEN "over" ELSE "create"]
    /\ crowded' = (crowded \/ OpenNotices \cap DOMAIN Page # OpenNotices
                           \/ (~HasUnreadNotice /\ \E q \in Pollers : polls[q] = "create"))
    /\ UNCHANGED <<notices, prefVars>>

createNotice(p) ==
    /\ polls[p] = "create" /\ Len(notices) < MaxNotices
    /\ polls' = [polls EXCEPT ![p] = "over"]
    /\ \/ notices' = <<[fault |-> TRUE, unread |-> TRUE]>> \o notices
       \/ UNCHANGED notices
    /\ UNCHANGED <<crowded, prefVars>>

\* Some other notification arrives.
otherNotice ==
    /\ Len(notices) < MaxNotices
    /\ notices' = <<[fault |-> FALSE, unread |-> TRUE]>> \o notices
    /\ UNCHANGED <<polls, crowded, prefVars>>

MarkNotificationRead(i) ==
    /\ notices[i].unread
    /\ notices' = [notices EXCEPT ![i].unread = FALSE]
    /\ UNCHANGED <<polls, crowded, prefVars>>

MarkAllNotificationsRead ==
    /\ notices' = [i \in DOMAIN notices |-> [notices[i] EXCEPT !.unread = FALSE]]
    /\ UNCHANGED <<polls, crowded, prefVars>>

\* The console polls again.
pollAgain(p) ==
    /\ polls[p] = "over"
    /\ polls' = [polls EXCEPT ![p] = "idle"]
    /\ UNCHANGED <<notices, crowded, prefVars>>

-----------------------------------------------------------------------------
NotifyInit ==
    /\ policy = DefaultNotificationPolicy /\ prefs = DefaultNotificationPrefs
    /\ policies = 0 /\ saves = 0 /\ saving = <<>> /\ shownPrefs = <<>>
    /\ dlv = [d \in Deliveries |-> [at |-> "idle", event |-> CHOOSE e \in Events : TRUE,
                                    prefs |-> DefaultNotificationPrefs]]
    /\ inbox = {} /\ imposed = {} /\ denied = {}
    /\ notices = <<>> /\ polls = [p \in Pollers |-> "idle"] /\ crowded = FALSE

PrefsNext ==
    \/ putNotificationPolicy \/ getNotificationPrefs \/ putNotificationPrefs \/ UpsertNotificationPrefs
    \/ \E d \in Deliveries : deliverNotification(d) \/ readPolicy(d) \/ CreateNotification(d)

NoticesNext ==
    \/ \E p \in Pollers : pollNotices(p) \/ createNotice(p) \/ pollAgain(p)
    \/ otherNotice \/ MarkAllNotificationsRead
    \/ \E i \in DOMAIN notices : MarkNotificationRead(i)

NotifySpec == NotifyInit /\ [][PrefsNext \/ NoticesNext]_notifyVars

-----------------------------------------------------------------------------
DeliveryStates == [at : {"idle", "policy", "create", "over"}, event : Events, prefs : Prefs]
Notices == [fault : BOOLEAN, unread : BOOLEAN]

\* Every variable keeps its type.
NotifyTypeOK ==
    /\ policy \in Policies /\ prefs \in Prefs
    /\ dlv \in [Deliveries -> DeliveryStates]
    /\ inbox \subseteq Deliveries /\ imposed \subseteq Deliveries /\ denied \subseteq Deliveries
    /\ notices \in Seq(Notices)
    /\ polls \in [Pollers -> {"idle", "create", "over"}] /\ crowded \in BOOLEAN

\* A notification whose event was mandatory from start to end of its delivery is stored,
\* whatever the user prefers or has saved meanwhile, unless a store call failed
\* (deliverNotification and NotificationPolicy.Deliver, rule 1).
MandateIsHonoured ==
    \A d \in imposed \ denied : dlv[d].at = "over" => d \in inbox

\* "the user is shown back exactly what will happen" (notification_policy.go:175-176):
\* what the last response shows is what deliveries do with the stored preferences, as long
\* as the policy it was computed from stands.  GET clamps its answer only
\* (notifications.go:137-141), and deliverNotification reads what is stored (:370).
ShownIsWhatHappens ==
    shownPrefs # <<>> => \A ch \in Channels, e \in Events :
        Allows(shownPrefs[1], ch, e) <=> Deliver(policy, prefs, ch, e)

\* What holds of that: nothing comes that is not shown, and an answer that shows the
\* preferences as they are stored, as the answer to a save does, is exact.
DeliveredIsShown ==
    shownPrefs # <<>> => \A ch \in Channels, e \in Events :
        /\ Deliver(policy, prefs, ch, e) => Allows(shownPrefs[1], ch, e)
        /\ Allows(shownPrefs[1], ch, e) /\ shownPrefs[1] = prefs => Deliver(policy, prefs, ch, e)

\* An administrator has one unread WebAuthn notice, unless two lists overlapped or newer
\* notifications pushed it off the page the check reads (ensureWebAuthnConfigNotification).
OneUnreadNotice == ~crowded => Cardinality(OpenNotices) <= 1

\* Mandates are kept, nothing comes that the settings do not show, and an
\* administrator is told once.
NoticesAreHonest ==
    NotifyTypeOK /\ MandateIsHonoured /\ DeliveredIsShown /\ OneUnreadNotice
=============================================================================
