---------------------------- MODULE PluginHooks -----------------------------
(***************************************************************************)
(* Manager.TriggerHook and callHook (pkg/plugin/plugin.go) with the        *)
(* OnHook of the built-in plugins: a session announces its start and, at   *)
(* its end, its end; each enabled plugin gets both in turn, on a goroutine *)
(* that is abandoned when it takes too long.                               *)
(***************************************************************************)
EXTENDS Naturals, Sequences, FiniteSets, Functions

CONSTANTS
    HookSessions, \* sessions; each triggers session_start, then session_end
    HookPlugins,  \* the plugins in the order they were registered
    MaxToggles    \* bound: times an administrator flips a plugin's switch

\* Manager.Register refuses a second plugin of one name.
ASSUME HooksAssumption ==
    /\ HookPlugins \in Seq({"audit", "slack", "email", "webhook", "chatops"})
    /\ \A i, j \in 1 .. Len(HookPlugins) : HookPlugins[i] = HookPlugins[j] => i = j
    /\ MaxToggles \in Nat

VARIABLES
    switched,  \* plugins the manager's switch is on for
    toggles,   \* flips so far
    hookAt,    \* session -> idle, session_start, running, session_end or over
    hookTodo,  \* session -> positions in HookPlugins that TriggerHook has still to call
    calling,   \* session -> {plugin} callHook waits for, or {}
    asked,     \* <<session, hook, plugin>>: enabled when the hook's snapshot was taken
    onHook,    \* <<session, hook, plugin>> -> none, running, returned or failed (an error or a panic)
    abandoned, \* calls callHook stopped waiting for
    heard      \* plugin -> <<session, hook>> in the order they took effect

hookVars == <<switched, toggles, hookAt, hookTodo, calling, asked, onHook, abandoned, heard>>

Hooks == {"session_start", "session_end"}
Plugins == Range(HookPlugins)
HookCalls == HookSessions \X Hooks \X Plugins

-----------------------------------------------------------------------------
\* The hooks each plugin's OnHook acts on; the others it returns from at once.

auditHooks   == {"pre_auth", "post_auth", "session_start", "session_end", "access_request", "access_granted",
                 "pre_connect", "post_connect", "pre_disconnect", "post_disconnect"}
slackHooks   == {"session_start", "session_end", "access_request", "access_granted", "post_auth"}
emailHooks   == {"session_start", "session_end", "access_request", "access_granted"}
webhookHooks == {"session_start", "session_end", "access_request", "access_granted", "post_auth"}
chatopsHooks == {"access_request"}

ActsOn(p) ==
    CASE p = "audit" -> auditHooks [] p = "slack" -> slackHooks [] p = "email" -> emailHooks
      [] p = "webhook" -> webhookHooks [] p = "chatops" -> chatopsHooks

-----------------------------------------------------------------------------
\* Manager.SetEnabled.
flipSwitch(p) ==
    /\ toggles < MaxToggles
    /\ toggles' = toggles + 1
    /\ switched' = IF p \in switched THEN switched \ {p} ELSE switched \cup {p}
    /\ UNCHANGED <<hookAt, hookTodo, calling, asked, onHook, abandoned, heard>>

\* TriggerHook: the enabled plugins are copied under the lock.
TriggerHook(s) ==
    /\ hookAt[s] \in {"idle", "running"}
    /\ LET h == IF hookAt[s] = "idle" THEN "session_start" ELSE "session_end"
           plugins == {i \in 1 .. Len(HookPlugins) : HookPlugins[i] \in switched}
       IN /\ hookAt' = [hookAt EXCEPT ![s] = h]
          /\ hookTodo' = [hookTodo EXCEPT ![s] = plugins]
          /\ asked' = asked \cup {<<s, h, HookPlugins[i]>> : i \in plugins}
    /\ UNCHANGED <<switched, toggles, calling, onHook, abandoned, heard>>

\* callHook starts the goroutine of the plugin that was registered first.
callHook(s) ==
    /\ hookAt[s] \in Hooks /\ calling[s] = {}
    /\ \E i \in hookTodo[s] :
         /\ \A j \in hookTodo[s] : i <= j
         /\ calling' = [calling EXCEPT ![s] = {HookPlugins[i]}]
         /\ hookTodo' = [hookTodo EXCEPT ![s] = @ \ {i}]
         /\ onHook' = [onHook EXCEPT ![<<s, hookAt[s], HookPlugins[i]>>] = "running"]
    /\ UNCHANGED <<switched, toggles, hookAt, asked, abandoned, heard>>

\* The goroutine: OnHook takes effect and returns, fails, or panics and is recovered.
runOnHook(c) ==
    /\ onHook[c] = "running"
    /\ \/ /\ onHook' = [onHook EXCEPT ![c] = "returned"]
          /\ heard' = IF c[2] \in ActsOn(c[3]) THEN [heard EXCEPT ![c[3]] = Append(@, <<c[1], c[2]>>)] ELSE heard
       \/ onHook' = [onHook EXCEPT ![c] = "failed"] /\ UNCHANGED heard
    /\ UNCHANGED <<switched, toggles, hookAt, hookTodo, calling, asked, abandoned>>

\* Mutant: the first error ends the loop.
hookReturned_Stops(s, p) ==
    /\ onHook[<<s, hookAt[s], p>>] \in {"returned", "failed"}
    /\ calling' = [calling EXCEPT ![s] = {}]
    /\ hookTodo' = IF onHook[<<s, hookAt[s], p>>] = "failed" THEN [hookTodo EXCEPT ![s] = {}] ELSE hookTodo
    /\ UNCHANGED <<switched, toggles, hookAt, asked, onHook, abandoned, heard>>

\* callHook receives the result; an error is collected and the loop goes on.
hookReturned(s, p) ==
    /\ onHook[<<s, hookAt[s], p>>] \in {"returned", "failed"}
    /\ calling' = [calling EXCEPT ![s] = {}]
    /\ UNCHANGED <<switched, toggles, hookAt, hookTodo, asked, onHook, abandoned, heard>>

\* Mutant: the caller waits for a plugin that blocks.
hookTimedOut_Never(s, p) == FALSE /\ UNCHANGED hookVars

\* defaultHookTimeout, or the caller's context: the goroutine is left to itself.
hookTimedOut(s, p) ==
    /\ onHook[<<s, hookAt[s], p>>] = "running"
    /\ calling' = [calling EXCEPT ![s] = {}]
    /\ abandoned' = abandoned \cup {<<s, hookAt[s], p>>}
    /\ UNCHANGED <<switched, toggles, hookAt, hookTodo, asked, onHook, heard>>

\* TriggerHook returns to the session.
hookOver(s) ==
    /\ hookAt[s] \in Hooks /\ calling[s] = {} /\ hookTodo[s] = {}
    /\ hookAt' = [hookAt EXCEPT ![s] = IF @ = "session_start" THEN "running" ELSE "over"]
    /\ UNCHANGED <<switched, toggles, hookTodo, calling, asked, onHook, abandoned, heard>>

-----------------------------------------------------------------------------
HooksInit ==
    /\ switched = Plugins /\ toggles = 0
    /\ hookAt = [s \in HookSessions |-> "idle"]
    /\ hookTodo = [s \in HookSessions |-> {}]
    /\ calling = [s \in HookSessions |-> {}]
    /\ asked = {} /\ abandoned = {}
    /\ onHook = [c \in HookCalls |-> "none"]
    /\ heard = [p \in Plugins |-> <<>>]

HookSteps(s) ==
    \/ callHook(s) \/ hookOver(s)
    \/ \E p \in calling[s] : hookReturned(s, p) \/ hookTimedOut(s, p)

HooksNext ==
    \/ \E p \in Plugins : flipSwitch(p)
    \/ \E s \in HookSessions : TriggerHook(s) \/ HookSteps(s)
    \/ \E c \in HookCalls : runOnHook(c)

\* The session's goroutine and the timer run on; nothing says that a plugin returns.
HooksFairness == \A s \in HookSessions : WF_hookVars(HookSteps(s))

HooksSpec == HooksInit /\ [][HooksNext]_hookVars /\ HooksFairness

-----------------------------------------------------------------------------
\* Every variable keeps its type.
HooksTypeOK ==
    /\ switched \subseteq Plugins
    /\ toggles \in 0..MaxToggles
    /\ hookAt \in [HookSessions -> {"idle", "session_start", "running", "session_end", "over"}]
    /\ hookTodo \in [HookSessions -> SUBSET (1 .. Len(HookPlugins))]
    /\ \A s \in HookSessions : calling[s] = {} \/ \E p \in Plugins : calling[s] = {p}
    /\ DOMAIN calling = HookSessions
    /\ asked \subseteq HookCalls /\ abandoned \subseteq HookCalls
    /\ onHook \in [HookCalls -> {"none", "running", "returned", "failed"}]
    /\ DOMAIN heard = Plugins
    /\ \A p \in Plugins : \A i \in 1 .. Len(heard[p]) : heard[p][i] \in HookSessions \X Hooks

\* TriggerHook is not done with a hook before every plugin enabled at its snapshot was
\* called, whatever the ones before it did.
EveryPluginIsCalled ==
    \A c \in asked : \/ onHook[c] # "none"
                     \/ /\ hookAt[c[1]] = c[2]
                        /\ \E i \in hookTodo[c[1]] : HookPlugins[i] = c[3]

\* A plugin that acts on a session's end has acted on its start before, unless its handling
\* of the start was abandoned or failed, or it was switched off then.
StartIsHeardFirst ==
    \A s \in HookSessions, p \in Plugins :
        LET start == <<s, "session_start", p>> IN
        (start \in asked /\ start \notin abandoned /\ onHook[start] # "failed") =>
            \A last \in 1 .. Len(heard[p]) :
                heard[p][last] = <<s, "session_end">> =>
                    \E first \in 1 .. (last - 1) : heard[p][first] = <<s, "session_start">>

\* A hook reaches every enabled plugin, and the start of a session before its end (Manager's hook loops).
PluginsHearInOrder == HooksTypeOK /\ EveryPluginIsCalled /\ StartIsHeardFirst

\* A session gets past its hooks even if every plugin blocks: TriggerHook always returns.
HooksReturn == \A s \in HookSessions : hookAt[s] \in Hooks ~> hookAt[s] \notin Hooks
=============================================================================
