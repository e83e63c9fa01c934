---------------------------- MODULE MCManagement ----------------------------
(***************************************************************************)
(* Managing machines, people and plugins, and what they are told, checked   *)
(* for safety in one run: drains and updates of an agent, plugin settings,  *)
(* approvals from a chat, notifications, the directory of machines and      *)
(* accounts, and the flags on unusual sessions.  The parts share no state,  *)
(* so a behaviour chooses one of them and only that one moves.              *)
(***************************************************************************)
EXTENDS AgentWork, PluginConfig, ChatOps, Notifications, Directory, Anomalies

VARIABLE part

managementVars ==
    <<part, vars, settingVars, chatVars, notifyVars, dirVars, anomalyVars>>

\* A drain with one update, and two updates that overlap, are parts of their
\* own; so are two administrators at the settings, and a restart while one is;
\* preferences, and the notices of a policy; the enrolment of machines, the
\* edits of an enrolled one, and accounts.
Parts == {"drain", "updates", "settings", "restart", "chat", "prefs", "notices",
          "enrolment", "edits", "accounts", "anomalies"}

\* A part that does not move starts in one state.
AtRest ==
    /\ part \notin {"settings", "restart"} => kind = "email" /\ seed = {}
    /\ part # "chat" => chatOn = {"slack", "teams"}
    /\ part # "enrolment" => ~sshCA
    /\ part # "anomalies" =>
          \A s, r \in Logins : login[s] = login[r] /\ login[s].hour = 0 /\ login[s].on \in Sensitive

ManagementInit ==
    /\ part \in Parts
    /\ Init /\ SettingsInit /\ ChatInit /\ NotifyInit /\ DirectoryInit /\ AnomaliesInit
    /\ AtRest

DrainNext == Next /\ Cardinality({u \in Updates : update'[u] # "none"}) <= 1
UpdatesNext == Next /\ \A d \in DrainCmds : waiter'[d] = "none"

AgentNext ==
    \/ part = "drain" /\ DrainNext
    \/ part = "updates" /\ UpdatesNext

PluginsNext ==
    \/ part = "settings" /\ SettingsNext /\ UNCHANGED restarts
    \/ part = "restart" /\ SettingsNext /\ Cardinality({a \in Admins : edit'[a] # NoChange}) <= 1

EnrolmentNext == MachinesNext /\ UNCHANGED <<editing, link, rows>>
EditsNext ==
    /\ MachinesNext
    /\ \A e \in Enrolments \ Registrations : enrol'[e] = "idle"

DirectoryNext ==
    \/ part = "enrolment" /\ EnrolmentNext
    \/ part = "edits" /\ EditsNext
    \/ part = "accounts" /\ AccountsNext

NotificationsNext ==
    \/ part = "prefs" /\ PrefsNext
    \/ part = "notices" /\ NoticesNext

ManagementNext ==
    /\ UNCHANGED part
    /\ \/ /\ AgentNext
          /\ UNCHANGED <<settingVars, chatVars, notifyVars, dirVars, anomalyVars>>
       \/ /\ PluginsNext
          /\ UNCHANGED <<vars, chatVars, notifyVars, dirVars, anomalyVars>>
       \/ /\ part = "chat" /\ ChatNext
          /\ UNCHANGED <<vars, settingVars, notifyVars, dirVars, anomalyVars>>
       \/ /\ NotificationsNext
          /\ UNCHANGED <<vars, settingVars, chatVars, dirVars, anomalyVars>>
       \/ /\ DirectoryNext
          /\ UNCHANGED <<vars, settingVars, chatVars, notifyVars, anomalyVars>>
       \/ /\ part = "anomalies" /\ AnomaliesNext
          /\ UNCHANGED <<vars, settingVars, chatVars, notifyVars, dirVars>>

ManagementSpec == ManagementInit /\ [][ManagementNext]_managementVars
=============================================================================
