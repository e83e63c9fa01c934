---------------------------- MODULE PluginConfig ----------------------------
(***************************************************************************)
(* The settings of one built-in plugin (pkg/plugin/plugin.go,              *)
(* pkg/api/plugins.go, plugins/): the row in plugin_settings, the          *)
(* manager's record of it, what the running plugin works with, and the     *)
(* administrators who edit it from pages that show secrets masked.         *)
(***************************************************************************)
EXTENDS Naturals, FiniteSets

CONSTANTS
    Admins,     \* administrators with a settings page
    Secrets,    \* credentials an administrator may type
    Short,      \* the ones of at most 8 characters
    Addresses,  \* e-mail recipients
    NoKey,      \* the credential of a config without one
    Stars,      \* the mask of a short value, "********"
    MaxEdits,   \* calls started
    MaxRestarts \* restarts of the gateway

\* What is typed is neither empty nor all stars.
ASSUME SettingAssumption ==
    NoKey # Stars /\ \A s \in Secrets, d \in 0..2 : <<s, d>> \notin {NoKey, Stars}

Kinds == {"audit", "slack", "webhook", "email", "chatops"}

\* A credential as typed is <<s, 0>>; <<s, d>> is what d maskings leave of it.
Values == {<<s, d>> : s \in Secrets, d \in 0..2} \cup {NoKey, Stars}
Configs == [key : Values, to : SUBSET Addresses]
EmptyConfig == [key |-> NoKey, to |-> {}]
IsMask(v) == v = Stars \/ (v # NoKey /\ v[2] > 0)

VARIABLES
    kind,     \* which plugin this is
    seed,     \* the config server.yaml or defaultPluginConfigs gives it, or none
    setting,  \* the plugin_settings row: [stored, enabled, cfg]
    mgr,      \* the manager's pluginState: [enabled, configured, cfg]
    live,     \* what the plugin itself holds
    edit,     \* administrator -> page and call: [at, enabled, cfg, ok]
    edits,    \* calls started
    restarts, \* restarts of the gateway
    troubled, \* ghost: a store call failed, or a restart cut a call short
    mixed,    \* ghost: two calls were in flight at once
    outdated, \* ghost: a page was submitted after the config it shows had changed
    erased    \* ghost: a config was overwritten that nobody had asked to change

settingVars == <<kind, seed, setting, mgr, live, edit, edits, restarts, troubled, mixed, outdated, erased>>

NoChange == [at |-> "idle", enabled |-> FALSE, cfg |-> EmptyConfig, ok |-> FALSE]
InFlight(a) == edit[a].at \notin {"idle", "page"}
Seeds == {{}} \cup {{[key |-> <<s, 0>>, to |-> Addresses]} : s \in Secrets \ Short}

-----------------------------------------------------------------------------
\* The masks.

\* A value of at most 8 characters shows nothing, a longer one its ends; a mask masks again.
MaskSecretValue(v) ==
    CASE v \in {NoKey, Stars} -> v
      [] v \notin {NoKey, Stars} /\ (v[1] \in Short \/ v[2] = 2) -> Stars
      [] OTHER -> <<v[1], v[2] + 1>>

\* The log path of the audit plugin is no secret.
redactConfig(cfg) == IF kind = "audit" THEN cfg ELSE [cfg EXCEPT !.key = MaskSecretValue(@)]

\* Mutant: the stored secret is restored only when the submitted one is empty.
ReconcileConfig_Blank(new, old) == IF new.key = NoKey THEN [new EXCEPT !.key = old.key] ELSE new

\* A secret submitted exactly as shown is the stored one.
ReconcileConfig(new, old) ==
    IF kind # "audit" /\ old.key # NoKey /\ new.key = MaskSecretValue(old.key)
    THEN [new EXCEPT !.key = old.key] ELSE new

-----------------------------------------------------------------------------
\* What each plugin's Initialize accepts and keeps: [ok, live].

Kept(now) == [ok |-> FALSE, live |-> now]
Took(cfg) == [ok |-> TRUE, live |-> cfg]

InitAudit(now, cfg)   == {Kept(now), Took(cfg)}
InitSlack(now, cfg)   == {IF cfg.key # NoKey /\ ~IsMask(cfg.key) THEN Took(cfg) ELSE Kept(now)}
InitWebhook(now, cfg) == {IF cfg.key # NoKey THEN Took(cfg) ELSE Kept(now)}
InitChatops(now, cfg) == {IF cfg.key # NoKey THEN Took(cfg) ELSE Kept(now)}

\* Recipients are appended to the ones of earlier calls.
InitEmail(now, cfg) ==
    {IF cfg = EmptyConfig THEN Kept(now)
     ELSE [ok   |-> now.to \cup cfg.to # {},
           live |-> [key |-> IF cfg.key = NoKey THEN now.key ELSE cfg.key, to |-> now.to \cup cfg.to]]}

Initialize(now, cfg) ==
    CASE kind = "audit"   -> InitAudit(now, cfg)
      [] kind = "slack"   -> InitSlack(now, cfg)
      [] kind = "webhook" -> InitWebhook(now, cfg)
      [] kind = "email"   -> InitEmail(now, cfg)
      [] kind = "chatops" -> InitChatops(now, cfg)

-----------------------------------------------------------------------------
\* Startup.

\* Register, then Configure and SetEnabled with the setting, if there is one.
Loaded(s) ==
    IF s = {} THEN /\ live' = EmptyConfig
                   /\ mgr' = [enabled |-> TRUE, configured |-> FALSE, cfg |-> EmptyConfig]
    ELSE \E one \in s : \E r \in Initialize(EmptyConfig, one.cfg) :
            /\ live' = r.live
            /\ mgr' = [enabled |-> one.enabled, configured |-> r.ok, cfg |-> one.cfg]

SeedRows == {[stored |-> TRUE, enabled |-> TRUE, cfg |-> c] : c \in seed}

\* ListPluginSettings may fail; a setting it did not return is seeded over whatever is stored.
restart ==
    /\ restarts < MaxRestarts
    /\ restarts' = restarts + 1
    /\ edit' = [a \in Admins |-> NoChange]
    /\ \E listed \in BOOLEAN, wrote \in BOOLEAN :
          LET listedRows == IF listed /\ setting.stored THEN {setting} ELSE {}
              seeds == IF listedRows = {} /\ wrote THEN SeedRows ELSE {}
          IN /\ Loaded(listedRows \cup seeds)
             /\ setting' = IF seeds = {} THEN setting ELSE CHOOSE s \in seeds : TRUE
             /\ erased' = (erased \/ (setting.stored /\ setting'.cfg # setting.cfg))
             /\ troubled' = (troubled \/ ~listed \/ ~wrote \/ \E a \in Admins : InFlight(a))
    /\ UNCHANGED <<kind, seed, edits, mixed, outdated>>

-----------------------------------------------------------------------------
\* The administrators' calls.

BeginEdit(a) ==
    /\ edits < MaxEdits
    /\ edits' = edits + 1
    /\ mixed' = (mixed \/ \E b \in Admins \ {a} : InFlight(b))

\* The page shows the manager's record, masked.
listPlugins(a) ==
    /\ edit[a].at = "idle"
    /\ edit' = [edit EXCEPT ![a] = [at |-> "page", enabled |-> mgr.enabled,
                                    cfg |-> redactConfig(mgr.cfg), ok |-> FALSE]]
    /\ UNCHANGED <<kind, seed, setting, mgr, live, edits, restarts, troubled, mixed, outdated, erased>>

\* GetPluginSetting; any error, and no row, leave the submitted config as it is.
Submit(a, cfg, on) ==
    \E readable \in BOOLEAN :
        /\ edit' = [edit EXCEPT ![a] = [at |-> "configure", enabled |-> on, ok |-> FALSE,
                       cfg |-> IF readable /\ setting.stored THEN ReconcileConfig(cfg, setting.cfg) ELSE cfg]]
        /\ troubled' = (troubled \/ ~readable)

\* PUT config from the page: the secret retyped or left as shown, the recipients edited.
updatePluginConfig(a) ==
    /\ edit[a].at = "page"
    /\ BeginEdit(a)
    /\ \E key \in {edit[a].cfg.key} \cup {<<s, 0>> : s \in Secrets}, to \in SUBSET Addresses, on \in BOOLEAN :
          /\ kind # "email" => to = edit[a].cfg.to
          /\ Submit(a, [key |-> key, to |-> to], on)
    /\ outdated' = (outdated \/ edit[a].cfg # redactConfig(mgr.cfg))
    /\ UNCHANGED <<kind, seed, setting, mgr, live, restarts, erased>>

\* Configure: Initialize runs outside the manager's lock.
configure(a) ==
    /\ edit[a].at = "configure"
    /\ \E r \in Initialize(live, edit[a].cfg) :
          /\ live' = r.live
          /\ edit' = [edit EXCEPT ![a].at = "record", ![a].ok = r.ok]
    /\ UNCHANGED <<kind, seed, setting, mgr, edits, restarts, troubled, mixed, outdated, erased>>

\* Configure: the outcome is recorded under the lock.
recordConfig(a) ==
    /\ edit[a].at = "record"
    /\ mgr' = [mgr EXCEPT !.cfg = edit[a].cfg, !.configured = edit[a].ok]
    /\ edit' = [edit EXCEPT ![a].at = "enable"]
    /\ UNCHANGED <<kind, seed, setting, live, edits, restarts, troubled, mixed, outdated, erased>>

\* The manager's switch.
SetEnabled(on) == mgr' = [mgr EXCEPT !.enabled = on]

enable(a) ==
    /\ edit[a].at = "enable"
    /\ SetEnabled(edit[a].enabled)
    /\ edit' = [edit EXCEPT ![a].at = "store"]
    /\ UNCHANGED <<kind, seed, setting, live, edits, restarts, troubled, mixed, outdated, erased>>

\* enablePlugin and disablePlugin: the switch first, then the row is read.
setPluginEnabled(a, on) ==
    /\ edit[a].at \in {"idle", "page"}
    /\ BeginEdit(a)
    /\ SetEnabled(on)
    /\ edit' = [edit EXCEPT ![a] = [NoChange EXCEPT !.at = "get", !.enabled = on]]
    /\ UNCHANGED <<kind, seed, setting, live, restarts, troubled, outdated, erased>>

\* GetPluginSetting; any error counts as no row.
getSetting(a) ==
    /\ edit[a].at = "get"
    /\ \E readable \in BOOLEAN :
          /\ edit' = [edit EXCEPT ![a].at = "put",
                         ![a].cfg = IF readable /\ setting.stored THEN setting.cfg ELSE EmptyConfig]
          /\ troubled' = (troubled \/ ~readable)
    /\ UNCHANGED <<kind, seed, setting, mgr, live, edits, restarts, mixed, outdated, erased>>

\* UpsertPluginSetting.
upsertPluginSetting(a) ==
    /\ edit[a].at \in {"store", "put"}
    /\ edit' = [edit EXCEPT ![a] = NoChange]
    /\ \/ /\ setting' = [stored |-> TRUE, enabled |-> edit[a].enabled, cfg |-> edit[a].cfg]
          /\ erased' = (erased \/ (edit[a].at = "put" /\ setting.stored /\ ~mixed /\ setting.cfg # edit[a].cfg))
          /\ UNCHANGED troubled
       \/ troubled' = TRUE /\ UNCHANGED <<setting, erased>>
    /\ UNCHANGED <<kind, seed, mgr, live, edits, restarts, mixed, outdated>>

-----------------------------------------------------------------------------
\* A deployment's first boot.
SettingsInit ==
    /\ kind \in Kinds
    /\ seed \in Seeds /\ (kind = "audit" => seed # {})
    /\ setting \in {[stored |-> FALSE, enabled |-> FALSE, cfg |-> EmptyConfig]} \cup SeedRows
    /\ setting.stored = (seed # {})
    /\ mgr \in [enabled : {TRUE}, configured : {setting.stored}, cfg : {setting.cfg}]
    /\ live = setting.cfg
    /\ edit = [a \in Admins |-> NoChange]
    /\ edits = 0 /\ restarts = 0
    /\ troubled = FALSE /\ mixed = FALSE /\ outdated = FALSE /\ erased = FALSE

SettingsNext ==
    \/ restart
    \/ \E a \in Admins :
          \/ listPlugins(a) \/ updatePluginConfig(a) \/ configure(a) \/ recordConfig(a)
          \/ enable(a) \/ getSetting(a) \/ upsertPluginSetting(a)
          \/ \E on \in BOOLEAN : setPluginEnabled(a, on)

SettingsSpec == SettingsInit /\ [][SettingsNext]_settingVars

-----------------------------------------------------------------------------
Rows == [stored : BOOLEAN, enabled : BOOLEAN, cfg : Configs]
Edits == [at : {"idle", "page", "configure", "record", "enable", "get", "put", "store"},
          enabled : BOOLEAN, cfg : Configs, ok : BOOLEAN]

\* Every variable keeps its type.
SettingsTypeOK ==
    /\ kind \in Kinds
    /\ seed \in Seeds
    /\ setting \in Rows
    /\ mgr \in [enabled : BOOLEAN, configured : BOOLEAN, cfg : Configs]
    /\ live \in Configs
    /\ edit \in [Admins -> Edits]
    /\ troubled \in BOOLEAN /\ mixed \in BOOLEAN /\ outdated \in BOOLEAN

\* Between calls the stored setting, the manager's record and, when Initialize accepted it,
\* the plugin's credential are the same, unless a store call failed, a restart cut a call
\* short or two calls overlapped (updatePluginConfig writes the three one after another).
SettingsAgree ==
    (setting.stored /\ ~troubled /\ ~mixed /\ \A a \in Admins : ~InFlight(a)) =>
        /\ setting.cfg = mgr.cfg
        /\ setting.enabled = mgr.enabled
        /\ (mgr.configured /\ mgr.cfg.key # NoKey) => live.key = mgr.cfg.key

\* The mask a page shows in place of a secret never becomes the secret, stored or in use,
\* unless the store failed, two calls overlapped, or the page was older than the config
\* (ReconcileConfig compares with the mask of what is stored now).
MaskIsNeverKept ==
    (~troubled /\ ~mixed /\ ~outdated) => ~IsMask(setting.cfg.key) /\ ~IsMask(live.key)

\* setPluginEnabled: a setting is replaced by an empty one only if nothing was persisted
\* ("there's nothing to clobber"), and startup seeds only the first boot ("the DB wins").
NothingIsClobbered == ~erased

\* updatePluginConfig: once a call is over, undisturbed, a plugin that accepted its config
\* works with it ("changes made from the UI take effect without restarting the server").
ConfigTakesEffect ==
    (mgr.configured /\ ~troubled /\ ~mixed /\ ~outdated /\ \A a \in Admins : ~InFlight(a)) =>
        live.to = mgr.cfg.to

\* What the plugin page and the stored settings keep true.
PluginSettingsHold == SettingsTypeOK /\ SettingsAgree /\ MaskIsNeverKept
=============================================================================
