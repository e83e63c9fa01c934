# Orion Belt in TLA+

Orion Belt is a privileged-access gateway: users connect to a gateway over SSH,
HTTP or a browser terminal, the gateway authorises and records the session, and
forwards it over a connection that an agent on the target machine keeps open to
the gateway. This directory holds TLA+ models of the parts that keep state, the
TLC runs over them and TLAPS proofs. `PROJECT.json` maps every definition to the
lines it models.

## Inventory

| Component | State | Operations | Interacts through | What makes it correct |
|---|---|---|---|---|
| Agent registry, `pkg/server/server.go` | `Server.agents` under `agentsMu`; `machines.is_active`; the connected-agents gauge | connect, replace, unregister, admin edit/disconnect/delete | one goroutine per agent connection; API requests; the machine row | an entry belongs to a live handler; a replaced connection is closed; a served machine's row is active |
| Session tracker, `internal/livesessions` | `closing`, stop functions, a `WaitGroup` | `Begin`, `End`, `Drain` | shared by the SSH gateway and the browser terminal | a completed drain left nobody in flight; nobody live is missed |
| Gateway SSH sessions, `pkg/server`, `pkg/recording` | session row, recording, two channels, the gauge | `proxyToTarget` and its finaliser, `proxyConnection`, `Server.stop` | tracker, recorder, agent connection, store | what a user saw is recorded; a clean shutdown saves every recording; a stopped session ends |
| A command's data path, `pkg/agent`, `pkg/server`, `pkg/client` | pipes, channel windows, exit status | copy out, copy in, status, end of file | agent, gateway and client, each with its own goroutines | success means the whole output or file; a command that ended ends its session |
| Live watch, `pkg/recording/hub.go`, `pkg/api/session_watch.go` | the hub's subscribers, one channel per viewer | `Subscribe`, `Unsubscribe`, `Broadcast`, `CloseSession` | recorder lock, hub lock, session row | no double close, no send on a closed channel, nobody waits for ever |
| Agent link, `pkg/agent/agent.go` | `sshConn`, `dropped` (one place), `stopped` | connect, reconnect, heartbeat, `Stop` | gateway, network | no drop is missed or imagined; `Start` returns after `Stop` |
| Agent drain and update, `pkg/agent/manage.go` | `work` (active set, `draining`, `idle`), `<exe>.new`, the executable | `begin`, `drain`, `undrain`, `orion:update` | management channel, sessions, file system | a drain cuts only what it found; an update restarts into the binary it verified, after the work is over |
| Client link, `pkg/client/link.go`, `tunnel.go` | the gateway connection, `gone`, the open pipes | `get`, `redial`, `lost`, `adopt`, `close` | gateway, local connections | one connection at a time; a lost one is replaced; closing ends everything |
| Tunnels, `pkg/server/tunnel.go`, `resilience.go`, `pkg/agent/tunnel.go` | slots and grant cache per client connection, slots per agent | open, relay, drain | registry, grants | slots come back; a cached grant outlives the stored one for a bounded time |
| Kubernetes access, `pkg/kube`, `pkg/server/kube.go`, `pkg/agent/kube.go` | bindings in the cluster, locks per machine | reconcile, sweep, mark | registry, grants, cluster API | bindings converge to the grants |
| Browser terminal and files, `pkg/api/terminal.go` | WebSocket, agent channel, tracker entry, row, recording; audit log | open, copy, stop, finalise; one command per file operation | tracker, recorder, registry, agent | a terminal is in the gauge and the rows exactly while it runs; what changes or fetches files is audited |
| Access requests and grants, `pkg/auth`, `pkg/api`, `pkg/database` | `access_requests`, `permissions`, `permission_history`, OpenFGA tuples | approve, reject, expire, grant, edit, revoke | PostgreSQL under READ COMMITTED, one goroutine per request | decisions stand; a revoked grant stays revoked; history is complete |
| Risk policy, `pkg/common/risk*.go`, `pkg/api/risk.go` | the policy row, the request's level | validate, replace, evaluate, approve, escalate | requests, tags | nothing risky is approved unattended; an escalated request needs an administrator |
| Explanations, effective access, catalog, `pkg/auth`, `pkg/api/capabilities.go` | none of their own | several queries each | the same rows, changing meanwhile | they agree with the decision, up to the limits of their reads |
| Login and second factor, `pkg/api` | challenges, tickets, codes and limits in memory; the user row | login, enrol, verify, password, passkeys, admin edits | user row written back whole | single-use things are used once; no factor is lost |
| API credentials, `pkg/api/middelware.go`, `pkg/auth` | keys, sessions, tokens | look up, load the role, check | revocation, expiry, role changes | a good credential admits; privilege used was held |
| SSH CA, `pkg/ca` | CA key, serials, revocation cache | start, issue, renew, revoke, reload | store, several gateways | one authority; a revocation sticks |
| SSH entry, `pkg/server/server.go`, `pkg/client`, `pkg/agent` | which key or certificate is presented; the connection's identity | choose, authenticate, authorise | CA, users, machines, settings | a connection is taken for what it is and refused for a reason |
| Machines and accounts, `pkg/api`, `cmd/server` | machine, agent and user rows | enrol, edit, delete, bootstrap | registry, sessions, audit log | a failed enrolment leaves nothing; one first administrator; deleted rows are in the audit log |
| Plugins, `pkg/plugin`, `plugins/` | settings row, manager's copy, the running plugin | configure, enable, seed, `TriggerHook`, chat approval | every component | the copies agree; a mask never becomes a secret; a plugin that hangs stops nobody |
| Notifications, `pkg/api/notifications.go` | policy, preferences, notices | save, deliver, list | administrators and users | what is imposed is delivered; what is delivered is shown |
| Anomalies, `pkg/anomaly` | sessions, flags | check a session that starts | sessions of the same user | flags can be trusted |
| Schema migration, `pkg/database` | tables, columns, keys | `Migrate` | other processes that start | ends in the build's schema; times are converted once |
| Everything else | rows and configuration | queries, formatting, HTTP | | listed in `PROJECT.json` with the reason it is left out |

The hard behaviours are interleavings of goroutines that leave a critical
section and act afterwards on what they saw in it (registry, hub, link, drain),
rows read, changed and written back whole, several queries taken for one moment,
shutdown racing with sessions that are just starting, deadlines, half-open
connections, and processes killed between two statements. `PROJECT.json` lists
them under `hazards`, at the line where each bites. Where a passing property exempts the very
overlap a hazard is about, the hazard's note says so and what happens in it.

## Modules

The granularity is the same throughout: one action per critical section, per
SQL statement, and per operation on something another goroutine can see.
Payloads are counted or named, never spelled out. Time is a counter.

| Module | Models |
|---|---|
| `AgentRegistry` (`MCAgentRegistry` gives TLC the connection-to-machine function of the violation run) | `handleConnection`, `handleAgentConnection`, `DisconnectAgent`, `updateMachine`, `deleteMachine`, `keepConnAlive` |
| `SessionTracker` | `Tracker.Begin`, `End`, `Drain` |
| `GatewaySession`, extends `SessionTracker` | `proxyToTarget`, `executeCommand`, `startInteractiveShell`, `proxyConnection`, `Recorder`, `Server.stop`, the deadline of `runServer` |
| `ExecPipe` | a command, a terminal command, an upload or a download: agent pipes, both channels, status, client |
| `WebSession`, instantiates `SessionTracker` | `terminalWS`, its stop function and finaliser, the agent's `handleSession`, the drain of `webSessions` and the store's close after it; `files/*` with the audit entry |
| `LiveWatch` | `SessionHub`, `StopRecording`, `sessionWatchWS` |
| `AgentLink` | `Agent.Start`, `keepAlive`, `reconnect`, `connectToServer`, `signalDropped`, `Stop` |
| `ClientLink` | `gatewayLink`, `forward`, `keepClientAlive` |
| `Tunnels` | `handleClientTunnel`, `handleClientKube`, `relayChannels`, the grant cache, the slots, the agent's handlers |
| `KubeReconcile` | `ReconcileKube`, `Diff`, `runKubeReconcileLoop`, `markKubernetes`, the agent's apply, delete and sweep |
| `AgentWork` | `Agent.begin`, `drain`, `undrain`, `stageUpdate`, `installUpdate`, `manageCommand` |
| `AccessGrants` | the approval, rejection, grant, edit and revocation calls, statement by statement |
| `RequestRouting` | the policy's validation, `EvaluateRisk`, `createAccessRequest`, review |
| `AccessViews` | `CheckPermissionWithRemoteUser`, `ExplainAccess`, effective access, the catalog |
| `OneTimeCodes`, and `OneTimeToken`, what it promises | challenges, password tickets, browser codes, the rate limiter |
| `Accounts` | TOTP, backup codes, password, passkeys, administrator's edits of one user row |
| `Credentials` | the authentication middleware, keys, sessions and tokens |
| `Certificates` | `Authority.bootstrap`, issue, renewal, revocation and the cache of several gateways |
| `SSHEntry` | `LoadSigner`, the agent's signer, the gateway's authentication callbacks, `handleConnection`'s dispatch, `handleClientSession` and the checks of `proxyToTarget` |
| `Directory` | registration, install script, machine and user calls of API and command line, `setup` |
| `PluginConfig`, `PluginHooks`, `ChatOps` | settings of a plugin; hook dispatch with timeouts; approval of a request from a chat |
| `Notifications` | policy, preferences, delivery, the notice to administrators |
| `Anomalies` | `Check`, `Detect`, `Record` and the rows they read |
| `Migration` | `Migrate`, the conversion of time stamps, the repair of foreign keys |
| `MCLinks`, `MCGateway`, `MCSessions`, `MCManagement`, `MCCredentials`, `MCAccess` | the modules above side by side, for TLC |
| `SessionTrackerProofs`, `LiveWatchProofs`, `AgentRegistryProofs` | theorems about the module of that name |
| `GatewaySessionProofs` | theorems about `GatewaySession`, `WebSession`, `ExecPipe`, `PluginHooks` and `Migration` |
| `LinkProofs` | theorems about `Tunnels`, `ClientLink`, `AgentLink` and `KubeReconcile` |
| `AccessProofs` | theorems about `AccessGrants`, `RequestRouting` and `AccessViews` |
| `CredentialProofs` | theorems about `OneTimeCodes`, `Accounts`, `Certificates`, `Credentials` and `SSHEntry` |
| `ManagementProofs` | theorems about `AgentWork`, `PluginConfig`, `ChatOps`, `Notifications`, `Directory` and `Anomalies` |

Notes on the correspondence:

* **AgentRegistry.** `handler[c]` is the program counter of the connection's
  goroutine. `Register` and `Unregister` are the two sections under `agentsMu`;
  the row writes, the close of the previous connection and the publication of
  the gauge come after them, in steps of their own. A row is `is_active` and the
  number of the admin edit it carries, and `UpdateMachine` writes all of it
  from the record the handler holds, as the SQL does.
* **GatewaySession.** A session has three goroutines: the handler (`pc`), the
  copy of the output (`out`), and the copy of the input (`inDone`). Output is
  read, recorded and delivered in three steps, so that a stop or the finaliser
  can come between any two. A stop function closes the client's channel, and
  the agent's only if it was published (`agentCh`).
* **SessionTracker** is a specification of its own (`TrackerSpec`) and the
  gateway is proved to implement it. `End` is two steps because `wg.Done` comes
  after the unlock.
* **WebSession** has the tracker as an instance, `Web`. `End` is the first `defer`
  of `terminalWS`, so it runs last, after the row and the recording are closed
  (`"return"`, then `"over"`). `closeStore` comes after the terminals' drain,
  however that ended; a finaliser that is later still finds the store closed and
  its row stays active (`"stuck"`).
  A file operation is its commands on the host and its audit entry; those in
  `Listings` are `filesList`, which runs up to two commands and writes no entry.
* **AccessViews.** The rows of a query are a set of records, each with the stamp
  it was written with. Every query is a step and reads up to its limit, the
  newest requests and sessions or the first machines (`ExplainRequests`,
  `EffectiveMachines`, `CapRequests`, `CapSessions`, `CapMachines`). The catalog
  adds its candidates tier by tier, the strongest relationship first, drops what
  is covered, and is cut at `CatalogLimit` by status; of equals any may be kept or cut.
  The decision itself is three steps (role, OpenFGA, grant); `changed`
  counts what moved under a call, `old` is the store as it began.
* **PluginHooks.** A call of a plugin is `<<session, hook, plugin>>`. `TriggerHook`
  takes the enabled plugins at once (`asked`) and calls them in the order of
  their registration; a call that was given up (`abandoned`) may still return.
* **LiveWatch.** `Recorder.mu` is held from `StopRecording`'s lookup to its
  delete, so `GetRecorder` (`Recording`) waits meanwhile (`RecorderUnlocked`).
  `closes` counts calls of `close` on a viewer's channel.
* **AgentLink**, **ClientLink.** A connection may be half-open: its other end is
  gone and nobody has noticed. The heartbeat, the keepalive or TCP ends it.
* **AgentWork.** A file is who wrote it and whether it is whole, and an open
  descriptor follows its file across the other update's truncation or rename.
* **AccessGrants** follows one trio of user, machine and access type, with one
  pending request. An `UPDATE` is two moments, `Snapshot` and `Apply`: under
  PostgreSQL's READ COMMITTED the CTE reads the statement's snapshot, while the
  update waits for the row lock and applies to the newest version. Approvals by
  risk policy, other requests for the same trio, and the pairs of a bulk
  request are further `Approvers`, `Granters` or `Revokers`. The tuple is of user
  and machine only, so the pair's other access types grant (`OtherTypeGranted`) and
  revoke (`OtherTypeRevoked`) it too; `bereft` has the calls that had begun when a
  revocation deleted it.
* **RequestRouting.** A decision is a read of the request and a later,
  unconditional write, for the policy as for a reviewer.
* **ExecPipe.** Data is counted. Standard output and standard error share the
  receive window of the agent's channel, and only a read gives it back; the
  channel library is external and is modelled by that.
* **Tunnels.** A peer may end its direction and never close the other; the drain
  timer of a relay then ends it. The grant cache remembers when it was filled.
* **KubeReconcile.** A grant is its expiry, a binding the expiry it was applied
  with. `Diff` is an operator over both; its plan is applied operation by
  operation over the connection read before the lock. An operation is sent, takes
  effect at the agent or is refused by the cluster, and is answered. When the connection ends
  meanwhile the agent's goroutine goes on (`adrift`) and may still take effect, under
  a later reconcile. The listing of the grants and the look-up of a user may
  fail (`MaxFaults`): the first ends the reconcile, the second leaves the grant out.
* **Accounts**, **Directory.** A call reads a row, works on its copy and writes
  the whole row. A secret, a passkey or a row is named by the call that made it.
  Registering a passkey is three steps, between which the pending ceremony can be
  loaded or deleted by another request. A machine's record has its tags, its
  `agent_id` and its active flag, which `POST` and `PUT` write; `handSet` has the
  machines whose `agent_id` a request named.
* **SSHEntry.** A session reads the machine, checks the permission (a role is
  enough, else a grant) and looks the agent up in three steps (`ask`); `since`
  collects what was so at some moment from the first to the last of them.
* **Notifications.** `GET` clamps what it answers and stores nothing; `PUT` clamps
  what it stores; a delivery decides on what is stored.
* **PluginConfig.** A secret that was masked `d` times is `<<s, d>>`, so a mask
  that is stored by mistake can be told from the secret.
* **Migration.** Each statement is a step and a process may be killed before
  any; the conversion of the time stamps is one transaction, after a query
  outside it. What an older build may have left is the set of initial states.

The composite modules put components that share no state side by side: `part`
names one of them, chosen initially, and only it moves. Nothing is lost by this,
since two parts that share no variable cannot disturb each other and every
property speaks of one part; components that do interact (tracker and gateway,
hub and recorder, slots and relays, grants and bindings) are in one part, in one
module. A part that does not move starts in a single state, so that the parts'
state counts add up instead of multiplying.

## Runs

| Run | Parts and instance | Shows |
|---|---|---|
| `gateway` | a shell and a command, no output, shutdown at any moment; two tunnels, one slot, a grant that comes and goes; two reconcilers, two grant changes, one reconnect, one failed look-up or operation | a completed drain leaves nobody in flight and missed nobody (`DrainIsWhole`); a grant that is gone lets tunnels in for no longer than the cache's lifetime (`TunnelGrantsHold`); a reconcile that reports success leaves the bindings as the grants say, but for what changed or was swept since it read, a user it could not look up, and an operation of a lost connection that landed since (`ReconcileIsSound`) |
| `links` | one tunnel and one kubectl connection, each alone; a forward with one stream and three gateway connections; an agent with six connections and two outages; two viewers, capacity 1; the reconcilers with one change and operations that land late | every slot comes back; client and agent notice a lost connection, make one new one and only one; stopping stops; viewers are let go and no channel is closed twice; bindings converge to the grants |
| `sessions` | a shell with 2 chunks; a terminal and a shutdown; a file operation and a listing; a command with 3 units on each descriptor, window 2, pipe 1; two plugins and a session; two migrating processes, two tables, one kill; three agent connections of two machines, one drop, one admin request | registry entries have live handlers and replaced connections are closed (`RegistryIsSound`); a row never edited is active only while a handler will still write it (`RowFollowsRegistry`); replaced handlers end (`ReplacedHandlerFinishes`); what was seen is recorded, also on a clean stop (`RecordingsAreKept`); terminals are counted, a shutdown in time closes their rows and recordings before the store, downloads, uploads, new directories and deletions are audited (`WebWorkIsAccounted`); success means whole output (`ExecIsSound`); every plugin that was on hears a session's start before its end (`PluginsHearInOrder`); the schema is the build's (`MigrationIsSafe`); stopped shells and terminals (`StoppedWorkFinishes`), commands (`ExecFinishes`), hooks and migrations (`HooksAndStartsFinish`) end |
| `management` | one drain, one undrain, two updates, two pieces of work; two administrators and a restart on one plugin's settings; two chat clicks; policy, preferences and a delivery; two polls; enrolment on four ways; two edits of tags, `agent_id` and active flag, two deletes, a session; six ways to make an account; two sessions of one user | an undisturbed drain cuts only what it found and is woken; a lone update restarts into what it verified; settings, row and plugin agree; the chat says what happened; impositions are honoured, nothing comes that is not shown, and notices come once; failed enrolments leave nothing but an account that an `agent_id` cut off, first administrator once, lost edits and audit entries only as named; flags are right except for overlapping sessions |
| `credentials` | two challenges, three verifiers, two tickets, two codes, two clients; three calls on one account; one API request; two gateways with two serials; one person and one agent with a restart | one-time secrets are used once (refinement of `OneTimeToken`); the rate is bounded; a password needs its second factor, a backup code is taken once after it was given, roles were given; good credentials admit and privilege used was held; one authority, revocations stick; a connection enters as itself and is refused for a cause, and a session is proxied only for a person with a grant or a role, to a machine there, active and connected, each at some moment since it was asked for |
| `access` | calls on one trio, of all kinds but rejections, and of all kinds but edits with the pair's other access types beside them; two machines, two logins, every read limit 1, two changes under a call; one request, two edits of policy or tags, two reviewers | revoked stays revoked, versions and grants are lost only in the ways named, decisions stand, a grant created after every revocation of the pair has its tuple; explanation, effective access and catalog agree with the decision, up to their read limits and when nothing (for the verdict, at most one thing) changed under the call; only low risk is approved unattended and an escalated request needs an administrator |
| `agent_registry_race` | 3 connections, 1 machine, 1 drop | violation: a served machine's row goes inactive |
| `agent_work_undrain` | 2 pieces of work, 1 drain, 1 undrain | violation: the ended drain's timer closes later sessions |
| `access_grants_history` | an approval, a grant, an edit | violation: a version is missing from `permission_history` |
| `migration_twice` | two processes that start together, none killed | violation: time stamps are rewritten twice |
| `exec_stderr` | a command with 3 units of standard error, window 2 | violation: the command has exited and its session never ends |
| `gauge_leak` | a shell and a command | violation: the active-session gauge counts a session that is over |

A property of a composite run is a conjunction of named parts, each defined
with its comment in the component's module just above it; TLC reports the
conjunction and the state shows which part.

**Bounds.** Every race modelled is between at most two goroutines about one
object, with at most one further party (an admin, a deadline, a third call)
that changes it; the instances have that many and one more where it is cheap.
Three connections give a replacement beside a second machine, or a replacement of a
replacement (`agent_registry_race`); two pieces of work give
one found by the drain and one taken after it; two chunks with a channel of
capacity 1 give a full channel; three units over a window of 2 and a pipe of 1
give a full pipe behind a full window; one slot and two tunnels give a refusal
and a slot that has to come back; a time to live of 1 with a clock to 2 gives an
entry just alive, just expired and replaced. The limits of the views' reads (50,
200, 5000, 10000) are 1, under two requests, sessions and machines, so that each is
both met and exceeded; `CatalogLimit` is 2. `links` has no failing look-ups, since its
question is whether bindings converge once faults have stopped. Connections of one
machine are named in the order in which they dial, and the machine an administrator
acts on is the one that may reconnect (or may not); both lose nothing, since names
are all that is fixed. The last connection of a bound does not break, so the bound never keeps a lost link from being restored. `gateway`
has no output because its properties do not mention it, and `sessions` has, with
one session. Where a component has several entry points that never touch the same
rows (the parts of `management` and `credentials`), each is a part of its own
rather than all at once. The runs set `CHECK_DEADLOCK FALSE`, since in each model
the system stops once the bounded inputs (connections, commands, calls) are used
up.

**Fairness** is weak fairness of a goroutine that can run: handlers, copies,
waiters, the maintenance loops, the steps of shutdown. It is never assumed that a
user leaves, a command or a plugin ends, an administrator acts, or the shutdown
deadline passes. What is assumed beyond scheduling, and why:

| Where | Assumed | Because |
|---|---|---|
| `AgentLink`, `ClientLink`, `KubeReconcile` | the other side becomes reachable again and a retried connection is then made | without it nothing can reconnect; the retry loops have no limit |
| `AgentLink`, `ClientLink`, `Tunnels` | a half-open connection is noticed | heartbeat, keepalive and the drain timer have deadlines |
| `GatewaySession`, `WebSession` | opening a channel is answered or fails | the keepalive closes a connection whose peer is silent |
| `PluginHooks` | a call is given up after its time | `callHook` waits on a timer |
| `KubeReconcile` | the clock, the loop and the sweep go on | tickers |
| `Migration` | a process that is not killed goes on | kills are bounded |

## Refinement

* `OneTimeToken` says what a login ticket or a browser code is: issued once,
  redeemed at most once and only while it lives, never back. `OneTimeCodes`
  instantiates it twice, with mappings from the store's map, the clock and the
  redemptions; `OneTimeUse` is checked in `credentials` and proved for any number
  of them.
* `GatewaySession` and `WebSession` each implement `SessionTracker` (`TrackerSpec`):
  `GatewayUsesTracker` and `WebUsesTracker` prove it for any number of sessions,
  and the tracker's own theorems are then cited for both.

## What the violations say

Six runs show a place where the code and its own comment or document differ;
`findings` quotes both. The passing property beside each says how far the promise
does hold.

| Run | What happens | What holds |
|---|---|---|
| `agent_registry_race` | the row of a machine that reconnects while its old handler leaves stays inactive | `ReplacementKeepsActive` |
| `agent_work_undrain` | a drain that was ended still fires its timer | `UndisturbedDrainCutsFound` |
| `access_grants_history` | a version overwritten by an overlapping update is not in the history | `VersionLostOnlyToOverlap` |
| `migration_twice` | two gateways that start together convert time stamps twice | `RewrittenOnceUnlessRaced` |
| `exec_stderr` | more standard error than the window holds the session open for ever | `ExecFinishes` |
| `gauge_leak` | a session whose agent channel cannot be opened is counted for good | `TerminalAccounted`, for browser terminals |

### Further statements that do not hold

These are defined in the modules, next to the weaker one that does hold and
that a run checks, but are in no run of their own. TLC refutes each when it takes the place
of the properties in the module's run (the second with `Shells = {}`).

| Statement | Module | What happens instead | Checked in its place |
|---|---|---|---|
| `NoReconnectAfterStop` ("no reconnecting after it", `pkg/agent/agent.go:48`) | `AgentLink` | a reconnect past its check of `stopped` stores its connection | `StartReturns` |
| `StoppedSessionsFinish` for commands (`pkg/server/server.go:976`) | `GatewaySession` | a command stopped while its agent channel is being opened, and not yet published, holds up shutdown to the deadline | the same for shells |
| `FirstAccessIsFlagged` (`docs/RISK.md:73`) | `Anomalies` | of two first sessions that start together each finds the other's row and neither is flagged, or the flag's write fails | `FirstFlaggedUnlessOverlap` |
| `StoppedTerminalsFinish` ("Shutdown ends the session through stop", `pkg/api/terminal.go:136`) | `WebSession` | a stop that comes before the WebSocket is published finds nothing to close, and nothing looks again | `TerminalsFinish` |
| `HostCommandsAudited` ("the audit log is their only record", `pkg/api/terminal.go:512`) | `WebSession` | `filesList` writes no audit entry; those of the others are written with the request's context, which ends with the client | `FileOpsAudited` |
| `BroughtInLine` ("brings a cluster's Orion Belt bindings in line", `pkg/server/kube.go:111`) | `KubeReconcile` | any error of `GetUser` drops the grant: the binding is deleted and the reconcile succeeds; an operation left behind by a lost connection undoes a later reconcile | `ReconciledIsInSync`, `KubeConverges` |
| `GrantHasTuple` ("Write/delete tuples on grant/revoke", `docs/ROADMAP.md:232`) | `AccessGrants` | revoking another access type deletes the pair's tuple, and a grant renewed in place returns before it would write it again | `CreatedGrantIsUsable` |
| `ReasonIsReal` ("can never disagree with enforcement", `pkg/auth/explain.go:18`) | `AccessViews` | a role or grant that goes between the queries leaves OpenFGA as the reason, on a gateway that has none | `ExplanationIsTrue` |
| `PendingIsNotOffered` (`pkg/api/capabilities.go:321`) | `AccessViews` | a pending request older than the ones that are read is offered again | `CatalogIsHonest` |
| `ShownIsWhatHappens` ("the user is shown back exactly what will happen", `pkg/common/notification_policy.go:169`) | `Notifications` | `GET` clamps to the policy of the moment, deliveries decide on what is stored: after a change of policy a channel is shown on and left off | `DeliveredIsShown` |
| `EverySessionKept` ("copied into the audit entry first", `pkg/api/api.go:1297`) | `Directory` | a session opened after the listing cascades away uncopied; the command line copies none | `SessionsKeptUnlessLate` |
| `PlainKeyStillWorks` (comment of `LoadSigner`, `pkg/client/signer.go:18`) | `SSHEntry` | a valid certificate is preferred also after the authority was switched off, and is refused | `RefusedForCause` |
| `ServiceAccountsConnect` (`docs/SSH_CA.md:95`, `pkg/server/server.go:560`) | `SSHEntry` | with `auth.mfa_required` a service account, which has no second factor, is refused (`pkg/server/server.go:573`) | `RefusedForCause` |
| `ConfigTakesEffect` | `PluginConfig` | the mail plugin appends its recipients at every `Initialize`, so a removed one stays until a restart | `SettingsAgree` |
| `NothingIsClobbered` | `PluginConfig` | a failed read is taken for "nothing stored" and the settings are replaced by empty ones | `SettingsAgree` |
| `TagStays` | `Directory` | the agent's connection writes the record of its authentication at its end | `EditLostOnlyToHolder` |

Modelling also showed these, which no property states:

* the connected-agents gauge is published outside the lock; both drains of a
  shutdown share one deadline; a failed rename undrains a drain that an
  operator had asked for; a request can be approved with no grant written;
* a renewal over a live link does not check revocation, and a default lifetime
  above the maximum is not clamped; an agent that was away until its certificate
  expired still presents it;
* a reload of the revocation cache that listed before a revocation and swaps
  after it forgets that revocation until the next reload;
* a caller of `gatewayLink.get` waits for the dial lock without its own time
  limit, and `forward` waits for its open pipes before it closes the link;
* a `PUT` that changes a machine's `agent_id` leaves the old account behind, and
  nothing removes it;
* a file operation whose client leaves has no audit entry, since the entry is
  written with the request's context;
* a browser terminal whose channel the gateway closes leaves the agent's shell
  and its work entry until the shell exits;
* two confirmations of one TOTP enrolment can give the account its backup codes
  twice (see Proofs);
* two reviewers who both read a request as pending overwrite each other, the
  policy included;
* a chat call that times out may report a failure of an approval that was made;
* an exit status may overtake output still on its way, so a connection lost in
  between reports success for a truncated output.

## Proofs

Every theorem is of the shape `Spec => []P`, for every value of the constants
that satisfies the module's assumptions. The argument is the same each time: an
invariant `Inv` with `Init => Inv`, one lemma that every step keeps it (one case
per action, one leaf per conjunct the action can disturb), and `Inv => P`. The
property itself is seldom inductive; what has to be added is the table below.
The less obvious invariants were checked by TLC first, on the instance of their run.

`SessionTrackerProofs`, `GatewaySessionProofs` and `LiveWatchProofs`:

* `TrackerInvariant`: the `WaitGroup` is the number of sessions in flight, the map
  of stop functions has exactly the live ones, and after `closing` each of them
  was or will be stopped. That `Wait` returns only when nobody is in flight
  needs the counter to be that number, which needs `Begin` to be refused and `End`
  to count once. `DrainKeepsItsPromise` is the property `DrainIsWhole`.
* `GatewayUsesTracker`: every gateway step is a tracker step or leaves the tracker
  alone, so the tracker's theorems hold of the gateway (`GatewayDrainIsWhole`).
* `SessionInvariant` ties the position of a session's handler to its place in
  the tracker, its recording, its channels and its output goroutine: past the
  proxy, that goroutine has ended or has a closed channel to write to. Without
  that clause a chunk could be delivered after the buffer was taken.
  `GatewayKeepsRecordings` follows, for a clean stop with `DrainIsComplete`.
* `WatchInvariant`: the hub has exactly the open channels, a channel not closed
  was never closed, and a viewer between `Subscribe` and its second check has a
  closed channel only if the session's end closed it. `NoPanic` needs this at
  `Unsubscribe`, `WatcherWillBeClosed` at the second check.

| Module, theorem | Property | What the invariant adds, and where it is needed |
|---|---|---|
| `GatewaySessionProofs`, `WebUsesTracker`, `WebWorkStaysAccounted` | `WebWorkIsAccounted` | `TerminalOK`: a terminal's row and recording are open exactly at certain steps of its handler, at all of which the tracker has it as live. The gauge is raised and lowered with the row, so its value is a cardinality that changes by one. `RowIsEnded`: a finaliser that finds the store closed comes after an expired drain, since one in time (`WebTrackerKeepsPromise`) would have waited for it |
| same, `ExecStaysSound` | `ExecIsSound` | `Flow`: what was written is in the pipe, in the window or with the client, and the window is whole. `Course`, `Success`: a status 0 was sent after the pipe was empty, and the gateway returns only with its channel drained |
| same, `PluginsAlwaysHear` | `PluginsHearInOrder` | `CallsFollowSession`: which calls of a session exist, run or are given up follows from how far its hook is; `TodoIsFresh`: what is still to be called was asked for and not called; `HeardIsReturned`: what a plugin heard is a call that returned. The last is needed where an abandoned start returns late, after the end was announced |
| same, `MigrationInvariant`, `MigrationStaysSafe` | `MigrationIsSafe` | `SchemaInv`: how far a process is says which repairs are behind it (`TablesFirst`, `RepairsLast`, `FromTheFirst`). `PassedInOrder`: a foreign key that every process is through with is in order; one that is through may find it dropped again by another, which is why the clause speaks of all. It needs `OthersGo`: between its listing and its add a process has found, or has removed, every key under another name. `OneConverts`: without a race one process converts at a time, and what it listed is still unconverted |
| `AgentRegistryProofs`, `RegistryStaysSound`, `RowsFollowRegistry` | `RegistryIsSound`, `RowFollowsRegistry` | `HandlerOK`: a handler's `previous` is of its machine and no longer in the map. `ReplacementsOnly`: with no drop, disconnect or edit, every handler that ends finds itself replaced, so nobody deactivates the row |
| `LinkProofs`, `TunnelGrantsAreFresh` | `TunnelGrantsHold` | `CacheIsFresh`: an entry ends at most `GrantTTL` after the store last held the grant |
| same, `SlotsMatchHandlers` | | `SlotsAreCounted`: both counters are the number of handlers that hold a slot, on every return; with it `SlotsComeBack` is about handlers, not about numbers |
| same, `ClientLinkStaysSound` | `ClientLinkIsSound` | `DialsAlone`: who dials has the lock and the link has no connection; `RedialsOnce`, `LinkStaysClosed`: a connection is redialled only after it was retired, and not after `close` |
| same, `LinkStaysWatched` | `LinkIsWatched` | `SignalsOnce`: one signal per lost connection, in the channel or on its way, and none left once it was taken. This is why one place is enough |
| same, `ReconcileStaysSound` | `ReconcileIsSound` | `PlanLeadsThere`: while a plan is applied, a binding that nothing disturbed is what was read, or its operation is still in the plan or at the agent; `WantIsListed`: what was read is what is granted, but for what changed or could not be looked up (`since`, `astray`); `OneReconcile`: past the lock there is one |
| `AccessProofs`, `GrantsStayKept`, `DecisionsStand` | `GrantsAreKept`, `DecisionStands` | `RowsWereCreated`, `TargetsAreRowsOrRevoked`: a row that a half-done statement names is there or was revoked, and its id is not created again. `SawNoneActive`: who inserts saw only rows that do not count and never will. `LateDecidersAreEarly` gives the action property. `CreatedGrantIsUsable` needs that a call whose row is later than every deletion of the pair's tuple is not in `bereft` |
| same, `RoutingStaysSafe` | `RoutingIsSafe` | `PoliciesAreValid`, `DecisionIsJudged`: the decision stored is that of the policy it was judged by, which was valid; `DecidersMay` carries a reviewer's check, and the policy's, over to the write |
| same, `ViewsAlwaysAgree` | `ViewsAgree` | `OneDiffers`: under at most one change only the role, OpenFGA's answer or the grants differ from what they were as the call began. `DecisionFollows`: so what the three steps of the decision have passed is passed by the store as it was or as it is. `ReadsFollow`: under no change, what a call has read is what the store holds up to the limit. `CatalogIsHonest` is by facts on `Collected` tier by tier (`AddToFacts`) |
| `CredentialProofs`, `OneTimeUseHolds` | `OneTimeUse` | the refinement of `OneTimeToken`, twice: whatever is in the table was issued and not redeemed, and a sweep takes out only what is past its end |
| same, `ChallengesAreUsedOnce`, `LoginStaysLimited` | `LoginIsLimited` | `UsedIsRemembered`: a challenge that was used is in the table or has expired, full table or not. `IsTail`: the times the limiter keeps are the last ones it admitted, and all it dropped, request by request or in a sweep, are out of the window; so a full limit's worth back is out of it when there is room |
| same, `AccountStaysGuarded` | `AccountIsGuarded` | `CallsAreUpToDate`: as long as no write was stale, a call that no write has overtaken holds the row and the passkeys as they are. `CodesLeft`: a code the account still has was not accepted |
| same, `CertificatesStayHeld` | `CertificatesHold` | `ToldIsKept`: what a gateway was told is in its cache and in the list about to replace it, or has expired |
| same, `CredentialsStayJudgedRight` | `CredentialsAreJudgedRight` | `RequestsRemember`, `JudgedByHeld`: a request in flight carries what has been good and held since it came in |
| same, `EntryStaysRight` | `EntryIsRight` | `StandsForOwner`, `PersonDialsInTime`: an identity follows from what was presented; a certificate that has expired in flight was overtaken by time. `AskInv`: at each of the three steps, `since` has what the steps before it found, and what is so now |
| `ManagementProofs`, `DrainsAreOrderly`, `LoneUpdatesAreVerified` | `DrainIsOrderly`, `LoneUpdateIsVerified` | `DrainHolds`: undisturbed, nothing begins after a drain, so what is active was found by it, and at the cut is what it cuts. `LoneStaged`: alone, the staged file is whole and its own |
| same, `PluginSettingsStayTrue` | `PluginSettingsHold` | `Agreement`: while nothing has overlapped or failed, at most one call is in flight, and how far it is says which of the three copies are new |
| same, `ChatStaysSound` | `ChatIsSound` | `Stands`: an approval between its update and its grant, and an answer not yet posted, still hold of the request |
| same, `NoticesStayHonest` | `NoticesAreHonest` | `ClampIsHonest`, a lemma on `ClampPrefs` for any normalised policy: what is delivered on any preferences is in the clamped ones; `PollsInv`: a poll about to create the notice is alone and found none |
| same, `DirectoryStaysConsistent` | `DirectoryIsConsistent` | `RecordsInv`: every copy of the machine's record is of one its enrolment made; `AgentsInv`: its `agent_id` is still its own account's unless a request named another; `TagsInv`: as long as nobody held one at the last edit, all copies have its tags; `RowsInv`: between list and delete the sessions are those listed and late ones |
| same, `FlagsStayTrustworthy` | `FlagsCanBeTrusted` | `TimesInv`: start times tell sessions apart, hence `ListIsFull`: the list has every session or as many as the limit, by the newest session left out (`LeastMember`); `AroundTheClock` on hours modulo the day |

Assumptions on the constants are named where they are declared and TLC evaluates
them in every run. They say that sets that are counted are finite (`SessionsFinite`,
`TunnelAssumption`, `RegistryAssumption`, `TerminalAssumption`, `AnomalyAssumption`);
that capacities, lifetimes and bounds are naturals, positive where the code divides
or waits by them (`WatchAssumption`, `LinkAssumption`, `ClientLinkAssumption`,
`KubeAssumption`, `CodeAssumption`, `CredentialAssumption`, `CertAssumption`,
`EntryAssumption`, `ChatAssumption`, `NotifyAssumption`, `UnitsAssumption`, `RoutingAssumption`,
`ViewsAssumption`);
and that the kinds of calls are disjoint and the marker for "none" is none of the
values (`SessionAssumption`, `CallsAssumption`, `RowAssumption`, `AccountAssumption`,
`WorkAssumption`, `ContentAssumption`, `SettingAssumption`, `DirectoryAssumption`,
`HooksAssumption`, `MigrationAssumption`; the last two also that no plugin and no
foreign key is listed twice).
Beyond these the proofs use the library's facts on finite sets, sequences and
(`LeastMember`) well-founded relations.

One attempt failed for a reason. Of a backup code the claim had been that it is
accepted once, ever, unless a write was stale or failed, which TLC confirmed with
three calls. The proof of `CodesLeft` does not go through at `mfaConfirm`: the
pending enrolment is deleted after the row is written (`mfa.go:95-99`), so a second
confirmation that loads it in between finds an up-to-date row and gives the
account the same codes again, those already spent included. With five calls TLC
finds it too. `accepts` now counts since the account was last given the secret,
which is what the code keeps, and this is proved for any number of calls.

Every invariant and every action property of a passing run is the statement of a
theorem. Only model-checked is liveness, which needs fairness and `ENABLED` and is
out of this prover's reach: `ReplacedHandlerFinishes`, `WatchersEnd`, `AgentRecovers`,
`LinkComesBack`, `SlotsComeBack`, `KubeConverges`, `ExecFinishes`, `StoppedWorkFinishes`
and `HooksAndStartsFinish`.

## Not modelled

* **Reports, dashboard, listings**: read-only queries and formatting.
* **SDKs, web console, the commands of `oadmin`**: one request each, no state.
* **Cryptography, password hashes, signatures, passkey assertions, wire formats**:
  taken to be right; a check succeeds for the key it belongs to and fails otherwise.
* **Terminal requests** (window size, environment), and the **HTTP proxy to the
  Kubernetes API**: they pass data on and keep none.
* **Renaming** a machine, an `agent_id` that names a person's account, access types
  that only the database knows, `EffectiveForMachine` (the same rows by machine), and
  a suggested capability's login, tags and order among equals.
* **Templates and the text** of mails, chat cards and explanations.
* **Status, logs, diagnostics and restart** of the management channel.
* **`Unregister`, `ShutdownAll` and plugins from shared objects**: no caller
  outside start and stop.
* **SQL failures** other than those the handlers tell apart, and a **crash of the
  gateway**, after which nothing in memory survives: only what `Migration`,
  `Certificates`, `PluginConfig` and `SSHEntry` keep in the store or on disk is
  modelled across a restart.

## Plan

What is left, in this order:

1. Abstract specifications: a hub that only delivers and ends; a registry with
   the row written under the lock, implemented by the code on the behaviours
   without the race.
2. `GatewaySession` and `WebSession` in one model, with both drains under the one
   deadline they share.
3. `AccessGrants` with two requests of one trio and their routing in one model.
