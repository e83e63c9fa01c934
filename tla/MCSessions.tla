----------------------------- MODULE MCSessions -----------------------------
(***************************************************************************)
(* What has to come to its end, checked in one run: sessions that a stop    *)
(* interrupts, browser terminals and file operations, commands with their   *)
(* output, hooks of plugins that hang, the migration of the schema by       *)
(* processes that start together, and the handlers of agents' connections   *)
(* that were replaced.  The parts share no state, so a behaviour chooses    *)
(* one of them and only that one moves.                                     *)
(***************************************************************************)
EXTENDS GatewaySession, WebSession, ExecPipe, PluginHooks, Migration, AgentRegistry

VARIABLE part

workVars == <<vars, webVars, execVars, hookVars, migVars>>
sessionsVars == <<part, workVars, registryVars>>

Parts == {"ssh", "web", "files", "exec", "hooks", "migration", "registry"}

\* Two plugins, in the order of their registration; two tables, in the order
\* in which their keys are repaired.
TwoPlugins == <<"audit", "email">>
TwoKeys == <<"k1", "k2">>

\* Two machines, one of which reconnects.
MachineOfConn == [c \in Conns |-> IF c = "c3" THEN "m2" ELSE "m1"]

SessionsInit ==
    /\ part \in Parts
    /\ Init /\ WebInit /\ ExecInit /\ HooksInit /\ MigrationInit /\ RegistryInit
    /\ part # "exec" => kind = "command"
    /\ part # "migration" => tables = {} /\ ~zone /\ sameZone

WorkNext ==
    /\ UNCHANGED <<part, registryVars>>
    /\ \/ part = "ssh" /\ Next /\ UNCHANGED <<webVars, execVars, hookVars, migVars>>
       \/ part = "web" /\ TerminalNext /\ UNCHANGED <<vars, execVars, hookVars, migVars>>
       \/ part = "files" /\ FileNext /\ UNCHANGED <<vars, execVars, hookVars, migVars>>
       \/ part = "exec" /\ ExecNext /\ UNCHANGED <<vars, webVars, hookVars, migVars>>
       \/ part = "hooks" /\ HooksNext /\ UNCHANGED <<vars, webVars, execVars, migVars>>
       \/ part = "migration" /\ MigrationNext /\ UNCHANGED <<vars, webVars, execVars, hookVars>>

\* The connections of a machine are named in the order in which they dial, and
\* the machine an administrator acts on is the one that may reconnect.
Named ==
    /\ handler'["c2"] # "idle" => handler'["c1"] # "idle"
    /\ \A step \in admin' : step.machine = "m1"

SessionsNext ==
    \/ WorkNext
    \/ part = "registry" /\ RegistryNext /\ Named /\ UNCHANGED <<part, workVars>>

\* The goroutines of the chosen part are scheduled; users, commands, plugins,
\* faults and the operator need do nothing.
SSHFairness ==
    /\ \A s \in Sessions : /\ WF_vars(part = "ssh" /\ Handler(s))
                           /\ WF_vars(part = "ssh" /\ Output(s))
                           /\ WF_vars(part = "ssh" /\ InputEnds(s))
    /\ WF_vars(part = "ssh" /\ Stopping)

TerminalFairness ==
    /\ \A t \in Terminals : /\ WF_webVars(part = "web" /\ HandlerSteps(t))
                            /\ WF_webVars(part = "web" /\ copyEnds(t))
                            /\ WF_webVars(part = "web" /\ ShellSteps(t))
    /\ \A f \in FileOps : WF_webVars(part = "files" /\ FileSteps(f))

CommandFairness ==
    /\ WF_execVars(part = "exec" /\ execRequest) /\ WF_execVars(part = "exec" /\ AgentSteps)
    /\ \A f \in Fds : WF_execVars(part = "exec" /\ agentCopies(f))
    /\ WF_execVars(part = "exec" /\ proxyOutput) /\ WF_execVars(part = "exec" /\ proxyEnds)
    /\ WF_execVars(part = "exec" /\ statusWaited)
    /\ WF_execVars(part = "exec" /\ (noHeader \/ clientWait))

HookFairness == \A s \in HookSessions : WF_hookVars(part = "hooks" /\ HookSteps(s))

StartFairness == \A p \in Migrators : WF_migVars(part = "migration" /\ MigrateSteps(p))

SessionsSpec ==
    /\ SessionsInit /\ [][SessionsNext]_sessionsVars
    /\ SSHFairness /\ TerminalFairness /\ CommandFairness /\ HookFairness /\ StartFairness
    /\ RegistryFairness

-----------------------------------------------------------------------------
\* Whoever is told to end does: a stopped shell, a browser terminal that was left or stopped
\* (proxyToTarget, terminalWS and their stop functions).
StoppedWorkFinishes == StoppedSessionsFinish /\ TerminalsFinish

\* Nobody waits for ever on what runs beside a session: a hook comes to its end whatever its
\* plugins do, and a migration gets through (TriggerHook, Migrate).
HooksAndStartsFinish == HooksReturn /\ MigrationFinishes
=============================================================================
