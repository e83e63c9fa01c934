--------------------------- MODULE AgentRegistry ---------------------------
(***************************************************************************)
(* The gateway's registry of connected agents (Server.agents, guarded by   *)
(* agentsMu) and the machine rows of the database that mirror it           *)
(* (machines.is_active).                                                   *)
(*                                                                         *)
(* One goroutine per agent SSH connection runs handleConnection and then   *)
(* handleAgentConnection.  The registry is only touched under the mutex,   *)
(* but the row is written outside it, from the record read when the        *)
(* connection arrived, so the two can drift apart.  Each mutex section,    *)
(* each database statement and each close of another goroutine's           *)
(* connection is one action here.                                          *)
(*                                                                         *)
(* A machine row is abstracted to is_active and the number of the admin    *)
(* edit its other columns (name, hostname, port, tags, agent_id) carry.    *)
(***************************************************************************)
EXTENDS Naturals, FiniteSets

CONSTANTS
    Machines,        \* machine IDs
    Conns,           \* SSH connections agents make, each used once
    MachineOf,       \* the machine each connection authenticates as
    None,            \* no connection, no row
    MaxDrops,        \* bound: connections that break by themselves
    MaxAdmin         \* bound: admin edits, disconnects and deletes

ASSUME RegistryAssumption ==
    /\ MachineOf \in [Conns -> Machines]
    /\ None \notin Conns
    /\ IsFiniteSet(Machines)
    /\ MaxDrops \in Nat
    /\ MaxAdmin \in Nat

VARIABLES
    db,        \* machines table: row of each machine, None once deleted
    agents,    \* Server.agents: the registered connection of each machine
    handler,   \* where the connection's goroutine is
    open,      \* connections whose SSH transport is up
    held,      \* the handler's machine record, read when it connected
               \* (this and the next two are None or 0 when out of scope)
    previous,  \* the handler's local `previous`, closed after the unlock
    count,     \* the handler's local agentCount, stored after the unlock
    agentsGauge, \* metrics.AgentsConnected
    admin,     \* admin API requests between their steps
    drops,     \* connections broken so far
    edits,     \* admin edits so far
    disconnects  \* admin disconnects and deletes so far

registryVars == <<db, agents, handler, open, held, previous, count, agentsGauge, admin,
                  drops, edits, disconnects>>

Row == [active : BOOLEAN, edit : 0..MaxAdmin]

HandlerState ==
    {"idle", "dialed", "registered", "activate", "serving",
     "unregistered", "replaced", "deactivate", "done"}

\* What an admin request still has to do: write back the row it read, close
\* the connection it unregistered, or delete the machine.
AdminStep ==
    [op : {"write"}, machine : Machines, row : Row]
      \cup [op : {"close"}, machine : Machines, conn : Conns,
            count : 0..Cardinality(Machines), delete : BOOLEAN]
      \cup [op : {"delete"}, machine : Machines]

RegistryTypeOK ==
    /\ db \in [Machines -> Row \cup {None}]
    /\ agents \in [Machines -> Conns \cup {None}]
    /\ handler \in [Conns -> HandlerState]
    /\ open \subseteq Conns
    /\ held \in [Conns -> Row \cup {None}]
    /\ previous \in [Conns -> Conns \cup {None}]
    /\ count \in [Conns -> 0..Cardinality(Machines)]
    /\ agentsGauge \in 0..Cardinality(Machines)
    /\ admin \subseteq AdminStep
    /\ drops \in 0..MaxDrops
    /\ edits \in 0..MaxAdmin
    /\ disconnects \in 0..MaxAdmin

Registered == {m \in Machines : agents[m] # None}

----------------------------------------------------------------------------

\* Machines start registered by an admin and never seen: NewMachine leaves
\* is_active false.
RegistryInit ==
    /\ db = [m \in Machines |-> [active |-> FALSE, edit |-> 0]]
    /\ agents = [m \in Machines |-> None]
    /\ handler = [c \in Conns |-> "idle"]
    /\ open = {}
    /\ held = [c \in Conns |-> None]
    /\ previous = [c \in Conns |-> None]
    /\ count = [c \in Conns |-> 0]
    /\ agentsGauge = 0
    /\ admin = {}
    /\ drops = 0
    /\ edits = 0
    /\ disconnects = 0

\* The handshake ends and handleConnection reads the machine's row; it finds
\* none once the machine is deleted, and then serves no agent.
Dial(c) ==
    LET m == MachineOf[c] IN
    /\ handler[c] = "idle"
    /\ db[m] # None
    /\ handler' = [handler EXCEPT ![c] = "dialed"]
    /\ open' = open \cup {c}
    /\ held' = [held EXCEPT ![c] = db[m]]
    /\ UNCHANGED <<db, agents, previous, count, agentsGauge, admin, drops, edits, disconnects>>

\* len(s.agents) once m is registered.
CountWith(m) == Cardinality(Registered \cup {m})

\* The first mutex section: take the machine's slot from whoever holds it.
Register(c) ==
    LET m == MachineOf[c] IN
    /\ handler[c] = "dialed"
    /\ handler' = [handler EXCEPT ![c] = "registered"]
    /\ previous' = [previous EXCEPT ![c] = agents[m]]
    /\ agents' = [agents EXCEPT ![m] = c]
    /\ count' = [count EXCEPT ![c] = CountWith(m)]
    /\ UNCHANGED <<db, open, held, agentsGauge, admin, drops, edits, disconnects>>

\* SetAgentsConnected(agentCount), outside the lock; the local is then dead.
Publish(c) ==
    /\ agentsGauge' = count[c]
    /\ count' = [count EXCEPT ![c] = 0]

\* Mutant: the replaced connection is left open.
ClosePrevious_LeavesItOpen(c) ==
    /\ handler[c] = "registered"
    /\ handler' = [handler EXCEPT ![c] = "activate"]
    /\ previous' = [previous EXCEPT ![c] = None]
    /\ Publish(c)
    /\ UNCHANGED <<db, agents, open, held, admin, drops, edits, disconnects>>

\* After the unlock: close the replaced connection, publish the count.
ClosePrevious(c) ==
    /\ handler[c] = "registered"
    /\ handler' = [handler EXCEPT ![c] = "activate"]
    /\ open' = open \ {previous[c]}
    /\ previous' = [previous EXCEPT ![c] = None]
    /\ Publish(c)
    /\ UNCHANGED <<db, agents, held, admin, drops, edits, disconnects>>

\* UpdateMachine writes every column of the row from the given record; a
\* deleted machine's row stays deleted (ErrNotFound, ignored by the handlers).
UpdateMachine(m, row) ==
    db' = [db EXCEPT ![m] = IF @ = None THEN None ELSE row]

\* UpdateMachine with IsActive true, from the record read at connect time.
Activate(c) ==
    LET row == [held[c] EXCEPT !.active = TRUE] IN
    /\ handler[c] = "activate"
    /\ handler' = [handler EXCEPT ![c] = "serving"]
    /\ held' = [held EXCEPT ![c] = row]
    /\ UpdateMachine(MachineOf[c], row)
    /\ UNCHANGED <<agents, open, previous, count, agentsGauge, admin, drops, edits, disconnects>>

\* Mutant: the test is inverted.
Current_Inverted(c) == agents[MachineOf[c]] # c

\* `current`: the handler still owns the machine's state, because it is the
\* registered one or because nobody is (an admin disconnect removed it).
Current(c) == agents[MachineOf[c]] \in {None, c}

\* sshConn.Wait returned: the second mutex section.
Unregister(c) ==
    LET m == MachineOf[c]
        left == IF Current(c) THEN Registered \ {m} ELSE Registered
    IN
    /\ handler[c] = "serving"
    /\ c \notin open
    /\ agents' = [agents EXCEPT ![m] = IF Current(c) THEN None ELSE @]
    /\ count' = [count EXCEPT ![c] = Cardinality(left)]
    /\ handler' = [handler EXCEPT ![c] = IF Current(c) THEN "unregistered" ELSE "replaced"]
    /\ UNCHANGED <<db, open, held, previous, agentsGauge, admin, drops, edits, disconnects>>

\* Mutant: a replaced handler does not return early.
PublishLeft_NoEarlyReturn(c) ==
    /\ handler[c] \in {"unregistered", "replaced"}
    /\ handler' = [handler EXCEPT ![c] = "deactivate"]
    /\ Publish(c)
    /\ UNCHANGED <<db, agents, open, held, previous, admin, drops, edits, disconnects>>

\* SetAgentsConnected with the count taken under the lock; a replaced handler
\* then returns, the others go on to the row.
PublishLeft(c) ==
    /\ handler[c] \in {"unregistered", "replaced"}
    /\ handler' = [handler EXCEPT
                     ![c] = IF @ = "replaced" THEN "done" ELSE "deactivate"]
    /\ Publish(c)
    /\ UNCHANGED <<db, agents, open, held, previous, admin, drops, edits, disconnects>>

\* UpdateMachine with IsActive false, from the record read at connect time.
Deactivate(c) ==
    /\ handler[c] = "deactivate"
    /\ handler' = [handler EXCEPT ![c] = "done"]
    /\ UpdateMachine(MachineOf[c], [held[c] EXCEPT !.active = FALSE])
    /\ held' = [held EXCEPT ![c] = None]
    /\ UNCHANGED <<agents, open, previous, count, agentsGauge, admin, drops, edits, disconnects>>

\* The network breaks, the agent exits, or a keepalive goes unanswered and
\* keepConnAlive closes the connection.
Drop(c) ==
    /\ c \in open
    /\ drops < MaxDrops
    /\ drops' = drops + 1
    /\ open' = open \ {c}
    /\ UNCHANGED <<db, agents, handler, held, previous, count, agentsGauge, admin, edits,
                   disconnects>>

----------------------------------------------------------------------------
\* Admin API.

\* updateMachine and the archive form of deleteMachine read the row, change it
\* and will write it back whole.  An edit of other columns takes a new number.
AdminRead(m, active, changes) ==
    /\ edits + disconnects < MaxAdmin
    /\ db[m] # None
    /\ edits' = edits + 1
    /\ admin' = admin \cup
         {[op |-> "write", machine |-> m,
           row |-> [active |-> active,
                    edit |-> IF changes THEN edits + 1 ELSE db[m].edit]]}
    /\ UNCHANGED <<db, agents, handler, open, held, previous, count, agentsGauge, drops,
                   disconnects>>

AdminWrite(step) ==
    /\ step.op = "write"
    /\ admin' = admin \ {step}
    /\ UpdateMachine(step.machine, step.row)
    /\ UNCHANGED <<agents, handler, open, held, previous, count, agentsGauge, drops, edits,
                   disconnects>>

\* DisconnectAgent's mutex section, for the disconnect endpoint (refused when
\* no agent is connected) and for deleteMachine, which goes on without one.
AdminDisconnect(m, delete) ==
    LET c == agents[m] IN
    /\ edits + disconnects < MaxAdmin
    /\ IF delete THEN db[m] # None ELSE c # None
    /\ disconnects' = disconnects + 1
    /\ agents' = [agents EXCEPT ![m] = None]
    /\ admin' = admin \cup
         {IF c = None
          THEN [op |-> "delete", machine |-> m]
          ELSE [op |-> "close", machine |-> m, conn |-> c, delete |-> delete,
                count |-> Cardinality(Registered \ {m})]}
    /\ UNCHANGED <<db, handler, open, held, previous, count, agentsGauge, drops, edits>>

\* The rest of DisconnectAgent: publish the count, close the connection.
AdminClose(step) ==
    /\ step.op = "close"
    /\ agentsGauge' = step.count
    /\ open' = open \ {step.conn}
    /\ admin' = (admin \ {step}) \cup
         (IF step.delete THEN {[op |-> "delete", machine |-> step.machine]} ELSE {})
    /\ UNCHANGED <<db, agents, handler, held, previous, count, drops, edits,
                   disconnects>>

AdminDelete(step) ==
    /\ step.op = "delete"
    /\ admin' = admin \ {step}
    /\ db' = [db EXCEPT ![step.machine] = None]
    /\ UNCHANGED <<agents, handler, open, held, previous, count, agentsGauge, drops, edits,
                   disconnects>>

----------------------------------------------------------------------------

HandlerStep(c) ==
    \/ Register(c)
    \/ ClosePrevious(c)
    \/ Activate(c)
    \/ Unregister(c)
    \/ PublishLeft(c)
    \/ Deactivate(c)

AdminStart ==
    \/ \E m \in Machines, active, changes \in BOOLEAN : AdminRead(m, active, changes)
    \/ \E m \in Machines, delete \in BOOLEAN : AdminDisconnect(m, delete)

AdminContinue == \E step \in admin :
    \/ AdminWrite(step)
    \/ AdminClose(step)
    \/ AdminDelete(step)

RegistryNext ==
    \/ \E c \in Conns : Dial(c) \/ HandlerStep(c) \/ Drop(c)
    \/ AdminStart
    \/ AdminContinue

RegistrySpec == RegistryInit /\ [][RegistryNext]_registryVars

\* Goroutines that can run are scheduled; database statements return.
RegistryFairness ==
    /\ \A c \in Conns : WF_registryVars(HandlerStep(c))
    /\ WF_registryVars(AdminContinue)

FairRegistrySpec == RegistrySpec /\ RegistryFairness

----------------------------------------------------------------------------
\* Properties.

\* Handlers that hold, or may still lose, the machine's slot.
Attached(c) == handler[c] \in {"registered", "activate", "serving"}

\* The registry only holds connections of the right machine whose handler has
\* not yet unregistered: OpenAgentSession, SendAgentCommand and the Kubernetes
\* reconciler never reach through an entry its handler has given up.
RegistryHoldsLiveHandlers ==
    \A m \in Machines : agents[m] # None =>
        /\ MachineOf[agents[m]] = m
        /\ Attached(agents[m])

\* "Close it, so its sessions end now": a connection that lost its slot while
\* its transport is up has a close on the way, from the handler that replaced
\* it or from the admin request that removed it.  None is left serving
\* sessions outside the registry.
ReplacedIsBeingClosed ==
    \A c \in open :
        Attached(c) /\ agents[MachineOf[c]] # c =>
            \/ \E d \in Conns : handler[d] = "registered" /\ previous[d] = c
            \/ \E step \in admin : step.op = "close" /\ step.conn = c

\* A row says active only while some handler of the machine will still write
\* it: no crashed or replaced connection leaves is_active behind.  (An admin
\* edit may set is_active by hand, so this is about rows never edited.)
ActiveRowHasOwner ==
    edits = 0 => \A m \in Machines :
        db[m] # None /\ db[m].active =>
            \E c \in Conns :
                /\ MachineOf[c] = m
                /\ Attached(c) \/ handler[c] \in {"unregistered", "deactivate"}

\* "Then the machine is still connected and must stay active": a served,
\* registered connection whose machine has no other handler at work finds its
\* row active.
ServedMachineIsActive ==
    edits = 0 => \A c \in Conns :
        /\ handler[c] = "serving"
        /\ c \in open
        /\ agents[MachineOf[c]] = c
        /\ \A d \in Conns \ {c} :
             MachineOf[d] = MachineOf[c] => handler[d] \in {"idle", "dialed", "done"}
        /\ db[MachineOf[c]] # None
        => db[MachineOf[c]].active

\* Where only reconnections happen, with no connection breaking by itself and
\* no admin removing one, the early return of the replaced handler is enough
\* for that.
ReplacementKeepsActive == drops = 0 /\ disconnects = 0 => ServedMachineIsActive

\* A handler that lost its machine's slot finishes: the old half-open
\* connection's goroutine, and the sessions on it, do not linger.
ReplacedHandlerFinishes ==
    \A c \in Conns :
        (Attached(c) /\ agents[MachineOf[c]] # c) ~> handler[c] = "done"

\* The registry can be relied on: it holds handlers that are still at work,
\* and what it gave up is being closed (handleAgentConnection,
\* DisconnectAgent).
RegistryIsSound == RegistryTypeOK /\ RegistryHoldsLiveHandlers /\ ReplacedIsBeingClosed

\* The machine's row follows its connections, in both directions: active only
\* while a handler owns it, and active while one that merely replaced another
\* serves (handleAgentConnection's activation and deactivation).
RowFollowsRegistry == ActiveRowHasOwner /\ ReplacementKeepsActive
=============================================================================
