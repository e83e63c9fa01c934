----------------------------- MODULE AgentLink -----------------------------
(***************************************************************************)
(* The agent's connection to the gateway: Start's maintenance loop,        *)
(* keepAlive, reconnect, connectToServer and Stop (pkg/agent/agent.go).    *)
(*                                                                         *)
(* Connections are numbered in the order they are made; 0 is none.  Each   *)
(* has a goroutine that waits for it to end.  The loop is one goroutine,   *)
(* so heartbeats and reconnects never overlap; the waiters and Stop run    *)
(* beside it.                                                              *)
(***************************************************************************)
EXTENDS Naturals, FiniteSets

CONSTANTS
    MaxAgentConns,     \* bound: connections made
    MaxOutages    \* bound: times the gateway becomes unreachable

ASSUME LinkAssumption == MaxAgentConns \in Nat \ {0} /\ MaxOutages \in Nat

AgentConns == 1..MaxAgentConns

VARIABLES
    sshConn,    \* the current connection
    made,       \* connections made so far
    up,         \* connections whose transport is open on this side
    silent,       \* those of them whose other end is gone, unnoticed
    waiter,     \* the goroutine waiting for each to end
    dropped,    \* the capacity-1 channel holds a signal
    loop,       \* where Start is
    previous,   \* connectToServer's local, to be closed after the unlock
    stopped,    \* Agent.stopped
    stopping,   \* where Stop is
    stopConn,   \* the connection Stop read under connMu
    reachable,  \* the gateway accepts connections
    outages     \* times it stopped doing so

agentLinkVars == <<sshConn, made, up, silent, previous>>
stopVars == <<stopped, stopping, stopConn>>
gatewayVars == <<reachable, outages>>
allLinkVars == <<agentLinkVars, waiter, dropped, loop, stopVars, gatewayVars>>

LinkTypeOK ==
    /\ sshConn \in 0..MaxAgentConns
    /\ made \in 0..MaxAgentConns
    /\ up \subseteq AgentConns
    /\ silent \subseteq up
    /\ waiter \in [AgentConns -> {"none", "waiting", "lost", "done"}]
    /\ dropped \in BOOLEAN
    /\ loop \in {"starting", "select", "reconnect", "dialed", "stored",
                 "returned", "failed"}
    /\ previous \in 0..MaxAgentConns
    /\ stopped \in BOOLEAN
    /\ stopping \in {"no", "closing", "signalling", "done"}
    /\ stopConn \in 0..MaxAgentConns
    /\ reachable \in BOOLEAN
    /\ outages \in 0..MaxOutages

LinkInit ==
    /\ sshConn = 0
    /\ made = 0
    /\ up = {}
    /\ silent = {}
    /\ waiter = [c \in AgentConns |-> "none"]
    /\ dropped = FALSE
    /\ loop = "starting"
    /\ previous = 0
    /\ stopped = FALSE
    /\ stopping = "no"
    /\ stopConn = 0
    /\ reachable = TRUE
    /\ outages = 0

\* Close of a connection, from this side.
CloseConn(c) == up' = up \ {c} /\ silent' = silent \ {c}

----------------------------------------------------------------------------
\* connectToServer, for Start and for reconnect.

\* Dial and SSH handshake succeed.
Handshake ==
    /\ loop \in {"starting", "reconnect"}
    /\ reachable
    /\ made < MaxAgentConns
    /\ loop' = "dialed"
    /\ made' = made + 1
    /\ up' = up \cup {made + 1}
    /\ UNCHANGED <<sshConn, silent, previous, waiter, dropped, stopVars, gatewayVars>>

\* They fail: Start gives up, reconnect backs off and tries again.
ConnectFails ==
    /\ loop = "starting"
    /\ loop' = "failed"
    /\ UNCHANGED <<agentLinkVars, waiter, dropped, stopVars, gatewayVars>>

\* Under connMu: swap the connection.
Store ==
    /\ loop = "dialed"
    /\ loop' = "stored"
    /\ previous' = sshConn
    /\ sshConn' = made
    /\ UNCHANGED <<made, up, silent, waiter, dropped, stopVars, gatewayVars>>

\* After the unlock: close the previous connection, watch the new one.
WatchConn ==
    /\ loop = "stored"
    /\ loop' = "select"
    /\ CloseConn(previous)
    /\ previous' = 0
    /\ waiter' = [waiter EXCEPT ![sshConn] = "waiting"]
    /\ UNCHANGED <<sshConn, made, dropped, stopVars, gatewayVars>>

----------------------------------------------------------------------------
\* The goroutine that waits for a connection to end.

\* Mutant: the test of stopped is inverted.
Lost_Inverted(c) == sshConn = c /\ stopped

\* Under connMu: it was the current one, and nobody called Stop.
Lost(c) == sshConn = c /\ ~stopped

Ended(c) ==
    /\ waiter[c] = "waiting"
    /\ c \notin up
    /\ waiter' = [waiter EXCEPT ![c] = IF Lost(c) THEN "lost" ELSE "done"]
    /\ UNCHANGED <<agentLinkVars, dropped, loop, stopVars, gatewayVars>>

\* signalDropped; signals coalesce.
SignalDropped(c) ==
    /\ waiter[c] = "lost"
    /\ waiter' = [waiter EXCEPT ![c] = "done"]
    /\ dropped' = TRUE
    /\ UNCHANGED <<agentLinkVars, loop, stopVars, gatewayVars>>

----------------------------------------------------------------------------
\* The maintenance loop.

\* <-a.dropped
TakeSignal ==
    /\ loop = "select"
    /\ dropped
    /\ dropped' = FALSE
    /\ loop' = IF stopped THEN "returned" ELSE "reconnect"
    /\ UNCHANGED <<agentLinkVars, waiter, stopVars, gatewayVars>>

\* Mutant: keepAlive signals the drop itself as well.
HeartbeatFails_Signals ==
    /\ loop = "select"
    /\ sshConn \in silent
    /\ CloseConn(sshConn)
    /\ dropped' = TRUE
    /\ UNCHANGED <<sshConn, made, previous, waiter, loop, stopVars, gatewayVars>>

\* keepAlive, when the heartbeat fails or times out: close the connection.
\* There is one from the first connect on.
HeartbeatFails ==
    /\ loop = "select"
    /\ sshConn \in silent
    /\ CloseConn(sshConn)
    /\ UNCHANGED <<sshConn, made, previous, waiter, dropped, loop, stopVars, gatewayVars>>

----------------------------------------------------------------------------
\* Stop.

\* Under connMu: stopped, and the connection to close.
Stop ==
    /\ stopping = "no"
    /\ stopping' = "closing"
    /\ stopped' = TRUE
    /\ stopConn' = sshConn
    /\ UNCHANGED <<agentLinkVars, waiter, dropped, loop, gatewayVars>>

\* conn.Close(): a connection stored since then is not closed.
StopCloses ==
    /\ stopping = "closing"
    /\ stopping' = "signalling"
    /\ CloseConn(stopConn)
    /\ UNCHANGED <<sshConn, made, previous, waiter, dropped, loop, stopped, stopConn,
                   gatewayVars>>

\* signalDropped, so that Start returns.
StopSignals ==
    /\ stopping = "signalling"
    /\ stopping' = "done"
    /\ dropped' = TRUE
    /\ UNCHANGED <<agentLinkVars, waiter, loop, stopped, stopConn, gatewayVars>>

----------------------------------------------------------------------------
\* The network and the gateway.  The last connection of the bound stays up.

\* A connection ends, or its other end goes away without a word.
Break(c, silently) ==
    /\ c \in up \ silent
    /\ made < MaxAgentConns
    /\ IF silently THEN silent' = silent \cup {c} /\ UNCHANGED up ELSE CloseConn(c)
    /\ UNCHANGED <<sshConn, made, previous, waiter, dropped, loop, stopVars, gatewayVars>>

\* Keepalives of the gateway or of TCP end a half-open connection.
HalfCloses(c) ==
    /\ c \in silent
    /\ CloseConn(c)
    /\ UNCHANGED <<sshConn, made, previous, waiter, dropped, loop, stopVars, gatewayVars>>

Outage ==
    /\ reachable
    /\ outages < MaxOutages
    /\ outages' = outages + 1
    /\ reachable' = FALSE
    /\ UNCHANGED <<agentLinkVars, waiter, dropped, loop, stopVars>>

Recovery ==
    /\ ~reachable
    /\ reachable' = TRUE
    /\ UNCHANGED <<agentLinkVars, waiter, dropped, loop, stopVars, outages>>
----------------------------------------------------------------------------
StartLoop ==
    \/ Handshake
    \/ ConnectFails
    \/ Store
    \/ WatchConn
    \/ TakeSignal
    \/ HeartbeatFails

Stopping == StopCloses \/ StopSignals

LinkNext ==
    \/ StartLoop
    \/ Stop
    \/ Stopping
    \/ Outage
    \/ Recovery
    \/ \E c \in AgentConns :
         \/ Ended(c)
         \/ SignalDropped(c)
         \/ HalfCloses(c)
         \/ \E silently \in BOOLEAN : Break(c, silently)

LinkSpec == LinkInit /\ [][LinkNext]_allLinkVars

\* Goroutines are scheduled and the heartbeat ticks.  An attempt to connect
\* while the gateway is reachable succeeds in the end.
LocalFairness ==
    /\ WF_allLinkVars(StartLoop)
    /\ WF_allLinkVars(Stopping)
    /\ \A c \in AgentConns : WF_allLinkVars(Ended(c) \/ SignalDropped(c))

LinkFairSpec == LinkSpec /\ LocalFairness /\ WF_allLinkVars(Recovery)

----------------------------------------------------------------------------
\* Properties.

\* A signal in the channel, or about to be put there, means that the current
\* connection is lost: closing a replaced connection never costs the agent
\* its new one, with the sessions on it.
NoNeedlessReconnect ==
    ~stopped =>
        /\ dropped => sshConn \notin up
        /\ \A c \in AgentConns : waiter[c] = "lost" => sshConn = c /\ c \notin up

\* "Reconnect as soon as this connection ends": with the loop waiting and the
\* current connection ended, its waiter or its signal is still there.
NoDropMissed ==
    loop = "select" /\ ~stopped /\ sshConn \notin up =>
        dropped \/ waiter[sshConn] \in {"waiting", "lost"}

\* A running agent does not stay without a working connection, half-open ones
\* and gateway outages included.
Reconnects ==
    (loop = "select" /\ sshConn \notin up \ silent)
        ~> (stopped \/ (loop = "select" /\ sshConn \in up \ silent))

\* "wake the maintenance loop so Start returns": after Stop, Start returns,
\* once a reconnect under way has reached the gateway.
StartReturns == stopped ~> loop \in {"returned", "failed"}

\* "set by Stop; no reconnecting after it".
NoReconnectAfterStop == [][stopped => sshConn' = sshConn]_allLinkVars

\* The agent watches its current connection, and only that one
\* (connectToServer's waiter, the loop of Start).
LinkIsWatched == LinkTypeOK /\ NoNeedlessReconnect /\ NoDropMissed

\* The agent's loop gets where it is going: back to a working connection, or
\* out of Start after Stop.
AgentRecovers == Reconnects /\ StartReturns
=============================================================================
