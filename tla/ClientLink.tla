------------------------------ MODULE ClientLink ------------------------------
(***************************************************************************)
(* A forward of the command line client: one gateway connection that is     *)
(* redialled whenever it drops (gatewayLink, pkg/client/link.go) under a    *)
(* listener whose local connections each open a stream on it (forward,      *)
(* pkg/client/tunnel.go).  The listener's goroutine, one per local          *)
(* connection, one watcher and one keepalive per gateway connection and one *)
(* redialling goroutine per lost one run side by side.  A connection is a   *)
(* number, given when it is dialled; a redialling goroutine has the number  *)
(* of the connection it replaces.                                           *)
(***************************************************************************)
EXTENDS Naturals, FiniteSets

CONSTANTS
    Streams,    \* local connections
    MaxConns,   \* bound of the gateway connections; the last one lasts
    Main        \* the goroutine of forward itself

Conns == 1 .. MaxConns
Callers == Streams \cup Conns \cup {Main}

ASSUME ClientLinkAssumption ==
    MaxConns \in Nat \ {0} /\ Main \notin Streams /\ (Streams \cup {Main}) \cap (Conns \cup {0}) = {}

VARIABLES
    reach,      \* the gateway can be reached
    net,        \* each connection: "none", "up", "dead" unnoticed, "closed"
    client,     \* gatewayLink.client; 0 for nil
    closedLink, \* gatewayLink.closed
    dialMu,     \* who holds dialMu; 0 for nobody
    caller,     \* each goroutine that may call get: where it is, its connection
    overdue,       \* the streams whose redialWait is over
    watching,   \* the connections with a watcher and a keepalive goroutine
    fwd         \* forward: "start", "run", "cancelled", "closing", "done"

linkVars == <<reach, net, client, closedLink, dialMu, caller, overdue, watching, fwd>>

ClientLinkTypeOK ==
    /\ reach \in BOOLEAN /\ closedLink \in BOOLEAN
    /\ net \in [Conns -> {"none", "up", "dead", "closed"}]
    /\ client \in Conns \cup {0}
    /\ dialMu \in Callers \cup {0}
    /\ caller \in [Callers -> [pc : {"idle", "get", "lock", "dial", "adopt", "backoff", "open",
                                     "wait", "pipe", "done", "refused"}, conn : Conns \cup {0}]]
    /\ overdue \subseteq Streams /\ watching \subseteq Conns
    /\ fwd \in {"start", "run", "cancelled", "closing", "done"}

ClientLinkInit ==
    /\ reach \in BOOLEAN
    /\ net = [k \in Conns |-> "none"]
    /\ client = 0 /\ closedLink = FALSE /\ dialMu = 0
    /\ caller = [c \in Callers |-> [pc |-> IF c = Main THEN "get" ELSE "idle", conn |-> 0]]
    /\ overdue = {} /\ watching = {}
    /\ fwd = "start"

Through(c) == caller[c].pc \in {"idle", "done", "refused"}
At(c, l) == caller[c].pc = l
Step(c, l, k) == caller' = [caller EXCEPT ![c] = [pc |-> l, conn |-> k]]
\* The context of the forward, and with it the link's life, is over.
Over == fwd # "start" /\ fwd # "run"
\* The context a caller gave get is over; forward's own call does not retry.
CtxDone(c) == IF c \in Streams THEN Over \/ c \in overdue ELSE Over
Close(k) == net' = IF k = 0 \/ net[k] = "none" THEN net ELSE [net EXCEPT ![k] = "closed"]

-----------------------------------------------------------------------------
\* The network

gatewayComesAndGoes ==
    /\ reach' = ~reach
    /\ UNCHANGED <<net, client, closedLink, dialMu, caller, overdue, watching, fwd>>

\* A connection goes silent; the last one the bound allows does not.
connectionDies(k) ==
    /\ net[k] = "up" /\ k < MaxConns
    /\ net' = [net EXCEPT ![k] = "dead"]
    /\ UNCHANGED <<reach, client, closedLink, dialMu, caller, overdue, watching, fwd>>

\* keepClientAlive closes a connection that stopped answering.
keepClientAlive(k) ==
    /\ net[k] = "dead" /\ k \in watching
    /\ Close(k)
    /\ UNCHANGED <<reach, client, closedLink, dialMu, caller, overdue, watching, fwd>>

-----------------------------------------------------------------------------
\* gatewayLink.get

\* get returns the live connection at once, or goes for the mutex.
get(c) ==
    /\ At(c, "get")
    /\ IF client # 0 THEN Step(c, "open", client) ELSE Step(c, "lock", 0)
    /\ UNCHANGED <<reach, net, client, closedLink, dialMu, overdue, watching, fwd>>

\* Mutant: the one who got the mutex dials without looking again.
getLocked_Blind(c) ==
    /\ At(c, "lock") /\ dialMu = 0
    /\ dialMu' = c /\ Step(c, "dial", 0)
    /\ UNCHANGED <<reach, net, client, closedLink, overdue, watching, fwd>>

\* With the mutex, another caller may have reconnected meanwhile.  The wait
\* for the mutex does not watch the context.
getLocked(c) ==
    /\ At(c, "lock") /\ dialMu = 0
    /\ IF client # 0 THEN Step(c, "open", client) /\ UNCHANGED dialMu
                     ELSE dialMu' = c /\ Step(c, "dial", 0)
    /\ UNCHANGED <<reach, net, client, closedLink, overdue, watching, fwd>>

\* forward's own first call gives up; a stream that was refused for good ends
\* the forward; nobody looks at the result of a background redial.
GiveUp(c, permanent) ==
    /\ Step(c, IF permanent THEN "refused" ELSE "done", 0)
    /\ fwd' = IF c = Main \/ (c \in Streams /\ permanent /\ ~Over) THEN "cancelled" ELSE fwd

\* dialGateway: a connection, a failure worth a retry, or one that is not.
dialGateway(c) ==
    LET fresh == {k \in Conns : net[k] = "none" /\ \A j \in 1 .. (k - 1) : net[j] # "none"}
    IN
    /\ At(c, "dial")
    /\ \/ /\ reach
          /\ \E k \in fresh : net' = [net EXCEPT ![k] = "up"] /\ Step(c, "adopt", k)
          /\ UNCHANGED <<dialMu, fwd>>
       \/ /\ ~reach \/ fresh = {}
          /\ IF c = Main THEN GiveUp(c, FALSE) /\ dialMu' = 0
                         ELSE Step(c, "backoff", 0) /\ UNCHANGED <<dialMu, fwd>>
          /\ UNCHANGED net
       \/ reach /\ GiveUp(c, TRUE) /\ dialMu' = 0 /\ UNCHANGED net
    /\ UNCHANGED <<reach, client, closedLink, overdue, watching>>

\* The pause before the next try, cut short by the end of the context.
backoff(c) ==
    /\ At(c, "backoff")
    /\ IF CtxDone(c) THEN GiveUp(c, FALSE) /\ dialMu' = 0
                     ELSE Step(c, "dial", 0) /\ UNCHANGED <<dialMu, fwd>>
    /\ UNCHANGED <<reach, net, client, closedLink, overdue, watching>>

\* adopt makes the connection the live one, unless the link was closed
\* meanwhile, and get returns it either way.
adopt(c) ==
    LET k == caller[c].conn IN
    /\ At(c, "adopt")
    /\ IF closedLink THEN Close(k) /\ UNCHANGED <<client, watching>>
                     ELSE client' = k /\ watching' = watching \cup {k} /\ UNCHANGED net
    /\ dialMu' = 0
    /\ Step(c, "open", k)
    /\ UNCHANGED <<reach, closedLink, overdue, fwd>>

-----------------------------------------------------------------------------
\* gatewayLink.lost and its callers

\* Mutant: nobody redials.
redials_Never(k) == FALSE

\* A connection that was the live one until now is replaced, while the
\* forward lives.
redials(k) == client = k /\ ~closedLink /\ ~Over

\* lost(k), called by c: retire k, close it, redial in the background.
lostConn(k, as) ==
    /\ client' = IF client = k /\ ~closedLink THEN 0 ELSE client
    /\ Close(k)
    /\ caller' = IF redials(k) THEN [as EXCEPT ![k] = [pc |-> "get", conn |-> 0]] ELSE as

\* The watcher of a connection sees it closed and reports it.
watcher(k) ==
    /\ k \in watching /\ net[k] = "closed"
    /\ watching' = watching \ {k}
    /\ lostConn(k, caller)
    /\ UNCHANGED <<reach, closedLink, dialMu, overdue, fwd>>

\* A background redial has what it wanted.
redialled(c) ==
    /\ c \in Conns /\ At(c, "open")
    /\ Step(c, "done", 0)
    /\ UNCHANGED <<reach, net, client, closedLink, dialMu, overdue, watching, fwd>>

-----------------------------------------------------------------------------
\* forward

\* The first stream is a probe: it opens and the listener starts, or the
\* forward ends with the reason.
probe ==
    /\ At(Main, "open")
    /\ Step(Main, "done", 0)
    /\ \/ net[caller[Main].conn] = "up" /\ fwd' = "run"
       \/ fwd' = "cancelled"
    /\ UNCHANGED <<reach, net, client, closedLink, dialMu, overdue, watching>>

\* Accept: a local connection gets a goroutine.
accept(s) ==
    /\ fwd = "run" /\ At(s, "idle")
    /\ Step(s, "get", 0)
    /\ UNCHANGED <<reach, net, client, closedLink, dialMu, overdue, watching, fwd>>

redialWaitOver(s) ==
    /\ caller[s].pc \notin {"idle", "pipe", "done", "refused"} /\ s \notin overdue
    /\ overdue' = overdue \cup {s}
    /\ UNCHANGED <<reach, net, client, closedLink, dialMu, caller, watching, fwd>>

\* openStream: the channel opens, is refused for good (which ends the
\* forward), is refused for now, or gets no answer, which retires the
\* connection.
openStream(s) ==
    LET k == caller[s].conn IN
    /\ s \in Streams /\ At(s, "open")
    /\ \/ net[k] = "up" /\ Step(s, "pipe", k) /\ UNCHANGED <<net, client, fwd>>
       \/ net[k] = "up" /\ GiveUp(s, TRUE) /\ UNCHANGED <<net, client>>
       \/ net[k] = "up" /\ Step(s, "wait", 0) /\ UNCHANGED <<net, client, fwd>>
       \/ /\ net[k] # "up"
          /\ lostConn(k, [caller EXCEPT ![s] = [pc |-> "wait", conn |-> 0]])
          /\ UNCHANGED fwd
    /\ UNCHANGED <<reach, closedLink, dialMu, overdue, watching>>

\* The pause between two tries.
openWait(s) ==
    /\ s \in Streams /\ At(s, "wait")
    /\ IF CtxDone(s) THEN Step(s, "done", 0) ELSE Step(s, "get", 0)
    /\ UNCHANGED <<reach, net, client, closedLink, dialMu, overdue, watching, fwd>>

\* pipe ends with its peers or with the connection.
pipe(s) ==
    /\ s \in Streams /\ At(s, "pipe")
    /\ Step(s, "done", 0)
    /\ UNCHANGED <<reach, net, client, closedLink, dialMu, overdue, watching, fwd>>

\* The user ends the forward.
cancel ==
    /\ fwd = "run" /\ fwd' = "cancelled"
    /\ UNCHANGED <<reach, net, client, closedLink, dialMu, caller, overdue, watching>>

\* The deferred wait for the local connections, and then link.close.
closeLink ==
    /\ fwd = "cancelled" /\ \A s \in Streams \cup {Main} : Through(s)
    /\ fwd' = "closing"
    /\ closedLink' = TRUE /\ client' = 0 /\ Close(client)
    /\ UNCHANGED <<reach, dialMu, caller, overdue, watching>>

\* link.close waits for its goroutines.
closeReturns ==
    /\ fwd = "closing" /\ watching = {}
    /\ \A k \in Conns : Through(k)
    /\ fwd' = "done"
    /\ UNCHANGED <<reach, net, client, closedLink, dialMu, caller, overdue, watching>>

-----------------------------------------------------------------------------
\* What the goroutines do by themselves.
LinkSteps ==
    \/ \E k \in Conns : keepClientAlive(k) \/ watcher(k) \/ redialled(k)
    \/ \E c \in Callers : get(c) \/ dialGateway(c) \/ backoff(c) \/ adopt(c)
    \/ \E s \in Streams : openStream(s) \/ openWait(s)
    \/ probe \/ closeLink \/ closeReturns

\* A goroutine in get; a mutex that is freed goes to a waiting one.
CallerSteps(c) == get(c) \/ getLocked(c) \/ dialGateway(c) \/ backoff(c) \/ adopt(c)

ClientLinkNext ==
    \/ gatewayComesAndGoes \/ cancel \/ LinkSteps
    \/ \E k \in Conns : connectionDies(k)
    \/ \E c \in Callers : getLocked(c)
    \/ \E s \in Streams : accept(s) \/ redialWaitOver(s) \/ pipe(s)

ClientLinkSpec == ClientLinkInit /\ [][ClientLinkNext]_linkVars

-----------------------------------------------------------------------------
\* Properties

\* At most one connection is open at a time, but for one that its dialler has
\* not handed over yet; so none is left open when forward has returned,
\* wherever a redial was when the link was closed (link.go:59-97, 190-201).
OneConnection ==
    /\ \A k \in Conns : net[k] \in {"up", "dead"} =>
          k = client \/ \E c \in Callers : At(c, "adopt") /\ caller[c].conn = k
    /\ fwd = "done" => client = 0 /\ \A c \in Callers : Through(c)

\* A running forward without a connection gets one again while the gateway can
\* be reached, unless a redial was refused for good, in which case the next
\* local connection finds out (link.go:116-135).
LinkComesBack ==
    (fwd = "run" /\ client = 0)
        ~> (client # 0 \/ ~reach \/ fwd # "run" \/ \E k \in Conns : At(k, "refused"))

\* The client's link is one connection at a time.
ClientLinkIsSound == ClientLinkTypeOK /\ OneConnection
===============================================================================
