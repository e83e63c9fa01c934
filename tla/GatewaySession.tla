-------------------------- MODULE GatewaySession --------------------------
(***************************************************************************)
(* One SSH session through the gateway and the shutdown that ends it:      *)
(* Server.proxyToTarget after authorization, executeCommand,               *)
(* startInteractiveShell, proxyConnection, Server.stop (pkg/server) and    *)
(* the recording it leaves (pkg/recording).  SessionTracker is the         *)
(* livesessions.Tracker both sides share.                                  *)
(*                                                                         *)
(* Each session has a handler goroutine (pc), an output goroutine (out)    *)
(* that records a chunk before it delivers it, and an input goroutine      *)
(* (inDone).  Chunks of output are counted, not represented.               *)
(***************************************************************************)
EXTENDS SessionTracker

CONSTANTS
    Shells,      \* sessions that are interactive; the others run a command
    MaxChunks    \* bound: chunks of output the agent sends per session

ASSUME SessionAssumption ==
    /\ Shells \subseteq Sessions
    /\ MaxChunks \in Nat

VARIABLES
    pc,        \* where proxyToTarget is
    row,       \* the session's record: "stuck" is active after a failed update
    rec,       \* its recording: in memory, on disk, or lost in the write
    buf,       \* chunks in the recording's buffer
    file,      \* chunks in the file
    seen,      \* chunks the client received
    out,       \* the agent -> client goroutine
    inDone,    \* the client -> agent goroutine has ended
    client,    \* the client's channel
    agent,     \* the agent's channel
    agentCh,   \* sessions whose stop function knows the agent's channel
    gauge,     \* what SSH sessions add to metrics.SSHSessionsActive
    store      \* the database handle

handlerVars == <<pc, row, rec, buf, file, gauge>>
proxyVars == <<seen, out, inDone, client, agent, agentCh>>
vars == <<trackerVars, handlerVars, proxyVars, store>>

Steps == {"new", "tracked", "created", "recording", "started", "opened",
          "published", "proxying", "proxied", "finished", "final", "rowed",
          "flushed", "returning", "gone"}

SessionTypeOK ==
    /\ pc \in [Sessions -> Steps]
    /\ row \in [Sessions -> {"none", "active", "completed", "stuck"}]
    /\ rec \in [Sessions -> {"none", "memory", "written", "lost"}]
    /\ buf \in [Sessions -> 0..MaxChunks]
    /\ file \in [Sessions -> 0..MaxChunks]
    /\ seen \in [Sessions -> 0..MaxChunks]
    /\ out \in [Sessions -> {"off", "reading", "recording", "delivering", "done"}]
    /\ inDone \in [Sessions -> BOOLEAN]
    /\ client \in [Sessions -> {"open", "half", "closed"}]
    /\ agent \in [Sessions -> {"none", "open", "closed"}]
    /\ agentCh \subseteq Sessions
    /\ store \in {"open", "closed"}

TypeOK ==
    /\ TrackerTypeOK
    /\ SessionTypeOK
    /\ gauge \in 0..Cardinality(Sessions)

Init ==
    /\ TrackerInit
    /\ pc = [s \in Sessions |-> "new"]
    /\ row = [s \in Sessions |-> "none"]
    /\ rec = [s \in Sessions |-> "none"]
    /\ buf = [s \in Sessions |-> 0]
    /\ file = [s \in Sessions |-> 0]
    /\ seen = [s \in Sessions |-> 0]
    /\ out = [s \in Sessions |-> "off"]
    /\ inDone = [s \in Sessions |-> FALSE]
    /\ client = [s \in Sessions |-> "open"]
    /\ agent = [s \in Sessions |-> "none"]
    /\ agentCh = {}
    /\ gauge = 0
    /\ store = "open"

Goto(s, from, to) == pc[s] = from /\ pc' = [pc EXCEPT ![s] = to]

----------------------------------------------------------------------------
\* proxyToTarget, up to the agent's channel.

\* sessions.Begin with the session's stop function.
BeginSession(s) ==
    /\ Goto(s, "new", "tracked")
    /\ Begin(s)
    /\ UNCHANGED <<row, rec, buf, file, gauge, proxyVars, store>>

\* Begin refused: shutting down.
RefuseSession(s) ==
    /\ Goto(s, "new", "returning")
    /\ BeginRefused(s)
    /\ UNCHANGED <<row, rec, buf, file, gauge, proxyVars, store>>

\* CreateSession; its failure is logged and the session goes on.
CreateSession(s) ==
    /\ Goto(s, "tracked", "created")
    /\ \/ store = "open" /\ row' = [row EXCEPT ![s] = "active"]
       \/ UNCHANGED row
    /\ UNCHANGED <<rec, buf, file, gauge, trackerVars, proxyVars, store>>

\* StartRecording fails only for an ID being recorded; session IDs are fresh.
StartRecording(s) ==
    /\ Goto(s, "created", "recording")
    /\ rec[s] = "none"
    /\ rec' = [rec EXCEPT ![s] = "memory"]
    /\ UNCHANGED <<row, buf, file, gauge, trackerVars, proxyVars, store>>

\* HookSessionStart and SessionStarted.
SessionStarted(s) ==
    /\ Goto(s, "recording", "started")
    /\ gauge' = gauge + 1
    /\ UNCHANGED <<row, rec, buf, file, trackerVars, proxyVars, store>>

\* The agent accepted the channel.
OpenChannel(s) ==
    /\ Goto(s, "started", "opened")
    /\ agent' = [agent EXCEPT ![s] = "open"]
    /\ UNCHANGED <<row, rec, buf, file, gauge, trackerVars, store,
                   seen, out, inDone, client, agentCh>>

\* It did not: only the deferred finaliser still runs.
OpenChannelFails(s) ==
    /\ Goto(s, "started", "final")
    /\ UNCHANGED <<row, rec, buf, file, gauge, trackerVars, proxyVars, store>>

\* agentCh = agentChannel, under agentMu.
PublishChannel(s) ==
    /\ Goto(s, "opened", "published")
    /\ agentCh' = agentCh \cup {s}
    /\ UNCHANGED <<row, rec, buf, file, gauge, trackerVars, store,
                   seen, out, inDone, client, agent>>

\* The exec or shell request is accepted, and both copies start.
StartProxy(s) ==
    /\ Goto(s, "published", "proxying")
    /\ agent[s] = "open"
    /\ out' = [out EXCEPT ![s] = "reading"]
    /\ UNCHANGED <<row, rec, buf, file, gauge, trackerVars, store,
                   seen, inDone, client, agent, agentCh>>

\* It is refused, or the channel is gone: return without a proxy.
RequestFails(s) ==
    /\ Goto(s, "published", "finished")
    /\ UNCHANGED <<row, rec, buf, file, gauge, trackerVars, proxyVars, store>>

----------------------------------------------------------------------------
\* proxyConnection's two goroutines, and the peers.

\* io.Copy reads a chunk the agent sent.
ReadOutput(s) ==
    /\ out[s] = "reading"
    /\ agent[s] = "open"
    /\ buf[s] < MaxChunks
    /\ out' = [out EXCEPT ![s] = "recording"]
    /\ UNCHANGED <<trackerVars, handlerVars, store,
                   seen, inDone, client, agent, agentCh>>

\* RecordingWriter.Write: into the recording first; the buffer takes it even
\* after StopRecording has copied it out.
RecordOutput(s) ==
    /\ out[s] = "recording"
    /\ out' = [out EXCEPT ![s] = "delivering"]
    /\ buf' = [buf EXCEPT ![s] = @ + 1]
    /\ UNCHANGED <<trackerVars, pc, row, rec, file, gauge, store,
                   seen, inDone, client, agent, agentCh>>

\* ... then to the client; writing to a closed channel ends the copy.
DeliverOutput(s) ==
    /\ out[s] = "delivering"
    /\ \/ /\ client[s] # "closed"
          /\ seen' = [seen EXCEPT ![s] = @ + 1]
          /\ out' = [out EXCEPT ![s] = "reading"]
       \/ /\ client[s] = "closed"
          /\ out' = [out EXCEPT ![s] = "done"]
          /\ UNCHANGED seen
    /\ UNCHANGED <<trackerVars, handlerVars, store,
                   inDone, client, agent, agentCh>>

\* The agent's channel reads EOF.
OutputEnds(s) ==
    /\ out[s] = "reading"
    /\ agent[s] = "closed"
    /\ out' = [out EXCEPT ![s] = "done"]
    /\ UNCHANGED <<trackerVars, handlerVars, store,
                   seen, inDone, client, agent, agentCh>>

\* The client's channel reads EOF.
InputEnds(s) ==
    /\ out[s] # "off"
    /\ ~inDone[s]
    /\ client[s] # "open"
    /\ inDone' = [inDone EXCEPT ![s] = TRUE]
    /\ UNCHANGED <<trackerVars, handlerVars, store,
                   seen, out, client, agent, agentCh>>

\* The client closes its input, or goes away.
ClientCloses(s, how) ==
    /\ client[s] = "open" \/ (client[s] = "half" /\ how = "closed")
    /\ client' = [client EXCEPT ![s] = how]
    /\ UNCHANGED <<trackerVars, handlerVars, store,
                   seen, out, inDone, agent, agentCh>>

\* The command exits, or the agent's connection is lost.
AgentCloses(s) ==
    /\ agent[s] = "open"
    /\ agent' = [agent EXCEPT ![s] = "closed"]
    /\ UNCHANGED <<trackerVars, handlerVars, store,
                   seen, out, inDone, client, agentCh>>

----------------------------------------------------------------------------
\* The handler again, from proxyConnection's return.

\* A command's proxy lasts until its output ends; a shell's also ends with the
\* client's input, after shellOutputDrain at most.
ProxyOver(s) ==
    \/ out[s] = "done"
    \/ s \in Shells /\ inDone[s]

ProxyReturns(s) ==
    /\ Goto(s, "proxying", "proxied")
    /\ ProxyOver(s)
    /\ UNCHANGED <<row, rec, buf, file, gauge, trackerVars, proxyVars, store>>

\* Mutant: a shell leaves both channels open.
AfterProxy_LeavesOpen(s) ==
    /\ Goto(s, "proxied", "finished")
    /\ UNCHANGED <<row, rec, buf, file, gauge, trackerVars, proxyVars, store>>

\* The bounded wait for the exit status is over; a shell closes both channels.
AfterProxy(s) ==
    /\ Goto(s, "proxied", "finished")
    /\ IF s \in Shells
       THEN /\ agent' = [agent EXCEPT ![s] = "closed"]
            /\ client' = [client EXCEPT ![s] = "closed"]
       ELSE UNCHANGED <<agent, client>>
    /\ UNCHANGED <<row, rec, buf, file, gauge, trackerVars, store,
                   seen, out, inDone, agentCh>>

\* HookSessionEnd and SessionEnded.
SessionEnded(s) ==
    /\ Goto(s, "finished", "final")
    /\ gauge' = gauge - 1
    /\ UNCHANGED <<row, rec, buf, file, trackerVars, proxyVars, store>>

\* The finaliser: EndSession, which fails once the store is closed...
EndSession(s) ==
    /\ Goto(s, "final", "rowed")
    /\ \/ /\ store = "open"
          /\ row' = [row EXCEPT ![s] = IF @ = "none" THEN "none" ELSE "completed"]
       \/ row' = [row EXCEPT ![s] = IF @ = "none" THEN "none" ELSE "stuck"]
    /\ UNCHANGED <<rec, buf, file, gauge, trackerVars, proxyVars, store>>

\* ... and StopRecording, which writes what the buffer holds now, or fails to.
StopRecording(s) ==
    /\ Goto(s, "rowed", "flushed")
    /\ \/ /\ rec' = [rec EXCEPT ![s] = "written"]
          /\ file' = [file EXCEPT ![s] = buf[s]]
       \/ /\ rec' = [rec EXCEPT ![s] = "lost"]
          /\ UNCHANGED file
    /\ UNCHANGED <<row, buf, gauge, trackerVars, proxyVars, store>>

\* sessions.End, the first of proxyToTarget's defers and so the last to run.
EndBegins(s) ==
    /\ pc[s] = "flushed"
    /\ EndDelete(s)
    /\ UNCHANGED <<handlerVars, proxyVars, store>>

EndReturns(s) ==
    /\ Goto(s, "flushed", "returning")
    /\ EndDone(s)
    /\ UNCHANGED <<row, rec, buf, file, gauge, proxyVars, store>>

\* handleClientSession's deferred channel.Close().
Return(s) ==
    /\ Goto(s, "returning", "gone")
    /\ client' = [client EXCEPT ![s] = "closed"]
    /\ UNCHANGED <<row, rec, buf, file, gauge, trackerVars, store,
                   seen, out, inDone, agent, agentCh>>

----------------------------------------------------------------------------
\* Server.stop.

\* Drain's first section; the listener is closed by now.
Shutdown == StartDrain /\ UNCHANGED <<handlerVars, proxyVars, store>>

\* Mutant: stop leaves the client's channel open.
StopClient_LeavesOpen(s) == UNCHANGED client

\* stop's clientChannel.Close().
StopClient(s) == client' = [client EXCEPT ![s] = "closed"]

\* The session's stop function: the agent's channel only once it is known.
StopSession(s) ==
    /\ Stop(s)
    /\ StopClient(s)
    /\ agent' = [agent EXCEPT ![s] = IF s \in agentCh THEN "closed" ELSE @]
    /\ UNCHANGED <<handlerVars, store, seen, out, inDone, agentCh>>

\* Drain waits, until every session has ended or the deadline has passed.
WaitForSessions ==
    /\ StartWait \/ Drained
    /\ UNCHANGED <<handlerVars, proxyVars, store>>

Deadline == Expired /\ UNCHANGED <<handlerVars, proxyVars, store>>

\* store.Close(), whichever way Drain ended; main returns right after.
CloseStore ==
    /\ drain \in {"drained", "expired"}
    /\ store = "open"
    /\ store' = "closed"
    /\ UNCHANGED <<trackerVars, handlerVars, proxyVars>>

----------------------------------------------------------------------------
Handler(s) ==
    \/ BeginSession(s)
    \/ RefuseSession(s)
    \/ CreateSession(s)
    \/ StartRecording(s)
    \/ SessionStarted(s)
    \/ OpenChannel(s)
    \/ OpenChannelFails(s)
    \/ PublishChannel(s)
    \/ StartProxy(s)
    \/ RequestFails(s)
    \/ ProxyReturns(s)
    \/ AfterProxy(s)
    \/ SessionEnded(s)
    \/ EndSession(s)
    \/ StopRecording(s)
    \/ EndBegins(s)
    \/ EndReturns(s)
    \/ Return(s)

Output(s) == RecordOutput(s) \/ DeliverOutput(s) \/ OutputEnds(s)

Peers(s) ==
    \/ ReadOutput(s)
    \/ AgentCloses(s)
    \/ \E how \in {"half", "closed"} : ClientCloses(s, how)

Stopping ==
    \/ WaitForSessions
    \/ CloseStore
    \/ \E s \in Sessions : StopSession(s)

Next ==
    \/ \E s \in Sessions : Handler(s) \/ Output(s) \/ InputEnds(s) \/ Peers(s)
    \/ Stopping
    \/ Shutdown
    \/ Deadline

Spec == Init /\ [][Next]_vars

\* The gateway's own goroutines are scheduled; that the client leaves, the
\* command prints or ends, or the deadline passes is not assumed.  Opening
\* the channel and the requests on it answer or fail: the gateway's keepalive
\* closes a connection whose peer is silent.
FairSpec ==
    /\ Spec
    /\ \A s \in Sessions : /\ WF_vars(Handler(s))
                           /\ WF_vars(Output(s))
                           /\ WF_vars(InputEnds(s))
    /\ WF_vars(Stopping)

----------------------------------------------------------------------------
\* Properties.

\* What the client saw is in the file: RecordingWriter records before it
\* delivers, and no chunk is delivered after StopRecording took the buffer.
SeenIsRecorded ==
    \A s \in Sessions :
        seen[s] <= IF rec[s] = "written" THEN file[s] ELSE buf[s]

\* "Shutdown ends live sessions through stop, then waits for the deferred
\* finaliser below to write each recording": when the store closes after a
\* drain that did not run into its deadline, no recording is left in memory
\* and no record is left open, unless its own write failed.
CleanStopKeepsRecordings ==
    store = "closed" /\ drain = "drained" =>
        \A s \in Sessions : rec[s] # "memory" /\ row[s] # "active"

Counted == {s \in Sessions :
    pc[s] \in {"started", "opened", "published", "proxying", "proxied", "finished"}}

OpenFailed == {s \in Sessions :
    /\ agent[s] = "none" /\ rec[s] # "none"
    /\ pc[s] \in {"final", "rowed", "flushed", "returning", "gone"}}

\* "Currently active SSH sessions" (HELP of the gauge, metrics.go:43): it
\* shows none once every handler has returned.  A session whose channel to the
\* agent could not be opened returns without SessionEnded (server.go:1054-1063).
GaugeIsActive == (\A s \in Sessions : pc[s] \in {"new", "gone"}) => gauge = 0

\* Why the gauge has a bound at all: it is raised at most once by a session,
\* and stays raised for one whose channel could not be opened.
GaugeDrift == gauge = Cardinality(Counted \cup OpenFailed)

\* The inductive invariant behind the safety properties.  A session is in the
\* tracker from "tracked" until End, which comes after the final writes; and
\* once the handler is past its proxy, the output goroutine has ended or has
\* a closed channel to write to.
Final == {"final", "rowed"}
Flushed == {"flushed", "returning", "gone"}
Unproxied == {"new", "tracked", "created", "recording", "started", "opened", "published"}

SessionOK(s) ==
    /\ caller[s] = "idle" <=> pc[s] = "new"
    /\ caller[s] \in {"refused", "ended"} <=> pc[s] \in {"returning", "gone"}
    /\ caller[s] = "ending" => pc[s] = "flushed"
    /\ caller[s] = "refused" => rec[s] = "none"
    /\ rec[s] = "none" => \/ pc[s] \in {"new", "tracked", "created"}
                          \/ caller[s] = "refused"
    /\ rec[s] = "memory" => pc[s] \notin Flushed \cup {"new", "tracked", "created"}
    /\ rec[s] \in {"written", "lost"} => pc[s] \in Flushed
    /\ row[s] = "active" => pc[s] \notin Flushed \cup {"new", "tracked", "rowed"}
    /\ agent[s] = "none" => pc[s] \in {"new", "tracked", "created", "recording",
                                       "started"} \cup Final \cup Flushed
    /\ pc[s] \in Unproxied \ {"opened", "published"} => agent[s] = "none"
    /\ s \in agentCh => agent[s] # "none"
    /\ pc[s] \in Unproxied => out[s] = "off"
    /\ pc[s] = "proxied" => s \in Shells \/ out[s] = "done"
    /\ pc[s] \in {"finished"} \cup Final \cup Flushed =>
           out[s] \in {"off", "done"} \/ client[s] = "closed"
    /\ seen[s] <= buf[s]
    /\ out[s] = "delivering" => seen[s] < buf[s]
    /\ out[s] = "recording" => buf[s] < MaxChunks
    /\ rec[s] = "written" => seen[s] <= file[s]

SessionInv ==
    /\ TypeOK
    /\ TrackerInv
    /\ GaugeDrift
    /\ \A s \in Sessions : SessionOK(s)

\* "Shutdown ends live sessions through stop": a session whose stop function
\* was called ends by itself, without the deadline being needed.
StoppedSessionsFinish ==
    \A s \in Sessions :
        (s \in stopped) ~> (caller[s] = "ended" \/ drain = "expired")

\* A recording holds what the client saw, and an orderly stop writes it before
\* the store closes (proxyToTarget's finaliser, Shutdown).
RecordingsAreKept == SeenIsRecorded /\ CleanStopKeepsRecordings
=============================================================================
