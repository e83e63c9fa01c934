----------------------------- MODULE WebSession -----------------------------
(***************************************************************************)
(* Web terminals and the file browser (pkg/api/terminal.go, httpserver.go) *)
(* and the agent's end of the channel they use: handleSession, startShell, *)
(* executeCommand (pkg/agent/agent.go).                                    *)
(*                                                                         *)
(* A terminal is a WebSocket, a channel to the agent, a handler that       *)
(* copies browser to agent and a goroutine that copies the other way; the  *)
(* API server's livesessions.Tracker has it while it runs.  A file         *)
(* operation is one command on a channel of its own.                       *)
(***************************************************************************)
EXTENDS Naturals, FiniteSets

CONSTANTS
    Terminals,  \* GET terminal/ws calls
    FileOps,    \* files/* calls
    Listings    \* the ones that list a directory

ASSUME TerminalAssumption == IsFiniteSet(Terminals) /\ Listings \subseteq FileOps

VARIABLES
    tpc,       \* terminal -> where its handler is
    conn,      \* its WebSocket: none, open or closed
    chan,      \* its agent channel: none, open, eof (the agent sent EOF) or closed
    liveConn,  \* terminals whose stop function sees the WebSocket
    liveCh,    \* and the channel
    copier,    \* the agent-to-browser goroutine: none, copying or done
    shell,     \* the agent's end: none, running, exited, waiting or over
    webRow,    \* the session row: none, open, ended, failed (its update was not made)
               \* or stuck (the store was closed by then)
    webRec,    \* its recording: none, open, written or lost in the write
    webGauge,  \* terminals the gauge counts
    webGone,   \* terminals whose browser went away
    webClosing, webStops, webWg, webCaller, webDrain, toTell, webStopped,
               \* webSessions, and where Shutdown is with it
    told,      \* terminals whose stop ran while it could see the WebSocket
    webStore,  \* the database handle
    fpc,       \* file operation -> where its handler is
    fchan,     \* its channel
    fcmd,      \* the command on the host: none, running, exited, status or over
    fgone,     \* operations whose client went away: the request context is done
    ffail,     \* operations the store failed
    fagain,    \* listings at their second command
    audited    \* operation -> the outcome the audit log holds

webTrackerVars == <<webClosing, webStops, webWg, webCaller, webDrain, toTell, webStopped>>
terminalVars == <<tpc, conn, chan, liveConn, liveCh, copier, shell, webRow, webRec, webGauge,
                  webGone, told, webStore, webTrackerVars>>
fileVars     == <<fpc, fchan, fcmd, fgone, ffail, fagain, audited>>
webVars      == <<terminalVars, fileVars>>

\* webSessions.
Web == INSTANCE SessionTracker
         WITH Sessions <- Terminals, closing <- webClosing, stops <- webStops, wg <- webWg,
              caller <- webCaller, drain <- webDrain, toStop <- toTell, stopped <- webStopped

At(t, from, to) == tpc[t] = from /\ tpc' = [tpc EXCEPT ![t] = to]
KeepShutdown == UNCHANGED <<told, webStore, webTrackerVars, fileVars>>

-----------------------------------------------------------------------------
\* terminalWS.

\* No grant; or webSessions.Begin, which refuses during shutdown.
beginTerminal(t) ==
    /\ \/ At(t, "idle", "refused") /\ UNCHANGED webTrackerVars
       \/ At(t, "idle", "refused") /\ Web!BeginRefused(t)
       \/ At(t, "idle", "create") /\ Web!Begin(t)
    /\ UNCHANGED <<told, webStore, fileVars>>
    /\ UNCHANGED <<conn, chan, liveConn, liveCh, copier, shell, webRow, webRec, webGauge, webGone>>

\* EndSession and StopRecording, whose errors are not looked at.
EndRow(t) ==
    IF webStore = "closed" THEN webRow' = [webRow EXCEPT ![t] = "stuck"]
    ELSE \E end \in {"ended", "failed"} : webRow' = [webRow EXCEPT ![t] = end]
EndRecording(t) == \E end \in {"written", "lost"} : webRec' = [webRec EXCEPT ![t] = end]

\* CreateSession, the anomaly check, SessionStarted.
createTerminal(t) ==
    /\ \/ /\ At(t, "create", "record") /\ webStore = "open"
          /\ webRow' = [webRow EXCEPT ![t] = "open"]
          /\ webGauge' = webGauge + 1
       \/ At(t, "create", "return") /\ UNCHANGED <<webRow, webGauge>>
    /\ KeepShutdown
    /\ UNCHANGED <<conn, chan, liveConn, liveCh, copier, shell, webRec, webGone>>

\* StartRecordingSized; when it fails the row is ended.
recordTerminal(t) ==
    /\ \/ /\ At(t, "record", "upgrade")
          /\ webRec' = [webRec EXCEPT ![t] = "open"]
          /\ UNCHANGED <<webRow, webGauge>>
       \/ /\ At(t, "record", "return")
          /\ EndRow(t)
          /\ webGauge' = webGauge - 1
          /\ UNCHANGED webRec
    /\ KeepShutdown
    /\ UNCHANGED <<conn, chan, liveConn, liveCh, copier, shell, webGone>>

\* Mutant: a failed upgrade leaves the gauge up.
upgradeFails_Gauge(t) ==
    /\ At(t, "upgrade", "return")
    /\ EndRecording(t) /\ EndRow(t)
    /\ UNCHANGED <<conn, liveConn, webGauge>>

upgradeFails(t) ==
    /\ At(t, "upgrade", "return")
    /\ EndRecording(t) /\ EndRow(t)
    /\ webGauge' = webGauge - 1
    /\ UNCHANGED <<conn, liveConn>>

\* Upgrade, and under liveMu: liveConn.
upgradeTerminal(t) ==
    /\ \/ /\ At(t, "upgrade", "open")
          /\ conn' = [conn EXCEPT ![t] = "open"]
          /\ liveConn' = liveConn \cup {t}
          /\ UNCHANGED <<webRow, webRec, webGauge>>
       \/ upgradeFails(t)
    /\ KeepShutdown
    /\ UNCHANGED <<chan, liveCh, copier, shell, webGone>>

\* OpenAgentSession: no agent, or a channel.
openTerminal(t) ==
    /\ \/ At(t, "open", "ended") /\ UNCHANGED <<chan, liveCh>>
       \/ /\ At(t, "open", "shell")
          /\ chan' = [chan EXCEPT ![t] = "open"]
          /\ liveCh' = liveCh \cup {t}
    /\ KeepShutdown
    /\ UNCHANGED <<conn, liveConn, copier, shell, webRow, webRec, webGauge, webGone>>

\* The agent starts the shell under a PTY,
startShell(t) ==
    /\ shell' = [shell EXCEPT ![t] = "running"]
    /\ UNCHANGED chan

\* ... unless it drains, knows no such user or cannot start one: then it
\* closes the channel.
handleSession(t) ==
    \/ chan[t] = "open" /\ startShell(t)
    \/ chan' = [chan EXCEPT ![t] = "closed"] /\ UNCHANGED shell

\* pty-req and shell: the handler goes on whatever the agent answers.
startTerminal(t) ==
    /\ At(t, "shell", "relay")
    /\ copier' = [copier EXCEPT ![t] = "copying"]
    /\ handleSession(t)
    /\ KeepShutdown
    /\ UNCHANGED <<conn, liveConn, liveCh, webRow, webRec, webGauge, webGone>>

\* The goroutine: the agent's end, or a browser that does not read, closes
\* the WebSocket.
copyEnds(t) ==
    /\ copier[t] = "copying"
    /\ chan[t] \in {"eof", "closed"} \/ conn[t] = "closed" \/ t \in webGone
    /\ copier' = [copier EXCEPT ![t] = "done"]
    /\ conn' = [conn EXCEPT ![t] = "closed"]
    /\ KeepShutdown
    /\ UNCHANGED <<tpc, chan, liveConn, liveCh, shell, webRow, webRec, webGauge, webGone>>

\* Mutant: the handler waits for the goroutine with the channel still open.
readEnds_Open(t) ==
    /\ At(t, "relay", "wait")
    /\ conn[t] = "closed" \/ t \in webGone \/ chan[t] = "closed"
    /\ KeepShutdown
    /\ UNCHANGED <<conn, chan, liveConn, liveCh, copier, shell, webRow, webRec, webGauge, webGone>>

\* The read loop ends with the WebSocket, or on a failed write to the
\* channel; the channel is closed, so that the goroutine ends.
readEnds(t) ==
    /\ At(t, "relay", "wait")
    /\ conn[t] = "closed" \/ t \in webGone \/ chan[t] = "closed"
    /\ chan' = [chan EXCEPT ![t] = "closed"]
    /\ KeepShutdown
    /\ UNCHANGED <<conn, liveConn, liveCh, copier, shell, webRow, webRec, webGauge, webGone>>

\* <-done.
copierDone(t) ==
    /\ At(t, "wait", "ended") /\ copier[t] = "done"
    /\ KeepShutdown
    /\ UNCHANGED <<conn, chan, liveConn, liveCh, copier, shell, webRow, webRec, webGauge, webGone>>

\* The deferred calls: the row, the recording, the gauge, the audit entry.
finishTerminal(t) ==
    /\ At(t, "ended", "return")
    /\ EndRow(t) /\ EndRecording(t)
    /\ webGauge' = webGauge - 1
    /\ conn' = [conn EXCEPT ![t] = "closed"]
    /\ KeepShutdown
    /\ UNCHANGED <<chan, liveConn, liveCh, copier, shell, webGone>>

\* webSessions.End, the first of the defers and so the last to run.
endTerminal(t) ==
    /\ \/ tpc[t] = "return" /\ Web!EndDelete(t) /\ UNCHANGED tpc
       \/ At(t, "return", "over") /\ Web!EndDone(t)
    /\ UNCHANGED <<told, webStore, fileVars>>
    /\ UNCHANGED <<conn, chan, liveConn, liveCh, copier, shell, webRow, webRec, webGauge, webGone>>

\* The browser goes away.
browserGoes(t) ==
    /\ conn[t] = "open" /\ t \notin webGone
    /\ webGone' = webGone \cup {t}
    /\ KeepShutdown
    /\ UNCHANGED <<tpc, conn, chan, liveConn, liveCh, copier, shell, webRow, webRec, webGauge>>

-----------------------------------------------------------------------------
\* startShell.

\* The shell exits by itself.
shellExits(t) ==
    /\ shell[t] = "running"
    /\ shell' = [shell EXCEPT ![t] = "exited"]
    /\ KeepShutdown
    /\ UNCHANGED <<tpc, conn, chan, liveConn, liveCh, copier, webRow, webRec, webGauge, webGone>>

\* Its output is drained, the exit status sent, the PTY closed, EOF sent.
sendExitStatus(t) ==
    /\ shell[t] = "exited"
    /\ shell' = [shell EXCEPT ![t] = "waiting"]
    /\ chan' = [chan EXCEPT ![t] = IF @ = "open" THEN "eof" ELSE @]
    /\ KeepShutdown
    /\ UNCHANGED <<tpc, conn, liveConn, liveCh, copier, webRow, webRec, webGauge, webGone>>

\* wg.Wait: the copy into the PTY ends once the gateway closes the channel;
\* then the work is over.
shellOver(t) ==
    /\ shell[t] = "waiting" /\ chan[t] = "closed"
    /\ shell' = [shell EXCEPT ![t] = "over"]
    /\ KeepShutdown
    /\ UNCHANGED <<tpc, conn, chan, liveConn, liveCh, copier, webRow, webRec, webGauge, webGone>>

-----------------------------------------------------------------------------
\* Shutdown.

KeepHandlers == UNCHANGED <<tpc, liveConn, liveCh, copier, shell, webRow, webRec, webGauge, webGone, fileVars>>

\* Drain refuses new terminals, and waits for the live ones or the deadline.
drainWeb ==
    /\ Web!StartDrain \/ Web!StartWait \/ Web!Drained \/ Web!Expired
    /\ KeepHandlers /\ UNCHANGED <<conn, chan, told, webStore>>

\* stop, under liveMu: it closes what the handler has registered.
stopTerminal(t) ==
    /\ Web!Stop(t)
    /\ told' = IF t \in liveConn THEN told \cup {t} ELSE told
    /\ conn' = IF t \in liveConn THEN [conn EXCEPT ![t] = "closed"] ELSE conn
    /\ chan' = IF t \in liveCh THEN [chan EXCEPT ![t] = "closed"] ELSE chan
    /\ KeepHandlers /\ UNCHANGED webStore

\* Server.stop closes the store after both drains, however they ended.
closeStore ==
    /\ webDrain \in {"drained", "expired"} /\ webStore = "open"
    /\ webStore' = "closed"
    /\ KeepHandlers /\ UNCHANGED <<conn, chan, told, webTrackerVars>>

-----------------------------------------------------------------------------
\* The file browser.

FileAt(f, from, to) == fpc[f] = from /\ fpc' = [fpc EXCEPT ![f] = to]

\* execOnMachine: no machine or agent, no grant, or a channel with the
\* command started on the host.
execOnMachine(f) ==
    /\ \/ FileAt(f, "idle", "failed") /\ UNCHANGED <<fchan, fcmd>>
       \/ FileAt(f, "idle", "denied") /\ UNCHANGED <<fchan, fcmd>>
       \/ /\ FileAt(f, "idle", "reading")
          /\ fchan' = [fchan EXCEPT ![f] = "open"]
          /\ fcmd' = [fcmd EXCEPT ![f] = "running"]
    /\ UNCHANGED <<terminalVars, fgone, ffail, fagain, audited>>

\* executeCommand: output first, then the exit status, acknowledged by the
\* goroutine that reads the channel's requests, then EOF.
commandEnds(f) ==
    /\ fcmd[f] = "running"
    /\ fcmd' = [fcmd EXCEPT ![f] = "status"]
    /\ UNCHANGED <<terminalVars, fpc, fchan, fgone, ffail, fagain, audited>>

commandEOF(f) ==
    /\ fcmd[f] = "status"
    /\ fcmd' = [fcmd EXCEPT ![f] = "over"]
    /\ fchan' = [fchan EXCEPT ![f] = IF @ = "open" THEN "eof" ELSE @]
    /\ UNCHANGED <<terminalVars, fpc, fgone, ffail, fagain, audited>>

\* The agent goes away with its connection: no status.
agentGoes(f) ==
    /\ fpc[f] = "reading" /\ fchan[f] = "open"
    /\ fchan' = [fchan EXCEPT ![f] = "closed"]
    /\ UNCHANGED <<terminalVars, fpc, fcmd, fgone, ffail, fagain, audited>>

\* EOF: the handler closes the channel and takes the status, or -1.
commandRead(f) ==
    /\ fchan[f] \in {"eof", "closed"}
    /\ FileAt(f, "reading", IF fcmd[f] = "over" THEN "ok" ELSE "failed")
    /\ fchan' = [fchan EXCEPT ![f] = "closed"]
    /\ UNCHANGED <<terminalVars, fcmd, fgone, ffail, fagain, audited>>

\* auditFileOp writes under the request's context: a client that went away
\* cancels it.  The store may fail too.
auditFileOp(f) ==
    /\ f \notin Listings /\ fpc[f] \in {"ok", "failed", "denied"}
    /\ fpc' = [fpc EXCEPT ![f] = "done"]
    /\ \/ f \notin fgone /\ audited' = [audited EXCEPT ![f] = fpc[f]] /\ UNCHANGED ffail
       \/ f \in fgone /\ UNCHANGED <<audited, ffail>>
       \/ ffail' = ffail \cup {f} /\ UNCHANGED audited
    /\ UNCHANGED <<terminalVars, fchan, fcmd, fgone, fagain>>

\* filesList: a command that could not be started is tried once more, in
\* another form; the answer goes to the browser and nothing to the audit log.
filesList(f) ==
    /\ f \in Listings /\ fpc[f] \in {"ok", "failed", "denied"}
    /\ IF fcmd[f] = "none" /\ f \notin fagain
       THEN fpc' = [fpc EXCEPT ![f] = "idle"] /\ fagain' = fagain \cup {f}
       ELSE fpc' = [fpc EXCEPT ![f] = "done"] /\ UNCHANGED fagain
    /\ UNCHANGED <<terminalVars, fchan, fcmd, fgone, ffail, audited>>

clientGoes(f) ==
    /\ fpc[f] \notin {"idle", "done"} /\ f \notin fgone
    /\ fgone' = fgone \cup {f}
    /\ UNCHANGED <<terminalVars, fpc, fchan, fcmd, ffail, fagain, audited>>

-----------------------------------------------------------------------------
WebInit ==
    /\ tpc = [t \in Terminals |-> "idle"]
    /\ conn = [t \in Terminals |-> "none"] /\ chan = [t \in Terminals |-> "none"]
    /\ liveConn = {} /\ liveCh = {}
    /\ copier = [t \in Terminals |-> "none"] /\ shell = [t \in Terminals |-> "none"]
    /\ webRow = [t \in Terminals |-> "none"] /\ webRec = [t \in Terminals |-> "none"]
    /\ webGauge = 0 /\ webGone = {} /\ told = {} /\ webStore = "open" /\ Web!TrackerInit
    /\ fpc = [f \in FileOps |-> "idle"] /\ fchan = [f \in FileOps |-> "none"]
    /\ fcmd = [f \in FileOps |-> "none"] /\ fgone = {} /\ ffail = {} /\ fagain = {}
    /\ audited = [f \in FileOps |-> "none"]

HandlerSteps(t) ==
    \/ createTerminal(t) \/ recordTerminal(t) \/ upgradeTerminal(t) \/ openTerminal(t)
    \/ startTerminal(t) \/ readEnds(t) \/ copierDone(t) \/ finishTerminal(t) \/ endTerminal(t)

ShellSteps(t) == sendExitStatus(t) \/ shellOver(t)

FileSteps(f) == commandRead(f) \/ auditFileOp(f) \/ filesList(f)

TerminalNext ==
    \/ drainWeb \/ closeStore
    \/ \E t \in Terminals :
         \/ beginTerminal(t) \/ HandlerSteps(t) \/ copyEnds(t) \/ browserGoes(t)
         \/ shellExits(t) \/ ShellSteps(t) \/ stopTerminal(t)

FileNext ==
    \E f \in FileOps :
        \/ execOnMachine(f) \/ commandEnds(f) \/ commandEOF(f) \/ agentGoes(f)
        \/ FileSteps(f) \/ clientGoes(f)

WebNext == TerminalNext \/ FileNext

WebSpec == WebInit /\ [][WebNext]_webVars

\* Goroutines are scheduled, writes to a browser that does not read time out.
WebFairness ==
    /\ \A t \in Terminals : WF_webVars(HandlerSteps(t)) /\ WF_webVars(copyEnds(t)) /\ WF_webVars(ShellSteps(t))
    /\ \A f \in FileOps : WF_webVars(FileSteps(f))

\* Shutdown goes on: every stop function is called, and the deadline passes.
FairWebSpec ==
    /\ WebSpec /\ WebFairness
    /\ WF_webVars(drainWeb) /\ \A t \in Terminals : WF_webVars(stopTerminal(t))

WebTypeOK ==
    /\ tpc \in [Terminals -> {"idle", "refused", "create", "record", "upgrade", "open", "shell",
                              "relay", "wait", "ended", "return", "over"}]
    /\ conn \in [Terminals -> {"none", "open", "closed"}]
    /\ chan \in [Terminals -> {"none", "open", "eof", "closed"}]
    /\ shell \in [Terminals -> {"none", "running", "exited", "waiting", "over"}]
    /\ liveConn \subseteq Terminals /\ liveCh \subseteq liveConn
    /\ webGauge \in Nat
    /\ Web!TrackerTypeOK /\ webStore \in {"open", "closed"}
    /\ fpc \in [FileOps -> {"idle", "reading", "ok", "failed", "denied", "done"}]
    /\ audited \in [FileOps -> {"none", "ok", "failed", "denied"}]

-----------------------------------------------------------------------------
\* Properties.

\* Whatever way a terminal ends, once its handler is over its row is ended,
\* its recording written and the gauge no longer counts it; the gauge counts
\* exactly the terminals with an open row.
TerminalAccounted ==
    /\ webGauge = Cardinality({t \in Terminals : webRow[t] = "open"})
    /\ \A t \in Terminals : tpc[t] \in {"return", "over"} => webRow[t] # "open" /\ webRec[t] # "open"

\* "Shutdown ends live web terminal sessions and waits for them to write their recordings":
\* when Drain was in time no recording is open and no row is left active, and a row is
\* left active for want of the store only when the deadline passed first.
ShutdownKeepsTerminals ==
    /\ Web!DrainIsWhole
    /\ webDrain = "drained" => \A t \in Terminals : webRow[t] # "open" /\ webRec[t] # "open"
    /\ \A t \in Terminals : webRow[t] = "stuck" => webDrain = "expired"

\* "Shutdown ends the session through stop and waits for the deferred
\* finaliser": a terminal whose browser went away, whose shell exited, or whose
\* stop saw its WebSocket, comes to its end, and so does the agent's shell
\* when it has exited.
TerminalsFinish ==
    \A t \in Terminals :
        /\ (t \in webGone \/ t \in told \/ shell[t] = "exited") ~> tpc[t] = "over"
        /\ shell[t] = "exited" ~> shell[t] = "over"

\* "Shutdown ends the session through stop and waits for the deferred
\* finaliser below to write its recording and close its record"
\* (terminal.go:136-137): a terminal whose stop function was called ends.
\* A stop that comes before the WebSocket is published finds nothing to close.
StoppedTerminalsFinish == \A t \in Terminals : t \in webStopped ~> tpc[t] = "over"

\* "including failed and refused attempts": a download, an upload, a new
\* directory or a deletion leaves an audit entry with its outcome unless the
\* store failed or its client went away (the four callers of auditFileOp).
FileOpsAudited ==
    \A f \in FileOps \ Listings : fpc[f] = "done" => audited[f] # "none" \/ f \in ffail \cup fgone

\* "these run outside a recorded session, so the audit log is their only
\* record" (terminal.go:512-514): a file browser command that ran on a host is
\* in it whenever the store works.  A listing's is not.
HostCommandsAudited ==
    \A f \in FileOps : fpc[f] = "done" /\ fcmd[f] # "none" => audited[f] # "none" \/ f \in ffail

\* Work done from the browser is accounted for: terminals in the session rows
\* and the gauge, file operations other than listings in the audit log.
WebWorkIsAccounted == WebTypeOK /\ TerminalAccounted /\ ShutdownKeepsTerminals /\ FileOpsAudited
=============================================================================
