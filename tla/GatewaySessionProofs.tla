------------------------ MODULE GatewaySessionProofs -------------------------
(***************************************************************************)
(* Proofs about sessions through the gateway: SSH sessions, for every finite*)
(* set of them, every choice of which are shells and any amount of output; *)
(* browser terminals and file operations, for any number of them; one      *)
(* command, for any amounts of data, any pipe and any window; the hooks of *)
(* sessions, for any list of plugins; and the migration that the server    *)
(* starts with, for any number of processes, keys and stops.               *)
(***************************************************************************)
EXTENDS GatewaySession, WebSession, ExecPipe, PluginHooks, Migration, SessionTrackerProofs, SequenceTheorems

(**** SSH sessions ****)

\* Every step of the gateway is a step of the tracker, or leaves it alone.
LEMMA GatewayStepsTracker == Next => [TrackerNext]_trackerVars
<1> SUFFICES ASSUME Next PROVE [TrackerNext]_trackerVars
  OBVIOUS
<1>1. ASSUME NEW s \in Sessions, Handler(s)
      PROVE  [TrackerNext]_trackerVars
  BY <1>1 DEF Handler, BeginSession, RefuseSession, CreateSession, StartRecording,
        SessionStarted, OpenChannel, OpenChannelFails, PublishChannel, StartProxy,
        RequestFails, ProxyReturns, AfterProxy, SessionEnded, EndSession,
        StopRecording, EndBegins, EndReturns, Return, TrackerNext
<1>2. ASSUME NEW s \in Sessions, Output(s) \/ InputEnds(s) \/ Peers(s)
      PROVE  [TrackerNext]_trackerVars
  BY <1>2 DEF Output, RecordOutput, DeliverOutput, OutputEnds, InputEnds, Peers,
        ReadOutput, AgentCloses, ClientCloses
<1>3. CASE Stopping \/ Shutdown \/ Deadline
  BY <1>3 DEF Stopping, WaitForSessions, CloseStore, StopSession, Shutdown,
        Deadline, TrackerNext
<1>4. QED
  BY <1>1, <1>2, <1>3 DEF Next

\* The gateway's sessions drive the tracker as its specification allows.
THEOREM GatewayUsesTracker == Spec => TrackerSpec
<1>1. Init => TrackerInit
  BY DEF Init
<1>2. [Next]_vars => [TrackerNext]_trackerVars
  <2>1. UNCHANGED vars => UNCHANGED trackerVars
    BY DEF vars
  <2>2. QED
    BY <2>1, GatewayStepsTracker
<1>3. QED
  BY <1>1, <1>2, PTL DEF Spec, TrackerSpec

\* Each step keeps the types, and what SessionOK says of every session.
LEMMA SessionStep ==
    SessionInv /\ Next => SessionTypeOK' /\ (\A t \in Sessions : SessionOK(t))'
<1> DEFINE Goal == SessionTypeOK' /\ (\A t \in Sessions : SessionOK(t))'
<1> SUFFICES ASSUME SessionInv, Next PROVE Goal
  OBVIOUS
<1> USE SessionAssumption DEF SessionInv, TypeOK, TrackerTypeOK, SessionTypeOK, SessionOK, Goto,
        Steps, Final, Flushed, Unproxied,
           handlerVars, proxyVars, trackerVars
<1>1. ASSUME NEW s \in Sessions, BeginSession(s)
      PROVE  Goal
  BY <1>1 DEF BeginSession, Begin
<1>2. ASSUME NEW s \in Sessions, RefuseSession(s)
      PROVE  Goal
  BY <1>2 DEF RefuseSession, BeginRefused
<1>3. ASSUME NEW s \in Sessions, CreateSession(s)
      PROVE  Goal
  BY <1>3 DEF CreateSession
<1>4. ASSUME NEW s \in Sessions, StartRecording(s)
      PROVE  Goal
  BY <1>4 DEF StartRecording
<1>5. ASSUME NEW s \in Sessions, SessionStarted(s)
      PROVE  Goal
  BY <1>5 DEF SessionStarted
<1>6. ASSUME NEW s \in Sessions, OpenChannel(s)
      PROVE  Goal
  BY <1>6 DEF OpenChannel
<1>7. ASSUME NEW s \in Sessions, OpenChannelFails(s)
      PROVE  Goal
  BY <1>7 DEF OpenChannelFails
<1>8. ASSUME NEW s \in Sessions, PublishChannel(s)
      PROVE  Goal
  BY <1>8 DEF PublishChannel
<1>9. ASSUME NEW s \in Sessions, StartProxy(s)
      PROVE  Goal
  BY <1>9 DEF StartProxy
<1>10. ASSUME NEW s \in Sessions, RequestFails(s)
      PROVE  Goal
  BY <1>10 DEF RequestFails
<1>11. ASSUME NEW s \in Sessions, ProxyReturns(s)
      PROVE  Goal
  BY <1>11 DEF ProxyReturns, ProxyOver
<1>12. ASSUME NEW s \in Sessions, AfterProxy(s)
      PROVE  Goal
  BY <1>12 DEF AfterProxy
<1>13. ASSUME NEW s \in Sessions, SessionEnded(s)
      PROVE  Goal
  BY <1>13 DEF SessionEnded
<1>14. ASSUME NEW s \in Sessions, EndSession(s)
      PROVE  Goal
  BY <1>14 DEF EndSession
<1>15. ASSUME NEW s \in Sessions, StopRecording(s)
      PROVE  Goal
  BY <1>15 DEF StopRecording
<1>16. ASSUME NEW s \in Sessions, EndBegins(s)
      PROVE  Goal
  BY <1>16 DEF EndBegins, EndDelete
<1>17. ASSUME NEW s \in Sessions, EndReturns(s)
      PROVE  Goal
  BY <1>17 DEF EndReturns, EndDone
<1>18. ASSUME NEW s \in Sessions, Return(s)
      PROVE  Goal
  BY <1>18 DEF Return
<1>19. ASSUME NEW s \in Sessions, ReadOutput(s)
      PROVE  Goal
  BY <1>19 DEF ReadOutput
<1>20. ASSUME NEW s \in Sessions, RecordOutput(s)
      PROVE  Goal
  BY <1>20 DEF RecordOutput
<1>21. ASSUME NEW s \in Sessions, DeliverOutput(s)
      PROVE  Goal
  BY <1>21 DEF DeliverOutput
<1>22. ASSUME NEW s \in Sessions, OutputEnds(s)
      PROVE  Goal
  BY <1>22 DEF OutputEnds
<1>23. ASSUME NEW s \in Sessions, InputEnds(s)
      PROVE  Goal
  BY <1>23 DEF InputEnds
<1>24. ASSUME NEW s \in Sessions, AgentCloses(s)
      PROVE  Goal
  BY <1>24 DEF AgentCloses
<1>25. ASSUME NEW s \in Sessions, StopSession(s)
      PROVE  Goal
  BY <1>25 DEF StopSession, Stop, StopClient
<1>26. ASSUME NEW s \in Sessions, NEW how \in {"half", "closed"}, ClientCloses(s, how)
      PROVE  Goal
  BY <1>26 DEF ClientCloses
<1>27. CASE Shutdown
  BY <1>27 DEF Shutdown, StartDrain
<1>28. CASE WaitForSessions
  BY <1>28 DEF WaitForSessions, StartWait, Drained
<1>29. CASE Deadline
  BY <1>29 DEF Deadline, Expired
<1>30. CASE CloseStore
  BY <1>30 DEF CloseStore
<1> HIDE DEF SessionInv, SessionOK, SessionTypeOK
<1>31. QED
  BY <1>1, <1>2, <1>3, <1>4, <1>5, <1>6, <1>7, <1>8, <1>9, <1>10, <1>11, <1>12,
     <1>13, <1>14, <1>15, <1>16, <1>17, <1>18, <1>19, <1>20, <1>21, <1>22, <1>23,
     <1>24, <1>25, <1>26, <1>27, <1>28, <1>29, <1>30
     DEF Next, Handler, Output, Peers, Stopping

----------------------------------------------------------------------------
\* What the gauge counts is a finite set of sessions.
LEMMA GaugedFinite ==
    /\ IsFiniteSet(Counted \cup OpenFailed)
    /\ Cardinality(Counted \cup OpenFailed) \in 0..Cardinality(Sessions)
<1>1. Counted \cup OpenFailed \subseteq Sessions
  BY DEF Counted, OpenFailed
<1>2. QED
  BY <1>1, SessionsFinite, FS_Subset, FS_CardinalityType

\* The gauge moves with that set: up in SessionStarted, down in SessionEnded.
LEMMA GaugeStep == SessionInv /\ Next => GaugeDrift'
<1> SUFFICES ASSUME SessionInv, Next PROVE GaugeDrift'
  OBVIOUS
<1> DEFINE Gauged == Counted \cup OpenFailed
           Same == gauge' = gauge /\ Gauged' = Gauged
<1>1. GaugeDrift /\ IsFiniteSet(Gauged) /\ Cardinality(Gauged) \in Nat
  BY GaugedFinite, FS_CardinalityType DEF SessionInv
<1>2. ASSUME NEW s \in Sessions, SessionStarted(s)
      PROVE  GaugeDrift'
  <2>1. s \notin Gauged /\ Gauged' = Gauged \cup {s}
    BY <1>2 DEF SessionInv, TypeOK, SessionTypeOK, SessionStarted, Goto, Counted,
          OpenFailed, proxyVars
  <2>2. QED
    BY <1>1, <1>2, <2>1, FS_AddElement DEF GaugeDrift, SessionStarted
<1>3. ASSUME NEW s \in Sessions, SessionEnded(s)
      PROVE  GaugeDrift'
  <2>1. s \in Gauged /\ Gauged' = Gauged \ {s}
    BY <1>3 DEF SessionInv, TypeOK, SessionTypeOK, SessionOK, SessionEnded, Goto,
          Counted, OpenFailed, Final, Flushed, proxyVars
  <2>2. QED
    BY <1>1, <1>3, <2>1, FS_RemoveElement DEF GaugeDrift, SessionEnded
<1>4. ASSUME NEW s \in Sessions, Handler(s), ~SessionStarted(s), ~SessionEnded(s)
      PROVE  Same
  <2> USE DEF SessionInv, TypeOK, SessionTypeOK, SessionOK, Goto, Counted, OpenFailed,
        Final, Flushed, Unproxied, proxyVars, handlerVars
  <2>1. CASE BeginSession(s) \/ RefuseSession(s) \/ CreateSession(s) \/ StartRecording(s)
    BY <2>1 DEF BeginSession, RefuseSession, CreateSession, StartRecording
  <2>2. CASE OpenChannel(s) \/ OpenChannelFails(s) \/ PublishChannel(s)
    BY <2>2 DEF OpenChannel, OpenChannelFails, PublishChannel
  <2>3. CASE StartProxy(s) \/ RequestFails(s) \/ ProxyReturns(s) \/ AfterProxy(s)
    BY <2>3 DEF StartProxy, RequestFails, ProxyReturns, AfterProxy
  <2>4. CASE EndSession(s) \/ StopRecording(s)
    BY <2>4 DEF EndSession, StopRecording
  <2>5. CASE EndBegins(s) \/ EndReturns(s) \/ Return(s)
    BY <2>5 DEF EndBegins, EndReturns, Return
  <2> HIDE DEF SessionInv, SessionOK, SessionTypeOK
  <2>6. QED
    BY <1>4, <2>1, <2>2, <2>3, <2>4, <2>5 DEF Handler
<1>5. ASSUME NEW s \in Sessions, Output(s) \/ InputEnds(s) \/ Peers(s)
      PROVE  Same
  BY <1>5 DEF SessionInv, TypeOK, SessionTypeOK, Output, RecordOutput, DeliverOutput,
        OutputEnds, InputEnds, Peers, ReadOutput, AgentCloses, ClientCloses, Counted,
        OpenFailed, handlerVars
<1>6. CASE Stopping \/ Shutdown \/ Deadline
  <2>1. Same
    BY <1>6 DEF SessionInv, TypeOK, SessionTypeOK, SessionOK, Stopping, WaitForSessions,
          CloseStore, StopSession, Shutdown, Deadline, Counted, OpenFailed, handlerVars,
          proxyVars
  <2>2. QED
    BY <1>1, <2>1 DEF GaugeDrift
<1>7. QED
  BY <1>1, <1>2, <1>3, <1>4, <1>5, <1>6 DEF Next, GaugeDrift

\* The inductive step of the gateway's invariant.
LEMMA SessionInvStep == SessionInv /\ [Next]_vars => SessionInv'
<1> SUFFICES ASSUME SessionInv, [Next]_vars PROVE SessionInv'
  OBVIOUS
<1>1. CASE Next
  <2>1. TrackerInv'
    BY <1>1, GatewayStepsTracker, TrackerInvStep DEF SessionInv
  <2>2. SessionTypeOK' /\ (\A s \in Sessions : SessionOK(s))'
    BY <1>1, SessionStep
  <2>3. GaugeDrift'
    BY <1>1, GaugeStep
  <2>4. gauge' \in 0..Cardinality(Sessions)
    <3>1. (Counted \cup OpenFailed)' \subseteq Sessions
      BY DEF Counted, OpenFailed
    <3>2. Cardinality((Counted \cup OpenFailed)') \in 0..Cardinality(Sessions)
      BY <3>1, SessionsFinite, FS_Subset, FS_CardinalityType
    <3>3. QED
      BY <2>3, <3>2 DEF GaugeDrift
  <2>5. QED
    BY <2>1, <2>2, <2>3, <2>4 DEF SessionInv, TypeOK, TrackerInv
<1>2. CASE UNCHANGED vars
  BY <1>2 DEF vars, trackerVars, handlerVars, proxyVars, SessionInv, TypeOK,
        TrackerInv, TrackerTypeOK, InFlight, DrainedMeansNoneInFlight,
        NoLiveSessionMissed, GaugeDrift, Counted, OpenFailed, SessionTypeOK, SessionOK
<1>3. QED
  BY <1>1, <1>2

\* It holds before the first session.
LEMMA SessionInvInit == Init => SessionInv
<1> SUFFICES ASSUME Init PROVE SessionInv
  OBVIOUS
<1>1. TrackerInv
  BY TrackerInvInit DEF Init
<1>2. Counted \cup OpenFailed = {}
  BY DEF Init, Counted, OpenFailed
<1>3. gauge = 0 /\ GaugeDrift /\ gauge \in 0..Cardinality(Sessions)
  <2>1. Cardinality(Counted \cup OpenFailed) = 0
    BY <1>2, FS_EmptySet
  <2>2. Cardinality(Sessions) \in Nat
    BY SessionsFinite, FS_CardinalityType
  <2>3. QED
    BY <2>1, <2>2 DEF Init, GaugeDrift
<1>4. SessionTypeOK /\ \A s \in Sessions : SessionOK(s)
  BY SessionAssumption DEF Init, TrackerInit, SessionTypeOK, SessionOK, Steps, Final,
        Flushed, Unproxied
<1>5. QED
  BY <1>1, <1>3, <1>4 DEF SessionInv, TypeOK, TrackerInv

\* The invariant of the gateway's sessions, for any number of them.
THEOREM SessionInvariant == Spec => []SessionInv
<1>1. QED
  BY SessionInvInit, SessionInvStep, PTL DEF Spec

\* Nothing the client saw is missing from the recording: the copy records
\* first, and the client's channel is closed, or the copy over, before
\* StopRecording takes the buffer.
THEOREM RecordingIsComplete == Spec => []SeenIsRecorded
<1>1. SessionInv => SeenIsRecorded
  BY DEF SessionInv, SessionOK, SeenIsRecorded
<1>2. QED
  BY <1>1, SessionInvariant, PTL

\* A shutdown whose Drain returned nil closes the store with every recording
\* flushed and every record closed, but for writes that themselves failed.
THEOREM CleanStopIsClean == Spec => []CleanStopKeepsRecordings
<1>1. SessionInv => CleanStopKeepsRecordings
  <2> SUFFICES ASSUME SessionInv, drain = "drained", NEW s \in Sessions
               PROVE  rec[s] # "memory" /\ row[s] # "active"
    BY DEF CleanStopKeepsRecordings
  <2>1. caller[s] \in {"idle", "refused", "ended"}
    BY DEF SessionInv, TrackerInv, TrackerTypeOK, DrainedMeansNoneInFlight, InFlight
  <2>2. pc[s] \in {"new", "returning", "gone"}
    BY <2>1 DEF SessionInv, SessionOK
  <2>3. QED
    BY <2>2 DEF SessionInv, SessionOK, Flushed
<1>2. QED
  BY <1>1, SessionInvariant, PTL

\* The gateway inherits the tracker's promise, as it implements the tracker.
THEOREM GatewayDrainIsWhole == Spec => []DrainIsWhole
<1>1. QED
  BY GatewayUsesTracker, DrainKeepsItsPromise, PTL

\* Recordings: complete while the session runs, written before the store is
\* closed by a shutdown that was in time.
THEOREM GatewayKeepsRecordings == Spec => []RecordingsAreKept
<1>1. SeenIsRecorded /\ CleanStopKeepsRecordings => RecordingsAreKept
  BY DEF RecordingsAreKept
<1>2. QED
  BY <1>1, RecordingIsComplete, CleanStopIsClean, PTL

(**** Browser terminals and file operations ****)

\* The proofs about the tracker, for webSessions.
WebProofs == INSTANCE SessionTrackerProofs
               WITH Sessions <- Terminals, closing <- webClosing, stops <- webStops, wg <- webWg,
                    caller <- webCaller, drain <- webDrain, toStop <- toTell, stopped <- webStopped

\* What the terminals rely on.
WebTracked == Web!TrackerTypeOK /\ Web!DrainIsWhole

\* webSessions keeps the tracker's promise, as every tracker does.
LEMMA WebTrackerKeepsPromise == Web!TrackerSpec => []WebTracked
<1>1. WebProofs!IsFiniteSet(Terminals)
  BY TerminalAssumption DEF WebProofs!IsFiniteSet, IsFiniteSet
<1>2. WebProofs!TrackerSpec => []WebProofs!TrackerInv
  BY <1>1, WebProofs!TrackerInvariant
<1>3. WebProofs!TrackerInv => WebTracked
  BY DEF WebTracked, WebProofs!TrackerInv, WebProofs!TrackerTypeOK, WebProofs!DrainedMeansNoneInFlight,
     WebProofs!NoLiveSessionMissed, WebProofs!InFlight, Web!TrackerTypeOK, Web!DrainIsWhole,
     Web!DrainedMeansNoneInFlight, Web!NoLiveSessionMissed, Web!InFlight
<1>4. Web!TrackerInit => WebProofs!TrackerInit
  BY DEF Web!TrackerInit, WebProofs!TrackerInit
<1>5. [Web!TrackerNext]_(Web!trackerVars) => [WebProofs!TrackerNext]_(WebProofs!trackerVars)
  BY DEF Web!TrackerNext, Web!trackerVars, Web!Begin, Web!BeginRefused, Web!EndDelete, Web!EndDone,
     Web!Stop, Web!StartDrain, Web!StartWait, Web!Drained, Web!Expired,
     WebProofs!TrackerNext, WebProofs!trackerVars, WebProofs!Begin, WebProofs!BeginRefused,
     WebProofs!EndDelete, WebProofs!EndDone, WebProofs!Stop, WebProofs!StartDrain,
     WebProofs!StartWait, WebProofs!Drained, WebProofs!Expired
<1>6. QED
  BY <1>2, <1>3, <1>4, <1>5, PTL DEF Web!TrackerSpec, WebProofs!TrackerSpec

\* The steps of the handlers and the shells that are none of the tracker's.
LEMMA HandlersKeepTracker ==
    ASSUME NEW t \in Terminals,
           \/ createTerminal(t) \/ recordTerminal(t) \/ upgradeTerminal(t) \/ openTerminal(t)
           \/ startTerminal(t) \/ readEnds(t) \/ copierDone(t) \/ finishTerminal(t)
           \/ copyEnds(t) \/ browserGoes(t) \/ shellExits(t) \/ ShellSteps(t)
    PROVE  KeepShutdown
BY DEF createTerminal, recordTerminal, upgradeTerminal, openTerminal, startTerminal, readEnds,
   copierDone, finishTerminal, copyEnds, browserGoes, shellExits, ShellSteps, sendExitStatus, shellOver

\* File operations leave the terminals alone.
LEMMA FilesKeepTerminals == FileNext => UNCHANGED terminalVars
BY DEF FileNext, FileSteps, execOnMachine, commandEnds, commandEOF, agentGoes, commandRead,
   auditFileOp, filesList, clientGoes

\* The terminals use webSessions as its interface allows: whatever a handler, a shell, a
\* browser or Shutdown does is a step of the tracker or leaves it alone.
THEOREM WebUsesTracker == WebSpec => Web!TrackerSpec
<1>1. WebInit => Web!TrackerInit
  BY DEF WebInit
<1>2. [WebNext]_webVars => [Web!TrackerNext]_(Web!trackerVars)
  <2> SUFFICES ASSUME [WebNext]_webVars PROVE [Web!TrackerNext]_(Web!trackerVars)
    OBVIOUS
  <2> USE DEF Web!trackerVars
  <2>1. CASE UNCHANGED terminalVars
    BY <2>1 DEF terminalVars, webTrackerVars
  <2>2. ASSUME NEW t \in Terminals, KeepShutdown PROVE UNCHANGED Web!trackerVars
    BY <2>2 DEF KeepShutdown, webTrackerVars
  <2>3. ASSUME NEW t \in Terminals, beginTerminal(t) PROVE [Web!TrackerNext]_(Web!trackerVars)
    BY <2>3 DEF beginTerminal, webTrackerVars, Web!TrackerNext
  <2>4. ASSUME NEW t \in Terminals, endTerminal(t) \/ stopTerminal(t)
        PROVE  [Web!TrackerNext]_(Web!trackerVars)
    BY <2>4 DEF endTerminal, stopTerminal, Web!TrackerNext
  <2>5. CASE drainWeb \/ closeStore
    BY <2>5 DEF drainWeb, closeStore, webTrackerVars, Web!TrackerNext
  <2>6. QED
    BY <2>1, <2>2, <2>3, <2>4, <2>5, HandlersKeepTracker, FilesKeepTerminals
       DEF WebNext, TerminalNext, HandlerSteps, webVars
<1>3. QED
  BY <1>1, <1>2, PTL DEF WebSpec, Web!TrackerSpec

\* A terminal between the creation of its row and its deferred calls.
UnderWay == {"record", "upgrade", "open", "shell", "relay", "wait", "ended"}

\* Where a terminal's handler is tells the state of its row, its recording and its stop;
\* the tracker has it until its deferred calls have run.
TerminalOK(t) ==
    /\ webRow[t] = "open" <=> tpc[t] \in UnderWay
    /\ webRec[t] = "open" <=> tpc[t] \in UnderWay \ {"record"}
    /\ tpc[t] \in UnderWay \ {"record", "upgrade"} => t \in liveConn
    /\ tpc[t] \in UnderWay \cup {"create"} => webCaller[t] = "live"
    /\ webRow[t] = "stuck" => webDrain = "expired"

TerminalsTyped ==
    /\ tpc \in [Terminals -> {"idle", "refused", "create", "record", "upgrade", "open", "shell",
                              "relay", "wait", "ended", "return", "over"}]
    /\ conn \in [Terminals -> {"none", "open", "closed"}]
    /\ chan \in [Terminals -> {"none", "open", "eof", "closed"}]
    /\ shell \in [Terminals -> {"none", "running", "exited", "waiting", "over"}]
    /\ webRow \in [Terminals -> {"none", "open", "ended", "failed", "stuck"}]
    /\ webRec \in [Terminals -> {"none", "open", "written", "lost"}]
    /\ liveConn \subseteq Terminals /\ liveCh \subseteq liveConn
    /\ webStore \in {"open", "closed"}

\* The store is closed once Drain has returned, so that a drain in time leaves no handler
\* without it.
StoreAfterDrain == webStore = "closed" => webDrain \in {"drained", "expired"}

OpenRows == {t \in Terminals : webRow[t] = "open"}

TerminalsInv ==
    /\ TerminalsTyped
    /\ StoreAfterDrain
    /\ \A t \in Terminals : TerminalOK(t)
    /\ webGauge = Cardinality(OpenRows)

\* An operation that is done and no listing left its entry, failed in the store or lost its client.
FilesInv ==
    /\ fpc \in [FileOps -> {"idle", "reading", "ok", "failed", "denied", "done"}]
    /\ audited \in [FileOps -> {"none", "ok", "failed", "denied"}]
    /\ FileOpsAudited

\* The open rows are finitely many.
LEMMA OpenRowsFinite ==
    IsFiniteSet(OpenRows) /\ Cardinality(OpenRows) \in Nat
BY TerminalAssumption, FS_Subset, FS_CardinalityType DEF OpenRows

\* A row that is opened adds one to the gauge,
LEMMA RowOpens ==
    ASSUME TerminalsInv, NEW t \in Terminals, webRow[t] # "open",
           webRow' = [webRow EXCEPT ![t] = "open"], webGauge' = webGauge + 1
    PROVE  webGauge' = Cardinality(OpenRows')
<1>1. OpenRows' = OpenRows \cup {t} /\ t \notin OpenRows
  BY DEF OpenRows, TerminalsInv, TerminalsTyped
<1>2. QED
  BY <1>1, OpenRowsFinite, FS_AddElement DEF TerminalsInv

\* ... and one that is ended takes it back.
LEMMA RowEnds ==
    ASSUME TerminalsInv, NEW t \in Terminals, webRow[t] = "open",
           NEW end, end # "open", webRow' = [webRow EXCEPT ![t] = end],
           webGauge' = webGauge - 1
    PROVE  webGauge' = Cardinality(OpenRows')
<1>1. OpenRows' = OpenRows \ {t} /\ t \in OpenRows
  BY DEF OpenRows, TerminalsInv, TerminalsTyped
<1>2. QED
  BY <1>1, OpenRowsFinite, FS_RemoveElement DEF TerminalsInv

\* A handler that ends its row finds the store closed only after the deadline: a drain in
\* time would have waited for it.
LEMMA RowIsEnded ==
    ASSUME TerminalsInv, WebTracked, NEW t \in Terminals, tpc[t] \in UnderWay, EndRow(t)
    PROVE  \E end \in {"ended", "failed", "stuck"} :
               /\ webRow' = [webRow EXCEPT ![t] = end]
               /\ end = "stuck" => webDrain = "expired"
<1>1. webCaller[t] = "live"
  BY DEF TerminalsInv, TerminalOK
<1>2. webDrain # "drained"
  BY <1>1 DEF WebTracked, Web!DrainIsWhole, Web!DrainedMeansNoneInFlight, Web!InFlight
<1>3. webStore = "closed" => webDrain = "expired"
  BY <1>2 DEF TerminalsInv, StoreAfterDrain
<1>4. QED
  BY <1>3 DEF EndRow

\* The terminals' rows, recordings and gauge stay in step with the tracker and the store.
LEMMA TerminalsStep ==
    ASSUME TerminalsInv, WebTracked, [WebNext]_webVars
    PROVE  TerminalsInv'
<1> DEFINE Goal == TerminalsTyped' /\ StoreAfterDrain' /\ \A u \in Terminals : TerminalOK(u)'
<1> USE DEF At, UnderWay, TerminalsTyped, TerminalOK, StoreAfterDrain
<1>0. TerminalsTyped /\ StoreAfterDrain /\ \A u \in Terminals : TerminalOK(u)
  BY DEF TerminalsInv
<1>k. ASSUME KeepShutdown PROVE UNCHANGED <<webCaller, webDrain, webStore>>
  BY <1>k DEF KeepShutdown, webTrackerVars
<1>1. ASSUME NEW t \in Terminals, createTerminal(t) PROVE TerminalsInv'
  <2>1. Goal
    BY <1>0, <1>1, <1>k DEF createTerminal
  <2>2. CASE UNCHANGED <<webRow, webGauge>>
    BY <2>1, <2>2 DEF TerminalsInv, OpenRows
  <2>3. CASE /\ At(t, "create", "record") /\ webRow' = [webRow EXCEPT ![t] = "open"]
             /\ webGauge' = webGauge + 1
    BY <1>0, <2>1, <2>3, RowOpens DEF TerminalsInv
  <2>4. QED
    BY <1>1, <2>2, <2>3 DEF createTerminal
<1>2. ASSUME NEW t \in Terminals, recordTerminal(t) PROVE TerminalsInv'
  <2>1. CASE At(t, "record", "upgrade")
    <3>1. webRec' = [webRec EXCEPT ![t] = "open"] /\ UNCHANGED <<webRow, webGauge>>
      BY <1>0, <1>2, <2>1 DEF recordTerminal
    <3>2. Goal
      BY <1>0, <1>2, <1>k, <2>1, <3>1 DEF recordTerminal
    <3>3. QED
      BY <3>1, <3>2 DEF TerminalsInv, OpenRows
  <2>2. CASE At(t, "record", "return")
    <3>1. EndRow(t) /\ webGauge' = webGauge - 1 /\ UNCHANGED webRec
      BY <1>0, <1>2, <2>2 DEF recordTerminal
    <3>2. PICK end \in {"ended", "failed", "stuck"} : webRow' = [webRow EXCEPT ![t] = end]
                                                      /\ (end = "stuck" => webDrain = "expired")
      BY <2>2, <3>1, RowIsEnded
    <3>3. Goal
      BY <1>0, <1>2, <1>k, <2>2, <3>1, <3>2 DEF recordTerminal
    <3>4. QED
      BY <1>0, <2>2, <3>1, <3>2, <3>3, RowEnds DEF TerminalsInv
  <2>3. QED
    BY <1>2, <2>1, <2>2 DEF recordTerminal
<1>3. ASSUME NEW t \in Terminals, upgradeTerminal(t) PROVE TerminalsInv'
  <2>1. CASE At(t, "upgrade", "open")
    <3>1. UNCHANGED <<webRow, webRec, webGauge>> /\ liveConn' = liveConn \cup {t}
      BY <1>0, <1>3, <2>1 DEF upgradeTerminal, upgradeFails
    <3>2. Goal
      BY <1>0, <1>3, <1>k, <2>1, <3>1 DEF upgradeTerminal, upgradeFails
    <3>3. QED
      BY <3>1, <3>2 DEF TerminalsInv, OpenRows
  <2>2. CASE upgradeFails(t)
    <3>1. PICK end \in {"ended", "failed", "stuck"} : webRow' = [webRow EXCEPT ![t] = end]
                                                      /\ (end = "stuck" => webDrain = "expired")
      BY <2>2, RowIsEnded DEF upgradeFails
    <3>2. Goal
      BY <1>0, <1>3, <1>k, <2>2, <3>1 DEF upgradeTerminal, upgradeFails, EndRecording
    <3>3. QED
      BY <1>0, <2>2, <3>1, <3>2, RowEnds DEF TerminalsInv, upgradeFails
  <2>3. QED
    BY <1>3, <2>1, <2>2 DEF upgradeTerminal
<1>4. ASSUME NEW t \in Terminals, finishTerminal(t) PROVE TerminalsInv'
  <2>1. PICK end \in {"ended", "failed", "stuck"} : webRow' = [webRow EXCEPT ![t] = end]
                                                    /\ (end = "stuck" => webDrain = "expired")
    BY <1>4, RowIsEnded DEF finishTerminal
  <2>2. Goal
    BY <1>0, <1>4, <1>k, <2>1 DEF finishTerminal, EndRecording
  <2>3. QED
    BY <1>0, <1>4, <2>1, <2>2, RowEnds DEF TerminalsInv, finishTerminal
<1>5. ASSUME NEW t \in Terminals,
             openTerminal(t) \/ startTerminal(t) \/ readEnds(t) \/ copierDone(t)
      PROVE  TerminalsInv'
  <2>1. UNCHANGED <<webRow, webRec, webGauge, liveConn>>
    BY <1>5 DEF openTerminal, startTerminal, readEnds, copierDone
  <2>2. Goal
    <3>1. UNCHANGED <<webCaller, webDrain, webStore>>
      BY <1>5, <1>k, HandlersKeepTracker
    <3>2. CASE openTerminal(t)
      BY <1>0, <3>1, <3>2 DEF openTerminal
    <3>3. CASE startTerminal(t)
      BY <1>0, <3>1, <3>3 DEF startTerminal, handleSession, startShell
    <3>4. CASE readEnds(t) \/ copierDone(t)
      BY <1>0, <3>1, <3>4 DEF readEnds, copierDone
    <3>5. QED
      BY <1>5, <3>2, <3>3, <3>4
  <2>3. QED
    BY <2>1, <2>2 DEF TerminalsInv, OpenRows
<1>6. ASSUME NEW t \in Terminals, copyEnds(t) \/ browserGoes(t) \/ shellExits(t) \/ ShellSteps(t)
                \/ stopTerminal(t)
      PROVE  TerminalsInv'
  <2>1. UNCHANGED <<tpc, webRow, webRec, webGauge, liveConn, liveCh>>
    BY <1>6 DEF copyEnds, browserGoes, shellExits, ShellSteps, sendExitStatus, shellOver,
       stopTerminal, KeepHandlers
  <2>2. UNCHANGED <<webCaller, webDrain, webStore>>
    <3>1. CASE stopTerminal(t)
      BY <3>1 DEF stopTerminal, Web!Stop
    <3>2. QED
      BY <1>6, <1>k, <3>1, HandlersKeepTracker
  <2>3. /\ conn' \in [Terminals -> {"none", "open", "closed"}]
        /\ shell' \in [Terminals -> {"none", "running", "exited", "waiting", "over"}]
    BY <1>0, <1>6 DEF copyEnds, browserGoes, shellExits, ShellSteps, sendExitStatus, shellOver,
       stopTerminal, KeepHandlers
  <2>4. chan' \in [Terminals -> {"none", "open", "eof", "closed"}]
    BY <1>0, <1>6 DEF copyEnds, browserGoes, shellExits, ShellSteps, sendExitStatus, shellOver,
       stopTerminal, KeepHandlers
  <2>5. QED
    BY <1>0, <2>1, <2>2, <2>3, <2>4 DEF TerminalsInv, OpenRows
<1>7. ASSUME NEW t \in Terminals, beginTerminal(t) \/ endTerminal(t) PROVE TerminalsInv'
  <2>1. UNCHANGED <<conn, chan, shell, webRow, webRec, webGauge, liveConn, liveCh, webStore>>
    BY <1>7 DEF beginTerminal, endTerminal
  <2>2. UNCHANGED webDrain
    BY <1>7 DEF beginTerminal, endTerminal, webTrackerVars, Web!Begin, Web!BeginRefused,
       Web!EndDelete, Web!EndDone
  <2>3. webCaller \in [Terminals -> {"idle", "refused", "live", "ending", "ended"}]
    BY DEF WebTracked, Web!TrackerTypeOK
  <2>4. Goal
    <3>1. CASE beginTerminal(t)
      BY <1>0, <2>1, <2>2, <2>3, <3>1
         DEF beginTerminal, webTrackerVars, Web!Begin, Web!BeginRefused
    <3>2. CASE endTerminal(t)
      BY <1>0, <2>1, <2>2, <2>3, <3>2 DEF endTerminal, Web!EndDelete, Web!EndDone
    <3>3. QED
      BY <1>7, <3>1, <3>2
  <2>5. QED
    BY <2>1, <2>4 DEF TerminalsInv, OpenRows
<1>8. CASE drainWeb \/ closeStore
  <2>1. UNCHANGED <<tpc, conn, chan, shell, webRow, webRec, webGauge, liveConn, liveCh, webCaller>>
    BY <1>8 DEF drainWeb, closeStore, KeepHandlers, webTrackerVars, Web!StartDrain, Web!StartWait,
       Web!Drained, Web!Expired
  <2>2. /\ webStore' \in {"open", "closed"} /\ StoreAfterDrain'
        /\ webDrain = "expired" => webDrain' = "expired"
    BY <1>0, <1>8 DEF drainWeb, closeStore, webTrackerVars, Web!StartDrain, Web!StartWait,
       Web!Drained, Web!Expired
  <2>3. QED
    BY <1>0, <2>1, <2>2 DEF TerminalsInv, OpenRows
<1>9. CASE UNCHANGED terminalVars
  BY <1>0, <1>9 DEF TerminalsInv, OpenRows, terminalVars, webTrackerVars
<1>10. QED
  BY <1>1, <1>2, <1>3, <1>4, <1>5, <1>6, <1>7, <1>8, <1>9, FilesKeepTerminals
     DEF WebNext, TerminalNext, HandlerSteps, webVars

\* Every operation but a listing comes to its audit entry.
LEMMA FilesStep ==
    ASSUME FilesInv, [WebNext]_webVars
    PROVE  FilesInv'
<1> USE DEF FilesInv, FileOpsAudited
<1>1. ASSUME NEW f \in FileOps, execOnMachine(f) \/ commandRead(f) PROVE FilesInv'
  <2>1. /\ UNCHANGED <<ffail, fgone, audited>>
        /\ \E x \in {"reading", "ok", "failed", "denied"} : fpc' = [fpc EXCEPT ![f] = x]
    BY <1>1 DEF execOnMachine, commandRead, FileAt
  <2>2. QED
    BY <2>1
<1>2. ASSUME NEW f \in FileOps, auditFileOp(f) PROVE FilesInv'
  BY <1>2 DEF auditFileOp
<1>6. ASSUME NEW f \in FileOps, filesList(f) PROVE FilesInv'
  <2>1. /\ f \in Listings /\ UNCHANGED <<ffail, fgone, audited>>
        /\ \E x \in {"idle", "done"} : fpc' = [fpc EXCEPT ![f] = x]
    BY <1>6 DEF filesList
  <2>2. QED
    BY <2>1
<1>3. ASSUME NEW f \in FileOps, commandEnds(f) \/ commandEOF(f) \/ agentGoes(f) \/ clientGoes(f)
      PROVE  FilesInv'
  BY <1>3 DEF commandEnds, commandEOF, agentGoes, clientGoes
<1>4. CASE TerminalNext \/ UNCHANGED webVars
  <2>1. ASSUME NEW t \in Terminals, beginTerminal(t) \/ endTerminal(t) \/ stopTerminal(t)
        PROVE  UNCHANGED fileVars
    BY <2>1 DEF beginTerminal, endTerminal, stopTerminal, KeepHandlers
  <2>2. drainWeb \/ closeStore => UNCHANGED fileVars
    BY DEF drainWeb, closeStore, KeepHandlers
  <2>3. KeepShutdown \/ UNCHANGED webVars => UNCHANGED fileVars
    BY DEF KeepShutdown, webVars
  <2>4. UNCHANGED fileVars
    BY <1>4, <2>1, <2>2, <2>3, HandlersKeepTracker DEF TerminalNext, HandlerSteps
  <2>5. QED
    BY <2>4 DEF fileVars
<1>5. QED
  BY <1>1, <1>2, <1>3, <1>4, <1>6 DEF WebNext, FileNext, FileSteps

\* For any number of terminals and file operations, whatever fails and whenever the gateway
\* stops: the gauge counts the open rows, a terminal that is over has ended its row and
\* closed its recording, a shutdown that was in time leaves neither open, and a
\* download, upload, new directory or deletion that is done is in the audit log unless the
\* store failed or its client left (terminalWS, httpserver Shutdown, execOnMachine, auditFileOp).
THEOREM WebWorkStaysAccounted == WebSpec => []WebWorkIsAccounted
<1> DEFINE Inv == TerminalsInv /\ FilesInv
<1>1. WebInit => Inv
  <2> SUFFICES ASSUME WebInit PROVE Inv
    OBVIOUS
  <2>1. TerminalsTyped /\ StoreAfterDrain /\ \A t \in Terminals : TerminalOK(t)
    BY DEF WebInit, TerminalsTyped, StoreAfterDrain, TerminalOK, UnderWay
  <2>2. OpenRows = {} /\ webGauge = 0
    BY DEF WebInit, OpenRows
  <2>3. FilesInv
    BY DEF WebInit, FilesInv, FileOpsAudited
  <2>4. QED
    BY <2>1, <2>2, <2>3, FS_EmptySet DEF TerminalsInv
<1>2. Inv /\ WebTracked /\ [WebNext]_webVars => Inv'
  BY TerminalsStep, FilesStep
<1>3. Inv /\ WebTracked => WebWorkIsAccounted
  <2> SUFFICES ASSUME TerminalsInv, FilesInv, WebTracked PROVE WebWorkIsAccounted
    OBVIOUS
  <2>1. webGauge \in Nat
    BY OpenRowsFinite DEF TerminalsInv
  <2>2. WebTypeOK
    BY <2>1 DEF TerminalsInv, TerminalsTyped, FilesInv, WebTracked, WebTypeOK
  <2>3. TerminalAccounted
    BY DEF TerminalsInv, TerminalOK, UnderWay, OpenRows, TerminalAccounted
  <2>4. webDrain = "drained" => \A t \in Terminals : tpc[t] \notin UnderWay
    BY DEF WebTracked, Web!DrainIsWhole, Web!DrainedMeansNoneInFlight, Web!InFlight,
       TerminalsInv, TerminalOK
  <2>5. ShutdownKeepsTerminals
    BY <2>4 DEF WebTracked, TerminalsInv, TerminalOK, ShutdownKeepsTerminals
  <2>6. QED
    BY <2>2, <2>3, <2>5 DEF FilesInv, WebWorkIsAccounted
<1> HIDE DEF Inv
<1>4. QED
  BY <1>1, <1>2, <1>3, WebUsesTracker, WebTrackerKeepsPromise, PTL DEF WebSpec

(**** A command and its output ****)

\* The types, with the numbers that the window and the pipes bound left open.
ExecTyped ==
    /\ kind \in Kinds /\ cmd \in [at : {"new", "running", "exited"}, code : {0, 1}]
    /\ wrote \in [Fds -> Nat] /\ wrote["out"] <= OutUnits /\ wrote["err"] <= ErrUnits
    /\ fed \in Nat /\ fed <= InUnits
    /\ pipe \in [Fds -> Nat] /\ unread \in [Fds -> Nat] /\ window \in Nat /\ got \in Nat
    /\ \A f \in Fds : pipe[f] <= PipeSize
    /\ runner \in {"idle", "asked", "copying", "failing", "waited", "failed", "acked",
                  "done", "gone"}
    /\ eof \in BOOLEAN /\ stopping \in BOOLEAN /\ cut \in BOOLEAN
    /\ gw \in {"asking", "copying", "waiting", "over"}
    /\ forwarded \in {NoStatus, 0, 1} /\ status \in {NoStatus, 0, 1} /\ statuses \in {0, 1}
    /\ result \in {"none", "ok", "failed"}

\* What a command has written is in the pipe, in the window or with the client; without
\* a command there is at most the message why.
Flow ==
    /\ window + unread["out"] + unread["err"] = Window
    /\ cmd.at # "new" => wrote["out"] = pipe["out"] + unread["out"] + got
    /\ cmd.at = "new" => unread["out"] + got <= 1 /\ wrote["out"] = 0 /\ pipe["out"] = 0

\* Where the agent is tells where the command is, and what was sent.
Course ==
    /\ cmd.at = "new" => runner \notin {"copying", "waited"}
    /\ cmd.at = "running" => runner \in {"copying", "gone"}
    /\ cmd.at = "exited" => runner \in {"copying", "waited", "acked", "done", "gone"}
    /\ runner \in {"idle", "asked", "failing"} => unread["out"] = 0 /\ got = 0
    /\ runner = "waited" => pipe["out"] = 0
    /\ gw = "asking" => runner \in {"idle", "gone"}
    /\ statuses = 1 => runner \in {"acked", "done", "gone"}
    /\ eof => runner \in {"done", "gone"}
    /\ gw \in {"waiting", "over"} /\ ~cut =>
          (eof /\ unread["out"] = 0) \/ (status = 1 /\ runner \in {"idle", "gone"})

\* A status 0 is that of a command that succeeded and whose output left the pipe.
Success ==
    /\ cmd.at = "exited" /\ cmd.code = 0 /\ kind = "upload" => fed = InUnits
    /\ status = 0 => cmd.at = "exited" /\ cmd.code = 0 /\ pipe["out"] = 0
    /\ result = "ok" /\ ~cut => gw = "over" /\ cmd.at = "exited" /\ cmd.code = 0 /\ got = wrote["out"]

ExecInv == ExecTyped /\ Flow /\ Course /\ Success

\* Each step keeps the flow, the course and the meaning of a status.
LEMMA ExecStep == ASSUME ExecInv, [ExecNext]_execVars PROVE ExecInv'
<1> USE UnitsAssumption DEF ExecInv, ExecTyped, Flow, Course, Success, Kinds, Fds, NoStatus,
        commandVars, agentVars, channelVars, faultVars, clientVars
<1>1. CASE execRequest
  BY <1>1 DEF execRequest, Tell
<1>2. CASE startCommand
  BY <1>2 DEF startCommand
<1>3. CASE cannotStart
  BY <1>3 DEF cannotStart
<1>4. CASE failExec
  BY <1>4 DEF failExec
<1>5. CASE waitCommand
  BY <1>5 DEF waitCommand
<1>6. CASE sendStatus
  BY <1>6 DEF sendStatus, Tell
<1>7. CASE closeWrite
  BY <1>7 DEF closeWrite
<1>8. CASE commandReads
  BY <1>8 DEF commandReads
<1>9. CASE proxyOutput
  BY <1>9 DEF proxyOutput
<1>10. CASE proxyEnds
  BY <1>10 DEF proxyEnds
<1>11. CASE statusWaited
  BY <1>11 DEF statusWaited, Tell
<1>12. CASE noHeader
  BY <1>12 DEF noHeader
<1>13. CASE clientWait
  BY <1>13 DEF clientWait
<1>14. CASE agentLost
  BY <1>14 DEF agentLost
<1>15. CASE clientLost
  BY <1>15 DEF clientLost
<1>16. CASE shutdown
  BY <1>16 DEF shutdown
<1>17. ASSUME NEW f \in Fds, commandWrites(f) PROVE ExecInv'
  BY <1>17 DEF commandWrites, Stream
<1>18. ASSUME NEW f \in Fds, agentCopies(f) PROVE ExecInv'
  BY <1>18 DEF agentCopies
<1>19. ASSUME NEW code \in {0, 1}, commandExits(code) PROVE ExecInv'
  BY <1>19 DEF commandExits
<1>20. CASE UNCHANGED execVars
  BY <1>20 DEF execVars
<1>21. QED
  BY <1>1, <1>2, <1>3, <1>4, <1>5, <1>6, <1>7, <1>8, <1>9, <1>10, <1>11, <1>12, <1>13, <1>14, <1>15,
     <1>16, <1>17, <1>18, <1>19, <1>20 DEF ExecNext, AgentSteps

\* For any amounts of output and input, any pipe and any window: a success that the client
\* reports comes with the whole output of a command that succeeded, unless the connection
\* was lost, and the agent sends one exit status (executeCommand, proxyConnection).
THEOREM ExecStaysSound == ExecSpec => []ExecIsSound
<1>1. ExecInit => ExecInv
  <2> SUFFICES ASSUME ExecInit PROVE ExecInv
    OBVIOUS
  <2> USE UnitsAssumption DEF ExecInit, Kinds, Fds, NoStatus
  <2>1. eof \in BOOLEAN /\ stopping \in BOOLEAN /\ cut \in BOOLEAN
    OBVIOUS
  <2>2. cmd \in [at : {"new", "running", "exited"}, code : {0, 1}] /\ cmd.at = "new"
    OBVIOUS
  <2>3. ExecTyped
    BY <2>1, <2>2 DEF ExecTyped
  <2>4. Flow /\ Course /\ Success
    BY <2>2 DEF Flow, Course, Success
  <2>5. QED
    BY <2>3, <2>4 DEF ExecInv
<1>2. ExecInv /\ [ExecNext]_execVars => ExecInv'
  BY ExecStep
<1>3. ExecInv => ExecIsSound
  <2> SUFFICES ASSUME ExecInv PROVE ExecIsSound
    OBVIOUS
  <2> USE UnitsAssumption DEF ExecInv, ExecTyped, Flow, Course, Success, Kinds, Fds, NoStatus
  <2>1. ExecTypeOK
    BY DEF ExecTypeOK
  <2>2. cmd.at = "exited" /\ cmd.code = 0 => cmd = [at |-> "exited", code |-> 0]
    OBVIOUS
  <2>3. SuccessIsWhole
    BY <2>2 DEF SuccessIsWhole
  <2>4. QED
    BY <2>1, <2>3 DEF ExecIsSound
<1>4. QED
  BY <1>1, <1>2, <1>3, PTL DEF ExecSpec

(**** Hooks ****)

\* Where a hook's call is, told from where its session is.
CallsFollowSession ==
    \A s \in HookSessions, h \in Hooks, p \in Plugins :
        LET c == <<s, h, p>> IN
        /\ onHook[c] # "none" => c \in asked
        /\ c \in asked => IF h = "session_start" THEN hookAt[s] # "idle" ELSE hookAt[s] \in {"session_end", "over"}
        /\ onHook[c] = "running" /\ c \notin abandoned => hookAt[s] = h /\ calling[s] = {p}

\* What a plugin heard is what its returned calls act on.
HeardIsReturned ==
    \A s \in HookSessions, h \in Hooks, p \in Plugins :
        /\ onHook[<<s, h, p>>] = "returned" /\ h \in ActsOn(p) =>
              \E i \in 1 .. Len(heard[p]) : heard[p][i] = <<s, h>>
        /\ (\E i \in 1 .. Len(heard[p]) : heard[p][i] = <<s, h>>) => onHook[<<s, h, p>>] = "returned"

\* What TriggerHook has still to call has been asked and not been called.
TodoIsFresh ==
    \A s \in HookSessions :
        /\ hookAt[s] \notin Hooks => hookTodo[s] = {} /\ calling[s] = {}
        /\ \A i \in hookTodo[s] : LET c == <<s, hookAt[s], HookPlugins[i]>> IN c \in asked /\ onHook[c] = "none"

HeardTyped == heard \in [Plugins -> Seq(HookSessions \X Hooks)]
CallingTyped == calling \in [HookSessions -> SUBSET Plugins]

HooksInv ==
    /\ HooksTypeOK /\ HeardTyped /\ CallingTyped /\ CallsFollowSession /\ HeardIsReturned /\ TodoIsFresh
    /\ EveryPluginIsCalled /\ StartIsHeardFirst

\* Every position of the list names a plugin, and every plugin has one.
LEMMA PluginAt ==
    /\ \A i \in 1 .. Len(HookPlugins) : HookPlugins[i] \in Plugins
    /\ \A p \in Plugins : \E i \in 1 .. Len(HookPlugins) : HookPlugins[i] = p
    /\ Plugins \subseteq {"audit", "slack", "email", "webhook", "chatops"}
<1>1. DOMAIN HookPlugins = 1 .. Len(HookPlugins)
  BY HooksAssumption
<1>2. QED
  BY <1>1, HooksAssumption DEF Plugins, Range

\* Every built-in plugin that acts on the end of a session acts on its start.
LEMMA EndActorsStart ==
    ASSUME NEW p \in Plugins, "session_end" \in ActsOn(p)
    PROVE  "session_start" \in ActsOn(p)
<1>1. p \in {"audit", "slack", "email", "webhook", "chatops"}
  BY PluginAt
<1>2. p # "chatops"
  BY DEF ActsOn, chatopsHooks
<1>3. QED
  BY <1>1, <1>2 DEF ActsOn, auditHooks, slackHooks, emailHooks, webhookHooks

\* The invariant holds before any session has begun.
LEMMA HooksStart == HooksInit => HooksInv
<1> SUFFICES ASSUME HooksInit PROVE HooksInv
  OBVIOUS
<1>1. HooksTypeOK /\ HeardTyped /\ CallingTyped
  BY HooksAssumption DEF HooksInit, HooksTypeOK, HeardTyped, CallingTyped
<1>2. CallsFollowSession /\ TodoIsFresh /\ EveryPluginIsCalled
  BY DEF HooksInit, CallsFollowSession, TodoIsFresh, EveryPluginIsCalled, HookCalls, Hooks
<1>3. HeardIsReturned /\ StartIsHeardFirst
  BY DEF HooksInit, HeardIsReturned, StartIsHeardFirst, HookCalls, Hooks
<1>4. QED
  BY <1>1, <1>2, <1>3 DEF HooksInv

\* TriggerHook takes its snapshot of the enabled plugins.
LEMMA TriggerPreserves ==
    ASSUME HooksInv, NEW s \in HookSessions, TriggerHook(s)
    PROVE  HooksInv'
<1> DEFINE h == IF hookAt[s] = "idle" THEN "session_start" ELSE "session_end"
           plugins == {i \in 1 .. Len(HookPlugins) : HookPlugins[i] \in switched}
<1>1. /\ hookAt[s] \in {"idle", "running"}
      /\ hookAt' = [hookAt EXCEPT ![s] = h] /\ hookTodo' = [hookTodo EXCEPT ![s] = plugins]
      /\ asked' = asked \cup {<<s, h, HookPlugins[i]>> : i \in plugins}
      /\ UNCHANGED <<switched, toggles, calling, onHook, abandoned, heard>>
  BY DEF TriggerHook
<1>2. h \in Hooks /\ hookTodo[s] = {} /\ calling[s] = {}
  BY <1>1 DEF HooksInv, TodoIsFresh, Hooks
<1>3. \A p \in Plugins : onHook[<<s, h, p>>] = "none"
  BY <1>1 DEF HooksInv, CallsFollowSession, HooksTypeOK, Hooks
<1> HIDE DEF h
<1>4. HooksTypeOK' /\ HeardTyped' /\ CallingTyped'
  <2>1. asked' \subseteq HookCalls
    BY <1>1, <1>2, PluginAt DEF HooksInv, HooksTypeOK, HookCalls
  <2>2. hookAt' \in [HookSessions -> {"idle", "session_start", "running", "session_end", "over"}]
    BY <1>1, <1>2 DEF HooksInv, HooksTypeOK, Hooks
  <2>3. hookTodo' \in [HookSessions -> SUBSET (1 .. Len(HookPlugins))]
    BY <1>1 DEF HooksInv, HooksTypeOK
  <2>4. QED
    BY <1>1, <2>1, <2>2, <2>3 DEF HooksInv, HooksTypeOK, HeardTyped, CallingTyped
<1>5. CallsFollowSession'
  <2> SUFFICES ASSUME NEW t \in HookSessions, NEW k \in Hooks, NEW p \in Plugins
               PROVE  LET c == <<t, k, p>> IN
                      /\ onHook[c] # "none" => c \in asked'
                      /\ c \in asked' => IF k = "session_start" THEN hookAt'[t] # "idle"
                                         ELSE hookAt'[t] \in {"session_end", "over"}
                      /\ onHook[c] = "running" /\ c \notin abandoned => hookAt'[t] = k /\ calling[t] = {p}
    BY <1>1 DEF CallsFollowSession
  <2>1. CASE t = s
    BY <1>1, <1>2, <2>1 DEF HooksInv, HooksTypeOK, CallsFollowSession, Hooks, h
  <2>2. CASE t # s
    BY <1>1, <2>2 DEF HooksInv, HooksTypeOK, CallsFollowSession
  <2>3. QED
    BY <2>1, <2>2
<1>6. HeardIsReturned'
  BY <1>1 DEF HooksInv, HeardIsReturned
<1>7. TodoIsFresh'
  <2> SUFFICES ASSUME NEW t \in HookSessions
               PROVE  /\ hookAt'[t] \notin Hooks => hookTodo'[t] = {} /\ calling[t] = {}
                      /\ \A i \in hookTodo'[t] :
                           LET c == <<t, hookAt'[t], HookPlugins[i]>> IN c \in asked' /\ onHook[c] = "none"
    BY <1>1 DEF TodoIsFresh
  <2>1. CASE t = s
    <3>1. hookAt'[t] = h /\ hookTodo'[t] = plugins
      BY <1>1, <2>1 DEF HooksInv, HooksTypeOK
    <3>2. \A i \in plugins : <<t, h, HookPlugins[i]>> \in asked' /\ onHook[<<t, h, HookPlugins[i]>>] = "none"
      BY <1>1, <1>3, <2>1, PluginAt
    <3>3. QED
      BY <3>1, <3>2, <1>2
  <2>2. CASE t # s
    BY <1>1, <2>2 DEF HooksInv, HooksTypeOK, TodoIsFresh
  <2>3. QED
    BY <2>1, <2>2
<1>8. EveryPluginIsCalled'
  <2> SUFFICES ASSUME NEW c \in asked'
               PROVE  \/ onHook[c] # "none"
                      \/ hookAt'[c[1]] = c[2] /\ \E i \in hookTodo'[c[1]] : HookPlugins[i] = c[3]
    BY <1>1 DEF EveryPluginIsCalled
  <2>1. CASE c \in asked
    <3>1. c[1] \in HookSessions
      BY <2>1 DEF HooksInv, HooksTypeOK, HookCalls
    <3>2. CASE c[1] = s
      BY <1>2, <2>1, <3>2 DEF HooksInv, EveryPluginIsCalled
    <3>3. CASE c[1] # s
      BY <1>1, <2>1, <3>1, <3>3 DEF HooksInv, HooksTypeOK, EveryPluginIsCalled
    <3>4. QED
      BY <3>2, <3>3
  <2>2. CASE c \notin asked
    BY <1>1, <2>2 DEF HooksInv, HooksTypeOK
  <2>3. QED
    BY <2>1, <2>2
<1>9. StartIsHeardFirst'
  <2> SUFFICES ASSUME NEW t \in HookSessions, NEW p \in Plugins,
                      <<t, "session_start", p>> \in asked', <<t, "session_start", p>> \notin abandoned,
                      onHook[<<t, "session_start", p>>] # "failed",
                      NEW last \in 1 .. Len(heard[p]), heard[p][last] = <<t, "session_end">>
               PROVE  \E first \in 1 .. (last - 1) : heard[p][first] = <<t, "session_start">>
    BY <1>1 DEF StartIsHeardFirst
  <2>1. onHook[<<t, "session_end", p>>] = "returned"
    BY DEF HooksInv, HeardIsReturned, Hooks
  <2>2. hookAt[t] \in {"session_end", "over"}
    BY <2>1 DEF HooksInv, CallsFollowSession, Hooks
  <2>3. <<t, "session_start", p>> \in asked
    BY <1>1, <2>2 DEF h
  <2>4. QED
    BY <2>3 DEF HooksInv, StartIsHeardFirst
<1>10. QED
  BY <1>4, <1>5, <1>6, <1>7, <1>8, <1>9 DEF HooksInv

\* The loop calls the next plugin of its snapshot.
LEMMA CallPreserves ==
    ASSUME HooksInv, NEW s \in HookSessions, callHook(s)
    PROVE  HooksInv'
<1>1. PICK i \in hookTodo[s] :
        /\ calling' = [calling EXCEPT ![s] = {HookPlugins[i]}]
        /\ hookTodo' = [hookTodo EXCEPT ![s] = @ \ {i}]
        /\ onHook' = [onHook EXCEPT ![<<s, hookAt[s], HookPlugins[i]>>] = "running"]
  BY DEF callHook
<1>2. /\ hookAt[s] \in Hooks /\ calling[s] = {}
      /\ UNCHANGED <<switched, toggles, hookAt, asked, abandoned, heard>>
  BY DEF callHook
<1> DEFINE p0 == HookPlugins[i]
           c0 == <<s, hookAt[s], p0>>
<1>3. i \in 1 .. Len(HookPlugins) /\ p0 \in Plugins /\ c0 \in HookCalls
  BY <1>2, PluginAt DEF HooksInv, HooksTypeOK, HookCalls
<1>4. c0 \in asked /\ onHook[c0] = "none"
  BY DEF HooksInv, TodoIsFresh
<1>5. \A c \in HookCalls : onHook'[c] = IF c = c0 THEN "running" ELSE onHook[c]
  BY <1>1 DEF HooksInv, HooksTypeOK
<1>6. /\ \A t \in HookSessions : calling'[t] = IF t = s THEN {p0} ELSE calling[t]
      /\ \A t \in HookSessions : hookTodo'[t] = IF t = s THEN hookTodo[s] \ {i} ELSE hookTodo[t]
  BY <1>1 DEF HooksInv, HooksTypeOK, CallingTyped
<1>7. HooksTypeOK' /\ HeardTyped' /\ CallingTyped'
  <2>1. onHook' \in [HookCalls -> {"none", "running", "returned", "failed"}]
    BY <1>1 DEF HooksInv, HooksTypeOK
  <2>2. hookTodo' \in [HookSessions -> SUBSET (1 .. Len(HookPlugins))]
    BY <1>1 DEF HooksInv, HooksTypeOK
  <2>3. calling' \in [HookSessions -> SUBSET Plugins] /\ DOMAIN calling' = HookSessions
    BY <1>1, <1>3 DEF HooksInv, CallingTyped
  <2>4. \A t \in HookSessions : calling'[t] = {} \/ \E p \in Plugins : calling'[t] = {p}
    BY <1>3, <1>6 DEF HooksInv, HooksTypeOK
  <2>5. QED
    BY <1>2, <2>1, <2>2, <2>3, <2>4 DEF HooksInv, HooksTypeOK, HeardTyped, CallingTyped
<1> HIDE DEF c0, p0
<1>8. CallsFollowSession'
  <2> SUFFICES ASSUME NEW t \in HookSessions, NEW k \in Hooks, NEW p \in Plugins
               PROVE  LET c == <<t, k, p>> IN
                      /\ onHook'[c] # "none" => c \in asked
                      /\ c \in asked => IF k = "session_start" THEN hookAt[t] # "idle"
                                        ELSE hookAt[t] \in {"session_end", "over"}
                      /\ onHook'[c] = "running" /\ c \notin abandoned => hookAt[t] = k /\ calling'[t] = {p}
    BY <1>2 DEF CallsFollowSession
  <2>1. <<t, k, p>> \in HookCalls
    BY DEF HookCalls
  <2>2. CASE <<t, k, p>> = c0
    BY <1>4, <1>5, <1>6, <2>1, <2>2 DEF HooksInv, CallsFollowSession, c0
  <2>3. CASE <<t, k, p>> # c0
    <3>1. onHook'[<<t, k, p>>] = onHook[<<t, k, p>>]
      BY <1>5, <2>1, <2>3
    <3>2. onHook[<<t, k, p>>] = "running" /\ <<t, k, p>> \notin abandoned => t # s
      BY <1>2 DEF HooksInv, CallsFollowSession
    <3>3. QED
      BY <1>6, <3>1, <3>2 DEF HooksInv, CallsFollowSession
  <2>4. QED
    BY <2>2, <2>3
<1>9. HeardIsReturned'
  <2> SUFFICES ASSUME NEW t \in HookSessions, NEW k \in Hooks, NEW p \in Plugins
               PROVE  /\ onHook'[<<t, k, p>>] = "returned" /\ k \in ActsOn(p) =>
                            \E j \in 1 .. Len(heard[p]) : heard[p][j] = <<t, k>>
                      /\ (\E j \in 1 .. Len(heard[p]) : heard[p][j] = <<t, k>>) => onHook'[<<t, k, p>>] = "returned"
    BY <1>2 DEF HeardIsReturned
  <2>1. <<t, k, p>> \in HookCalls
    BY DEF HookCalls
  <2>2. QED
    BY <1>4, <1>5, <2>1 DEF HooksInv, HeardIsReturned
<1>10. TodoIsFresh'
  <2> SUFFICES ASSUME NEW t \in HookSessions
               PROVE  /\ hookAt[t] \notin Hooks => hookTodo'[t] = {} /\ calling'[t] = {}
                      /\ \A j \in hookTodo'[t] :
                           LET c == <<t, hookAt[t], HookPlugins[j]>> IN c \in asked /\ onHook'[c] = "none"
    BY <1>2 DEF TodoIsFresh
  <2>1. hookAt[t] \notin Hooks => hookTodo'[t] = {} /\ calling'[t] = {}
    BY <1>2, <1>6 DEF HooksInv, TodoIsFresh
  <2>2. ASSUME NEW j \in hookTodo'[t]
        PROVE  <<t, hookAt[t], HookPlugins[j]>> \in asked /\ onHook'[<<t, hookAt[t], HookPlugins[j]>>] = "none"
    <3>1. j \in hookTodo[t] /\ j \in 1 .. Len(HookPlugins)
      BY <1>6, <2>2 DEF HooksInv, HooksTypeOK
    <3>2. <<t, hookAt[t], HookPlugins[j]>> \in asked /\ onHook[<<t, hookAt[t], HookPlugins[j]>>] = "none"
      BY <3>1 DEF HooksInv, TodoIsFresh
    <3>3. <<t, hookAt[t], HookPlugins[j]>> # c0
      BY <1>3, <1>6, <2>2, <3>1, HooksAssumption DEF c0, p0
    <3>4. QED
      BY <1>5, <3>2, <3>3 DEF HooksInv, HooksTypeOK
  <2>3. QED
    BY <2>1, <2>2
<1>11. EveryPluginIsCalled'
  <2> SUFFICES ASSUME NEW c \in asked
               PROVE  \/ onHook'[c] # "none"
                      \/ hookAt[c[1]] = c[2] /\ \E j \in hookTodo'[c[1]] : HookPlugins[j] = c[3]
    BY <1>2 DEF EveryPluginIsCalled
  <2>1. c \in HookCalls /\ c[1] \in HookSessions /\ c = <<c[1], c[2], c[3]>>
    BY DEF HooksInv, HooksTypeOK, HookCalls
  <2>2. CASE onHook[c] # "none"
    BY <1>5, <2>1, <2>2
  <2>3. CASE onHook[c] = "none" /\ c # c0
    <3>1. PICK j \in hookTodo[c[1]] : HookPlugins[j] = c[3] /\ hookAt[c[1]] = c[2]
      BY <2>3 DEF HooksInv, EveryPluginIsCalled
    <3>2. ~(c[1] = s /\ j = i)
      BY <2>1, <2>3, <3>1 DEF c0, p0
    <3>3. QED
      BY <1>6, <2>1, <3>1, <3>2
  <2>4. CASE c = c0
    BY <1>5, <2>1, <2>4
  <2>5. QED
    BY <2>2, <2>3, <2>4
<1>12. StartIsHeardFirst'
  <2> SUFFICES ASSUME NEW t \in HookSessions, NEW p \in Plugins,
                      <<t, "session_start", p>> \in asked, <<t, "session_start", p>> \notin abandoned,
                      onHook'[<<t, "session_start", p>>] # "failed",
                      NEW last \in 1 .. Len(heard[p]), heard[p][last] = <<t, "session_end">>
               PROVE  \E first \in 1 .. (last - 1) : heard[p][first] = <<t, "session_start">>
    BY <1>2 DEF StartIsHeardFirst
  <2>1. <<t, "session_start", p>> \in HookCalls
    BY DEF HookCalls, Hooks
  <2>2. onHook[<<t, "session_start", p>>] # "failed"
    BY <1>4, <1>5, <2>1
  <2>3. QED
    BY <2>2 DEF HooksInv, StartIsHeardFirst
<1>13. QED
  BY <1>7, <1>8, <1>9, <1>10, <1>11, <1>12 DEF HooksInv

\* A goroutine that ends: the plugin has acted, or it failed.
LEMMA RunPreserves ==
    ASSUME HooksInv, NEW c \in HookCalls, runOnHook(c)
    PROVE  HooksInv'
<1>1. /\ onHook[c] = "running"
      /\ UNCHANGED <<switched, toggles, hookAt, hookTodo, calling, asked, abandoned>>
  BY DEF runOnHook
<1>2. PICK s \in HookSessions, h \in Hooks, p \in Plugins : c = <<s, h, p>>
  BY DEF HookCalls
<1> DEFINE acts == heard' = [heard EXCEPT ![p] = Append(@, <<s, h>>)] /\ h \in ActsOn(p) /\ onHook'[c] = "returned"
           idle == heard' = heard /\ (h \in ActsOn(p) => onHook'[c] = "failed")
<1>3. /\ onHook'[c] \in {"returned", "failed"}
      /\ \A d \in HookCalls : d # c => onHook'[d] = onHook[d]
      /\ onHook' \in [HookCalls -> {"none", "running", "returned", "failed"}]
  BY DEF runOnHook, HooksInv, HooksTypeOK
<1>4. acts \/ idle
  <2>1. c[1] = s /\ c[2] = h /\ c[3] = p
    BY <1>2
  <2>2. CASE onHook' = [onHook EXCEPT ![c] = "failed"] /\ UNCHANGED heard
    BY <2>2 DEF HooksInv, HooksTypeOK
  <2>3. CASE /\ onHook' = [onHook EXCEPT ![c] = "returned"]
             /\ heard' = IF c[2] \in ActsOn(c[3]) THEN [heard EXCEPT ![c[3]] = Append(@, <<c[1], c[2]>>)] ELSE heard
    BY <2>1, <2>3 DEF HooksInv, HooksTypeOK
  <2>4. QED
    BY <2>2, <2>3 DEF runOnHook
<1>5. HeardTyped'
  <2>1. heard[p] \in Seq(HookSessions \X Hooks) /\ <<s, h>> \in HookSessions \X Hooks
    BY DEF HooksInv, HeardTyped
  <2>2. Append(heard[p], <<s, h>>) \in Seq(HookSessions \X Hooks)
    BY <2>1, AppendProperties
  <2>3. QED
    BY <1>4, <2>2 DEF HooksInv, HeardTyped
<1>6. ASSUME NEW q \in Plugins
      PROVE  /\ Len(heard[q]) \in Nat /\ Len(heard'[q]) \in Nat /\ Len(heard[q]) <= Len(heard'[q])
             /\ \A i \in 1 .. Len(heard[q]) : heard'[q][i] = heard[q][i]
             /\ \A i \in 1 .. Len(heard'[q]) : i \notin 1 .. Len(heard[q]) =>
                   acts /\ q = p /\ heard'[q][i] = <<s, h>>
             /\ acts /\ q = p => \E i \in 1 .. Len(heard'[q]) : heard'[q][i] = <<s, h>>
  <2>1. heard[q] \in Seq(HookSessions \X Hooks)
    BY DEF HooksInv, HeardTyped
  <2>2. CASE acts /\ q = p
    <3>1. heard'[q] = Append(heard[q], <<s, h>>)
      BY <2>2 DEF HooksInv, HeardTyped
    <3>2. <<s, h>> \in HookSessions \X Hooks
      OBVIOUS
    <3>3. /\ Len(heard'[q]) = Len(heard[q]) + 1 /\ Len(heard[q]) \in Nat
          /\ heard'[q][Len(heard[q]) + 1] = <<s, h>>
          /\ \A i \in 1 .. Len(heard[q]) : heard'[q][i] = heard[q][i]
      BY <2>1, <3>1, <3>2, AppendProperties
    <3> HIDE DEF acts
    <3>4. \A i \in 1 .. Len(heard'[q]) : i \notin 1 .. Len(heard[q]) => i = Len(heard[q]) + 1
      BY <3>3
    <3>5. Len(heard[q]) + 1 \in 1 .. Len(heard'[q])
      BY <3>3
    <3>6. QED
      BY <2>2, <3>3, <3>4, <3>5
  <2>3. CASE ~(acts /\ q = p)
    <3>1. heard'[q] = heard[q]
      BY <1>4, <2>3 DEF HooksInv, HeardTyped
    <3>2. QED
      BY <2>1, <2>3, <3>1
  <2>4. QED
    BY <2>2, <2>3
<1> HIDE DEF acts, idle
<1>7. HooksTypeOK' /\ CallingTyped'
  <2>1. DOMAIN heard' = Plugins /\ \A q \in Plugins : heard'[q] \in Seq(HookSessions \X Hooks)
    BY <1>5 DEF HeardTyped
  <2>2. \A q \in Plugins : \A i \in 1 .. Len(heard'[q]) : heard'[q][i] \in HookSessions \X Hooks
    BY <2>1
  <2>3. QED
    BY <1>1, <1>3, <2>1, <2>2 DEF HooksInv, HooksTypeOK, CallingTyped
<1>8. CallsFollowSession' /\ TodoIsFresh' /\ EveryPluginIsCalled'
  <2>1. CallsFollowSession'
    <3> SUFFICES ASSUME NEW t \in HookSessions, NEW k \in Hooks, NEW q \in Plugins
                 PROVE  LET d == <<t, k, q>> IN
                        /\ onHook'[d] # "none" => d \in asked
                        /\ d \in asked => IF k = "session_start" THEN hookAt[t] # "idle"
                                          ELSE hookAt[t] \in {"session_end", "over"}
                        /\ onHook'[d] = "running" /\ d \notin abandoned => hookAt[t] = k /\ calling[t] = {q}
      BY <1>1 DEF CallsFollowSession
    <3>1. <<t, k, q>> \in HookCalls
      BY DEF HookCalls
    <3>2. QED
      BY <1>1, <1>3, <3>1 DEF HooksInv, CallsFollowSession
  <2>2. TodoIsFresh'
    <3> SUFFICES ASSUME NEW t \in HookSessions
                 PROVE  /\ hookAt[t] \notin Hooks => hookTodo[t] = {} /\ calling[t] = {}
                        /\ \A j \in hookTodo[t] :
                             LET d == <<t, hookAt[t], HookPlugins[j]>> IN d \in asked /\ onHook'[d] = "none"
      BY <1>1 DEF TodoIsFresh
    <3>1. QED
      BY <1>1, <1>3 DEF HooksInv, TodoIsFresh, HooksTypeOK
  <2>3. EveryPluginIsCalled'
    BY <1>1, <1>3 DEF HooksInv, EveryPluginIsCalled, HooksTypeOK
  <2>4. QED
    BY <2>1, <2>2, <2>3
<1>9. HeardIsReturned'
  <2> SUFFICES ASSUME NEW t \in HookSessions, NEW k \in Hooks, NEW q \in Plugins
               PROVE  /\ onHook'[<<t, k, q>>] = "returned" /\ k \in ActsOn(q) =>
                            \E i \in 1 .. Len(heard'[q]) : heard'[q][i] = <<t, k>>
                      /\ (\E i \in 1 .. Len(heard'[q]) : heard'[q][i] = <<t, k>>) => onHook'[<<t, k, q>>] = "returned"
    BY DEF HeardIsReturned
  <2>1. <<t, k, q>> \in HookCalls
    BY DEF HookCalls
  <2>2. CASE <<t, k, q>> = c
    <3>1. t = s /\ k = h /\ q = p
      BY <1>2, <2>2
    <3>2. ~ \E i \in 1 .. Len(heard[q]) : heard[q][i] = <<t, k>>
      BY <1>1, <2>2 DEF HooksInv, HeardIsReturned
    <3>3. CASE acts
      BY <1>6, <2>2, <3>1, <3>3 DEF acts
    <3>4. CASE ~acts
      BY <1>4, <1>6, <2>2, <3>1, <3>2, <3>4 DEF idle
    <3>5. QED
      BY <3>3, <3>4
  <2>3. CASE <<t, k, q>> # c
    <3>1. onHook'[<<t, k, q>>] = onHook[<<t, k, q>>]
      BY <1>3, <2>1, <2>3
    <3>2. ASSUME NEW i \in 1 .. Len(heard'[q]), heard'[q][i] = <<t, k>>
          PROVE  i \in 1 .. Len(heard[q]) /\ heard[q][i] = <<t, k>>
      BY <1>2, <1>6, <2>3, <3>2
    <3>3. ASSUME NEW i \in 1 .. Len(heard[q]), heard[q][i] = <<t, k>>
          PROVE  i \in 1 .. Len(heard'[q]) /\ heard'[q][i] = <<t, k>>
      BY <1>6, <3>3
    <3>4. QED
      BY <3>1, <3>2, <3>3 DEF HooksInv, HeardIsReturned
  <2>4. QED
    BY <2>2, <2>3
<1>10. StartIsHeardFirst'
  <2> SUFFICES ASSUME NEW t \in HookSessions, NEW q \in Plugins,
                      <<t, "session_start", q>> \in asked, <<t, "session_start", q>> \notin abandoned,
                      onHook'[<<t, "session_start", q>>] # "failed",
                      NEW last \in 1 .. Len(heard'[q]), heard'[q][last] = <<t, "session_end">>
               PROVE  \E first \in 1 .. (last - 1) : heard'[q][first] = <<t, "session_start">>
    BY <1>1 DEF StartIsHeardFirst
  <2> DEFINE start == <<t, "session_start", q>>
  <2>1. start \in HookCalls /\ onHook[start] # "failed"
    BY <1>1, <1>3 DEF HookCalls, Hooks
  <2>2. CASE last \in 1 .. Len(heard[q])
    <3>0. heard[q][last] = <<t, "session_end">>
      BY <1>6, <2>2
    <3>1. PICK first \in 1 .. (last - 1) : heard[q][first] = <<t, "session_start">>
      BY <2>1, <2>2, <3>0 DEF HooksInv, StartIsHeardFirst
    <3>2. first \in 1 .. Len(heard[q])
      BY <1>6, <2>2
    <3>3. QED
      BY <1>6, <3>1, <3>2
  <2>3. CASE last \notin 1 .. Len(heard[q])
    <3>1. acts /\ q = p /\ t = s /\ h = "session_end"
      BY <1>6, <2>3
    <3>2. hookAt[t] \in {"session_end", "over"}
      BY <1>1, <1>2, <3>1 DEF HooksInv, CallsFollowSession
    <3>3. onHook[start] # "none"
      BY <3>2 DEF HooksInv, EveryPluginIsCalled
    <3>4. onHook[start] # "running"
      BY <3>2 DEF HooksInv, CallsFollowSession, Hooks
    <3>5. onHook[start] = "returned"
      BY <2>1, <3>3, <3>4 DEF HooksInv, HooksTypeOK
    <3>6. "session_start" \in ActsOn(q)
      BY <3>1, EndActorsStart DEF acts
    <3>7. PICK first \in 1 .. Len(heard[q]) : heard[q][first] = <<t, "session_start">>
      BY <3>5, <3>6 DEF HooksInv, HeardIsReturned, Hooks
    <3>8. first \in 1 .. (last - 1)
      BY <1>6, <2>3, <3>7
    <3>9. QED
      BY <1>6, <3>7, <3>8
  <2>4. QED
    BY <2>2, <2>3
<1>11. QED
  BY <1>5, <1>7, <1>8, <1>9, <1>10 DEF HooksInv

\* callHook returns, with an answer or without one.
LEMMA ReturnPreserves ==
    ASSUME HooksInv, NEW s \in HookSessions, NEW p \in calling[s], hookReturned(s, p) \/ hookTimedOut(s, p)
    PROVE  HooksInv'
<1>1. /\ calling' = [calling EXCEPT ![s] = {}]
      /\ UNCHANGED <<switched, toggles, hookAt, hookTodo, asked, onHook, heard>>
      /\ abandoned \subseteq abandoned'
  BY DEF hookReturned, hookTimedOut
<1>2. p \in Plugins /\ calling[s] = {p} /\ hookAt[s] \in Hooks
  BY DEF HooksInv, HooksTypeOK, TodoIsFresh, CallingTyped
<1>3. abandoned' \subseteq HookCalls
  BY <1>2 DEF hookReturned, hookTimedOut, HooksInv, HooksTypeOK, HookCalls
<1>4. onHook[<<s, hookAt[s], p>>] = "running" => <<s, hookAt[s], p>> \in abandoned'
  BY DEF hookReturned, hookTimedOut
<1>5. HooksTypeOK' /\ HeardTyped' /\ CallingTyped'
  BY <1>1, <1>3 DEF HooksInv, HooksTypeOK, HeardTyped, CallingTyped
<1>6. CallsFollowSession'
  <2> SUFFICES ASSUME NEW t \in HookSessions, NEW k \in Hooks, NEW q \in Plugins
               PROVE  LET c == <<t, k, q>> IN
                      /\ onHook[c] # "none" => c \in asked
                      /\ c \in asked => IF k = "session_start" THEN hookAt[t] # "idle"
                                        ELSE hookAt[t] \in {"session_end", "over"}
                      /\ onHook[c] = "running" /\ c \notin abandoned' => hookAt[t] = k /\ calling'[t] = {q}
    BY <1>1 DEF CallsFollowSession
  <2>1. ASSUME onHook[<<t, k, q>>] = "running", <<t, k, q>> \notin abandoned'
        PROVE  hookAt[t] = k /\ calling'[t] = {q}
    <3>1. hookAt[t] = k /\ calling[t] = {q}
      BY <1>1, <2>1 DEF HooksInv, CallsFollowSession
    <3>2. t # s
      BY <1>2, <1>4, <2>1, <3>1
    <3>3. QED
      BY <1>1, <3>1, <3>2 DEF HooksInv, CallingTyped
  <2>2. QED
    BY <2>1 DEF HooksInv, CallsFollowSession
<1>7. HeardIsReturned' /\ EveryPluginIsCalled'
  BY <1>1 DEF HooksInv, HeardIsReturned, EveryPluginIsCalled
<1>8. TodoIsFresh'
  BY <1>1, <1>2 DEF HooksInv, TodoIsFresh, HooksTypeOK
<1>9. StartIsHeardFirst'
  BY <1>1 DEF HooksInv, StartIsHeardFirst
<1>10. QED
  BY <1>5, <1>6, <1>7, <1>8, <1>9 DEF HooksInv

\* The loop is over when nothing is left to call.
LEMMA OverPreserves ==
    ASSUME HooksInv, NEW s \in HookSessions, hookOver(s)
    PROVE  HooksInv'
<1>1. /\ hookAt[s] \in Hooks /\ calling[s] = {} /\ hookTodo[s] = {}
      /\ hookAt' = [hookAt EXCEPT ![s] = IF @ = "session_start" THEN "running" ELSE "over"]
      /\ UNCHANGED <<switched, toggles, hookTodo, calling, asked, onHook, abandoned, heard>>
  BY DEF hookOver
<1>2. \A t \in HookSessions : hookAt'[t] =
         IF t = s THEN IF hookAt[s] = "session_start" THEN "running" ELSE "over" ELSE hookAt[t]
  BY <1>1 DEF HooksInv, HooksTypeOK
<1>3. HooksTypeOK' /\ HeardTyped' /\ CallingTyped'
  BY <1>1 DEF HooksInv, HooksTypeOK, HeardTyped, CallingTyped
<1>4. CallsFollowSession'
  <2> SUFFICES ASSUME NEW t \in HookSessions, NEW k \in Hooks, NEW q \in Plugins
               PROVE  LET c == <<t, k, q>> IN
                      /\ onHook[c] # "none" => c \in asked
                      /\ c \in asked => IF k = "session_start" THEN hookAt'[t] # "idle"
                                        ELSE hookAt'[t] \in {"session_end", "over"}
                      /\ onHook[c] = "running" /\ c \notin abandoned => hookAt'[t] = k /\ calling[t] = {q}
    BY <1>1 DEF CallsFollowSession
  <2>1. QED
    BY <1>1, <1>2 DEF HooksInv, CallsFollowSession, Hooks
<1>5. HeardIsReturned' /\ StartIsHeardFirst'
  <2>1. asked' = asked /\ onHook' = onHook /\ abandoned' = abandoned /\ heard' = heard
    BY <1>1
  <2>2. HeardIsReturned /\ StartIsHeardFirst
    BY DEF HooksInv
  <2>3. HeardIsReturned'
    BY <2>1, <2>2 DEF HeardIsReturned
  <2>4. StartIsHeardFirst'
    BY <2>1, <2>2 DEF StartIsHeardFirst
  <2>5. QED
    BY <2>3, <2>4
<1>6. TodoIsFresh'
  BY <1>1, <1>2 DEF HooksInv, TodoIsFresh, HooksTypeOK
<1>7. EveryPluginIsCalled'
  BY <1>1, <1>2 DEF HooksInv, EveryPluginIsCalled, HooksTypeOK, HookCalls
<1>8. QED
  BY <1>3, <1>4, <1>5, <1>6, <1>7 DEF HooksInv

\* What does not touch the calls keeps what is said of them.
LEMMA HooksRest ==
    ASSUME HooksInv, UNCHANGED <<hookAt, hookTodo, calling, asked, onHook, abandoned, heard>>
    PROVE  /\ HeardTyped' /\ CallingTyped' /\ CallsFollowSession' /\ HeardIsReturned' /\ TodoIsFresh'
           /\ EveryPluginIsCalled' /\ StartIsHeardFirst'
<1>1. HeardTyped' /\ CallingTyped'
  BY DEF HooksInv, HeardTyped, CallingTyped
<1>2. CallsFollowSession' /\ TodoIsFresh'
  BY DEF HooksInv, CallsFollowSession, TodoIsFresh
<1>3. HeardIsReturned'
  BY DEF HooksInv, HeardIsReturned
<1>4. EveryPluginIsCalled' /\ StartIsHeardFirst'
  BY DEF HooksInv, EveryPluginIsCalled, StartIsHeardFirst
<1>5. QED
  BY <1>1, <1>2, <1>3, <1>4

\* The hook loops, for any sessions and any of the built-in plugins in any order: every plugin enabled at the
\* snapshot is called, and hears of a session's start before its end.
THEOREM PluginsAlwaysHear == HooksSpec => []PluginsHearInOrder
<1>1. HooksInv /\ [HooksNext]_hookVars => HooksInv'
  <2> SUFFICES ASSUME HooksInv, [HooksNext]_hookVars PROVE HooksInv'
    OBVIOUS
  <2>1. ASSUME NEW p \in Plugins, flipSwitch(p) PROVE HooksInv'
    <3>1. HooksTypeOK'
      BY <2>1, HooksAssumption DEF flipSwitch, HooksInv, HooksTypeOK
    <3>2. UNCHANGED <<hookAt, hookTodo, calling, asked, onHook, abandoned, heard>>
      BY <2>1 DEF flipSwitch
    <3>3. QED
      BY <3>1, <3>2, HooksRest DEF HooksInv
  <2>2. ASSUME NEW s \in HookSessions, TriggerHook(s) PROVE HooksInv'
    BY <2>2, TriggerPreserves
  <2>3. ASSUME NEW s \in HookSessions, HookSteps(s) PROVE HooksInv'
    BY <2>3, CallPreserves, OverPreserves, ReturnPreserves DEF HookSteps
  <2>4. ASSUME NEW c \in HookCalls, runOnHook(c) PROVE HooksInv'
    BY <2>4, RunPreserves
  <2>5. CASE UNCHANGED hookVars
    <3>1. HooksTypeOK' /\ UNCHANGED <<hookAt, hookTodo, calling, asked, onHook, abandoned, heard>>
      BY <2>5 DEF hookVars, HooksInv, HooksTypeOK
    <3>2. QED
      BY <3>1, HooksRest DEF HooksInv
  <2>6. QED
    BY <2>1, <2>2, <2>3, <2>4, <2>5 DEF HooksNext
<1>2. HooksInv => PluginsHearInOrder
  BY DEF HooksInv, PluginsHearInOrder
<1>3. QED
  BY HooksStart, <1>1, <1>2, PTL DEF HooksSpec

(**** Schema migration ****)

\* A migration that has been through the key at position j and not started again.
Passed(p, j) == mig[p].at = "ok" \/ (mig[p].at \in {"list", "drop", "add"} /\ mig[p].i > j)

\* The tables exist while statements about them run.
TablesFirst == \A p \in Migrators : mig[p].at \notin {"idle", "failed"} => tables = Keys

\* The repairs that one statement makes last.
RepairsLast ==
    \A p \in Migrators :
        /\ mig[p].at \in {"stamps", "convert", "nullable", "list", "drop", "add", "ok"} => adminRole = "admin"
        /\ mig[p].at \in {"list", "drop", "add", "ok"} => nullable

\* Between the list and the add, the keys of another name are found or gone.
OthersGo ==
    \A p \in Migrators :
        /\ mig[p].at = "drop" => \A f \in fks[Key(p)] : f.here /\ ~f.preferred => f \in mig[p].found
        /\ mig[p].at = "add" => \A f \in fks[Key(p)] : ~(f.here /\ ~f.preferred)

\* A key that every migration is through with is in order.
PassedInOrder ==
    \A j \in 1 .. Len(KeyList) :
        (\A p \in Migrators : Passed(p, j)) => InOrder(listForeignKeys(KeyList[j]))

\* Without a race one migration converts at a time, and what it has listed is still unconverted.
OneConverts ==
    ~raced =>
        /\ \A p, q \in Migrators : mig[p].at = "convert" /\ mig[q].at = "convert" => p = q
        /\ \A p \in Migrators : mig[p].at = "convert" => \A k \in mig[p].cols : stamps[k] = "wall"

\* The keys are taken from the first.
FromTheFirst ==
    \A p \in Migrators :
        mig[p].at \in {"idle", "columns", "roles", "stamps", "convert", "nullable"} => mig[p].i = 1

SchemaInv ==
    /\ MigrationTypeOK /\ TablesFirst /\ RepairsLast /\ FromTheFirst /\ OthersGo /\ PassedInOrder /\ OneConverts
    /\ RewrittenOnceUnlessRaced

\* Every position of the list names a key.
LEMMA KeyAt == \A j \in 1 .. Len(KeyList) : KeyList[j] \in Keys
BY MigrationAssumption DEF Keys, Range

\* The drifts are sets of foreign keys.
LEMMA DriftsTyped == \A d \in Drifts : d \subseteq FK
<1>1. \A x, y, z \in BOOLEAN : ForeignKey(x, y, z) \in FK
  BY DEF ForeignKey, FK
<1>2. QED
  <2>1. /\ Wanted \in FK /\ Renamed \in FK /\ ForeignKey(TRUE, FALSE, TRUE) \in FK
        /\ ForeignKey(FALSE, FALSE, TRUE) \in FK /\ ForeignKey(TRUE, TRUE, FALSE) \in FK
    BY <1>1 DEF Wanted, Renamed
  <2>2. QED
    BY <2>1, Zenon DEF Drifts

MigState == [at : {"idle", "columns", "roles", "stamps", "convert", "nullable", "list", "drop",
                   "add", "ok", "failed"},
             i : 1 .. Len(KeyList), cols : SUBSET Keys, found : SUBSET FK]

\* The invariant holds of whatever an older build left behind.
LEMMA MigrationStart == MigrationInit => SchemaInv
<1> SUFFICES ASSUME MigrationInit PROVE SchemaInv
  OBVIOUS
<1>1. \A p \in Migrators : mig[p] = Fresh("idle", 1) /\ mig[p].at = "idle" /\ mig[p].i = 1
  BY DEF MigrationInit, Fresh
<1>2. MigrationTypeOK
  <2>1. mig \in [Migrators -> MigState]
    BY MigrationAssumption DEF MigrationInit, Fresh, MigState
  <2>2. fks \in [Keys -> SUBSET FK] /\ adminRole \in {"none", "user", "admin"}
    <3>1. CASE tables = {}
      <4>1. fks = [k \in Keys |-> {}] /\ adminRole = "none"
        BY <3>1, Zenon DEF MigrationInit
      <4>2. QED
        BY <4>1
    <3>2. CASE tables # {}
      <4>1. fks \in [Keys -> Drifts] /\ adminRole \in {"none", "admin"}
        BY <3>2, Zenon DEF MigrationInit
      <4>2. QED
        BY <4>1, DriftsTyped
    <3>3. QED
      BY <3>1, <3>2
  <2>3. stamps \in [Keys -> {"wall", "tz", "shifted"}]
    <3>1. stamps = [k \in Keys |-> "wall"]
      BY Zenon DEF MigrationInit
    <3>2. QED
      BY <3>1
  <2>4. tables \subseteq Keys /\ nullable \in BOOLEAN /\ zone \in BOOLEAN /\ sameZone \in BOOLEAN /\ raced \in BOOLEAN
    BY Zenon DEF MigrationInit
  <2>5. kills \in 0 .. MaxKills
    BY MigrationAssumption DEF MigrationInit
  <2>6. QED
    BY <2>1, <2>2, <2>3, <2>4, <2>5, Zenon DEF MigrationTypeOK, MigState
<1>3. QED
  BY <1>1, <1>2, MigrationAssumption DEF SchemaInv, TablesFirst, RepairsLast, FromTheFirst, OthersGo, PassedInOrder,
        OneConverts, RewrittenOnceUnlessRaced, Passed, MigrationInit

\* A migration that moves on with other columns keeps its key and what it found.
Moved(r, a, c) == [r EXCEPT !.at = a, !.cols = c]

\* Such a migration keeps its type.
LEMMA MovedRecord ==
  \A r \in MigState, c \in SUBSET Keys, a \in {"columns", "roles", "stamps", "convert", "nullable", "list", "failed"} :
      Moved(r, a, c) \in MigState /\ Moved(r, a, c).i = r.i /\ Moved(r, a, c).found = r.found
BY DEF MigState, Moved

\* What the steps before the repair of the keys leave alone.
LEMMA EarlyPreserves ==
  ASSUME SchemaInv, NEW p \in Migrators, createTables(p) \/ addColumns(p) \/ repairRoles(p)
                      \/ migrateTimestampsToTZ(p) \/ convertLegacyTimestamps(p) \/ ensureColumnNullable(p),
         UNCHANGED <<sameZone, kills>>
  PROVE  SchemaInv'
<1> USE MigrationAssumption
<1>0. MigrationTypeOK /\ mig \in [Migrators -> MigState]
  BY Zenon DEF SchemaInv, MigrationTypeOK, MigState
<1>1. /\ mig' \in [Migrators -> MigState]
      /\ \A q \in Migrators : q # p => mig'[q] = mig[q]
      /\ mig'[p].i = mig[p].i /\ mig'[p].found = mig[p].found
  <2>1. PICK a \in {"columns", "roles", "stamps", "convert", "nullable", "list", "failed"}, c \in SUBSET Keys :
           mig' = [mig EXCEPT ![p] = Moved(mig[p], a, c)]
    <3>1. mig[p] \in MigState /\ mig[p] = [mig[p] EXCEPT !.cols = mig[p].cols] /\ mig[p].cols \in SUBSET Keys
      BY <1>0 DEF MigState
    <3>2. CASE migrateTimestampsToTZ(p)
      <4>1. legacyTimestampColumns \in SUBSET Keys
        BY DEF legacyTimestampColumns
      <4>2. PICK a \in {"nullable", "convert", "failed"} : mig' = [mig EXCEPT ![p].cols = legacyTimestampColumns, ![p].at = a]
        BY <3>2, Zenon DEF migrateTimestampsToTZ
      <4>3. mig' = [mig EXCEPT ![p] = Moved(mig[p], a, legacyTimestampColumns)]
        BY <1>0, <3>1, <4>2 DEF MigState, Moved
      <4>4. QED
        BY <4>1, <4>3
    <3>3. CASE convertLegacyTimestamps(p)
      <4>1. mig' = [mig EXCEPT ![p] = Moved(mig[p], "nullable", {})]
        BY <1>0, <3>1, <3>3 DEF MigState, Moved, convertLegacyTimestamps
      <4>2. QED
        BY <4>1
    <3>4. CASE createTables(p) \/ addColumns(p) \/ repairRoles(p) \/ ensureColumnNullable(p)
      <4>1. PICK a \in {"columns", "roles", "stamps", "list"} : mig' = [mig EXCEPT ![p].at = a]
        BY <3>4, Zenon DEF createTables, addColumns, repairRoles, ensureColumnNullable, Go
      <4>2. mig' = [mig EXCEPT ![p] = Moved(mig[p], a, mig[p].cols)]
        BY <1>0, <3>1, <4>1 DEF MigState, Moved
      <4>3. QED
        BY <3>1, <4>2
    <3>5. QED
      BY <3>2, <3>3, <3>4
  <2>2. Moved(mig[p], a, c) \in MigState /\ Moved(mig[p], a, c).i = mig[p].i /\ Moved(mig[p], a, c).found = mig[p].found
    <3>1. mig[p] \in MigState
      BY <1>0
    <3>2. QED
      BY <2>1, <3>1, MovedRecord, Zenon
  <2>3. QED
    BY <1>0, <2>1, <2>2
<1>2. /\ mig[p].at \in {"idle", "columns", "roles", "stamps", "convert", "nullable"}
      /\ mig'[p].at \in {"columns", "roles", "stamps", "convert", "nullable", "list", "failed"}
      /\ mig[p].at = "idle" <=> mig'[p].at = "columns"
      /\ mig[p].at = "columns" <=> mig'[p].at = "roles"
      /\ mig[p].at = "roles" <=> mig'[p].at = "stamps"
      /\ mig'[p].at = "convert" => mig[p].at = "stamps"
      /\ mig'[p].at = "nullable" => mig[p].at \in {"stamps", "convert"}
      /\ mig'[p].at = "list" <=> mig[p].at = "nullable"
  <2>1. CASE migrateTimestampsToTZ(p)
    BY <1>0, <2>1 DEF migrateTimestampsToTZ, MigState
  <2>2. CASE convertLegacyTimestamps(p)
    BY <1>0, <2>2 DEF convertLegacyTimestamps, MigState
  <2>3. CASE createTables(p) \/ addColumns(p) \/ repairRoles(p) \/ ensureColumnNullable(p)
    BY <1>0, <2>3 DEF createTables, addColumns, repairRoles, ensureColumnNullable, Go, MigState
  <2>4. QED
    BY <2>1, <2>2, <2>3
<1>3. CASE createTables(p)
  <2>1. tables' = Keys /\ mig[p].at = "idle"
    BY <1>3 DEF createTables
  <2>2. fks' \in [Keys -> SUBSET FK] /\ (tables = Keys => fks' = fks)
    BY <1>0, <1>3 DEF createTables, MigrationTypeOK, FK, Wanted, ForeignKey
  <2>3. stamps' \in [Keys -> {"wall", "tz", "shifted"}] /\ (tables = Keys => stamps' = stamps)
    BY <1>0, <1>3 DEF createTables, MigrationTypeOK
  <2>4. \A k \in Keys : stamps'[k] # stamps[k] => stamps'[k] = "tz"
    BY <1>0, <1>3 DEF createTables, MigrationTypeOK
  <2>5. UNCHANGED <<adminRole, zone, raced>> /\ nullable' \in BOOLEAN /\ (nullable => nullable')
    <3>1. UNCHANGED <<adminRole, zone, raced>> /\ nullable' = (nullable \/ tables = {})
      BY <1>3 DEF createTables
    <3>2. QED
      BY <1>0, <3>1, Zenon DEF MigrationTypeOK
  <2>6. MigrationTypeOK'
    <3>1. tables' \subseteq Keys
      BY <2>1
    <3>2. QED
      BY <1>0, <1>1, <2>2, <2>3, <2>5, <3>1, Zenon DEF MigrationTypeOK, MigState
  <2>7. (TablesFirst /\ RepairsLast /\ FromTheFirst)'
    BY <1>1, <1>2, <2>1, <2>5 DEF SchemaInv, TablesFirst, RepairsLast, FromTheFirst
  <2>8. OthersGo'
    <3>1. ASSUME NEW q \in Migrators, q # p PROVE Key(q)' = Key(q) /\ (mig[q].at \in {"drop", "add"} => fks' = fks)
      BY <1>1, <2>2, <3>1 DEF Key, SchemaInv, TablesFirst
    <3>2. QED
      BY <1>1, <1>2, <3>1 DEF SchemaInv, OthersGo
  <2>9. PassedInOrder'
    <3>1. \A j \in 1 .. Len(KeyList) : ~Passed(p, j)'
      BY <1>2, <2>1 DEF Passed
    <3>2. QED
      BY <3>1 DEF PassedInOrder
  <2>10. OneConverts' /\ RewrittenOnceUnlessRaced'
    <3>1. RewrittenOnceUnlessRaced'
      BY <2>4, <2>5 DEF SchemaInv, RewrittenOnceUnlessRaced
    <3>2. ASSUME NEW q \in Migrators, mig'[q].at = "convert" PROVE q # p /\ mig'[q] = mig[q] /\ stamps' = stamps
      <4>1. q # p
        BY <1>2, <2>1, <3>2
      <4>2. mig'[q] = mig[q]
        BY <1>1, <4>1
      <4>3. tables = Keys
        BY <3>2, <4>2 DEF SchemaInv, TablesFirst
      <4>4. QED
        BY <2>3, <4>1, <4>2, <4>3
    <3>3. OneConverts'
      BY <2>5, <3>2 DEF SchemaInv, OneConverts
    <3>4. QED
      BY <3>1, <3>3
  <2>11. QED
    BY <2>6, <2>7, <2>8, <2>9, <2>10 DEF SchemaInv
<1>4. CASE ~createTables(p)
  <2>1. UNCHANGED <<tables, fks, zone>> /\ mig[p].at # "idle"
    BY <1>0, <1>4 DEF addColumns, repairRoles, ensureColumnNullable, migrateTimestampsToTZ, convertLegacyTimestamps
  <2>2. stamps' \in [Keys -> {"wall", "tz", "shifted"}] /\ (~convertLegacyTimestamps(p) => stamps' = stamps)
    BY <1>0, <1>4 DEF addColumns, repairRoles, ensureColumnNullable, migrateTimestampsToTZ, convertLegacyTimestamps, MigrationTypeOK
  <2>3. nullable' \in BOOLEAN /\ (nullable => nullable') /\ (mig[p].at = "nullable" => nullable')
    <3>1. CASE ensureColumnNullable(p)
      BY <3>1 DEF ensureColumnNullable
    <3>2. CASE ~ensureColumnNullable(p)
      <4>1. nullable' = nullable /\ mig[p].at # "nullable"
        BY <3>2, <1>4 DEF addColumns, repairRoles, migrateTimestampsToTZ, convertLegacyTimestamps
      <4>2. QED
        BY <4>1, <1>0, Zenon DEF MigrationTypeOK
    <3>3. QED
      BY <3>1, <3>2
  <2>4. adminRole' \in {"none", "user", "admin"} /\ (adminRole = "admin" => adminRole' = "admin")
        /\ (mig[p].at = "roles" => adminRole' = "admin")
    BY <1>0, <1>4 DEF addColumns, repairRoles, ensureColumnNullable, migrateTimestampsToTZ, convertLegacyTimestamps, MigrationTypeOK
  <2>5. raced' \in BOOLEAN /\ (raced => raced')
        /\ (~raced' /\ mig[p].at = "stamps" => \A q \in Migrators : q # p => mig[q].at # "convert")
    <3>1. CASE migrateTimestampsToTZ(p)
      <4>1. raced' = (raced \/ \E q \in Migrators \ {p} : mig[q].at = "convert")
        BY <3>1 DEF migrateTimestampsToTZ
      <4>2. QED
        BY <4>1, <1>0, Zenon DEF MigrationTypeOK
    <3>2. CASE ~migrateTimestampsToTZ(p)
      <4>1. raced' = raced /\ mig[p].at # "stamps"
        BY <3>2, <1>4 DEF addColumns, repairRoles, ensureColumnNullable, convertLegacyTimestamps
      <4>2. QED
        BY <4>1, <1>0, Zenon DEF MigrationTypeOK
    <3>3. QED
      BY <3>1, <3>2
  <2>6. MigrationTypeOK'
    BY <1>0, <1>1, <2>1, <2>2, <2>3, <2>4, <2>5, Zenon DEF MigrationTypeOK, MigState
  <2>7. TablesFirst' /\ FromTheFirst'
    BY <1>1, <1>2, <2>1 DEF SchemaInv, TablesFirst, FromTheFirst
  <2>8. RepairsLast'
    <3>1. ASSUME NEW q \in Migrators
          PROVE  /\ mig'[q].at \in {"stamps", "convert", "nullable", "list", "drop", "add", "ok"} => adminRole' = "admin"
                 /\ mig'[q].at \in {"list", "drop", "add", "ok"} => nullable'
      <4>1. CASE q # p
        BY <1>1, <2>3, <2>4, <4>1 DEF SchemaInv, RepairsLast
      <4>2. CASE q = p
        BY <1>2, <2>3, <2>4, <4>2 DEF SchemaInv, RepairsLast
      <4>3. QED
        BY <4>1, <4>2
    <3>2. QED
      BY <3>1 DEF RepairsLast
  <2>9. OthersGo'
    BY <1>1, <1>2, <2>1 DEF SchemaInv, OthersGo, Key
  <2>10. PassedInOrder'
    <3>1. ASSUME NEW j \in 1 .. Len(KeyList), Passed(p, j)' PROVE FALSE
      <4>1. mig'[p].at = "list" /\ mig'[p].i > j /\ mig[p].at = "nullable"
        BY <1>2, <3>1 DEF Passed
      <4>2. QED
        BY <1>1, <3>1, <4>1 DEF SchemaInv, FromTheFirst
    <3>2. QED
      BY <3>1 DEF PassedInOrder
  <2>11. OneConverts' /\ RewrittenOnceUnlessRaced'
    <3>1. CASE convertLegacyTimestamps(p)
      <4>1. raced' = raced /\ mig[p].at = "convert" /\ mig'[p].at = "nullable"
        BY <1>0, <3>1 DEF convertLegacyTimestamps, MigState
      <4>2. ~raced => \A k \in Keys : stamps'[k] # "shifted"
        BY <1>0, <3>1, <4>1 DEF convertLegacyTimestamps, SchemaInv, OneConverts, RewrittenOnceUnlessRaced, MigrationTypeOK
      <4>3. ~raced => \A q \in Migrators : mig'[q].at # "convert"
        BY <1>1, <4>1 DEF SchemaInv, OneConverts
      <4>4. QED
        BY <4>1, <4>2, <4>3 DEF OneConverts, RewrittenOnceUnlessRaced
    <3>2. CASE ~convertLegacyTimestamps(p)
      <4>1. mig'[p].at = "convert" => mig'[p].cols = {k \in Keys : stamps[k] = "wall"}
        <5>1. CASE migrateTimestampsToTZ(p)
          BY <1>0, <5>1 DEF migrateTimestampsToTZ, legacyTimestampColumns, MigState
        <5>2. CASE ~migrateTimestampsToTZ(p)
          BY <1>0, <5>2, <3>2, <1>4 DEF addColumns, repairRoles, ensureColumnNullable, Go, MigState
        <5>3. QED
          BY <5>1, <5>2
      <4>2. stamps' = stamps
        BY <2>2, <3>2
      <4>3. QED
        BY <1>1, <1>2, <2>5, <4>1, <4>2 DEF SchemaInv, OneConverts, RewrittenOnceUnlessRaced
    <3>3. QED
      BY <3>1, <3>2
  <2>12. QED
    BY <2>6, <2>7, <2>8, <2>9, <2>10, <2>11 DEF SchemaInv
<1>5. QED
  BY <1>3, <1>4

\* A migration is at one key of one table, which no other position names.
LEMMA KeyOf ==
  ASSUME MigrationTypeOK, NEW p \in Migrators
  PROVE  /\ mig[p] \in MigState /\ mig[p].i \in 1 .. Len(KeyList) /\ Key(p) = KeyList[mig[p].i] /\ Key(p) \in Keys
         /\ fks[Key(p)] \subseteq FK /\ mig[p].found \subseteq FK
         /\ \A j \in 1 .. Len(KeyList) : KeyList[j] = Key(p) => j = mig[p].i
<1>1. mig[p] \in MigState /\ fks \in [Keys -> SUBSET FK]
  BY Zenon DEF MigrationTypeOK, MigState
<1>2. mig[p].i \in 1 .. Len(KeyList) /\ mig[p].found \subseteq FK /\ Key(p) = KeyList[mig[p].i]
  BY <1>1 DEF MigState, Key
<1>3. QED
  BY <1>1, <1>2, KeyAt, MigrationAssumption

\* One statement of the repair of a key: what it changes, and what it relies on.
\* The migration p has key r before the step and r2 after it.
LEMMA KeyStepFacts ==
  ASSUME SchemaInv, NEW p \in Migrators, inspect(p) \/ dropFound(p) \/ dropPreferred(p) \/ addKey(p)
  PROVE  /\ mig' \in [Migrators -> MigState] /\ fks' \in [Keys -> SUBSET FK]
         /\ \A q \in Migrators : q # p => mig'[q] = mig[q]
         /\ \A k \in Keys : k # Key(p) => fks'[k] = fks[k]
         /\ mig[p].at \in {"list", "drop", "add"} /\ mig'[p].at \in {"list", "drop", "add", "ok", "failed"}
         /\ \A f \in fks'[Key(p)] : f.here /\ ~f.preferred => f \in fks[Key(p)]
         /\ mig'[p].at \in {"drop", "add"} => mig'[p].i = mig[p].i
         /\ mig'[p].at = "drop" => \A f \in fks'[Key(p)] : f.here /\ ~f.preferred => f \in mig'[p].found
         /\ mig'[p].at = "add" => \A f \in fks'[Key(p)] : ~(f.here /\ ~f.preferred)
         /\ mig'[p].at = "list" => mig'[p].i = mig[p].i + 1
         /\ mig'[p].at = "ok" => mig[p].i = Len(KeyList)
         /\ mig'[p].at \in {"list", "ok"} => InOrder({f \in fks'[Key(p)] : f.here})
<1> USE MigrationAssumption
<1>0. /\ MigrationTypeOK /\ mig \in [Migrators -> MigState] /\ fks \in [Keys -> SUBSET FK]
  BY Zenon DEF SchemaInv, MigrationTypeOK, MigState
<1> DEFINE key == Key(p)
<1>1. /\ mig[p] \in MigState /\ mig[p].i \in 1 .. Len(KeyList) /\ key \in Keys
      /\ fks[key] \subseteq FK /\ mig[p].found \subseteq FK
  BY <1>0, KeyOf
<1> HIDE DEF key
<1>2. ASSUME nextKey(p)
      PROVE  /\ mig' \in [Migrators -> MigState] /\ \A q \in Migrators : q # p => mig'[q] = mig[q]
             /\ \/ mig'[p].at = "ok" /\ mig[p].i = Len(KeyList)
                \/ mig'[p].at = "list" /\ mig'[p].i = mig[p].i + 1
  <2>1. CASE mig[p].i = Len(KeyList)
    <3>1. mig' = [mig EXCEPT ![p] = Fresh("ok", 1)]
      BY <1>2, <2>1, Zenon DEF nextKey
    <3>2. Fresh("ok", 1) \in MigState /\ Fresh("ok", 1).at = "ok"
      BY DEF MigState, Fresh
    <3>3. QED
      BY <1>0, <2>1, <3>1, <3>2
  <2>2. CASE mig[p].i # Len(KeyList)
    <3>1. mig' = [mig EXCEPT ![p] = Fresh("list", mig[p].i + 1)]
      BY <1>2, <2>2, Zenon DEF nextKey
    <3>2. /\ Fresh("list", mig[p].i + 1) \in MigState
          /\ Fresh("list", mig[p].i + 1).at = "list" /\ Fresh("list", mig[p].i + 1).i = mig[p].i + 1
      BY <1>1, <2>2 DEF MigState, Fresh
    <3>3. QED
      BY <1>0, <2>2, <3>1, <3>2
  <2>3. QED
    BY <2>1, <2>2
<1>3. CASE inspect(p)
  <2> DEFINE found == {f \in fks[key] : f.here}
  <2>1. mig[p].at = "list" /\ fks' = fks /\ (IF InOrder(found) THEN nextKey(p)
              ELSE mig' = [mig EXCEPT ![p].at = "drop", ![p].found = found])
    BY <1>3 DEF inspect, listForeignKeys, key
  <2>2. CASE InOrder(found)
    BY <1>0, <1>1, <1>2, <2>1, <2>2 DEF key
  <2>3. CASE ~InOrder(found)
    <3>1. mig' = [mig EXCEPT ![p] = [mig[p] EXCEPT !.at = "drop", !.found = found]]
      BY <1>0, <1>1, <2>1, <2>3 DEF MigState
    <3>2. [mig[p] EXCEPT !.at = "drop", !.found = found] \in MigState
      <4>1. found \subseteq FK
        BY <1>1
      <4> HIDE DEF found
      <4>2. QED
        BY <4>1, <1>1 DEF MigState
    <3>3. mig'[p].at = "drop" /\ mig'[p].i = mig[p].i /\ mig'[p].found = found
      BY <1>0, <1>1, <3>1 DEF MigState
    <3>4. QED
      BY <1>0, <2>1, <3>1, <3>2, <3>3 DEF key
  <2>4. QED
    BY <2>2, <2>3
<1>4. CASE dropFound(p)
  <2>1. mig[p].at = "drop"
    BY <1>4 DEF dropFound
  <2>2. PICK f \in mig[p].found : /\ fks' = [fks EXCEPT ![key] = {g \in fks[key] : g.preferred # f.preferred}]
                                  /\ mig' = [mig EXCEPT ![p].found = @ \ {f}]
    BY <1>4, <1>0, <1>1 DEF dropFound, key
  <2>3. mig' = [mig EXCEPT ![p] = [mig[p] EXCEPT !.found = mig[p].found \ {f}]]
    BY <1>0, <2>2
  <2>4. [mig[p] EXCEPT !.found = mig[p].found \ {f}] \in MigState
    BY <1>1 DEF MigState
  <2>5. mig'[p].at = "drop" /\ mig'[p].i = mig[p].i /\ mig'[p].found = mig[p].found \ {f}
    BY <1>0, <1>1, <2>1, <2>3 DEF MigState
  <2>6. fks'[key] = {g \in fks[key] : g.preferred # f.preferred} /\ fks' \in [Keys -> SUBSET FK]
    BY <1>0, <1>1, <2>2
  <2>7. \A g \in fks'[key] : g.here /\ ~g.preferred => g \in mig'[p].found
    BY <2>1, <2>5, <2>6 DEF SchemaInv, OthersGo, key
  <2>8. \A k \in Keys : k # key => fks'[k] = fks[k]
    BY <1>0, <2>2
  <2>9. QED
    BY <1>0, <2>1, <2>3, <2>4, <2>5, <2>6, <2>7, <2>8 DEF key
<1>5. CASE dropPreferred(p)
  <2>1. mig[p].at = "drop" /\ mig[p].found = {} /\ mig' = [mig EXCEPT ![p].at = "add"]
        /\ fks' = [fks EXCEPT ![key] = {g \in fks[key] : ~g.preferred}]
    BY <1>0, <1>1, <1>5 DEF dropPreferred, Go, key
  <2>2. mig' = [mig EXCEPT ![p] = [mig[p] EXCEPT !.at = "add"]]
    BY <1>0, <2>1
  <2>3. [mig[p] EXCEPT !.at = "add"] \in MigState
    BY <1>1 DEF MigState
  <2>4. mig'[p].at = "add" /\ mig'[p].i = mig[p].i
    BY <1>0, <1>1, <2>2 DEF MigState
  <2>5. fks'[key] = {g \in fks[key] : ~g.preferred} /\ fks' \in [Keys -> SUBSET FK]
        /\ \A k \in Keys : k # key => fks'[k] = fks[k]
    BY <1>0, <1>1, <2>1
  <2>6. \A g \in fks'[key] : ~(g.here /\ ~g.preferred)
    BY <2>1, <2>5 DEF SchemaInv, OthersGo, key
  <2>7. QED
    BY <1>0, <2>1, <2>2, <2>3, <2>4, <2>5, <2>6 DEF key
<1>6. CASE addKey(p)
  <2>1. mig[p].at = "add" /\ \A g \in fks[key] : ~(g.here /\ ~g.preferred)
    BY <1>6 DEF addKey, SchemaInv, OthersGo, key
  <2>2. CASE \E g \in fks[key] : g.preferred
    <3>1. mig' = [mig EXCEPT ![p] = [mig[p] EXCEPT !.at = "failed"]] /\ fks' = fks
      BY <1>0, <1>6, <2>2 DEF addKey, Go, key
    <3>2. [mig[p] EXCEPT !.at = "failed"] \in MigState
      BY <1>1 DEF MigState
    <3>3. mig'[p].at = "failed"
      BY <1>0, <1>1, <3>1 DEF MigState
    <3>4. QED
      BY <1>0, <2>1, <3>1, <3>2, <3>3 DEF key
  <2>3. CASE ~\E g \in fks[key] : g.preferred
    <3>1. nextKey(p) /\ fks' = [fks EXCEPT ![key] = fks[key] \cup {Wanted}]
      BY <1>0, <1>1, <1>6, <2>3 DEF addKey, key
    <3>2. Wanted \in FK /\ Wanted.preferred /\ Wanted.here /\ Wanted.right
      BY DEF Wanted, FK, ForeignKey
    <3>3. fks'[key] = fks[key] \cup {Wanted} /\ fks' \in [Keys -> SUBSET FK]
          /\ \A k \in Keys : k # key => fks'[k] = fks[k]
      BY <1>0, <1>1, <3>1, <3>2
    <3>4. {f \in fks'[key] : f.here} = {Wanted}
      <4>1. \A f \in fks[key] : ~f.here
        BY <2>1, <2>3
      <4>2. QED
        BY <3>2, <3>3, <4>1, Zenon
    <3>5. InOrder({f \in fks'[key] : f.here})
      BY <3>2, <3>4, Zenon DEF InOrder
    <3>6. \A f \in fks'[key] : f.here /\ ~f.preferred => f \in fks[key]
      BY <3>2, <3>3
    <3>7. QED
      BY <1>0, <1>2, <2>1, <3>1, <3>3, <3>5, <3>6 DEF key
  <2>4. QED
    BY <2>2, <2>3
<1>7. QED
  BY <1>3, <1>4, <1>5, <1>6

\* ensureForeignKey keeps the invariant.
LEMMA KeysPreserve ==
  ASSUME SchemaInv, NEW p \in Migrators, ensureForeignKey(p), UNCHANGED <<sameZone, kills>>
  PROVE  SchemaInv'
<1> DEFINE key == Key(p)
<1>0. /\ MigrationTypeOK /\ mig \in [Migrators -> MigState] /\ fks \in [Keys -> SUBSET FK]
  BY Zenon DEF SchemaInv, MigrationTypeOK, MigState
<1>1. inspect(p) \/ dropFound(p) \/ dropPreferred(p) \/ addKey(p)
  BY DEF ensureForeignKey
<1>2. UNCHANGED <<tables, stamps, adminRole, nullable, zone, raced>>
  BY DEF ensureForeignKey
<1>3. /\ mig' \in [Migrators -> MigState] /\ fks' \in [Keys -> SUBSET FK]
      /\ \A q \in Migrators : q # p => mig'[q] = mig[q]
      /\ \A k \in Keys : k # key => fks'[k] = fks[k]
      /\ mig[p].at \in {"list", "drop", "add"} /\ mig'[p].at \in {"list", "drop", "add", "ok", "failed"}
      /\ \A f \in fks'[key] : f.here /\ ~f.preferred => f \in fks[key]
      /\ mig'[p].at \in {"drop", "add"} => mig'[p].i = mig[p].i
      /\ mig'[p].at = "drop" => \A f \in fks'[key] : f.here /\ ~f.preferred => f \in mig'[p].found
      /\ mig'[p].at = "add" => \A f \in fks'[key] : ~(f.here /\ ~f.preferred)
      /\ mig'[p].at = "list" => mig'[p].i = mig[p].i + 1
      /\ mig'[p].at = "ok" => mig[p].i = Len(KeyList)
      /\ mig'[p].at \in {"list", "ok"} => InOrder({f \in fks'[key] : f.here})
  BY <1>1, KeyStepFacts
<1>4. MigrationTypeOK'
  BY <1>0, <1>2, <1>3, Zenon DEF MigrationTypeOK, MigState
<1>5. (TablesFirst /\ RepairsLast /\ FromTheFirst)'
  BY <1>2, <1>3 DEF SchemaInv, TablesFirst, RepairsLast, FromTheFirst
<1>6. (OneConverts /\ RewrittenOnceUnlessRaced)'
  BY <1>2, <1>3 DEF SchemaInv, OneConverts, RewrittenOnceUnlessRaced
<1>7. OthersGo'
  <2>1. ASSUME NEW q \in Migrators
        PROVE  /\ mig'[q].at = "drop" => \A f \in fks'[Key(q)'] : f.here /\ ~f.preferred => f \in mig'[q].found
               /\ mig'[q].at = "add" => \A f \in fks'[Key(q)'] : ~(f.here /\ ~f.preferred)
    <3>1. CASE q = p
      <4>1. mig'[p].at \in {"drop", "add"} => Key(p)' = key
        BY <1>3 DEF Key
      <4>2. QED
        BY <1>3, <3>1, <4>1
    <3>2. CASE q # p
      <4>1. mig'[q] = mig[q] /\ Key(q)' = Key(q) /\ Key(q) \in Keys
        BY <1>0, <1>3, <3>2, KeyOf DEF Key
      <4>2. \A f \in fks'[Key(q)] : f.here /\ ~f.preferred => f \in fks[Key(q)]
        BY <1>3, <4>1
      <4>3. QED
        BY <4>1, <4>2 DEF SchemaInv, OthersGo
    <3>3. QED
      BY <3>1, <3>2
  <2>2. QED
    BY <2>1 DEF OthersGo
<1>8. PassedInOrder'
  <2>1. SUFFICES ASSUME NEW j \in 1 .. Len(KeyList), \A q \in Migrators : Passed(q, j)'
                 PROVE  InOrder(listForeignKeys(KeyList[j])')
    BY DEF PassedInOrder
  <2>2. mig[p].i \in 1 .. Len(KeyList) /\ key = KeyList[mig[p].i] /\ KeyList[j] \in Keys
        /\ (KeyList[j] = key => j = mig[p].i)
    BY <1>0, KeyOf, KeyAt
  <2>3. j <= mig[p].i
    BY <1>3, <2>1, <2>2 DEF Passed
  <2>4. CASE j = mig[p].i
    <3>1. mig'[p].at \in {"list", "ok"}
      BY <1>3, <2>1, <2>4, <2>2 DEF Passed
    <3>2. QED
      BY <1>3, <2>2, <2>4, <3>1 DEF listForeignKeys
  <2>5. CASE j # mig[p].i
    <3>1. \A q \in Migrators : Passed(q, j)
      BY <1>3, <2>1, <2>2, <2>3, <2>5 DEF Passed
    <3>2. fks'[KeyList[j]] = fks[KeyList[j]]
      BY <1>3, <2>2, <2>5
    <3>3. QED
      BY <3>1, <3>2 DEF SchemaInv, PassedInOrder, listForeignKeys
  <2>6. QED
    BY <2>4, <2>5
<1>9. QED
  BY <1>4, <1>5, <1>6, <1>7, <1>8 DEF SchemaInv

\* Stopping, starting again and setting the zone.
LEMMA StopsPreserve ==
  ASSUME SchemaInv,
         \/ \E p \in Migrators : startAgain(p) \/ killed(p)
         \/ setZone
         \/ UNCHANGED migVars
  PROVE  SchemaInv'
<1>0. MigrationTypeOK /\ mig \in [Migrators -> MigState]
  BY Zenon DEF SchemaInv, MigrationTypeOK, MigState
<1>1. UNCHANGED <<tables, fks, stamps, adminRole, nullable, sameZone, raced>> /\ zone' \in BOOLEAN
  BY <1>0 DEF startAgain, killed, setZone, migVars, MigrationTypeOK
<1>2. kills' \in 0 .. MaxKills
  BY <1>0, MigrationAssumption DEF startAgain, killed, setZone, migVars, MigrationTypeOK
<1>3. mig' = mig \/ \E p \in Migrators, a \in {"idle", "failed"} : mig' = [mig EXCEPT ![p] = Fresh(a, 1)]
  BY Zenon DEF startAgain, killed, setZone, migVars
<1>4. /\ mig' \in [Migrators -> MigState]
      /\ \A q \in Migrators : mig'[q] = mig[q] \/ (mig'[q].at \in {"idle", "failed"} /\ mig'[q].i = 1)
  <2>1. \A a \in {"idle", "failed"} : Fresh(a, 1) \in MigState /\ Fresh(a, 1).at = a /\ Fresh(a, 1).i = 1
    BY MigrationAssumption DEF MigState, Fresh
  <2>2. QED
    BY <1>0, <1>3, <2>1
<1>5. MigrationTypeOK'
  BY <1>0, <1>1, <1>2, <1>4, Zenon DEF MigrationTypeOK, MigState
<1>6. (TablesFirst /\ RepairsLast /\ FromTheFirst /\ OneConverts /\ RewrittenOnceUnlessRaced)'
  BY <1>1, <1>4 DEF SchemaInv, TablesFirst, RepairsLast, FromTheFirst, OneConverts, RewrittenOnceUnlessRaced
<1>7. OthersGo'
  BY <1>1, <1>4 DEF SchemaInv, OthersGo, Key
<1>8. PassedInOrder'
  <2>1. \A q \in Migrators, j \in 1 .. Len(KeyList) : Passed(q, j)' => Passed(q, j)
    BY <1>4 DEF Passed
  <2>2. QED
    BY <1>1, <2>1 DEF SchemaInv, PassedInOrder, listForeignKeys
<1>9. QED
  BY <1>5, <1>6, <1>7, <1>8 DEF SchemaInv

\* A key in order is the wanted one, under its own name or another.
LEMMA InOrderIsWanted ==
  ASSUME NEW found \in SUBSET FK, \A f \in found : f.here, InOrder(found)
  PROVE  found \in {{Wanted}, {Renamed}}
<1>1. PICK f \in FK : found = {f} /\ f.right /\ f.here
  BY DEF InOrder
<1>2. f = [preferred |-> f.preferred, right |-> TRUE, here |-> TRUE] /\ f.preferred \in BOOLEAN
  BY <1>1 DEF FK
<1>3. QED
  BY <1>1, <1>2, Zenon DEF Wanted, Renamed, ForeignKey

\* The invariant says that the schema is the wanted one at the end.
LEMMA SchemaIsSafe == SchemaInv => MigrationIsSafe
<1> SUFFICES ASSUME SchemaInv PROVE MigratedSchema
  BY DEF SchemaInv, MigrationIsSafe
<1> SUFFICES ASSUME \A p \in Migrators : mig[p].at = "ok"
             PROVE  /\ \A k \in Keys : {f \in fks[k] : f.here} \in {{Wanted}, {Renamed}}
                    /\ nullable /\ adminRole = "admin"
  BY DEF MigratedSchema
<1>1. nullable /\ adminRole = "admin"
  BY MigrationAssumption DEF SchemaInv, RepairsLast
<1>2. ASSUME NEW k \in Keys
      PROVE  {f \in fks[k] : f.here} \in {{Wanted}, {Renamed}}
  <2>1. PICK j \in 1 .. Len(KeyList) : KeyList[j] = k
    BY MigrationAssumption DEF Keys, Range
  <2>2. InOrder(listForeignKeys(k))
    BY <2>1 DEF SchemaInv, PassedInOrder, Passed
  <2>3. fks[k] \subseteq FK
    BY DEF SchemaInv, MigrationTypeOK
  <2>4. QED
    BY <2>2, <2>3, InOrderIsWanted DEF listForeignKeys
<1>3. QED
  BY <1>1, <1>2

\* However the migrations are interleaved, stopped and started again, a key that all
\* of them are through with is in order.
THEOREM MigrationInvariant == MigrationSpec => []SchemaInv
<1>1. SchemaInv /\ [MigrationNext]_migVars => SchemaInv'
  <2> SUFFICES ASSUME SchemaInv, [MigrationNext]_migVars PROVE SchemaInv'
    OBVIOUS
  <2>1. ASSUME NEW p \in Migrators, Migrate(p) PROVE SchemaInv'
    BY <2>1, EarlyPreserves, KeysPreserve DEF Migrate, repairSchema
  <2>2. CASE (\E p \in Migrators : startAgain(p) \/ killed(p)) \/ setZone \/ UNCHANGED migVars
    BY <2>2, StopsPreserve
  <2>3. QED
    BY <2>1, <2>2 DEF MigrationNext
<1>2. QED
  BY <1>1, MigrationStart, PTL DEF MigrationSpec

\* MigrationIsSafe: once every migration has returned without an error the schema is
\* the wanted one, and no time stamp is converted twice unless two migrations
\* overlapped (Migrate, ensureForeignKey, migrateTimestampsToTZ in postgres.go).
THEOREM MigrationStaysSafe == MigrationSpec => []MigrationIsSafe
BY MigrationInvariant, SchemaIsSafe, PTL
=============================================================================
