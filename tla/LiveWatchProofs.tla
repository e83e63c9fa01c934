-------------------------- MODULE LiveWatchProofs --------------------------
(***************************************************************************)
(* Proofs about LiveWatch, for any set of viewers, any channel capacity and *)
(* any amount of output.                                                   *)
(***************************************************************************)
EXTENDS LiveWatch, TLAPS

\* What WatchInv says about each viewer besides the named properties: the hub
\* has exactly the open channels, a channel not closed was never closed, and
\* where the viewer's handler is tells the state of its channel.
Linked(w) ==
    /\ chan[w] = "open" <=> w \in subs
    /\ chan[w] # "closed" => closes[w] = 0
    /\ viewer[w] \in {"new", "active", "upgraded"} => chan[w] = "none"
    /\ viewer[w] = "subscribed" /\ chan[w] = "closed" => stop \in {"hub_closed", "deleted"}
    /\ viewer[w] = "subscribed" => chan[w] # "none"

\* Output reaches the queues and nothing else, and a full queue stays full.
LEMMA BroadcastKeeps == WatchInv /\ Broadcast => WatchInv'
<1> SUFFICES ASSUME WatchInv, Broadcast
             PROVE  WatchInv'
  OBVIOUS
<1>1. TypeOK'
  BY WatchAssumption DEF WatchInv, TypeOK, Broadcast
<1>2. QED
  BY <1>1 DEF WatchInv, NoPanic, WatcherWillBeClosed, NoEntryLeftBehind, Broadcast

\* The finaliser: the close of the hub's entry closes the channel of every
\* viewer in it, once, and its other steps touch no channel.
LEMMA FinaliseKeeps == WatchInv /\ Finalise => WatchInv'
<1> SUFFICES ASSUME WatchInv, Finalise
             PROVE  WatchInv'
  OBVIOUS
<1> USE DEF WatchInv, TypeOK, NoPanic, WatcherWillBeClosed, NoEntryLeftBehind
<1>1. CASE EndSession
  BY <1>1 DEF EndSession, hubVars
<1>2. CASE StopRecording
  BY <1>2 DEF StopRecording, hubVars
<1>3. CASE CloseSession
  <2>1. TypeOK'
    BY <1>3 DEF CloseSession
  <2>2. NoPanic'
    BY <1>3 DEF CloseSession
  <2>3. WatcherWillBeClosed'
    BY <1>3 DEF CloseSession
  <2>4. NoEntryLeftBehind'
    BY <1>3 DEF CloseSession
  <2>5. \A w \in Watchers : Linked(w)'
    BY <1>3 DEF CloseSession, Linked
  <2>6. QED
    BY <2>1, <2>2, <2>3, <2>4, <2>5 DEF Linked
<1>4. CASE DeleteRecorder
  BY <1>4 DEF DeleteRecorder, hubVars
<1>5. QED
  BY <1>1, <1>2, <1>3, <1>4 DEF Finalise

\* A viewer's handler.  The second look at the recorder is what makes
\* WatcherWillBeClosed hold as the viewer enters its loop.
LEMMA WatchKeeps ==
    ASSUME NEW w \in Watchers, WatchInv, Watch(w)
    PROVE  WatchInv'
<1> USE DEF WatchInv, TypeOK, NoPanic, WatcherWillBeClosed, NoEntryLeftBehind, Steps
<1>1. CASE CheckSession(w)
  BY <1>1 DEF CheckSession, hubVars
<1>2. CASE CheckRecorder(w)
  BY <1>2 DEF CheckRecorder, hubVars
<1>3. CASE Subscribe(w)
  BY <1>3 DEF Subscribe
<1>4. CASE CheckAgain(w)
  <2>1. stop \in {"live", "row_ended", "deleted"}
    BY <1>4 DEF CheckAgain, RecorderUnlocked
  <2>2. QED
    BY <1>4, <2>1 DEF CheckAgain, Recording, hubVars
<1>5. CASE Receive(w)
  BY <1>5, WatchAssumption DEF Receive
<1>6. CASE LoopEnds(w)
  BY <1>6 DEF LoopEnds, hubVars
<1>7. CASE Unsubscribe(w)
  BY <1>7 DEF Unsubscribe
<1>8. QED
  BY <1>1, <1>2, <1>3, <1>4, <1>5, <1>6, <1>7 DEF Watch

\* A viewer that goes away leaves its handler to find out.
LEMMA DisconnectKeeps ==
    ASSUME NEW w \in Watchers, WatchInv, Disconnect(w)
    PROVE  WatchInv'
  BY DEF WatchInv, TypeOK, NoPanic, WatcherWillBeClosed, NoEntryLeftBehind,
         Disconnect, hubVars

\* The hub, StopRecording and sessionWatchWS keep WatchInv, however viewers
\* come and go around the end of the session.
THEOREM WatchInvariant == Spec => []WatchInv
<1>1. Init => WatchInv
  BY WatchAssumption DEF Init, WatchInv, TypeOK, NoPanic, WatcherWillBeClosed,
     NoEntryLeftBehind, Steps
<1>2. WatchInv /\ [Next]_vars => WatchInv'
  <2> SUFFICES ASSUME WatchInv, [Next]_vars
               PROVE  WatchInv'
    OBVIOUS
  <2>1. CASE UNCHANGED vars
    BY <2>1 DEF WatchInv, TypeOK, NoPanic, WatcherWillBeClosed, NoEntryLeftBehind,
       vars, hubVars
  <2>2. CASE Next
    BY <2>2, BroadcastKeeps, FinaliseKeeps, WatchKeeps, DisconnectKeeps DEF Next
  <2>3. QED
    BY <2>1, <2>2
<1>3. QED
  BY <1>1, <1>2, PTL DEF Spec

\* No send on a closed channel and no second close, in Broadcast, CloseSession
\* and Unsubscribe, for any number of viewers.
THEOREM HubNeverPanics == Spec => []NoPanic
<1>1. WatchInv => NoPanic
  BY DEF WatchInv
<1>2. QED
  BY <1>1, WatchInvariant, PTL

\* A viewer in the loop of sessionWatchWS has a closed channel, or one that
\* StopRecording has yet to close.
THEOREM EveryWatcherIsClosed == Spec => []WatcherWillBeClosed
<1>1. WatchInv => WatcherWillBeClosed
  BY DEF WatchInv
<1>2. QED
  BY <1>1, WatchInvariant, PTL

\* All a viewer and the gateway rely on, at every moment of the session's end.
THEOREM WatchingIsSafe == Spec => []WatchIsSafe
<1>1. WatchInv => WatchIsSafe
  BY DEF WatchInv, WatchIsSafe
<1>2. QED
  BY <1>1, WatchInvariant, PTL
=============================================================================
