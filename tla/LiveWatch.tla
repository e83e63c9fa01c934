----------------------------- MODULE LiveWatch -----------------------------
(***************************************************************************)
(* Live viewers of one recorded session: sessionWatchWS (pkg/api) on one   *)
(* side, Recorder.StopRecording and the SessionHub (pkg/recording) on the  *)
(* other.                                                                  *)
(*                                                                         *)
(* Recorder.mu is held by StopRecording from its lookup to its delete, so  *)
(* GetRecorder waits meanwhile; the hub has a mutex of its own, and each   *)
(* of its operations is one action.                                        *)
(***************************************************************************)
EXTENDS Naturals, FiniteSets

CONSTANTS
    Watchers,    \* viewers, each of which connects once
    Cap,         \* capacity of a viewer's channel (64 in the code)
    MaxOutput    \* bound: chunks the session prints

ASSUME WatchAssumption == Cap \in Nat /\ MaxOutput \in Nat

VARIABLES
    stop,      \* where the session's end is
    printed,   \* chunks given to SessionRecorder.Write
    subs,      \* the hub's entry for the session
    chan,      \* each viewer's channel
    queue,     \* chunks in it
    closes,    \* how often close() was called on it: twice is a panic
    viewer,    \* where each viewer's handler is
    gone       \* viewers that disconnected

hubVars == <<subs, chan, queue, closes>>
vars == <<stop, printed, hubVars, viewer, gone>>

Steps == {"new", "active", "upgraded", "subscribed", "watching", "leaving", "left"}

TypeOK ==
    /\ stop \in {"live", "row_ended", "closing", "hub_closed", "deleted"}
    /\ printed \in 0..MaxOutput
    /\ subs \subseteq Watchers
    /\ chan \in [Watchers -> {"none", "open", "closed"}]
    /\ queue \in [Watchers -> 0..Cap]
    /\ closes \in [Watchers -> Nat]
    /\ viewer \in [Watchers -> Steps]
    /\ gone \subseteq Watchers

Init ==
    /\ stop = "live"
    /\ printed = 0
    /\ subs = {}
    /\ chan = [w \in Watchers |-> "none"]
    /\ queue = [w \in Watchers |-> 0]
    /\ closes = [w \in Watchers |-> 0]
    /\ viewer = [w \in Watchers |-> "new"]
    /\ gone = {}

----------------------------------------------------------------------------
\* The session: its output, and the finaliser's EndSession and StopRecording.

\* SessionRecorder.Write and Hub.Broadcast; a full channel drops the chunk.
\* The copy may still write after StopRecording.
Broadcast ==
    /\ printed < MaxOutput
    /\ printed' = printed + 1
    /\ queue' = [w \in Watchers |->
         IF w \in subs /\ queue[w] < Cap THEN queue[w] + 1 ELSE queue[w]]
    /\ UNCHANGED <<stop, subs, chan, closes, viewer, gone>>

EndSession ==
    /\ stop = "live"
    /\ stop' = "row_ended"
    /\ UNCHANGED <<printed, hubVars, viewer, gone>>

\* StopRecording: takes Recorder.mu and writes the file.
StopRecording ==
    /\ stop = "row_ended"
    /\ stop' = "closing"
    /\ UNCHANGED <<printed, hubVars, viewer, gone>>

\* Its hub.CloseSession.
CloseSession ==
    /\ stop = "closing"
    /\ stop' = "hub_closed"
    /\ chan' = [w \in Watchers |-> IF w \in subs THEN "closed" ELSE chan[w]]
    /\ closes' = [w \in Watchers |-> IF w \in subs THEN closes[w] + 1 ELSE closes[w]]
    /\ subs' = {}
    /\ UNCHANGED <<printed, queue, viewer, gone>>

\* Its delete from the map, and the unlock.
DeleteRecorder ==
    /\ stop = "hub_closed"
    /\ stop' = "deleted"
    /\ UNCHANGED <<printed, hubVars, viewer, gone>>

----------------------------------------------------------------------------
\* A viewer.

RecorderUnlocked == stop \notin {"closing", "hub_closed"}

\* GetRecorder finds the recording.
Recording == stop # "deleted"

\* GetSession says the session is active.
CheckSession(w) ==
    /\ viewer[w] = "new"
    /\ viewer' = [viewer EXCEPT ![w] = IF stop = "live" THEN "active" ELSE "left"]
    /\ UNCHANGED <<stop, printed, hubVars, gone>>

\* GetRecorder the first time, then the upgrade to a WebSocket, which may fail.
CheckRecorder(w) ==
    /\ viewer[w] = "active"
    /\ RecorderUnlocked
    /\ \/ Recording /\ viewer' = [viewer EXCEPT ![w] = "upgraded"]
       \/ viewer' = [viewer EXCEPT ![w] = "left"]
    /\ UNCHANGED <<stop, printed, hubVars, gone>>

Subscribe(w) ==
    /\ viewer[w] = "upgraded"
    /\ viewer' = [viewer EXCEPT ![w] = "subscribed"]
    /\ subs' = subs \cup {w}
    /\ chan' = [chan EXCEPT ![w] = "open"]
    /\ UNCHANGED <<stop, printed, queue, closes, gone>>

\* Mutant: the second look at the recorder is left out.
CheckAgain_Skipped(w) ==
    /\ viewer[w] = "subscribed"
    /\ viewer' = [viewer EXCEPT ![w] = "watching"]
    /\ UNCHANGED <<stop, printed, hubVars, gone>>

\* GetRecorder a second time: the session may have ended before Subscribe.
CheckAgain(w) ==
    /\ viewer[w] = "subscribed"
    /\ RecorderUnlocked
    /\ viewer' = [viewer EXCEPT ![w] = IF Recording THEN "watching" ELSE "leaving"]
    /\ UNCHANGED <<stop, printed, hubVars, gone>>

\* A chunk from the channel; the write to the viewer may fail.
Receive(w) ==
    /\ viewer[w] = "watching"
    /\ queue[w] > 0
    /\ queue' = [queue EXCEPT ![w] = @ - 1]
    /\ \/ UNCHANGED viewer
       \/ w \in gone /\ viewer' = [viewer EXCEPT ![w] = "leaving"]
    /\ UNCHANGED <<stop, printed, subs, chan, closes, gone>>

\* The channel is closed and empty, or the viewer is gone.
LoopEnds(w) ==
    /\ viewer[w] = "watching"
    /\ (chan[w] = "closed" /\ queue[w] = 0) \/ w \in gone
    /\ viewer' = [viewer EXCEPT ![w] = "leaving"]
    /\ UNCHANGED <<stop, printed, hubVars, gone>>

\* The deferred Unsubscribe closes the channel only if the hub still has it.
Unsubscribe(w) ==
    /\ viewer[w] = "leaving"
    /\ viewer' = [viewer EXCEPT ![w] = "left"]
    /\ subs' = subs \ {w}
    /\ chan' = [chan EXCEPT ![w] = IF w \in subs THEN "closed" ELSE @]
    /\ closes' = [closes EXCEPT ![w] = IF w \in subs THEN @ + 1 ELSE @]
    /\ UNCHANGED <<stop, printed, queue, gone>>

\* The viewer disconnects.
Disconnect(w) ==
    /\ w \notin gone
    /\ viewer[w] \in {"upgraded", "subscribed", "watching"}
    /\ gone' = gone \cup {w}
    /\ UNCHANGED <<stop, printed, hubVars, viewer>>

----------------------------------------------------------------------------
Finalise == EndSession \/ StopRecording \/ CloseSession \/ DeleteRecorder

Watch(w) ==
    \/ CheckSession(w)
    \/ CheckRecorder(w)
    \/ Subscribe(w)
    \/ CheckAgain(w)
    \/ Receive(w)
    \/ LoopEnds(w)
    \/ Unsubscribe(w)

Next ==
    \/ Broadcast
    \/ Finalise
    \/ \E w \in Watchers : Watch(w) \/ Disconnect(w)

Spec == Init /\ [][Next]_vars

\* Handlers are scheduled, and StopRecording runs to its end once begun; that
\* a session ends or a viewer disconnects is not assumed.
FairSpec ==
    /\ Spec
    /\ WF_vars(StopRecording \/ CloseSession \/ DeleteRecorder)
    /\ \A w \in Watchers : WF_vars(Watch(w))

----------------------------------------------------------------------------
\* Properties.

\* Broadcast never sends on a closed channel and no channel is closed twice,
\* either of which would panic the gateway.
NoPanic ==
    \A w \in Watchers :
        /\ w \in subs => chan[w] = "open"
        /\ closes[w] <= 1

\* "a recording still here means ours will be closed when it ends": a viewer in
\* its loop either has a closed channel or is still in the hub of a session
\* whose end has yet to close it.
WatcherWillBeClosed ==
    \A w \in Watchers : viewer[w] = "watching" =>
        \/ chan[w] = "closed"
        \/ w \in subs /\ stop \in {"live", "row_ended", "closing"}

\* The hub keeps nothing of a viewer that left.
NoEntryLeftBehind == \A w \in Watchers : viewer[w] = "left" => w \notin subs

\* The inductive invariant behind the three.
WatchInv ==
    /\ TypeOK
    /\ NoPanic
    /\ WatcherWillBeClosed
    /\ NoEntryLeftBehind
    /\ \A w \in Watchers :
        /\ chan[w] = "open" <=> w \in subs
        /\ chan[w] # "closed" => closes[w] = 0
        /\ viewer[w] \in {"new", "active", "upgraded"} => chan[w] = "none"
        /\ viewer[w] = "subscribed" /\ chan[w] = "closed" => stop \in {"hub_closed", "deleted"}
        /\ viewer[w] = "subscribed" => chan[w] # "none"

\* Every viewer's handler ends once the session has, even one that subscribed
\* as the recording was being closed and whose viewer never disconnects.
WatchersEnd ==
    (stop = "row_ended") ~> (\A w \in Watchers : viewer[w] = "left")

\* A viewer of a live session can come and go at any moment: the hub does not
\* panic, the viewer is told of the end and leaves nothing behind
\* (sessionWatchWS, SessionHub).
WatchIsSafe == NoPanic /\ WatcherWillBeClosed /\ NoEntryLeftBehind
=============================================================================
