-------------------------- MODULE SessionTracker --------------------------
(***************************************************************************)
(* internal/livesessions.Tracker: the sessions in flight, so that shutdown *)
(* can refuse new ones, end the live ones and wait until each has written  *)
(* its recording.  The gateway has one for SSH sessions and the API server *)
(* one for web terminals.                                                  *)
(*                                                                         *)
(* Begin, the map part of End and the snapshot of Drain run under the      *)
(* mutex; wg.Done, the stop calls and the wait do not.                     *)
(***************************************************************************)
EXTENDS Naturals, FiniteSets

CONSTANT Sessions

ASSUME SessionsFinite == IsFiniteSet(Sessions)

VARIABLES
    closing,   \* Tracker.closing
    stops,     \* keys of Tracker.stops
    wg,        \* the WaitGroup's counter
    caller,    \* where the goroutine of each session is
    drain,     \* where Drain is
    toStop,    \* Drain's snapshot: stop functions not called yet
    stopped    \* sessions whose stop function was called

trackerVars == <<closing, stops, wg, caller, drain, toStop, stopped>>

TrackerTypeOK ==
    /\ closing \in BOOLEAN
    /\ stops \subseteq Sessions
    /\ wg \in Nat
    /\ caller \in [Sessions -> {"idle", "refused", "live", "ending", "ended"}]
    /\ drain \in {"none", "stopping", "waiting", "drained", "expired"}
    /\ toStop \subseteq Sessions
    /\ stopped \subseteq Sessions

TrackerInit ==
    /\ closing = FALSE
    /\ stops = {}
    /\ wg = 0
    /\ caller = [s \in Sessions |-> "idle"]
    /\ drain = "none"
    /\ toStop = {}
    /\ stopped = {}

\* Mutant: the check of closing is lost.
Begin_Unchecked(s) ==
    /\ caller[s] = "idle"
    /\ caller' = [caller EXCEPT ![s] = "live"]
    /\ stops' = stops \cup {s}
    /\ wg' = wg + 1
    /\ UNCHANGED <<closing, drain, toStop, stopped>>

\* Begin, as it answers true: the session is registered and counted.
Begin(s) ==
    /\ caller[s] = "idle"
    /\ ~closing
    /\ caller' = [caller EXCEPT ![s] = "live"]
    /\ stops' = stops \cup {s}
    /\ wg' = wg + 1
    /\ UNCHANGED <<closing, drain, toStop, stopped>>

\* Begin, as it answers false: the caller refuses the session.
BeginRefused(s) ==
    /\ caller[s] = "idle"
    /\ closing
    /\ caller' = [caller EXCEPT ![s] = "refused"]
    /\ UNCHANGED <<closing, stops, wg, drain, toStop, stopped>>

\* End, under the mutex.
EndDelete(s) ==
    /\ caller[s] = "live"
    /\ caller' = [caller EXCEPT ![s] = "ending"]
    /\ stops' = stops \ {s}
    /\ UNCHANGED <<closing, wg, drain, toStop, stopped>>

\* End, after it: wg.Done().
EndDone(s) ==
    /\ caller[s] = "ending"
    /\ caller' = [caller EXCEPT ![s] = "ended"]
    /\ wg' = wg - 1
    /\ UNCHANGED <<closing, stops, drain, toStop, stopped>>

\* Drain, under the mutex: refuse from now on, and take what is live.
StartDrain ==
    /\ drain = "none"
    /\ drain' = "stopping"
    /\ closing' = TRUE
    /\ toStop' = stops
    /\ UNCHANGED <<stops, wg, caller, stopped>>

\* One call of a stop function; a session that ended meanwhile gets it too.
Stop(s) ==
    /\ drain = "stopping"
    /\ s \in toStop
    /\ toStop' = toStop \ {s}
    /\ stopped' = stopped \cup {s}
    /\ UNCHANGED <<closing, stops, wg, caller, drain>>

StartWait ==
    /\ drain = "stopping"
    /\ toStop = {}
    /\ drain' = "waiting"
    /\ UNCHANGED <<closing, stops, wg, caller, toStop, stopped>>

\* wg.Wait returned first.
Drained ==
    /\ drain = "waiting"
    /\ wg = 0
    /\ drain' = "drained"
    /\ UNCHANGED <<closing, stops, wg, caller, toStop, stopped>>

\* ctx expired first.
Expired ==
    /\ drain = "waiting"
    /\ drain' = "expired"
    /\ UNCHANGED <<closing, stops, wg, caller, toStop, stopped>>

TrackerNext ==
    \/ \E s \in Sessions :
         \/ Begin(s)
         \/ BeginRefused(s)
         \/ EndDelete(s)
         \/ EndDone(s)
         \/ Stop(s)
    \/ StartDrain
    \/ StartWait
    \/ Drained
    \/ Expired

TrackerSpec == TrackerInit /\ [][TrackerNext]_trackerVars

----------------------------------------------------------------------------
\* Properties.

\* Sessions that wg.Wait has to wait for.
InFlight == {s \in Sessions : caller[s] \in {"live", "ending"}}

\* "Under mu, so every Add happens before Drain's Wait": once Drain has
\* returned nil no session is in flight, and none will be.
DrainedMeansNoneInFlight == drain = "drained" => InFlight = {}

\* "ends the live ones": from the moment Drain has set closing, every session
\* still live is one whose stop function was or will be called.
NoLiveSessionMissed ==
    closing => \A s \in Sessions :
        caller[s] = "live" => s \in toStop \cup stopped

\* The inductive invariant behind them: the counter is the number of sessions
\* in flight, and the map holds exactly the live ones.
TrackerInv ==
    /\ TrackerTypeOK
    /\ wg = Cardinality(InFlight)
    /\ stops = {s \in Sessions : caller[s] = "live"}
    /\ drain = "none" <=> ~closing
    /\ DrainedMeansNoneInFlight
    /\ NoLiveSessionMissed

\* Drain is whole: it stops every live session and returns nil only when none
\* is in flight (livesessions.Tracker.Drain).
DrainIsWhole == DrainedMeansNoneInFlight /\ NoLiveSessionMissed
=============================================================================
