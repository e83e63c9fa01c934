----------------------- MODULE SessionTrackerProofs -----------------------
(***************************************************************************)
(* Proofs about SessionTracker, for every finite set of sessions.          *)
(***************************************************************************)
EXTENDS SessionTracker, FiniteSetTheorems, TLAPS

\* The sessions in flight are finitely many, so that counting them makes
\* sense.
LEMMA InFlightFinite ==
    /\ IsFiniteSet(InFlight)
    /\ Cardinality(InFlight) \in Nat
  BY SessionsFinite, FS_Subset, FS_CardinalityType DEF InFlight

\* A session that begins adds one to the count.
LEMMA CountOnBegin ==
    ASSUME NEW s \in Sessions,
           caller \in [Sessions -> {"idle", "refused", "live", "ending", "ended"}],
           caller[s] = "idle",
           caller' = [caller EXCEPT ![s] = "live"]
    PROVE  Cardinality(InFlight') = Cardinality(InFlight) + 1
<1>1. InFlight' = InFlight \cup {s}
  BY DEF InFlight
<1>2. s \notin InFlight
  BY DEF InFlight
<1>3. QED
  BY <1>1, <1>2, InFlightFinite, FS_AddElement

\* A session that has ended takes one from it.
LEMMA CountOnDone ==
    ASSUME NEW s \in Sessions,
           caller \in [Sessions -> {"idle", "refused", "live", "ending", "ended"}],
           caller[s] = "ending",
           caller' = [caller EXCEPT ![s] = "ended"]
    PROVE  /\ Cardinality(InFlight') = Cardinality(InFlight) - 1
           /\ InFlight' = InFlight \ {s}
<1>1. InFlight' = InFlight \ {s}
  BY DEF InFlight
<1>2. s \in InFlight
  BY DEF InFlight
<1>3. QED
  BY <1>1, <1>2, InFlightFinite, FS_RemoveElement

\* Every step preserves the inductive invariant of the tracker.
LEMMA TrackerInvStep == TrackerInv /\ [TrackerNext]_trackerVars => TrackerInv'
<1> SUFFICES ASSUME TrackerInv, [TrackerNext]_trackerVars
             PROVE  TrackerInv'
  OBVIOUS
<1> USE DEF TrackerInv, TrackerTypeOK, DrainedMeansNoneInFlight, NoLiveSessionMissed
<1>1. ASSUME NEW s \in Sessions, Begin(s)
      PROVE  TrackerInv'
  <2>1. Cardinality(InFlight') = Cardinality(InFlight) + 1
    BY <1>1, CountOnBegin DEF Begin
  <2>2. drain # "drained"
    BY <1>1 DEF Begin
  <2>3. QED
    BY <1>1, <2>1, <2>2 DEF Begin
<1>2. ASSUME NEW s \in Sessions, BeginRefused(s)
      PROVE  TrackerInv'
  <2>1. InFlight' = InFlight
    BY <1>2 DEF BeginRefused, InFlight
  <2>2. QED
    BY <1>2, <2>1 DEF BeginRefused
<1>3. ASSUME NEW s \in Sessions, EndDelete(s)
      PROVE  TrackerInv'
  <2>1. InFlight' = InFlight
    BY <1>3 DEF EndDelete, InFlight
  <2>2. QED
    BY <1>3, <2>1 DEF EndDelete
<1>4. ASSUME NEW s \in Sessions, EndDone(s)
      PROVE  TrackerInv'
  <2>1. /\ Cardinality(InFlight') = Cardinality(InFlight) - 1
        /\ InFlight' = InFlight \ {s}
    BY <1>4, CountOnDone DEF EndDone
  <2>2. s \in InFlight
    BY <1>4 DEF EndDone, InFlight
  <2>3. wg - 1 \in Nat
    BY <2>2, InFlightFinite, FS_EmptySet
  <2>4. QED
    BY <1>4, <2>1, <2>2, <2>3 DEF EndDone
<1>5. CASE StartDrain
  BY <1>5 DEF StartDrain, InFlight
<1>6. ASSUME NEW s \in Sessions, Stop(s)
      PROVE  TrackerInv'
  BY <1>6 DEF Stop, InFlight
<1>7. CASE StartWait
  BY <1>7 DEF StartWait, InFlight
<1>8. CASE Drained
  <2>1. InFlight = {}
    BY <1>8, InFlightFinite, FS_EmptySet DEF Drained
  <2>2. InFlight' = InFlight
    BY <1>8 DEF Drained, InFlight
  <2>3. QED
    BY <1>8, <2>1, <2>2 DEF Drained
<1>9. CASE Expired
  BY <1>9 DEF Expired, InFlight
<1>10. CASE UNCHANGED trackerVars
  BY <1>10 DEF trackerVars, InFlight
<1>11. QED
  BY <1>1, <1>2, <1>3, <1>4, <1>5, <1>6, <1>7, <1>8, <1>9, <1>10 DEF TrackerNext

\* The invariant holds from the start.
LEMMA TrackerInvInit == TrackerInit => TrackerInv
<1> SUFFICES ASSUME TrackerInit PROVE TrackerInv
  OBVIOUS
<1>1. InFlight = {}
  BY DEF TrackerInit, InFlight
<1>2. QED
  BY <1>1, FS_EmptySet
     DEF TrackerInit, TrackerInv, TrackerTypeOK, DrainedMeansNoneInFlight, NoLiveSessionMissed

\* The tracker's invariant holds in every reachable state: the WaitGroup counts
\* exactly the sessions whose End has not returned.
THEOREM TrackerInvariant == TrackerSpec => []TrackerInv
<1>1. QED
  BY TrackerInvInit, TrackerInvStep, PTL DEF TrackerSpec

\* Drain returns nil only with no session in flight, and no session begins
\* afterwards (Begin refuses once closing is set, under the same mutex).
THEOREM DrainIsComplete == TrackerSpec => []DrainedMeansNoneInFlight
<1>1. TrackerInv => DrainedMeansNoneInFlight
  BY DEF TrackerInv
<1>2. QED
  BY <1>1, TrackerInvariant, PTL

\* No session that is live when shutdown starts escapes its stop function.
THEOREM DrainStopsEverySession == TrackerSpec => []NoLiveSessionMissed
<1>1. TrackerInv => NoLiveSessionMissed
  BY DEF TrackerInv
<1>2. QED
  BY <1>1, TrackerInvariant, PTL

\* Both together, what Server.Shutdown and the API server rely on.
THEOREM DrainKeepsItsPromise == TrackerSpec => []DrainIsWhole
<1>1. TrackerInv => DrainIsWhole
  BY DEF TrackerInv, DrainIsWhole
<1>2. QED
  BY <1>1, TrackerInvariant, PTL
=============================================================================
