----------------------------- MODULE Anomalies -----------------------------
(***************************************************************************)
(* Flagging unusual sessions.  A session that starts, at the gateway or in *)
(* the console, writes its row, then reads the sessions its user had       *)
(* before and writes a flag to the audit log for each thing that looks     *)
(* unusual.  Sessions of one user start concurrently, so rows appear       *)
(* between the steps of a check.                                           *)
(*                                                                         *)
(* All sessions here are of one user.                                      *)
(***************************************************************************)
EXTENDS Integers, FiniteSets

CONSTANTS
    Logins,         \* the sessions
    Targets,        \* the machines
    Sensitive,      \* the machines whose sensitivity is high
    DayHours,       \* hours in a day
    HistoryLimit,   \* historyLimit: how many sessions a check reads
    MinHistory,     \* minHistory: below it off-hours is not judged
    HourTolerance   \* hourTolerance

ASSUME AnomalyAssumption ==
    /\ IsFiniteSet(Logins) /\ DayHours \in Nat \ {0}
    /\ HistoryLimit \in Nat /\ MinHistory \in Nat /\ HourTolerance \in 0 .. DayHours - 1

VARIABLES
    login,      \* each session: where its start is, its machine, start hour
    startTime,  \* their start times
    instant,    \* the time: no two sessions start at once
    history,    \* the sessions whose row is written
    flags,      \* the flags in the audit log, by session and kind
    pending,    \* the flags a check has raised and not yet written
    preceding,  \* the rows that were there when the session's was written
    between     \* the rows that were there when its history was read

anomalyVars == <<login, startTime, instant, history, flags, pending, preceding, between>>

Hour == 0 .. DayHours - 1
Kind == {"first_time_access", "off_hours"}

LoginStates == [at : {"new", "started", "written", "detected", "checked", "failed"},
                on : Targets, hour : Hour]

AnomaliesTypeOK ==
    /\ login \in [Logins -> LoginStates] /\ startTime \in [Logins -> Nat] /\ instant \in Nat
    /\ history \subseteq Logins
    /\ preceding \in [Logins -> SUBSET Logins] /\ between \in [Logins -> SUBSET Logins]
    /\ flags \in [Logins -> SUBSET Kind] /\ pending \in [Logins -> SUBSET Kind]

AnomaliesInit ==
    /\ login \in [Logins -> [at : {"new"}, on : Targets, hour : Hour]]
    /\ startTime = [s \in Logins |-> 0] /\ instant = 0 /\ history = {}
    /\ flags = [s \in Logins |-> {}] /\ pending = [s \in Logins |-> {}]
    /\ preceding = [s \in Logins |-> {}] /\ between = [s \in Logins |-> {}]

Go(s, to) == login' = [login EXCEPT ![s].at = to]

-----------------------------------------------------------------------------
(* What a check reads and decides. *)

\* The user's newest sessions, by start time.
Newer(s) == {r \in history : startTime[r] > startTime[s]}
ListUserSessions == {s \in history : Cardinality(Newer(s)) < HistoryLimit}

\* Mutant: the session counts as its own history.
Past_Own(s) == ListUserSessions

\* The session being judged is not part of its own past.
Past(s) == ListUserSessions \ {s}

firstAccess(s, past) ==
    /\ login[s].on \in Sensitive
    /\ \A p \in past : login[p].on # login[s].on

\* No session started in the same hour, give or take the tolerance, around
\* midnight too.
offHours(s, past) ==
    /\ Cardinality(past) >= MinHistory
    /\ \A d \in -HourTolerance .. HourTolerance, p \in past :
          login[p].hour # (login[s].hour + d + DayHours) % DayHours

Raised(s, past) ==
    (IF firstAccess(s, past) THEN {"first_time_access"} ELSE {})
    \cup (IF offHours(s, past) THEN {"off_hours"} ELSE {})

-----------------------------------------------------------------------------
(* The start of a session. *)

startLogin(s) ==
    /\ login[s].at = "new"
    /\ Go(s, "started")
    /\ startTime' = [startTime EXCEPT ![s] = instant] /\ instant' = instant + 1
    /\ UNCHANGED <<history, flags, pending, preceding, between>>

\* A gateway session goes on without its row, and is not checked; a console
\* terminal is refused.
createSession(s) ==
    /\ login[s].at = "started"
    /\ \/ /\ Go(s, "written") /\ history' = history \cup {s}
          /\ preceding' = [preceding EXCEPT ![s] = history]
       \/ /\ Go(s, "failed") /\ UNCHANGED <<history, preceding>>
    /\ UNCHANGED <<startTime, instant, flags, pending, between>>

Detect(s) ==
    /\ login[s].at = "written"
    /\ \/ /\ Go(s, "detected")
          /\ pending' = [pending EXCEPT ![s] = Raised(s, Past(s))]
          /\ between' = [between EXCEPT ![s] = history]
       \/ /\ Go(s, "failed") /\ UNCHANGED <<pending, between>>
    /\ UNCHANGED <<startTime, instant, history, flags, preceding>>

\* One audit entry at a time; the first that fails ends the check.
Record(s) ==
    /\ login[s].at = "detected"
    /\ \/ /\ pending[s] = {} /\ Go(s, "checked") /\ UNCHANGED <<flags, pending>>
       \/ \E k \in pending[s] :
             /\ k = "off_hours" => "first_time_access" \notin pending[s]
             /\ flags' = [flags EXCEPT ![s] = @ \cup {k}]
             /\ pending' = [pending EXCEPT ![s] = @ \ {k}]
             /\ UNCHANGED login
       \/ /\ pending[s] # {} /\ Go(s, "failed") /\ UNCHANGED <<flags, pending>>
    /\ UNCHANGED <<startTime, instant, history, preceding, between>>

Check(s) == Detect(s) \/ Record(s)

AnomaliesNext == \E s \in Logins : startLogin(s) \/ createSession(s) \/ Check(s)

AnomaliesSpec == AnomaliesInit /\ [][AnomaliesNext]_anomalyVars

-----------------------------------------------------------------------------
First(s) == login[s].on \in Sensitive /\ \A p \in preceding[s] : login[p].on # login[s].on

(* The first session on a sensitive machine is flagged, unless another of  *)
(* the user's sessions on it wrote its row before the history was read.    *)
FirstFlaggedUnlessOverlap ==
    \A s \in Logins :
        (login[s].at = "checked" /\ First(s)) =>
            \/ "first_time_access" \in flags[s]
            \/ \E p \in between[s] \ (preceding[s] \cup {s}) : login[p].on = login[s].on

(* A session is flagged as off hours only when every earlier session that  *)
(* the check read started further away than the tolerance, around the      *)
(* clock.                                                                  *)
OffHoursIsFar ==
    \A s \in Logins : "off_hours" \in flags[s] =>
        Cardinality({p \in between[s] \ {s} :
                      \E d \in 0 .. HourTolerance :
                         \/ (login[p].hour + d) % DayHours = login[s].hour
                         \/ (login[s].hour + d) % DayHours = login[p].hour})
            <= IF Cardinality(between[s]) > HistoryLimit
               THEN Cardinality(between[s]) - HistoryLimit ELSE 0

(* Both together: what a reviewer may rely on in the list of flags.        *)
FlagsCanBeTrusted == AnomaliesTypeOK /\ FirstFlaggedUnlessOverlap /\ OffHoursIsFar

(* What the documentation of anomalies says: a flag is raised when a user  *)
(* opens their first session on a machine whose sensitivity is high.       *)
FirstAccessIsFlagged ==
    \A m \in Sensitive :
        LET on == {s \in Logins : login[s].on = m /\ login[s].at # "new"} IN
        (on # {} /\ \A s \in on : login[s].at = "checked") =>
            \E s \in on : "first_time_access" \in flags[s]
=============================================================================
