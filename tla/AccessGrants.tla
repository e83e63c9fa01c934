---------------------------- MODULE AccessGrants ----------------------------
(***************************************************************************)
(* Access requests and grants for one (user, machine, access type) trio:    *)
(* pkg/auth/auth.go, the API handlers that call it, and the statements of   *)
(* pkg/database/postgres.go it runs.  Every HTTP call is a goroutine of its *)
(* own, the store is the only synchronisation, and a call is several        *)
(* statements, each a transaction of its own, so calls interleave between   *)
(* statements.                                                             *)
(*                                                                         *)
(* A version of a grant is named by the call that wrote it (granted_by and  *)
(* granted_at), a row by the call that inserted it, an expiry time by the   *)
(* call that chose it.  The remote users and the duration are data no      *)
(* property tells apart.  The OpenFGA tuple names the user and the machine  *)
(* only, so grants of the pair's other access types write and delete it too.*)
(***************************************************************************)
EXTENDS Naturals, FiniteSets

CONSTANTS
    Approvers,  \* calls of POST access-requests/:id/approve, and risk-policy auto-approvals
    Rejecters,  \* calls of POST access-requests/:id/reject
    Granters,   \* calls of POST permissions, one pair of a bulk grant, approvals of other requests
    Editors,    \* calls of PUT permissions/:id
    Revokers,   \* calls of DELETE permissions/:id, one id of a bulk revoke
    None

Deciders == Approvers \cup Rejecters
Granting == Approvers \cup Granters
Calls    == Deciders \cup Granters \cup Editors \cup Revokers

ASSUME CallsAssumption ==
    /\ None \notin Calls
    /\ Approvers \cap (Rejecters \cup Granters \cup Editors \cup Revokers) = {}
    /\ Rejecters \cap (Granters \cup Editors \cup Revokers) = {}
    /\ Granters \cap (Editors \cup Revokers) = {}
    /\ Editors \cap Revokers = {}

VARIABLES
    status,   \* access_requests.status of the one request
    perms,    \* the permissions table: row id -> its version and expiry, or None
    hist,     \* the permission_history table
    tuple,    \* the OpenFGA tuple for this user and machine exists
    lapsed,   \* the expiry times that have passed
    pc,       \* where each call is
    target,   \* the row a call read (and will write)
    until,    \* the expiry a call will write: a time, or None for permanent
    snap,     \* the version an UPDATE statement's snapshot holds
    \* what the properties remember; no action reads these
    saw,      \* the rows in the table when a call looked for an active grant
    written,  \* the versions that were ever stored
    replaced, \* the version a call's UPDATE overwrote
    failed,   \* calls that a store or authorizer error touched
    early,    \* the deciders that had read the request when it was first decided
    bereft    \* the calls that had begun when a revocation of the pair deleted the tuple

store  == <<status, perms, hist, tuple, lapsed>>
local  == <<pc, target, until, snap>>
memory == <<saw, written, replaced, failed, early, bereft>>
vars   == <<store, local, memory>>

-----------------------------------------------------------------------------
Row    == [ver : Calls, until : Calls \cup {None}]
ASSUME RowAssumption == None \notin Row

Ended  == [id : Calls, ver : Calls, why : {"updated", "revoked"}]
Rows   == {i \in Calls : perms[i] # None}
Active == {i \in Rows : perms[i].until \notin lapsed}

\* The calls that are between reading the request and storing a decision.
Deciding == {c \in Deciders : pc[c] = "decide"}

Goto(c, l)  == pc' = [pc EXCEPT ![c] = l]

TypeOK ==
    /\ status \in {"pending", "approved", "rejected", "expired"}
    /\ perms \in [Calls -> Row \cup {None}]
    /\ hist \subseteq Ended
    /\ tuple \in BOOLEAN
    /\ lapsed \subseteq Calls
    /\ pc \in [Calls -> {"idle", "decide", "find", "create", "writeTuple",
                         "snapshot", "apply", "delete", "deleteTuple", "done"}]
    /\ target \in [Calls -> Calls \cup {None}]
    /\ until \in [Calls -> Calls \cup {None}]
    /\ snap \in [Calls -> Calls \cup {None}]
    /\ saw \in [Calls -> SUBSET Calls]
    /\ written \subseteq Calls
    /\ replaced \in [Calls -> Calls \cup {None}]
    /\ failed \subseteq Calls
    /\ early \subseteq Deciders
    /\ bereft \subseteq Calls

Init ==
    /\ status = "pending"
    /\ perms = [c \in Calls |-> None]
    /\ hist = {}
    /\ tuple = FALSE
    /\ lapsed = {}
    /\ pc = [c \in Calls |-> "idle"]
    /\ target = [c \in Calls |-> None]
    /\ until = [c \in Calls |-> None]
    /\ snap = [c \in Calls |-> None]
    /\ saw = [c \in Calls |-> {}]
    /\ written = {}
    /\ replaced = [c \in Calls |-> None]
    /\ failed = {}
    /\ early = {}
    /\ bereft = {}

-----------------------------------------------------------------------------
\* Deciding a request

\* Mutant: the decision is not checked to be the first.
StillPending_NotChecked == TRUE

\* The check both decisions make on the request they read.
StillPending == status = "pending"

\* ApproveAccessRequestWithTTL reads the request and computes the expiry:
\* none when the duration is 0.  A request that is not pending is refused.
ReadToApprove(c) ==
    /\ c \in Approvers /\ pc[c] = "idle"
    /\ Goto(c, IF StillPending THEN "decide" ELSE "done")
    /\ until' \in {[until EXCEPT ![c] = t] : t \in {c, None}}
    /\ UNCHANGED <<store, target, snap, memory>>

ReadToReject(c) ==
    /\ c \in Rejecters /\ pc[c] = "idle"
    /\ Goto(c, IF StillPending THEN "decide" ELSE "done")
    /\ UNCHANGED <<store, target, until, snap, memory>>

\* UpdateAccessRequest stores the decision whatever the row now holds.
Decide(c, decision) ==
    /\ pc[c] = "decide"
    /\ status' = decision
    /\ early' = IF status = "pending" THEN Deciding ELSE early
    /\ UNCHANGED <<perms, hist, tuple, lapsed, target, until, snap,
                   saw, written, replaced, failed, bereft>>

\* ApproveAccessRequestWithTTL goes on to GrantPermission.
Approve(c) == c \in Approvers /\ Decide(c, "approved") /\ Goto(c, "find")
Reject(c)  == c \in Rejecters /\ Decide(c, "rejected") /\ Goto(c, "done")

\* ExpireStalePendingAccessRequests: one statement that tests and sets.
ExpireStale ==
    /\ status = "pending"
    /\ status' = "expired"
    /\ early' = Deciding
    /\ UNCHANGED <<perms, hist, tuple, lapsed, local,
                   saw, written, replaced, failed, bereft>>

-----------------------------------------------------------------------------
\* Granting: AuthService.GrantPermission

BeginGrant(c) ==
    /\ c \in Granters /\ pc[c] = "idle"
    /\ Goto(c, "find")
    /\ until' \in {[until EXCEPT ![c] = t] : t \in {c, None}}
    /\ UNCHANGED <<store, target, snap, memory>>

\* The rows FindActivePermission may answer with (the newest; any, here).
FindActivePermission == Active

\* An active grant will be updated in place, else a row is created.
FindActive(c) ==
    /\ pc[c] = "find"
    /\ saw' = [saw EXCEPT ![c] = Rows]
    /\ \/ \E i \in FindActivePermission :
            target' = [target EXCEPT ![c] = i] /\ Goto(c, "snapshot")
       \/ FindActivePermission = {} /\ Goto(c, "create") /\ UNCHANGED target
    /\ UNCHANGED <<store, until, snap, written, replaced, failed, early, bereft>>

\* An error of the look-up is not told from "no active grant".
FindFails(c) ==
    /\ pc[c] = "find"
    /\ Goto(c, "create")
    /\ failed' = failed \cup {c}
    /\ UNCHANGED <<store, target, until, snap, saw, written, replaced, early, bereft>>

CreatePermission(c) ==
    /\ pc[c] = "create"
    /\ perms' = [perms EXCEPT ![c] = [ver |-> c, until |-> until[c]]]
    /\ written' = written \cup {c}
    /\ Goto(c, "writeTuple")
    /\ UNCHANGED <<status, hist, tuple, lapsed, target, until, snap,
                   saw, replaced, failed, early, bereft>>

\* OpenFGA.WriteGrant; writing a tuple that exists is an error and changes
\* nothing.
WriteGrant(c) ==
    /\ pc[c] = "writeTuple"
    /\ Goto(c, "done")
    /\ tuple' = TRUE
    /\ UNCHANGED <<status, perms, hist, lapsed, target, until, snap, memory>>

-----------------------------------------------------------------------------
\* UpdatePermission: one statement, two moments.  Its CTE archives the row of
\* the snapshot it starts with; the UPDATE itself waits for the row's lock
\* and then overwrites whatever the row has become (READ COMMITTED).

Snapshot(c) ==
    /\ pc[c] = "snapshot"
    /\ snap' = [snap EXCEPT ![c] = IF target[c] \in Rows THEN perms[target[c]].ver ELSE None]
    /\ Goto(c, "apply")
    /\ UNCHANGED <<store, target, until, memory>>

\* Mutant: a row that changed since is skipped.
Overwrites_IfUnchanged(c) == target[c] \in Rows /\ perms[target[c]].ver = snap[c]

\* The UPDATE matches a row; when it matches none, that is not an error.
Overwrites(c) == target[c] \in Rows

\* What the CTE inserts into permission_history.
Archive(c) ==
    IF snap[c] = None THEN {}
    ELSE {[id |-> target[c], ver |-> snap[c], why |-> "updated"]}

Apply(c) ==
    /\ pc[c] = "apply"
    /\ hist' = hist \cup Archive(c)
    /\ IF Overwrites(c)
       THEN /\ perms' = [perms EXCEPT ![target[c]] = [ver |-> c, until |-> until[c]]]
            /\ written' = written \cup {c}
            /\ replaced' = [replaced EXCEPT ![c] =
                               IF target[c] \in Rows THEN perms[target[c]].ver ELSE None]
       ELSE UNCHANGED <<perms, written, replaced>>
    /\ Goto(c, "done")
    /\ UNCHANGED <<status, tuple, lapsed, target, until, snap, saw, failed, early, bereft>>

\* updatePermission reads the grant and keeps or replaces its expiry; it then
\* runs UpdatePermission with the record it read.
ReadToEdit(c) ==
    /\ c \in Editors /\ pc[c] = "idle"
    /\ \E i \in Rows :
         /\ target' = [target EXCEPT ![c] = i]
         /\ until' \in {[until EXCEPT ![c] = t] : t \in {perms[i].until, c, None}}
    /\ Goto(c, "snapshot")
    /\ UNCHANGED <<store, snap, memory>>

-----------------------------------------------------------------------------
\* Revoking: AuthService.RevokePermission

ReadToRevoke(c) ==
    /\ c \in Revokers /\ pc[c] = "idle"
    /\ \E i \in Rows : target' = [target EXCEPT ![c] = i]
    /\ Goto(c, "delete")
    /\ UNCHANGED <<store, until, snap, memory>>

\* DeletePermission deletes and archives the row as it is when the delete
\* gets its lock; a row that is gone is ErrNotFound and ends the call.
DeletePermission(c) ==
    /\ pc[c] = "delete"
    /\ IF target[c] \in Rows
       THEN /\ perms' = [perms EXCEPT ![target[c]] = None]
            /\ hist' = hist \cup {[id |-> target[c], ver |-> perms[target[c]].ver,
                                   why |-> "revoked"]}
            /\ Goto(c, "deleteTuple")
       ELSE /\ Goto(c, "done")
            /\ UNCHANGED <<perms, hist>>
    /\ UNCHANGED <<status, tuple, lapsed, target, until, snap, memory>>

\* OpenFGA.DeleteGrant: the tuple goes, whichever other grants rest on it.
TupleDeleted ==
    /\ tuple' = FALSE
    /\ bereft' = bereft \cup {d \in Calls : pc[d] # "idle"}

DeleteGrant(c) ==
    /\ pc[c] = "deleteTuple"
    /\ TupleDeleted
    /\ Goto(c, "done")
    /\ UNCHANGED <<status, perms, hist, lapsed, target, until, snap,
                   saw, written, replaced, failed, early>>

\* A grant of another access type of the pair is created, or is revoked.
OtherTypeGranted ==
    /\ tuple' = TRUE
    /\ UNCHANGED <<status, perms, hist, lapsed, local, memory>>

OtherTypeRevoked ==
    /\ TupleDeleted
    /\ UNCHANGED <<status, perms, hist, lapsed, local, saw, written, replaced, failed, early>>

-----------------------------------------------------------------------------
\* A statement of the store fails, or the client hangs up and cancels the
\* request's context: the call returns.  A failing authorizer is only logged.
Fails(c) ==
    /\ pc[c] \in {"decide", "create", "writeTuple", "snapshot", "apply",
                  "delete", "deleteTuple"}
    /\ failed' = failed \cup {c}
    /\ Goto(c, "done")
    /\ UNCHANGED <<store, target, until, snap, saw, written, replaced, early, bereft>>

\* Time passes an expiry that some row holds.
Lapse ==
    /\ \E i \in Active :
         perms[i].until # None /\ lapsed' = lapsed \cup {perms[i].until}
    /\ UNCHANGED <<status, perms, hist, tuple, local, memory>>

Next ==
    \/ \E c \in Calls :
         \/ ReadToApprove(c) \/ ReadToReject(c) \/ Approve(c) \/ Reject(c)
         \/ BeginGrant(c) \/ FindActive(c) \/ FindFails(c)
         \/ CreatePermission(c) \/ WriteGrant(c)
         \/ ReadToEdit(c) \/ Snapshot(c) \/ Apply(c)
         \/ ReadToRevoke(c) \/ DeletePermission(c) \/ DeleteGrant(c)
         \/ Fails(c)
    \/ OtherTypeGranted \/ OtherTypeRevoked
    \/ ExpireStale
    \/ Lapse

Spec == Init /\ [][Next]_vars

-----------------------------------------------------------------------------
\* Properties

\* A revoked grant stays revoked: an edit or a grant that read the row before
\* RevokePermission deleted it finds nothing to update and does not bring the
\* row back.
RevokedStaysRevoked ==
    \A h \in hist : h.why = "revoked" => perms[h.id] = None

\* The schema's comment on permission_history: every version of a grant that
\* stopped applying is kept, so that a review of a past date can find it.
EveryVersionKept ==
    \A v \in written : (\E i \in Rows : perms[i].ver = v) \/ (\E h \in hist : h.ver = v)

\* What UpdatePermission and DeletePermission really keep: a version is
\* missing from the history only when it was overwritten by an UPDATE whose
\* snapshot was older than that version.
VersionLostOnlyToOverlap ==
    \A v \in written :
        \/ \E i \in Rows : perms[i].ver = v
        \/ \E h \in hist : h.ver = v
        \/ \E c \in Calls : replaced[c] = v /\ snap[c] # v

\* GrantPermission's "replace an existing active grant": two active rows that
\* were not touched since they were created were created blindly, neither
\* call having seen the other's row (they overlapped, or a look-up failed).
DuplicatesWereBlind ==
    \A a, b \in Active :
        (a # b /\ perms[a].ver = a /\ perms[b].ver = b)
            => (a \notin saw[b] /\ b \notin saw[a])

\* A grant or approval that reported success stored its version, unless the
\* row it was about to update was revoked under it.
GrantLostOnlyToRevoke ==
    \A c \in Granting :
        (target[c] # None /\ pc[c] = "done" /\ c \notin failed /\ c \notin written)
            => \E h \in hist : h.id = target[c] /\ h.why = "revoked"

\* With OpenFGA enabled a grant is usable only while the tuple is there.  A
\* call that created its row after every revocation of the pair, of whatever
\* access type, has its tuple (unless the write of it failed, which
\* GrantPermission only logs).  A call that updated a row in place writes no
\* tuple, and nothing is said of it here.
CreatedGrantIsUsable ==
    \A i \in Rows : (pc[i] = "done" /\ i \notin failed) => (tuple \/ i \in bereft)

\* "Write/delete tuples on grant/revoke": a grant or approval that stored its
\* version, begun after every revocation of the pair, has its tuple, once no
\* call is about to write it and when nothing failed.
GrantHasTuple ==
    \A c \in Granting \cap written :
        (pc[c] = "done" /\ failed = {} /\ \A d \in Calls : pc[d] # "writeTuple")
            => (tuple \/ c \in bereft)

\* "Request is not pending": once a request is decided, only a call that had
\* read it while it was pending can still change the decision.
DecisionStands ==
    [][ (status # "pending" /\ status' # status)
            => \E c \in early : pc[c] = "decide" ]_vars

\* What overlapping grants, edits, approvals and revocations keep true of the
\* permission row, its history and its tuple.
GrantsAreKept ==
    /\ TypeOK
    /\ RevokedStaysRevoked /\ VersionLostOnlyToOverlap
    /\ DuplicatesWereBlind /\ GrantLostOnlyToRevoke /\ CreatedGrantIsUsable
=============================================================================
