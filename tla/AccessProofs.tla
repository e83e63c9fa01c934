---------------------------- MODULE AccessProofs -----------------------------
(***************************************************************************)
(* Requests, grants and what is told of them, proved for any number of     *)
(* calls, reviewers, policies, logins and machines: what the interleaved   *)
(* handlers keep of a grant, who may decide a request, and that the two    *)
(* views of access say what the decision at the gateway would be.          *)
(***************************************************************************)
EXTENDS AccessGrants, RequestRouting, AccessViews, TLAPS

(**** Requests and grants ****)

\* A call that has been through CreatePermission, or has ended: its row is not
\* created any more.
Past(i) == pc[i] \in {"writeTuple", "done"}

\* What a call has in hand at each point.
CallsKeepTheirPath ==
    \A c \in Calls :
        /\ pc[c] = "decide" => c \in Deciders
        /\ pc[c] \in {"delete", "deleteTuple"} => c \in Revokers
        /\ pc[c] \in {"idle", "decide", "find", "create", "writeTuple"} => target[c] = None
        /\ pc[c] \in {"snapshot", "apply", "delete"} => target[c] # None
        /\ pc[c] \in {"idle", "decide", "find"} => saw[c] = {}
        /\ replaced[c] # None => pc[c] = "done"
        /\ snap[c] # None => target[c] # None

\* A row is created once: whoever is named as a row, in the table, in the
\* history, as a target or as seen, is past its creation.
RowsWereCreated ==
    /\ \A i \in Calls : perms[i] # None => Past(i)
    /\ \A h \in hist : Past(h.id)
    /\ \A c \in Calls : target[c] # None => Past(target[c])
    /\ \A c \in Calls : \A a \in saw[c] : Past(a)

\* The row a call read is still there, or was revoked.
TargetsAreRowsOrRevoked ==
    \A c \in Calls : target[c] # None =>
        target[c] \in Rows \/ \E h \in hist : h.id = target[c] /\ h.why = "revoked"

\* Who creates a row saw only rows that did not count, and still do not.
SawNoneActive ==
    \A b \in Calls : (pc[b] = "create" \/ perms[b] # None) =>
        \A a \in saw[b] : perms[a] = None \/ perms[a].ver # a \/ perms[a].until \in lapsed

\* Who can still decide had read the request before it was decided.
LateDecidersAreEarly == status # "pending" => \A c \in Calls : pc[c] = "decide" => c \in early

GrantsInv ==
    /\ TypeOK /\ RevokedStaysRevoked /\ VersionLostOnlyToOverlap
    /\ GrantLostOnlyToRevoke /\ CreatedGrantIsUsable /\ CallsKeepTheirPath /\ RowsWereCreated /\ TargetsAreRowsOrRevoked
    /\ SawNoneActive /\ LateDecidersAreEarly

\* The kinds of calls.
LEMMA CallKinds ==
    /\ Deciders \subseteq Calls /\ Granting \subseteq Calls /\ Approvers \subseteq Deciders
    /\ Rejecters \subseteq Deciders /\ Revokers \subseteq Calls /\ Editors \subseteq Calls /\ Granters \subseteq Granting
    /\ Approvers \subseteq Granting
    /\ Rejecters \cap Granting = {} /\ Revokers \cap Granting = {} /\ None \notin Calls
  BY CallsAssumption DEF Calls, Deciders, Granting

\* A version as it is stored.
LEMMA StoredRow ==
    ASSUME NEW v \in Calls, NEW u \in Calls \cup {None}
    PROVE  /\ [ver |-> v, until |-> u] \in Row /\ [ver |-> v, until |-> u] # None
           /\ [ver |-> v, until |-> u].ver = v /\ [ver |-> v, until |-> u].until = u
  BY RowAssumption DEF Row

\* Every step keeps the invariant.
LEMMA GrantStep ==
    ASSUME GrantsInv
    PROVE  [Next]_vars => GrantsInv'
<1> USE CallKinds DEF GrantsInv, store, local, memory, Goto
<1>1. ASSUME NEW c \in Calls, ReadToApprove(c)
      PROVE  GrantsInv'
  BY <1>1 DEF ReadToApprove, TypeOK, CallsKeepTheirPath, RowsWereCreated, TargetsAreRowsOrRevoked,
     RevokedStaysRevoked, VersionLostOnlyToOverlap, GrantLostOnlyToRevoke, CreatedGrantIsUsable, SawNoneActive, LateDecidersAreEarly, Past, Rows, StillPending
<1>2. ASSUME NEW c \in Calls, ReadToReject(c)
      PROVE  GrantsInv'
  BY <1>2 DEF ReadToReject, TypeOK, CallsKeepTheirPath, RowsWereCreated, TargetsAreRowsOrRevoked,
     RevokedStaysRevoked, VersionLostOnlyToOverlap, GrantLostOnlyToRevoke, CreatedGrantIsUsable, SawNoneActive, LateDecidersAreEarly, Past, Rows, StillPending
<1>3. ASSUME NEW c \in Calls, Approve(c)
      PROVE  GrantsInv'
  BY <1>3 DEF Approve, TypeOK, CallsKeepTheirPath, RowsWereCreated, TargetsAreRowsOrRevoked,
     RevokedStaysRevoked, VersionLostOnlyToOverlap, GrantLostOnlyToRevoke, CreatedGrantIsUsable, SawNoneActive, LateDecidersAreEarly, Past, Rows, Decide, Deciding
<1>4. ASSUME NEW c \in Calls, Reject(c)
      PROVE  GrantsInv'
  BY <1>4 DEF Reject, TypeOK, CallsKeepTheirPath, RowsWereCreated, TargetsAreRowsOrRevoked,
     RevokedStaysRevoked, VersionLostOnlyToOverlap, GrantLostOnlyToRevoke, CreatedGrantIsUsable, SawNoneActive, LateDecidersAreEarly, Past, Rows, Decide, Deciding
<1>5. ASSUME NEW c \in Calls, BeginGrant(c)
      PROVE  GrantsInv'
  BY <1>5 DEF BeginGrant, TypeOK, CallsKeepTheirPath, RowsWereCreated, TargetsAreRowsOrRevoked,
     RevokedStaysRevoked, VersionLostOnlyToOverlap, GrantLostOnlyToRevoke, CreatedGrantIsUsable, SawNoneActive, LateDecidersAreEarly, Past, Rows
<1>6. ASSUME NEW c \in Calls, FindActive(c)
      PROVE  GrantsInv'
  <2> USE <1>6 DEF FindActive
  <2>1. TypeOK'
    BY DEF TypeOK, CallsKeepTheirPath, FindActivePermission, Active, Rows
  <2>2. CallsKeepTheirPath'
    BY DEF CallsKeepTheirPath, TypeOK, FindActivePermission, Active, Rows
  <2>3. RowsWereCreated'
    <3>0. \A i \in Calls : Past(i) => Past(i)'
      BY DEF Past, TypeOK
    <3>1. \A i \in Rows : i \in Calls /\ Past(i)'
      BY <3>0 DEF RowsWereCreated, Rows
    <3>2. \A d \in Calls : \A a \in saw'[d] : Past(a)'
      BY <3>0, <3>1 DEF RowsWereCreated, TypeOK
    <3>3. \A d \in Calls : (target[d] # None => Past(target[d]))'
      <4>1. CASE target' = target
        BY <3>0, <4>1 DEF RowsWereCreated, TypeOK
      <4>2. CASE \E i \in Rows : target' = [target EXCEPT ![c] = i]
        BY <3>0, <3>1, <4>2 DEF RowsWereCreated, TypeOK
      <4>3. QED
        BY <4>1, <4>2 DEF FindActivePermission, Active
    <3>4. (\A i \in Calls : perms'[i] # None => Past(i)') /\ \A h \in hist' : Past(h.id)'
      BY <3>0 DEF RowsWereCreated, TypeOK, Ended
    <3>5. QED
      BY <3>2, <3>3, <3>4 DEF RowsWereCreated
  <2>4. TargetsAreRowsOrRevoked'
    BY DEF TargetsAreRowsOrRevoked, TypeOK, CallsKeepTheirPath, RowsWereCreated, Rows, Past,
       FindActivePermission, Active
  <2>5. RevokedStaysRevoked'
    BY DEF RevokedStaysRevoked, TypeOK, CallsKeepTheirPath, RowsWereCreated, Past,
       FindActivePermission, Active, Rows
  <2>6. VersionLostOnlyToOverlap'
    BY DEF VersionLostOnlyToOverlap, TypeOK, CallsKeepTheirPath, Rows, FindActivePermission, Active
  <2>7. GrantLostOnlyToRevoke'
    BY DEF GrantLostOnlyToRevoke, TypeOK, CallsKeepTheirPath, TargetsAreRowsOrRevoked, Rows,
       FindActivePermission, Active
  <2>8. CreatedGrantIsUsable'
    BY DEF CreatedGrantIsUsable, TypeOK, CallsKeepTheirPath, RowsWereCreated, Rows, Past,
       FindActivePermission, Active
  <2>9. SawNoneActive'
    BY DEF SawNoneActive, TypeOK, CallsKeepTheirPath, RowsWereCreated, Past, FindActivePermission,
       Active, Rows
  <2>10. LateDecidersAreEarly'
    BY DEF LateDecidersAreEarly, TypeOK, CallsKeepTheirPath, FindActivePermission, Active, Rows
  <2>11. QED
    BY <2>1, <2>2, <2>3, <2>4, <2>5, <2>6, <2>7, <2>8, <2>9, <2>10
<1>7. ASSUME NEW c \in Calls, FindFails(c)
      PROVE  GrantsInv'
  BY <1>7 DEF FindFails, TypeOK, CallsKeepTheirPath, RowsWereCreated, TargetsAreRowsOrRevoked,
     RevokedStaysRevoked, VersionLostOnlyToOverlap, GrantLostOnlyToRevoke, CreatedGrantIsUsable, SawNoneActive, LateDecidersAreEarly, Past, Rows
<1>8. ASSUME NEW c \in Calls, CreatePermission(c)
      PROVE  GrantsInv'
  BY <1>8, StoredRow DEF CreatePermission, TypeOK, CallsKeepTheirPath, RowsWereCreated,
     TargetsAreRowsOrRevoked, RevokedStaysRevoked, VersionLostOnlyToOverlap, GrantLostOnlyToRevoke, CreatedGrantIsUsable, SawNoneActive, LateDecidersAreEarly, Past, Rows
<1>9. ASSUME NEW c \in Calls, WriteGrant(c)
      PROVE  GrantsInv'
  BY <1>9 DEF WriteGrant, TypeOK, CallsKeepTheirPath, RowsWereCreated, TargetsAreRowsOrRevoked,
     RevokedStaysRevoked, VersionLostOnlyToOverlap, GrantLostOnlyToRevoke, CreatedGrantIsUsable, SawNoneActive, LateDecidersAreEarly, Past, Rows
<1>10. ASSUME NEW c \in Calls, ReadToEdit(c)
      PROVE  GrantsInv'
  <2> USE <1>10 DEF ReadToEdit
  <2>1. TypeOK'
    BY DEF TypeOK, CallsKeepTheirPath, Rows, Row
  <2>2. CallsKeepTheirPath'
    BY DEF CallsKeepTheirPath, TypeOK, Rows, Row
  <2>3. RowsWereCreated'
    BY DEF RowsWereCreated, TypeOK, CallsKeepTheirPath, Past, Rows, Row
  <2>4. TargetsAreRowsOrRevoked'
    BY DEF TargetsAreRowsOrRevoked, TypeOK, CallsKeepTheirPath, RowsWereCreated, Rows, Past, Row
  <2>5. RevokedStaysRevoked'
    BY DEF RevokedStaysRevoked, TypeOK, CallsKeepTheirPath, RowsWereCreated, Past, Rows, Row
  <2>6. VersionLostOnlyToOverlap'
    BY DEF VersionLostOnlyToOverlap, TypeOK, CallsKeepTheirPath, Rows, Row
  <2>7. GrantLostOnlyToRevoke'
    BY DEF GrantLostOnlyToRevoke, TypeOK, CallsKeepTheirPath, TargetsAreRowsOrRevoked, Rows, Row
  <2>8. CreatedGrantIsUsable'
    BY DEF CreatedGrantIsUsable, TypeOK, CallsKeepTheirPath, RowsWereCreated, Rows, Past, Row
  <2>9. SawNoneActive'
    BY DEF SawNoneActive, TypeOK, CallsKeepTheirPath, RowsWereCreated, Past, Rows, Row
  <2>10. LateDecidersAreEarly'
    BY DEF LateDecidersAreEarly, TypeOK, CallsKeepTheirPath, Rows, Row
  <2>11. QED
    BY <2>1, <2>2, <2>3, <2>4, <2>5, <2>6, <2>7, <2>8, <2>9, <2>10
<1>11. ASSUME NEW c \in Calls, Snapshot(c)
      PROVE  GrantsInv'
  BY <1>11 DEF Snapshot, TypeOK, CallsKeepTheirPath, RowsWereCreated, TargetsAreRowsOrRevoked,
     RevokedStaysRevoked, VersionLostOnlyToOverlap, GrantLostOnlyToRevoke, CreatedGrantIsUsable, SawNoneActive, LateDecidersAreEarly, Past, Rows, Row
<1>12. ASSUME NEW c \in Calls, Apply(c)
      PROVE  GrantsInv'
  <2> USE <1>12 DEF Apply
  <2>1. TypeOK'
    <3>1. target[c] \in Calls /\ snap[c] \in Calls \cup {None} /\ until[c] \in Calls \cup {None}
      BY DEF TypeOK, CallsKeepTheirPath
    <3>2. hist' \subseteq Ended
      BY <3>1 DEF TypeOK, Archive, Ended
    <3>3. perms' \in [Calls -> Row \cup {None}] /\ written' \subseteq Calls
      BY <3>1, StoredRow DEF TypeOK, Overwrites
    <3>4. target[c] \in Rows => perms[target[c]].ver \in Calls
      BY <3>1 DEF TypeOK, Rows, Row
    <3>5. replaced' \in [Calls -> Calls \cup {None}]
      BY <3>4 DEF TypeOK, Overwrites
    <3>6. QED
      BY <3>2, <3>3, <3>5 DEF TypeOK
  <2>2. CallsKeepTheirPath'
    BY StoredRow DEF CallsKeepTheirPath, TypeOK, Overwrites, Archive, Rows, Row, Ended
  <2>3. RowsWereCreated'
    BY StoredRow DEF RowsWereCreated, TypeOK, CallsKeepTheirPath, Past, Overwrites, Archive, Rows,
       Row, Ended
  <2>4. TargetsAreRowsOrRevoked'
    BY StoredRow DEF TargetsAreRowsOrRevoked, TypeOK, CallsKeepTheirPath, RowsWereCreated, Rows,
       Past, Overwrites, Archive, Row, Ended
  <2>5. RevokedStaysRevoked'
    BY StoredRow DEF RevokedStaysRevoked, TypeOK, CallsKeepTheirPath, RowsWereCreated, Past,
       Overwrites, Archive, Rows, Row, Ended
  <2>6. VersionLostOnlyToOverlap'
    <3>0. target[c] \in Calls
      BY DEF TypeOK, CallsKeepTheirPath
    <3>1. CASE target[c] \in Rows
      <4> DEFINE old == perms[target[c]].ver
      <4>1. /\ perms' = [perms EXCEPT ![target[c]] = [ver |-> c, until |-> until[c]]]
            /\ written' = written \cup {c} /\ replaced' = [replaced EXCEPT ![c] = old] /\ snap' = snap
        BY <3>1 DEF Overwrites
      <4>2. target[c] \in Rows' /\ perms'[target[c]].ver = c
        BY <3>0, <4>1, StoredRow DEF Rows, TypeOK
      <4>3. snap[c] = old => \E h \in hist' : h.ver = old
        <5>1. old \in Calls
          BY <3>0, <3>1 DEF TypeOK, Row, Rows
        <5>2. snap[c] = old => [id |-> target[c], ver |-> old, why |-> "updated"] \in hist'
          BY <5>1 DEF Archive
        <5>3. QED
          BY <5>2
      <4>4. snap[c] # old => replaced'[c] = old /\ snap'[c] # old
        BY <4>1 DEF TypeOK
      <4>5. \A i \in Rows : i # target[c] => i \in Rows' /\ perms'[i] = perms[i]
        BY <4>1 DEF Rows, TypeOK
      <4>6. \A d \in Calls : replaced[d] # None => replaced'[d] = replaced[d]
        BY <4>1 DEF TypeOK, CallsKeepTheirPath
      <4>7. ASSUME NEW v \in written
            PROVE  \/ \E i \in Rows' : perms'[i].ver = v
                   \/ \E h \in hist' : h.ver = v
                   \/ \E d \in Calls : replaced'[d] = v /\ snap'[d] # v
        <5>1. CASE \E i \in Rows : perms[i].ver = v
          BY <4>3, <4>4, <4>5, <5>1
        <5>2. CASE \E h \in hist : h.ver = v
          BY <5>2
        <5>3. CASE \E d \in Calls : replaced[d] = v /\ snap[d] # v
          BY <4>1, <4>6, <5>3 DEF TypeOK
        <5>4. QED
          BY <5>1, <5>2, <5>3 DEF VersionLostOnlyToOverlap
      <4>8. QED
        BY <4>1, <4>2, <4>7 DEF VersionLostOnlyToOverlap
    <3>2. CASE target[c] \notin Rows
      BY <3>2 DEF Overwrites, VersionLostOnlyToOverlap, Rows
    <3>3. QED
      BY <3>1, <3>2
  <2>7. GrantLostOnlyToRevoke'
    BY StoredRow DEF GrantLostOnlyToRevoke, TypeOK, CallsKeepTheirPath, TargetsAreRowsOrRevoked,
       Rows, Overwrites, Archive, Row, Ended
  <2>8. CreatedGrantIsUsable'
    BY StoredRow DEF CreatedGrantIsUsable, TypeOK, CallsKeepTheirPath, RowsWereCreated, Rows, Past,
       Overwrites, Archive, Row, Ended
  <2>9. SawNoneActive'
    BY StoredRow DEF SawNoneActive, TypeOK, CallsKeepTheirPath, RowsWereCreated, Past, Overwrites,
       Archive, Rows, Row, Ended
  <2>10. LateDecidersAreEarly'
    BY StoredRow DEF LateDecidersAreEarly, TypeOK, CallsKeepTheirPath, Overwrites, Archive, Rows,
       Row, Ended
  <2>11. QED
    BY <2>1, <2>2, <2>3, <2>4, <2>5, <2>6, <2>7, <2>8, <2>9, <2>10
<1>13. ASSUME NEW c \in Calls, ReadToRevoke(c)
      PROVE  GrantsInv'
  BY <1>13 DEF ReadToRevoke, TypeOK, CallsKeepTheirPath, RowsWereCreated, TargetsAreRowsOrRevoked,
     RevokedStaysRevoked, VersionLostOnlyToOverlap, GrantLostOnlyToRevoke, CreatedGrantIsUsable, SawNoneActive, LateDecidersAreEarly, Past, Rows
<1>14. ASSUME NEW c \in Calls, DeletePermission(c)
      PROVE  GrantsInv'
  <2> USE <1>14 DEF DeletePermission
  <2>1. TypeOK'
    BY DEF TypeOK, CallsKeepTheirPath, Rows, Row, Ended
  <2>2. CallsKeepTheirPath'
    BY DEF CallsKeepTheirPath, TypeOK, Rows, Row, Ended
  <2>3. RowsWereCreated'
    BY DEF RowsWereCreated, TypeOK, CallsKeepTheirPath, Past, Rows, Row, Ended
  <2>4. TargetsAreRowsOrRevoked'
    <3>1. CASE target[c] \in Rows
      <4>1. [id |-> target[c], ver |-> perms[target[c]].ver, why |-> "revoked"] \in hist'
        BY <3>1
      <4>2. \E h \in hist' : h.id = target[c] /\ h.why = "revoked"
        BY <4>1
      <4>3. \A i \in Rows : i # target[c] => i \in Rows'
        BY <3>1 DEF Rows, TypeOK
      <4>4. hist \subseteq hist'
        BY <3>1
      <4>5. QED
        BY <4>2, <4>3, <4>4 DEF TargetsAreRowsOrRevoked, TypeOK
    <3>2. CASE target[c] \notin Rows
      BY <3>2 DEF TargetsAreRowsOrRevoked, Rows
    <3>3. QED
      BY <3>1, <3>2
  <2>5. RevokedStaysRevoked'
    BY DEF RevokedStaysRevoked, TypeOK, CallsKeepTheirPath, RowsWereCreated, Past, Rows, Row, Ended
  <2>6. VersionLostOnlyToOverlap'
    <3>1. CASE target[c] \in Rows
      <4>1. [id |-> target[c], ver |-> perms[target[c]].ver, why |-> "revoked"] \in hist'
        BY <3>1
      <4>2. \E h \in hist' : h.ver = perms[target[c]].ver
        BY <4>1
      <4>3. \A i \in Rows : i # target[c] => i \in Rows' /\ perms'[i] = perms[i]
        BY <3>1 DEF Rows, TypeOK
      <4>4. hist \subseteq hist' /\ UNCHANGED <<written, replaced, snap>>
        BY <3>1
      <4>5. QED
        BY <4>2, <4>3, <4>4 DEF VersionLostOnlyToOverlap
    <3>2. CASE target[c] \notin Rows
      BY <3>2 DEF VersionLostOnlyToOverlap, Rows
    <3>3. QED
      BY <3>1, <3>2
  <2>7. GrantLostOnlyToRevoke'
    BY DEF GrantLostOnlyToRevoke, TypeOK, CallsKeepTheirPath, TargetsAreRowsOrRevoked, Rows, Row,
       Ended
  <2>8. CreatedGrantIsUsable'
    BY DEF CreatedGrantIsUsable, TypeOK, CallsKeepTheirPath, RowsWereCreated, Rows, Past, Row, Ended
  <2>9. SawNoneActive'
    BY DEF SawNoneActive, TypeOK, CallsKeepTheirPath, RowsWereCreated, Past, Rows, Row, Ended
  <2>10. LateDecidersAreEarly'
    BY DEF LateDecidersAreEarly, TypeOK, CallsKeepTheirPath, Rows, Row, Ended
  <2>11. QED
    BY <2>1, <2>2, <2>3, <2>4, <2>5, <2>6, <2>7, <2>8, <2>9, <2>10
<1>15. ASSUME NEW c \in Calls, DeleteGrant(c)
      PROVE  GrantsInv'
  <2> USE <1>15 DEF DeleteGrant, TupleDeleted
  <2>1. TypeOK'
    BY DEF TypeOK, CallsKeepTheirPath
  <2>2. CallsKeepTheirPath'
    BY DEF CallsKeepTheirPath, TypeOK
  <2>3. RowsWereCreated'
    BY DEF RowsWereCreated, TypeOK, CallsKeepTheirPath, Past
  <2>4. TargetsAreRowsOrRevoked'
    BY DEF TargetsAreRowsOrRevoked, TypeOK, CallsKeepTheirPath, RowsWereCreated, Rows, Past
  <2>5. RevokedStaysRevoked'
    BY DEF RevokedStaysRevoked, TypeOK, CallsKeepTheirPath, RowsWereCreated, Past
  <2>6. VersionLostOnlyToOverlap'
    BY DEF VersionLostOnlyToOverlap, TypeOK, CallsKeepTheirPath, Rows
  <2>7. GrantLostOnlyToRevoke'
    BY DEF GrantLostOnlyToRevoke, TypeOK, CallsKeepTheirPath, TargetsAreRowsOrRevoked, Rows
  <2>8. CreatedGrantIsUsable'
    BY DEF CreatedGrantIsUsable, TypeOK, CallsKeepTheirPath, RowsWereCreated, Rows, Past
  <2>9. SawNoneActive'
    BY DEF SawNoneActive, TypeOK, CallsKeepTheirPath, RowsWereCreated, Past
  <2>10. LateDecidersAreEarly'
    BY DEF LateDecidersAreEarly, TypeOK, CallsKeepTheirPath
  <2>11. QED
    BY <2>1, <2>2, <2>3, <2>4, <2>5, <2>6, <2>7, <2>8, <2>9, <2>10
<1>16. ASSUME NEW c \in Calls, Fails(c)
      PROVE  GrantsInv'
  BY <1>16 DEF Fails, TypeOK, CallsKeepTheirPath, RowsWereCreated, TargetsAreRowsOrRevoked,
     RevokedStaysRevoked, VersionLostOnlyToOverlap, GrantLostOnlyToRevoke, CreatedGrantIsUsable, SawNoneActive, LateDecidersAreEarly, Past, Rows
<1>17. ASSUME ExpireStale
      PROVE  GrantsInv'
  BY <1>17 DEF ExpireStale, TypeOK, CallsKeepTheirPath, RowsWereCreated, TargetsAreRowsOrRevoked,
     RevokedStaysRevoked, VersionLostOnlyToOverlap, GrantLostOnlyToRevoke, CreatedGrantIsUsable, SawNoneActive, LateDecidersAreEarly, Past, Rows, Deciding
<1>18. ASSUME Lapse
      PROVE  GrantsInv'
  BY <1>18 DEF Lapse, TypeOK, CallsKeepTheirPath, RowsWereCreated, TargetsAreRowsOrRevoked,
     RevokedStaysRevoked, VersionLostOnlyToOverlap, GrantLostOnlyToRevoke, CreatedGrantIsUsable, SawNoneActive, LateDecidersAreEarly, Past, Rows, Active, Row
<1>19. ASSUME OtherTypeGranted
      PROVE  GrantsInv'
  BY <1>19 DEF OtherTypeGranted, TypeOK, CallsKeepTheirPath, RowsWereCreated, TargetsAreRowsOrRevoked,
     RevokedStaysRevoked, VersionLostOnlyToOverlap, GrantLostOnlyToRevoke, CreatedGrantIsUsable, SawNoneActive, LateDecidersAreEarly, Past, Rows
<1>20. ASSUME OtherTypeRevoked
      PROVE  GrantsInv'
  <2> USE <1>20 DEF OtherTypeRevoked, TupleDeleted
  <2>1. TypeOK' /\ CallsKeepTheirPath' /\ LateDecidersAreEarly' /\ UNCHANGED <<pc, perms, hist, target, saw>>
    BY DEF TypeOK, CallsKeepTheirPath, LateDecidersAreEarly
  <2>2. RowsWereCreated' /\ TargetsAreRowsOrRevoked' /\ RevokedStaysRevoked' /\ SawNoneActive'
    BY <2>1 DEF RowsWereCreated, TargetsAreRowsOrRevoked, RevokedStaysRevoked, SawNoneActive, Past, Rows
  <2>3. VersionLostOnlyToOverlap' /\ GrantLostOnlyToRevoke'
    BY DEF VersionLostOnlyToOverlap, GrantLostOnlyToRevoke, Rows
  <2>4. CreatedGrantIsUsable'
    BY <2>1 DEF CreatedGrantIsUsable, RowsWereCreated, Past, Rows
  <2>5. QED
    BY <2>1, <2>2, <2>3, <2>4
<1>21. UNCHANGED vars => GrantsInv'
  BY DEF vars, TypeOK, CallsKeepTheirPath, RowsWereCreated, TargetsAreRowsOrRevoked,
     RevokedStaysRevoked, VersionLostOnlyToOverlap, GrantLostOnlyToRevoke, CreatedGrantIsUsable, SawNoneActive, LateDecidersAreEarly, Past, Rows
<1>22. QED
  BY <1>1, <1>2, <1>3, <1>4, <1>5, <1>6, <1>7, <1>8, <1>9, <1>10, <1>11, <1>12, <1>13, <1>14,
     <1>15, <1>16, <1>17, <1>18, <1>19, <1>20, <1>21 DEF Next

\* DuplicatesWereBlind follows: who created a row saw none that counts now.
LEMMA GrantsInvGives == GrantsInv => GrantsAreKept
  BY DEF GrantsInv, GrantsAreKept, DuplicatesWereBlind, SawNoneActive, Active, Rows, TypeOK

\* The invariant holds of every behaviour of the calls.
THEOREM GrantsInvariant == Spec => []GrantsInv
<1>1. Init => GrantsInv
  <2> SUFFICES ASSUME Init PROVE GrantsInv
    OBVIOUS
  <2> USE CallKinds DEF Init
  <2>1. TypeOK
    BY DEF TypeOK
  <2>2. RevokedStaysRevoked /\ VersionLostOnlyToOverlap /\ GrantLostOnlyToRevoke /\ CreatedGrantIsUsable
    BY DEF RevokedStaysRevoked, VersionLostOnlyToOverlap, GrantLostOnlyToRevoke,
       CreatedGrantIsUsable, Rows
  <2>3. CallsKeepTheirPath /\ RowsWereCreated
    BY DEF CallsKeepTheirPath, RowsWereCreated
  <2>4. TargetsAreRowsOrRevoked /\ SawNoneActive /\ LateDecidersAreEarly
    BY DEF TargetsAreRowsOrRevoked, SawNoneActive, LateDecidersAreEarly
  <2>5. QED
    BY <2>1, <2>2, <2>3, <2>4 DEF GrantsInv
<1>2. QED
  BY <1>1, GrantStep, PTL DEF Spec

\* GrantsAreKept: for any number of overlapping approvals, grants, edits and
\* revocations (auth.go:96-270, postgres.go).
THEOREM GrantsStayKept == Spec => []GrantsAreKept
  BY GrantsInvariant, GrantsInvGives, PTL

\* DecisionStands: whoever changes a decision had read the request before it
\* was decided (auth.go:278-349).
THEOREM DecisionsStand == Spec => DecisionStands
<1>1. GrantsInv /\ [Next]_vars => [(status # "pending" /\ status' # status) => \E c \in early : pc[c] = "decide"]_vars
  BY DEF GrantsInv, LateDecidersAreEarly, Next, vars, store, local, memory, ReadToApprove,
     ReadToReject, Approve, Reject,
     Decide, BeginGrant, FindActive, FindFails, CreatePermission, WriteGrant, ReadToEdit, Snapshot, Apply,
     ReadToRevoke, DeletePermission, DeleteGrant, TupleDeleted, OtherTypeGranted, OtherTypeRevoked, Fails,
     ExpireStale, Lapse
<1>2. QED
  BY <1>1, GrantsInvariant, PTL DEF Spec, DecisionStands

(**** Routing by the risk policy ****)

\* Only policies that pass Validate are stored and judge.
PoliciesAreValid ==
    (policy # NoPolicy => Validate(policy)) /\ (judged # NoPolicy => Validate(judged))

\* Nobody reviews a request that is not stored, and it is stored after it was
\* judged.
StoredAfterJudged ==
    /\ reading \in {"idle", "evaluate", "create"} => req.status = "none"
    /\ req.status = "none" => req.by = "nobody" /\ \A r \in Reviewers : review[r] = "idle"

\* A request is approved by the policy alone because the policy it was judged by
\* says so.
DecisionIsJudged ==
    /\ req.decision = "auto_approve" =>
          judged # NoPolicy /\ autoApproves(judged.auto, req) /\ ~escalates(judged.escalate, req)
    /\ req.by = "policy" \/ reading = "approve" => req.decision = "auto_approve"

\* Who is about to approve may, or did not see what the policy said.
DecidersMay ==
    \A r \in Reviewers : review[r] \in {"decide", "approve"} => r \in blind \/ mayApprove(r)

RoutingInv ==
    /\ RoutingTypeOK /\ EscalatedNeedsAdmin
    /\ PoliciesAreValid /\ StoredAfterJudged /\ DecisionIsJudged /\ DecidersMay

\* The policy looks at the signals of a request, which are collected once.
SameSignals(x, y) ==
    /\ x.sensitivity = y.sensitivity /\ x.mfa = y.mfa /\ x.hour = y.hour
    /\ x.inside = y.inside /\ x.listed = y.listed /\ x.duration = y.duration

\* Two requests with the same signals are judged alike.
LEMMA JudgedBySignals ==
    ASSUME NEW x, NEW y, NEW a, NEW e, SameSignals(x, y)
    PROVE  (escalates(e, x) <=> escalates(e, y)) /\ (autoApproves(a, x) <=> autoApproves(a, y))
<1>1. escalates(e, x) <=> escalates(e, y)
  BY DEF SameSignals, escalates
<1>2. autoApproves(a, x) <=> autoApproves(a, y)
  BY DEF SameSignals, autoApproves
<1>3. QED
  BY <1>1, <1>2

\* A decision is written by someone: the reviewer of a call about to write, or
\* the policy.
WrittenAs(decision, by) ==
    /\ req' = [req EXCEPT !.status = decision, !.by = by]
    /\ review' \in [Reviewers -> {"idle", "decide", "approve", "reject", "refused", "done"}]
    /\ \A r \in Reviewers : review'[r] \in {"decide", "approve"} => review[r] = review'[r]
    /\ reading' \in {reading, "done"}
    /\ UNCHANGED <<policy, tags, mfaOn, edits, judged, blind>>

\* It keeps the invariant, when who approves may.
LEMMA DecisionWritten ==
    ASSUME RoutingInv, NEW decision \in {"approved", "rejected"}, NEW by \in Reviewers \cup {"policy"},
           WrittenAs(decision, by), by = "policy" => req.decision = "auto_approve" /\ reading' = "done",
           decision = "approved" /\ req.decision = "escalate" => by = Admin \/ by \in blind,
           reading \notin {"idle", "evaluate", "create"}
    PROVE  RoutingInv'
<1> USE RoutingAssumption DEF RoutingInv
<1>1. /\ req' \in Requests /\ SameSignals(req, req') /\ req'.decision = req.decision
      /\ req'.status = decision /\ req'.by = by
  BY DEF WrittenAs, SameSignals, RoutingTypeOK, Requests
<1>2. RoutingTypeOK'
  BY <1>1 DEF RoutingTypeOK, WrittenAs
<1>3. EscalatedNeedsAdmin'
  BY <1>1 DEF EscalatedNeedsAdmin, WrittenAs
<1>4. PoliciesAreValid' /\ StoredAfterJudged'
  BY <1>1 DEF PoliciesAreValid, StoredAfterJudged, WrittenAs, RoutingTypeOK
<1>5. DecisionIsJudged'
  BY <1>1, JudgedBySignals DEF DecisionIsJudged, WrittenAs
<1>6. DecidersMay'
  BY <1>1 DEF DecidersMay, WrittenAs, mayApprove
<1>7. QED
  BY <1>2, <1>3, <1>4, <1>5, <1>6

\* Every step keeps the invariant.
LEMMA RoutingStep ==
    ASSUME RoutingInv
    PROVE  [RoutingNext]_routingVars => RoutingInv'
<1> USE RoutingAssumption DEF RoutingInv
<1>1. ASSUME putRiskPolicy
      PROVE  RoutingInv'
  BY <1>1 DEF putRiskPolicy, RoutingTypeOK, EscalatedNeedsAdmin, PoliciesAreValid,
     StoredAfterJudged, DecisionIsJudged, DecidersMay, Requests, mayApprove, Unjudged
<1>2. ASSUME retag
      PROVE  RoutingInv'
  BY <1>2 DEF retag, RoutingTypeOK, EscalatedNeedsAdmin, PoliciesAreValid, StoredAfterJudged,
     DecisionIsJudged, DecidersMay, Requests, mayApprove, Unjudged
<1>3. ASSUME collectRiskSignals
      PROVE  RoutingInv'
  <2> USE <1>3 DEF collectRiskSignals
  <2>1. RoutingTypeOK'
    <3>1. PICK a \in Asks, u \in BOOLEAN, m \in BOOLEAN :
            req' = [NoReq EXCEPT !.duration = a.duration, !.hour = a.hour, !.inside = a.inside, !.listed = a.listed,
                      !.mfa = u /\ mfaOn, !.sensitivity = IF m THEN MachineSensitivity(tags) ELSE "unset"]
      OBVIOUS
    <3>2. MachineSensitivity(tags) \in Levels \cup {"unset"} /\ (u /\ mfaOn) \in BOOLEAN
      BY DEF MachineSensitivity, Levels
    <3>3. a.duration \in Nat /\ a.hour \in Hours /\ a.inside \in BOOLEAN /\ a.listed \in BOOLEAN
      OBVIOUS
    <3>4. req' \in Requests
      BY <3>1, <3>2, <3>3 DEF NoReq, Requests
    <3>5. QED
      BY <3>4 DEF RoutingTypeOK
  <2>2. EscalatedNeedsAdmin'
    BY DEF EscalatedNeedsAdmin, RoutingTypeOK, DecidersMay, StoredAfterJudged, Requests,
       mayApprove, NoReq
  <2>3. PoliciesAreValid'
    BY DEF PoliciesAreValid, RoutingTypeOK, Requests, NoReq
  <2>4. StoredAfterJudged'
    BY DEF StoredAfterJudged, RoutingTypeOK, Requests, NoReq
  <2>5. DecisionIsJudged'
    BY DEF DecisionIsJudged, RoutingTypeOK, StoredAfterJudged, Requests, NoReq
  <2>6. DecidersMay'
    BY DEF DecidersMay, RoutingTypeOK, StoredAfterJudged, mayApprove, Requests, NoReq
  <2>7. QED
    BY <2>1, <2>2, <2>3, <2>4, <2>5, <2>6
<1>4. ASSUME evaluateRisk
      PROVE  RoutingInv'
  <2> USE <1>4 DEF evaluateRisk
  <2>1. RoutingTypeOK'
    BY DEF RoutingTypeOK, Requests, EvaluateRisk
  <2>2. EscalatedNeedsAdmin'
    BY DEF EscalatedNeedsAdmin, RoutingTypeOK, DecidersMay, StoredAfterJudged, Requests,
       mayApprove, EvaluateRisk
  <2>3. PoliciesAreValid'
    BY DEF PoliciesAreValid, RoutingTypeOK, Requests, EvaluateRisk
  <2>4. StoredAfterJudged'
    BY DEF StoredAfterJudged, RoutingTypeOK, Requests, EvaluateRisk
  <2>5. DecisionIsJudged'
    <3>1. PICK p \in {policy,
       NoPolicy} : judged' = p /\ req' = [req EXCEPT !.decision = EvaluateRisk(p, req)]
      OBVIOUS
    <3>2. EvaluateRisk(p, req) \in {"manual", "escalate", "auto_approve"}
      BY DEF EvaluateRisk
    <3>3. SameSignals(req, req') /\ req'.decision = EvaluateRisk(p, req) /\ req'.by = req.by
      BY <3>1, <3>2 DEF SameSignals, RoutingTypeOK, Requests
    <3>4. req.by # "policy"
      BY DEF StoredAfterJudged
    <3>5. EvaluateRisk(p, req) = "auto_approve" => p # NoPolicy /\ autoApproves(p.auto,
       req) /\ ~escalates(p.escalate, req)
      BY DEF EvaluateRisk
    <3>6. QED
      BY <3>1, <3>3, <3>4, <3>5, JudgedBySignals DEF DecisionIsJudged
  <2>6. DecidersMay'
    BY DEF DecidersMay, RoutingTypeOK, StoredAfterJudged, mayApprove, Requests, EvaluateRisk
  <2>7. QED
    BY <2>1, <2>2, <2>3, <2>4, <2>5, <2>6
<1>5. ASSUME storeRequest
      PROVE  RoutingInv'
  <2> USE <1>5 DEF storeRequest
  <2>1. RoutingTypeOK'
    BY DEF RoutingTypeOK, Requests
  <2>2. EscalatedNeedsAdmin'
    BY DEF EscalatedNeedsAdmin, RoutingTypeOK, DecidersMay, StoredAfterJudged, Requests, mayApprove
  <2>3. PoliciesAreValid'
    BY DEF PoliciesAreValid, RoutingTypeOK, Requests
  <2>4. StoredAfterJudged'
    BY DEF StoredAfterJudged, RoutingTypeOK, Requests
  <2>5. DecisionIsJudged'
    <3>1. SameSignals(req, req') /\ judged' = judged
      BY DEF SameSignals, RoutingTypeOK, Requests
    <3>2. req'.decision = req.decision /\ (req'.by = "policy" => req.by = "policy")
      BY DEF RoutingTypeOK, Requests
    <3>3. QED
      BY <3>1, <3>2, JudgedBySignals DEF DecisionIsJudged
  <2>6. DecidersMay'
    BY DEF DecidersMay, RoutingTypeOK, StoredAfterJudged, mayApprove, Requests
  <2>7. QED
    BY <2>1, <2>2, <2>3, <2>4, <2>5, <2>6
<1>6. ASSUME applyRiskPolicy \/ policyApproves
      PROVE  RoutingInv'
  <2>1. CASE applyRiskPolicy
    BY <2>1 DEF applyRiskPolicy, RoutingTypeOK, EscalatedNeedsAdmin, PoliciesAreValid,
       StoredAfterJudged, DecisionIsJudged, DecidersMay, mayApprove
  <2>2. CASE policyApproves /\ UNCHANGED req
    BY <2>2 DEF policyApproves, RoutingTypeOK, EscalatedNeedsAdmin, PoliciesAreValid,
       StoredAfterJudged, DecisionIsJudged, DecidersMay, mayApprove
  <2>3. CASE policyApproves /\ req' = [req EXCEPT !.status = "approved", !.by = "policy"]
    <3>1. req.decision = "auto_approve" /\ reading = "approve" /\ reading' = "done"
      BY <2>3 DEF policyApproves, DecisionIsJudged
    <3>2. WrittenAs("approved", "policy")
      BY <2>3 DEF policyApproves, RoutingTypeOK, WrittenAs
    <3>3. QED
      BY <3>1, <3>2, DecisionWritten DEF EscalatedNeedsAdmin
  <2>4. QED
    BY <1>6, <2>1, <2>2, <2>3 DEF policyApproves
<1>7. ASSUME NEW r \in Reviewers, readForReview(r)
      PROVE  RoutingInv'
  BY <1>7 DEF readForReview, RoutingTypeOK, EscalatedNeedsAdmin, PoliciesAreValid,
     StoredAfterJudged, DecisionIsJudged, DecidersMay, Requests, mayApprove
<1>8. ASSUME NEW r \in Reviewers, approveRequest(r)
      PROVE  RoutingInv'
  <2>1. CASE readPending(r, "decide", "approve")
    BY <2>1 DEF readPending, RoutingTypeOK, EscalatedNeedsAdmin, PoliciesAreValid,
       StoredAfterJudged, DecisionIsJudged, DecidersMay, mayApprove
  <2>2. CASE review[r] = "approve" /\ decideRequestAs(r, "approved") /\ UNCHANGED req
    BY <2>2 DEF decideRequestAs, RoutingTypeOK, EscalatedNeedsAdmin, PoliciesAreValid,
       StoredAfterJudged, DecisionIsJudged, DecidersMay, mayApprove
  <2>3. CASE /\ review[r] = "approve" /\ decideRequestAs(r, "approved")
             /\ req' = [req EXCEPT !.status = "approved", !.by = r]
    <3>1. WrittenAs("approved", r)
      BY <2>3 DEF decideRequestAs, RoutingTypeOK, WrittenAs
    <3>2. reading \notin {"idle", "evaluate", "create"}
      BY <2>3 DEF StoredAfterJudged
    <3>3. r # "policy" /\ (req.decision = "escalate" => r = Admin \/ r \in blind)
      BY <2>3 DEF DecidersMay, mayApprove
    <3>4. QED
      BY <3>1, <3>2, <3>3, DecisionWritten
  <2>4. QED
    BY <1>8, <2>1, <2>2, <2>3 DEF approveRequest, decideRequestAs
<1>9. ASSUME NEW r \in Reviewers, rejectRequest(r)
      PROVE  RoutingInv'
  <2>1. CASE readPending(r, "idle", "reject")
    BY <2>1 DEF readPending, RoutingTypeOK, EscalatedNeedsAdmin, PoliciesAreValid,
       StoredAfterJudged, DecisionIsJudged, DecidersMay, mayApprove
  <2>2. CASE review[r] = "reject" /\ decideRequestAs(r, "rejected") /\ UNCHANGED req
    BY <2>2 DEF decideRequestAs, RoutingTypeOK, EscalatedNeedsAdmin, PoliciesAreValid,
       StoredAfterJudged, DecisionIsJudged, DecidersMay, mayApprove
  <2>3. CASE /\ review[r] = "reject" /\ decideRequestAs(r, "rejected")
             /\ req' = [req EXCEPT !.status = "rejected", !.by = r]
    <3>1. WrittenAs("rejected", r)
      BY <2>3 DEF decideRequestAs, RoutingTypeOK, WrittenAs
    <3>2. reading \notin {"idle", "evaluate", "create"}
      BY <2>3 DEF StoredAfterJudged
    <3>3. r # "policy" /\ ("rejected" # "approved")
      BY <2>3 DEF DecidersMay, mayApprove
    <3>4. QED
      BY <3>1, <3>2, <3>3, DecisionWritten
  <2>4. QED
    BY <1>9, <2>1, <2>2, <2>3 DEF rejectRequest, decideRequestAs
<1>10. UNCHANGED routingVars => RoutingInv'
  BY DEF routingVars, RoutingTypeOK, EscalatedNeedsAdmin, PoliciesAreValid, StoredAfterJudged,
     DecisionIsJudged, DecidersMay, Requests, mayApprove
<1>11. QED
  BY <1>1, <1>2, <1>3, <1>4, <1>5, <1>6, <1>7, <1>8, <1>9, <1>10 DEF RoutingNext

\* UnattendedIsLowRisk follows: a valid policy approves nothing else.
LEMMA RoutingInvGives == RoutingInv => RoutingIsSafe
<1> SUFFICES ASSUME RoutingInv, req.by = "policy" PROVE UnattendedIsLowRisk
  BY DEF RoutingInv, RoutingIsSafe, UnattendedIsLowRisk
<1> USE RoutingAssumption DEF RoutingInv
<1>1. judged # NoPolicy /\ autoApproves(judged.auto, req) /\ ~escalates(judged.escalate,
   req) /\ Validate(judged)
  BY DEF DecisionIsJudged, PoliciesAreValid
<1>2. judged.auto.maxSens \in {"low", "medium"} /\ judged.auto.maxDuration \in 1 .. Cap
  BY <1>1 DEF Validate, autoApproves
<1>3. req.sensitivity \in Levels /\ rank(req.sensitivity) <= rank(judged.auto.maxSens)
  BY <1>1 DEF autoApproves
<1>4. req.sensitivity \in {"low", "medium"}
  BY <1>2, <1>3 DEF rank, Levels
<1>5. req.duration \in Nat
  BY DEF RoutingTypeOK, Requests
<1>6. req.duration \in 1 .. Cap
  BY <1>1, <1>2, <1>5 DEF autoApproves
<1>7. QED
  BY <1>1, <1>4, <1>6 DEF UnattendedIsLowRisk

\* The invariant holds of every behaviour of a request and its policy.
THEOREM RoutingInvariant == RoutingSpec => []RoutingInv
<1>1. RoutingInit => RoutingInv
  <2> SUFFICES ASSUME RoutingInit PROVE RoutingInv
    OBVIOUS
  <2> USE RoutingAssumption DEF RoutingInit
  <2>1. req \in Requests /\ req.status = "none" /\ req.by = "nobody" /\ req.decision = "manual"
    BY DEF NoReq, Requests
  <2>2. tags \in [level : Levels \cup {"none"}, pci : BOOLEAN]
    BY DEF Levels
  <2>3. RoutingTypeOK
    BY <2>1, <2>2 DEF RoutingTypeOK
  <2>4. QED
    BY <2>1, <2>3 DEF RoutingInv, EscalatedNeedsAdmin, PoliciesAreValid, StoredAfterJudged,
       DecisionIsJudged, DecidersMay
<1>2. QED
  BY <1>1, RoutingStep, PTL DEF RoutingSpec

\* RoutingIsSafe: the policy decides alone only what is low risk, and what it
\* escalates is decided by an administrator (risk_policy.go, risk.go, api.go).
THEOREM RoutingStaysSafe == RoutingSpec => []RoutingIsSafe
  BY RoutingInvariant, RoutingInvGives, PTL

(**** The views of access ****)

\* Covering is transitive, and an entry covers itself.
LEMMA CoversTransitive ==
    /\ \A a, b, c : Covers(a, b) /\ Covers(b, c) => Covers(a, c)
    /\ \A a : Covers(a, a)
BY DEF Covers, AccessTypeCovers, SSHTypes

\* An entry says where it is from.
LEMMA EntryFacts ==
    /\ \A rows, st, source : \A e \in EntriesOf(rows, st, source) : e.status = st /\ e.source = source
    /\ \A used : \A e \in SessionEntries(used) : e.status = "requestable"
    /\ \A ms, login : \A e \in Discoveries(ms, login) : e.status = "requestable"
BY DEF EntriesOf, Entries, Entry, SessionEntries, Discoveries

\* What a tier of candidates makes of what was kept before it.
LEMMA AddToFacts ==
    ASSUME NEW keeps, NEW offered, NEW ms, NEW result \in addTo(keeps, offered, ms)
    PROVE  \E kept \in keeps :
             /\ kept \subseteq result
             /\ \A e \in result : e \in kept \/ (e \in offered /\ ~Dropped(kept, e))
             /\ \A e \in offered : e.machine \in ms => e \in result \/ Dropped(result, e)
<1>1. PICK kept \in keeps : result \in add(kept, offered, ms)
  BY DEF addTo
<1>2. PICK S \in SUBSET offered :
        /\ result = kept \cup S
        /\ \A e \in S : e.machine \in ms /\ ~Dropped(kept, e)
        /\ \A e \in offered \ S : e.machine \in ms => Dropped(kept \cup S, e)
  BY <1>1 DEF add
<1>3. QED
  BY <1>2

\* What was dropped stays dropped when more is kept.
LEMMA DroppedGrows ==
    ASSUME NEW kept, NEW more, kept \subseteq more, NEW e, Dropped(kept, e)
    PROVE  Dropped(more, e)
BY DEF Dropped

\* What a kept entry covers is dropped.
LEMMA DroppedByCover ==
    ASSUME NEW kept, NEW k \in kept, NEW e, Covers(k, e)
    PROVE  Dropped(kept, e)
BY DEF Dropped, Covers

\* What is dropped, but for discoveries, is covered by something kept.
LEMMA DroppedMeansCover ==
    ASSUME NEW kept, NEW e, Dropped(kept, e), e.source # "discovery"
    PROVE  \E k \in kept : Covers(k, e)
BY DEF Dropped, Covers

\* What the builder collects: nothing but grants counts as granted, every grant
\* on a listed machine is covered by a grant that is kept, and what comes later
\* is covered by nothing that came before.
LEMMA CollectedFacts ==
    ASSUME NEW rows, NEW reqs, NEW used, NEW ms, NEW found,
           \A e \in found : e.status = "requestable",
           NEW kept \in Collected(rows, reqs, used, ms, found)
    PROVE  LET mine == EntriesOf(rows, "granted", "grant")
               waits == Waiting(reqs)
           IN /\ \A e \in kept, g \in mine : e.machine \in ms /\ e.status # "granted" => ~Covers(g, e)
              /\ \A e \in kept, w \in waits : e.machine \in ms /\ e.status = "requestable" => ~Covers(w, e)
              /\ \A g \in mine : g.machine \in ms => \E e \in kept : e.status = "granted" /\ Covers(e, g)
<1> DEFINE mine == EntriesOf(rows, "granted", "grant")
           waits == EntriesOf(PendingOf(reqs), "pending", "request")
           over == EntriesOf(reqs \ PendingOf(reqs), "requestable", "request")
           seen == SessionEntries(used)
           granted == addTo({{}}, mine, ms)
           waiting == addTo(granted, waits, ms)
           ended == addTo(waiting, over, ms)
           visited == addTo(ended, seen, ms)
<1>1. kept \in addTo(visited, found, ms)
  BY DEF Collected
<1>2. /\ \A e \in mine : e.status = "granted" /\ e.source = "grant"
      /\ \A e \in waits : e.status = "pending" /\ e.source = "request"
      /\ \A e \in over : e.status = "requestable" /\ \A x \in seen : x.status = "requestable"
      /\ Waiting(reqs) = waits
  BY EntryFacts DEF Waiting
<1>3. \A e \in seen : e.status = "requestable"
  BY EntryFacts
<1> HIDE DEF mine, waits, over, seen
<1> HIDE DEF granted, waiting, ended, visited
<1>4. PICK S \in visited : S \subseteq kept /\ \A e \in kept : e \in S \/ (e \in found /\ ~Dropped(S, e))
  BY <1>1, AddToFacts
<1>5. PICK F \in ended : F \subseteq S /\ \A e \in S : e \in F \/ (e \in seen /\ ~Dropped(F, e))
  <2>1. S \in addTo(ended, seen, ms)
    BY DEF visited
  <2>2. QED
    BY <2>1, AddToFacts
<1>6. PICK P \in waiting : P \subseteq F /\ \A e \in F : e \in P \/ (e \in over /\ ~Dropped(P, e))
  <2>1. F \in addTo(waiting, over, ms)
    BY DEF ended
  <2>2. QED
    BY <2>1, AddToFacts
<1>7. PICK G \in granted :
        /\ G \subseteq P /\ \A e \in P : e \in G \/ (e \in waits /\ ~Dropped(G, e))
        /\ \A e \in waits : e.machine \in ms => e \in P \/ Dropped(P, e)
  <2>1. P \in addTo(granted, waits, ms)
    BY DEF waiting
  <2>2. QED
    BY <2>1, AddToFacts
<1>8. /\ \A e \in G : e \in mine
      /\ \A e \in mine : e.machine \in ms => e \in G \/ Dropped(G, e)
  <2>1. G \in addTo({{}}, mine, ms)
    BY DEF granted
  <2> DEFINE start == {{}}
  <2>2. \A none \in start : none = {}
    OBVIOUS
  <2>3. G \in addTo(start, mine, ms)
    BY <2>1
  <2> HIDE DEF start
  <2>4. PICK none \in start :
          /\ none \subseteq G
          /\ \A e \in G : e \in none \/ (e \in mine /\ ~Dropped(none, e))
          /\ \A e \in mine : e.machine \in ms => e \in G \/ Dropped(G, e)
    BY <2>3, AddToFacts
  <2>5. QED
    BY <2>2, <2>4
<1>9. \A g \in mine : g.machine \in ms => \E k \in G : Covers(k, g)
  BY <1>2, <1>8, CoversTransitive, DroppedMeansCover
<1>10. \A w \in waits : w.machine \in ms => \E k \in P : Covers(k, w)
  BY <1>2, <1>7, CoversTransitive, DroppedMeansCover
<1>11. \A e \in kept : e \in P \/ (e.status = "requestable" /\ ~Dropped(P, e))
  BY <1>2, <1>3, <1>4, <1>5, <1>6, DroppedGrows
<1>12. \A e \in kept : e.status # "granted" => ~Dropped(G, e)
  BY <1>2, <1>7, <1>8, <1>11, DroppedGrows
<1>13. \A e \in kept : e.status = "requestable" => ~Dropped(P, e)
  BY <1>2, <1>7, <1>8, <1>11
<1>14. ASSUME NEW e \in kept, NEW g \in mine, e.machine \in ms, e.status # "granted", Covers(g, e)
       PROVE  FALSE
  <2>1. g.machine \in ms
    BY <1>14 DEF Covers
  <2>2. QED
    BY <2>1, <1>9, <1>12, <1>14, CoversTransitive, DroppedByCover
<1>15. ASSUME NEW e \in kept, NEW w \in waits, e.machine \in ms, e.status = "requestable", Covers(w, e)
       PROVE  FALSE
  <2>1. w.machine \in ms
    BY <1>15 DEF Covers
  <2>2. QED
    BY <2>1, <1>10, <1>13, <1>15, CoversTransitive, DroppedByCover
<1>16. \A g \in mine : g.machine \in ms => \E e \in kept : e.status = "granted" /\ Covers(e, g)
  BY <1>2, <1>4, <1>5, <1>6, <1>7, <1>8, <1>9
<1>17. QED
  BY <1>2, <1>14, <1>15, <1>16 DEF mine

\* Everything kept is for a listed machine.
LEMMA CollectedAreListed ==
    ASSUME NEW rows, NEW reqs, NEW used, NEW ms, NEW found, NEW kept \in Collected(rows, reqs, used, ms, found)
    PROVE  \A e \in kept : e.machine \in ms
<1> DEFINE Listed(keeps) == \A K \in keeps : \A e \in K : e.machine \in ms
<1>1. ASSUME NEW keeps, Listed(keeps), NEW offered
      PROVE  Listed(addTo(keeps, offered, ms))
  <2>1. ASSUME NEW K \in addTo(keeps, offered, ms), NEW e \in K
        PROVE  e.machine \in ms
    <3>1. PICK kept0 \in keeps : K \in add(kept0, offered, ms)
      BY DEF addTo
    <3>2. PICK S \in SUBSET offered : K = kept0 \cup S /\ \A x \in S : x.machine \in ms
      BY <3>1 DEF add
    <3>3. QED
      BY <1>1, <3>2
  <2>2. QED
    BY <2>1
<1>2. Listed({{}})
  OBVIOUS
<1> HIDE DEF Listed
<1>3. Listed(Collected(rows, reqs, used, ms, found))
  BY <1>1, <1>2 DEF Collected
<1>4. QED
  BY <1>3 DEF Listed

\* The rows that grants make: those in force, type by type.
LEMMA GrantRows ==
    ASSUME ViewsTypeOK, NEW t \in {"ssh", "scp", "rdp"}, NEW m, NEW r,
           r \in UNION {grantAccess(g) : g \in listUserPermissions(grants)}, r.machine = m, r.type \in {t, "*"}
    PROVE  \E g \in grants : /\ g.machine = m /\ ~g.lapsed /\ AccessTypeCovers(g.type, t)
                             /\ g.logins = r.logins
<1>1. PICK g \in grants : ~g.lapsed /\ r \in grantAccess(g)
  BY DEF listUserPermissions
<1>2. PICK tt \in IF g.type = "both" THEN SSHTypes ELSE {g.type} :
         r = [machine |-> g.machine, type |-> tt, logins |-> g.logins]
  BY <1>1 DEF grantAccess
<1>3. g.type \in AccessTypes
  BY DEF ViewsTypeOK, Grant
<1>4. tt = t /\ AccessTypeCovers(g.type, t)
  BY <1>2, <1>3 DEF SSHTypes, AccessTypes, AccessTypeCovers
<1>5. QED
  BY <1>1, <1>2, <1>4

\* A grant in force has its row.
LEMMA GrantHasRow ==
    ASSUME NEW t \in {"ssh", "scp", "rdp"}, NEW g \in grants, ~g.lapsed, AccessTypeCovers(g.type, t)
    PROVE  [machine |-> g.machine, type |-> t, logins |-> g.logins]
             \in UNION {grantAccess(h) : h \in listUserPermissions(grants)}
<1>1. t \in IF g.type = "both" THEN SSHTypes ELSE {g.type}
  BY DEF AccessTypeCovers, SSHTypes
<1>2. [machine |-> g.machine, type |-> t, logins |-> g.logins] \in grantAccess(g)
  BY <1>1 DEF grantAccess
<1>3. QED
  BY <1>2 DEF listUserPermissions

\* The rows an answer of effective access has for a user of this role, that
\* they show an access, and that the decision allows it.
RowsNow == (IF privilegedAccess(urole) THEN {roleAccess(n) : n \in listMachines(EffectiveMachines)} ELSE {})
           \cup UNION {grantAccess(g) : g \in listUserPermissions(grants)}

RowsShow(rows, m, t, login) ==
    \E r \in rows : r.machine = m /\ r.type \in {t, "*"} /\ (login \in r.logins \/ IsTunnelAccessType(t))

May(m, t, login) == IF t = "rdp" THEN CheckExactAccess(m, t) ELSE Allows(m, t, login)

RoleListed(m) == privilegedAccess(urole) => m \in listMachines(EffectiveMachines)

\* The rows of effective access, read by a user of this role, are what the decision allows.
LEMMA EffectiveIsDecision ==
    ASSUME ViewsTypeOK, fga # "deny", NEW m \in Machines, NEW login \in Logins, NEW t \in {"ssh", "scp", "rdp"}
    PROVE  /\ RowsShow(RowsNow, m, t, login) => May(m, t, login)
           /\ RoleListed(m) /\ May(m, t, login) => RowsShow(RowsNow, m, t, login)
<1> DEFINE rows == RowsNow
           has == RowsShow(rows, m, t, login)
           may == May(m, t, login)
           ofGrants == UNION {grantAccess(g) : g \in listUserPermissions(grants)}
           holds == \E g \in grants : /\ g.machine = m /\ ~g.lapsed /\ AccessTypeCovers(g.type, t)
                                      /\ (login \in g.logins \/ t = "rdp")
<1>1. may <=> privilegedAccess(urole) \/ holds
  BY DEF May, CheckExactAccess, Allows, Decision, HasPermission, HasPermissionWithRemoteUser
<1>2. ASSUME holds PROVE has
  <2>1. PICK g \in grants : /\ g.machine = m /\ ~g.lapsed /\ AccessTypeCovers(g.type, t)
                            /\ (login \in g.logins \/ t = "rdp")
    BY <1>2
  <2> DEFINE r == [machine |-> g.machine, type |-> t, logins |-> g.logins]
  <2>2. r \in rows
    BY <2>1, GrantHasRow DEF RowsNow
  <2>3. r.machine = m /\ r.type = t /\ r.logins = g.logins
    BY <2>1
  <2> HIDE DEF r
  <2>4. QED
    BY <2>1, <2>2, <2>3 DEF RowsShow, IsTunnelAccessType
<1>3. ASSUME NEW r \in ofGrants, r.machine = m, r.type \in {t, "*"}, login \in r.logins \/ IsTunnelAccessType(t)
      PROVE  holds
  BY <1>3, GrantRows DEF IsTunnelAccessType
<1>4. CASE privilegedAccess(urole)
  <2>1. m \in listMachines(EffectiveMachines) => roleAccess(m) \in rows
    BY <1>4 DEF RowsNow
  <2>2. roleAccess(m).machine = m /\ roleAccess(m).type = "*" /\ roleAccess(m).logins = Logins
    BY DEF roleAccess
  <2>3. m \in listMachines(EffectiveMachines) => has
    BY <2>1, <2>2 DEF RowsShow
  <2> HIDE DEF has, may
  <2>4. QED
    BY <1>1, <1>4, <2>3 DEF has, may, RoleListed
<1>5. CASE ~privilegedAccess(urole)
  <2>1. rows = ofGrants
    BY <1>5 DEF RowsNow
  <2>2. has => holds
    BY <2>1, <1>3 DEF RowsShow
  <2> HIDE DEF has, may, holds
  <2>3. QED
    BY <1>1, <1>2, <1>5, <2>2 DEF has, may
<1>6. QED
  BY <1>4, <1>5

\* Where a call is.
CallTyped ==
    /\ view \in [kind : {"none", "explain", "effective", "catalog"},
                 at : {"idle", "check", "authorizer", "local", "grants", "requests", "effective",
                       "capRequests", "capSessions", "capMachines", "done"},
                 wanted : SSHTypes, as : Logins \cup {AnyLogin}, role : {"user", "operator", "admin"},
                 allowed : BOOLEAN, rows : {view.rows}, reqs : {view.reqs}, used : {view.used},
                 answer : {view.answer}, failed : BOOLEAN, changed : Nat, old : {view.old}]
    /\ view.kind = "none" => view = NoCall
    /\ view.kind = "explain" => view.at \in {"check", "authorizer", "local", "grants", "requests", "done"}
    /\ view.kind = "effective" => view.at \in {"effective", "done"}
    /\ view.kind = "catalog" => view.at \in {"capRequests", "capSessions", "capMachines", "done"}

\* What the decision goes by, as the call began and now.
Began == Decision(view.old.role, view.old.fga, view.old.rows, Target, view.wanted, view.as)
Now   == Allows(Target, view.wanted, view.as)

\* One change changes one of the things the decision goes by.
OneDiffers ==
    \/ view.old.fga = fga /\ view.old.rows = grants
    \/ view.old.role = urole /\ view.old.rows = grants
    \/ view.old.role = urole /\ view.old.fga = fga

\* What an explanation has read was so as it began or is so now, when there was
\* at most one change.
DecisionFollows ==
    view.kind = "explain" /\ view.changed <= 1 =>
        /\ OneDiffers
        /\ view.at \in {"check", "authorizer", "local"} => ~view.allowed
        /\ view.at \in {"authorizer", "local"} => ~privilegedAccess(urole) \/ ~privilegedAccess(view.old.role)
        /\ view.at = "local" => fga # "deny" \/ view.old.fga # "deny"
        /\ view.at \in {"grants", "requests", "done"} /\ ~view.failed => view.allowed \in {Began, Now}

\* As long as nothing changed, what a call has in hand is what the store says.
ReadsFollow ==
    view.changed = 0 =>
        /\ view.kind = "explain" => view.role = urole /\ view.old = [role |-> urole, fga |-> fga, rows |-> grants]
        /\ view.at = "requests" => view.rows = {g \in grants : g.machine = Target}
        /\ view.at = "effective" => view.role = urole
        /\ view.at \in {"capRequests", "capSessions", "capMachines"} => view.rows = listUserPermissions(grants)
        /\ view.at \in {"capSessions", "capMachines"} => view.reqs = Newest(asked, CapRequests)

ViewsInv ==
    /\ ViewsTypeOK /\ CallTyped /\ DecisionFollows /\ ReadsFollow
    /\ ExplanationIsTrue /\ EffectiveAgrees /\ CatalogIsHonest

\* Every change of the store keeps its types.
LEMMA ChangesKeepTypes ==
    ASSUME ViewsTypeOK,
           \/ changeRole \/ changeFGA \/ useAccess \/ makeGrant \/ lapseGrant \/ revokeGrant
           \/ makeRequest \/ decideRequest
    PROVE  Change /\ ViewsTypeOK'
<1> USE DEF ViewsTypeOK
<1>0. ASSUME Change PROVE events' \in 1 .. MaxEvents /\ events' = events + 1
  BY <1>0, ViewsAssumption DEF Change
<1>a. ASSUME Change, NEW a, a.machine \in Machines, a.type \in AccessTypes, a.logins \in SUBSET Logins
      PROVE  GrantOf(a) \in Grant
  BY <1>0, <1>a DEF GrantOf, Grant
<1>b. ASSUME NEW a \in AskRows
      PROVE  a.machine \in Machines /\ a.type \in AccessTypes /\ a.logins \in SUBSET Logins
  BY ViewsAssumption DEF AskRows, AccessTypes
<1>1. CASE changeRole \/ changeFGA \/ useAccess
  BY <1>0, <1>1 DEF changeRole, changeFGA, useAccess, Session
<1>2. CASE makeGrant
  BY <1>0, <1>a, <1>b, <1>2 DEF makeGrant
<1>3. CASE lapseGrant
  <2>1. PICK g \in grants : grants' = (grants \ {g}) \cup {[g EXCEPT !.lapsed = TRUE]}
    BY <1>3 DEF lapseGrant
  <2>2. [g EXCEPT !.lapsed = TRUE] \in Grant
    BY DEF Grant
  <2>3. grants' \subseteq Grant
    BY <2>1, <2>2
  <2>4. QED
    BY <1>0, <1>3, <2>3 DEF lapseGrant
<1>4. CASE revokeGrant
  BY <1>0, <1>4 DEF revokeGrant
<1>5. CASE makeRequest
  <2>1. PICK a \in AskRows :
           asked' = asked \cup {[machine |-> a.machine, type |-> a.type, logins |-> a.logins,
                                 status |-> "pending", at |-> events + 1]}
    BY <1>5 DEF makeRequest
  <2>2. asked' \subseteq Request
    BY <1>0, <1>b, <1>5, <2>1 DEF makeRequest, Request
  <2>3. QED
    BY <1>0, <1>5, <2>2 DEF makeRequest
<1>6. CASE decideRequest
  <2>1. Change /\ UNCHANGED <<urole, fga, sessions>>
    BY <1>6 DEF decideRequest
  <2>2. PICK r \in asked, decision \in {"approved", "rejected"} :
           /\ asked' = (asked \ {r}) \cup {[r EXCEPT !.status = decision]}
           /\ IF decision = "rejected" THEN UNCHANGED grants
              ELSE Cardinality(grants) < MaxGrants /\ grants' = grants \cup {GrantOf(r)}
    BY <1>6 DEF decideRequest
  <2>3. asked' \subseteq Request
    BY <2>2 DEF Request
  <2>4. grants' \subseteq Grant
    <3>1. GrantOf(r) \in Grant
      BY <1>a, <2>1 DEF Request
    <3>2. QED
      BY <2>2, <3>1
  <2>5. QED
    BY <1>0, <2>1, <2>3, <2>4
<1>7. QED
  BY <1>1, <1>2, <1>3, <1>4, <1>5, <1>6

\* A change of one thing.
LEMMA ChangeTouchesOne ==
    ASSUME \/ changeRole \/ changeFGA \/ useAccess \/ makeGrant \/ lapseGrant \/ revokeGrant
           \/ makeRequest \/ decideRequest
    PROVE  \/ UNCHANGED <<fga, grants>> \/ UNCHANGED <<urole, grants>> \/ UNCHANGED <<urole, fga>>
BY DEF changeRole, changeFGA, useAccess, makeGrant, lapseGrant, revokeGrant, makeRequest, decideRequest

\* A change ends an answered call, or is counted by the one in progress.
LEMMA ChangePreserves ==
    ASSUME ViewsInv, Change, ViewsTypeOK',
           \/ UNCHANGED <<fga, grants>> \/ UNCHANGED <<urole, grants>> \/ UNCHANGED <<urole, fga>>
    PROVE  ViewsInv'
<1> USE DEF ViewsInv
<1>1. CASE view = NoCall \/ view.at = "done"
  <2>1. view' = NoCall
    BY <1>1 DEF Change
  <2>2. CallTyped' /\ view'.at = "idle" /\ view'.kind = "none"
    BY <2>1 DEF CallTyped, NoCall, SSHTypes
  <2>3. DecisionFollows' /\ ReadsFollow'
    BY <2>2 DEF DecisionFollows, ReadsFollow
  <2>4. ExplanationIsTrue' /\ EffectiveAgrees' /\ CatalogIsHonest'
    BY <2>2 DEF ExplanationIsTrue, EffectiveAgrees, CatalogIsHonest, Answered
  <2>5. QED
    BY <2>2, <2>3, <2>4
<1>2. CASE ~(view = NoCall \/ view.at = "done")
  <2>1. view' = [view EXCEPT !.changed = @ + 1]
    BY <1>2 DEF Change
  <2>2. /\ CallTyped' /\ view'.at = view.at /\ view'.kind = view.kind /\ view'.changed = view.changed + 1
        /\ view'.old = view.old /\ view'.allowed = view.allowed /\ view'.failed = view.failed
        /\ view'.wanted = view.wanted /\ view'.as = view.as /\ view.changed \in Nat
    BY <1>2, <2>1 DEF CallTyped
  <2>3. ReadsFollow'
    BY <2>2 DEF ReadsFollow
  <2>4. ExplanationIsTrue' /\ EffectiveAgrees' /\ CatalogIsHonest'
    BY <1>2, <2>2 DEF ExplanationIsTrue, EffectiveAgrees, CatalogIsHonest, Answered
  <2>5. ASSUME view'.kind = "explain", view'.changed <= 1
        PROVE  DecisionFollows'
    <3>1. view.changed = 0 /\ view.kind = "explain"
      BY <2>2, <2>5
    <3>2. view.old.role = urole /\ view.old.fga = fga /\ view.old.rows = grants
      BY <3>1 DEF ReadsFollow
    <3>3. OneDiffers'
      BY <2>2, <3>2 DEF OneDiffers
    <3>4. Began = Now /\ Began' = Began
      BY <2>2, <3>2 DEF Began, Now, Allows
    <3>5. view.at \in {"grants", "requests", "done"} /\ ~view.failed => view.allowed = Began'
      BY <3>1, <3>4 DEF DecisionFollows
    <3>6. view.at \in {"authorizer", "local"} => ~privilegedAccess(view'.old.role)
      BY <2>2, <3>1, <3>2 DEF DecisionFollows
    <3>7. /\ view.at = "local" => view'.old.fga # "deny"
          /\ view.at \in {"check", "authorizer", "local"} => ~view'.allowed
      BY <2>2, <3>1, <3>2 DEF DecisionFollows
    <3>8. QED
      BY <2>2, <3>3, <3>5, <3>6, <3>7 DEF DecisionFollows
  <2>6. DecisionFollows'
    BY <2>5 DEF DecisionFollows
  <2>7. QED
    BY <2>2, <2>3, <2>4, <2>6
<1>3. QED
  BY <1>1, <1>2

\* Queries change nothing that the decision goes by.
LEMMA QueriesLeaveDecision ==
    ASSUME UNCHANGED <<urole, fga, grants>>, view'.old = view.old, view'.wanted = view.wanted, view'.as = view.as
    PROVE  Began' = Began /\ Now' = Now /\ (OneDiffers' <=> OneDiffers)
BY DEF Began, Now, OneDiffers, Allows, Decision, HasPermissionWithRemoteUser, privilegedAccess

\* The steps of the decision under an explanation.
LEMMA DecisionSteps ==
    ASSUME ViewsInv, checkUser \/ checkFails \/ authorizerCheck \/ checkLocal
    PROVE  ViewsInv'
<1> USE DEF ViewsInv, Stay
<1>0. UNCHANGED <<urole, fga, grants, asked, sessions, events>>
  BY DEF checkUser, checkFails, authorizerCheck, checkLocal
<1>1. ViewsTypeOK'
  BY <1>0 DEF ViewsTypeOK
<1>2. view.kind = "explain" /\ view.at \in {"check", "authorizer", "local"}
  <2>1. view.at \in {"check", "authorizer", "local"}
    BY DEF checkUser, checkFails, authorizerCheck, checkLocal
  <2>2. QED
    BY <2>1 DEF CallTyped, NoCall
<1> DEFINE has == HasPermissionWithRemoteUser(grants, Target, view.wanted, view.as)
<1>3. /\ CallTyped' /\ view'.kind = "explain" /\ view'.at \in {"authorizer", "local", "grants"}
      /\ view'.old = view.old /\ view'.role = view.role /\ view'.changed = view.changed
      /\ view'.wanted = view.wanted /\ view'.as = view.as
  <2>1. has \in BOOLEAN
    BY DEF HasPermissionWithRemoteUser
  <2> HIDE DEF has
  <2>2. CASE checkUser
    <3>1. CASE privilegedAccess(urole)
      BY <1>2, <2>2, <3>1 DEF checkUser, CallTyped
    <3>2. CASE ~privilegedAccess(urole)
      <4>1. PICK next \in {"local", "authorizer"} : view' = [view EXCEPT !.at = next]
        BY <2>2, <3>2 DEF checkUser, Ask
      <4>2. QED
        BY <1>2, <4>1 DEF CallTyped
    <3>3. QED
      BY <3>1, <3>2
  <2>3. CASE checkFails
    BY <1>2, <2>3 DEF checkFails, CallTyped
  <2>4. CASE authorizerCheck
    BY <1>2, <2>4 DEF authorizerCheck, Ask, CallTyped
  <2>5. CASE checkLocal
    <3>1. PICK ok \in BOOLEAN : view' = [view EXCEPT !.at = "grants", !.failed = ~ok, !.allowed = ok /\ has]
      BY <2>5 DEF checkLocal, has
    <3>2. QED
      BY <1>2, <2>1, <3>1 DEF CallTyped
  <2>6. QED
    BY <2>2, <2>3, <2>4, <2>5
<1>4. ReadsFollow'
  BY <1>0, <1>2, <1>3 DEF ReadsFollow
<1>5. ExplanationIsTrue' /\ EffectiveAgrees' /\ CatalogIsHonest'
  BY <1>3 DEF ExplanationIsTrue, EffectiveAgrees, CatalogIsHonest, Answered
<1>6. Began' = Began /\ Now' = Now /\ (OneDiffers' <=> OneDiffers)
  BY <1>0, <1>3, QueriesLeaveDecision
<1>7. /\ Now = (privilegedAccess(urole) \/ (fga # "deny" /\ has))
      /\ Now \in BOOLEAN
  BY DEF Now, Allows, Decision
<1>8. ASSUME view.changed <= 1
      PROVE  DecisionFollows'
  <2>1. OneDiffers /\ ~view.allowed /\ view.allowed \in BOOLEAN
    BY <1>2, <1>8 DEF DecisionFollows, CallTyped
  <2>2. /\ view.at \in {"authorizer", "local"} => ~privilegedAccess(urole) \/ ~privilegedAccess(view.old.role)
        /\ view.at = "local" => fga # "deny" \/ view.old.fga # "deny"
    BY <1>2, <1>8 DEF DecisionFollows
  <2>3. Began = (\/ privilegedAccess(view.old.role)
                 \/ (view.old.fga # "deny" /\ HasPermissionWithRemoteUser(view.old.rows, Target, view.wanted, view.as)))
    BY DEF Began, Decision
  <2>4. CASE checkUser
    <3>1. CASE privilegedAccess(urole)
      <4>1. view' = [view EXCEPT !.at = "grants", !.allowed = TRUE]
        BY <2>4, <3>1 DEF checkUser
      <4>2. view'.at = "grants" /\ view'.allowed = TRUE /\ Now = TRUE
        BY <3>1, <4>1, <1>7 DEF CallTyped
      <4>3. QED
        BY <1>6, <2>1, <4>2 DEF DecisionFollows
    <3>2. CASE ~privilegedAccess(urole)
      <4>1. view' = [view EXCEPT !.at = IF fga = "off" THEN "local" ELSE "authorizer"]
        BY <2>4, <3>2 DEF checkUser, Ask
      <4>2. /\ view'.at = IF fga = "off" THEN "local" ELSE "authorizer"
            /\ view'.allowed = view.allowed
        BY <4>1 DEF CallTyped
      <4>3. ~privilegedAccess(urole')
        BY <1>0, <3>2
      <4>4. QED
        BY <1>0, <1>6, <2>1, <4>2, <4>3 DEF DecisionFollows
    <3>3. QED
      BY <3>1, <3>2
  <2>5. CASE checkFails
    <3>1. view'.at = "grants" /\ view'.failed = TRUE
      BY <2>5 DEF checkFails, CallTyped
    <3>2. QED
      BY <1>6, <2>1, <3>1 DEF DecisionFollows
  <2>6. CASE authorizerCheck
    <3>1. view.at = "authorizer" /\ view' = [view EXCEPT !.at = IF fga = "deny" THEN "grants" ELSE "local"]
      BY <2>6 DEF authorizerCheck, Ask
    <3>2. /\ view'.at = IF fga = "deny" THEN "grants" ELSE "local"
          /\ view'.allowed = view.allowed
      BY <3>1 DEF CallTyped
    <3>3. ASSUME fga = "deny"
          PROVE  Now = FALSE \/ Began = FALSE
      <4>1. CASE ~privilegedAccess(urole)
        BY <3>3, <4>1, <1>7
      <4>2. CASE privilegedAccess(urole)
        <5>1. ~privilegedAccess(view.old.role) /\ view.old.role # urole
          BY <2>2, <3>1, <4>2
        <5>2. view.old.fga = fga
          BY <2>1, <5>1 DEF OneDiffers
        <5>3. QED
          BY <2>3, <3>3, <5>1, <5>2
      <4>3. QED
        BY <4>1, <4>2
    <3>4. view'.at = "local" => ~privilegedAccess(urole') \/ ~privilegedAccess(view'.old.role)
      BY <1>0, <1>3, <2>2, <3>1
    <3> HIDE DEF has
    <3>5. QED
      BY <1>0, <1>6, <2>1, <3>2, <3>3, <3>4 DEF DecisionFollows
  <2>7. CASE checkLocal
    <3>1. PICK ok \in BOOLEAN : view' = [view EXCEPT !.at = "grants", !.failed = ~ok, !.allowed = ok /\ has]
      BY <2>7 DEF checkLocal
    <3>2. view.at = "local"
      BY <2>7 DEF checkLocal
    <3>3. view'.at = "grants" /\ view'.failed = ~ok /\ view'.allowed = (ok /\ has)
      BY <3>1 DEF CallTyped
    <3>4. Now = has \/ Began = has
      <4>1. CASE view.old.fga = fga /\ view.old.rows = grants
        BY <4>1, <1>7, <2>2, <2>3, <3>2 DEF HasPermissionWithRemoteUser
      <4>2. CASE view.old.role = urole /\ view.old.rows = grants
        BY <4>2, <1>7, <2>2, <2>3, <3>2 DEF HasPermissionWithRemoteUser
      <4>3. CASE view.old.role = urole /\ view.old.fga = fga
        BY <4>3, <1>7, <2>2, <2>3, <3>2 DEF HasPermissionWithRemoteUser
      <4>4. QED
        BY <2>1, <4>1, <4>2, <4>3 DEF OneDiffers
    <3>5. has \in BOOLEAN
      BY DEF HasPermissionWithRemoteUser
    <3> HIDE DEF has
    <3>6. ~view'.failed => view'.allowed = has
      BY <3>3, <3>5
    <3>7. QED
      BY <1>6, <2>1, <3>3, <3>4, <3>6 DEF DecisionFollows
  <2>8. QED
    BY <2>4, <2>5, <2>6, <2>7
<1>9. DecisionFollows'
  BY <1>3, <1>8 DEF DecisionFollows
<1>10. QED
  BY <1>1, <1>3, <1>4, <1>5, <1>9

\* The other queries of an explanation: its start, the grants and the requests.
LEMMA ExplainSteps ==
    ASSUME ViewsInv, explainAccess \/ listPairPermissions \/ listRequests
    PROVE  ViewsInv'
<1> USE DEF ViewsInv, Stay
<1>0. UNCHANGED <<urole, fga, grants, asked, sessions, events>>
  BY DEF explainAccess, listPairPermissions, listRequests
<1>1. ViewsTypeOK'
  BY <1>0 DEF ViewsTypeOK
<1>2. CASE explainAccess
  <2>1. PICK type \in SSHTypes, login \in Logins :
         view' = [NoCall EXCEPT !.kind = "explain", !.at = "check", !.role = urole,
                                !.wanted = type, !.as = login,
                                !.old = [role |-> urole, fga |-> fga, rows |-> grants]]
    BY <1>2 DEF explainAccess
  <2>2. view' = [kind |-> "explain", at |-> "check", wanted |-> type, as |-> login, role |-> urole,
                 allowed |-> FALSE, rows |-> {}, reqs |-> {}, used |-> {}, answer |-> {}, failed |-> FALSE,
                 changed |-> 0, old |-> [role |-> urole, fga |-> fga, rows |-> grants]]
    BY <2>1 DEF NoCall
  <2>3. CallTyped'
    BY <2>2 DEF CallTyped, ViewsTypeOK
  <2>4. DecisionFollows' /\ ReadsFollow'
    BY <1>0, <2>2 DEF DecisionFollows, ReadsFollow, OneDiffers
  <2>5. ExplanationIsTrue' /\ EffectiveAgrees' /\ CatalogIsHonest'
    BY <2>2 DEF ExplanationIsTrue, EffectiveAgrees, CatalogIsHonest, Answered
  <2>6. QED
    BY <1>1, <2>3, <2>4, <2>5
<1>3. CASE listPairPermissions
  <2>1. /\ view.kind = "explain" /\ view.at = "grants"
        /\ view' = [view EXCEPT !.at = "requests", !.rows = {g \in grants : g.machine = Target}]
    BY <1>3 DEF listPairPermissions
  <2>2. /\ CallTyped' /\ view'.kind = "explain" /\ view'.at = "requests"
        /\ view'.rows = {g \in grants : g.machine = Target}
        /\ view'.old = view.old /\ view'.role = view.role /\ view'.changed = view.changed
        /\ view'.wanted = view.wanted /\ view'.as = view.as /\ view'.allowed = view.allowed
        /\ view'.failed = view.failed
    BY <2>1 DEF CallTyped
  <2>3. Began' = Began /\ Now' = Now /\ (OneDiffers' <=> OneDiffers)
    BY <1>0, <2>2, QueriesLeaveDecision
  <2>4. DecisionFollows'
    BY <2>1, <2>2, <2>3 DEF DecisionFollows
  <2>5. ReadsFollow'
    BY <1>0, <2>1, <2>2 DEF ReadsFollow
  <2>6. ExplanationIsTrue' /\ EffectiveAgrees' /\ CatalogIsHonest'
    BY <2>2 DEF ExplanationIsTrue, EffectiveAgrees, CatalogIsHonest, Answered
  <2>7. QED
    BY <1>1, <2>2, <2>4, <2>5, <2>6
<1>4. CASE listRequests
  <2> DEFINE waits == \E r \in Newest(asked, ExplainRequests) : r.machine = Target /\ r.status = "pending"
             said == summarize(view.allowed, privilegedAccess(view.role), view.rows, waits)
  <2>1. view.at = "requests" /\ view' = [view EXCEPT !.at = "done", !.answer = {said}]
    BY <1>4 DEF listRequests
  <2>2. view.kind = "explain"
    BY <2>1 DEF CallTyped, NoCall
  <2> HIDE DEF said
  <2>3. /\ CallTyped' /\ view'.kind = "explain" /\ view'.at = "done" /\ view'.answer = {said}
        /\ view'.old = view.old /\ view'.role = view.role /\ view'.changed = view.changed
        /\ view'.wanted = view.wanted /\ view'.as = view.as /\ view'.allowed = view.allowed
        /\ view'.failed = view.failed
    BY <2>1, <2>2 DEF CallTyped
  <2>4. Began' = Began /\ Now' = Now /\ (OneDiffers' <=> OneDiffers)
    BY <1>0, <2>3, QueriesLeaveDecision
  <2>5. DecisionFollows' /\ ReadsFollow'
    BY <1>0, <2>1, <2>2, <2>3, <2>4 DEF DecisionFollows, ReadsFollow
  <2>6. EffectiveAgrees' /\ CatalogIsHonest'
    BY <2>3 DEF EffectiveAgrees, CatalogIsHonest, Answered
  <2>7. ASSUME view.changed = 0, ~view.failed
        PROVE  said = IF view.allowed THEN IF privilegedAccess(urole) THEN "role" ELSE "grant"
                      ELSE IF InForce(Target, view.wanted, view.as) THEN "fga refuses"
                      ELSE IF waits THEN "pending"
                      ELSE IF \E g \in grants : g.machine = Target THEN "grant refuses" ELSE "none"
    <3>1. /\ view.role = urole /\ view.rows = {g \in grants : g.machine = Target}
          /\ view.old.role = urole /\ view.old.fga = fga /\ view.old.rows = grants
      BY <2>1, <2>2, <2>7 DEF ReadsFollow
    <3>2. view.allowed \in BOOLEAN /\ view.wanted \in SSHTypes /\ view.allowed \in {Began, Now}
      BY <2>1, <2>2, <2>7 DEF CallTyped, DecisionFollows
    <3>3. view.allowed = Now
      BY <3>1, <3>2 DEF Began, Now, Allows
    <3>4. (\E g \in view.rows : grantLink(g, view.wanted, view.as)) <=> InForce(Target, view.wanted, view.as)
      BY <3>1, <3>2 DEF grantLink, InForce, HasPermissionWithRemoteUser, IsTunnelAccessType, SSHTypes
    <3>5. view.rows # {} <=> \E g \in grants : g.machine = Target
      BY <3>1
    <3>6. view.allowed <=> (privilegedAccess(urole) \/ (fga # "deny" /\ InForce(Target, view.wanted, view.as)))
      BY <3>3 DEF Now, Allows, Decision, InForce
    <3> DEFINE holds == \E g \in view.rows : grantLink(g, view.wanted, view.as)
    <3>7. said = IF view.allowed
                 THEN CASE privilegedAccess(urole) -> "role"
                        [] ~privilegedAccess(urole) /\ holds -> "grant" [] OTHER -> "fga allows"
                 ELSE CASE holds -> "fga refuses" [] ~holds /\ waits -> "pending"
                        [] ~holds /\ ~waits /\ view.rows # {} -> "grant refuses" [] OTHER -> "none"
      BY <3>1 DEF said, summarize
    <3> HIDE DEF holds, waits
    <3>8. holds <=> InForce(Target, view.wanted, view.as)
      BY <3>4 DEF holds
    <3>9. QED
      BY <3>2, <3>5, <3>6, <3>7, <3>8
  <2>8. ExplanationIsTrue'
    <3>1. InForce(Target, view.wanted, view.as)' = InForce(Target, view.wanted, view.as)
      BY <1>0, <2>3 DEF InForce, HasPermissionWithRemoteUser
    <3>2. view.changed <= 1 /\ ~view.failed => view.allowed \in {Began, Now}
      BY <2>1, <2>2 DEF DecisionFollows
    <3>3. view'.changed <= 1 /\ ~view'.failed => view'.allowed \in {Began', Now'}
      BY <2>3, <2>4, <3>2
    <3>4. view'.changed = 0 /\ ~view'.failed => view'.answer =
            {IF view'.allowed THEN IF privilegedAccess(urole') THEN "role" ELSE "grant"
             ELSE IF InForce(Target, view.wanted, view.as)' THEN "fga refuses"
             ELSE IF waits' THEN "pending"
             ELSE IF \E g \in grants' : g.machine = Target THEN "grant refuses" ELSE "none"}
      BY <1>0, <2>3, <2>7, <3>1
    <3>5. QED
      BY <3>3, <3>4 DEF ExplanationIsTrue, Answered, Began, Now
  <2>9. QED
    BY <1>1, <2>3, <2>5, <2>6, <2>8
<1>5. QED
  BY <1>2, <1>3, <1>4

\* A query that fails leaves no call.
LEMMA FailureSteps ==
    ASSUME ViewsInv, queryFails
    PROVE  ViewsInv'
<1>1. view' = NoCall /\ UNCHANGED <<urole, fga, grants, asked, sessions, events>>
  BY DEF queryFails, Stay
<1>2. ViewsTypeOK'
  BY <1>1 DEF ViewsInv, ViewsTypeOK
<1>3. CallTyped' /\ view'.at = "idle" /\ view'.kind = "none"
  BY <1>1 DEF CallTyped, NoCall, SSHTypes
<1>4. QED
  BY <1>2, <1>3 DEF ViewsInv, DecisionFollows, ReadsFollow, ExplanationIsTrue, EffectiveAgrees, CatalogIsHonest, Answered

\* The two steps of effective access.
LEMMA EffectiveSteps ==
    ASSUME ViewsInv, effectiveUser \/ effectiveGrants
    PROVE  ViewsInv'
<1> USE DEF ViewsInv, Stay
<1>0. UNCHANGED <<urole, fga, grants, asked, sessions, events>>
  BY DEF effectiveUser, effectiveGrants
<1>1. ViewsTypeOK'
  BY <1>0 DEF ViewsTypeOK
<1>2. CASE effectiveUser
  <2>1. view' = [NoCall EXCEPT !.kind = "effective", !.at = "effective", !.role = urole]
    BY <1>2 DEF effectiveUser
  <2>2. CallTyped' /\ view'.kind = "effective" /\ view'.at = "effective" /\ view'.role = urole
    BY <2>1 DEF CallTyped, NoCall, SSHTypes, ViewsTypeOK
  <2>3. QED
    BY <1>0, <1>1, <2>2 DEF DecisionFollows, ReadsFollow, ExplanationIsTrue, EffectiveAgrees, CatalogIsHonest, Answered
<1>3. CASE effectiveGrants
  <2> DEFINE Of(role) ==
        (IF privilegedAccess(role) THEN {roleAccess(m) : m \in listMachines(EffectiveMachines)} ELSE {})
        \cup UNION {grantAccess(g) : g \in listUserPermissions(grants)}
  <2>1. view.at = "effective" /\ view' = [view EXCEPT !.at = "done", !.answer = Of(view.role)]
    BY <1>3 DEF effectiveGrants
  <2>2. view.kind = "effective"
    BY <2>1 DEF CallTyped, NoCall
  <2> HIDE DEF Of
  <2>3. /\ CallTyped' /\ view'.kind = "effective" /\ view'.at = "done" /\ view'.answer = Of(view.role)
        /\ view'.changed = view.changed
    BY <2>1, <2>2 DEF CallTyped
  <2>4. ASSUME view.changed = 0, fga # "deny", NEW m \in Machines, NEW login \in Logins
        PROVE  LET Has(type) == \E r \in Of(view.role) : r.machine = m /\ r.type \in {type, "*"}
                                                  /\ (login \in r.logins \/ IsTunnelAccessType(type))
                   listed == privilegedAccess(urole) => m \in listMachines(EffectiveMachines)
               IN  /\ \A type \in SSHTypes :
                        /\ Has(type) => Allows(m, type, login)
                        /\ listed /\ Allows(m, type, login) => Has(type)
                   /\ Has("rdp") => CheckExactAccess(m, "rdp")
                   /\ listed /\ CheckExactAccess(m, "rdp") => Has("rdp")
    <3>1. view.role = urole
      BY <2>1, <2>4 DEF ReadsFollow
    <3>2. Of(view.role) = RowsNow
      BY <3>1 DEF Of, RowsNow
    <3>3. ViewsTypeOK /\ fga # "deny" /\ m \in Machines /\ login \in Logins
      BY <2>4
    <3>4. \A t \in {"ssh", "scp", "rdp"} :
             /\ RowsShow(RowsNow, m, t, login) => May(m, t, login)
             /\ RoleListed(m) /\ May(m, t, login) => RowsShow(RowsNow, m, t, login)
      <4> HIDE DEF ViewsInv
      <4>1. QED
        BY <3>3, EffectiveIsDecision
    <3>5. QED
      BY <3>2, <3>4 DEF RowsShow, May, RoleListed, SSHTypes
  <2>5. EffectiveAgrees'
    <3>1. \A m, type, login : Allows(m, type, login)' = Allows(m, type, login)
      BY <1>0 DEF Allows, Decision, HasPermissionWithRemoteUser, privilegedAccess
    <3>2. \A m : CheckExactAccess(m, "rdp")' = CheckExactAccess(m, "rdp")
      BY <1>0 DEF CheckExactAccess, HasPermission, privilegedAccess
    <3>3. QED
      BY <1>0, <2>3, <2>4, <3>1, <3>2 DEF EffectiveAgrees, Answered
  <2>6. QED
    BY <1>1, <2>3, <2>5 DEF DecisionFollows, ReadsFollow, ExplanationIsTrue, CatalogIsHonest, Answered
<1>4. QED
  BY <1>2, <1>3

\* The steps of a catalog.
LEMMA CatalogSteps ==
    ASSUME ViewsInv, listCapabilities \/ capabilityRequests \/ capabilitySessions \/ buildCapabilities
    PROVE  ViewsInv'
<1> USE DEF ViewsInv, Stay
<1>0. UNCHANGED <<urole, fga, grants, asked, sessions, events>>
  BY DEF listCapabilities, capabilityRequests, capabilitySessions, buildCapabilities
<1>1. ViewsTypeOK'
  BY <1>0 DEF ViewsTypeOK
<1>2. ASSUME CallTyped', view'.kind = "catalog", view'.at # "done", ReadsFollow'
      PROVE  ViewsInv'
  BY <1>1, <1>2 DEF DecisionFollows, ExplanationIsTrue, EffectiveAgrees, CatalogIsHonest, Answered
<1>3. CASE listCapabilities
  <2>1. view' = [NoCall EXCEPT !.kind = "catalog", !.at = "capRequests", !.rows = listUserPermissions(grants)]
    BY <1>3 DEF listCapabilities
  <2>2. /\ CallTyped' /\ view'.kind = "catalog" /\ view'.at = "capRequests"
        /\ view'.rows = listUserPermissions(grants)
    BY <2>1 DEF CallTyped, NoCall, SSHTypes
  <2>3. QED
    BY <1>0, <1>2, <2>2 DEF ReadsFollow
<1>4. CASE capabilityRequests
  <2>1. view.at = "capRequests" /\ view' = [view EXCEPT !.at = "capSessions", !.reqs = Newest(asked, CapRequests)]
    BY <1>4 DEF capabilityRequests
  <2>2. view.kind = "catalog"
    BY <2>1 DEF CallTyped, NoCall
  <2>3. /\ CallTyped' /\ view'.kind = "catalog" /\ view'.at = "capSessions" /\ view'.changed = view.changed
        /\ view'.rows = view.rows /\ view'.reqs = Newest(asked, CapRequests)
    BY <2>1, <2>2 DEF CallTyped
  <2>4. QED
    BY <1>0, <1>2, <2>1, <2>3 DEF ReadsFollow
<1>5. CASE capabilitySessions
  <2>1. view.at = "capSessions" /\ view' = [view EXCEPT !.at = "capMachines", !.used = Newest(sessions, CapSessions)]
    BY <1>5 DEF capabilitySessions
  <2>2. view.kind = "catalog"
    BY <2>1 DEF CallTyped, NoCall
  <2>3. /\ CallTyped' /\ view'.kind = "catalog" /\ view'.at = "capMachines" /\ view'.changed = view.changed
        /\ view'.rows = view.rows /\ view'.reqs = view.reqs
    BY <2>1, <2>2 DEF CallTyped
  <2>4. QED
    BY <1>0, <1>2, <2>1, <2>3 DEF ReadsFollow
<1>6. CASE buildCapabilities
  <2> DEFINE ms == listMachines(CapMachines)
  <2>1. view.at = "capMachines"
    BY <1>6 DEF buildCapabilities
  <2>2. view.kind = "catalog"
    BY <2>1 DEF CallTyped, NoCall
  <2>3. PICK login \in Logins, found \in SUBSET ms :
          \E kept \in Collected(view.rows, view.reqs, view.used, ms, Discoveries(found, login)) :
            \E shown \in Shown(kept) : view' = [view EXCEPT !.at = "done", !.answer = shown]
    BY <1>6 DEF buildCapabilities
  <2> DEFINE offers == Discoveries(found, login)
  <2>4. \A e \in offers : e.status = "requestable"
    BY EntryFacts
  <2> HIDE DEF offers, ms
  <2>5. PICK kept \in Collected(view.rows, view.reqs, view.used, ms, offers) :
          \E shown \in Shown(kept) : view' = [view EXCEPT !.at = "done", !.answer = shown]
    BY <2>3 DEF offers
  <2>6. PICK shown \in Shown(kept) : view' = [view EXCEPT !.at = "done", !.answer = shown]
    BY <2>5
  <2>7. /\ CallTyped' /\ view'.kind = "catalog" /\ view'.at = "done" /\ view'.changed = view.changed
        /\ view'.answer = shown
    BY <2>2, <2>6 DEF CallTyped
  <2>8. CatalogIsHonest'
    <3> SUFFICES ASSUME view.changed = 0 PROVE CatalogIsHonest'
      BY <2>7 DEF CatalogIsHonest
    <3>1. view.rows = listUserPermissions(grants) /\ view.reqs = Newest(asked, CapRequests)
      BY <2>1 DEF ReadsFollow
    <3>2. \A e \in kept : e.machine \in ms
      BY CollectedAreListed
    <3>3. /\ \A e \in kept, g \in EntriesOf(view.rows, "granted", "grant") :
               e.machine \in ms /\ e.status # "granted" => ~Covers(g, e)
          /\ \A e \in kept, w \in Waiting(view.reqs) :
               e.machine \in ms /\ e.status = "requestable" => ~Covers(w, e)
          /\ \A g \in EntriesOf(view.rows, "granted", "grant") :
               g.machine \in ms => \E e \in kept : e.status = "granted" /\ Covers(e, g)
      BY <2>4, CollectedFacts
    <3>4. /\ \A e \in kept, g \in Mine : e.status # "granted" => ~Covers(g, e)
          /\ \A e \in kept, w \in Waiting(Newest(asked, CapRequests)) : e.status = "requestable" => ~Covers(w, e)
          /\ \A g \in Mine : g.machine \in ms => \E e \in kept : e.status = "granted" /\ Covers(e, g)
      BY <3>1, <3>2, <3>3 DEF Mine
    <3>5. shown \subseteq kept /\ \A e \in shown, k \in kept \ shown : ~lessCapability(k, e)
      BY <2>6 DEF Shown
    <3>6. ASSUME NEW k \in kept \ shown, k.status = "granted", NEW e \in shown, e.status # "granted"
          PROVE  FALSE
      <4>1. capStatusRank(k) = 0 /\ capStatusRank(e) \in {1, 2}
        BY <3>6 DEF capStatusRank
      <4>2. lessCapability(k, e)
        BY <4>1 DEF lessCapability
      <4>3. QED
        BY <4>2, <3>5
    <3>7. \A g \in Mine : g.machine \in ms =>
            \/ \E e \in shown : e.status = "granted" /\ Covers(e, g)
            \/ \A e \in shown : e.status = "granted"
      BY <3>4, <3>6
    <3>8. Mine' = Mine /\ Waiting(Newest(asked, CapRequests))' = Waiting(Newest(asked, CapRequests))
      BY <1>0 DEF Mine
    <3>9. QED
      BY <2>7, <3>4, <3>5, <3>7, <3>8 DEF CatalogIsHonest, ms
  <2>9. DecisionFollows' /\ ReadsFollow' /\ ExplanationIsTrue' /\ EffectiveAgrees'
    BY <2>7 DEF DecisionFollows, ReadsFollow, ExplanationIsTrue, EffectiveAgrees, Answered
  <2>10. QED
    BY <1>1, <2>7, <2>8, <2>9
<1>7. QED
  BY <1>3, <1>4, <1>5, <1>6

\* Whatever changes while the calls read, what an explanation decided was the
\* decision as it began or is the one now, one change allowed, and a call that
\* saw no change has what the store says (explain.go, effective.go,
\* capabilities.go).
THEOREM ViewsInvariant == ViewsSpec => []ViewsInv
<1>1. ViewsInit => ViewsInv
  <2> SUFFICES ASSUME ViewsInit PROVE ViewsInv
    OBVIOUS
  <2>1. ViewsTypeOK
    BY ViewsAssumption DEF ViewsInit, ViewsTypeOK
  <2>2. CallTyped
    BY DEF ViewsInit, CallTyped, NoCall, SSHTypes
  <2>3. view.kind = "none" /\ view.at = "idle"
    BY DEF ViewsInit, NoCall
  <2>4. QED
    BY <2>1, <2>2, <2>3 DEF ViewsInv, DecisionFollows, ReadsFollow, ExplanationIsTrue, EffectiveAgrees, CatalogIsHonest, Answered
<1>2. ViewsInv /\ [ViewsNext]_viewVars => ViewsInv'
  <2> SUFFICES ASSUME ViewsInv, [ViewsNext]_viewVars PROVE ViewsInv'
    OBVIOUS
  <2>1. CASE explainAccess \/ listPairPermissions \/ listRequests
    BY <2>1, ExplainSteps
  <2>2. CASE checkUser \/ checkFails \/ authorizerCheck \/ checkLocal
    BY <2>2, DecisionSteps
  <2>3. CASE queryFails
    BY <2>3, FailureSteps
  <2>4. CASE effectiveUser \/ effectiveGrants
    BY <2>4, EffectiveSteps
  <2>5. CASE listCapabilities \/ capabilityRequests \/ capabilitySessions \/ buildCapabilities
    BY <2>5, CatalogSteps
  <2>6. CASE \/ changeRole \/ changeFGA \/ useAccess \/ makeGrant \/ lapseGrant \/ revokeGrant
             \/ makeRequest \/ decideRequest
    <3>1. ViewsTypeOK
      BY DEF ViewsInv
    <3>2. QED
      BY <2>6, <3>1, ChangesKeepTypes, ChangePreserves, ChangeTouchesOne
  <2>7. CASE UNCHANGED viewVars
    <3>0. UNCHANGED <<urole, fga, grants, asked, sessions, events, view>>
      BY <2>7 DEF viewVars
    <3>1. ViewsTypeOK' /\ CallTyped'
      BY <3>0 DEF ViewsInv, ViewsTypeOK, CallTyped
    <3>2. Began' = Began /\ Now' = Now /\ (OneDiffers' <=> OneDiffers)
      BY <3>0, QueriesLeaveDecision
    <3>3. DecisionFollows' /\ ReadsFollow'
      BY <3>0, <3>2 DEF ViewsInv, DecisionFollows, ReadsFollow
    <3>4. ExplanationIsTrue'
      BY <3>0 DEF ViewsInv, ExplanationIsTrue, Allows, Decision, InForce, HasPermissionWithRemoteUser,
            privilegedAccess, Answered
    <3>5. EffectiveAgrees'
      BY <3>0 DEF ViewsInv, EffectiveAgrees, Allows, Decision, CheckExactAccess, HasPermission,
            HasPermissionWithRemoteUser, privilegedAccess, Answered
    <3>6. CatalogIsHonest'
      BY <3>0 DEF ViewsInv, CatalogIsHonest, Mine, Answered
    <3>7. QED
      BY <3>1, <3>3, <3>4, <3>5, <3>6 DEF ViewsInv
  <2>8. QED
    BY <2>1, <2>2, <2>3, <2>4, <2>5, <2>6, <2>7 DEF ViewsNext
<1>3. QED
  BY <1>1, <1>2, PTL DEF ViewsSpec

\* For any inventory, any limits of the listings and any changes: an explanation
\* gives the decision of its beginning or its end when the store changed at most
\* once, and names what decides when it did not; the rows of effective access are
\* what the decision allows on the machines that are listed; and the catalog is
\* honest about the grants and the pending requests that were read.
THEOREM ViewsAlwaysAgree == ViewsSpec => []ViewsAgree
<1>1. ViewsInv => ViewsAgree
  BY DEF ViewsInv, ViewsAgree
<1>2. QED
  BY <1>1, ViewsInvariant, PTL
=============================================================================
