----------------------------- MODULE Directory -----------------------------
(***************************************************************************)
(* The directory of machines and accounts: the API, command-line and setup *)
(* handlers that enrol, edit and delete machines and that create and       *)
(* delete accounts, and the agent connection handler, which writes the     *)
(* machine record it loaded at authentication.  Each call of the store is  *)
(* a step, so handlers interleave between calls, and any call that writes  *)
(* may fail.                                                               *)
(*                                                                         *)
(* A machine record keeps what the properties tell apart: its tags, whether*)
(* it is active and the account its agent_id names.  The hostname and the  *)
(* port are written together with the tags; all machines here have one     *)
(* name, and no request renames one.  Row identifiers are the handler that *)
(* created the row, since each creates at most one.                        *)
(***************************************************************************)
EXTENDS Naturals, FiniteSets

CONSTANTS
    Registrations,  \* handlers of POST /register/agent
    Scripts,        \* handlers of POST /agents/install-script
    Locals,         \* runs of `orion-belt-server agent register`
    Creations,      \* handlers of POST /machines
    Editors,        \* handlers of PUT /machines/:id
    Deleters,       \* handlers of DELETE /machines/:id
    LocalDeletes,   \* runs of `orion-belt-server agent delete`
    Bootstraps,     \* anonymous handlers of POST /register/client
    Callers,        \* authenticated handlers of POST /register/client
    Adders,         \* handlers of POST /users
    Commands,       \* runs of `orion-belt-server user create`
    Setups,         \* runs of the setup wizard
    TagValues,      \* tags an administrator may set
    NoTags,         \* the tags a machine is enrolled with
    AgentIDs,       \* what a request may write in agent_id
    Nobody,           \* no row
    DirSessions     \* sessions that may be opened on a machine

Enrolments == Registrations \cup Scripts \cup Locals \cup Creations
Deleting == Deleters \cup LocalDeletes
Accounting == Bootstraps \cup Callers \cup Adders \cup Commands \cup Setups

\* A handler makes its requests once, and is told from the others.
ASSUME DirectoryAssumption ==
    /\ Nobody \notin Enrolments \cup Accounting
    /\ AgentIDs \subseteq Enrolments \cup {Nobody}
    /\ "link" \notin Editors \cup Deleters /\ Editors \cap Deleters = {}

NoEdit == [at |-> "idle", of |-> Nobody, want |-> NoTags]
NoDelete == [at |-> "idle", of |-> Nobody, seen |-> {}]

VARIABLES
    sshCA,      \* s.ca # nil: agents are identified by a host certificate
    machines,   \* rows of machines (all of one name, which is unique)
    agentUsers, \* rows of users that enrolment created for agents
    enrol,      \* where each enrolment handler is
    editing,    \* each editor: where it is, the record it writes, its tags
    del,        \* each deleter: where it is, the record and sessions it read
    link,       \* the agent connection: where it is and the record it holds
    rows,       \* rows of sessions of the machine
    copied,     \* sessions copied into a machine.delete audit entry
    dropped,    \* sessions whose row a delete of the API removed
    unaudited,  \* sessions whose row the delete command removed
    acked,      \* the machine and the tags of the last acknowledged edit
    stale,      \* writers that held a record when that edit was written
    lateRows,   \* sessions opened after a delete had listed the sessions
    failedUndo, \* agent users whose clean-up failed in the store
    handSet,    \* machines whose agent_id a PUT request changed
    people,     \* rows of users that people and commands created
    account,    \* where each account handler is
    firstLock   \* holder of the advisory lock of CreateFirstUser

machineVars == <<sshCA, machines, agentUsers, enrol, editing, del, link, rows,
                 copied, dropped, unaudited, acked, stale, lateRows, failedUndo,
                 handSet>>
accountVars == <<people, account, firstLock>>
dirVars == <<machineVars, accountVars>>

Machine == [id : Enrolments, tags : TagValues \cup {NoTags},
            active : BOOLEAN, agentID : Enrolments \cup {Nobody}]
Person == [id : Accounting, anonymous : BOOLEAN, admin : BOOLEAN]
EditStates == [at : {"idle", "read", "over"}, of : Machine \cup {Nobody},
               want : TagValues \cup {NoTags}]
DeleteStates == [at : {"idle", "read", "listed", "audited", "deleted", "over"},
                 of : Machine \cup {Nobody}, seen : SUBSET DirSessions]
LinkStates == [at : {"off", "loaded", "on"}, of : Machine \cup {Nobody}]

DirectoryTypeOK ==
    /\ sshCA \in BOOLEAN
    /\ machines \subseteq Machine /\ Cardinality(machines) <= 1
    /\ agentUsers \subseteq Enrolments
    /\ enrol \in [Enrolments -> {"idle", "absent", "user", "row", "undo",
                                "enrolled", "over"}]
    /\ editing \in [Editors -> EditStates] /\ del \in [Deleting -> DeleteStates]
    /\ link \in LinkStates
    /\ rows \subseteq DirSessions /\ copied \subseteq DirSessions
    /\ handSet \subseteq Enrolments
    /\ people \subseteq Person
    /\ account \in [Accounting -> {"idle", "absent", "locked", "empty", "over"}]
    /\ firstLock \in Accounting \cup {Nobody}

DirectoryInit ==
    /\ sshCA \in BOOLEAN
    /\ machines = {} /\ agentUsers = {}
    /\ enrol = [e \in Enrolments |-> "idle"]
    /\ editing = [d \in Editors |-> NoEdit]
    /\ del = [d \in Deleting |-> NoDelete]
    /\ link = [at |-> "off", of |-> Nobody]
    /\ rows = {} /\ copied = {} /\ dropped = {} /\ unaudited = {} /\ lateRows = {}
    /\ acked = [of |-> Nobody, tags |-> NoTags] /\ stale = {}
    /\ failedUndo = {} /\ handSet = {}
    /\ people = {} /\ account = [a \in Accounting |-> "idle"] /\ firstLock = Nobody

-----------------------------------------------------------------------------
(* The store. *)

GetMachineByName == machines

\* The insert of a machine fails when the name is taken, or for any other
\* reason the database gives.  POST /machines takes the flag and the agent_id
\* from the request; the others name the user they created, if they did.
CreateMachine(e) ==
    /\ machines = {}
    /\ \E on \in BOOLEAN, a \in AgentIDs \cup {e, Nobody} :
          /\ IF e \in Creations THEN a # e
                               ELSE ~on /\ a = (IF sshCA THEN Nobody ELSE e)
          /\ machines' = {[id |-> e, tags |-> NoTags, active |-> on, agentID |-> a]}

\* An update writes every column of the record in memory, and touches no row
\* when the machine is gone.
UpdateMachine(r) ==
    machines' = IF \E x \in machines : x.id = r.id THEN {r} ELSE machines

\* The delete takes the sessions of the machine with it.
DeleteMachine(id) ==
    LET gone == \E x \in machines : x.id = id IN
    /\ machines' = {x \in machines : x.id # id}
    /\ rows' = IF gone THEN {} ELSE rows

ListMachineSessions == rows

-----------------------------------------------------------------------------
(* Enrolment of an agent. *)

lookup(e) ==
    /\ enrol[e] = "idle"
    /\ enrol' = [enrol EXCEPT ![e] = IF GetMachineByName = {} THEN "absent"
                                     ELSE "over"]
    /\ UNCHANGED <<machines, agentUsers, rows, failedUndo>>

\* Without an SSH CA a synthetic user holds the agent's key.  Its name is
\* unique too, so the insert fails when another enrolment took it.
createAgentUser(e) ==
    /\ enrol[e] = "absent" /\ ~sshCA /\ e \notin Creations
    /\ \/ /\ agentUsers = {}
          /\ agentUsers' = {e}
          /\ enrol' = [enrol EXCEPT ![e] = "user"]
       \/ /\ enrol' = [enrol EXCEPT ![e] = "over"]
          /\ UNCHANGED agentUsers
    /\ UNCHANGED <<machines, rows, failedUndo>>

createRow(e) ==
    /\ \/ enrol[e] = "user"
       \/ enrol[e] = "absent" /\ (sshCA \/ e \in Creations)
    /\ \/ /\ CreateMachine(e)
          /\ enrol' = [enrol EXCEPT ![e] =
                IF sshCA /\ e \notin Creations THEN "row" ELSE "enrolled"]
       \/ /\ enrol' = [enrol EXCEPT ![e] = IF @ = "user" THEN "undo" ELSE "over"]
          /\ UNCHANGED machines
    /\ UNCHANGED <<agentUsers, rows, failedUndo>>

\* With an SSH CA the machine exists before its host certificate is issued.
issueHostCert(e) ==
    /\ enrol[e] = "row"
    /\ enrol' \in {[enrol EXCEPT ![e] = x] : x \in {"enrolled", "undo"}}
    /\ UNCHANGED <<machines, agentUsers, rows, failedUndo>>

\* Mutant: the machine and its user stay.
undo_Never(e) ==
    /\ enrol[e] = "undo"
    /\ enrol' = [enrol EXCEPT ![e] = "over"]
    /\ UNCHANGED <<machines, agentUsers, rows, failedUndo>>

\* The clean-up of a failed enrolment ignores its own error.
undo(e) ==
    /\ enrol[e] = "undo"
    /\ enrol' = [enrol EXCEPT ![e] = "over"]
    /\ \/ /\ sshCA
          /\ DeleteMachine(e)
          /\ UNCHANGED <<agentUsers, failedUndo>>
       \/ /\ ~sshCA
          /\ agentUsers' = agentUsers \ {e}
          /\ UNCHANGED <<machines, rows, failedUndo>>
       \/ /\ failedUndo' = failedUndo \cup {e}
          /\ UNCHANGED <<machines, agentUsers, rows>>

EnrolSteps(e) ==
    /\ \/ lookup(e) \/ createAgentUser(e) \/ createRow(e)
       \/ issueHostCert(e) \/ undo(e)
    /\ UNCHANGED <<sshCA, editing, del, link, copied, dropped, unaudited, acked,
                   stale, lateRows, handSet, accountVars>>

registerAgent(e) == e \in Registrations /\ EnrolSteps(e)
generateAgentInstallScript(e) == e \in Scripts /\ EnrolSteps(e)
runAgentRegister(e) == e \in Locals /\ EnrolSteps(e)
createMachine(e) == e \in Creations /\ EnrolSteps(e)

-----------------------------------------------------------------------------
(* Edits of a machine. *)

\* Whoever holds a record it may still write back.
Holders == {d \in Editors : editing[d].at = "read"}
           \cup {d \in Deleters : del[d].at = "read"} \* to archive
           \cup (IF link.at = "off" THEN {} ELSE {"link"})

\* The records a request may make of the one it read: what it does not name
\* stays as it was read, tags (NoTags when it names none) included.
Edited(r, want) ==
    [id : {r.id}, tags : {IF want = NoTags THEN r.tags ELSE want}, active : BOOLEAN,
     agentID : AgentIDs \cup {r.agentID}]

readForEdit(d) ==
    /\ editing[d].at = "idle"
    /\ \E r \in machines, w \in TagValues \cup {NoTags} : \E n \in Edited(r, w) :
          editing' = [editing EXCEPT ![d] = [at |-> "read", of |-> n, want |-> w]]
    /\ UNCHANGED <<machines, acked, stale, handSet>>

writeEdit(d) ==
    /\ editing[d].at = "read"
    /\ editing' = [editing EXCEPT ![d] = [NoEdit EXCEPT !.at = "over"]]
    /\ \/ LET n == editing[d].of
              row == {x \in machines : x.id = n.id} IN
          /\ UpdateMachine(n)
          /\ handSet' = handSet \cup {x.id : x \in {y \in row : y.agentID # n.agentID}}
          /\ IF row # {} /\ editing[d].want # NoTags
             THEN /\ acked' = [of |-> n.id, tags |-> editing[d].want]
                  /\ stale' = Holders \ {d}
             ELSE UNCHANGED <<acked, stale>>
       \/ UNCHANGED <<machines, acked, stale, handSet>>

updateMachine(d) ==
    /\ readForEdit(d) \/ writeEdit(d)
    /\ UNCHANGED <<sshCA, agentUsers, enrol, del, link, rows, copied, dropped,
                   unaudited, lateRows, failedUndo, accountVars>>

-----------------------------------------------------------------------------
(* Deletion of a machine. *)

doneDeleting(d) == [del EXCEPT ![d] = [NoDelete EXCEPT !.at = "over"]]

readForDelete(d) ==
    /\ del[d].at = "idle"
    /\ \E r \in machines :
          del' = [del EXCEPT ![d] = [at |-> "read", of |-> r, seen |-> {}]]
    /\ UNCHANGED <<machines, agentUsers, link, rows, copied, dropped, unaudited, failedUndo>>

\* archive=true only clears the flag, by writing back the record read.
archive(d) ==
    /\ del[d].at = "read"
    /\ del' = doneDeleting(d)
    /\ UpdateMachine([del[d].of EXCEPT !.active = FALSE]) \/ UNCHANGED machines
    /\ UNCHANGED <<agentUsers, link, rows, copied, dropped, unaudited, failedUndo>>

listSessions(d) ==
    /\ del[d].at = "read"
    /\ del' \in {[del EXCEPT ![d].at = "listed", ![d].seen = ListMachineSessions],
                 doneDeleting(d)}
    /\ UNCHANGED <<machines, agentUsers, link, rows, copied, dropped, unaudited, failedUndo>>

\* The delete stops if the audit entry cannot be written.
writeAudit(d) ==
    /\ del[d].at = "listed"
    /\ \/ /\ copied' = copied \cup del[d].seen
          /\ del' = [del EXCEPT ![d].at = "audited"]
       \/ /\ del' = doneDeleting(d)
          /\ UNCHANGED copied
    /\ UNCHANGED <<machines, agentUsers, link, rows, dropped, unaudited, failedUndo>>

\* Deleting a row that is gone is an error, which ends the handler.
afterDelete(d) ==
    LET present == \E x \in machines : x.id = del[d].of.id IN
    del' = IF present /\ del[d].of.agentID # Nobody
           THEN [del EXCEPT ![d] = [@ EXCEPT !.at = "deleted", !.seen = {}]]
           ELSE doneDeleting(d)

\* DisconnectAgent comes first: it closes the connection, whose own handler
\* then runs to its end, which it may do at any time here.
deleteRow(d) ==
    /\ del[d].at = "audited"
    /\ \/ /\ DeleteMachine(del[d].of.id)
          /\ dropped' = dropped \cup (rows \ rows')
          /\ afterDelete(d)
       \/ /\ del' = doneDeleting(d)
          /\ UNCHANGED <<machines, rows, dropped>>
    /\ UNCHANGED <<agentUsers, link, copied, unaudited, failedUndo>>

\* A failure to delete the agent's user is only logged.
deleteAgentUser(d) ==
    /\ del[d].at = "deleted"
    /\ del' = doneDeleting(d)
    /\ \/ agentUsers' = agentUsers \ {del[d].of.agentID} /\ UNCHANGED failedUndo
       \/ failedUndo' = failedUndo \cup {del[d].of.agentID} /\ UNCHANGED agentUsers
    /\ UNCHANGED <<machines, link, rows, copied, dropped, unaudited>>

deleteMachine(d) ==
    /\ d \in Deleters
    /\ \/ readForDelete(d) \/ archive(d) \/ listSessions(d) \/ writeAudit(d)
       \/ deleteRow(d) \/ deleteAgentUser(d)
    /\ UNCHANGED <<sshCA, enrol, editing, acked, stale, lateRows, handSet, accountVars>>

\* The command deletes the row first: it writes an entry without the sessions
\* afterwards, and leaves the agent's connection alone.
commandDelete(d) ==
    /\ del[d].at = "read"
    /\ \/ /\ DeleteMachine(del[d].of.id)
          /\ unaudited' = unaudited \cup (rows \ rows')
          /\ afterDelete(d)
       \/ /\ del' = doneDeleting(d)
          /\ UNCHANGED <<machines, rows, unaudited>>
    /\ UNCHANGED <<agentUsers, link, copied, dropped, failedUndo>>

runAgentDelete(d) ==
    /\ d \in LocalDeletes
    /\ readForDelete(d) \/ commandDelete(d) \/ deleteAgentUser(d)
    /\ UNCHANGED <<sshCA, enrol, editing, acked, stale, lateRows, handSet, accountVars>>

-----------------------------------------------------------------------------
(* The agent connection and the sessions on the machine. *)

\* Authentication loads the record that the connection keeps to its end.  An
\* agent without a certificate is the account that the agent_id names.
agentAuthenticates ==
    /\ link.at = "off"
    /\ \E r \in machines : /\ enrol[r.id] = "enrolled"
                           /\ sshCA \/ r.agentID \in agentUsers
                           /\ link' = [at |-> "loaded", of |-> r]
    /\ UNCHANGED machines

agentConnects ==
    /\ link.at = "loaded"
    /\ link' = [at |-> "on", of |-> [link.of EXCEPT !.active = TRUE]]
    /\ UpdateMachine(link'.of) \/ UNCHANGED machines

agentDisconnects ==
    /\ link.at = "on"
    /\ link' = [at |-> "off", of |-> Nobody]
    /\ UpdateMachine([link.of EXCEPT !.active = FALSE]) \/ UNCHANGED machines

handleAgentConnection ==
    /\ agentAuthenticates \/ agentConnects \/ agentDisconnects
    /\ UNCHANGED <<sshCA, agentUsers, enrol, editing, del, rows, copied, dropped,
                   unaudited, acked, stale, lateRows, failedUndo, handSet, accountVars>>

\* A session row references its machine, so it needs the row to exist.
openSession(s) ==
    /\ machines # {} /\ link.at = "on"
    /\ s \notin rows \cup dropped \cup unaudited
    /\ rows' = rows \cup {s}
    /\ lateRows' = IF \E d \in Deleters : del[d].at \in {"listed", "audited"}
                   THEN lateRows \cup {s} ELSE lateRows
    /\ UNCHANGED <<sshCA, machines, agentUsers, enrol, editing, del, link, copied,
                   dropped, unaudited, acked, stale, failedUndo, handSet, accountVars>>

-----------------------------------------------------------------------------
(* Accounts.  Names are not modelled: the insert of a person may fail for   *)
(* any reason, a name that is taken among them.                            *)

Insert(a, anonymous, admin) ==
    people' = people \cup {[id |-> a, anonymous |-> anonymous, admin |-> admin]}

\* pg_advisory_xact_lock.
lockFirstUser(a) == firstLock = Nobody

\* One transaction: the advisory lock, the check, the insert and the commit,
\* which releases the lock.  Only CreateFirstUser takes this lock.
CreateFirstUser(a) ==
    \/ /\ account[a] = "idle" /\ lockFirstUser(a)
       /\ firstLock' = a /\ account' = [account EXCEPT ![a] = "locked"]
       /\ UNCHANGED people
    \/ /\ account[a] = "locked" /\ people = {}
       /\ account' = [account EXCEPT ![a] = "empty"]
       /\ UNCHANGED <<people, firstLock>>
    \/ /\ account[a] = "locked" /\ people # {}
       /\ account' = [account EXCEPT ![a] = "over"]
       /\ firstLock' = Nobody /\ UNCHANGED people
    \/ /\ account[a] = "empty"
       /\ account' = [account EXCEPT ![a] = "over"] /\ firstLock' = Nobody
       /\ Insert(a, TRUE, TRUE) \/ UNCHANGED people

CreateUser(a, admin) ==
    /\ account' = [account EXCEPT ![a] = "over"]
    /\ Insert(a, FALSE, admin) \/ UNCHANGED people
    /\ UNCHANGED firstLock

\* The caller is checked before any of this; only an admin makes an admin.
lookupPerson(a) ==
    /\ account[a] = "idle"
    /\ account' \in {[account EXCEPT ![a] = x] : x \in {"absent", "over"}}
    /\ UNCHANGED <<people, firstLock>>

registerClient(a) ==
    /\ \/ a \in Bootstraps /\ CreateFirstUser(a)
       \/ a \in Callers /\ people # {} /\ lookupPerson(a)
       \/ a \in Callers /\ account[a] = "absent" /\ \E adm \in BOOLEAN : CreateUser(a, adm)
    /\ UNCHANGED machineVars

createUser(a) ==
    /\ a \in Adders /\ account[a] = "idle" /\ people # {}
    /\ \E adm \in BOOLEAN : CreateUser(a, adm)
    /\ UNCHANGED machineVars

\* The command works on the store directly and needs no account.
runUserCreate(a) ==
    /\ a \in Commands
    /\ \/ lookupPerson(a)
       \/ account[a] = "absent" /\ \E adm \in BOOLEAN : CreateUser(a, adm)
    /\ UNCHANGED machineVars

\* The wizard creates an admin when it finds none.
runSetup(a) ==
    /\ a \in Setups
    /\ \/ /\ account[a] = "idle"
          /\ account' = [account EXCEPT ![a] =
                IF \E p \in people : p.admin THEN "over" ELSE "absent"]
          /\ UNCHANGED <<people, firstLock>>
       \/ account[a] = "absent" /\ CreateUser(a, TRUE)
    /\ UNCHANGED machineVars

DeleteUser(p) ==
    /\ people' = people \ {p}
    /\ UNCHANGED <<account, firstLock, machineVars>>

\* Only an admin may delete an admin; an admin is there to do it.
deleteUser(p) == (p.admin => \E q \in people : q.admin) /\ DeleteUser(p)
runUserDelete(p) == DeleteUser(p)

-----------------------------------------------------------------------------
MachinesNext ==
    \/ \E e \in Enrolments : \/ registerAgent(e) \/ generateAgentInstallScript(e)
                             \/ runAgentRegister(e) \/ createMachine(e)
    \/ \E d \in Editors : updateMachine(d)
    \/ \E d \in Deleting : deleteMachine(d) \/ runAgentDelete(d)
    \/ handleAgentConnection
    \/ \E s \in DirSessions : openSession(s)

AccountsNext ==
    \/ \E a \in Accounting : \/ registerClient(a) \/ createUser(a)
                             \/ runUserCreate(a) \/ runSetup(a)
    \/ \E p \in people : deleteUser(p) \/ runUserDelete(p)

DirectorySpec == DirectoryInit /\ [][MachinesNext \/ AccountsNext]_dirVars

-----------------------------------------------------------------------------
(* Two anonymous registrations never both leave an account: the lock covers *)
(* the check and the insert, even when accounts are also deleted and the    *)
(* setup wizard adds one at the same time.                                 *)
BootstrapOnce == Cardinality({p \in people : p.anonymous}) <= 1

(* A failed enrolment cleans up after itself: the account of an agent has  *)
(* its machine, unless its enrolment or a delete of a machine of its is     *)
(* still between its two rows, and a machine whose enrolment failed is      *)
(* gone; both unless the clean-up itself failed in the store.  The accounts *)
(* of machines whose agent_id a request changed are left out: that write    *)
(* leaves the old account behind, and no handler removes it.               *)
FailedEnrolmentLeavesNothing ==
    /\ \A u \in agentUsers \ (failedUndo \cup handSet) :
        \/ \E x \in machines : x.id = u /\ x.agentID = u
        \/ enrol[u] \in {"user", "undo"}
        \/ \E d \in Deleting : del[d].at = "deleted" /\ del[d].of.agentID = u
    /\ \A x \in machines : enrol[x.id] = "over" => x.id \in failedUndo

(* The tags an acknowledged edit set are lost only to a writer that held a *)
(* record when the edit was written: the agent's connection, which keeps   *)
(* the record of its authentication to its end, or an overlapping request. *)
EditLostOnlyToHolder ==
    \A x \in machines : (x.id = acked.of /\ x.tags # acked.tags) => stale # {}

(* What a doc says of the tags: a machine that was tagged stays tagged.    *)
TagStays == \A x \in machines : x.id = acked.of => x.tags = acked.tags

(* A session whose row the API deleted with its machine is in the audit    *)
(* entry, unless it was opened after the delete had listed the sessions.   *)
SessionsKeptUnlessLate == dropped \subseteq copied \cup lateRows

(* What the comment of deleteMachine says: the rows that cascade away are  *)
(* copied into the audit entry first.                                      *)
EverySessionKept == dropped \subseteq copied

(* The rows of machines, agents and accounts stay consistent through       *)
(* enrolment, edits, deletion and bootstrap.                               *)
DirectoryIsConsistent ==
    /\ DirectoryTypeOK /\ BootstrapOnce /\ FailedEnrolmentLeavesNothing
    /\ EditLostOnlyToHolder /\ SessionsKeptUnlessLate
=============================================================================
