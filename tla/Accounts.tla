------------------------------- MODULE Accounts -------------------------------
(***************************************************************************)
(* One user's account and the calls that change it: TOTP enrolment and its  *)
(* backup codes (pkg/api/mfa.go), the password (pkg/api/password.go),       *)
(* passkeys (pkg/api/webauthn.go), the second factor of the key logins, and *)
(* the administrator's edits (pkg/api/api.go).  Every call is a goroutine:  *)
(* it reads the row, works on its copy, and UpdateUser writes the WHOLE row *)
(* back, so a call may overwrite what another wrote since it read.          *)
(*                                                                         *)
(* A TOTP secret is named by the call that generated it and stands for its  *)
(* backup codes too, of which one is followed; a passkey is named by the    *)
(* call that registered it.  A TOTP code is good for the secret it is       *)
(* checked against ("totp"), or not ("bad").                                *)
(***************************************************************************)
EXTENDS Naturals, FiniteSets

CONSTANTS
    AccountCalls,  \* the requests
    OldSecret, OldPasskey,  \* what the account may start with
    Nothing

ASSUME AccountAssumption ==
    /\ {OldSecret, OldPasskey, Nothing} \cap AccountCalls = {}
    /\ Nothing \notin {OldSecret, OldPasskey}

VARIABLES
    row,       \* the users row
    pending,   \* pendingEnrollments[user]: the secret offered, or Nothing
    passkeys,  \* the webauthn_credentials rows
    ceremony,  \* webauthnSessions: the "reg:" and the "login:" entry
    call,      \* each request: what it does, where it is, its copies
    \* what the properties remember
    version,   \* how often the row or the passkeys were written
    stale,     \* some write was made from a copy read before another write
    failed,    \* some UpdateUser failed
    accepts,   \* how often the backup code of a secret was accepted since the
               \* row was last given that secret
    given      \* the admin role was last given by an administrator

accountVars == <<row, pending, passkeys, ceremony, call, version, stale, failed, accepts, given>>
accountMemory == <<version, stale, failed, accepts, given>>

Secrets == AccountCalls \cup {OldSecret}
Row == [exists : BOOLEAN, role : {"user", "admin"}, mfa : BOOLEAN,
        secret : Secrets \cup {Nothing}, backup : BOOLEAN,
        password : BOOLEAN, passkey : BOOLEAN]
NoRow == [exists |-> FALSE, role |-> "user", mfa |-> FALSE, secret |-> Nothing,
          backup |-> FALSE, password |-> FALSE, passkey |-> FALSE]
Unused == [work |-> "none", pc |-> "idle", mine |-> NoRow, version |-> 0,
           code |-> "bad", pending |-> Nothing, keys |-> {}, key |-> Nothing]
Works == {"mfaEnroll", "mfaDisable", "setPassword", "clearPassword", "loginWithPassword",
          "enforceMFAAfterPubkey", "updateUser", "deleteUser", "webauthnRegisterFinish"}

\* The calls that carry no second factor code.
Uncoded == {"mfaEnroll", "updateUser", "deleteUser", "webauthnRegisterFinish"}

Passkeys == AccountCalls \cup {OldPasskey}
CallPcs == {"idle", "get", "got", "forget", "take", "store", "flag", "remove",
            "reread", "unflag", "verified", "create", "validated", "session", "done"}
CallStates ==
    [work : Works \cup {"none", "mfaConfirm", "webauthnDelete",
                         "webauthnLoginBegin", "webauthnLoginFinish"},
     pc : CallPcs, mine : Row, version : Nat, code : {"totp", "backup", "bad"},
     pending : Secrets \cup {Nothing}, keys : SUBSET Passkeys,
     key : Passkeys \cup {Nothing}]

AccountsTypeOK ==
    /\ row \in Row
    /\ pending \in Secrets \cup {Nothing}
    /\ passkeys \subseteq Passkeys /\ IsFiniteSet(passkeys)
    /\ ceremony \in [reg : BOOLEAN, login : AccountCalls \cup {Nothing}]
    /\ call \in [AccountCalls -> CallStates]
    /\ \A c \in AccountCalls : call[c].version <= version
    /\ version \in Nat /\ stale \in BOOLEAN /\ failed \in BOOLEAN /\ given \in BOOLEAN
    /\ accepts \in [Secrets -> Nat]

AccountsInit ==
    /\ \E mfa, pw, key \in BOOLEAN, role \in {"user", "admin"} :
          /\ pw => mfa
          /\ row = [exists |-> TRUE, role |-> role, mfa |-> mfa,
                    secret |-> IF mfa THEN OldSecret ELSE Nothing,
                    backup |-> mfa, password |-> pw, passkey |-> key]
          /\ passkeys = IF key THEN {OldPasskey} ELSE {}
          /\ given = (role = "admin")
    /\ pending = Nothing
    /\ ceremony = [reg |-> FALSE, login |-> Nothing]
    /\ call = [c \in AccountCalls |-> Unused]
    /\ version = 0 /\ stale = FALSE /\ failed = FALSE
    /\ accepts = [s \in Secrets |-> 0]

-----------------------------------------------------------------------------
\* The store

\* A request's bookkeeping: where it goes next.
GoTo(c, l) == call' = [call EXCEPT ![c].pc = l]
Finish(c) == call' = [call EXCEPT ![c] = [Unused EXCEPT !.pc = "done"]]
\* ... when it also wrote: its copy is as new as its own write.
GoOn(c, l) == call' = [call EXCEPT ![c].pc = l, ![c].version = version']

\* Something of the account is written by c.
Touch(c) ==
    /\ version' = version + 1
    /\ stale' = (stale \/ call[c].version # version)

\* UpdateUser writes every column of u; it fails when the row is gone, and it
\* may fail for reasons of the database's own.
UpdateUser(c, u, ok) ==
    /\ ok => row.exists
    /\ IF ok THEN row' = u /\ Touch(c) /\ UNCHANGED failed
             ELSE failed' = TRUE /\ UNCHANGED <<row, version, stale>>

\* GetUser, GetUserByUsername: the request's copy of the row.  The request is
\* as old as its first read.
GetUser(c, work, code) ==
    /\ call[c].pc = "idle"
    /\ call' = [call EXCEPT ![c].work = work, ![c].code = code, ![c].mine = row,
                            ![c].version = version,
                            ![c].pc = IF row.exists THEN "got" ELSE "done"]
    /\ UNCHANGED <<row, pending, passkeys, ceremony, accountMemory>>

At(c, work) == call[c].pc = "got" /\ call[c].work = work

-----------------------------------------------------------------------------
\* The second factor

\* Mutant: the backup code is not taken out of the store.
ValidateMFACode_Kept(u, code) ==
    [ok |-> code = "totp" \/ (code = "backup" /\ u.backup), left |-> u.backup]

\* ValidateMFACode: a TOTP code, or a backup code not used yet, which is then
\* taken out of the codes left.
ValidateMFACode(u, code) ==
    [ok |-> code = "totp" \/ (code = "backup" /\ u.backup),
     left |-> u.backup /\ code # "backup"]

Validated(c) == ValidateMFACode(call[c].mine, call[c].code)
Count(c) == accepts' = IF call[c].code # "backup" THEN accepts
                       ELSE [accepts EXCEPT ![call[c].mine.secret] = @ + 1]
Renew(s, ok) == accepts' = IF ok THEN [accepts EXCEPT ![s] = 0] ELSE accepts
Refuse(c) == Finish(c) /\ UNCHANGED <<row, pending, passkeys, ceremony, accountMemory>>

\* mfaEnroll: an account with the factor on is refused, else a new secret is
\* offered, in the place of one offered before.
mfaEnroll(c) ==
    /\ At(c, "mfaEnroll")
    /\ pending' = IF call[c].mine.mfa THEN pending ELSE c
    /\ Finish(c)
    /\ UNCHANGED <<row, passkeys, ceremony, accountMemory>>

\* mfaConfirm: the offered secret is loaded and the code checked against it,
mfaConfirmLoad(c) ==
    /\ call[c].pc = "idle" /\ pending # Nothing
    /\ call' = [call EXCEPT ![c].work = "mfaConfirm", ![c].pc = "get", ![c].pending = pending,
                            ![c].version = version]
    /\ UNCHANGED <<row, pending, passkeys, ceremony, accountMemory>>

\* ... the row is read,
mfaConfirmGet(c) ==
    /\ call[c].pc = "get"
    /\ call' = [call EXCEPT ![c].mine = row, ![c].pc = IF row.exists THEN "got" ELSE "done"]
    /\ UNCHANGED <<row, pending, passkeys, ceremony, accountMemory>>

\* ... the factor is turned on with the secret,
mfaConfirm(c) ==
    /\ At(c, "mfaConfirm")
    /\ \E ok \in BOOLEAN :
          /\ UpdateUser(c, [call[c].mine EXCEPT !.mfa = TRUE, !.secret = call[c].pending,
                                                !.backup = TRUE], ok)
          /\ Renew(call[c].pending, ok)
          /\ GoOn(c, IF ok THEN "forget" ELSE "done")
    /\ UNCHANGED <<pending, passkeys, ceremony, given>>

\* ... and whatever is offered now is forgotten.
mfaConfirmForget(c) ==
    /\ call[c].pc = "forget"
    /\ pending' = Nothing
    /\ Finish(c)
    /\ UNCHANGED <<row, passkeys, ceremony, accountMemory>>

\* mfaDisable: refused while a password is set, but the code is spent.
mfaDisable(c) ==
    /\ At(c, "mfaDisable")
    /\ LET u == call[c].mine IN
       IF ~u.mfa \/ ~Validated(c).ok \/ (u.password /\ Validated(c).left = u.backup)
       THEN UNCHANGED <<row, accountMemory>>
       ELSE /\ \E ok \in BOOLEAN :
                 /\ UpdateUser(c, IF u.password THEN [u EXCEPT !.backup = Validated(c).left]
                                  ELSE [u EXCEPT !.mfa = FALSE, !.secret = Nothing,
                                                 !.backup = FALSE], ok)
                 /\ IF ok THEN Count(c) ELSE UNCHANGED accepts
            /\ UNCHANGED given
    /\ Finish(c)
    /\ UNCHANGED <<pending, passkeys, ceremony>>

\* enforceMFAAfterPubkey, for login, loginWithKey and loginJWT when
\* auth.mfa_required is set, and the second step of loginWithPassword: the
\* code is checked on the copy, and the codes left are written back; the
\* login goes on whether or not that write succeeds.
SpendAtLogin(c) ==
    /\ IF Validated(c).left = call[c].mine.backup
       THEN UNCHANGED <<row, version, stale, failed>>
       ELSE \E ok \in BOOLEAN :
                UpdateUser(c, [call[c].mine EXCEPT !.backup = Validated(c).left], ok)
    /\ Count(c)
    /\ Finish(c)
    /\ UNCHANGED <<pending, passkeys, ceremony, given>>

enforceMFAAfterPubkey(c) ==
    /\ At(c, "enforceMFAAfterPubkey")
    /\ IF call[c].mine.mfa /\ Validated(c).ok THEN SpendAtLogin(c) ELSE Refuse(c)

loginWithPassword(c) ==
    /\ At(c, "loginWithPassword")
    /\ IF call[c].mine.password /\ call[c].mine.mfa /\ Validated(c).ok
       THEN SpendAtLogin(c) ELSE Refuse(c)

-----------------------------------------------------------------------------
\* The password

\* setPassword with the factor on: a code is checked and spent.
setPassword(c) ==
    /\ At(c, "setPassword") /\ call[c].mine.mfa
    /\ IF ~Validated(c).ok THEN Refuse(c)
       ELSE /\ \E ok \in BOOLEAN :
                 /\ UpdateUser(c, [call[c].mine EXCEPT !.backup = Validated(c).left,
                                                       !.password = TRUE], ok)
                 /\ IF ok THEN Count(c) ELSE UNCHANGED accepts
            /\ Finish(c)
            /\ UNCHANGED <<pending, passkeys, ceremony, given>>

\* setPassword without it: the offered secret is loaded and the code checked
\* against that,
setPasswordLoad(c) ==
    /\ At(c, "setPassword") /\ ~call[c].mine.mfa
    /\ IF pending = Nothing \/ call[c].code # "totp" THEN Finish(c)
       ELSE call' = [call EXCEPT ![c].pending = pending, ![c].pc = "take"]
    /\ UNCHANGED <<row, pending, passkeys, ceremony, accountMemory>>

\* ... the offer is deleted,
setPasswordTake(c) ==
    /\ call[c].pc = "take"
    /\ pending' = Nothing
    /\ GoTo(c, "store")
    /\ UNCHANGED <<row, passkeys, ceremony, accountMemory>>

\* ... and the factor and the password are written together.
setPasswordStore(c) ==
    /\ call[c].pc = "store"
    /\ \E ok \in BOOLEAN :
          /\ UpdateUser(c, [call[c].mine EXCEPT !.mfa = TRUE, !.secret = call[c].pending,
                                                !.backup = TRUE, !.password = TRUE], ok)
          /\ Renew(call[c].pending, ok)
    /\ Finish(c)
    /\ UNCHANGED <<pending, passkeys, ceremony, given>>

clearPassword(c) ==
    /\ At(c, "clearPassword")
    /\ IF ~(call[c].mine.password /\ call[c].mine.mfa /\ Validated(c).ok) THEN Refuse(c)
       ELSE /\ \E ok \in BOOLEAN :
                 /\ UpdateUser(c, [call[c].mine EXCEPT !.backup = Validated(c).left,
                                                       !.password = FALSE], ok)
                 /\ IF ok THEN Count(c) ELSE UNCHANGED accepts
            /\ Finish(c)
            /\ UNCHANGED <<pending, passkeys, ceremony, given>>

-----------------------------------------------------------------------------
\* The administrator's edits

\* An operator may neither change an admin account nor make one.
MayEdit(admin, u, ask) == admin \/ (u.role # "admin" /\ ask # "admin")

\* updateUser, for a caller that is an admin or an operator: e-mail and key,
\* or the role too.
updateUser(c) ==
    /\ At(c, "updateUser")
    /\ \E admin, ok \in BOOLEAN, ask \in {"keep", "user", "admin"} :
          IF ~MayEdit(admin, call[c].mine, ask) THEN UNCHANGED <<row, accountMemory>>
          ELSE /\ UpdateUser(c, [call[c].mine EXCEPT !.role = IF ask = "keep" THEN @ ELSE ask], ok)
               /\ given' = IF ok /\ ask # "keep" THEN ask = "admin" /\ admin ELSE given
               /\ UNCHANGED accepts
    /\ Finish(c)
    /\ UNCHANGED <<pending, passkeys, ceremony>>

\* deleteUser: the row goes, and its passkeys with it.
deleteUser(c) ==
    /\ At(c, "deleteUser")
    /\ \E admin \in BOOLEAN :
          IF ~row.exists \/ ~MayEdit(admin, call[c].mine, "keep")
          THEN UNCHANGED <<row, passkeys, version, stale>>
          ELSE row' = [row EXCEPT !.exists = FALSE] /\ passkeys' = {} /\ Touch(c)
    /\ Finish(c)
    /\ UNCHANGED <<pending, ceremony, failed, accepts, given>>

-----------------------------------------------------------------------------
\* Passkeys

\* webauthnRegisterBegin stores the registration ceremony.
webauthnRegisterBegin ==
    /\ row.exists /\ ~ceremony.reg
    /\ ceremony' = [ceremony EXCEPT !.reg = TRUE]
    /\ UNCHANGED <<row, pending, passkeys, call, accountMemory>>

\* webauthnRegisterFinish, with the row read first: the ceremony is loaded and
\* the answer checked against it,
webauthnRegisterLoad(c) ==
    /\ At(c, "webauthnRegisterFinish")
    /\ IF ceremony.reg THEN GoTo(c, "verified") ELSE Finish(c)
    /\ UNCHANGED <<row, pending, passkeys, ceremony, accountMemory>>

\* ... whatever ceremony is there now is deleted,
webauthnRegisterForget(c) ==
    /\ call[c].pc = "verified"
    /\ GoTo(c, "create")
    /\ ceremony' = [ceremony EXCEPT !.reg = FALSE]
    /\ UNCHANGED <<row, pending, passkeys, accountMemory>>

\* ... the credential is stored, unless the user is gone,
webauthnRegisterFinish(c) ==
    /\ call[c].pc = "create"
    /\ IF row.exists
       THEN passkeys' = passkeys \cup {c} /\ Touch(c) /\ GoOn(c, "flag")
       ELSE Finish(c) /\ UNCHANGED <<passkeys, version, stale>>
    /\ UNCHANGED <<row, pending, ceremony, failed, accepts, given>>

\* ... and the flag is written, in the row read at the start; an error is
\* ignored.
webauthnRegisterFlag(c) ==
    /\ call[c].pc = "flag"
    /\ \E ok \in BOOLEAN : UpdateUser(c, [call[c].mine EXCEPT !.passkey = TRUE], ok)
    /\ Finish(c)
    /\ UNCHANGED <<pending, passkeys, ceremony, accepts, given>>

\* webauthnDelete: the user's credentials are listed,
webauthnDeleteList(c, k) ==
    /\ call[c].pc = "idle" /\ k \in passkeys
    /\ call' = [call EXCEPT ![c].work = "webauthnDelete", ![c].pc = "remove", ![c].key = k,
                            ![c].keys = passkeys, ![c].version = version]
    /\ UNCHANGED <<row, pending, passkeys, ceremony, accountMemory>>

\* The one deleted was the last the list showed.
LastPasskey(keys) == Cardinality(keys) <= 1

\* ... the one named is deleted (an error when it is gone already),
webauthnDelete(c) ==
    /\ call[c].pc = "remove"
    /\ IF call[c].key \in passkeys
       THEN /\ passkeys' = passkeys \ {call[c].key} /\ Touch(c)
            /\ GoOn(c, IF LastPasskey(call[c].keys) THEN "reread" ELSE "done")
       ELSE Finish(c) /\ UNCHANGED <<passkeys, version, stale>>
    /\ UNCHANGED <<row, pending, ceremony, failed, accepts, given>>

\* ... and for the last one the row is read,
webauthnDeleteGet(c) ==
    /\ call[c].pc = "reread"
    /\ call' = [call EXCEPT ![c].mine = row, ![c].pc = IF row.exists THEN "unflag" ELSE "done"]
    /\ UNCHANGED <<row, pending, passkeys, ceremony, accountMemory>>

\* ... and written without the flag; an error is ignored.
webauthnDeleteFlag(c) ==
    /\ call[c].pc = "unflag"
    /\ \E ok \in BOOLEAN : UpdateUser(c, [call[c].mine EXCEPT !.passkey = FALSE], ok)
    /\ Finish(c)
    /\ UNCHANGED <<pending, passkeys, ceremony, accepts, given>>

\* webauthnLoginBegin stores the login ceremony of the user name, in the place
\* of one begun before.
webauthnLoginBegin(c) ==
    /\ call[c].pc = "idle" /\ row.exists /\ passkeys # {}
    /\ ceremony' = [ceremony EXCEPT !.login = c]
    /\ call' = [call EXCEPT ![c].work = "webauthnLoginBegin", ![c].pc = "done"]
    /\ UNCHANGED <<row, pending, passkeys, accountMemory>>

\* webauthnLoginFinish: user, credentials and ceremony are loaded and the
\* assertion validated,
webauthnLoginLoad(c) ==
    /\ call[c].pc = "idle" /\ row.exists /\ passkeys # {} /\ ceremony.login # Nothing
    /\ call' = [call EXCEPT ![c].work = "webauthnLoginFinish", ![c].pc = "validated",
                            ![c].mine = row, ![c].keys = passkeys, ![c].version = version]
    /\ UNCHANGED <<row, pending, passkeys, ceremony, accountMemory>>

\* ... whatever ceremony is stored now is deleted, the credential's counters
\* are saved if it is still there, and the session is created; the session row
\* needs the user row.
webauthnLoginFinish(c) ==
    /\ call[c].pc = "validated"
    /\ ceremony' = [ceremony EXCEPT !.login = Nothing]
    /\ GoTo(c, IF row.exists THEN "session" ELSE "done")
    /\ UNCHANGED <<row, pending, passkeys, accountMemory>>

-----------------------------------------------------------------------------
AccountsNext ==
    \/ webauthnRegisterBegin
    \/ \E c \in AccountCalls :
          \/ \E w \in Works, code \in {"totp", "backup"} :
                (w \in Uncoded => code = "totp") /\ GetUser(c, w, code)
          \/ mfaEnroll(c) \/ mfaConfirmLoad(c) \/ mfaConfirmGet(c) \/ mfaConfirm(c)
          \/ mfaConfirmForget(c) \/ mfaDisable(c) \/ enforceMFAAfterPubkey(c)
          \/ loginWithPassword(c) \/ setPassword(c) \/ setPasswordLoad(c)
          \/ setPasswordTake(c) \/ setPasswordStore(c) \/ clearPassword(c)
          \/ updateUser(c) \/ deleteUser(c)
          \/ webauthnRegisterLoad(c) \/ webauthnRegisterForget(c)
          \/ webauthnRegisterFinish(c) \/ webauthnRegisterFlag(c)
          \/ \E k \in AccountCalls \cup {OldPasskey} : webauthnDeleteList(c, k)
          \/ webauthnDelete(c) \/ webauthnDeleteGet(c) \/ webauthnDeleteFlag(c)
          \/ webauthnLoginBegin(c) \/ webauthnLoginLoad(c) \/ webauthnLoginFinish(c)

AccountsSpec == AccountsInit /\ [][AccountsNext]_accountVars

-----------------------------------------------------------------------------
\* Properties

\* An account with a password always has the second factor and its secret,
\* however the calls interleave and whatever writes fail or overwrite each
\* other: every row written holds both (mfa.go:128-146, password.go:104-133).
PasswordNeedsMFA ==
    row.exists /\ row.password => row.mfa /\ row.secret # Nothing

\* Once an account has been given a secret and its backup codes, a code is
\* accepted once, unless a write was lost to a call that read before it (the
\* whole row is written back) or failed (mfa.go:209 and password.go:257 ignore
\* the error).  The offer is forgotten only after the row is written
\* (mfa.go:95-99), so a confirmation in between gives the account the same
\* codes again, spent ones included.
BackupCodeAcceptedOnce ==
    ~stale /\ ~failed => \A s \in Secrets : accepts[s] <= 1

\* The flag that offers passkey login agrees with the stored passkeys once
\* the calls that write it are through, unless one of them worked on a list or
\* a row that had changed, or its write failed (webauthn.go:168 and 217).
PasskeyFlagAgrees ==
    (/\ ~stale /\ ~failed /\ row.exists
     /\ \A c \in AccountCalls : call[c].pc \notin {"flag", "reread", "unflag"})
        => row.passkey = (passkeys # {})

\* An account is an admin account only because an admin made it one, unless a
\* call that had read the old role wrote it back (api.go:1012-1041).
AdminRoleWasGiven == ~stale => (row.exists /\ row.role = "admin" => given)

\* What the calls on an account keep true of its row and its passkeys, however
\* they overlap.
AccountIsGuarded ==
    /\ AccountsTypeOK
    /\ PasswordNeedsMFA /\ BackupCodeAcceptedOnce
    /\ PasskeyFlagAgrees /\ AdminRoleWasGiven
===============================================================================
