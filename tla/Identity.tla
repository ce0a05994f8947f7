----------------------------- MODULE Identity ------------------------------
(***************************************************************************)
(* Accounts, sessions and one-time credentials (internal/auth/service.go   *)
(* over internal/platform/database/auth_store.go): first-run setup, login  *)
(* in one or two steps, invitations, and the administration of users.      *)
(*                                                                         *)
(* A handler is a sequence of statements of the store, and other requests  *)
(* come between any two of them; a transaction is one action.  Whatever a  *)
(* request makes (an account, a session, a challenge, an invitation) has   *)
(* its name, as ids and tokens are random.  What has expired is refused    *)
(* like what never existed: every statement may fail (Abort).              *)
(***************************************************************************)
EXTENDS Integers, FiniteSets

CONSTANTS
    Founder,       \* names of what the database holds at first
    Request,       \* HTTP requests, each made once
    Role,          \* the roles, "admin" among them
    RecoveryCode,  \* what newRecoveryCodes hands out to every account
    Nothing,       \* no row, no value
    MaxTime        \* bound: thirty-second steps of the clock

Name == Founder \cup Request

\* The code of an authenticator is known by the counter it is computed from.
Counter == 0..(MaxTime + 1)
Code == Counter \cup RecoveryCode

Purpose == {"setup", "invitation", "user_creation", "login_mfa"}

Account == [role : Role, counter : Counter \cup {Nothing}, enrolled : Counter \cup {Nothing},
            origin : Name \cup {"setup", "user_creation", Nothing}]
Session == [user : Name, mfa : BOOLEAN, token : Name \cup {Nothing},
            code : Code \cup {Nothing}, revoked : BOOLEAN]
Challenge == [purpose : Purpose, user : Name \cup {Nothing}]
Invitation == [role : Role, by : Name, used : BOOLEAN]
Local == [kind : {"setup", "invitation", "user_creation", "login_mfa", "login", "mfa", "account",
                  "password", "invite", "delete", "role"},
          user : Name \cup {Nothing}, role : Role \cup {Nothing},
          token : Name \cup {Nothing}, code : Code \cup {Nothing}, time : (0..MaxTime) \cup {Nothing},
          origin : Name \cup {"setup", "user_creation", Nothing}]

ASSUME AdminIsARole == "admin" \in Role
ASSUME NamesDiffer == Founder \cap Request = {} /\ {"setup", "user_creation"} \cap Name = {}
ASSUME CodesDiffer == Counter \cap RecoveryCode = {}
ASSUME NothingIsNoValue ==
    /\ Nothing \notin Name /\ Nothing \notin Role /\ Nothing \notin Code
    /\ Nothing \notin {"setup", "user_creation"}
ASSUME NothingIsNoRecord ==
    Nothing \notin Account \cup Session \cup Challenge \cup Invitation \cup Local
ASSUME TimeIsNatural == MaxTime \in Nat

VARIABLES
    account,     \* users and totp_credentials: role, last_counter, and how it came
    recovery,    \* mfa_recovery_codes that are not used
    session,     \* sessions: the account, and the credentials that opened it
    challenge,   \* auth_challenges that are not consumed
    invitation,  \* invitations: role, creator, whether used
    bootstrap,   \* there is a bootstrap token that is not consumed
    now,         \* the counter of the clock
    pc, local,   \* per request: its next statement and its local variables
    overlapped   \* history: two removals or role changes were under way at once

tables == <<account, recovery, session, challenge, invitation, bootstrap>>
vars == <<tables, now, pc, local, overlapped>>

Exists(u) == u \in Name /\ account[u] # Nothing
HasTOTP(u) == Exists(u) /\ account[u].counter # Nothing
IsAdmin(u) == Exists(u) /\ account[u].role = "admin"
Admins == {u \in Name : IsAdmin(u)}

\* Authenticate: the account of a session that is not revoked.
Authenticated(s) == session[s] # Nothing /\ ~session[s].revoked /\ Exists(session[s].user)

\* RequireRole(RoleAdmin), and the first test of each service method.
Administrator(s) == Authenticated(s) /\ IsAdmin(session[s].user)

\* validateTOTP: a code of the last, this or the next step that is newer than last.
ValidCode(code, time, last) == code \in Counter /\ code \in (time - 1)..(time + 1) /\ code > last

Goto(r, p) == pc' = [pc EXCEPT ![r] = p]
Finish(r) == Goto(r, "done") /\ local' = [local EXCEPT ![r] = Nothing]

\* A handler begins: what it was given, and what its first statement reads.  The
\* time matters to codes only.
Begin(r, p, kind, user, role, token, code, origin) ==
    /\ pc[r] = "new"
    /\ Goto(r, p)
    /\ local' = [local EXCEPT ![r] =
            [kind |-> kind, user |-> user, role |-> role, token |-> token, code |-> code,
             time |-> IF code = Nothing THEN Nothing ELSE now, origin |-> origin]]
    /\ UNCHANGED <<tables, now, overlapped>>

\* A statement found nothing, or the wrong thing: the handler answers an error.
Deny(r) == Finish(r) /\ UNCHANGED <<tables, now, overlapped>>

-----------------------------------------------------------------------------
(* Challenges *)

\* BeginSetupTOTP, BeginInvitationTOTP and BeginUserTOTP.
BeginTOTP(r, purpose) ==
    /\ \/ purpose = "setup" /\ bootstrap /\ \A u \in Name : ~Exists(u)
       \/ /\ purpose = "invitation"
          /\ \E i \in Name : invitation[i] # Nothing /\ ~invitation[i].used
                             /\ invitation[i].role = "admin"
       \/ purpose = "user_creation" /\ \E s \in Name : Administrator(s)
    /\ Begin(r, "challenge", purpose, Nothing, Nothing, Nothing, Nothing, Nothing)

\* The foreign key refuses a login challenge of a deleted account.
CreateAuthChallenge(r) ==
    /\ pc[r] = "challenge"
    /\ local[r].kind = "login_mfa" => Exists(local[r].user)
    /\ challenge' = [challenge EXCEPT ![r] =
            [purpose |-> local[r].kind, user |-> local[r].user]]
    /\ Finish(r)
    /\ UNCHANGED <<account, recovery, session, invitation, bootstrap, now, overlapped>>

Consume(t) == challenge' = [challenge EXCEPT ![t] = Nothing]

-----------------------------------------------------------------------------
(* Login *)

\* FindUserByUsername, with the right password.
Login(r, u) ==
    /\ Exists(u)
    /\ Begin(r, "find_totp", "login_mfa", u, account[u].role, Nothing, Nothing, Nothing)

\* With TOTP, or as an administrator, a login needs a second step.
FindTOTP(r) ==
    /\ pc[r] = "find_totp"
    /\ IF HasTOTP(local[r].user) \/ local[r].role = "admin"
       THEN Goto(r, "challenge") /\ UNCHANGED local
       ELSE /\ Goto(r, "session")
            /\ local' = [local EXCEPT ![r].kind = "login"]
    /\ UNCHANGED <<tables, now, overlapped>>

\* CompleteLoginMFA: the clock is read, then the challenge is consumed.
CompleteLoginMFA(r, t, code) ==
    /\ pc[r] = "new"
    /\ challenge[t] # Nothing /\ challenge[t].purpose = "login_mfa"
    /\ Consume(t)
    /\ Goto(r, "credential")
    /\ local' = [local EXCEPT ![r] =
            [kind |-> "mfa", user |-> challenge[t].user, role |-> Nothing, token |-> t,
             code |-> code, time |-> now, origin |-> Nothing]]
    /\ UNCHANGED <<account, recovery, session, invitation, bootstrap, now, overlapped>>

\* FindUserByID, FindTOTP and validateTOTP.
LoadCredential(r) ==
    /\ pc[r] = "credential"
    /\ HasTOTP(local[r].user)
    /\ Goto(r, IF ValidCode(local[r].code, local[r].time, account[local[r].user].counter)
               THEN "counter" ELSE "recovery")
    /\ UNCHANGED <<tables, now, local, overlapped>>

\* Mutant: the update does not compare.
UpdateAnyCounter(r) ==
    /\ pc[r] = "counter"
    /\ HasTOTP(local[r].user)
    /\ account' = [account EXCEPT ![local[r].user].counter = local[r].code]
    /\ Goto(r, "session")
    /\ UNCHANGED <<recovery, session, challenge, invitation, bootstrap, now, local, overlapped>>

\* UPDATE ... WHERE last_counter < ?, which must change a row.
UpdateTOTPCounter(r) ==
    /\ pc[r] = "counter"
    /\ HasTOTP(local[r].user) /\ account[local[r].user].counter < local[r].code
    /\ account' = [account EXCEPT ![local[r].user].counter = local[r].code]
    /\ Goto(r, "session")
    /\ UNCHANGED <<recovery, session, challenge, invitation, bootstrap, now, local, overlapped>>

\* UPDATE ... WHERE used_at IS NULL.
UseRecoveryCode(r) ==
    /\ pc[r] = "recovery"
    /\ local[r].code \in recovery[local[r].user]
    /\ recovery' = [recovery EXCEPT ![local[r].user] = @ \ {local[r].code}]
    /\ Goto(r, "session")
    /\ UNCHANGED <<account, session, challenge, invitation, bootstrap, now, local, overlapped>>

\* createSession's second argument: whether a second factor was shown.
Verified(r) == local[r].kind = "mfa" \/ (local[r].kind = "account" /\ local[r].role = "admin")

NewSession(r) == [user |-> local[r].user, mfa |-> Verified(r), token |-> local[r].token,
                  code |-> local[r].code, revoked |-> FALSE]

\* Mutant: a connection without the foreign_keys pragma.
CreateSessionUnchecked(r) ==
    /\ pc[r] = "session"
    /\ session' = [session EXCEPT ![r] = NewSession(r)]
    /\ Finish(r)
    /\ UNCHANGED <<account, recovery, challenge, invitation, bootstrap, now, overlapped>>

\* The foreign key refuses a session of a deleted account.
CreateSession(r) ==
    /\ pc[r] = "session"
    /\ Exists(local[r].user)
    /\ session' = [session EXCEPT ![r] = NewSession(r)]
    /\ Finish(r)
    /\ UNCHANGED <<account, recovery, challenge, invitation, bootstrap, now, overlapped>>

\* What revoking the sessions of an account leaves.
Revoked(u) ==
    [s \in Name |-> IF session[s] # Nothing /\ session[s].user = u
                    THEN [session[s] EXCEPT !.revoked = TRUE] ELSE session[s]]

Logout(r, s) ==
    /\ pc[r] = "new"
    /\ Authenticated(s)
    /\ session' = [session EXCEPT ![s].revoked = TRUE]
    /\ Finish(r)
    /\ UNCHANGED <<account, recovery, challenge, invitation, bootstrap, now, overlapped>>

\* The current password is verified, the new one assessed.
ChangePassword(r, s) ==
    /\ Authenticated(s)
    /\ Begin(r, "password", "password", session[s].user, Nothing, Nothing, Nothing, Nothing)

\* One transaction writes the password and revokes the sessions.
UpdatePassword(r) ==
    /\ pc[r] = "password"
    /\ session' = Revoked(local[r].user)
    /\ Finish(r)
    /\ UNCHANGED <<account, recovery, challenge, invitation, bootstrap, now, overlapped>>

-----------------------------------------------------------------------------
(* New accounts: setup, invitations, creation by an administrator *)

\* Only for an administrator are the enrollment and its code looked at.
Apply(r, role, t, code, origin) ==
    IF role = "admin" THEN Begin(r, "enrollment", "account", r, role, t, code, origin)
    ELSE Begin(r, "insert", "account", r, role, Nothing, Nothing, origin)

CompleteSetup(r, t, code) ==
    /\ bootstrap /\ \A u \in Name : ~Exists(u)
    /\ Apply(r, "admin", t, code, "setup")

AcceptInvitation(r, i, t, code) ==
    /\ invitation[i] # Nothing /\ ~invitation[i].used
    /\ Apply(r, invitation[i].role, t, code, i)

CreateUser(r, s, role, t, code) ==
    /\ Administrator(s)
    /\ Apply(r, role, t, code, "user_creation")

\* What the enrollment must have been begun for.
PurposeOf(r) == IF local[r].origin \in {"setup", "user_creation"} THEN local[r].origin ELSE "invitation"

\* CompleteSetup reads the clock here, the others when they begin.
EnrollmentTime(r) == IF local[r].origin = "setup" THEN now ELSE local[r].time

IsEnrollment(r) ==
    LET t == local[r].token IN challenge[t] # Nothing /\ challenge[t].purpose = PurposeOf(r)

\* AuthChallengeByToken and validateTOTP.
LoadEnrollment(r) ==
    /\ pc[r] = "enrollment"
    /\ IsEnrollment(r)
    /\ ValidCode(local[r].code, EnrollmentTime(r), -1)
    /\ Goto(r, "consume")
    /\ UNCHANGED <<tables, now, local, overlapped>>

ConsumeEnrollment(r) ==
    /\ pc[r] = "consume"
    /\ IsEnrollment(r)
    /\ Consume(local[r].token)
    /\ Goto(r, "insert")
    /\ UNCHANGED <<account, recovery, session, invitation, bootstrap, now, local, overlapped>>

NewAccount(r) == [role |-> local[r].role, counter |-> local[r].code,
                  enrolled |-> local[r].code, origin |-> local[r].origin]

\* Mutant: the credential starts at the step after that of the code.
InsertAccountNextCounter(r) ==
    LET new == NewAccount(r) IN
    /\ account' = [account EXCEPT ![r] =
            IF new.counter = Nothing THEN new ELSE [new EXCEPT !.counter = @ + 1]]
    /\ recovery' = [recovery EXCEPT ![r] = IF local[r].role = "admin" THEN RecoveryCode ELSE {}]

\* insertUser, insertTOTP and the recovery codes.
InsertAccount(r) ==
    /\ account' = [account EXCEPT ![r] = NewAccount(r)]
    /\ recovery' = [recovery EXCEPT ![r] = IF local[r].role = "admin" THEN RecoveryCode ELSE {}]

\* After the account comes its session.
Welcome(r) ==
    /\ Goto(r, "session")
    /\ local' = [local EXCEPT ![r].token = Nothing, ![r].code = Nothing]

\* CreateFirstAdmin counts the users and the tokens once more.
CreateFirstAdmin(r) ==
    /\ pc[r] = "insert" /\ local[r].origin = "setup"
    /\ bootstrap /\ \A u \in Name : ~Exists(u)
    /\ InsertAccount(r)
    /\ bootstrap' = FALSE
    /\ Welcome(r)
    /\ UNCHANGED <<session, challenge, invitation, now, overlapped>>

\* AuthStore.AcceptInvitation counts the unused invitation once more.
StoreInvitation(r) ==
    /\ pc[r] = "insert" /\ local[r].origin \in Name
    /\ invitation[local[r].origin] # Nothing /\ ~invitation[local[r].origin].used
    /\ InsertAccount(r)
    /\ invitation' = [invitation EXCEPT ![local[r].origin].used = TRUE]
    /\ Welcome(r)
    /\ UNCHANGED <<session, challenge, bootstrap, now, overlapped>>

\* AuthStore.CreateUser: the account is for somebody else, without a session.
StoreUser(r) ==
    /\ pc[r] = "insert" /\ local[r].origin = "user_creation"
    /\ InsertAccount(r)
    /\ Finish(r)
    /\ UNCHANGED <<session, challenge, invitation, bootstrap, now, overlapped>>

CreateInvitation(r, s, role) ==
    /\ Administrator(s)
    /\ Begin(r, "invite", "invite", session[s].user, role, Nothing, Nothing, Nothing)

\* The foreign key refuses an invitation by a deleted account.
StoreNewInvitation(r) ==
    /\ pc[r] = "invite"
    /\ Exists(local[r].user)
    /\ invitation' = [invitation EXCEPT ![r] =
            [role |-> local[r].role, by |-> local[r].user, used |-> FALSE]]
    /\ Finish(r)
    /\ UNCHANGED <<account, recovery, session, challenge, bootstrap, now, overlapped>>

-----------------------------------------------------------------------------
(* Removal and roles *)

\* Between its first read of the target and its write.
Deciding(r) == pc[r] \in {"count", "totp", "delete", "role"}

DeleteUser(r, s, u) ==
    /\ Administrator(s) /\ u # session[s].user
    /\ Begin(r, "target", "delete", u, Nothing, Nothing, Nothing, Nothing)

ChangeUserRole(r, s, u, role) ==
    /\ Administrator(s)
    /\ Begin(r, "target", "role", u, role, Nothing, Nothing, Nothing)

\* What a request does once the administrators need not be counted.
Proceed(r) ==
    IF local[r].kind = "delete" THEN "delete"
    ELSE IF local[r].role = "admin" THEN "totp" ELSE "role"

\* FindUserByID: an administrator who is to be one no longer is counted first.
FindTarget(r) ==
    /\ pc[r] = "target"
    /\ Exists(local[r].user)
    /\ Goto(r, IF IsAdmin(local[r].user) /\ local[r].role # "admin" THEN "count" ELSE Proceed(r))
    /\ overlapped' = (overlapped \/ \E q \in Request : Deciding(q))
    /\ UNCHANGED <<tables, now, local>>

CountAdmins(r) ==
    /\ pc[r] = "count"
    /\ Cardinality(Admins) > 1
    /\ Goto(r, Proceed(r))
    /\ UNCHANGED <<tables, now, local, overlapped>>

\* Mutant: anybody can be made an administrator.
RequireNoTOTP(r) ==
    /\ pc[r] = "totp"
    /\ Goto(r, "role")
    /\ UNCHANGED <<tables, now, local, overlapped>>

\* An administrator needs TOTP.
RequireTOTP(r) ==
    /\ pc[r] = "totp"
    /\ HasTOTP(local[r].user)
    /\ Goto(r, "role")
    /\ UNCHANGED <<tables, now, local, overlapped>>

SetUserRole(r) ==
    /\ pc[r] = "role"
    /\ account' = IF Exists(local[r].user)
                  THEN [account EXCEPT ![local[r].user].role = local[r].role] ELSE account
    /\ Goto(r, "revoke")
    /\ UNCHANGED <<recovery, session, challenge, invitation, bootstrap, now, local, overlapped>>

RevokeUserSessions(r) ==
    /\ pc[r] = "revoke"
    /\ session' = Revoked(local[r].user)
    /\ Finish(r)
    /\ UNCHANGED <<account, recovery, challenge, invitation, bootstrap, now, overlapped>>

\* The user and, by the cascade, all that is the user's.
StoreDeleteUser(r) ==
    LET u == local[r].user IN
    /\ pc[r] = "delete"
    /\ account' = [account EXCEPT ![u] = Nothing]
    /\ recovery' = [recovery EXCEPT ![u] = {}]
    /\ session' = [s \in Name |-> IF session[s] # Nothing /\ session[s].user = u
                                  THEN Nothing ELSE session[s]]
    /\ challenge' = [t \in Name |-> IF challenge[t] # Nothing /\ challenge[t].user = u
                                    THEN Nothing ELSE challenge[t]]
    /\ invitation' = [i \in Name |-> IF invitation[i] # Nothing /\ invitation[i].by = u
                                     THEN Nothing ELSE invitation[i]]
    /\ Finish(r)
    /\ UNCHANGED <<bootstrap, now, overlapped>>

-----------------------------------------------------------------------------
(* Everything else *)

\* A statement finds nothing or fails, what was asked for has expired, the user
\* name is taken, the client goes away: the handler ends where it is.
Abort(r) ==
    /\ pc[r] \notin {"new", "done"}
    /\ Deny(r)

\* The process is started again: EnsureBootstrap, without users, makes a token.
Restart ==
    /\ pc' = [r \in Request |-> IF pc[r] = "new" THEN "new" ELSE "done"]
    /\ local' = [r \in Request |-> Nothing]
    /\ bootstrap' = (bootstrap \/ \A u \in Name : ~Exists(u))
    /\ UNCHANGED <<account, recovery, session, challenge, invitation, now, overlapped>>

Tick ==
    /\ now < MaxTime
    /\ now' = now + 1
    /\ UNCHANGED <<tables, pc, local, overlapped>>

-----------------------------------------------------------------------------
Founding(role, counter) ==
    [role |-> role, counter |-> counter, enrolled |-> counter, origin |-> Nothing]

\* The accounts a database may hold: an administrator has TOTP, others may.
FoundingAccount ==
    {Founding(role, 0) : role \in Role} \cup {Founding(role, Nothing) : role \in Role \ {"admin"}}

Enrollments(purpose) ==
    [n \in Name |-> IF n \in Founder THEN [purpose |-> purpose, user |-> Nothing] ELSE Nothing]

\* The database of a backend that has been running, with its sessions, pending
\* challenges and invitations.
Running ==
    /\ \E founders \in [Founder -> FoundingAccount] :
        account = [n \in Name |-> IF n \in Founder THEN founders[n] ELSE Nothing]
    /\ Admins # {}
    /\ recovery = [n \in Name |-> IF HasTOTP(n) THEN RecoveryCode ELSE {}]
    /\ session = [n \in Name |->
            IF Exists(n) THEN [user |-> n, mfa |-> HasTOTP(n), token |-> Nothing,
                               code |-> Nothing, revoked |-> FALSE]
            ELSE Nothing]
    /\ \/ \E users \in [Founder -> {u \in Name : HasTOTP(u)}] : challenge = [n \in Name |->
            IF n \in Founder THEN [purpose |-> "login_mfa", user |-> users[n]] ELSE Nothing]
       \/ \E purpose \in {"user_creation", "invitation"} : challenge = Enrollments(purpose)
    /\ \E role \in Role :
        invitation = [n \in Name |->
            IF IsAdmin(n) THEN [role |-> role, by |-> n, used |-> FALSE] ELSE Nothing]
    /\ bootstrap = FALSE

\* A new database, and enrollments begun before its setup.
Empty ==
    /\ account = [n \in Name |-> Nothing]
    /\ recovery = [n \in Name |-> {}]
    /\ session = [n \in Name |-> Nothing]
    /\ challenge = Enrollments("setup")
    /\ invitation = [n \in Name |-> Nothing]
    /\ bootstrap = TRUE

Init ==
    /\ Running \/ Empty
    /\ now = 0
    /\ pc = [r \in Request |-> "new"]
    /\ local = [r \in Request |-> Nothing]
    /\ overlapped = FALSE

Enter(r) ==
    \/ \E purpose \in Purpose \ {"login_mfa"} : BeginTOTP(r, purpose)
    \/ \E u \in Name : Login(r, u)
    \/ \E t \in Name, code \in Code : CompleteLoginMFA(r, t, code)
    \/ \E t \in Name, code \in Counter : CompleteSetup(r, t, code)
    \/ \E i, t \in Name, code \in Counter : AcceptInvitation(r, i, t, code)
    \/ \E s \in Name : Logout(r, s) \/ ChangePassword(r, s)
    \/ \E s \in Name, role \in Role : CreateInvitation(r, s, role)
    \/ \E s, t \in Name, role \in Role, code \in Counter : CreateUser(r, s, role, t, code)
    \/ \E s, u \in Name : DeleteUser(r, s, u)
    \/ \E s, u \in Name, role \in Role : ChangeUserRole(r, s, u, role)

Step(r) ==
    \/ CreateAuthChallenge(r) \/ FindTOTP(r)
    \/ LoadCredential(r) \/ UpdateTOTPCounter(r) \/ UseRecoveryCode(r) \/ CreateSession(r)
    \/ UpdatePassword(r)
    \/ LoadEnrollment(r) \/ ConsumeEnrollment(r)
    \/ CreateFirstAdmin(r) \/ StoreInvitation(r) \/ StoreUser(r) \/ StoreNewInvitation(r)
    \/ FindTarget(r) \/ CountAdmins(r) \/ RequireTOTP(r)
    \/ SetUserRole(r) \/ RevokeUserSessions(r) \/ StoreDeleteUser(r)

Next ==
    \/ \E r \in Request : Enter(r) \/ Step(r) \/ Abort(r)
    \/ Restart \/ Tick

Spec == Init /\ [][Next]_vars

-----------------------------------------------------------------------------
(* Correctness *)

\* The tables hold what their columns admit (001_identity.sql), and a handler is
\* between two statements of its own: a counter is never a recovery code, and
\* what asks for an account is an account's.
TypeOK ==
    /\ account \in [Name -> Account \cup {Nothing}]
    /\ recovery \in [Name -> SUBSET RecoveryCode]
    /\ session \in [Name -> Session \cup {Nothing}]
    /\ challenge \in [Name -> Challenge \cup {Nothing}]
    /\ invitation \in [Name -> Invitation \cup {Nothing}]
    /\ bootstrap \in BOOLEAN
    /\ now \in 0..MaxTime
    /\ pc \in [Request -> {"new", "challenge", "find_totp", "credential", "counter", "recovery",
                           "session", "password", "enrollment", "consume", "insert", "invite",
                           "target", "count", "totp", "role", "revoke", "delete", "done"}]
    /\ local \in [Request -> Local \cup {Nothing}]
    /\ overlapped \in BOOLEAN

OpenedBy(s) == <<session[s].user, session[s].code>>

\* A second factor counts once (UpdateTOTPCounter, UseRecoveryCode and
\* ConsumeAuthChallenge, auth_store.go), whatever logins run side by side: no two
\* sessions were opened by one login challenge, or by one code of one account,
\* or by the code the account was enrolled with.
LoginsCountOnce ==
    LET opened == {s \in Name : session[s] # Nothing /\ session[s].code # Nothing} IN
    /\ \A s, q \in opened : s # q => session[s].token # session[q].token
    /\ \A s, q \in opened : s # q => OpenedBy(s) # OpenedBy(q)
    /\ \A s \in opened : session[s].code # account[session[s].user].enrolled

\* An invitation makes one account, and setup makes one while there is none
\* (AcceptInvitation and CreateFirstAdmin count again, auth_store.go), although
\* any number of requests may hold the invitation or the bootstrap token.
AccountsCountOnce ==
    \A u, v \in Name :
        /\ Exists(u) /\ Exists(v) /\ u # v
        /\ account[u].origin \in Name \cup {"setup"}
        => account[u].origin # account[v].origin

\* Neither a login nor an account is had twice for one secret.
SecretsCountOnce == LoginsCountOnce /\ AccountsCountOnce

\* Deleting an account (DeleteUser, auth_store.go) leaves nothing it could still
\* be used by, not even what a handler that read the account before the deletion
\* stores after it: sessions, login challenges, recovery codes and invitations
\* are those of accounts that exist.
NothingOutlivesItsAccount ==
    \A n \in Name :
        /\ session[n] # Nothing => Exists(session[n].user)
        /\ challenge[n] # Nothing /\ challenge[n].purpose = "login_mfa" => Exists(challenge[n].user)
        /\ invitation[n] # Nothing => Exists(invitation[n].by)
        /\ recovery[n] # {} => Exists(n)

\* An administrator has TOTP, and is signed in only by a second factor, however
\* the role was come by: setup, an invitation, creation, or a change of role that
\* leaves older sessions live until they are revoked (Login, ChangeUserRole).
AdministratorsAreVerified ==
    /\ \A u \in Admins : HasTOTP(u)
    /\ \A s \in Name : Administrator(s) => session[s].mfa

\* The last administrator is neither deleted nor demoted (DeleteUser and
\* ChangeUserRole count before they write, service.go), unless two such requests
\* ran at once, which the code does not prevent.
AdministratorRemains == (\E u \in Name : Exists(u)) => Admins # {} \/ overlapped

\* There is an administrator, and all of them are who they say.
AdministratorsHold == AdministratorsAreVerified /\ AdministratorRemains

=============================================================================
